---------------------------- MODULE SpeedProofs ----------------------------
(***************************************************************************)
(* Proofs about Speed, for any period, window and delay: the types, and     *)
(* that pruning up to the first valid sample is pruning by age, because the *)
(* samples are in order of time and of bytes.                               *)
(***************************************************************************)
EXTENDS Speed, TLAPS, WellFoundedInduction

\* A sample is never newer than the next one, nor does it count more bytes.
InOrder ==
  \A i, j \in 1..Len(samples) :
    i <= j => samples[i].timestamp <= samples[j].timestamp /\ samples[i].sent <= samples[j].sent

\* The counter that was read last is not below the one of any sample.
LoadedLast == \A i \in 1..Len(samples) : samples[i].sent <= loaded

IInv == TypeOK /\ idle <= now /\ InOrder /\ LoadedLast

-----------------------------------------------------------------------------
\* A set of numbers that is not empty has a least element.
LEMMA LeastExists ==
  ASSUME NEW S \in SUBSET Nat, S /= {}
  PROVE  First(S) \in S /\ \A j \in S : First(S) <= j
<1>1. PICK m \in S : \A n \in S : ~(<<n, m>> \in OpToRel(<, Nat))
  BY NatLessThanWellFounded, WFMin
<1>2. \A n \in S : ~(n < m)
  BY <1>1 DEF OpToRel
<1>3. \A n \in S : m <= n
  BY <1>2
<1> QED
  BY <1>3 DEF First

LEMMA SampleFields ==
  ASSUME NEW s \in Seq(Sample), NEW i \in 1..Len(s)
  PROVE  s[i].timestamp \in 0..now /\ s[i].sent \in 0..sent
<1>1. s[i] \in Sample
  OBVIOUS
<1> QED
  BY <1>1 DEF Sample

\* What is left after pruning: the samples from number k + 1 on, which are
\* those of the window.
LEMMA PrunedFacts ==
  ASSUME IInv, NEW all, all = Append(samples, NewSample)
  PROVE  /\ all \in Seq(Sample) /\ Len(all) = Len(samples) + 1
         /\ \A i, j \in 1..Len(all) :
              i <= j => all[i].timestamp <= all[j].timestamp /\ all[i].sent <= all[j].sent
         /\ \A i \in 1..Len(all) : all[i].sent <= loaded
         /\ \E k \in 0..Len(samples) :
              /\ Pruned(all) = SubSeq(all, k + 1, Len(all))
              /\ \A i \in 1..Len(all) : i > k <=> all[i].timestamp > now - Window
<1>0. /\ samples \in Seq(Sample) /\ now \in Nat /\ sent \in Nat /\ loaded \in 0..sent
      /\ Window \in Nat \ {0}
  BY TimeAssumption, BoundAssumption DEF IInv, TypeOK
<1>1. NewSample \in Sample /\ NewSample.timestamp = now /\ NewSample.sent = loaded
  BY <1>0 DEF NewSample, Sample
<1>2. /\ all \in Seq(Sample) /\ Len(all) = Len(samples) + 1
      /\ \A i \in 1..Len(samples) : all[i] = samples[i]
      /\ all[Len(all)] = NewSample
  BY <1>0, <1>1
<1>3. \A i \in 1..Len(all) : all[i].timestamp \in 0..now /\ all[i].sent \in 0..sent
  BY <1>2, SampleFields
<1>4. \A i, j \in 1..Len(all) :
        i <= j => all[i].timestamp <= all[j].timestamp /\ all[i].sent <= all[j].sent
  <2> SUFFICES ASSUME NEW i \in 1..Len(all), NEW j \in 1..Len(all), i <= j
               PROVE  all[i].timestamp <= all[j].timestamp /\ all[i].sent <= all[j].sent
    OBVIOUS
  <2>1. CASE j = Len(all) /\ i = j
    BY <1>0, <1>3, <2>1
  <2>2. CASE j = Len(all) /\ i < j
    <3>1. i \in 1..Len(samples) /\ all[i] = samples[i]
      BY <1>0, <1>2, <2>2
    <3>2. all[i].sent <= loaded
      BY <3>1 DEF IInv, LoadedLast
    <3> QED
      BY <1>0, <1>1, <1>2, <1>3, <2>2, <3>2
  <2>3. CASE j < Len(all)
    <3>1. i \in 1..Len(samples) /\ j \in 1..Len(samples)
      BY <1>0, <1>2, <2>3
    <3> QED
      BY <1>2, <3>1 DEF IInv, InOrder
  <2> QED
    BY <1>0, <1>2, <2>1, <2>2, <2>3
<1>5. \A i \in 1..Len(all) : all[i].sent <= loaded
  <2>1. Len(all) \in 1..Len(all) /\ Len(all) \in Nat
    BY <1>0, <1>2
  <2> QED
    BY <1>0, <1>1, <1>2, <1>3, <1>4, <2>1
<1>6. \E k \in 0..Len(samples) :
        /\ Pruned(all) = SubSeq(all, k + 1, Len(all))
        /\ \A i \in 1..Len(all) : i > k <=> all[i].timestamp > now - Window
  <2>1. DOMAIN all = 1..Len(all) /\ Len(all) \in Nat \ {0}
    BY <1>0, <1>2
  <2>2. Valid(all) \in SUBSET Nat /\ Len(all) \in Valid(all)
    BY <1>0, <1>1, <1>2, <2>1 DEF Valid
  <2> DEFINE f == First(Valid(all))
  <2>3. f \in Valid(all) /\ \A j \in Valid(all) : f <= j
    BY <2>2, LeastExists
  <2>4. f \in 1..Len(all) /\ all[f].timestamp > now - Window
    BY <2>1, <2>3 DEF Valid
  <2>5. \A i \in 1..Len(all) : i >= f => all[i].timestamp > now - Window
    BY <1>0, <1>3, <1>4, <2>4
  <2>6. \A i \in 1..Len(all) : all[i].timestamp > now - Window => i >= f
    BY <2>1, <2>3 DEF Valid
  <2>7. f - 1 \in 0..Len(samples) /\ (f - 1) + 1 = f
    BY <1>0, <1>2, <2>4
  <2>8. \A i \in 1..Len(all) : i > f - 1 <=> all[i].timestamp > now - Window
    BY <2>4, <2>5, <2>6
  <2> HIDE DEF f
  <2>9. Pruned(all) = SubSeq(all, (f - 1) + 1, Len(all))
    BY <2>7 DEF Pruned, f
  <2> QED
    BY <2>7, <2>8, <2>9
<1> QED
  BY <1>2, <1>4, <1>5, <1>6

\* A tail of the samples keeps their order.
LEMMA TailFacts ==
  ASSUME NEW S, NEW all \in Seq(S), NEW k \in 0..Len(all)
  PROVE  LET t == SubSeq(all, k + 1, Len(all))
         IN  /\ t \in Seq(S) /\ Len(t) = Len(all) - k
             /\ \A i \in 1..Len(t) : i + k \in 1..Len(all) /\ t[i] = all[i + k]
<1> DEFINE t == SubSeq(all, k + 1, Len(all))
<1>1. Len(all) \in Nat /\ k + 1 \in 1..Len(all) + 1
  OBVIOUS
<1>2. t \in Seq(S)
  BY <1>1
<1>3. Len(t) = Len(all) - k
  BY <1>1
<1>4. \A i \in 1..Len(t) : i + k \in 1..Len(all) /\ t[i] = all[i + k]
  BY <1>1, <1>3
<1> QED
  BY <1>2, <1>3, <1>4

-----------------------------------------------------------------------------
LEMMA Bounds == 0 \in 0..Delay /\ Delay \in Nat /\ MaxTime \in Nat
<1>1. Delay >= 0 /\ Delay \in Int
  BY TimeAssumption
<1> QED
  BY <1>1, BoundAssumption

LEMMA InitIInv == Init => IInv
<1> SUFFICES ASSUME Init PROVE IInv
  OBVIOUS
<1>1. samples = <<>> /\ Len(samples) = 0 /\ samples \in Seq(Sample)
  BY DEF Init
<1>2. InOrder /\ LoadedLast
  BY <1>1 DEF InOrder, LoadedLast
<1>3. /\ now = 0 /\ idle = 0 /\ sent = 0 /\ loaded = 0 /\ waited = 0
      /\ tick = FALSE /\ done = FALSE /\ sampler = "wait"
  BY DEF Init
<1>4. 0 \in 0..MaxTime /\ 0 \in 0..0 /\ 0 <= 0
  BY Bounds
<1>5. TypeOK /\ idle <= now
  BY <1>1, <1>3, <1>4, Bounds DEF TypeOK
<1> QED
  BY <1>2, <1>5 DEF IInv

LEMMA StepIInv == IInv /\ [Next]_vars => IInv'
<1> SUFFICES ASSUME IInv, [Next]_vars PROVE IInv'
  OBVIOUS
<1> USE TimeAssumption, BoundAssumption
<1>0. /\ now \in 0..MaxTime /\ idle \in 0..now /\ sent \in Nat /\ loaded \in 0..sent
      /\ samples \in Seq(Sample) /\ TypeOK
  BY DEF IInv, TypeOK
\* The types of the samples grow with the clock and the counter.
<1>1. ASSUME now' \in Nat, sent' \in Nat, now <= now', sent <= sent'
      PROVE  \A s \in Seq(Sample) : s \in Seq(Sample')
  <2>1. Sample \subseteq Sample'
    BY <1>0, <1>1 DEF Sample
  <2> QED
    BY <2>1
<1>2. CASE Clock
  <2>1. /\ now' = now + 1 /\ now' \in 0..MaxTime /\ idle' = idle + 1 /\ sent' = sent
        /\ UNCHANGED <<sampler, loaded, samples, done>>
    BY <1>0, <1>2 DEF Clock
  <2>2. samples' \in Seq(Sample')
    BY <1>0, <1>1, <2>1
  <2>3. waited' \in 0..Delay /\ tick' \in BOOLEAN
    BY <1>0, <1>2 DEF Clock, TypeOK
  <2> QED
    BY <1>0, <2>1, <2>2, <2>3 DEF IInv, TypeOK, InOrder, LoadedLast
<1>3. CASE RecordBytesSent
  <2>1. /\ sent' = sent + Chunk /\ idle' = 0
        /\ UNCHANGED <<now, tick, sampler, waited, loaded, samples, done>>
    BY <1>3 DEF RecordBytesSent
  <2>2. samples' \in Seq(Sample')
    BY <1>0, <1>1, <2>1
  <2> QED
    BY <1>0, <2>1, <2>2 DEF IInv, TypeOK, InOrder, LoadedLast
<1>4. CASE TakeTick
  <2>1. /\ UNCHANGED <<now, idle, sent, samples, done>> /\ loaded' = sent
        /\ tick' = FALSE /\ sampler' = "add" /\ waited' = 0
    BY <1>4 DEF TakeTick
  <2>2. samples' \in Seq(Sample')
    BY <1>0, <1>1, <2>1
  <2>3. \A i \in 1..Len(samples) : samples[i].sent <= sent
    BY <1>0, SampleFields
  <2>4. InOrder' /\ LoadedLast'
    BY <2>1, <2>3 DEF IInv, InOrder, LoadedLast
  <2>5. waited' \in 0..Delay /\ loaded' \in 0..sent'
    BY <1>0, <2>1, Bounds
  <2> QED
    BY <1>0, <2>1, <2>2, <2>4, <2>5 DEF IInv, TypeOK
<1>5. CASE AddSample
  <2> DEFINE all == Append(samples, NewSample)
  <2>1. /\ UNCHANGED <<now, idle, sent, tick, loaded, done>> /\ sampler' = "wait" /\ waited' = 0
        /\ samples' = Pruned(all)
    BY <1>5 DEF AddSample
  <2>2. PICK k \in 0..Len(samples) : Pruned(all) = SubSeq(all, k + 1, Len(all))
    BY PrunedFacts
  <2>3. /\ all \in Seq(Sample) /\ Len(all) = Len(samples) + 1
        /\ \A i, j \in 1..Len(all) :
             i <= j => all[i].timestamp <= all[j].timestamp /\ all[i].sent <= all[j].sent
        /\ \A i \in 1..Len(all) : all[i].sent <= loaded
    BY PrunedFacts
  <2> HIDE DEF all
  <2>4. k \in 0..Len(all)
    BY <1>0, <2>2, <2>3
  <2>5. /\ samples' \in Seq(Sample) /\ Len(samples') = Len(all) - k
        /\ \A i \in 1..Len(samples') : i + k \in 1..Len(all) /\ samples'[i] = all[i + k]
    BY <2>1, <2>2, <2>3, <2>4, TailFacts
  <2>6. samples' \in Seq(Sample')
    BY <1>0, <1>1, <2>1, <2>5
  <2>7. InOrder'
    <3> SUFFICES ASSUME NEW i \in 1..Len(samples'), NEW j \in 1..Len(samples'), i <= j
                 PROVE  /\ samples'[i].timestamp <= samples'[j].timestamp
                        /\ samples'[i].sent <= samples'[j].sent
      BY DEF InOrder
    <3>1. i + k <= j + k
      BY <2>4
    <3> QED
      BY <2>3, <2>5, <3>1
  <2>8. LoadedLast'
    BY <2>1, <2>3, <2>5 DEF LoadedLast
  <2>9. waited' \in 0..Delay
    BY <2>1
  <2> QED
    BY <1>0, <2>1, <2>6, <2>7, <2>8, <2>9 DEF IInv, TypeOK
<1>6. CASE Stop \/ SamplerEnds
  <2>1. /\ UNCHANGED <<now, idle, sent, tick, waited, loaded, samples>>
        /\ done' \in BOOLEAN /\ sampler' \in {"wait", "add", "ended"}
    BY <1>0, <1>6 DEF Stop, SamplerEnds, TypeOK
  <2>2. samples' \in Seq(Sample')
    BY <1>0, <1>1, <2>1
  <2> QED
    BY <1>0, <2>1, <2>2 DEF IInv, TypeOK, InOrder, LoadedLast
<1>7. CASE UNCHANGED vars
  <2>1. samples' \in Seq(Sample')
    BY <1>0, <1>1, <1>7 DEF vars
  <2> QED
    BY <1>0, <1>7, <2>1 DEF vars, IInv, TypeOK, InOrder, LoadedLast
<1> QED
  BY <1>2, <1>3, <1>4, <1>5, <1>6, <1>7 DEF Next

\* The tracker's samples, and everything else, keep their types: no sample is
\* from the future or counts more than was sent.
THEOREM TypeCorrect == Spec => []TypeOK
<1>1. IInv => TypeOK
  BY DEF IInv
<1> QED
  BY <1>1, InitIInv, StepIInv, PTL DEF Spec

\* The window is exactly what AddSample keeps.
THEOREM WindowKeptAlways == Spec => WindowKept
<1> DEFINE all == Append(samples, NewSample)
           Keeps == samples' /= samples =>
                      \E k \in 0..Len(samples) :
                        /\ samples' = SubSeq(all, k + 1, Len(all))
                        /\ \A i \in 1..Len(all) : i > k <=> all[i].timestamp > now - Window
<1>1. IInv /\ [Next]_vars => [Keeps]_vars
  <2> SUFFICES ASSUME IInv, [Next]_vars, samples' /= samples PROVE Keeps
    OBVIOUS
  <2>1. AddSample
    BY DEF Next, Clock, RecordBytesSent, TakeTick, Stop, SamplerEnds, vars
  <2> QED
    BY <2>1, PrunedFacts DEF AddSample
<1> QED
  BY <1>1, InitIInv, StepIInv, PTL DEF Spec, WindowKept

\* The speed that is shown is a difference of a later and an earlier sample:
\* it is never negative.
THEOREM SpeedNotNegative == Spec => [](GetCurrentSpeed \in Nat)
<1>1. IInv => GetCurrentSpeed \in Nat
  <2> SUFFICES ASSUME IInv, Len(samples) >= 2,
                      samples[Len(samples)].timestamp - samples[1].timestamp /= 0
               PROVE  (samples[Len(samples)].sent - samples[1].sent)
                        \div (samples[Len(samples)].timestamp - samples[1].timestamp) \in Nat
    BY DEF GetCurrentSpeed, IInv, TypeOK
  <2>1. samples \in Seq(Sample) /\ now \in Nat /\ sent \in Nat
    BY DEF IInv, TypeOK
  <2>2. 1 \in 1..Len(samples) /\ Len(samples) \in 1..Len(samples)
    BY <2>1
  <2>3. /\ samples[1].timestamp \in Nat /\ samples[1].sent \in Nat
        /\ samples[Len(samples)].timestamp \in Nat /\ samples[Len(samples)].sent \in Nat
    BY <2>1, <2>2, SampleFields
  <2>4. /\ samples[1].timestamp <= samples[Len(samples)].timestamp
        /\ samples[1].sent <= samples[Len(samples)].sent
    BY <2>2 DEF IInv, InOrder
  <2>5. \A a \in Nat, b \in Nat \ {0} : a \div b \in Nat
    OBVIOUS
  <2>6. /\ samples[Len(samples)].sent - samples[1].sent \in Nat
        /\ samples[Len(samples)].timestamp - samples[1].timestamp \in Nat \ {0}
    BY <2>3, <2>4
  <2> QED
    BY <2>5, <2>6
<1> QED
  BY <1>1, InitIInv, StepIInv, PTL DEF Spec
-----------------------------------------------------------------------------
(* How late the samples are.                                                *)

\* When the newest sample was added; the start counts as a sample.
LastAdded == IF samples = <<>> THEN 0 ELSE samples[Len(samples)].timestamp

\* No tick has come since the newest sample, or the sampler is on its way: it
\* is at most a period and two delays behind.
Punctual ==
  ~done => /\ sampler \in {"wait", "add"}
           /\ sampler = "wait" /\ ~tick => now - LastAdded <= now % Period
           /\ sampler = "wait" /\ tick => now - LastAdded <= Period + waited
           /\ sampler = "add" => now - LastAdded <= Period + Delay + waited

\* The samples are those of one window, and what was sampled later than one
\* delay after the last byte has counted that byte.
Settled ==
  /\ sampler = "add" /\ idle > waited => loaded = sent
  /\ \A i \in 1..Len(samples) :
       /\ samples[i].timestamp > LastAdded - Window
       /\ samples[i].timestamp > now - idle + Delay => samples[i].sent = sent

LEMMA LastAddedType ==
  ASSUME IInv
  PROVE  LastAdded \in 0..now
<1>1. samples \in Seq(Sample) /\ now \in Nat
  BY BoundAssumption DEF IInv, TypeOK
<1>2. samples /= <<>> => Len(samples) \in 1..Len(samples)
  BY <1>1
<1> QED
  BY <1>1, <1>2, SampleFields DEF LastAdded

LEMMA DivMod ==
  ASSUME NEW n \in Nat, NEW p \in Nat \ {0}
  PROVE  \E q \in Nat, r \in 0..p - 1 : n = (p * q) + r /\ r = n % p
<1>1. n = (p * (n \div p)) + (n % p)
  OBVIOUS
<1>2. n % p \in 0..p - 1 /\ n \div p \in Nat
  OBVIOUS
<1> QED
  BY <1>1, <1>2

LEMMA TimesLess ==
  ASSUME NEW p \in Nat, NEW q \in Nat, NEW r \in Nat, q > r
  PROVE  p * q >= (p * r) + p
<1>1. p * (q - r) >= p
  OBVIOUS
<1>2. p * (q - r) = (p * q) - (p * r)
  OBVIOUS
<1> QED
  BY <1>1, <1>2

LEMMA NextRemainder ==
  ASSUME NEW n \in Nat, NEW m \in Nat, m = n + 1, NEW p \in Nat \ {0}, m % p /= 0
  PROVE  m % p = (n % p) + 1
<1>1. PICK q \in Nat, r \in 0..p - 1 : n = (p * q) + r /\ r = n % p
  BY DivMod
<1>2. PICK s \in Nat, t \in 0..p - 1 : m = (p * s) + t /\ t = m % p
  BY DivMod
<1>3. PICK x \in Nat, y \in Nat : x = p * q /\ y = p * s
  OBVIOUS
<1>4. n = x + r /\ n + 1 = y + t /\ t /= 0
  BY <1>1, <1>2, <1>3
<1>5. ~(s > q)
  <2>1. s > q => y >= x + p
    BY <1>3, TimesLess
  <2> QED
    BY <1>4, <2>1
<1>6. ~(q > s)
  <2>1. q > s => x >= y + p
    BY <1>3, TimesLess
  <2> QED
    BY <1>4, <2>1
<1>7. x = y
  BY <1>3, <1>5, <1>6
<1>8. t = r + 1
  BY <1>4, <1>7
<1>9. r = n % p /\ t = m % p
  BY <1>1, <1>2
<1> QED
  BY <1>8, <1>9
\* The next remainder of the clock, when the tick has not come yet.
LEMMA NoTickYet ==
  ASSUME NEW n \in Nat, NEW m \in Nat, m = n + 1, NEW l \in Nat, n - l <= n % Period
  PROVE  IF m % Period = 0 THEN m - l <= Period ELSE m - l <= m % Period
<1> USE TimeAssumption
<1>1. PICK r \in 0..Period - 1 : r = n % Period
  BY DivMod
<1>2. m % Period /= 0 => m % Period = r + 1
  BY <1>1, NextRemainder
<1> QED
  BY <1>1, <1>2

LEMMA TimesAreNumbers ==
  ASSUME IInv
  PROVE  /\ now \in Nat /\ idle \in Nat /\ idle <= now /\ sent \in Nat /\ loaded \in Nat
         /\ Delay \in Nat /\ Period \in Nat \ {0} /\ Window \in Nat \ {0}
         /\ waited \in Nat /\ waited <= Delay /\ LastAdded \in Nat /\ LastAdded <= now
         /\ samples \in Seq(Sample) /\ tick \in BOOLEAN /\ done \in BOOLEAN
         /\ \A i \in 1..Len(samples) : samples[i].timestamp \in Nat /\ samples[i].sent \in Nat
<1>1. Delay \in Nat /\ Period \in Nat \ {0} /\ Window \in Nat \ {0}
  BY TimeAssumption, Bounds
<1>2. /\ now \in Nat /\ idle \in Nat /\ idle <= now /\ sent \in Nat /\ loaded \in 0..sent
      /\ waited \in 0..Delay /\ samples \in Seq(Sample) /\ tick \in BOOLEAN /\ done \in BOOLEAN
  BY Bounds DEF IInv, TypeOK
<1>3. LastAdded \in 0..now
  BY LastAddedType
<1>4. \A i \in 1..Len(samples) : samples[i].timestamp \in 0..now /\ samples[i].sent \in 0..sent
  BY <1>2, SampleFields
<1> QED
  BY <1>1, <1>2, <1>3, <1>4

LEMMA InitLate == Init => Punctual /\ Settled
<1> SUFFICES ASSUME Init PROVE Punctual /\ Settled
  OBVIOUS
<1>1. samples = <<>> /\ Len(samples) = 0 /\ LastAdded = 0 /\ now = 0 /\ sampler = "wait" /\ ~tick
  BY DEF Init, LastAdded
<1>2. 0 % Period >= 0
  <2>1. PICK r \in 0..Period - 1 : r = 0 % Period
    BY DivMod, TimeAssumption
  <2> QED
    BY <2>1, TimeAssumption
<1> QED
  BY <1>1, <1>2 DEF Punctual, Settled

LEMMA ClockLate ==
  ASSUME IInv, Punctual, Settled, Clock
  PROVE  Punctual' /\ Settled'
<1>0. /\ now \in Nat /\ idle \in Nat /\ LastAdded \in Nat /\ Delay \in Nat /\ waited \in Nat
      /\ Period \in Nat \ {0} /\ tick \in BOOLEAN /\ done \in BOOLEAN
  BY TimesAreNumbers
<1>1. /\ now' = now + 1 /\ idle' = idle + 1 /\ now' \in Nat
      /\ UNCHANGED <<sent, sampler, loaded, samples, done>>
  BY <1>0 DEF Clock
<1>2. /\ tick' = (tick \/ (now' % Period = 0 /\ ~done))
      /\ waited' = IF Runnable THEN waited + 1 ELSE 0
  BY DEF Clock
<1>3. LastAdded' = LastAdded
  BY <1>1 DEF LastAdded
<1>4. Punctual'
  <2> SUFFICES ASSUME ~done
               PROVE  /\ sampler \in {"wait", "add"}
                      /\ sampler = "wait" /\ ~tick' => now' - LastAdded <= now' % Period
                      /\ sampler = "wait" /\ tick' => now' - LastAdded <= Period + waited'
                      /\ sampler = "add" => now' - LastAdded <= Period + Delay + waited'
    BY <1>1, <1>3 DEF Punctual
  <2>1. sampler \in {"wait", "add"}
    BY DEF Punctual
  <2>2. CASE sampler = "wait" /\ ~tick
    <3>1. now - LastAdded <= now % Period
      BY <2>2 DEF Punctual
    <3>2. IF now' % Period = 0 THEN now' - LastAdded <= Period ELSE now' - LastAdded <= now' % Period
      <4>1. PICK n \in Nat, m \in Nat, l \in Nat : n = now /\ m = now' /\ l = LastAdded
        BY <1>0, <1>1
      <4> QED
        BY <1>1, <3>1, <4>1, NoTickYet
    <3>3. waited' = 0
      BY <1>2, <2>2 DEF Runnable
    <3>4. tick' <=> now' % Period = 0
      BY <1>2, <2>2
    <3>5. tick' => now' - LastAdded <= Period + waited'
      BY <1>0, <3>2, <3>3, <3>4
    <3> QED
      BY <2>2, <3>2, <3>4, <3>5
  <2>3. CASE sampler = "wait" /\ tick
    <3>1. now - LastAdded <= Period + waited /\ tick' /\ waited' = waited + 1
      BY <1>2, <2>3 DEF Punctual, Runnable
    <3> QED
      BY <1>0, <1>1, <2>3, <3>1
  <2>4. CASE sampler = "add"
    <3>1. now - LastAdded <= Period + Delay + waited /\ waited' = waited + 1
      BY <1>2, <2>4 DEF Punctual, Runnable
    <3> QED
      BY <1>0, <1>1, <2>4, <3>1
  <2> QED
    BY <2>1, <2>2, <2>3, <2>4
<1>5. Settled'
  <2>1. sampler' = "add" /\ idle' > waited' => loaded' = sent'
    <3>1. sampler = "add" => waited' = waited + 1
      BY <1>2 DEF Runnable
    <3> QED
      BY <1>0, <1>1, <3>1 DEF Settled
  <2>2. now' - idle' = now - idle
    BY <1>0, <1>1
  <2> QED
    BY <1>1, <1>3, <2>1, <2>2 DEF Settled
<1> QED
  BY <1>4, <1>5

LEMMA RecordLate ==
  ASSUME IInv, Punctual, Settled, RecordBytesSent
  PROVE  Punctual' /\ Settled'
<1>1. idle' = 0 /\ UNCHANGED <<now, tick, sampler, waited, loaded, samples, done>>
  BY DEF RecordBytesSent
<1>2. LastAdded' = LastAdded
  BY <1>1 DEF LastAdded
<1>3. Punctual'
  BY <1>1, <1>2 DEF Punctual
<1>4. /\ waited \in Nat /\ Delay \in Nat /\ now \in Nat
  BY TimesAreNumbers
<1>5. \A i \in 1..Len(samples) : samples[i].timestamp \in 0..now
  BY SampleFields DEF IInv, TypeOK
<1>6. \A i \in 1..Len(samples) : ~(samples[i].timestamp > now - 0 + Delay)
  BY <1>4, <1>5
<1>7. ~(0 > waited)
  BY <1>4
<1>8. Settled'
  BY <1>1, <1>2, <1>6, <1>7 DEF Settled
<1> QED
  BY <1>3, <1>8

LEMMA TakeTickLate ==
  ASSUME IInv, Punctual, Settled, TakeTick
  PROVE  Punctual' /\ Settled'
<1>1. /\ sampler = "wait" /\ tick /\ sampler' = "add" /\ waited' = 0 /\ loaded' = sent
      /\ UNCHANGED <<now, idle, sent, samples, done>>
  BY DEF TakeTick
<1>2. LastAdded' = LastAdded
  BY <1>1 DEF LastAdded
<1>3. /\ waited \in Nat /\ waited <= Delay /\ Delay \in Nat /\ now \in Nat /\ LastAdded \in Nat
      /\ Period \in Nat
  BY TimesAreNumbers
<1>4. ~done => now - LastAdded <= Period + waited
  BY <1>1 DEF Punctual
<1>5. ~done => now - LastAdded <= Period + Delay + 0
  BY <1>3, <1>4
<1>6. Punctual'
  BY <1>1, <1>2, <1>5 DEF Punctual
<1>7. Settled'
  BY <1>1, <1>2 DEF Settled
<1> QED
  BY <1>6, <1>7

LEMMA AddSampleLate ==
  ASSUME IInv, Punctual, Settled, AddSample
  PROVE  Punctual' /\ Settled'
<1>0. /\ now \in Nat /\ idle \in Nat /\ idle <= now /\ sent \in Nat /\ Delay \in Nat
      /\ waited \in Nat /\ waited <= Delay
      /\ Period \in Nat \ {0} /\ Window \in Nat \ {0} /\ samples \in Seq(Sample)
  BY TimesAreNumbers
<1> DEFINE all == Append(samples, NewSample)
<1>1. /\ UNCHANGED <<now, idle, sent, tick, loaded, done>> /\ sampler = "add"
      /\ sampler' = "wait" /\ waited' = 0 /\ samples' = Pruned(all)
  BY DEF AddSample
<1>2. PICK k \in 0..Len(samples) :
        /\ Pruned(all) = SubSeq(all, k + 1, Len(all))
        /\ \A i \in 1..Len(all) : i > k <=> all[i].timestamp > now - Window
  BY PrunedFacts
<1>3. all \in Seq(Sample) /\ Len(all) = Len(samples) + 1
  BY PrunedFacts
<1>4. /\ \A i \in 1..Len(samples) : all[i] = samples[i]
      /\ all[Len(samples) + 1] = NewSample
  BY <1>0
<1> HIDE DEF all
<1>5. k \in 0..Len(all)
  BY <1>0, <1>2, <1>3
<1>6. /\ samples' \in Seq(Sample) /\ Len(samples') = Len(all) - k
      /\ \A i \in 1..Len(samples') : i + k \in 1..Len(all) /\ samples'[i] = all[i + k]
  BY <1>1, <1>2, <1>3, <1>5, TailFacts
\* The newest sample is the new one.
<1>7. PICK n \in Nat \ {0} : n = Len(samples') /\ n + k = Len(samples) + 1
  <2>1. Len(samples) \in Nat /\ Len(samples') = (Len(samples) + 1) - k
    BY <1>0, <1>3, <1>6
  <2> QED
    BY <1>2, <2>1
<1>8. samples'[n] = NewSample /\ samples' /= <<>>
  <2>1. n \in 1..Len(samples')
    BY <1>7
  <2>2. samples'[n] = all[n + k]
    BY <1>6, <2>1
  <2>3. samples' /= <<>>
    BY <1>7
  <2> QED
    BY <1>4, <1>7, <2>2, <2>3
<1>9. LastAdded' = now
  BY <1>7, <1>8 DEF LastAdded, NewSample
<1>10. Punctual'
  <2>1. PICK r \in 0..Period - 1 : r = now % Period
    BY <1>0, DivMod
  <2>2. now - now <= now % Period /\ now - now <= Period + 0
    BY <1>0, <2>1
  <2> QED
    BY <1>1, <1>9, <2>2 DEF Punctual
<1>11. ASSUME NEW i \in 1..Len(samples')
       PROVE  /\ samples'[i].timestamp > now - Window
              /\ samples'[i].timestamp > now - idle + Delay => samples'[i].sent = sent
  <2>0. PICK j \in 1..Len(all) : j = i + k
    BY <1>6
  <2>1. j > k /\ samples'[i] = all[j]
    BY <1>2, <1>6, <2>0
  <2>2. all[j].timestamp > now - Window
    BY <1>2, <2>1
  <2>3. CASE j \in 1..Len(samples)
    BY <1>4, <2>1, <2>2, <2>3 DEF Settled
  <2>4. CASE j = Len(samples) + 1
    <3>1. samples'[i].timestamp = now /\ samples'[i].sent = loaded
      BY <1>4, <2>1, <2>4 DEF NewSample
    <3>2. now > now - idle + Delay => idle > waited
      BY <1>0
    <3> QED
      BY <1>1, <2>1, <2>2, <3>1, <3>2 DEF Settled
  <2>5. j \in 1..Len(samples) \/ j = Len(samples) + 1
    <3>1. PICK m \in Nat : m = Len(samples)
      BY <1>0
    <3> QED
      BY <1>3, <3>1
  <2> QED
    BY <2>3, <2>4, <2>5
<1>12. Settled'
  BY <1>1, <1>9, <1>11 DEF Settled
<1> QED
  BY <1>10, <1>12

LEMMA StepLate ==
  IInv /\ Punctual /\ Settled /\ [Next]_vars => Punctual' /\ Settled'
<1> SUFFICES ASSUME IInv, Punctual, Settled, [Next]_vars PROVE Punctual' /\ Settled'
  OBVIOUS
<1>1. CASE Clock
  BY <1>1, ClockLate
<1>2. CASE RecordBytesSent
  BY <1>2, RecordLate
<1>3. CASE TakeTick
  BY <1>3, TakeTickLate
<1>4. CASE AddSample
  BY <1>4, AddSampleLate
\* After Stop nothing is promised, and the sampler ends no sooner.
<1>5. CASE Stop \/ SamplerEnds
  <2>1. done' /\ (sampler' /= "add" \/ UNCHANGED sampler)
    BY <1>5 DEF Stop, SamplerEnds
  <2>2. UNCHANGED <<now, idle, sent, waited, loaded, samples>> /\ LastAdded' = LastAdded
    BY <1>5 DEF Stop, SamplerEnds, LastAdded
  <2> QED
    BY <2>1, <2>2 DEF Punctual, Settled
<1>6. CASE UNCHANGED vars
  BY <1>6 DEF vars, Punctual, Settled, LastAdded
<1> QED
  BY <1>1, <1>2, <1>3, <1>4, <1>5, <1>6 DEF Next

\* When nothing has been sent for a window, a period and three delays, every
\* sample of the window counts the last byte: the speed that is shown is zero.
THEOREM IdleIsZeroAlways == Spec => []IdleIsZero
<1>1. IInv /\ Punctual /\ Settled => IdleIsZero
  <2> SUFFICES ASSUME IInv, Punctual, Settled, idle > Window + Period + 3 * Delay, ~done,
                      Len(samples) >= 2,
                      samples[Len(samples)].timestamp - samples[1].timestamp /= 0
               PROVE  (samples[Len(samples)].sent - samples[1].sent)
                        \div (samples[Len(samples)].timestamp - samples[1].timestamp) = 0
    BY DEF IdleIsZero, GetCurrentSpeed
  <2>1. /\ now \in Nat /\ idle \in Nat /\ idle <= now /\ sent \in Nat /\ Delay \in Nat
        /\ Period \in Nat /\ Window \in Nat /\ waited \in Nat /\ waited <= Delay
        /\ LastAdded \in Nat /\ samples \in Seq(Sample)
    BY TimesAreNumbers
  <2>2. now - LastAdded <= Period + 2 * Delay
    <3>1. PICK r \in 0..Period - 1 : r = now % Period
      BY <2>1, DivMod, TimeAssumption
    <3> QED
      BY <2>1, <3>1 DEF Punctual
  <2>3. now - idle + Delay < LastAdded - Window
    BY <2>1, <2>2
  <2>4. 1 \in 1..Len(samples) /\ Len(samples) \in 1..Len(samples)
    BY <2>1
  <2>5. ASSUME NEW i \in 1..Len(samples)
        PROVE  samples[i].sent = sent /\ samples[i].timestamp \in Nat
    <3>1. samples[i].timestamp \in Nat
      BY TimesAreNumbers
    <3>2. samples[i].timestamp > LastAdded - Window
      BY DEF Settled
    <3>3. samples[i].timestamp > now - idle + Delay
      BY <2>1, <2>3, <3>1, <3>2
    <3> QED
      BY <3>1, <3>3 DEF Settled
  <2>6. PICK d \in Nat \ {0} : d = samples[Len(samples)].timestamp - samples[1].timestamp
    <3>1. samples[1].timestamp <= samples[Len(samples)].timestamp
      BY <2>1, <2>4 DEF IInv, InOrder
    <3> QED
      BY <2>4, <2>5, <3>1
  <2>7. samples[Len(samples)].sent - samples[1].sent = 0
    BY <2>1, <2>4, <2>5
  <2>8. 0 \div d = 0
    OBVIOUS
  <2> QED
    BY <2>6, <2>7, <2>8
<1> QED
  BY <1>1, InitIInv, StepIInv, InitLate, StepLate, PTL DEF Spec
=============================================================================
