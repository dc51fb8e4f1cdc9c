--------------------------------- MODULE Speed ---------------------------------
(***************************************************************************)
(* The transfer speed GET /stats and the reporter show: the goroutine that  *)
(* samples a counter once a second (Collector.sampleSpeed) and the sliding  *)
(* window of SpeedTracker (internal/stats/collector.go).                    *)
(*                                                                          *)
(* Time is discrete.  The bytes received are treated like the bytes sent.   *)
(***************************************************************************)
EXTENDS Integers, Sequences

CONSTANTS
  Period,     \* between two ticks of Collector.ticker
  Window,     \* windowSize
  Delay,      \* a goroutine that can run takes its next step within this time
  Chunk,      \* bytes recorded at once
  MaxTime,    \* bound: the clock
  MaxBytes    \* bound: the counter

ASSUME TimeAssumption  == /\ Period \in Nat \ {0} /\ Window \in Nat \ {0}
                          /\ Delay \in 0..Period - 1
ASSUME BoundAssumption == MaxTime \in Nat /\ MaxBytes \in Nat /\ Chunk \in Nat

VARIABLES
  now,       \* the clock
  idle,      \* time since bytes were last recorded
  sent,      \* Collector.bytesSent
  tick,      \* a tick is in the channel of the ticker
  sampler,   \* the goroutine of sampleSpeed
  waited,    \* how long it has been able to run
  loaded,    \* the counter as it has read it
  samples,   \* SpeedTracker.samples
  done       \* Collector.Stop has been called

vars == <<now, idle, sent, tick, sampler, waited, loaded, samples, done>>

Sample == [timestamp : 0..now, sent : 0..sent]

TypeOK ==
  /\ now \in 0..MaxTime /\ idle \in 0..MaxTime /\ sent \in Nat
  /\ tick \in BOOLEAN /\ done \in BOOLEAN
  /\ sampler \in {"wait", "add", "ended"} /\ waited \in 0..Delay
  /\ loaded \in 0..sent /\ samples \in Seq(Sample)

Init ==
  /\ now = 0 /\ idle = 0 /\ sent = 0
  /\ tick = FALSE /\ sampler = "wait" /\ waited = 0 /\ loaded = 0 /\ samples = <<>>
  /\ done = FALSE

-----------------------------------------------------------------------------
(* The clock, and the traffic.                                              *)

Runnable == sampler = "add" \/ (sampler = "wait" /\ (tick \/ done))

\* The ticker drops a tick its channel has no room for.
Clock ==
  /\ now < MaxTime
  /\ Runnable => waited < Delay
  /\ now' = now + 1 /\ idle' = idle + 1
  /\ tick' = (tick \/ (now' % Period = 0 /\ ~done))
  /\ waited' = IF Runnable THEN waited + 1 ELSE 0
  /\ UNCHANGED <<sent, sampler, loaded, samples, done>>

\* By TrackedConn.Write, at any time.
RecordBytesSent ==
  /\ sent + Chunk <= MaxBytes
  /\ sent' = sent + Chunk /\ idle' = 0
  /\ UNCHANGED <<now, tick, sampler, waited, loaded, samples, done>>

-----------------------------------------------------------------------------
(* sampleSpeed.                                                             *)

\* The counter is read before AddSample takes its lock and the time.
TakeTick ==
  /\ sampler = "wait" /\ tick
  /\ tick' = FALSE /\ sampler' = "add" /\ waited' = 0
  /\ loaded' = sent
  /\ UNCHANGED <<now, idle, sent, samples, done>>

\* Samples of s younger than the window.
Valid(s) == {i \in DOMAIN s : s[i].timestamp > now - Window}

First(S) == CHOOSE i \in S : \A j \in S : i <= j

\* Mutant: the first valid sample is left out.
Pruned_OffByOne(s) == IF First(Valid(s)) = 1 THEN s ELSE SubSeq(s, First(Valid(s)) + 1, Len(s))

\* Mutant: a sample is kept for ever.
Pruned_Never(s) == s

\* The samples from the first valid one on; the newest is always valid.
Pruned(s) == SubSeq(s, First(Valid(s)), Len(s))

\* Mutant: the sample is given the time of the tick that follows.
NewSample_NextTick == [timestamp |-> now + Period, sent |-> loaded]

NewSample == [timestamp |-> now, sent |-> loaded]

AddSample ==
  /\ sampler = "add"
  /\ sampler' = "wait" /\ waited' = 0
  /\ samples' = Pruned(Append(samples, NewSample))
  /\ UNCHANGED <<now, idle, sent, tick, loaded, done>>

\* Collector.Stop stops the ticker; a tick in the channel stays there.
Stop ==
  /\ ~done /\ done' = TRUE
  /\ UNCHANGED <<now, idle, sent, tick, sampler, waited, loaded, samples>>

SamplerEnds ==
  /\ sampler = "wait" /\ done
  /\ sampler' = "ended"
  /\ UNCHANGED <<now, idle, sent, tick, waited, loaded, samples, done>>

\* GetCurrentSpeed, in bytes per unit of time: there is none without two
\* samples that are apart in time.
GetCurrentSpeed ==
  IF Len(samples) < 2 THEN 0
  ELSE LET oldest   == samples[1]
           newest   == samples[Len(samples)]
           duration == newest.timestamp - oldest.timestamp
       IN  IF duration = 0 THEN 0 ELSE (newest.sent - oldest.sent) \div duration

-----------------------------------------------------------------------------
Next == Clock \/ RecordBytesSent \/ TakeTick \/ AddSample \/ Stop \/ SamplerEnds

Spec == Init /\ [][Next]_vars

-----------------------------------------------------------------------------
(* Properties.                                                              *)

\* AddSample drops what comes before the first sample of the window, and by
\* that all and only the samples outside the window: they are in order of
\* time, although the clock is read after the counters and under the lock.
WindowKept ==
  [][samples' /= samples =>
       LET all == Append(samples, NewSample)
       IN  \E k \in 0..Len(samples) :
             /\ samples' = SubSeq(all, k + 1, Len(all))
             /\ \A i \in 1..Len(all) : i > k <=> all[i].timestamp > now - Window]_vars

\* A speed is not shown for longer than the window after the last byte, but
\* for the time the next samples take, unless sampling has been stopped.
IdleIsZero == idle > Window + Period + 3 * Delay /\ ~done => GetCurrentSpeed = 0
=============================================================================
