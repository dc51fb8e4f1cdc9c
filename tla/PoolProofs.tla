----------------------------- MODULE PoolProofs -----------------------------
(***************************************************************************)
(* Proofs about Pool, for any number of requests, connections and reloads   *)
(* and any limit of the pool: the transport's lists agree with the states   *)
(* of requests and connections, and a request reaches a replaced server     *)
(* over a reused connection that is older than the request or not at all.   *)
(***************************************************************************)
EXTENDS Pool, TLAPS, WellFoundedInduction

\* TypeOK, with sets and lists compared member by member: a request is sent
\* exactly when a connection carries it, and so on.
Reqs ==
  /\ phase \in [Requests -> {"none", "want", "waiting", "sent", "done"}]
  /\ carrier \in [Requests -> Conns \cup {NoConn}]
  /\ \A r \in Requests : phase[r] = "sent" <=> carrier[r] /= NoConn
  /\ \A r, q \in Requests : carrier[r] = carrier[q] /\ carrier[r] /= NoConn => r = q

Socks ==
  /\ conn \in [Conns -> {"unused", "asked", "dialling", "kept", "busy", "closed"}]
  /\ \A c \in Conns : conn[c] = "busy" <=> \E r \in Requests : carrier[r] = c
  /\ reused \subseteq Conns /\ dead \subseteq Conns

Queue ==
  /\ waiting \in Seq(Requests) /\ IsInjective(waiting)
  /\ \A r \in Requests : r \in ToSet(waiting) <=> phase[r] = "waiting"

Kept ==
  /\ pool \in Seq(Conns) /\ IsInjective(pool)
  /\ \A c \in Conns : c \in ToSet(pool) <=> conn[c] = "kept"
  /\ Len(pool) <= MaxIdlePerHost /\ (pool /= <<>> => waiting = <<>>)

\* A dial belongs to at most one request, and only as long as that waits.
Dials ==
  /\ dialFor \in [Conns -> Requests \cup {NoRequest}]
  /\ \A c \in Conns : dialFor[c] /= NoRequest =>
       phase[dialFor[c]] = "waiting" /\ conn[c] \in {"asked", "dialling"}
  /\ \A c, d \in Conns : dialFor[c] = dialFor[d] /\ dialFor[c] /= NoRequest => c = d

\* A connection has a client from the moment its dial runs.
Clients ==
  /\ current \in 1..MaxReloads + 1
  /\ client \in [Conns -> 0..current]
  /\ \A c \in Conns : client[c] = 0 <=> conn[c] \in {"unused", "asked"}
  /\ arrival \in [Requests -> [at : 0..current, dialled : SUBSET Conns]]

\* Connection c has no client that was replaced before request r arrived.
NotOlder(c, r) == client[c] >= arrival[r].at

\* What is older than a request was dialled when it arrived.  What is dialled
\* for a request is not older, and neither is a connection in its first use.
Ages ==
  /\ \A c \in Conns : conn[c] = "kept" => c \in reused
  /\ \A r \in Requests, c \in Conns :
       /\ client[c] /= 0 => NotOlder(c, r) \/ c \in arrival[r].dialled
       /\ dialFor[c] = r /\ client[c] /= 0 => NotOlder(c, r)
       /\ carrier[r] = c /\ c \notin reused => NotOlder(c, r)

IInv == Reqs /\ Socks /\ Queue /\ Kept /\ Dials /\ Clients /\ Ages

-----------------------------------------------------------------------------
(* RemoveFirst.                                                             *)

LEMMA LeastExists ==
  ASSUME NEW S \in SUBSET Nat, S /= {}
  PROVE  \E m \in S : \A n \in S : m <= n
<1>1. PICK m \in S : \A n \in S : ~(<<n, m>> \in OpToRel(<, Nat))
  BY NatLessThanWellFounded, WFMin
<1>2. \A n \in S : ~(n < m)
  BY <1>1 DEF OpToRel
<1> QED
  BY <1>2

\* The library's operator takes one place out, or leaves the sequence alone.
LEMMA RemoveFirstIs ==
  ASSUME NEW S, NEW s \in Seq(S), NEW e
  PROVE  IF e \in ToSet(s)
         THEN \E i \in 1..Len(s) :
                s[i] = e /\ RemoveFirst(s, e) = SubSeq(s, 1, i - 1) \o SubSeq(s, i + 1, Len(s))
         ELSE RemoveFirst(s, e) = s
<1> DEFINE I == {i \in 1..Len(s) : s[i] = e}
<1>1. e \in ToSet(s) <=> I /= {}
  BY DEF ToSet
<1>2. CASE I /= {}
  <2>1. I \subseteq Nat
    OBVIOUS
  <2>2. PICK i \in I : \A n \in I : i <= n
    BY <1>2, <2>1, LeastExists
  <2>3. Min(I) = CHOOSE x \in I : \A y \in I : x <= y
    BY DEF Min
  <2>4. Min(I) \in I
    BY <2>2, <2>3
  <2>5. SelectInSeq(s, LAMBDA v : v = e) = Min(I)
    BY <1>2 DEF SelectInSeq
  <2>6. RemoveFirst(s, e) = RemoveAt(s, Min(I))
    BY <1>2, <2>5 DEF RemoveFirst
  <2> QED
    BY <1>1, <1>2, <2>4, <2>6 DEF RemoveAt
<1>3. CASE I = {}
  BY <1>1, <1>3 DEF RemoveFirst
<1> QED
  BY <1>2, <1>3

LEMMA WithoutPlace ==
  ASSUME NEW S, NEW s \in Seq(S), NEW i \in 1..Len(s)
  PROVE  LET t == SubSeq(s, 1, i - 1) \o SubSeq(s, i + 1, Len(s))
         IN  /\ t \in Seq(S) /\ Len(t) = Len(s) - 1
             /\ \A k \in 1..Len(t) : t[k] = IF k < i THEN s[k] ELSE s[k + 1]
<1> DEFINE a == SubSeq(s, 1, i - 1)
           b == SubSeq(s, i + 1, Len(s))
<1>0. Len(s) \in Nat
  OBVIOUS
<1>1. a \in Seq(S) /\ Len(a) = i - 1 /\ \A k \in 1..i - 1 : a[k] = s[k]
  OBVIOUS
<1>2. b \in Seq(S) /\ Len(b) = Len(s) - i /\ \A k \in 1..Len(s) - i : b[k] = s[k + i]
  OBVIOUS
<1> HIDE DEF a, b
<1>c0. a \in Seq(S) /\ b \in Seq(S)
  BY <1>1, <1>2
<1>d0. Len(a) = i - 1 /\ Len(b) = Len(s) - i
  BY <1>1, <1>2
<1>3. a \o b \in Seq(S) /\ Len(a \o b) = Len(s) - 1
  <2>1. a \o b \in Seq(S) /\ Len(a \o b) = Len(a) + Len(b)
    BY <1>c0
  <2>2. Len(a) + Len(b) = Len(s) - 1
    BY <1>0, <1>d0
  <2> QED
    BY <2>1, <2>2
<1>4. ASSUME NEW k \in 1..Len(s) - 1
      PROVE  (a \o b)[k] = IF k < i THEN s[k] ELSE s[k + 1]
  <2>1. (a \o b)[k] = IF k <= Len(a) THEN a[k] ELSE b[k - Len(a)]
    BY <1>0, <1>c0, <1>d0
  <2>0. k < i \/ k >= i
    BY <1>0
  <2>2. CASE k < i
    BY <1>d0, <1>1, <2>1, <2>2
  <2>3. CASE k >= i
    <3>1. k - (i - 1) \in 1..Len(s) - i /\ (k - (i - 1)) + i = k + 1
      BY <1>0, <2>3
    <3>2. b[k - (i - 1)] = s[k + 1]
      BY <1>2, <3>1
    <3> QED
      BY <1>0, <1>d0, <2>1, <2>3, <3>2
  <2> QED
    BY <2>0, <2>2, <2>3
<1> QED
  BY <1>3, <1>4 DEF a, b

\* From a sequence without repetitions it removes the element.
LEMMA RemoveFirstFacts ==
  ASSUME NEW S, NEW s \in Seq(S), IsInjective(s), NEW e
  PROVE  /\ RemoveFirst(s, e) \in Seq(S) /\ IsInjective(RemoveFirst(s, e))
         /\ ToSet(RemoveFirst(s, e)) = ToSet(s) \ {e}
         /\ Len(RemoveFirst(s, e)) <= Len(s)
<1> DEFINE t == RemoveFirst(s, e)
<1>0. Len(s) \in Nat /\ DOMAIN s = 1..Len(s)
  OBVIOUS
<1>1. CASE e \notin ToSet(s)
  <2>1. t = s
    BY <1>1, RemoveFirstIs
  <2> QED
    BY <1>0, <1>1, <2>1
<1>2. CASE e \in ToSet(s)
  <2>1. PICK i \in 1..Len(s) :
          s[i] = e /\ t = SubSeq(s, 1, i - 1) \o SubSeq(s, i + 1, Len(s))
    BY <1>2, RemoveFirstIs
  <2> HIDE DEF t
  <2>2. /\ t \in Seq(S) /\ Len(t) = Len(s) - 1
        /\ \A k \in 1..Len(t) : t[k] = IF k < i THEN s[k] ELSE s[k + 1]
    BY <2>1, WithoutPlace
  <2>3. DOMAIN t = 1..Len(s) - 1
    BY <2>2
  <2>4. \A j, k \in 1..Len(s) : s[j] = s[k] => j = k
    BY <1>0 DEF IsInjective
  <2>5. IsInjective(t)
    <3> SUFFICES ASSUME NEW j \in 1..Len(s) - 1, NEW k \in 1..Len(s) - 1, t[j] = t[k]
                 PROVE  j = k
      BY <2>3 DEF IsInjective
    <3> DEFINE At(n) == IF n < i THEN n ELSE n + 1
    <3>1. \A n \in 1..Len(s) - 1 : At(n) \in 1..Len(s) /\ t[n] = s[At(n)]
      BY <1>0, <2>2
    <3>2. At(j) = At(k)
      BY <2>4, <3>1
    <3> QED
      BY <1>0, <3>2
  <2>6. \A k \in 1..Len(s) - 1 : t[k] \in ToSet(s) \ {e}
    <3> SUFFICES ASSUME NEW k \in 1..Len(s) - 1 PROVE t[k] \in ToSet(s) \ {e}
      OBVIOUS
    <3>1. PICK n \in 1..Len(s) : t[k] = s[n] /\ n /= i
      BY <1>0, <2>2
    <3> QED
      BY <1>0, <2>1, <2>4, <3>1 DEF ToSet
  <2>7. \A x \in ToSet(s) \ {e} : x \in ToSet(t)
    <3> SUFFICES ASSUME NEW n \in 1..Len(s), s[n] /= e PROVE s[n] \in ToSet(t)
      BY <1>0 DEF ToSet
    <3>1. n /= i
      BY <2>1
    <3>2. PICK k \in 1..Len(s) - 1 : t[k] = s[n]
      <4>1. CASE n < i
        BY <1>0, <2>2, <4>1
      <4>2. CASE n > i
        <5>1. n - 1 \in 1..Len(s) - 1 /\ ~(n - 1 < i) /\ (n - 1) + 1 = n
          BY <1>0, <4>2
        <5> QED
          BY <2>2, <5>1
      <4> QED
        BY <3>1, <4>1, <4>2
    <3> QED
      BY <2>3, <3>2 DEF ToSet
  <2>8. ToSet(t) = ToSet(s) \ {e}
    BY <2>3, <2>6, <2>7 DEF ToSet
  <2>9. Len(t) <= Len(s)
    BY <1>0, <2>2
  <2> QED
    BY <2>2, <2>5, <2>8, <2>9 DEF t
<1> QED
  BY <1>1, <1>2
LEMMA AppendFacts ==
  ASSUME NEW S, NEW s \in Seq(S), IsInjective(s), NEW e \in S, e \notin ToSet(s)
  PROVE  /\ Append(s, e) \in Seq(S) /\ IsInjective(Append(s, e))
         /\ ToSet(Append(s, e)) = ToSet(s) \cup {e}
         /\ Len(Append(s, e)) = Len(s) + 1
<1> DEFINE t == Append(s, e)
<1>0. Len(s) \in Nat /\ DOMAIN s = 1..Len(s)
  OBVIOUS
<1>1. /\ t \in Seq(S) /\ Len(t) = Len(s) + 1 /\ DOMAIN t = 1..Len(s) + 1
      /\ \A i \in 1..Len(s) : t[i] = s[i]
      /\ t[Len(s) + 1] = e
  OBVIOUS
<1> HIDE DEF t
<1>2. \A i \in 1..Len(s) + 1 : i \in 1..Len(s) \/ i = Len(s) + 1
  BY <1>0
<1>3. ToSet(t) = ToSet(s) \cup {e}
  BY <1>0, <1>1, <1>2 DEF ToSet
<1>4. IsInjective(t)
  <2>1. \A i \in 1..Len(s) : s[i] /= e
    BY <1>0 DEF ToSet
  <2>2. \A i, j \in 1..Len(s) : s[i] = s[j] => i = j
    BY <1>0 DEF IsInjective
  <2> QED
    BY <1>1, <1>2, <2>1, <2>2 DEF IsInjective
<1> QED
  BY <1>1, <1>3, <1>4 DEF t

LEMMA FrontFacts ==
  ASSUME NEW S, NEW s \in Seq(S), IsInjective(s), s /= <<>>
  PROVE  /\ Front(s) \in Seq(S) /\ IsInjective(Front(s))
         /\ Last(s) \in S /\ Last(s) \in ToSet(s)
         /\ ToSet(Front(s)) = ToSet(s) \ {Last(s)}
         /\ Len(Front(s)) <= Len(s)
<1> DEFINE t == Front(s)
<1>0. Len(s) \in Nat \ {0} /\ DOMAIN s = 1..Len(s)
  OBVIOUS
<1>1. /\ t \in Seq(S) /\ Len(t) = Len(s) - 1 /\ DOMAIN t = 1..Len(s) - 1
      /\ \A i \in 1..Len(s) - 1 : t[i] = s[i]
  BY <1>0 DEF Front
<1>2. Last(s) = s[Len(s)] /\ s[Len(s)] \in S
  BY <1>0 DEF Last
<1> HIDE DEF t
<1>3. \A i, j \in 1..Len(s) : s[i] = s[j] => i = j
  BY <1>0 DEF IsInjective
<1>4. \A n \in Nat : \A i \in 1..n - 1 : i \in 1..n /\ i /= n
  OBVIOUS
<1>5. \A n \in Nat : \A i \in 1..n : i \in 1..n - 1 \/ i = n
  OBVIOUS
<1>6. Len(s) \in 1..Len(s)
  BY <1>0
<1>7. ToSet(t) = ToSet(s) \ {Last(s)}
  <2>1. \A i \in 1..Len(s) - 1 : i \in 1..Len(s) /\ i /= Len(s)
    BY <1>0, <1>4
  <2>2. \A i \in 1..Len(s) : i \in 1..Len(s) - 1 \/ i = Len(s)
    BY <1>0, <1>5
  <2>3. \A x : x \in ToSet(t) <=> \E i \in 1..Len(s) - 1 : x = s[i]
    BY <1>1 DEF ToSet
  <2>4. \A x : x \in ToSet(s) <=> \E i \in 1..Len(s) : x = s[i]
    BY <1>0 DEF ToSet
  <2> QED
    BY <1>2, <1>3, <1>6, <2>1, <2>2, <2>3, <2>4
<1>8. IsInjective(t)
  <2>1. \A i \in 1..Len(s) - 1 : i \in 1..Len(s)
    BY <1>0, <1>4
  <2> QED
    BY <1>1, <1>3, <2>1 DEF IsInjective
<1>9. Last(s) \in ToSet(s) /\ Len(t) <= Len(s)
  BY <1>0, <1>1, <1>2, <1>6 DEF ToSet
<1> QED
  BY <1>1, <1>2, <1>7, <1>8, <1>9 DEF t

-----------------------------------------------------------------------------
(* Types.                                                                   *)

LEMMA TypesFollow ==
  ASSUME IInv
  PROVE  TypeOK
<1>1. /\ current \in 1..MaxReloads + 1
      /\ client \in [Conns -> 0..MaxReloads + 1]
  BY BoundAssumption DEF IInv, Clients
<1>2. \A r \in Requests : carrier[r] \in IF phase[r] = "sent" THEN Conns ELSE {NoConn}
  BY DEF IInv, Reqs
<1>3. ToSet(waiting) = {r \in Requests : phase[r] = "waiting"}
  <2>1. \A r \in ToSet(waiting) : r \in Requests
    BY DEF IInv, Queue, ToSet
  <2> QED
    BY <2>1 DEF IInv, Queue
<1>4. ToSet(pool) = {c \in Conns : conn[c] = "kept"}
  <2>1. \A c \in ToSet(pool) : c \in Conns
    BY DEF IInv, Kept, ToSet
  <2> QED
    BY <2>1 DEF IInv, Kept
<1>5. {c \in Conns : conn[c] = "busy"} = {carrier[r] : r \in Requests} \ {NoConn}
  BY NoneAssumption DEF IInv, Reqs, Socks
<1> QED
  BY <1>1, <1>2, <1>3, <1>4, <1>5 DEF IInv, Reqs, Socks, Queue, Kept, Dials, TypeOK

LEMMA PropertyFollows ==
  ASSUME IInv
  PROVE  StaleOnlyByReuse
<1> SUFFICES ASSUME NEW r \in Requests, phase[r] = "sent", client[carrier[r]] < arrival[r].at
             PROVE  carrier[r] \in arrival[r].dialled \cap reused
  BY DEF StaleOnlyByReuse
<1>1. carrier[r] \in Conns /\ conn[carrier[r]] = "busy"
  BY DEF IInv, Reqs, Socks
<1>2. client[carrier[r]] /= 0
  BY <1>1 DEF IInv, Clients
<1>3. ~NotOlder(carrier[r], r)
  <2>1. client[carrier[r]] \in Nat /\ arrival[r].at \in Nat
    BY <1>1 DEF IInv, Clients
  <2> QED
    BY <2>1 DEF NotOlder
<1> QED
  BY <1>1, <1>2, <1>3 DEF IInv, Ages

LEMMA InitIInv == Init => IInv
<1> SUFFICES ASSUME Init PROVE IInv
  OBVIOUS
<1> USE NoneAssumption, BoundAssumption DEF Init
<1>1. Reqs /\ Socks
  BY DEF Reqs, Socks
<1>2. \A S : <<>> \in Seq(S) /\ IsInjective(<<>>) /\ ToSet(<<>>) = {} /\ Len(<<>>) = 0
  BY DEF IsInjective, ToSet
<1>3. Queue /\ Kept
  BY <1>2 DEF Queue, Kept
<1>4. Dials /\ Clients
  BY DEF Dials, Clients
<1>5. Ages
  BY DEF Ages
<1> QED
  BY <1>1, <1>3, <1>4, <1>5 DEF IInv
-----------------------------------------------------------------------------
(* A connection goes to a request or to the pool.                           *)

\* Connection c, carried by e if by any, goes to r, if r is a request.
LEMMA HandFacts ==
  ASSUME Reqs, Queue, Dials, NEW c \in Conns,
         NEW r \in Requests \cup {NoRequest}, NEW e \in Requests \cup {NoRequest},
         r /= NoRequest => phase[r] = "waiting",
         \A q \in Requests : carrier[q] = c <=> q = e,
         Hand(c, r, e)
  PROVE  /\ Reqs' /\ Queue'
         /\ \A x \in Conns : (\E q \in Requests : carrier'[q] = x)
                               <=> IF x = c THEN r /= NoRequest ELSE \E q \in Requests : carrier[q] = x
         /\ \A q \in Requests, x \in Conns : carrier'[q] = x /\ x /= c => carrier[q] = x
         /\ dialFor' \in [Conns -> Requests \cup {NoRequest}]
         /\ \A d \in Conns : dialFor'[d] /= NoRequest =>
              dialFor'[d] = dialFor[d] /\ phase'[dialFor[d]] = "waiting"
         /\ Len(waiting') <= Len(waiting)
<1> USE NoneAssumption
<1>1. /\ \A q \in Requests : phase'[q] = IF q = r THEN "sent" ELSE IF q = e THEN "done" ELSE phase[q]
      /\ \A q \in Requests : carrier'[q] = IF q = r THEN c ELSE IF q = e THEN NoConn ELSE carrier[q]
      /\ \A d \in Conns : dialFor'[d] = IF dialFor[d] = r THEN NoRequest ELSE dialFor[d]
      /\ waiting' = RemoveFirst(waiting, r)
  BY DEF Hand
<1>2. e \in Requests => phase[e] = "sent" /\ carrier[e] = c /\ e /= r
  BY DEF Reqs
<1>3. \A q \in Requests : carrier[q] /= c \/ q = e
  OBVIOUS
<1>4. Reqs'
  <2>1. phase' \in [Requests -> {"none", "want", "waiting", "sent", "done"}]
    BY DEF Hand, Reqs
  <2>2. carrier' \in [Requests -> Conns \cup {NoConn}]
    BY DEF Hand, Reqs
  <2>3. \A q \in Requests : phase'[q] = "sent" <=> carrier'[q] /= NoConn
    BY <1>1 DEF Reqs
  <2>4. ASSUME NEW q \in Requests, NEW p \in Requests, carrier'[q] = carrier'[p], carrier'[q] /= NoConn
        PROVE  q = p
    BY <1>1, <1>3, <2>4 DEF Reqs
  <2> QED
    BY <2>1, <2>2, <2>3, <2>4 DEF Reqs
<1>5. /\ waiting' \in Seq(Requests) /\ IsInjective(waiting')
      /\ ToSet(waiting') = ToSet(waiting) \ {r}
      /\ Len(waiting') <= Len(waiting)
  BY <1>1, RemoveFirstFacts DEF Queue
<1>6. Queue'
  <2>1. \A q \in Requests : phase'[q] = "waiting" <=> phase[q] = "waiting" /\ q /= r
    BY <1>1, <1>2
  <2>2. \A q \in Requests : q \in ToSet(waiting)' <=> q \in ToSet(waiting) /\ q /= r
    BY <1>5 DEF ToSet
  <2> QED
    BY <1>5, <2>1, <2>2 DEF Queue, IsInjective
<1>7. \A x \in Conns : (\E q \in Requests : carrier'[q] = x)
                         <=> IF x = c THEN r /= NoRequest ELSE \E q \in Requests : carrier[q] = x
  <2> SUFFICES ASSUME NEW x \in Conns
               PROVE  (\E q \in Requests : carrier'[q] = x)
                         <=> IF x = c THEN r /= NoRequest ELSE \E q \in Requests : carrier[q] = x
    OBVIOUS
  <2>1. CASE x = c
    BY <1>1, <1>3, <2>1
  <2>2. CASE x /= c
    <3>1. ASSUME NEW q \in Requests, carrier[q] = x
          PROVE  carrier'[q] = x
      BY <1>1, <1>2, <2>2, <3>1 DEF Reqs
    <3>2. ASSUME NEW q \in Requests, carrier'[q] = x
          PROVE  carrier[q] = x
      BY <1>1, <2>2, <3>2
    <3> QED
      BY <2>2, <3>1, <3>2
  <2> QED
    BY <2>1, <2>2
<1>8. \A q \in Requests, x \in Conns : carrier'[q] = x /\ x /= c => carrier[q] = x
  BY <1>1
<1>9. dialFor' \in [Conns -> Requests \cup {NoRequest}]
  BY DEF Hand, Dials
<1>10. ASSUME NEW d \in Conns, dialFor'[d] /= NoRequest
       PROVE  dialFor'[d] = dialFor[d] /\ phase'[dialFor[d]] = "waiting"
  <2>1. dialFor'[d] = dialFor[d] /\ dialFor[d] /= r /\ dialFor[d] \in Requests
    BY <1>1, <1>10 DEF Dials
  <2>2. phase[dialFor[d]] = "waiting"
    BY <2>1 DEF Dials
  <2> QED
    BY <1>1, <1>2, <2>1, <2>2
<1> QED
  BY <1>4, <1>5, <1>6, <1>7, <1>8, <1>9, <1>10

LEMMA HeadFacts ==
  ASSUME Queue, waiting /= <<>>
  PROVE  Head(waiting) \in Requests /\ phase[Head(waiting)] = "waiting"
<1>1. waiting \in Seq(Requests) /\ 1 \in 1..Len(waiting) /\ Head(waiting) = waiting[1]
  BY DEF Queue
<1>2. Head(waiting) \in Requests /\ Head(waiting) \in ToSet(waiting)
  BY <1>1 DEF ToSet
<1> QED
  BY <1>2 DEF Queue
\* The part of the invariant that is about clients and ages, after a step that
\* changes no client, no arrival and no reload: connections stay dialled or
\* not, kept ones have been reused, and what a request holds or waits for now
\* it held or waited for before, or it is a reused connection.
LEMMA AgesKept ==
  ASSUME Clients, Ages, UNCHANGED <<current, client, arrival>>,
         \A c \in Conns : conn'[c] \in {"unused", "asked"} <=> conn[c] \in {"unused", "asked"},
         \A c \in Conns : conn'[c] = "kept" => c \in reused',
         reused \subseteq reused',
         \A r \in Requests, c \in Conns : dialFor'[c] = r => dialFor[c] = r,
         \A r \in Requests, c \in Conns : carrier'[r] = c /\ c \notin reused' =>
           carrier[r] = c \/ (dialFor[c] = r /\ client[c] /= 0)
  PROVE  Clients' /\ Ages'
<1>1. Clients'
  BY DEF Clients
<1>2. Ages'
  <2>1. \A r \in Requests, c \in Conns : NotOlder(c, r)' <=> NotOlder(c, r)
    BY DEF NotOlder
  <2> QED
    BY <2>1 DEF Ages
<1> QED
  BY <1>1, <1>2

\* What tryPutIdleConn does to a connection that was dialled for nobody any
\* more or has finished request e.
LEMMA PutIdleConnIInv ==
  ASSUME IInv, NEW c \in Conns, NEW e \in Requests \cup {NoRequest},
         conn[c] \in {"dialling", "busy"}, dialFor[c] = NoRequest,
         \A q \in Requests : carrier[q] = c <=> q = e,
         PutIdleConn(c, e), UNCHANGED <<current, client, dead, arrival>>
  PROVE  IInv'
<1> USE NoneAssumption
<1>0. Reqs /\ Socks /\ Queue /\ Kept /\ Dials /\ Clients /\ Ages
  BY DEF IInv
<1>1. PICK r \in Requests \cup {NoRequest} :
        /\ Hand(c, r, e) /\ (r /= NoRequest => phase[r] = "waiting")
        /\ \/ waiting /= <<>> /\ r /= NoRequest /\ conn' = [conn EXCEPT ![c] = "busy"] /\ UNCHANGED pool
           \/ waiting = <<>> /\ r = NoRequest /\ Keep(c)
  <2>1. CASE waiting /= <<>>
    BY <1>0, <2>1, HeadFacts DEF PutIdleConn
  <2>2. CASE waiting = <<>>
    BY <2>2 DEF PutIdleConn
  <2> QED
    BY <2>1, <2>2
<1>2. /\ Reqs' /\ Queue'
      /\ \A x \in Conns : (\E q \in Requests : carrier'[q] = x)
                            <=> IF x = c THEN r /= NoRequest ELSE \E q \in Requests : carrier[q] = x
      /\ \A q \in Requests, x \in Conns : carrier'[q] = x /\ x /= c => carrier[q] = x
      /\ dialFor' \in [Conns -> Requests \cup {NoRequest}]
      /\ \A d \in Conns : dialFor'[d] /= NoRequest =>
           dialFor'[d] = dialFor[d] /\ phase'[dialFor[d]] = "waiting"
      /\ Len(waiting') <= Len(waiting)
  BY <1>0, <1>1, HandFacts
<1>3. /\ reused' = reused \cup {c} /\ dead' = dead
      /\ conn' \in [Conns -> {"unused", "asked", "dialling", "kept", "busy", "closed"}]
      /\ \A d \in Conns : d /= c => conn'[d] = conn[d]
      /\ IF r /= NoRequest THEN conn'[c] = "busy" ELSE conn'[c] \in {"kept", "closed"}
  BY <1>0, <1>1 DEF PutIdleConn, Keep, Socks
<1>4. Socks'
  <2>1. \A x \in Conns : conn'[x] = "busy" <=> \E q \in Requests : carrier'[q] = x
    BY <1>0, <1>2, <1>3 DEF Socks
  <2> QED
    BY <1>0, <1>3, <2>1 DEF Socks
<1>5. Dials'
  <2>1. \A d \in Conns : dialFor'[d] /= NoRequest => d /= c
    BY <1>2
  <2> QED
    BY <1>0, <1>2, <1>3, <2>1 DEF Dials
<1>6. Kept'
  <2>1. CASE r /= NoRequest
    <3>1. pool' = pool /\ pool = <<>> /\ conn' = [conn EXCEPT ![c] = "busy"]
      BY <1>0, <1>1, <2>1 DEF Kept
    <3>2. \A d \in Conns : conn'[d] = "kept" <=> conn[d] = "kept"
      BY <1>0, <3>1 DEF Socks
    <3>3. ToSet(pool)' = ToSet(pool) /\ IsInjective(pool)'
      BY <1>0, <3>1 DEF ToSet, IsInjective, Kept
    <3> QED
      BY <1>0, <3>1, <3>2, <3>3 DEF Kept
  <2>2. CASE r = NoRequest
    <3>1. waiting = <<>> /\ Keep(c)
      BY <1>1, <2>2
    <3>2. waiting' = <<>>
      <4>1. waiting' \in Seq(Requests) /\ Len(waiting') <= 0
        BY <1>2, <3>1 DEF Queue
      <4> QED
        BY <4>1
    <3>3. CASE Len(pool) >= MaxIdlePerHost
      <4>1. pool' = pool /\ conn' = [conn EXCEPT ![c] = "closed"]
        BY <3>1, <3>3 DEF Keep
      <4>2. \A d \in Conns : conn'[d] = "kept" <=> conn[d] = "kept"
        BY <1>0, <4>1 DEF Socks
      <4>3. ToSet(pool)' = ToSet(pool) /\ IsInjective(pool)'
        BY <1>0, <4>1 DEF ToSet, IsInjective, Kept
      <4> QED
        BY <1>0, <3>2, <4>1, <4>2, <4>3 DEF Kept
    <3>4. CASE ~(Len(pool) >= MaxIdlePerHost)
      <4>1. pool' = Append(pool, c) /\ conn' = [conn EXCEPT ![c] = "kept"]
        BY <3>1, <3>4 DEF Keep
      <4>2. pool \in Seq(Conns) /\ IsInjective(pool) /\ c \notin ToSet(pool)
        BY <1>0 DEF Kept
      <4>3. /\ pool' \in Seq(Conns) /\ IsInjective(pool')
            /\ ToSet(pool') = ToSet(pool) \cup {c} /\ Len(pool') = Len(pool) + 1
        BY <4>1, <4>2, AppendFacts
      <4>4. Len(pool') <= MaxIdlePerHost
        <5>1. Len(pool) \in Nat
          BY <4>2
        <5> QED
          BY <3>4, <4>3, <5>1, BoundAssumption
      <4>5. \A d \in Conns : conn'[d] = "kept" <=> conn[d] = "kept" \/ d = c
        BY <1>0, <4>1 DEF Socks
      <4>6. \A d \in Conns : d \in ToSet(pool)' <=> conn'[d] = "kept"
        BY <1>0, <4>3, <4>5 DEF Kept, ToSet
      <4>7. IsInjective(pool)'
        BY <4>3 DEF IsInjective
      <4> QED
        BY <3>2, <4>3, <4>4, <4>6, <4>7 DEF Kept
    <3> QED
      BY <3>3, <3>4
  <2> QED
    BY <2>1, <2>2
<1>7. Clients' /\ Ages'
  <2>1. \A d \in Conns : conn'[d] \in {"unused", "asked"} <=> conn[d] \in {"unused", "asked"}
    BY <1>3
  <2>2. \A d \in Conns : conn'[d] = "kept" => d \in reused'
    BY <1>0, <1>3 DEF Ages
  <2>3. \A q \in Requests, d \in Conns : dialFor'[d] = q => dialFor[d] = q
    BY <1>2
  <2>4. \A q \in Requests, d \in Conns : carrier'[q] = d /\ d \notin reused' => carrier[q] = d
    BY <1>2, <1>3
  <2> QED
    BY <1>0, <1>3, <2>1, <2>2, <2>3, <2>4, AgesKept
<1> QED
  BY <1>2, <1>4, <1>5, <1>6, <1>7 DEF IInv
-----------------------------------------------------------------------------
(* One lemma per action.                                                    *)

LEMMA Parts ==
  ASSUME IInv
  PROVE  Reqs /\ Socks /\ Queue /\ Kept /\ Dials /\ Clients /\ Ages
BY DEF IInv

\* The lists stay what they are when they are left alone, and so are the
\* requests that wait and the connections that are kept.
LEMMA QueueSame ==
  ASSUME Queue, waiting' = waiting,
         \A r \in Requests : phase'[r] = "waiting" <=> phase[r] = "waiting"
  PROVE  Queue'
BY DEF Queue, IsInjective, ToSet

LEMMA KeptSame ==
  ASSUME Kept, pool' = pool, waiting' = waiting,
         \A c \in Conns : conn'[c] = "kept" <=> conn[c] = "kept"
  PROVE  Kept'
BY DEF Kept, IsInjective, ToSet

LEMMA ReloadIInv ==
  ASSUME IInv, Reload
  PROVE  IInv'
<1> USE Parts
<1>1. /\ current' = current + 1 /\ current <= MaxReloads
      /\ UNCHANGED <<phase, carrier, conn, client, dialFor, waiting, pool, reused, dead, arrival>>
  BY DEF Reload, reqVars, connVars, poolVars
<1>2. Reqs' /\ Socks' /\ Dials'
  BY <1>1 DEF Reqs, Socks, Dials
<1>3. Queue' /\ Kept'
  BY <1>1, QueueSame, KeptSame
<1>4. Clients'
  <2>1. current \in 1..MaxReloads + 1
    BY DEF Clients
  <2>2. current' \in 1..MaxReloads + 1 /\ \A n \in 0..current : n \in 0..current'
    BY <1>1, <2>1, BoundAssumption
  <2>3. client' \in [Conns -> 0..current'] /\ arrival' \in [Requests -> [at : 0..current', dialled : SUBSET Conns]]
    BY <1>1, <2>2 DEF Clients
  <2> QED
    BY <1>1, <2>2, <2>3 DEF Clients
<1>5. Ages'
  BY <1>1 DEF Ages, NotOlder
<1> QED
  BY <1>2, <1>3, <1>4, <1>5 DEF IInv

LEMMA HandleHTTPIInv ==
  ASSUME IInv, NEW r \in Requests, HandleHTTP(r)
  PROVE  IInv'
<1> USE Parts
<1>1. /\ phase[r] = "none" /\ phase' = [phase EXCEPT ![r] = "want"]
      /\ UNCHANGED <<current, carrier, conn, client, dialFor, waiting, pool, reused, dead>>
  BY DEF HandleHTTP, reqVars, connVars, poolVars
<1>2. arrival' = [arrival EXCEPT ![r] =
                    [at |-> current, dialled |-> {c \in Conns : client[c] /= 0}]]
  BY DEF HandleHTTP
<1>3. Reqs' /\ Socks'
  BY <1>1 DEF Reqs, Socks
<1>4. \A q \in Requests : phase'[q] = "waiting" <=> phase[q] = "waiting"
  BY <1>1 DEF Reqs
<1>5. Queue' /\ Kept'
  BY <1>1, <1>4, QueueSame, KeptSame
<1>6. Dials'
  BY <1>1, <1>4 DEF Dials
<1>7. Clients'
  <2>1. current \in 0..current
    BY DEF Clients
  <2> QED
    BY <1>1, <1>2, <2>1 DEF Clients
<1>8. Ages'
  <2>1. \A c \in Conns : dialFor[c] /= r /\ carrier[r] /= c
    BY <1>1, NoneAssumption DEF Dials, Reqs
  <2>2. \A c \in Conns : client[c] /= 0 => c \in arrival'[r].dialled
    BY <1>2 DEF Clients
  <2>3. \A q \in Requests : q /= r => arrival'[q] = arrival[q]
    BY <1>2 DEF Clients
  <2> QED
    BY <1>1, <2>1, <2>2, <2>3 DEF Ages, NotOlder
<1> QED
  BY <1>3, <1>5, <1>6, <1>7, <1>8 DEF IInv

LEMMA TakeIInv ==
  ASSUME IInv, NEW r \in Requests, Take(r)
  PROVE  IInv'
<1> USE Parts, NoneAssumption
<1>0. PICK c : c = Last(pool)
  OBVIOUS
<1>1. /\ phase[r] = "want" /\ phase' = [phase EXCEPT ![r] = "sent"] /\ pool /= <<>>
      /\ carrier' = [carrier EXCEPT ![r] = c] /\ conn' = [conn EXCEPT ![c] = "busy"]
      /\ pool' = Front(pool)
      /\ UNCHANGED <<current, client, dialFor, waiting, reused, dead, arrival>>
  BY <1>0 DEF Take
<1>2. /\ pool' \in Seq(Conns) /\ IsInjective(pool') /\ c \in Conns /\ c \in ToSet(pool)
      /\ ToSet(pool') = ToSet(pool) \ {c} /\ Len(pool') <= Len(pool)
  BY <1>0, <1>1, FrontFacts DEF Kept
<1>3. conn[c] = "kept" /\ c \in reused /\ carrier[r] = NoConn
  BY <1>1, <1>2 DEF Kept, Ages, Reqs
<1>4. \A q \in Requests : carrier[q] /= c
  BY <1>2, <1>3 DEF Socks
<1>5. Reqs'
  BY <1>1, <1>2, <1>3, <1>4 DEF Reqs
<1>6. Socks'
  <2>1. \A x \in Conns : (\E q \in Requests : carrier'[q] = x)
                           <=> x = c \/ \E q \in Requests : carrier[q] = x
    BY <1>1, <1>3, <1>4 DEF Reqs
  <2>2. \A x \in Conns : conn'[x] = "busy" <=> x = c \/ conn[x] = "busy"
    BY <1>1 DEF Socks
  <2> QED
    BY <1>1, <2>1, <2>2 DEF Socks
<1>7. \A q \in Requests : phase'[q] = "waiting" <=> phase[q] = "waiting"
  BY <1>1 DEF Reqs
<1>8. Queue'
  BY <1>1, <1>7, QueueSame
<1>9. Kept'
  <2>1. \A d \in Conns : conn'[d] = "kept" <=> conn[d] = "kept" /\ d /= c
    BY <1>1 DEF Socks
  <2>2. \A d \in Conns : d \in ToSet(pool)' <=> conn'[d] = "kept"
    BY <1>2, <2>1 DEF Kept, ToSet
  <2>3. Len(pool') <= MaxIdlePerHost
    <3>1. Len(pool) \in Nat /\ Len(pool') \in Nat /\ Len(pool) <= MaxIdlePerHost
      BY <1>2 DEF Kept
    <3> QED
      BY <1>2, <3>1, BoundAssumption
  <2>4. IsInjective(pool)'
    BY <1>2 DEF IsInjective
  <2> QED
    BY <1>1, <1>2, <2>2, <2>3, <2>4 DEF Kept
<1>10. Dials'
  <2>1. \A d \in Conns : dialFor[d] /= NoRequest => d /= c
    BY <1>3 DEF Dials
  <2> QED
    BY <1>1, <1>7, <2>1 DEF Dials
<1>11. Clients' /\ Ages'
  <2>1. \A d \in Conns : conn'[d] \in {"unused", "asked"} <=> conn[d] \in {"unused", "asked"}
    BY <1>1, <1>3 DEF Socks
  <2>2. \A d \in Conns : conn'[d] = "kept" => d \in reused'
    BY <1>1 DEF Ages, Socks
  <2>3. \A q \in Requests, d \in Conns : carrier'[q] = d /\ d \notin reused' => carrier[q] = d
    BY <1>1, <1>3 DEF Reqs
  <2> QED
    BY <1>1, <2>1, <2>2, <2>3, AgesKept
<1> QED
  BY <1>5, <1>6, <1>8, <1>9, <1>10, <1>11 DEF IInv
LEMMA QueueDialIInv ==
  ASSUME IInv, NEW r \in Requests, NEW c \in Conns, QueueDial(r, c)
  PROVE  IInv'
<1> USE Parts, NoneAssumption
<1>1. /\ phase[r] = "want" /\ phase' = [phase EXCEPT ![r] = "waiting"]
      /\ conn[c] = "unused" /\ conn' = [conn EXCEPT ![c] = "asked"]
      /\ dialFor' = [dialFor EXCEPT ![c] = r]
      /\ waiting' = Append(waiting, r) /\ pool = <<>>
      /\ UNCHANGED <<current, carrier, client, pool, reused, dead, arrival>>
  BY DEF QueueDial
<1>2. r \notin ToSet(waiting)
  BY <1>1 DEF Queue
<1>3. /\ waiting' \in Seq(Requests) /\ IsInjective(waiting')
      /\ ToSet(waiting') = ToSet(waiting) \cup {r}
  BY <1>1, <1>2, AppendFacts DEF Queue
<1>4. \A q \in Requests : phase'[q] = "waiting" <=> phase[q] = "waiting" \/ q = r
  BY <1>1 DEF Reqs
<1>5. Reqs' /\ Socks'
  BY <1>1 DEF Reqs, Socks
<1>6. Queue'
  <2>1. \A q \in Requests : q \in ToSet(waiting)' <=> phase'[q] = "waiting"
    BY <1>3, <1>4 DEF Queue, ToSet
  <2>2. IsInjective(waiting)'
    BY <1>3 DEF IsInjective
  <2> QED
    BY <1>3, <2>1, <2>2 DEF Queue
<1>7. Kept'
  <2>1. \A d \in Conns : conn'[d] = "kept" <=> conn[d] = "kept"
    BY <1>1 DEF Socks
  <2>2. ToSet(pool)' = ToSet(pool) /\ IsInjective(pool)'
    BY <1>1 DEF ToSet, IsInjective, Kept
  <2> QED
    BY <1>1, <2>1, <2>2 DEF Kept
<1>8. Dials'
  <2>1. \A d \in Conns : dialFor[d] /= r
    BY <1>1 DEF Dials
  <2> QED
    BY <1>1, <1>4, <2>1 DEF Dials, Socks
<1>9. client[c] = 0
  BY <1>1 DEF Clients
<1>10. Clients'
  BY <1>1 DEF Clients, Socks
<1>11. Ages'
  <2>1. \A d \in Conns : conn'[d] = "kept" => d \in reused
    BY <1>1 DEF Ages, Socks
  <2>2. \A q \in Requests, d \in Conns : dialFor'[d] = q => dialFor[d] = q \/ d = c
    BY <1>1 DEF Dials
  <2> QED
    BY <1>1, <1>9, <2>1, <2>2 DEF Ages, NotOlder
<1> QED
  BY <1>5, <1>6, <1>7, <1>8, <1>10, <1>11 DEF IInv

\* The dial gets the client of now, and no request arrived later than now.
LEMMA DialContextIInv ==
  ASSUME IInv, NEW c \in Conns, DialContext(c)
  PROVE  IInv'
<1> USE Parts, NoneAssumption
<1>1. /\ conn[c] = "asked" /\ conn' = [conn EXCEPT ![c] = "dialling"]
      /\ client' = [client EXCEPT ![c] = current]
      /\ UNCHANGED <<current, phase, carrier, dialFor, waiting, pool, reused, dead, arrival>>
  BY DEF DialContext, reqVars, poolVars
<1>2. \A d \in Conns : conn'[d] = "kept" <=> conn[d] = "kept"
  BY <1>1 DEF Socks
<1>3. Reqs' /\ Socks'
  BY <1>1 DEF Reqs, Socks
<1>4. Queue' /\ Kept'
  BY <1>1, <1>2, QueueSame, KeptSame
<1>5. Dials'
  BY <1>1 DEF Dials, Socks
<1>6. current \in Nat \ {0} /\ current \in 0..current
  BY DEF Clients
<1>7. Clients'
  BY <1>1, <1>6 DEF Clients, Socks
<1>8. Ages'
  <2>1. \A q \in Requests : current >= arrival[q].at
    BY <1>6 DEF Clients
  <2>2. \A q \in Requests : NotOlder(c, q)'
    BY <1>1, <2>1 DEF NotOlder, Clients
  <2>3. \A q \in Requests, d \in Conns : d /= c => (NotOlder(d, q)' <=> NotOlder(d, q)) /\ client'[d] = client[d]
    BY <1>1 DEF NotOlder, Clients
  <2> QED
    BY <1>1, <1>2, <2>2, <2>3 DEF Ages
<1> QED
  BY <1>3, <1>4, <1>5, <1>7, <1>8 DEF IInv

LEMMA DialDoneIInv ==
  ASSUME IInv, NEW c \in Conns, DialDone(c)
  PROVE  IInv'
<1> USE Parts, NoneAssumption
<1>1. conn[c] = "dialling" /\ UNCHANGED <<current, client, dead, arrival>>
  BY DEF DialDone
<1>2. \A q \in Requests : carrier[q] /= c
  BY <1>1 DEF Socks
<1>3. CASE dialFor[c] = NoRequest
  BY <1>1, <1>2, <1>3, PutIdleConnIInv DEF DialDone
<1>4. CASE dialFor[c] /= NoRequest
  <2>0. PICK r \in Requests : r = dialFor[c]
    BY <1>4 DEF Dials
  <2>1. /\ Hand(c, r, NoRequest) /\ conn' = [conn EXCEPT ![c] = "busy"]
        /\ UNCHANGED <<pool, reused>>
    BY <1>4, <2>0 DEF DialDone
  <2>2. phase[r] = "waiting" /\ r /= NoRequest
    BY <2>0 DEF Dials
  <2>3. /\ Reqs' /\ Queue'
        /\ \A x \in Conns : (\E q \in Requests : carrier'[q] = x)
                              <=> IF x = c THEN r /= NoRequest ELSE \E q \in Requests : carrier[q] = x
        /\ \A q \in Requests, x \in Conns : carrier'[q] = x /\ x /= c => carrier[q] = x
        /\ dialFor' \in [Conns -> Requests \cup {NoRequest}]
        /\ \A d \in Conns : dialFor'[d] /= NoRequest =>
             dialFor'[d] = dialFor[d] /\ phase'[dialFor[d]] = "waiting"
    BY <1>2, <2>1, <2>2, HandFacts
  <2>4. /\ \A d \in Conns : d /= c => conn'[d] = conn[d]
        /\ conn'[c] = "busy"
        /\ conn' \in [Conns -> {"unused", "asked", "dialling", "kept", "busy", "closed"}]
    BY <2>1 DEF Socks
  <2>5. Socks'
    <3>1. \A x \in Conns : conn'[x] = "busy" <=> \E q \in Requests : carrier'[q] = x
      BY <2>2, <2>3, <2>4 DEF Socks
    <3> QED
      BY <1>1, <2>1, <2>4, <3>1 DEF Socks
  <2>6. dialFor'[c] = NoRequest
    BY <2>0, <2>1 DEF Hand
  <2>7. Dials'
    BY <2>3, <2>4, <2>6 DEF Dials
  <2>8. \A d \in Conns : conn'[d] = "kept" <=> conn[d] = "kept"
    BY <1>1, <2>4
  <2>9. Kept'
    <3>1. pool' = pool /\ pool = <<>>
      <4>1. r \in ToSet(waiting)
        BY <2>2 DEF Queue
      <4>2. waiting /= <<>>
        BY <4>1 DEF ToSet
      <4> QED
        BY <2>1, <4>2 DEF Kept
    <3>2. ToSet(pool)' = ToSet(pool) /\ IsInjective(pool)'
      BY <3>1 DEF ToSet, IsInjective, Kept
    <3> QED
      BY <2>8, <3>1, <3>2 DEF Kept
  <2>10. Clients' /\ Ages'
    <3>1. \A d \in Conns : conn'[d] \in {"unused", "asked"} <=> conn[d] \in {"unused", "asked"}
      BY <1>1, <2>4
    <3>2. client[c] /= 0
      BY <1>1 DEF Clients
    <3>3. \A q \in Requests : carrier'[q] = c => q = r
      BY <1>2, <2>1 DEF Hand
    <3>4. \A q \in Requests, d \in Conns : carrier'[q] = d =>
            carrier[q] = d \/ (dialFor[d] = q /\ client[d] /= 0)
      BY <2>0, <2>3, <3>2, <3>3
    <3>5. \A d \in Conns : conn'[d] = "kept" => d \in reused'
      BY <2>1, <2>8 DEF Ages
    <3>6. \A q \in Requests, d \in Conns : dialFor'[d] = q => dialFor[d] = q
      BY <2>3
    <3> QED
      BY <1>1, <2>1, <3>1, <3>4, <3>5, <3>6, AgesKept
  <2> QED
    BY <2>3, <2>5, <2>7, <2>9, <2>10 DEF IInv
<1> QED
  BY <1>3, <1>4

LEMMA DialFailsIInv ==
  ASSUME IInv, NEW c \in Conns, DialFails(c)
  PROVE  IInv'
<1> USE Parts, NoneAssumption
<1>0. PICK r \in Requests \cup {NoRequest} : r = dialFor[c]
  BY DEF Dials
<1>1. /\ conn[c] = "dialling" /\ conn' = [conn EXCEPT ![c] = "closed"]
      /\ phase' = [q \in Requests |-> IF q = r THEN "done" ELSE phase[q]]
      /\ waiting' = RemoveFirst(waiting, r)
      /\ dialFor' = [dialFor EXCEPT ![c] = NoRequest]
      /\ UNCHANGED <<current, carrier, client, pool, reused, dead, arrival>>
  BY <1>0 DEF DialFails
<1>2. r \in Requests => phase[r] = "waiting"
  BY <1>0 DEF Dials
<1>3. Reqs'
  BY <1>1, <1>2 DEF Reqs
<1>4. Socks'
  BY <1>1 DEF Socks
<1>5. /\ waiting' \in Seq(Requests) /\ IsInjective(waiting')
      /\ ToSet(waiting') = ToSet(waiting) \ {r} /\ Len(waiting') <= Len(waiting)
  BY <1>1, RemoveFirstFacts DEF Queue
<1>6. \A q \in Requests : phase'[q] = "waiting" <=> phase[q] = "waiting" /\ q /= r
  BY <1>1
<1>7. Queue'
  <2>1. \A q \in Requests : q \in ToSet(waiting)' <=> phase'[q] = "waiting"
    BY <1>5, <1>6 DEF Queue, ToSet
  <2>2. IsInjective(waiting)'
    BY <1>5 DEF IsInjective
  <2> QED
    BY <1>5, <2>1, <2>2 DEF Queue
<1>8. \A d \in Conns : conn'[d] = "kept" <=> conn[d] = "kept"
  BY <1>1 DEF Socks
<1>9. Kept'
  <2>1. waiting = <<>> => waiting' = <<>>
    BY <1>5
  <2>2. ToSet(pool)' = ToSet(pool) /\ IsInjective(pool)'
    BY <1>1 DEF ToSet, IsInjective, Kept
  <2> QED
    BY <1>1, <1>8, <2>1, <2>2 DEF Kept
<1>10. Dials'
  <2>1. \A d \in Conns : dialFor'[d] /= NoRequest => d /= c /\ dialFor'[d] = dialFor[d] /\ dialFor[d] /= r
    BY <1>0, <1>1 DEF Dials
  <2> QED
    BY <1>1, <1>6, <2>1 DEF Dials, Socks
<1>11. Clients' /\ Ages'
  <2>1. \A d \in Conns : conn'[d] \in {"unused", "asked"} <=> conn[d] \in {"unused", "asked"}
    BY <1>1 DEF Socks
  <2>2. \A d \in Conns : conn'[d] = "kept" => d \in reused'
    BY <1>1, <1>8 DEF Ages
  <2>3. \A q \in Requests, d \in Conns : dialFor'[d] = q => dialFor[d] = q
    BY <1>1 DEF Dials
  <2> QED
    BY <1>1, <2>1, <2>2, <2>3, AgesKept
<1> QED
  BY <1>3, <1>4, <1>7, <1>9, <1>10, <1>11 DEF IInv

LEMMA CompleteIInv ==
  ASSUME IInv, NEW r \in Requests, Complete(r)
  PROVE  IInv'
<1> USE Parts, NoneAssumption
<1>0. PICK c \in Conns : c = carrier[r]
  BY DEF Complete, Reqs
<1>1. /\ phase[r] = "sent" /\ PutIdleConn(c, r) /\ UNCHANGED <<current, client, dead, arrival>>
  BY <1>0 DEF Complete
<1>2. conn[c] = "busy" /\ dialFor[c] = NoRequest
  BY <1>0 DEF Socks, Dials
<1>3. \A q \in Requests : carrier[q] = c <=> q = r
  BY <1>0 DEF Reqs
<1> QED
  BY <1>1, <1>2, <1>3, PutIdleConnIInv

\* A request gives up its connection, and is over or starts again.
LEMMA CloseIInv ==
  ASSUME IInv, NEW r \in Requests, Break(r) \/ Retry(r)
  PROVE  IInv'
<1> USE Parts, NoneAssumption
<1>0. PICK c \in Conns : c = carrier[r]
  BY DEF Break, Retry, Reqs
<1>1. /\ phase[r] = "sent"
      /\ \E p \in {"want", "done"} : phase' = [phase EXCEPT ![r] = p]
      /\ carrier' = [carrier EXCEPT ![r] = NoConn] /\ conn' = [conn EXCEPT ![c] = "closed"]
      /\ UNCHANGED <<current, client, dialFor, waiting, pool, reused, dead, arrival>>
  BY <1>0 DEF Break, Retry, poolVars
<1>2. conn[c] = "busy"
  BY <1>0 DEF Socks
<1>3. Reqs'
  BY <1>1 DEF Reqs
<1>4. Socks'
  <2>1. \A x \in Conns : (\E q \in Requests : carrier'[q] = x)
                           <=> x /= c /\ \E q \in Requests : carrier[q] = x
    BY <1>0, <1>1 DEF Reqs
  <2> QED
    BY <1>1, <2>1 DEF Socks
<1>5. \A q \in Requests : phase'[q] = "waiting" <=> phase[q] = "waiting"
  BY <1>1 DEF Reqs
<1>6. \A d \in Conns : conn'[d] = "kept" <=> conn[d] = "kept"
  BY <1>1, <1>2 DEF Socks
<1>7. Queue' /\ Kept'
  BY <1>1, <1>5, <1>6, QueueSame, KeptSame
<1>8. Dials'
  BY <1>1, <1>2, <1>5 DEF Dials, Socks
<1>9. Clients' /\ Ages'
  <2>1. \A d \in Conns : conn'[d] \in {"unused", "asked"} <=> conn[d] \in {"unused", "asked"}
    BY <1>1, <1>2 DEF Socks
  <2>2. \A d \in Conns : conn'[d] = "kept" => d \in reused'
    BY <1>1, <1>6 DEF Ages
  <2>3. \A q \in Requests, d \in Conns : carrier'[q] = d => carrier[q] = d
    BY <1>1 DEF Reqs
  <2> QED
    BY <1>1, <2>1, <2>2, <2>3, AgesKept
<1> QED
  BY <1>3, <1>4, <1>7, <1>8, <1>9 DEF IInv

LEMMA NoticeIInv ==
  ASSUME IInv, NEW c \in Conns, Notice(c)
  PROVE  IInv'
<1> USE Parts, NoneAssumption
<1>1. /\ conn[c] = "kept" /\ conn' = [conn EXCEPT ![c] = "closed"]
      /\ pool' = RemoveFirst(pool, c)
      /\ UNCHANGED <<current, phase, carrier, client, dialFor, waiting, reused, dead, arrival>>
  BY DEF Notice, reqVars
<1>2. /\ pool' \in Seq(Conns) /\ IsInjective(pool')
      /\ ToSet(pool') = ToSet(pool) \ {c} /\ Len(pool') <= Len(pool)
  BY <1>1, RemoveFirstFacts DEF Kept
<1>3. Reqs' /\ Socks'
  BY <1>1 DEF Reqs, Socks
<1>4. Queue'
  BY <1>1, QueueSame
<1>5. \A d \in Conns : conn'[d] = "kept" <=> conn[d] = "kept" /\ d /= c
  BY <1>1 DEF Socks
<1>6. Kept'
  <2>1. \A d \in Conns : d \in ToSet(pool)' <=> conn'[d] = "kept"
    BY <1>2, <1>5 DEF Kept, ToSet
  <2>2. Len(pool') <= MaxIdlePerHost
    <3>1. Len(pool) \in Nat /\ Len(pool') \in Nat /\ Len(pool) <= MaxIdlePerHost
      BY <1>2 DEF Kept
    <3> QED
      BY <1>2, <3>1, BoundAssumption
  <2>3. IsInjective(pool)'
    BY <1>2 DEF IsInjective
  <2>4. pool' /= <<>> => pool /= <<>>
    BY <1>2
  <2> QED
    BY <1>1, <1>2, <2>1, <2>2, <2>3, <2>4 DEF Kept
<1>7. Dials'
  BY <1>1 DEF Dials, Socks
<1>8. Clients' /\ Ages'
  <2>1. \A d \in Conns : conn'[d] \in {"unused", "asked"} <=> conn[d] \in {"unused", "asked"}
    BY <1>1 DEF Socks
  <2>2. \A d \in Conns : conn'[d] = "kept" => d \in reused'
    BY <1>1, <1>5 DEF Ages
  <2> QED
    BY <1>1, <2>1, <2>2, AgesKept
<1> QED
  BY <1>3, <1>4, <1>6, <1>7, <1>8 DEF IInv

\* A target that closes, and a step that changes nothing.
LEMMA SameIInv ==
  ASSUME IInv, dead' \subseteq Conns, UNCHANGED <<current, reqVars, connVars, poolVars, arrival>>
  PROVE  IInv'
<1> USE Parts
<1>1. UNCHANGED <<current, phase, carrier, conn, client, dialFor, waiting, pool, reused, arrival>>
  BY DEF reqVars, connVars, poolVars
<1>2. Queue' /\ Kept'
  BY <1>1, QueueSame, KeptSame
<1>3. Reqs' /\ Socks' /\ Dials' /\ Clients' /\ Ages'
  BY <1>1 DEF Reqs, Socks, Dials, Clients, Ages, NotOlder
<1> QED
  BY <1>2, <1>3 DEF IInv

LEMMA StepIInv == IInv /\ [Next]_vars => IInv'
<1> SUFFICES ASSUME IInv, [Next]_vars PROVE IInv'
  OBVIOUS
<1>1. CASE Reload
  BY <1>1, ReloadIInv
<1>2. ASSUME NEW r \in Requests,
             HandleHTTP(r) \/ Take(r) \/ Complete(r) \/ Break(r) \/ Retry(r)
      PROVE  IInv'
  BY <1>2, HandleHTTPIInv, TakeIInv, CompleteIInv, CloseIInv
<1>3. ASSUME NEW r \in Requests, NEW c \in Conns, QueueDial(r, c)
      PROVE  IInv'
  BY <1>3, QueueDialIInv
<1>4. ASSUME NEW c \in Conns, DialContext(c) \/ DialDone(c) \/ DialFails(c) \/ Notice(c)
      PROVE  IInv'
  BY <1>4, DialContextIInv, DialDoneIInv, DialFailsIInv, NoticeIInv
<1>5. ASSUME NEW c \in Conns, TargetCloses(c)
      PROVE  IInv'
  <2>1. dead' \subseteq Conns /\ UNCHANGED <<current, reqVars, connVars, poolVars, arrival>>
    BY <1>5 DEF TargetCloses, IInv, Socks
  <2> QED
    BY <2>1, SameIInv
<1>6. CASE UNCHANGED vars
  <2>1. dead' \subseteq Conns /\ UNCHANGED <<current, reqVars, connVars, poolVars, arrival>>
    BY <1>6 DEF vars, IInv, Socks
  <2> QED
    BY <2>1, SameIInv
<1> QED
  BY <1>1, <1>2, <1>3, <1>4, <1>5, <1>6 DEF Next

-----------------------------------------------------------------------------
\* The transport's lists agree with the states of the requests and of the
\* connections, nothing is kept while a request waits, and no connection
\* carries two requests.
THEOREM TypeCorrect == Spec => []TypeOK
BY InitIInv, StepIInv, TypesFollow, PTL DEF Spec

\* However requests, dials, retries, closing targets and reloads interleave, a
\* request that arrives after a reload meets the replaced server over a reused
\* connection that is older than the request, or not at all.
THEOREM StaleOnlyByReuseAlways == Spec => []StaleOnlyByReuse
BY InitIInv, StepIInv, PropertyFollows, PTL DEF Spec
=============================================================================
