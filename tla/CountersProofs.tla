---------------------------- MODULE CountersProofs ----------------------------
(***************************************************************************)
(* Proofs about Counters for any number of connections, calls and           *)
(* snapshots.  The counters are cardinalities of sets of connections, so    *)
(* each step of the proof says how the sets grow; a disconnection takes one  *)
(* connection out because TrackedConn.mu lets one call pass the check.      *)
(***************************************************************************)
EXTENDS Counters, FiniteSetTheorems, TLAPS

\* A connection goes through the steps of RecordConnection in order.
Ordered ==
  \A c \in Conns : /\ "active" \in added[c] => "total" \in added[c]
                   /\ "proto" \in added[c] => "active" \in added[c]

\* What the mutex of a connection protects.
Guarded ==
  /\ \A c \in Conns : closed[c] => Wrapped(c)
  /\ \A c \in Conns, k \in Closers :
       /\ pc[c][k] \in {"check", "set", "record", "close", "unlock"} => mu[c] = k
       /\ pc[c][k] /= "idle" => Wrapped(c)
       /\ pc[c][k] = "set" => ~closed[c]
       /\ pc[c][k] \in {"record", "close", "unlock", "done"} => closed[c]
       /\ pc[c][k] \in {"unlock", "done"} => ~sock[c]
       /\ pc[c][k] = "record" => \A j \in Closers : pc[c][j] /= "done"

Count ==
  /\ stats["total"] = Cardinality(Added("total"))
  /\ \A p \in Protocols : stats[p] = Cardinality(OfProtocol(p))
  /\ stats["active"] = Cardinality(Added("active") \ Recorded)
  /\ stats["received"] = Cardinality(Counted("Read"))
  /\ stats["sent"] = Cardinality(Counted("Write"))

\* What was read at the start bounds what is loaded.
Since ==
  \A g \in Snapshots : /\ \A n \in Monotone : low[g][n] <= stats[n]
                       /\ low[g]["http"] + low[g]["socks5"] <= low[g]["total"]
                       /\ low[g]["active"] <= low[g]["total"]

CInv == TypeOK /\ Ordered /\ Guarded /\ Count /\ Since /\ SnapshotWithin

-----------------------------------------------------------------------------
(* Lemmas.                                                                  *)

\* The sets that are counted are finite.
LEMMA Finite ==
  /\ \A a : IsFiniteSet(Added(a))
  /\ \A p : IsFiniteSet(OfProtocol(p))
  /\ IsFiniteSet(Added("active") \ Recorded)
  /\ \A op : IsFiniteSet(Counted(op))
<1>1. \A a : Added(a) \subseteq Conns
  BY DEF Added
<1>2. \A p : OfProtocol(p) \subseteq Conns
  BY DEF OfProtocol
<1>3. \A op : Counted(op) \subseteq Transfers
  BY DEF Counted
<1>4. Added("active") \ Recorded \subseteq Conns
  BY <1>1
<1> QED
  BY <1>1, <1>2, <1>3, <1>4, FS_Subset, FiniteAssumption

\* Every connection that is active, and every one counted by its protocol, is
\* in the total.
LEMMA TotalBounds ==
  ASSUME Ordered, Count
  PROVE  /\ stats["active"] <= stats["total"]
         /\ stats["http"] + stats["socks5"] <= stats["total"]
<1> DEFINE T == Added("total")
           H == OfProtocol("http")
           S == OfProtocol("socks5")
           A == Added("active") \ Recorded
<1>1. /\ stats["total"] = Cardinality(T) /\ stats["active"] = Cardinality(A)
      /\ stats["http"] = Cardinality(H) /\ stats["socks5"] = Cardinality(S)
  BY DEF Count, Protocols
<1>2. /\ IsFiniteSet(T) /\ IsFiniteSet(H) /\ IsFiniteSet(S) /\ IsFiniteSet(A)
  BY Finite
<1>3. A \subseteq T
  BY DEF Ordered, Added
<1>4. H \cup S \subseteq T /\ H \cap S = {}
  BY DEF Ordered, Added, OfProtocol
<1>5. Cardinality(A) <= Cardinality(T)
  BY <1>2, <1>3, FS_Subset
<1>6. Cardinality(H \cup S) <= Cardinality(T)
  BY <1>2, <1>4, FS_Subset
<1>7. Cardinality(H \cup S) = Cardinality(H) + Cardinality(S) - Cardinality(H \cap S)
  BY <1>2, FS_Union
<1>8. Cardinality(H \cap S) = 0
  BY <1>4, FS_EmptySet
<1>9. Cardinality(H) \in Nat /\ Cardinality(S) \in Nat
  BY <1>2, FS_CardinalityType
<1> HIDE DEF T, H, S, A
<1> QED
  BY <1>1, <1>5, <1>6, <1>7, <1>8, <1>9

\* GetStats has loaded a counter once it is past it.
LEMMA LoadedAt ==
  ASSUME NEW g \in Snapshots, at[g] \in 0..7
  PROVE  /\ Loaded(g) \subseteq Names
         /\ "total" \in Loaded(g) <=> at[g] > 1
         /\ "active" \in Loaded(g) <=> at[g] > 2
         /\ "http" \in Loaded(g) <=> at[g] > 3
         /\ "socks5" \in Loaded(g) <=> at[g] > 4
         /\ "sent" \in Loaded(g) <=> at[g] > 5
         /\ "received" \in Loaded(g) <=> at[g] > 6
<1>1. DOMAIN LoadOrder = 1..6
  BY DEF LoadOrder
<1>2. /\ LoadOrder[1] = "total" /\ LoadOrder[2] = "active" /\ LoadOrder[3] = "http"
      /\ LoadOrder[4] = "socks5" /\ LoadOrder[5] = "sent" /\ LoadOrder[6] = "received"
  BY DEF LoadOrder
<1>3. \A n : n \in Loaded(g) <=> \E i \in 1..6 : i < at[g] /\ LoadOrder[i] = n
  BY <1>1 DEF Loaded
<1>4. 1..6 = {1, 2, 3, 4, 5, 6}
  OBVIOUS
<1> QED
  BY <1>2, <1>3, <1>4 DEF Names, Monotone

\* As long as the counters other than active only grow, a snapshot that is
\* being taken stays within its bounds.
LEMMA Grow ==
  ASSUME CInv, stats' \in [Names -> Nat], UNCHANGED readVars,
         \A n \in Monotone : stats[n] <= stats'[n]
  PROVE  Since' /\ SnapshotWithin'
<1>a. /\ Monotone \subseteq Names /\ {"total", "active", "http", "socks5"} \subseteq Names
      /\ "total" \in Monotone
  BY DEF Names, Monotone
<1>b. /\ stats \in [Names -> Nat]
      /\ low \in [Snapshots -> [Names -> Nat]] /\ snap \in [Snapshots -> [Names -> Nat]]
  BY DEF CInv, TypeOK
<1>1. /\ \A n \in Monotone : stats[n] \in Nat /\ stats'[n] \in Nat
      /\ \A g \in Snapshots, n \in Names : low[g][n] \in Nat /\ snap[g][n] \in Nat
      /\ Monotone \subseteq Names /\ {"total", "active", "http", "socks5"} \subseteq Names
      /\ "total" \in Monotone
  BY <1>a, <1>b
<1>2. Since'
  BY <1>1 DEF CInv, Since, readVars
<1>3. \A g \in Snapshots : Loaded(g)' = Loaded(g)
  BY DEF Loaded, readVars
<1>4. ASSUME NEW g \in Snapshots
      PROVE  /\ \A n \in Loaded(g) \cap Monotone : low[g][n] <= snap[g][n] /\ snap[g][n] <= stats'[n]
             /\ "total" \in Loaded(g) =>
                  /\ low[g]["http"] + low[g]["socks5"] <= snap[g]["total"]
                  /\ low[g]["active"] <= snap[g]["total"]
             /\ "active" \in Loaded(g) => snap[g]["active"] <= stats'["total"]
             /\ "socks5" \in Loaded(g) => snap[g]["http"] + snap[g]["socks5"] <= stats'["total"]
  <2>1. /\ \A n \in Loaded(g) \cap Monotone : low[g][n] <= snap[g][n] /\ snap[g][n] <= stats[n]
        /\ "total" \in Loaded(g) =>
             /\ low[g]["http"] + low[g]["socks5"] <= snap[g]["total"]
             /\ low[g]["active"] <= snap[g]["total"]
        /\ "active" \in Loaded(g) => snap[g]["active"] <= stats["total"]
        /\ "socks5" \in Loaded(g) => snap[g]["http"] + snap[g]["socks5"] <= stats["total"]
    BY DEF CInv, SnapshotWithin
  <2> QED
    BY <2>1, <1>1
<1> QED
  BY <1>2, <1>3, <1>4 DEF SnapshotWithin, readVars

-----------------------------------------------------------------------------
(* Initially.                                                               *)

LEMMA InitInv == Init => CInv
<1> SUFFICES ASSUME Init PROVE CInv
  OBVIOUS
<1>0. /\ \A n \in Names : Zero[n] = 0
      /\ Zero \in [Names -> Nat]
      /\ Monotone \subseteq Names /\ {"total", "active", "sent", "received"} \cup Protocols \subseteq Names
  BY DEF Zero, Names, Monotone, Protocols
<1>1. TypeOK
  BY <1>0 DEF Init, TypeOK, LoadOrder
<1>2. Ordered /\ Guarded
  BY DEF Init, Ordered, Guarded
<1>3. /\ \A a : Added(a) = {}
      /\ \A p : OfProtocol(p) = {}
      /\ \A op : Counted(op) = {}
  BY DEF Init, Added, OfProtocol, Counted
<1>4. Count
  <2>1. Added("active") \ Recorded = {}
    BY <1>3
  <2> QED
    BY <1>0, <1>3, <2>1, FS_EmptySet DEF Init, Count
<1>5. Since
  BY <1>0 DEF Init, Since, Protocols
<1>6. SnapshotWithin
  <2>1. \A g \in Snapshots : at[g] = 0
    BY DEF Init
  <2>2. \A g \in Snapshots : Loaded(g) = {}
    BY <2>1 DEF Loaded, LoadOrder
  <2> QED
    BY <2>2 DEF SnapshotWithin
<1> QED
  BY <1>1, <1>2, <1>4, <1>5, <1>6 DEF CInv

-----------------------------------------------------------------------------
(* The steps of NewTrackedConn.                                             *)

LEMMA RecordConnectionInv ==
  ASSUME CInv, NEW c \in Conns, NEW a \in Adds, RecordConnection(c, a)
  PROVE  CInv'
<1> DEFINE n == Counter(c, a)
<1> USE DEF CInv
<1>0. /\ a \notin added[c] /\ Before(a) \subseteq added[c]
      /\ added' = [added EXCEPT ![c] = @ \cup {a}]
      /\ stats' = [stats EXCEPT ![n] = @ + 1]
      /\ UNCHANGED <<proxyType, closed, mu, pc, sock, call, moved, at, snap, low>>
  BY DEF RecordConnection, xferVars, readVars
<1>1. /\ added \in [Conns -> SUBSET Adds] /\ stats \in [Names -> Nat]
      /\ proxyType[c] \in Protocols
  BY DEF TypeOK
<1>2. /\ n \in Names /\ (n = "active" <=> a = "active") /\ (n = "total" <=> a = "total")
      /\ \A p \in Protocols : n = p <=> a = "proto" /\ proxyType[c] = p
      /\ n \notin {"sent", "received"}
  BY <1>1 DEF Counter, Adds, Names, Monotone, Protocols
<1>3. /\ added'[c] = added[c] \cup {a}
      /\ \A d \in Conns \ {c} : added'[d] = added[d]
      /\ \A d \in Conns : added[d] \subseteq added'[d]
  BY <1>0, <1>1
<1>4. /\ stats'[n] = stats[n] + 1 /\ stats[n] \in Nat
      /\ \A m \in Names \ {n} : stats'[m] = stats[m]
      /\ stats' \in [Names -> Nat]
  <2> HIDE DEF n
  <2> QED
    BY <1>0, <1>1, <1>2
<1>5. TypeOK'
  <2>1. added' \in [Conns -> SUBSET Adds]
    BY <1>0, <1>1
  <2> QED
    BY <2>1, <1>0, <1>4 DEF TypeOK
<1>6. Ordered'
  BY <1>0, <1>3 DEF Ordered, Before, Adds
<1>7. \A d \in Conns : Wrapped(d) => Wrapped(d)'
  <2>1. added' \in [Conns -> SUBSET Adds]
    BY <1>0, <1>1
  <2> QED
    BY <1>3, <2>1 DEF Wrapped
<1>8. Guarded'
  BY <1>0, <1>7 DEF Guarded
<1>9. Recorded' = Recorded
  BY <1>0 DEF Recorded
<1>10. ~closed[c]
  BY <1>0 DEF Guarded, Wrapped
<1>11. Count'
  <2>1. /\ Added(a)' = Added(a) \cup {c} /\ c \notin Added(a)
        /\ \A b : b /= a => Added(b)' = Added(b)
    BY <1>0, <1>3 DEF Added
  <2>2. IsFiniteSet(Added(a)) /\ IsFiniteSet(Added("active") \ Recorded)
        /\ \A p : IsFiniteSet(OfProtocol(p))
    BY Finite
  <2>3. \A op : Counted(op)' = Counted(op)
    BY <1>0 DEF Counted
  <2>4. stats'["total"] = Cardinality(Added("total")')
    <3>1. CASE a = "total"
      BY <3>1, <2>1, <2>2, <1>2, <1>4, FS_AddElement DEF Count
    <3>2. CASE a /= "total"
      <4>1. stats'["total"] = stats["total"]
        BY <3>2, <1>2, <1>4 DEF Names, Monotone
      <4>2. Added("total")' = Added("total")
        BY <3>2, <2>1
      <4> QED
        BY <4>1, <4>2 DEF Count
    <3> QED
      BY <3>1, <3>2
  <2>5. stats'["active"] = Cardinality((Added("active") \ Recorded)')
    <3> DEFINE A == Added("active") \ Recorded
    <3>1. CASE a = "active"
      <4>1. c \notin Recorded
        BY <1>10 DEF Recorded
      <4>2. A' = A \cup {c} /\ c \notin A
        BY <4>1, <3>1, <2>1, <1>9
      <4>3. stats["active"] = Cardinality(A)
        BY DEF Count
      <4>4. Cardinality(A \cup {c}) = Cardinality(A) + 1
        BY <4>2, <2>2, FS_AddElement
      <4> QED
        BY <4>2, <4>3, <4>4, <3>1, <1>2, <1>4
    <3>2. CASE a /= "active"
      <4>1. stats'["active"] = stats["active"]
        BY <3>2, <1>2, <1>4 DEF Names, Monotone
      <4>2. A' = A
        BY <3>2, <2>1, <1>9
      <4> QED
        BY <4>1, <4>2 DEF Count
    <3> QED
      BY <3>1, <3>2
  <2>6. ASSUME NEW p \in Protocols
        PROVE  stats'[p] = Cardinality(OfProtocol(p)')
    <3>0. p \in Names
      BY DEF Protocols, Names, Monotone
    <3>1. CASE n = p
      <4>1. OfProtocol(p)' = OfProtocol(p) \cup {c} /\ c \notin OfProtocol(p)
        BY <3>1, <1>0, <1>2, <1>3 DEF OfProtocol
      <4>2. Cardinality(OfProtocol(p) \cup {c}) = Cardinality(OfProtocol(p)) + 1
        BY <4>1, <2>2, FS_AddElement
      <4>3. stats[p] = Cardinality(OfProtocol(p))
        BY DEF Count
      <4> QED
        BY <4>1, <4>2, <4>3, <3>1, <1>4
    <3>2. CASE n /= p
      <4>1. OfProtocol(p)' = OfProtocol(p)
        BY <3>2, <1>0, <1>2, <1>3 DEF OfProtocol
      <4> QED
        BY <4>1, <3>0, <3>2, <1>4 DEF Count
    <3> QED
      BY <3>1, <3>2
  <2>7. stats'["received"] = stats["received"] /\ stats'["sent"] = stats["sent"]
    BY <1>2, <1>4 DEF Names, Monotone
  <2> QED
    BY <2>3, <2>4, <2>5, <2>6, <2>7 DEF Count
<1>12. Since' /\ SnapshotWithin'
  <2>1. \A m \in Monotone : stats[m] <= stats'[m]
    <3>1. \A m \in Monotone : m \in Names /\ stats[m] \in Nat
      BY <1>1 DEF Names
    <3> HIDE DEF n
    <3> QED
      BY <3>1, <1>4
  <2>2. UNCHANGED readVars
    BY <1>0 DEF readVars
  <2> QED
    BY <2>1, <2>2, <1>4, Grow
<1> QED
  BY <1>5, <1>6, <1>8, <1>11, <1>12

-----------------------------------------------------------------------------
(* The steps of Read and Write.                                             *)

LEMMA TransferInv ==
  ASSUME CInv, NEW x \in Transfers, Transfer(x)
  PROVE  CInv'
<1> USE DEF CInv
<1>0. /\ moved[x] = "idle" /\ moved' = [moved EXCEPT ![x] = "moved"]
      /\ UNCHANGED <<proxyType, added, closed, mu, pc, sock, call, stats, at, snap, low>>
  BY DEF Transfer, connVars, readVars
<1>1. TypeOK'
  <2>1. moved' \in [Transfers -> {"idle", "moved", "counted"}]
    BY <1>0 DEF TypeOK
  <2> QED
    BY <2>1, <1>0 DEF TypeOK
<1>2. \A op : Counted(op)' = Counted(op)
  BY <1>0 DEF Counted, TypeOK
<1>3. /\ \A b : Added(b)' = Added(b)
      /\ \A p : OfProtocol(p)' = OfProtocol(p)
      /\ Recorded' = Recorded
  BY <1>0 DEF Added, OfProtocol, Recorded
<1>4. Count'
  BY <1>0, <1>2, <1>3 DEF Count
<1>5. Ordered' /\ Guarded' /\ Since'
  BY <1>0 DEF Ordered, Guarded, Since, Wrapped
<1>6. SnapshotWithin'
  BY <1>0 DEF SnapshotWithin, Loaded
<1> QED
  BY <1>1, <1>4, <1>5, <1>6

LEMMA RecordBytesInv ==
  ASSUME CInv, NEW x \in Transfers, RecordBytes(x)
  PROVE  CInv'
<1> DEFINE n == BytesCounter(x)
<1> USE DEF CInv
<1>0. /\ moved[x] = "moved" /\ moved' = [moved EXCEPT ![x] = "counted"]
      /\ stats' = [stats EXCEPT ![n] = @ + 1]
      /\ UNCHANGED <<proxyType, added, closed, mu, pc, sock, call, at, snap, low>>
  BY DEF RecordBytes, connVars, readVars
<1>1. /\ stats \in [Names -> Nat] /\ call[x] \in {"Read", "Write"}
      /\ moved \in [Transfers -> {"idle", "moved", "counted"}]
  BY DEF TypeOK
<1>2. /\ n \in Monotone /\ n \in Names /\ n \in {"sent", "received"}
      /\ n = "received" <=> call[x] = "Read"
      /\ n = "sent" <=> call[x] = "Write"
  BY <1>1 DEF BytesCounter, Names, Monotone
<1>3. /\ stats'[n] = stats[n] + 1 /\ stats[n] \in Nat
      /\ \A m \in Names \ {n} : stats'[m] = stats[m]
      /\ stats' \in [Names -> Nat]
  <2> HIDE DEF n
  <2> QED
    BY <1>0, <1>1, <1>2
<1>4. TypeOK'
  <2>1. moved' \in [Transfers -> {"idle", "moved", "counted"}]
    BY <1>0, <1>1
  <2> QED
    BY <2>1, <1>0, <1>3 DEF TypeOK
<1>5. /\ \A b : Added(b)' = Added(b)
      /\ \A p : OfProtocol(p)' = OfProtocol(p)
      /\ Recorded' = Recorded
  BY <1>0 DEF Added, OfProtocol, Recorded
<1>6. Ordered' /\ Guarded'
  BY <1>0 DEF Ordered, Guarded, Wrapped
<1>7. /\ x \notin Counted(call[x]) /\ Counted(call[x])' = Counted(call[x]) \cup {x}
      /\ \A op : op /= call[x] => Counted(op)' = Counted(op)
  BY <1>0, <1>1 DEF Counted
<1>8. Cardinality(Counted(call[x]) \cup {x}) = Cardinality(Counted(call[x])) + 1
  BY <1>7, Finite, FS_AddElement
<1>9. Count'
  <2>1. \A m \in {"total", "active"} \cup Protocols : stats'[m] = stats[m]
    BY <1>2, <1>3 DEF Protocols, Names, Monotone
  <2>2. CASE call[x] = "Read"
    <3>1. stats'["received"] = stats["received"] + 1 /\ stats'["sent"] = stats["sent"]
      BY <2>2, <1>2, <1>3 DEF Names, Monotone
    <3> QED
      BY <3>1, <2>1, <2>2, <1>0, <1>5, <1>7, <1>8 DEF Count
  <2>3. CASE call[x] = "Write"
    <3>1. stats'["sent"] = stats["sent"] + 1 /\ stats'["received"] = stats["received"]
      BY <2>3, <1>2, <1>3 DEF Names, Monotone
    <3> QED
      BY <3>1, <2>1, <2>3, <1>0, <1>5, <1>7, <1>8 DEF Count
  <2> QED
    BY <2>2, <2>3, <1>1
<1>10. Since' /\ SnapshotWithin'
  <2>1. \A m \in Monotone : stats[m] <= stats'[m]
    <3>1. \A m \in Monotone : m \in Names /\ stats[m] \in Nat
      BY <1>1 DEF Names
    <3> HIDE DEF n
    <3> QED
      BY <3>1, <1>3
  <2>2. UNCHANGED readVars
    BY <1>0 DEF readVars
  <2> QED
    BY <2>1, <2>2, <1>3, Grow
<1> QED
  BY <1>4, <1>6, <1>9, <1>10

-----------------------------------------------------------------------------
(* The steps of Close.                                                      *)

PCs == {"idle", "lock", "check", "set", "record", "close", "unlock", "done"}

\* A step of one call of Close moves that call only.
LEMMA Moves ==
  ASSUME TypeOK, NEW c \in Conns, NEW k \in Closers, NEW from, NEW to \in PCs,
         Step(c, k, from, to)
  PROVE  /\ pc[c][k] = from /\ pc'[c][k] = to
         /\ \A d \in Conns, j \in Closers : d /= c \/ j /= k => pc'[d][j] = pc[d][j]
         /\ pc' \in [Conns -> [Closers -> PCs]]
<1>1. pc \in [Conns -> [Closers -> PCs]]
  BY DEF TypeOK, PCs
<1>2. pc[c][k] = from /\ pc' = [pc EXCEPT ![c][k] = to]
  BY DEF Step
<1> QED
  BY <1>1, <1>2

\* A step of Close that leaves the counters alone, and with them the set of
\* the connections whose end has been recorded, keeps what does not speak of
\* the mutex.
LEMMA Quiet ==
  ASSUME CInv, UNCHANGED <<proxyType, added, xferVars, readVars, stats>>,
         Recorded' = Recorded
  PROVE  Ordered' /\ Count' /\ Since' /\ SnapshotWithin'
<1> USE DEF CInv
<1>1. /\ \A b : Added(b)' = Added(b)
      /\ \A p : OfProtocol(p)' = OfProtocol(p)
      /\ \A op : Counted(op)' = Counted(op)
  BY DEF Added, OfProtocol, Counted, xferVars
<1>2. Count'
  BY <1>1 DEF Count
<1>3. Ordered' /\ Since'
  BY DEF Ordered, Since, readVars
<1>4. SnapshotWithin'
  BY DEF SnapshotWithin, Loaded, readVars
<1> QED
  BY <1>2, <1>3, <1>4

LEMMA QuietCloseInv ==
  ASSUME CInv, NEW c \in Conns, NEW k \in Closers,
         \/ Close(c, k) \/ Lock(c, k) \/ CheckClosed(c, k)
         \/ CloseConn(c, k) \/ Unlock(c, k)
  PROVE  CInv'
<1> USE DEF CInv
<1>0. ASSUME NEW from, NEW to \in PCs, Step(c, k, from, to),
             from /= "record", to /= "record", closed' = closed, stats' = stats,
             mu' \in [Conns -> Closers \cup {NoCloser}], sock' \in [Conns -> BOOLEAN],
             Guarded'
      PROVE  CInv'
  <2>1. /\ pc[c][k] = from /\ pc'[c][k] = to
        /\ \A d \in Conns, j \in Closers : d /= c \/ j /= k => pc'[d][j] = pc[d][j]
        /\ pc' \in [Conns -> [Closers -> PCs]]
    BY <1>0, Moves
  <2>2. UNCHANGED <<proxyType, added, xferVars, readVars, stats>>
    BY <1>0 DEF Step
  <2>3. Recorded' = Recorded
    BY <1>0, <2>1 DEF Recorded
  <2>4. TypeOK'
    BY <1>0, <2>1, <2>2 DEF TypeOK, PCs, xferVars, readVars
  <2> QED
    BY <1>0, <2>2, <2>3, <2>4, Quiet
<1>t. /\ mu \in [Conns -> Closers \cup {NoCloser}] /\ sock \in [Conns -> BOOLEAN]
      /\ closed \in [Conns -> BOOLEAN]
  BY DEF TypeOK
<1>1. CASE Close(c, k)
  <2>1. /\ Step(c, k, "idle", "lock") /\ Wrapped(c)
        /\ UNCHANGED <<closed, mu, sock, stats>> /\ added' = added
    BY <1>1 DEF Close, Step
  <2>2. /\ pc[c][k] = "idle" /\ pc'[c][k] = "lock"
        /\ \A d \in Conns, j \in Closers : d /= c \/ j /= k => pc'[d][j] = pc[d][j]
    BY <2>1, Moves DEF PCs
  <2>3. Guarded'
    BY <2>1, <2>2 DEF Guarded, Wrapped
  <2> QED
    BY <2>1, <2>3, <1>0, <1>t DEF PCs
<1>2. CASE Lock(c, k)
  <2>1. /\ Step(c, k, "lock", "check") /\ mu[c] = NoCloser
        /\ mu' = [mu EXCEPT ![c] = k]
        /\ UNCHANGED <<closed, sock, stats>> /\ added' = added
    BY <1>2 DEF Lock, Step
  <2>2. /\ pc[c][k] = "lock" /\ pc'[c][k] = "check"
        /\ \A d \in Conns, j \in Closers : d /= c \/ j /= k => pc'[d][j] = pc[d][j]
    BY <2>1, Moves DEF PCs
  <2>3. mu'[c] = k /\ \A d \in Conns \ {c} : mu'[d] = mu[d]
    BY <2>1, <1>t
  <2>4. Guarded'
    BY <2>1, <2>2, <2>3, NoCloserAssumption DEF Guarded, Wrapped
  <2>5. mu' \in [Conns -> Closers \cup {NoCloser}]
    BY <2>1, <1>t
  <2> QED
    BY <2>1, <2>4, <2>5, <1>0, <1>t DEF PCs
<1>3. CASE CheckClosed(c, k)
  <2> DEFINE to == IF closed[c] THEN "close" ELSE "set"
  <2>1. /\ Step(c, k, "check", to)
        /\ UNCHANGED <<closed, mu, sock, stats>> /\ added' = added
    BY <1>3 DEF CheckClosed, AlreadyClosed, Step
  <2>2. to \in PCs /\ to /= "record"
    BY DEF PCs
  <2>3. /\ pc[c][k] = "check" /\ pc'[c][k] = to
        /\ \A d \in Conns, j \in Closers : d /= c \/ j /= k => pc'[d][j] = pc[d][j]
    BY <2>1, <2>2, Moves
  <2>4. Guarded'
    BY <2>1, <2>3 DEF Guarded, Wrapped
  <2> HIDE DEF to
  <2> QED
    BY <2>1, <2>2, <2>4, <1>0, <1>t
<1>4. CASE CloseConn(c, k)
  <2>1. /\ Step(c, k, "close", "unlock") /\ sock' = [sock EXCEPT ![c] = FALSE]
        /\ UNCHANGED <<closed, mu, stats>> /\ added' = added
    BY <1>4 DEF CloseConn, Step
  <2>2. /\ pc[c][k] = "close" /\ pc'[c][k] = "unlock"
        /\ \A d \in Conns, j \in Closers : d /= c \/ j /= k => pc'[d][j] = pc[d][j]
    BY <2>1, Moves DEF PCs
  <2>3. ~sock'[c] /\ \A d \in Conns \ {c} : sock'[d] = sock[d]
    BY <2>1, <1>t
  <2>4. Guarded'
    BY <2>1, <2>2, <2>3 DEF Guarded, Wrapped
  <2>5. sock' \in [Conns -> BOOLEAN]
    BY <2>1, <1>t
  <2> QED
    BY <2>1, <2>4, <2>5, <1>0, <1>t DEF PCs
<1>5. CASE Unlock(c, k)
  <2>1. /\ Step(c, k, "unlock", "done") /\ mu' = [mu EXCEPT ![c] = NoCloser]
        /\ UNCHANGED <<closed, sock, stats>> /\ added' = added
    BY <1>5 DEF Unlock, Step
  <2>2. /\ pc[c][k] = "unlock" /\ pc'[c][k] = "done"
        /\ \A d \in Conns, j \in Closers : d /= c \/ j /= k => pc'[d][j] = pc[d][j]
    BY <2>1, Moves DEF PCs
  <2>3. mu'[c] = NoCloser /\ \A d \in Conns \ {c} : mu'[d] = mu[d]
    BY <2>1, <1>t
  <2>4. Guarded'
    BY <2>1, <2>2, <2>3 DEF Guarded, Wrapped
  <2>5. mu' \in [Conns -> Closers \cup {NoCloser}]
    BY <2>1, <1>t
  <2> QED
    BY <2>1, <2>4, <2>5, <1>0, <1>t DEF PCs
<1> QED
  BY <1>1, <1>2, <1>3, <1>4, <1>5

\* The first call that finds the connection open marks it closed: its end is
\* not recorded yet.
LEMMA SetClosedInv ==
  ASSUME CInv, NEW c \in Conns, NEW k \in Closers, SetClosed(c, k)
  PROVE  CInv'
<1> USE DEF CInv
<1>1. /\ Step(c, k, "set", "record") /\ closed' = [closed EXCEPT ![c] = TRUE]
      /\ UNCHANGED <<mu, sock, stats>>
      /\ UNCHANGED <<proxyType, added, xferVars, readVars, stats>>
  BY DEF SetClosed, Step
<1>2. /\ pc[c][k] = "set" /\ pc'[c][k] = "record"
      /\ \A d \in Conns, j \in Closers : d /= c \/ j /= k => pc'[d][j] = pc[d][j]
      /\ pc' \in [Conns -> [Closers -> PCs]]
  BY <1>1, Moves DEF PCs
<1>3. /\ closed'[c] /\ \A d \in Conns \ {c} : closed'[d] = closed[d]
      /\ closed' \in [Conns -> BOOLEAN]
  BY <1>1 DEF TypeOK
<1>4. ~closed[c]
  BY <1>2 DEF Guarded
<1>5. Guarded'
  <2>1. /\ mu[c] = k /\ Wrapped(c)
        /\ \A j \in Closers : j /= k => pc[c][j] \in {"idle", "lock"}
    <3>1. mu[c] = k /\ Wrapped(c)
      BY <1>2 DEF Guarded
    <3>2. \A j \in Closers : j /= k =>
             pc[c][j] \notin {"check", "set", "record", "close", "unlock", "done"}
      BY <3>1, <1>4 DEF Guarded
    <3>3. \A j \in Closers : pc[c][j] \in PCs
      BY DEF TypeOK, PCs
    <3> QED
      BY <3>1, <3>2, <3>3 DEF PCs
  <2>2. \A d \in Conns : Wrapped(d)' <=> Wrapped(d)
    BY <1>1 DEF Wrapped
  <2>3. /\ mu' = mu /\ sock' = sock
    BY <1>1
  <2>4. \A d \in Conns : closed'[d] => Wrapped(d)'
    BY <2>1, <2>2, <1>3 DEF Guarded
  <2>5. ASSUME NEW d \in Conns, NEW j \in Closers
        PROVE  /\ pc'[d][j] \in {"check", "set", "record", "close", "unlock"} => mu'[d] = j
               /\ pc'[d][j] /= "idle" => Wrapped(d)'
               /\ pc'[d][j] = "set" => ~closed'[d]
               /\ pc'[d][j] \in {"record", "close", "unlock", "done"} => closed'[d]
               /\ pc'[d][j] \in {"unlock", "done"} => ~sock'[d]
               /\ pc'[d][j] = "record" => \A i \in Closers : pc'[d][i] /= "done"
    <3>1. CASE d = c /\ j = k
      BY <3>1, <2>1, <2>2, <2>3, <1>2, <1>3
    <3>2. CASE d = c /\ j /= k
      BY <3>2, <2>1, <2>2, <2>3, <1>2, <1>3
    <3>3. CASE d /= c
      <4>1. /\ \A i \in Closers : pc'[d][i] = pc[d][i]
            /\ closed'[d] = closed[d]
        BY <3>3, <1>2, <1>3
      <4> QED
        BY <4>1, <2>2, <2>3 DEF Guarded
    <3> QED
      BY <3>1, <3>2, <3>3
  <2> QED
    BY <2>4, <2>5 DEF Guarded
<1>6. Recorded' = Recorded
  <2>1. c \notin Recorded /\ c \notin Recorded'
    BY <1>2, <1>4 DEF Recorded
  <2>2. \A d \in Conns \ {c} : d \in Recorded <=> d \in Recorded'
    BY <1>2, <1>3 DEF Recorded
  <2>3. Recorded \subseteq Conns /\ Recorded' \subseteq Conns
    BY DEF Recorded
  <2> QED
    BY <2>1, <2>2, <2>3
<1>7. TypeOK'
  BY <1>1, <1>2, <1>3 DEF TypeOK, PCs, xferVars, readVars
<1> QED
  BY <1>1, <1>5, <1>6, <1>7, Quiet

\* The end of one connection is recorded: one active connection less.
LEMMA RecordDisconnectionInv ==
  ASSUME CInv, NEW c \in Conns, NEW k \in Closers, RecordDisconnection(c, k)
  PROVE  CInv'
<1> DEFINE A == Added("active") \ Recorded
<1> USE DEF CInv
<1>1. /\ Step(c, k, "record", "close") /\ stats' = [stats EXCEPT !["active"] = @ - 1]
      /\ UNCHANGED <<closed, mu, sock>>
      /\ UNCHANGED <<proxyType, added, call, moved, at, snap, low>>
  BY DEF RecordDisconnection, Step, xferVars, readVars
<1>2. /\ pc[c][k] = "record" /\ pc'[c][k] = "close"
      /\ \A d \in Conns, j \in Closers : d /= c \/ j /= k => pc'[d][j] = pc[d][j]
      /\ pc' \in [Conns -> [Closers -> PCs]]
  BY <1>1, Moves DEF PCs
<1>3. closed[c] /\ Wrapped(c)
  BY <1>2 DEF Guarded
<1>4. Guarded'
  BY <1>1, <1>2, <1>3 DEF Guarded, Wrapped
<1>5. \A j \in Closers : j /= k => pc[c][j] /= "record"
  BY <1>2 DEF Guarded
<1>6. Recorded' = Recorded \cup {c} /\ c \notin Recorded
  <2>1. c \notin Recorded
    BY <1>2 DEF Recorded
  <2>2. c \in Recorded'
    BY <1>1, <1>2, <1>3, <1>5 DEF Recorded
  <2>3. \A d \in Conns \ {c} : d \in Recorded <=> d \in Recorded'
    BY <1>1, <1>2 DEF Recorded
  <2>4. Recorded \subseteq Conns /\ Recorded' \subseteq Conns
    BY DEF Recorded
  <2> QED
    BY <2>1, <2>2, <2>3, <2>4
<1>7. A' = A \ {c} /\ c \in A
  <2>1. Added("active")' = Added("active") /\ c \in Added("active")
    BY <1>1, <1>3 DEF Added, Wrapped, Adds
  <2> QED
    BY <2>1, <1>6
<1>8. /\ IsFiniteSet(A) /\ Cardinality(A) \in Nat
      /\ Cardinality(A \ {c}) = Cardinality(A) - 1 /\ Cardinality(A \ {c}) \in Nat
  <2>1. IsFiniteSet(A)
    BY Finite
  <2>2. IsFiniteSet(A \ {c}) /\ Cardinality(A \ {c}) = Cardinality(A) - 1
    BY <2>1, <1>7, FS_RemoveElement
  <2> HIDE DEF A
  <2> QED
    BY <2>1, <2>2, FS_CardinalityType
<1>9. /\ stats["active"] = Cardinality(A) /\ stats \in [Names -> Nat]
      /\ "active" \in Names /\ "active" \notin Monotone /\ Monotone \subseteq Names
  BY DEF Count, TypeOK, Names, Monotone
<1>10. /\ stats' \in [Names -> Nat] /\ stats'["active"] = Cardinality(A')
       /\ \A m \in Monotone : stats'[m] = stats[m]
  <2> HIDE DEF A
  <2>1. stats'["active"] = stats["active"] - 1
    BY <1>1, <1>9
  <2>2. stats'["active"] = Cardinality(A') /\ stats'["active"] \in Nat
    BY <2>1, <1>7, <1>8, <1>9
  <2> QED
    BY <2>2, <1>1, <1>9
<1>11. TypeOK'
  BY <1>1, <1>2, <1>10 DEF TypeOK, PCs
<1>12. Count'
  <2>1. /\ \A b : Added(b)' = Added(b)
        /\ \A p : OfProtocol(p)' = OfProtocol(p)
        /\ \A op : Counted(op)' = Counted(op)
    BY <1>1 DEF Added, OfProtocol, Counted
  <2>2. {"total", "received", "sent"} \cup Protocols \subseteq Monotone
    BY DEF Monotone, Protocols
  <2> QED
    BY <2>1, <2>2, <1>10 DEF Count
<1>13. Ordered'
  BY <1>1 DEF Ordered
<1>14. Since' /\ SnapshotWithin'
  <2>1. \A m \in Monotone : stats[m] <= stats'[m]
    BY <1>9, <1>10
  <2>2. UNCHANGED readVars
    BY <1>1 DEF readVars
  <2> QED
    BY <2>1, <2>2, <1>10, Grow
<1> QED
  BY <1>4, <1>11, <1>12, <1>13, <1>14

-----------------------------------------------------------------------------
(* The steps of GetStats.                                                   *)

\* Taking a snapshot disturbs nothing but the snapshots.
LEMMA Aside ==
  ASSUME CInv, UNCHANGED <<connVars, xferVars, stats>>
  PROVE  Ordered' /\ Guarded' /\ Count'
<1> USE DEF CInv, connVars, xferVars
<1>1. /\ \A b : Added(b)' = Added(b)
      /\ \A p : OfProtocol(p)' = OfProtocol(p)
      /\ \A op : Counted(op)' = Counted(op)
      /\ Recorded' = Recorded
  BY DEF Added, OfProtocol, Counted, Recorded
<1>2. Count'
  BY <1>1 DEF Count
<1>3. Ordered' /\ Guarded'
  BY DEF Ordered, Guarded, Wrapped
<1> QED
  BY <1>2, <1>3

LEMMA GetStatsInv ==
  ASSUME CInv, NEW g \in Snapshots, GetStats(g) \/ Shown(g)
  PROVE  CInv'
<1> USE DEF CInv
<1>1. /\ UNCHANGED <<connVars, xferVars, stats>>
      /\ \A h \in Snapshots \ {g} : at'[h] = at[h] /\ snap'[h] = snap[h] /\ low'[h] = low[h]
      /\ at'[g] \in 0..1 /\ low'[g] \in {stats, Zero}
  BY DEF GetStats, Shown, TypeOK
<1>z. Zero \in [Names -> Nat] /\ stats \in [Names -> Nat]
  BY DEF Zero, TypeOK
<1>2. TypeOK'
  <2>1. /\ at' \in [Snapshots -> 0..Len(LoadOrder) + 1]
        /\ low' \in [Snapshots -> [Names -> Nat]]
        /\ snap' \in [Snapshots -> [Names -> Nat]]
    <3>1. Len(LoadOrder) = 6
      BY DEF LoadOrder
    <3>2. /\ at \in [Snapshots -> 0..7] /\ low \in [Snapshots -> [Names -> Nat]]
          /\ snap \in [Snapshots -> [Names -> Nat]]
      BY <3>1 DEF TypeOK
    <3>3. CASE GetStats(g)
      BY <3>1, <3>2, <3>3, <1>z DEF GetStats
    <3>4. CASE Shown(g)
      BY <3>1, <3>2, <3>4, <1>z DEF Shown
    <3> QED
      BY <3>3, <3>4
  <2> QED
    BY <1>1, <2>1 DEF TypeOK, connVars, xferVars
<1>3. Since'
  <2>1. /\ \A n \in Monotone : low'[g][n] <= stats[n]
        /\ low'[g]["http"] + low'[g]["socks5"] <= low'[g]["total"]
        /\ low'[g]["active"] <= low'[g]["total"]
    <3>1. CASE low'[g] = stats
      <4>1. \A n \in Monotone : stats[n] \in Nat
        BY <1>z DEF Names
      <4> QED
        BY <3>1, <4>1, TotalBounds
    <3>2. CASE low'[g] = Zero
      <4>1. \A n \in Names : Zero[n] = 0
        BY DEF Zero
      <4>2. /\ \A n \in Monotone : stats[n] \in Nat /\ Zero[n] = 0
            /\ \A n \in {"total", "active", "http", "socks5"} : Zero[n] = 0
        BY <4>1, <1>z DEF Names, Monotone
      <4> QED
        BY <3>2, <4>2
    <3> QED
      BY <3>1, <3>2, <1>1
  <2> QED
    BY <2>1, <1>1 DEF Since
<1>4. SnapshotWithin'
  <2>1. Loaded(g)' = {}
    <3>1. \A i \in DOMAIN LoadOrder : ~(i < at'[g])
      <4>1. DOMAIN LoadOrder = 1..6
        BY DEF LoadOrder
      <4> QED
        BY <4>1, <1>1
    <3> QED
      BY <3>1 DEF Loaded
  <2>2. \A h \in Snapshots \ {g} : Loaded(h)' = Loaded(h)
    BY <1>1 DEF Loaded
  <2> QED
    BY <1>1, <2>1, <2>2 DEF SnapshotWithin
<1> QED
  BY <1>1, <1>2, <1>3, <1>4, Aside

LEMMA LoadInv ==
  ASSUME CInv, NEW g \in Snapshots, Load(g)
  PROVE  CInv'
<1> DEFINE n == LoadOrder[at[g]]
<1> USE DEF CInv
<1>1. /\ UNCHANGED <<connVars, xferVars, stats>> /\ low' = low
      /\ at[g] \in 1..6 /\ at' = [at EXCEPT ![g] = @ + 1]
      /\ snap' = [snap EXCEPT ![g][n] = stats[n]]
  BY DEF Load, LoadOrder
<1>2. /\ at \in [Snapshots -> 0..7] /\ stats \in [Names -> Nat]
      /\ snap \in [Snapshots -> [Names -> Nat]] /\ low \in [Snapshots -> [Names -> Nat]]
  BY DEF TypeOK, LoadOrder
<1>3. /\ at[g] = 1 => n = "total"
      /\ at[g] = 2 => n = "active"
      /\ at[g] = 3 => n = "http"
      /\ at[g] = 4 => n = "socks5"
      /\ at[g] = 5 => n = "sent"
      /\ at[g] = 6 => n = "received"
      /\ n \in Names
  BY <1>1 DEF LoadOrder, Names, Monotone
<1>4. /\ at'[g] = at[g] + 1 /\ at' \in [Snapshots -> 0..7]
      /\ \A h \in Snapshots \ {g} : at'[h] = at[h] /\ snap'[h] = snap[h]
      /\ snap'[g][n] = stats[n] /\ \A m \in Names \ {n} : snap'[g][m] = snap[g][m]
      /\ snap' \in [Snapshots -> [Names -> Nat]]
  <2> HIDE DEF n
  <2> QED
    BY <1>1, <1>2, <1>3
<1>5. TypeOK'
  <2>1. Len(LoadOrder) + 1 = 7
    BY DEF LoadOrder
  <2> QED
    BY <2>1, <1>1, <1>2, <1>4 DEF TypeOK, connVars, xferVars
<1>6. Since'
  BY <1>1 DEF Since
<1>7. SnapshotWithin'
  <2>1. ASSUME NEW h \in Snapshots, h /= g
        PROVE  Loaded(h)' = Loaded(h) /\ snap'[h] = snap[h]
    BY <2>1, <1>4 DEF Loaded
  <2>2. Loaded(g)' = Loaded(g) \cup {n}
    <3>1. DOMAIN LoadOrder = 1..6
      BY DEF LoadOrder
    <3>2. \A i \in 1..6 : i < at'[g] <=> i < at[g] \/ i = at[g]
      BY <1>1, <1>4
    <3> QED
      BY <3>1, <3>2, <1>1 DEF Loaded
  <2>3. n \notin Loaded(g)
    <3> HIDE DEF n
    <3> QED
      BY <1>1, <1>3, LoadedAt
  <2>4. /\ \A m \in Loaded(g) \cap Monotone : low[g][m] <= snap[g][m] /\ snap[g][m] <= stats[m]
        /\ "total" \in Loaded(g) =>
             /\ low[g]["http"] + low[g]["socks5"] <= snap[g]["total"]
             /\ low[g]["active"] <= snap[g]["total"]
        /\ "active" \in Loaded(g) => snap[g]["active"] <= stats["total"]
        /\ "socks5" \in Loaded(g) => snap[g]["http"] + snap[g]["socks5"] <= stats["total"]
    BY DEF SnapshotWithin
  <2>5. \A m \in Loaded(g) : m \in Names /\ snap'[g][m] = snap[g][m]
    BY <2>3, <1>1, <1>4, LoadedAt
  <2>6. /\ \A m \in Names : stats[m] \in Nat /\ low[g][m] \in Nat /\ snap[g][m] \in Nat
        /\ {"total", "active", "http", "socks5"} \subseteq Names /\ Monotone \subseteq Names
    <3>1. {"total", "active", "http", "socks5"} \subseteq Names /\ Monotone \subseteq Names
      BY DEF Names, Monotone
    <3> QED
      BY <3>1, <1>2
  <2>7. /\ \A m \in Monotone : low[g][m] <= stats[m]
        /\ low[g]["http"] + low[g]["socks5"] <= low[g]["total"]
        /\ low[g]["active"] <= low[g]["total"]
    BY DEF Since
  <2>8. stats["active"] <= stats["total"] /\ stats["http"] + stats["socks5"] <= stats["total"]
    BY TotalBounds
  <2> HIDE DEF n
  <2>9. \A m \in (Loaded(g) \cup {n}) \cap Monotone :
           low[g][m] <= snap'[g][m] /\ snap'[g][m] <= stats[m]
    BY <2>4, <2>5, <2>6, <2>7, <1>4
  <2>10. "total" \in Loaded(g) \cup {n} =>
             /\ low[g]["http"] + low[g]["socks5"] <= snap'[g]["total"]
             /\ low[g]["active"] <= snap'[g]["total"]
    <3>1. CASE "total" \in Loaded(g)
      BY <3>1, <2>4, <2>5
    <3>2. CASE n = "total"
      <4>1. low[g]["total"] <= stats["total"]
        BY <2>7 DEF Monotone
      <4>2. /\ stats["total"] \in Nat /\ low[g]["http"] \in Nat /\ low[g]["socks5"] \in Nat
            /\ low[g]["total"] \in Nat /\ low[g]["active"] \in Nat
        BY <2>6
      <4> QED
        BY <3>2, <4>1, <4>2, <2>7, <1>4
    <3> QED
      BY <3>1, <3>2
  <2>11. "active" \in Loaded(g) \cup {n} => snap'[g]["active"] <= stats["total"]
    BY <2>4, <2>5, <2>8, <1>4
  <2>12. "socks5" \in Loaded(g) \cup {n} =>
              snap'[g]["http"] + snap'[g]["socks5"] <= stats["total"]
    <3>1. CASE "socks5" \in Loaded(g)
      <4>1. "http" \in Loaded(g)
        BY <3>1, <1>1, LoadedAt
      <4> QED
        BY <3>1, <4>1, <2>4, <2>5
    <3>2. CASE n = "socks5"
      <4>1. at[g] = 4
        <5>1. at[g] \in {1, 2, 3, 4, 5, 6}
          BY <1>1
        <5> QED
          BY <5>1, <3>2, <1>3
      <4>2. "http" \in Loaded(g)
        BY <4>1, <1>1, LoadedAt
      <4>3. snap'[g]["http"] <= stats["http"] /\ snap'[g]["http"] \in Nat
        BY <4>2, <2>4, <2>5, <2>6 DEF Monotone
      <4>4. stats["http"] \in Nat /\ stats["socks5"] \in Nat /\ stats["total"] \in Nat
        BY <2>6
      <4> QED
        BY <3>2, <4>3, <4>4, <2>8, <1>4
    <3> QED
      BY <3>1, <3>2
  <2> QED
    BY <1>1, <2>1, <2>2, <2>9, <2>10, <2>11, <2>12 DEF SnapshotWithin
<1> QED
  BY <1>1, <1>5, <1>6, <1>7, Aside

-----------------------------------------------------------------------------
LEMMA Inductive == CInv /\ [Next]_vars => CInv'
<1> SUFFICES ASSUME CInv, [Next]_vars PROVE CInv'
  OBVIOUS
<1>1. ASSUME NEW c \in Conns, NEW a \in Adds, RecordConnection(c, a) PROVE CInv'
  BY <1>1, RecordConnectionInv
<1>2. ASSUME NEW x \in Transfers, Transfer(x) \/ RecordBytes(x) PROVE CInv'
  BY <1>2, TransferInv, RecordBytesInv
<1>3. ASSUME NEW c \in Conns, NEW k \in Closers, CloseStep(c, k) PROVE CInv'
  BY <1>3, QuietCloseInv, SetClosedInv, RecordDisconnectionInv DEF CloseStep
<1>4. ASSUME NEW g \in Snapshots, GetStats(g) \/ Load(g) \/ Shown(g) PROVE CInv'
  BY <1>4, GetStatsInv, LoadInv
<1>5. CASE UNCHANGED vars
  <2>1. UNCHANGED <<connVars, xferVars, stats, readVars>>
    BY <1>5 DEF vars
  <2>2. SnapshotWithin' /\ Since'
    BY <2>1 DEF CInv, SnapshotWithin, Since, Loaded, readVars
  <2>3. TypeOK'
    BY <2>1 DEF CInv, TypeOK, connVars, xferVars, readVars
  <2> QED
    BY <2>1, <2>2, <2>3, Aside DEF CInv
<1> QED
  BY <1>1, <1>2, <1>3, <1>4, <1>5 DEF Next

\* When a call of Close has returned, the end of the connection is recorded.
LEMMA CloseReturned == CInv => Accounting
<1> SUFFICES ASSUME CInv PROVE Accounting
  OBVIOUS
<1>1. ASSUME NEW c \in Conns, NEW k \in Closers, pc[c][k] = "done"
      PROVE  c \in Recorded /\ ~sock[c]
  <2>1. closed[c] /\ ~sock[c] /\ \A j \in Closers : pc[c][j] /= "record"
    BY <1>1 DEF CInv, Guarded
  <2> QED
    BY <2>1 DEF Recorded
<1> QED
  BY <1>1 DEF CInv, Count, Accounting

LEMMA Invariant == Spec => []CInv
<1> QED
  BY InitInv, Inductive, PTL DEF Spec

\* The counters of the collector are never negative, and nothing else leaves
\* its range, for any number of connections and calls of Close: active is not
\* decremented twice for one connection (collector.go 246-257).
THEOREM TypeCorrect == Spec => []TypeOK
<1>1. CInv => TypeOK
  BY DEF CInv
<1> QED
  BY <1>1, Invariant, PTL

\* The counters are the numbers of connections and transfers they are named
\* for, for any number of connections (collector.go 148-174, 228-257).
THEOREM CountsRight == Spec => []Accounting
<1> QED
  BY CloseReturned, Invariant, PTL

\* GetStats shows a state between the one it was called in and the one it
\* returns in, counter by counter, for any number of connections and readers
\* (collector.go 176-191).
THEOREM SnapshotsBounded == Spec => []SnapshotWithin
<1>1. CInv => SnapshotWithin
  BY DEF CInv
<1> QED
  BY <1>1, Invariant, PTL
=============================================================================
