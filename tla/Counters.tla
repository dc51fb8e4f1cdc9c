------------------------------- MODULE Counters -------------------------------
(***************************************************************************)
(* The counters of stats.Collector, one atomic operation at a time          *)
(* (internal/stats/collector.go): goroutines that wrap a connection they    *)
(* have dialled (NewTrackedConn), that read and write it, that close it,    *)
(* perhaps several of them and more than once, and that take a snapshot     *)
(* (GetStats, called for GET /stats and /health by internal/mgmt, by the    *)
(* reporter and at the end of Manager.Shutdown).                            *)
(***************************************************************************)
EXTENDS Integers, Sequences, FiniteSets

CONSTANTS
  Conns,       \* connections that are dialled
  Closers,     \* calls of Close on each of them
  Transfers,   \* calls of TrackedConn.Read or Write that move data, one unit each
  Snapshots,   \* goroutines that call GetStats
  NoCloser     \* nobody holds TrackedConn.mu

ASSUME FiniteAssumption   == IsFiniteSet(Conns) /\ IsFiniteSet(Transfers)
ASSUME NoCloserAssumption == NoCloser \notin Closers

Protocols == {"http", "socks5"}
Monotone  == {"total", "http", "socks5", "sent", "received"}
Names     == Monotone \cup {"active"}

\* The steps of RecordConnection: the third adds to the counter of a protocol.
Adds == {"total", "active", "proto"}

VARIABLES
  proxyType,   \* of each connection
  added,       \* per connection: the steps of RecordConnection it has done
  closed,      \* TrackedConn.closed
  mu,          \* TrackedConn.mu: who holds it
  pc,          \* per connection and call of Close: where the call is
  sock,        \* the connection that was wrapped is open
  call,        \* of each transfer: "Read" or "Write"
  moved,       \* per transfer: "idle", "moved" on the socket or "counted"
  stats,       \* the counters
  at,          \* per snapshot: its next load; 0 when it is not asked for
  snap,        \* per snapshot: what has been loaded
  low          \* history: the counters when the snapshot was asked for

connVars  == <<proxyType, added, closed, mu, pc, sock>>
readVars  == <<at, snap, low>>
xferVars  == <<call, moved>>
vars      == <<connVars, xferVars, stats, readVars>>

\* The loads of GetStats, in program order.
LoadOrder == <<"total", "active", "http", "socks5", "sent", "received">>

TypeOK ==
  /\ proxyType \in [Conns -> Protocols]
  /\ added \in [Conns -> SUBSET Adds]
  /\ closed \in [Conns -> BOOLEAN] /\ sock \in [Conns -> BOOLEAN]
  /\ mu \in [Conns -> Closers \cup {NoCloser}]
  /\ pc \in [Conns -> [Closers ->
               {"idle", "lock", "check", "set", "record", "close", "unlock", "done"}]]
  /\ call \in [Transfers -> {"Read", "Write"}]
  /\ moved \in [Transfers -> {"idle", "moved", "counted"}]
  /\ stats \in [Names -> Nat]
  /\ at \in [Snapshots -> 0..Len(LoadOrder) + 1]
  /\ snap \in [Snapshots -> [Names -> Nat]] /\ low \in [Snapshots -> [Names -> Nat]]

Zero == [n \in Names |-> 0]

Init ==
  /\ proxyType \in [Conns -> Protocols]
  /\ added = [c \in Conns |-> {}]
  /\ closed = [c \in Conns |-> FALSE] /\ sock = [c \in Conns |-> TRUE]
  /\ mu = [c \in Conns |-> NoCloser]
  /\ pc = [c \in Conns |-> [k \in Closers |-> "idle"]]
  /\ call \in [Transfers -> {"Read", "Write"}]
  /\ moved = [x \in Transfers |-> "idle"]
  /\ stats = Zero
  /\ at = [g \in Snapshots |-> 0]
  /\ snap = [g \in Snapshots |-> Zero]
  /\ low = [g \in Snapshots |-> Zero]

-----------------------------------------------------------------------------
(* NewTrackedConn.                                                          *)

\* Mutant: the counters are incremented in any order.
Before_Any(a) == {}

\* What RecordConnection has done before a step.
Before(a) == CASE a = "total"  -> {}
               [] a = "active" -> {"total"}
               [] a = "proto"  -> {"total", "active"}

Counter(c, a) == IF a = "proto" THEN proxyType[c] ELSE a

RecordConnection(c, a) ==
  /\ a \notin added[c] /\ Before(a) \subseteq added[c]
  /\ added' = [added EXCEPT ![c] = @ \cup {a}]
  /\ stats' = [stats EXCEPT ![Counter(c, a)] = @ + 1]
  /\ UNCHANGED <<proxyType, closed, mu, pc, sock, xferVars, readVars>>

\* NewTrackedConn has returned: others can use the connection.
Wrapped(c) == added[c] = Adds

-----------------------------------------------------------------------------
(* TrackedConn.Read and TrackedConn.Write.                                  *)

Transfer(x) ==
  /\ moved[x] = "idle" /\ \E c \in Conns : Wrapped(c) /\ sock[c]
  /\ moved' = [moved EXCEPT ![x] = "moved"]
  /\ UNCHANGED <<connVars, call, stats, readVars>>

\* Mutant: both directions add to the same counter.
BytesCounter_Same(x) == "sent"

BytesCounter(x) == IF call[x] = "Read" THEN "received" ELSE "sent"

\* RecordBytesReceived or RecordBytesSent, perhaps after the connection was closed.
RecordBytes(x) ==
  /\ moved[x] = "moved"
  /\ moved' = [moved EXCEPT ![x] = "counted"]
  /\ stats' = [stats EXCEPT ![BytesCounter(x)] = @ + 1]
  /\ UNCHANGED <<connVars, call, readVars>>

-----------------------------------------------------------------------------
(* TrackedConn.Close.                                                       *)

Step(c, k, from, to) ==
  /\ pc[c][k] = from
  /\ pc' = [pc EXCEPT ![c][k] = to]
  /\ UNCHANGED <<proxyType, added, xferVars, readVars>>

Close(c, k) ==
  /\ Wrapped(c)
  /\ Step(c, k, "idle", "lock")
  /\ UNCHANGED <<closed, mu, sock, stats>>

\* Mutant: the connection has no mutex.
Lock_None(c, k) ==
  /\ Step(c, k, "lock", "check")
  /\ mu' = [mu EXCEPT ![c] = k]
  /\ UNCHANGED <<closed, sock, stats>>

Lock(c, k) ==
  /\ Step(c, k, "lock", "check")
  /\ mu[c] = NoCloser
  /\ mu' = [mu EXCEPT ![c] = k]
  /\ UNCHANGED <<closed, sock, stats>>

\* Mutant: every call records a disconnection.
AlreadyClosed_Never(c) == FALSE

AlreadyClosed(c) == closed[c]

CheckClosed(c, k) ==
  /\ Step(c, k, "check", IF AlreadyClosed(c) THEN "close" ELSE "set")
  /\ UNCHANGED <<closed, mu, sock, stats>>

SetClosed(c, k) ==
  /\ Step(c, k, "set", "record")
  /\ closed' = [closed EXCEPT ![c] = TRUE]
  /\ UNCHANGED <<mu, sock, stats>>

RecordDisconnection(c, k) ==
  /\ Step(c, k, "record", "close")
  /\ stats' = [stats EXCEPT !["active"] = @ - 1]
  /\ UNCHANGED <<closed, mu, sock>>

CloseConn(c, k) ==
  /\ Step(c, k, "close", "unlock")
  /\ sock' = [sock EXCEPT ![c] = FALSE]
  /\ UNCHANGED <<closed, mu, stats>>

\* The deferred Unlock: Close returns.
Unlock(c, k) ==
  /\ Step(c, k, "unlock", "done")
  /\ mu' = [mu EXCEPT ![c] = NoCloser]
  /\ UNCHANGED <<closed, sock, stats>>

-----------------------------------------------------------------------------
(* GetStats.                                                                *)

GetStats(g) ==
  /\ at[g] = 0
  /\ at' = [at EXCEPT ![g] = 1]
  /\ low' = [low EXCEPT ![g] = stats]
  /\ UNCHANGED <<connVars, xferVars, stats, snap>>

Load(g) ==
  /\ at[g] \in 1..Len(LoadOrder)
  /\ at' = [at EXCEPT ![g] = @ + 1]
  /\ snap' = [snap EXCEPT ![g][LoadOrder[at[g]]] = stats[LoadOrder[at[g]]]]
  /\ UNCHANGED <<connVars, xferVars, stats, low>>

\* The Stats are returned and shown.
Shown(g) ==
  /\ at[g] = Len(LoadOrder) + 1
  /\ at' = [at EXCEPT ![g] = 0]
  /\ snap' = [snap EXCEPT ![g] = Zero] /\ low' = [low EXCEPT ![g] = Zero]
  /\ UNCHANGED <<connVars, xferVars, stats>>

-----------------------------------------------------------------------------
CloseStep(c, k) == \/ Close(c, k) \/ Lock(c, k) \/ CheckClosed(c, k) \/ SetClosed(c, k)
                   \/ RecordDisconnection(c, k) \/ CloseConn(c, k) \/ Unlock(c, k)

Next ==
  \/ \E c \in Conns, a \in Adds : RecordConnection(c, a)
  \/ \E x \in Transfers : Transfer(x) \/ RecordBytes(x)
  \/ \E c \in Conns, k \in Closers : CloseStep(c, k)
  \/ \E g \in Snapshots : GetStats(g) \/ Load(g) \/ Shown(g)

Spec == Init /\ [][Next]_vars

-----------------------------------------------------------------------------
(* Properties.                                                              *)

Added(a)     == {c \in Conns : a \in added[c]}
OfProtocol(p) == {c \in Conns : "proto" \in added[c] /\ proxyType[c] = p}

\* The disconnection of a connection has been recorded.
Recorded == {c \in Conns : closed[c] /\ \A k \in Closers : pc[c][k] /= "record"}

Counted(op) == {x \in Transfers : call[x] = op /\ moved[x] = "counted"}

\* The counters say what has happened to the connections, whoever does what
\* at the same time: a connection is counted once in the total, once by its
\* protocol, and as active from then on until the first of all the calls of
\* Close records that it is gone; so active is never less than the number of
\* connections that are in use.  When any call of Close returns, that has
\* been recorded and the connection is closed.
Accounting ==
  /\ stats["total"] = Cardinality(Added("total"))
  /\ \A p \in Protocols : stats[p] = Cardinality(OfProtocol(p))
  /\ stats["active"] = Cardinality(Added("active") \ Recorded)
  /\ stats["received"] = Cardinality(Counted("Read"))
  /\ stats["sent"] = Cardinality(Counted("Write"))
  /\ \A c \in Conns, k \in Closers :
       pc[c][k] = "done" => c \in Recorded /\ ~sock[c]

Loaded(g) == {LoadOrder[i] : i \in {j \in DOMAIN LoadOrder : j < at[g]}}

\* A snapshot is not taken in one instant, but what it shows is bounded by
\* what was true when it was asked for and what is true when it is shown:
\* no counter goes backwards between a snapshot and a later one; its total
\* includes every connection an earlier one showed as active or by protocol;
\* and it shows no more connections than there have been.
SnapshotWithin ==
  \A g \in Snapshots :
    /\ \A n \in Loaded(g) \cap Monotone : low[g][n] <= snap[g][n] /\ snap[g][n] <= stats[n]
    /\ "total" \in Loaded(g) =>
         /\ low[g]["http"] + low[g]["socks5"] <= snap[g]["total"]
         /\ low[g]["active"] <= snap[g]["total"]
    /\ "active" \in Loaded(g) => snap[g]["active"] <= stats["total"]
    /\ "socks5" \in Loaded(g) => snap[g]["http"] + snap[g]["socks5"] <= stats["total"]
=============================================================================
