-------------------------------- MODULE Pool --------------------------------
(***************************************************************************)
(* Plain HTTP requests through the unified proxy while the configuration    *)
(* is reloaded: handleHTTP hands a request to goproxy, whose http.Transport *)
(* (NewUnifiedProxy, internal/proxy/unified.go) takes a kept connection or  *)
(* calls the DialContext closure, and only the closure asks getClient.      *)
(* The transport keeps connections and a reload does not close them.        *)
(*                                                                          *)
(* The transport's side is external: net/http with a zero-value Transport,  *)
(* that is two kept connections per target, no idle timeout.  One target is *)
(* enough, the transport keeps the targets apart.  Of the manager, only the *)
(* number of the current client is left: HotReload, which implements        *)
(* ReloadRegister, shows that getClient reads it in one instant.            *)
(***************************************************************************)
EXTENDS Naturals, Sequences, FiniteSets, SequencesExt

CONSTANTS
  Requests,        \* requests that reach handleHTTP
  Conns,           \* bound: connections the transport may open
  NoRequest, NoConn,
  MaxIdlePerHost,  \* http.DefaultMaxIdleConnsPerHost
  MaxReloads       \* bound: reloads

ASSUME NoneAssumption  == NoRequest \notin Requests /\ NoConn \notin Conns
ASSUME BoundAssumption == MaxIdlePerHost \in Nat /\ MaxReloads \in Nat

VARIABLES
  current,   \* number of the client that getClient returns
  phase,     \* per request
  carrier,   \* per request: the connection that carries it
  conn,      \* per connection
  client,    \* per connection: the client it was dialled through, 0 before
  dialFor,   \* per connection: the request that waits for this very dial
  waiting,   \* requests the transport owes a connection, oldest first
  pool,      \* kept connections, the next to be reused last
  reused,    \* connections that were kept, or handed over, at least once
  dead,      \* connections the target has closed
  arrival    \* history: per request, the current client and the connections
             \* already dialled when it arrived

reqVars  == <<phase, carrier>>
connVars == <<conn, client, dialFor>>
poolVars == <<waiting, pool, reused>>
vars == <<current, reqVars, connVars, poolVars, dead, arrival>>

\* The pool holds what is kept and no more than its limit; a connection
\* carries at most one request, and a request waits only if nothing is kept.
TypeOK ==
  /\ current \in 1..MaxReloads + 1
  /\ phase \in [Requests -> {"none", "want", "waiting", "sent", "done"}]
  /\ \A r \in Requests :
       carrier[r] \in IF phase[r] = "sent" THEN Conns ELSE {NoConn}
  /\ conn \in [Conns -> {"unused", "asked", "dialling", "kept", "busy", "closed"}]
  /\ client \in [Conns -> 0..MaxReloads + 1]
  /\ dialFor \in [Conns -> Requests \cup {NoRequest}]
  /\ ToSet(waiting) = {r \in Requests : phase[r] = "waiting"}
  /\ ToSet(pool) = {c \in Conns : conn[c] = "kept"} /\ IsInjective(pool)
  /\ Len(pool) <= MaxIdlePerHost /\ (pool /= <<>> => waiting = <<>>)
  /\ reused \subseteq Conns /\ dead \subseteq Conns
  /\ {c \in Conns : conn[c] = "busy"} = {carrier[r] : r \in Requests} \ {NoConn}
  /\ \A r, q \in Requests : carrier[r] = carrier[q] /\ carrier[r] /= NoConn => r = q

Init ==
  /\ current = 1
  /\ phase = [r \in Requests |-> "none"]
  /\ carrier = [r \in Requests |-> NoConn]
  /\ conn = [c \in Conns |-> "unused"]
  /\ client = [c \in Conns |-> 0]
  /\ dialFor = [c \in Conns |-> NoRequest]
  /\ waiting = <<>> /\ pool = <<>> /\ reused = {} /\ dead = {}
  /\ arrival = [r \in Requests |-> [at |-> 0, dialled |-> {}]]

\* ReloadConfig replaces the client and leaves the transport alone.
Reload ==
  /\ current <= MaxReloads
  /\ current' = current + 1
  /\ UNCHANGED <<reqVars, connVars, poolVars, dead, arrival>>

\* handleHTTP has read a request and calls ServeHTTP.
HandleHTTP(r) ==
  /\ phase[r] = "none"
  /\ phase' = [phase EXCEPT ![r] = "want"]
  /\ arrival' = [arrival EXCEPT ![r] =
       [at |-> current, dialled |-> {c \in Conns : client[c] /= 0}]]
  /\ UNCHANGED <<current, carrier, connVars, poolVars, dead>>

-----------------------------------------------------------------------------
(* http.Transport: getConn.                                                 *)

\* The kept connection used last, closed by its target or not.
Take(r) ==
  /\ phase[r] = "want" /\ pool /= <<>>
  /\ phase' = [phase EXCEPT ![r] = "sent"]
  /\ carrier' = [carrier EXCEPT ![r] = Last(pool)]
  /\ conn' = [conn EXCEPT ![Last(pool)] = "busy"]
  /\ pool' = Front(pool)
  /\ UNCHANGED <<current, client, dialFor, waiting, reused, dead, arrival>>

\* None is kept: a goroutine dials, and the request waits for this dial or
\* for a connection that becomes free.
QueueDial(r, c) ==
  /\ phase[r] = "want" /\ pool = <<>> /\ conn[c] = "unused"
  /\ phase' = [phase EXCEPT ![r] = "waiting"]
  /\ conn' = [conn EXCEPT ![c] = "asked"]
  /\ dialFor' = [dialFor EXCEPT ![c] = r]
  /\ waiting' = Append(waiting, r)
  /\ UNCHANGED <<current, carrier, client, pool, reused, dead, arrival>>

\* Mutant: the closure uses the client the proxy was constructed with.
DialContext_Captured(c) ==
  /\ conn[c] = "asked"
  /\ conn' = [conn EXCEPT ![c] = "dialling"]
  /\ client' = [client EXCEPT ![c] = 1]
  /\ UNCHANGED <<current, reqVars, dialFor, poolVars, dead, arrival>>

\* The closure of NewUnifiedProxy: u.getClient() is called when the dial runs.
DialContext(c) ==
  /\ conn[c] = "asked"
  /\ conn' = [conn EXCEPT ![c] = "dialling"]
  /\ client' = [client EXCEPT ![c] = current]
  /\ UNCHANGED <<current, reqVars, dialFor, poolVars, dead, arrival>>

\* Request r, if it is one, gets connection c and waits for its own dial no
\* more; request e, if it is one, is over.
Hand(c, r, e) ==
  /\ phase' = [q \in Requests |-> IF q = r THEN "sent" ELSE IF q = e THEN "done" ELSE phase[q]]
  /\ carrier' = [q \in Requests |-> IF q = r THEN c ELSE IF q = e THEN NoConn ELSE carrier[q]]
  /\ waiting' = RemoveFirst(waiting, r)
  /\ dialFor' = [d \in Conns |-> IF dialFor[d] = r THEN NoRequest ELSE dialFor[d]]

\* Mutant: kept connections are not counted.
Keep_Unbounded(c) ==
  /\ conn' = [conn EXCEPT ![c] = "kept"]
  /\ pool' = Append(pool, c)

\* A free connection is kept, or closed when enough are.
Keep(c) ==
  LET full == Len(pool) >= MaxIdlePerHost IN
  /\ conn' = [conn EXCEPT ![c] = IF full THEN "closed" ELSE "kept"]
  /\ pool' = IF full THEN pool ELSE Append(pool, c)

\* tryPutIdleConn: to the request that has waited longest, or to the pool.
PutIdleConn(c, e) ==
  /\ reused' = reused \cup {c}
  /\ \/ /\ waiting /= <<>> /\ Hand(c, Head(waiting), e)
        /\ conn' = [conn EXCEPT ![c] = "busy"]
        /\ UNCHANGED pool
     \/ waiting = <<>> /\ Hand(c, NoRequest, e) /\ Keep(c)

\* The dial ends well: for the request it was made for, or else, that one
\* being served by another connection meanwhile, for whoever comes.
DialDone(c) ==
  /\ conn[c] = "dialling"
  /\ \/ /\ dialFor[c] /= NoRequest /\ Hand(c, dialFor[c], NoRequest)
        /\ conn' = [conn EXCEPT ![c] = "busy"]
        /\ UNCHANGED <<pool, reused>>
     \/ dialFor[c] = NoRequest /\ PutIdleConn(c, NoRequest)
  /\ UNCHANGED <<current, client, dead, arrival>>

\* ... or fails: its request, if it still waits, is answered 500.
DialFails(c) ==
  /\ conn[c] = "dialling"
  /\ conn' = [conn EXCEPT ![c] = "closed"]
  /\ phase' = [r \in Requests |-> IF r = dialFor[c] THEN "done" ELSE phase[r]]
  /\ waiting' = RemoveFirst(waiting, dialFor[c])
  /\ dialFor' = [dialFor EXCEPT ![c] = NoRequest]
  /\ UNCHANGED <<current, carrier, client, pool, reused, dead, arrival>>

-----------------------------------------------------------------------------
(* The end of a request, and targets that close.                            *)

\* The answer was read to its end: the connection is free.
Complete(r) ==
  /\ phase[r] = "sent" /\ carrier[r] \notin dead
  /\ PutIdleConn(carrier[r], r)
  /\ UNCHANGED <<current, client, dead, arrival>>

\* The answer ends early, or the target does not keep the connection.
Break(r) ==
  /\ phase[r] = "sent"
  /\ phase' = [phase EXCEPT ![r] = "done"]
  /\ carrier' = [carrier EXCEPT ![r] = NoConn]
  /\ conn' = [conn EXCEPT ![carrier[r]] = "closed"]
  /\ UNCHANGED <<current, client, dialFor, poolVars, dead, arrival>>

\* A kept connection turned out to be closed: a request that can be sent
\* again gets another one.
Retry(r) ==
  /\ phase[r] = "sent" /\ carrier[r] \in dead \cap reused
  /\ phase' = [phase EXCEPT ![r] = "want"]
  /\ carrier' = [carrier EXCEPT ![r] = NoConn]
  /\ conn' = [conn EXCEPT ![carrier[r]] = "closed"]
  /\ UNCHANGED <<current, client, dialFor, poolVars, dead, arrival>>

TargetCloses(c) ==
  /\ conn[c] \in {"kept", "busy"} /\ c \notin dead
  /\ dead' = dead \cup {c}
  /\ UNCHANGED <<current, reqVars, connVars, poolVars, arrival>>

\* The connection's own goroutine reads the end of the stream.
Notice(c) ==
  /\ conn[c] = "kept" /\ c \in dead
  /\ conn' = [conn EXCEPT ![c] = "closed"]
  /\ pool' = RemoveFirst(pool, c)
  /\ UNCHANGED <<current, reqVars, client, dialFor, waiting, reused, dead, arrival>>

Next ==
  \/ Reload
  \/ \E r \in Requests : \/ HandleHTTP(r) \/ Take(r) \/ Complete(r) \/ Break(r) \/ Retry(r)
                         \/ \E c \in Conns : QueueDial(r, c)
  \/ \E c \in Conns : DialContext(c) \/ DialDone(c) \/ DialFails(c)
                        \/ TargetCloses(c) \/ Notice(c)

Spec == Init /\ [][Next]_vars

-----------------------------------------------------------------------------
\* A request that arrived after a reload was answered goes to the replaced
\* server over a connection dialled before it arrived, and in no other way:
\* neither a dial that another request had asked for before the reload, nor a
\* connection handed over, nor a retry brings the old client back.
StaleOnlyByReuse ==
  \A r \in Requests :
    phase[r] = "sent" /\ client[carrier[r]] < arrival[r].at
      => carrier[r] \in arrival[r].dialled \cap reused
=============================================================================
