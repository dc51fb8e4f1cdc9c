------------------------------ MODULE HotReload ------------------------------
(***************************************************************************)
(* Hot reload of the Shadowsocks configuration: Manager.ReloadConfig,       *)
(* GetSSClient and GetConfig (internal/server/manager.go) with the three    *)
(* kinds of goroutine that meet in them: POST /reload and GET /config       *)
(* handlers (internal/mgmt/handlers.go) and the goroutines that dial        *)
(* through the current client (internal/proxy).                             *)
(*                                                                          *)
(* A client is the number of the NewClient call that built it, and          *)
(* clients[k] is the configuration it was built from.  The words of the     *)
(* shared struct m.config.Shadowsocks hold the number of the client whose   *)
(* configuration they come from.                                            *)
(***************************************************************************)
EXTENDS Naturals, Sequences, FiniteSets

CONSTANTS
  Reloaders,        \* goroutines serving POST /reload
  Readers,          \* goroutines serving GET /config
  LiveDialers,      \* connections of the unified proxy: each asks GetSSClient
  CapturedDialers,  \* HTTPServer, SOCKS5Server, SpeedTest: hold the first client
  Configs,          \* configurations a reload may ask for
  Rejected,         \* of those: server or password missing
  Unbuildable,      \* of those: NewClient fails (unknown cipher, bad plugin)
  NoOpts,           \* of those: PluginOpts is nil
  InitCfg,          \* the configuration of NewManager
  Words,            \* machine words of a config.ShadowsocksConfig: data pointer
                    \* and length of each string, the pointer PluginOpts ("opts")
  StringWords,      \* those of Server, Cipher and Plugin, as handleConfig reads them
  NoReloader,       \* nobody holds the write lock
  MaxClients        \* bound: clients ever built

Dialers == LiveDialers \cup CapturedDialers
Sharers == LiveDialers \cup Readers       \* goroutines that call RLock
Procs   == Reloaders \cup Readers \cup Dialers

ASSUME ConfigAssumption ==
  /\ Rejected \subseteq Configs /\ Unbuildable \subseteq Configs
  /\ NoOpts \subseteq Configs
  /\ InitCfg \in Configs \ (Rejected \cup Unbuildable)
ASSUME ProcAssumption ==
  /\ Reloaders \cap Readers = {} /\ Reloaders \cap Dialers = {}
  /\ Readers \cap Dialers = {} /\ LiveDialers \cap CapturedDialers = {}
  /\ NoReloader \notin Procs
ASSUME BoundAssumption == MaxClients \in Nat \ {0}

ASSUME WordAssumption == "opts" \in Words /\ StringWords \in Seq(Words)

\* The loads of handleConfig in program order: the nil check of PluginOpts
\* and its two dereferences read the pointer anew.
LoadOrder == StringWords \o <<"opts", "opts", "opts">>
NilCheck  == Len(StringWords) + 1

VARIABLES
  clients,     \* configuration of every client built so far
  ssClient,    \* m.ssClient
  oldClients,  \* m.oldClients
  config,      \* m.config.Shadowsocks, word by word
  writer,      \* ssClientMu: the goroutine that holds it, or waits for readers
  readers,     \* ssClientMu: goroutines inside an RLock section
  pc,          \* control state of every goroutine
  req,         \* per reload handler: newConfig
  fresh,       \* per reload handler: newClient, 0 before it is built
  todo,        \* words m.config.Shadowsocks = newConfig has still to store
  reply,       \* per reload handler: status of its last answer
  client,      \* per dialer: the client it uses
  seen,        \* per config reader: values of the loads it has done
  since        \* history: installed clients when the request began

lockVars == <<writer, readers>>
mgrVars  == <<clients, ssClient, oldClients, config>>
reqVars  == <<req, fresh, todo, reply>>
useVars  == <<client, seen, since>>
vars     == <<mgrVars, lockVars, pc, reqVars, useVars>>

\* Every client that was ever current, the current one last.
Installed == Append(oldClients, ssClient)

Goto(p, s) == pc' = [pc EXCEPT ![p] = s]

TypeOK ==
  /\ clients \in Seq(Configs)
  /\ ssClient \in 1..Len(clients) /\ oldClients \in Seq(1..Len(clients))
  /\ config \in [Words -> Nat]
  /\ writer \in Reloaders \cup {NoReloader} /\ readers \subseteq Sharers
  /\ pc \in [Procs -> {"idle", "build", "lock", "drain", "store",
                       "rlock", "parked", "shared", "load", "dial", "open"}]
  /\ req \in [Reloaders -> Configs] /\ fresh \in [Reloaders -> Nat]
  /\ todo \subseteq Words
  /\ reply \in [Reloaders -> {"none", "200", "400", "500"}]
  /\ client \in [Dialers -> Nat]
  /\ seen \in [Readers -> Seq(Nat)]
  /\ since \in [Readers \cup Dialers -> Nat]

Init ==
  /\ clients = <<InitCfg>> /\ ssClient = 1 /\ oldClients = <<>>
  /\ config = [w \in Words |-> 1]
  /\ writer = NoReloader /\ readers = {}
  /\ pc = [p \in Procs |-> "idle"]
  /\ req = [r \in Reloaders |-> InitCfg]
  /\ fresh = [r \in Reloaders |-> 0]
  /\ todo = {}
  /\ reply = [r \in Reloaders |-> "none"]
  /\ client = [d \in Dialers |-> 0]
  /\ seen = [g \in Readers |-> <<>>]
  /\ since = [p \in Readers \cup Dialers |-> 0]

-----------------------------------------------------------------------------
(* POST /reload: handleReload and Manager.ReloadConfig.                     *)

\* Bound: requests that may still build a client.
MayAsk == Len(clients) + Cardinality({r \in Reloaders : pc[r] = "build"})
            < MaxClients

\* "server and password are required": answered without touching the manager.
RejectReload(r, c) ==
  /\ pc[r] = "idle" /\ c \in Rejected
  /\ reply' = [reply EXCEPT ![r] = "400"]
  /\ UNCHANGED <<mgrVars, lockVars, pc, req, fresh, todo, useVars>>

HandleReload(r, c) ==
  /\ pc[r] = "idle" /\ c \notin Rejected /\ MayAsk
  /\ Goto(r, "build")
  /\ req' = [req EXCEPT ![r] = c]
  /\ reply' = [reply EXCEPT ![r] = "none"]
  /\ UNCHANGED <<mgrVars, lockVars, fresh, todo, useVars>>

NewClient(r) ==
  /\ pc[r] = "build" /\ req[r] \notin Unbuildable
  /\ Goto(r, "lock")
  /\ clients' = Append(clients, req[r])
  /\ fresh' = [fresh EXCEPT ![r] = Len(clients) + 1]
  /\ UNCHANGED <<ssClient, oldClients, config, lockVars, req, todo, reply, useVars>>

\* Mutant: the error of NewClient is not returned, a nil client goes on.
NewClientFails_Ignored(r) ==
  /\ pc[r] = "build" /\ req[r] \in Unbuildable
  /\ Goto(r, "lock")
  /\ UNCHANGED <<mgrVars, lockVars, reqVars, useVars>>

\* Mutant: handleReload ignores the error of ReloadConfig.
NewClientFails_Answers200(r) ==
  /\ pc[r] = "build" /\ req[r] \in Unbuildable
  /\ Goto(r, "idle")
  /\ reply' = [reply EXCEPT ![r] = "200"]
  /\ UNCHANGED <<mgrVars, lockVars, req, fresh, todo, useVars>>

NewClientFails(r) ==
  /\ pc[r] = "build" /\ req[r] \in Unbuildable
  /\ Goto(r, "idle")
  /\ reply' = [reply EXCEPT ![r] = "500"]
  /\ UNCHANGED <<mgrVars, lockVars, req, fresh, todo, useVars>>

\* Mutant: ReloadConfig takes no exclusive lock.
Lock_Shared(r) ==
  /\ pc[r] = "lock"
  /\ Goto(r, "drain")
  /\ writer' = r
  /\ UNCHANGED <<mgrVars, readers, reqVars, useVars>>

\* RWMutex.Lock excludes other writers, then turns new readers away ...
Lock(r) ==
  /\ pc[r] = "lock" /\ writer = NoReloader
  /\ Goto(r, "drain")
  /\ writer' = r
  /\ UNCHANGED <<mgrVars, readers, reqVars, useVars>>

\* Mutant: the old client is not saved.
Swap_Forgets(r) ==
  /\ pc[r] = "drain" /\ readers = {}
  /\ Goto(r, "store")
  /\ ssClient' = fresh[r]
  /\ todo' = Words
  /\ UNCHANGED <<clients, oldClients, config, lockVars, req, fresh, reply, useVars>>

\* ... and returns when the readers inside have left.  The append and the
\* swap are one step: both fields are only read under the lock.
Swap(r) ==
  /\ pc[r] = "drain" /\ readers = {}
  /\ Goto(r, "store")
  /\ oldClients' = Append(oldClients, ssClient)
  /\ ssClient' = fresh[r]
  /\ todo' = Words
  /\ UNCHANGED <<clients, config, lockVars, req, fresh, reply, useVars>>

\* m.config.Shadowsocks = newConfig, read without the lock by handleConfig:
\* the words may become visible in any order.
StoreWord(r, w) ==
  /\ pc[r] = "store" /\ w \in todo
  /\ config' = [config EXCEPT ![w] = fresh[r]]
  /\ todo' = todo \ {w}
  /\ UNCHANGED <<clients, ssClient, oldClients, lockVars, pc, req, fresh, reply, useVars>>

\* Mutant: the unlock forgets the readers that wait.
Unlock_NoWakeup(r) ==
  /\ pc[r] = "store" /\ todo = {}
  /\ Goto(r, "idle")
  /\ writer' = NoReloader
  /\ fresh' = [fresh EXCEPT ![r] = 0]
  /\ reply' = [reply EXCEPT ![r] = "200"]
  /\ UNCHANGED <<mgrVars, readers, req, todo, useVars>>

\* RWMutex.Unlock admits every parked reader before another writer.
Unlock(r) ==
  /\ pc[r] = "store" /\ todo = {}
  /\ pc' = [p \in Procs |-> IF p = r THEN "idle"
                            ELSE IF pc[p] = "parked" THEN "shared" ELSE pc[p]]
  /\ readers' = {p \in Sharers : pc[p] = "parked"}
  /\ writer' = NoReloader
  /\ fresh' = [fresh EXCEPT ![r] = 0]
  /\ reply' = [reply EXCEPT ![r] = "200"]
  /\ UNCHANGED <<mgrVars, req, todo, useVars>>

-----------------------------------------------------------------------------
(* RWMutex.RLock, for GetSSClient and GetConfig.                            *)

\* Mutant: readers do not give way to a waiting writer (no lock is taken).
RLock_Barging(p) ==
  /\ pc[p] = "rlock"
  /\ Goto(p, "shared")
  /\ readers' = readers \cup {p}
  /\ UNCHANGED <<mgrVars, writer, reqVars, useVars>>

RLock(p) ==
  /\ pc[p] = "rlock" /\ writer = NoReloader
  /\ Goto(p, "shared")
  /\ readers' = readers \cup {p}
  /\ UNCHANGED <<mgrVars, writer, reqVars, useVars>>

Park(p) ==
  /\ pc[p] = "rlock" /\ writer /= NoReloader
  /\ Goto(p, "parked")
  /\ UNCHANGED <<mgrVars, lockVars, reqVars, useVars>>

-----------------------------------------------------------------------------
(* A connection: choose a client, dial through it, relay, close.            *)

Begin(p, s) ==
  /\ pc[p] = "idle"
  /\ Goto(p, s)
  /\ since' = [since EXCEPT ![p] = Len(Installed)]

\* The dial closures of NewUnifiedProxy and handleConnect: u.getClient().
AcceptLive(d) ==
  /\ Begin(d, "rlock")
  /\ UNCHANGED <<mgrVars, lockVars, reqVars, client, seen>>

\* Mutant: the unified proxy keeps the client it was constructed with.
GetSSClient_Captured(d) ==
  /\ pc[d] = "shared"
  /\ Goto(d, "dial")
  /\ client' = [client EXCEPT ![d] = 1]
  /\ readers' = readers \ {d}
  /\ UNCHANGED <<mgrVars, writer, reqVars, seen, since>>

GetSSClient(d) ==
  /\ pc[d] = "shared"
  /\ Goto(d, "dial")
  /\ client' = [client EXCEPT ![d] = ssClient]
  /\ readers' = readers \ {d}
  /\ UNCHANGED <<mgrVars, writer, reqVars, seen, since>>

\* The closures of NewHTTPServer and NewSOCKS5Server, and SpeedTest.Run, use
\* the client they were constructed with.
AcceptCaptured(d) ==
  /\ Begin(d, "dial")
  /\ client' = [client EXCEPT ![d] = 1]
  /\ UNCHANGED <<mgrVars, lockVars, reqVars, seen>>

DialOk(d) ==
  /\ pc[d] = "dial"
  /\ Goto(d, "open")
  /\ UNCHANGED <<mgrVars, lockVars, reqVars, useVars>>

\* The dial failed, or the connection was closed by either side.
Close(d) ==
  /\ pc[d] \in {"dial", "open"}
  /\ Goto(d, "idle")
  /\ client' = [client EXCEPT ![d] = 0]
  /\ UNCHANGED <<mgrVars, lockVars, reqVars, seen, since>>

-----------------------------------------------------------------------------
(* GET /config: handleConfig.                                               *)

HandleConfig(g) ==
  /\ Begin(g, "rlock")
  /\ UNCHANGED <<mgrVars, lockVars, reqVars, client, seen>>

\* GetConfig returns the pointer; the lock is released before the loads.
GetConfig(g) ==
  /\ pc[g] = "shared"
  /\ Goto(g, "load")
  /\ readers' = readers \ {g}
  /\ UNCHANGED <<mgrVars, writer, reqVars, useVars>>

IsNil(k) == clients[k] \in NoOpts

\* After the nil check found no options, or after the last load, the answer
\* is written; a dereference of nil panics, and net/http drops the request.
Answerable(s) == \/ Len(s) = Len(LoadOrder)
                 \/ Len(s) = NilCheck /\ IsNil(s[NilCheck])
Panicked(s) == Len(s) > NilCheck /\ IsNil(s[Len(s)])

Load(g) ==
  LET s == seen[g] IN
  /\ pc[g] = "load" /\ ~Answerable(s) /\ ~Panicked(s)
  /\ seen' = [seen EXCEPT ![g] = Append(s, config[LoadOrder[Len(s) + 1]])]
  /\ UNCHANGED <<mgrVars, lockVars, pc, reqVars, client, since>>

FinishConfig(g) ==
  /\ pc[g] = "load" /\ (Answerable(seen[g]) \/ Panicked(seen[g]))
  /\ Goto(g, "idle")
  /\ seen' = [seen EXCEPT ![g] = <<>>]
  /\ UNCHANGED <<mgrVars, lockVars, reqVars, client, since>>

-----------------------------------------------------------------------------
Reload(r) ==
  \/ \E c \in Configs : RejectReload(r, c) \/ HandleReload(r, c)
  \/ NewClient(r) \/ NewClientFails(r)
  \/ Lock(r) \/ Swap(r) \/ (\E w \in Words : StoreWord(r, w)) \/ Unlock(r)

Dialing(d) ==
  \/ d \in LiveDialers /\ (AcceptLive(d) \/ RLock(d) \/ Park(d) \/ GetSSClient(d))
  \/ d \in CapturedDialers /\ AcceptCaptured(d)
  \/ DialOk(d) \/ Close(d)

Reading(g) ==
  \/ HandleConfig(g) \/ RLock(g) \/ Park(g) \/ GetConfig(g)
  \/ Load(g) \/ FinishConfig(g)

Next ==
  \/ \E r \in Reloaders : Reload(r)
  \/ \E d \in Dialers : Dialing(d)
  \/ \E g \in Readers : Reading(g)

Spec == Init /\ [][Next]_vars

\* A goroutine inside a handler is scheduled; a writer waiting for the mutex
\* gets it in the end (sync.Mutex hands over after 1 ms of waiting).  No
\* fairness for arrivals, for dials, or for connections closing.
ReloadSteps(r) == \/ NewClient(r) \/ NewClientFails(r) \/ Swap(r)
                  \/ (\E w \in Words : StoreWord(r, w)) \/ Unlock(r)
ShareSteps(p) == \/ RLock(p) \/ Park(p)
                 \/ p \in LiveDialers /\ GetSSClient(p)
                 \/ p \in Readers /\ (GetConfig(p) \/ Load(p) \/ FinishConfig(p))

Fairness ==
  /\ \A r \in Reloaders : WF_vars(ReloadSteps(r)) /\ SF_vars(Lock(r))
  /\ \A p \in Sharers : WF_vars(ShareSteps(p))

FairSpec == Spec /\ Fairness

-----------------------------------------------------------------------------
(* Properties.                                                              *)

InStore == \E r \in Reloaders : pc[r] = "store"

\* Between reloads the configuration that is reported is, word for word, the
\* one the current client was built from: ReloadConfig changes both inside
\* one write section, whatever other reloads do.
ClientMatchesConfig == ~InStore => \A w \in Words : config[w] = ssClient

\* Concurrent reloads lose no client and install none twice: every client
\* ever built is in the history once, or one reload still waits for the lock
\* with it.  (m.oldClients must hold them all for a shutdown to close them.)
Waiting(r) == pc[r] \in {"lock", "drain"}

NoLostClient ==
  /\ \A k \in 1..Len(clients) : \/ \E i \in 1..Len(Installed) : Installed[i] = k
                                \/ \E r \in Reloaders : Waiting(r) /\ fresh[r] = k
  /\ \A i, j \in 1..Len(Installed) : Installed[i] = Installed[j] => i = j
  /\ \A r, q \in Reloaders : Waiting(r) /\ Waiting(q) /\ fresh[r] = fresh[q] => r = q
  /\ \A i \in 1..Len(Installed), r \in Reloaders : Waiting(r) => Installed[i] /= fresh[r]

\* Client k was current at some time since the s-th client was installed.
CurrentSince(k, s) ==
  \E i \in 1..Len(Installed) : i >= s /\ Installed[i] = k

UsesRecentClient(d) ==
  pc[d] \in {"dial", "open"} => CurrentSince(client[d], since[d])

\* A connection of the unified proxy uses a client that was current when it
\* arrived or was installed later: after a reload was answered 200, no new
\* connection goes to the old server.
FreshDial == \A d \in LiveDialers : UsesRecentClient(d)

\* GET /config reports no word older than the configuration that was current
\* when the request arrived, although the loads are outside the lock.
NoStaleField ==
  \A g \in Readers : pc[g] = "load" =>
    \A n \in 1..Len(seen[g]) : CurrentSince(seen[g][n], since[g])

\* Every POST /reload is answered, however many connections keep asking for
\* the client: a waiting writer turns new readers away.
ReloadAnswered == \A r \in Reloaders : (pc[r] /= "idle") ~> (pc[r] = "idle")

\* Nobody who asks for the client or the configuration waits for ever.
SharersServed ==
  \A p \in Sharers : (pc[p] \in {"rlock", "parked", "shared"})
                       ~> (pc[p] \notin {"rlock", "parked", "shared"})

\* The state of the abstract register: a reload takes effect at Swap, a
\* connection binds at GetSSClient.
AbsReload(r) == IF pc[r] = "idle" THEN "idle"
                ELSE IF pc[r] = "store" THEN "applied" ELSE "pending"
AbsAnswer(r) == IF reply[r] = "none" THEN "none"
                ELSE IF reply[r] = "200" THEN "ok" ELSE "refused"
AbsBound(d)  == IF pc[d] \in {"dial", "open"} THEN <<client[d]>> ELSE <<>>

Register == INSTANCE ReloadRegister WITH
  Dialers   <- LiveDialers,
  Clients   <- Nat,
  installed <- Installed,
  reload    <- [r \in Reloaders |-> AbsReload(r)],
  answer    <- [r \in Reloaders |-> AbsAnswer(r)],
  bound     <- [d \in LiveDialers |-> AbsBound(d)]

\* ReloadConfig, GetSSClient and the handlers around them implement the
\* register: one installation per reload answered 200 and none otherwise,
\* connections bind to the current client and keep it.
RefinesRegister == Register!Spec

\* What the comment on GetConfig and the README say of GET /config: the
\* answer is one configuration the manager has held, and there is an answer.
ConfigAnswerIsOneConfig ==
  \A g \in Readers : pc[g] = "load" =>
    /\ ~Panicked(seen[g])
    /\ Answerable(seen[g]) =>
         Cardinality({clients[seen[g][n]] : n \in 1..Len(seen[g])}) = 1
=============================================================================
