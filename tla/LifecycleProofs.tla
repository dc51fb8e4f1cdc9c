--------------------------- MODULE LifecycleProofs ---------------------------
(***************************************************************************)
(* Proofs about Lifecycle, for any number of requests.                      *)
(***************************************************************************)
EXTENDS Lifecycle, TLAPS

\* Past Cancel the context is done, and the listener of the unified proxy is
\* closed only then: by the watcher, or by a Shutdown that has cancelled.
CtxInv ==
  /\ main \in {"stats", "proxy", "drainWeb", "stopSocks", "exit"} => ctxDone
  /\ listener = "closed" => ctxDone

\* The API is started last.  Only a server that serves takes requests.  One
\* that has been shut down handles none, but while Shutdown waits for its
\* handlers and after the deadline.  Past that point there is no other API
\* server, unless Shutdown has missed it.
ApiInv ==
  /\ main \in {"start", "web", "socks", "api", "error"} => http["api"] = "off"
  /\ http["api"] \notin {"serving", "closed"} => requests["api"] = 0
  /\ http["api"] = "closed" /\ main /= "drainApi" /\ ~expired => requests["api"] = 0
  /\ (main = "drainApi" \/ Stopping) /\ ~missed => http["api"] \in {"off", "closed"}

\* The separate proxies are started in their own mode only.
ModeInv == main \in {"web", "socks"} => ~cfg.unified

IInv == TypeOK /\ CtxInv /\ ApiInv /\ ModeInv

-----------------------------------------------------------------------------
\* NewManager leaves everything off.
LEMMA InitIInv == Init => IInv
<1> SUFFICES ASSUME Init PROVE IInv
  OBVIOUS
<1>1. TypeOK
  <2>1. sampler \in {"off", "running", "told", "ended"}
    BY DEF Init
  <2>2. requests \in [Servers -> 0..MaxRequests]
    BY RequestAssumption DEF Init
  <2>3. NothingUnasked
    BY DEF Init, NothingUnasked, Servers
  <2> QED
    BY <2>1, <2>2, <2>3, Zenon DEF Init, TypeOK
<1>2. CtxInv /\ ApiInv /\ ModeInv
  BY DEF Init, CtxInv, ApiInv, ModeInv, Stopping, Servers
<1> QED
  BY <1>1, <1>2 DEF IInv

\* No step leaves the types.
LEMMA TypeStep ==
  ASSUME TypeOK, ModeInv, [Next]_vars
  PROVE  TypeOK'
<1> USE RequestAssumption DEF TypeOK, NothingUnasked, ModeInv, Servers, Step, mainVars, statsVars, acceptVars, httpVars
<1>1. CASE Main
  <2>1. CASE StartManager \/ StartWeb \/ StartSocks \/ StartSocksFails \/ StartApi
    BY <2>1 DEF StartManager, StartWeb, StartSocks, StartSocksFails, StartApi
  <2>2. CASE ShutdownApi
    <3>1. /\ http' \in [Servers -> {"off", "started", "set", "serving", "failed", "closed"}]
          /\ http'["web"] = http["web"] /\ (http["api"] = "off" => http'["api"] = "off")
      BY <2>2 DEF ShutdownApi, CloseServer
    <3>2. missed' \in BOOLEAN /\ main' \in {"cancel", "drainApi"} /\ requests' = requests
      BY <2>2 DEF ShutdownApi, CloseServer
    <3> QED
      BY <2>2, <3>1, <3>2 DEF ShutdownApi
  <2>3. CASE ApiDrained \/ Cancel
    <3>1. main' \in {"cancel", "stats"} /\ ctxDone' \in BOOLEAN
      BY <2>3 DEF ApiDrained, Cancel
    <3>2. UNCHANGED <<cfg, expired, missed, statsVars, acceptVars, httpVars, socks, asked>>
      BY <2>3 DEF ApiDrained, Cancel
    <3> QED
      BY <3>1, <3>2
  <2>4. CASE StopStats
    <3>1. /\ reporter' \in {"off", "running", "told", "ended"}
          /\ sampler' \in {"off", "running", "told", "ended"}
          /\ (reporter = "off" => reporter' = "off") /\ (sampler = "off" => sampler' = "off")
      BY <2>4 DEF StopStats, Told
    <3> QED
      BY <2>4, <3>1 DEF StopStats
  <2>5. CASE StopUnified \/ StopWeb \/ WebDrained \/ StopSocks
    BY <2>5 DEF StopUnified, StopWeb, WebDrained, StopSocks, CloseServer
  <2> QED
    BY <1>1, <2>1, <2>2, <2>3, <2>4, <2>5 DEF Main
<1>2. CASE Goroutines
  <2>1. CASE ReporterEnds \/ SamplerEnds \/ WatcherCloses
    BY <2>1 DEF ReporterEnds, SamplerEnds, WatcherCloses
  <2>2. CASE Listen \/ ListenFails \/ Assign \/ StartWatcher \/ AcceptFails
    BY <2>2 DEF Listen, ListenFails, Assign, StartWatcher, AcceptFails, AcceptStep
  <2>3. CASE CreateServer \/ \E s \in Servers : ListenAndServe(s)
    BY <2>3 DEF CreateServer, ListenAndServe
  <2> QED
    BY <1>2, <2>1, <2>2, <2>3 DEF Goroutines
<1>3. CASE World
  <2>1. CASE Signal
    BY <2>1 DEF Signal
  <2>2. CASE Expire
    BY <2>2 DEF Expire
  <2>3. CASE HandleStop
    <3>1. requests["api"] - 1 \in 0..MaxRequests
      BY <2>3 DEF HandleStop
    <3>2. requests' \in [Servers -> 0..MaxRequests]
      BY <2>3, <3>1 DEF HandleStop
    <3> QED
      BY <2>3, <3>2 DEF HandleStop
  <2>4. CASE \E s \in Servers : Request(s) \/ Respond(s)
    BY <2>4 DEF Request, Respond
  <2> QED
    BY <1>3, <2>1, <2>2, <2>3, <2>4 DEF World
<1>4. CASE UNCHANGED vars
  BY <1>4 DEF vars
<1> QED
  BY <1>1, <1>2, <1>3, <1>4 DEF Next

\* Start branches on the mode, which does not change.
LEMMA ModeStep ==
  ASSUME ModeInv, [Next]_vars
  PROVE  ModeInv'
<1> USE DEF ModeInv, Step, mainVars, statsVars, acceptVars, httpVars
<1>1. CASE Main
  BY <1>1 DEF Main, StartManager, StartWeb, StartSocks, StartSocksFails, StartApi, ShutdownApi,
              ApiDrained, Cancel, StopStats, StopUnified, StopWeb, WebDrained, StopSocks
<1>2. CASE Goroutines
  BY <1>2 DEF Goroutines, ReporterEnds, SamplerEnds, WatcherCloses, Listen, ListenFails, Assign,
              StartWatcher, AcceptFails, AcceptStep, CreateServer, ListenAndServe
<1>3. CASE World
  BY <1>3 DEF World, Signal, Expire, HandleStop, Request, Respond
<1>4. CASE UNCHANGED vars
  BY <1>4 DEF vars
<1> QED
  BY <1>1, <1>2, <1>3, <1>4 DEF Next

\* Only the two that have seen the cancellation close the listener.
LEMMA CtxStep ==
  ASSUME TypeOK, CtxInv, [Next]_vars
  PROVE  CtxInv'
<1> USE DEF CtxInv, Step, mainVars, statsVars, acceptVars, httpVars
<1>1. CASE Main
  <2>1. CASE StartManager \/ StartWeb \/ StartSocks \/ StartSocksFails \/ StartApi
    BY <2>1 DEF StartManager, StartWeb, StartSocks, StartSocksFails, StartApi
  <2>2. CASE ShutdownApi \/ ApiDrained \/ Cancel \/ StopStats
    BY <2>2 DEF ShutdownApi, ApiDrained, Cancel, StopStats
  <2>3. CASE StopUnified \/ StopWeb \/ WebDrained \/ StopSocks
    BY <2>3 DEF StopUnified, StopWeb, WebDrained, StopSocks
  <2> QED
    BY <1>1, <2>1, <2>2, <2>3 DEF Main
<1>2. CASE Goroutines
  <2>1. CASE ReporterEnds \/ SamplerEnds \/ WatcherCloses
    BY <2>1 DEF ReporterEnds, SamplerEnds, WatcherCloses
  <2>2. CASE Listen \/ ListenFails \/ Assign \/ StartWatcher \/ AcceptFails
    BY <2>2 DEF Listen, ListenFails, Assign, StartWatcher, AcceptFails, AcceptStep
  <2>3. CASE CreateServer \/ \E s \in Servers : ListenAndServe(s)
    BY <2>3 DEF CreateServer, ListenAndServe
  <2> QED
    BY <1>2, <2>1, <2>2, <2>3 DEF Goroutines
<1>3. CASE World
  BY <1>3 DEF World, Signal, Expire, HandleStop, Request, Respond
<1>4. CASE UNCHANGED vars
  BY <1>4 DEF vars
<1> QED
  BY <1>1, <1>2, <1>3, <1>4 DEF Next

\* A server that is shut down takes no request, and Shutdown moves on when it
\* has none or the deadline is over.
LEMMA ApiStep ==
  ASSUME TypeOK, ApiInv, [Next]_vars
  PROVE  ApiInv'
<1> USE DEF TypeOK, ApiInv, Stopping, Step, Servers, mainVars, statsVars, acceptVars, httpVars
<1>1. CASE Main
  <2>1. CASE StartManager \/ StartWeb \/ StartSocks \/ StartSocksFails \/ StartApi
    BY <2>1 DEF StartManager, StartWeb, StartSocks, StartSocksFails, StartApi
  <2>2. CASE ShutdownApi \/ Cancel \/ StopStats
    BY <2>2 DEF ShutdownApi, Cancel, StopStats, CloseServer
  <2>3. CASE ApiDrained
    BY <2>3 DEF ApiDrained, Drained
  <2>4. CASE StopUnified \/ StopWeb \/ WebDrained \/ StopSocks
    BY <2>4 DEF StopUnified, StopWeb, WebDrained, StopSocks, CloseServer
  <2> QED
    BY <1>1, <2>1, <2>2, <2>3, <2>4 DEF Main
<1>2. CASE Goroutines
  <2>1. CASE ReporterEnds \/ SamplerEnds \/ WatcherCloses
    BY <2>1 DEF ReporterEnds, SamplerEnds, WatcherCloses
  <2>2. CASE Listen \/ ListenFails \/ Assign \/ StartWatcher \/ AcceptFails
    BY <2>2 DEF Listen, ListenFails, Assign, StartWatcher, AcceptFails, AcceptStep
  <2>3. CASE CreateServer \/ \E s \in Servers : ListenAndServe(s)
    BY <2>3 DEF CreateServer, ListenAndServe
  <2> QED
    BY <1>2, <2>1, <2>2, <2>3 DEF Goroutines
<1>3. CASE World
  <2>1. CASE Signal \/ Expire \/ HandleStop
    BY <2>1 DEF Signal, Expire, HandleStop
  <2>2. CASE \E s \in Servers : Request(s) \/ Respond(s)
    BY <2>2 DEF Request, Respond
  <2> QED
    BY <1>3, <2>1, <2>2 DEF World
<1>4. CASE UNCHANGED vars
  BY <1>4 DEF vars
<1> QED
  BY <1>1, <1>2, <1>3, <1>4 DEF Next

-----------------------------------------------------------------------------
\* What start and stop keep, step by step.
THEOREM IInvariant == Spec => []IInv
<1>1. IInv /\ [Next]_vars => IInv'
  BY TypeStep, CtxStep, ApiStep, ModeStep DEF IInv
<1> QED
  BY <1>1, InitIInv, PTL DEF Spec

\* The goroutines of the program stay in the places they have.
THEOREM TypeCorrect == Spec => []TypeOK
<1>1. IInv => TypeOK
  BY DEF IInv
<1> QED
  BY <1>1, IInvariant, PTL

\* The accept loop never meets a closed listener before it is told to stop:
\* the context is cancelled first on every path that closes it.
THEOREM NoSpinAlways == Spec => []NoSpin
<1>1. IInv => NoSpin
  BY DEF IInv, CtxInv, NoSpin
<1> QED
  BY <1>1, IInvariant, PTL

\* Manager.Shutdown runs beside no handler of the API but one that has
\* outlived the deadline, or one of a server that Shutdown has missed.
THEOREM ApiQuietAlways == Spec => []ApiQuiet
<1>1. IInv => ApiQuiet
  BY DEF IInv, ApiInv, ApiQuiet, Stopping
<1> QED
  BY <1>1, IInvariant, PTL
=============================================================================
