------------------------------ MODULE Lifecycle ------------------------------
(***************************************************************************)
(* Starting and stopping: runStart (cmd/light-ss/start.go), Manager.Start   *)
(* and Manager.Shutdown (internal/server/manager.go), and the goroutines    *)
(* they start and end: the accept loop of the unified proxy and its         *)
(* watcher, the stats reporter and the speed sampler, the HTTP servers of   *)
(* the management API and of the separate HTTP proxy, the SOCKS5 listener.  *)
(*                                                                          *)
(* Goroutines keep running when Shutdown has returned: what becomes of them *)
(* is Manager's business, although runStart lets the process end then.      *)
(***************************************************************************)
EXTENDS Integers

CONSTANT MaxRequests      \* bound: requests an HTTP server handles at a time

ASSUME RequestAssumption == MaxRequests \in Nat

\* What a validated configuration enables: a proxy at least.
Settings == {c \in [unified : BOOLEAN, http : BOOLEAN, socks : BOOLEAN,
                    stats : BOOLEAN, api : BOOLEAN] : c.unified \/ c.http \/ c.socks}
Servers  == {"api", "web"}    \* mgmt.Server and proxy.HTTPServer, each around an http.Server

VARIABLES
  cfg,       \* what the configuration enables
  main,      \* the goroutine of runStart
  ctxDone,   \* Manager.ctx is cancelled
  expired,   \* the 30 seconds of the shutdown context are over
  missed,    \* history: mgmt.Server.Shutdown found no http.Server though there is an API
  reporter,  \* the goroutine of Reporter.Start: "off", "running", "told" or "ended"
  sampler,   \* Collector.sampleSpeed, likewise
  accept,    \* the goroutine of UnifiedProxy.Start
  field,     \* UnifiedProxy.listener is set
  listener,  \* the socket: "none", "open" or "closed"
  watcher,   \* the goroutine that closes it when ctx is done
  http,      \* per server: "off", "started", "set", "serving", "failed" or "closed"
  requests,  \* per server: requests being handled
  socks,     \* the listener of SOCKS5Server
  asked      \* POST /stop has been answered

mainVars   == <<cfg, main, ctxDone, expired, missed>>
statsVars  == <<reporter, sampler>>
acceptVars == <<accept, field, listener, watcher>>
httpVars   == <<http, requests>>
vars == <<mainVars, statsVars, acceptVars, httpVars, socks, asked>>

\* What is not enabled stays off, and so do the separate proxies beside a
\* unified one.
NothingUnasked ==
  /\ ~cfg.stats => reporter = "off" /\ sampler = "off"
  /\ ~cfg.unified => accept = "off" /\ listener = "none" /\ watcher = "off"
  /\ cfg.unified \/ ~cfg.http => http["web"] = "off"
  /\ cfg.unified \/ ~cfg.socks => socks = "off"
  /\ ~cfg.api => http["api"] = "off"

TypeOK ==
  /\ cfg \in Settings /\ ctxDone \in BOOLEAN /\ expired \in BOOLEAN /\ missed \in BOOLEAN
  /\ main \in {"start", "web", "socks", "api", "wait", "signalled", "drainApi", "cancel",
               "stats", "proxy", "drainWeb", "stopSocks", "exit", "error"}
  /\ reporter \in {"off", "running", "told", "ended"}
  /\ sampler \in {"off", "running", "told", "ended"}
  /\ accept \in {"off", "listen", "assign", "watch", "loop", "ended"}
  /\ field \in BOOLEAN /\ listener \in {"none", "open", "closed"}
  /\ watcher \in {"off", "waiting", "ended"}
  /\ http \in [Servers -> {"off", "started", "set", "serving", "failed", "closed"}]
  /\ requests \in [Servers -> 0..MaxRequests]
  /\ socks \in {"off", "serving", "closed"} /\ asked \in BOOLEAN
  /\ NothingUnasked

\* NewManager: a collector samples from its creation on.
Init ==
  /\ cfg \in Settings
  /\ main = "start" /\ ctxDone = FALSE /\ expired = FALSE /\ missed = FALSE
  /\ reporter = "off" /\ sampler = IF cfg.stats THEN "running" ELSE "off"
  /\ accept = "off" /\ field = FALSE /\ listener = "none" /\ watcher = "off"
  /\ http = [s \in Servers |-> "off"] /\ requests = [s \in Servers |-> 0]
  /\ socks = "off" /\ asked = FALSE

Step(from, to) == main = from /\ main' = to /\ UNCHANGED <<cfg, missed>>

-----------------------------------------------------------------------------
(* Manager.Start and the start of the API server.                           *)

StartManager ==
  /\ Step("start", IF cfg.unified THEN "api" ELSE "web")
  /\ reporter' = IF cfg.stats THEN "running" ELSE "off"
  /\ accept' = IF cfg.unified THEN "listen" ELSE "off"
  /\ UNCHANGED <<ctxDone, expired, sampler, field, listener, watcher, httpVars, socks, asked>>

\* Mutant: NewManager creates the HTTP proxy without looking for its address.
StartWeb_Unasked ==
  /\ Step("web", "socks")
  /\ http' = [http EXCEPT !["web"] = "set"]
  /\ UNCHANGED <<ctxDone, expired, statsVars, acceptVars, requests, socks, asked>>

\* HTTPServer.Start: its http.Server exists since NewHTTPServer.
StartWeb ==
  /\ Step("web", "socks")
  /\ http' = [http EXCEPT !["web"] = IF cfg.http THEN "set" ELSE "off"]
  /\ UNCHANGED <<ctxDone, expired, statsVars, acceptVars, requests, socks, asked>>

\* SOCKS5Server.Start listens itself and reports an error.
StartSocks ==
  /\ Step("socks", "api")
  /\ socks' = IF cfg.socks THEN "serving" ELSE "off"
  /\ UNCHANGED <<ctxDone, expired, statsVars, acceptVars, httpVars, asked>>

StartSocksFails ==
  /\ cfg.socks /\ Step("socks", "error")
  /\ UNCHANGED <<ctxDone, expired, statsVars, acceptVars, httpVars, socks, asked>>

\* The API server is started on a goroutine of its own.
StartApi ==
  /\ Step("api", "wait")
  /\ http' = [http EXCEPT !["api"] = IF cfg.api THEN "started" ELSE "off"]
  /\ UNCHANGED <<ctxDone, expired, statsVars, acceptVars, requests, socks, asked>>

-----------------------------------------------------------------------------
(* UnifiedProxy.Start.                                                      *)

AcceptStep(from, to) ==
  /\ accept = from /\ accept' = to
  /\ UNCHANGED <<mainVars, statsVars, httpVars, socks, asked>>

Listen ==
  /\ AcceptStep("listen", "assign")
  /\ listener' = "open"
  /\ UNCHANGED <<field, watcher>>

\* The error is logged by the goroutine of Manager.Start.
ListenFails ==
  /\ AcceptStep("listen", "ended")
  /\ UNCHANGED <<field, listener, watcher>>

Assign ==
  /\ AcceptStep("assign", "watch")
  /\ field' = TRUE
  /\ UNCHANGED <<listener, watcher>>

\* Mutant: closing the listener is left to Shutdown.
StartWatcher_None ==
  /\ AcceptStep("watch", "loop")
  /\ UNCHANGED <<field, listener, watcher>>

StartWatcher ==
  /\ AcceptStep("watch", "loop")
  /\ watcher' = "waiting"
  /\ UNCHANGED <<field, listener>>

WatcherCloses ==
  /\ watcher = "waiting" /\ ctxDone
  /\ watcher' = "ended" /\ listener' = "closed"
  /\ UNCHANGED <<mainVars, statsVars, accept, field, httpVars, socks, asked>>

\* Accept fails.  The loop ends when ctx is done; else it goes round.
AcceptFails ==
  /\ listener = "closed" /\ ctxDone
  /\ AcceptStep("loop", "ended")
  /\ UNCHANGED <<field, listener, watcher>>

-----------------------------------------------------------------------------
(* The HTTP servers.                                                        *)

\* mgmt.Server.Start creates its http.Server; it can be shut down from now on.
CreateServer ==
  /\ http["api"] = "started"
  /\ http' = [http EXCEPT !["api"] = "set"]
  /\ UNCHANGED <<mainVars, statsVars, acceptVars, requests, socks, asked>>

\* ListenAndServe, on a server that has not been shut down.
ListenAndServe(s) ==
  /\ http[s] = "set"
  /\ \E r \in {"serving", "failed"} : http' = [http EXCEPT ![s] = r]
  /\ UNCHANGED <<mainVars, statsVars, acceptVars, requests, socks, asked>>

Request(s) ==
  /\ http[s] = "serving" /\ requests[s] < MaxRequests
  /\ requests' = [requests EXCEPT ![s] = @ + 1]
  /\ UNCHANGED <<mainVars, statsVars, acceptVars, http, socks, asked>>

Respond(s) ==
  /\ requests[s] > 0
  /\ requests' = [requests EXCEPT ![s] = @ - 1]
  /\ UNCHANGED <<mainVars, statsVars, acceptVars, http, socks, asked>>

\* POST /stop: 200, and a goroutine that sleeps and logs.
HandleStop ==
  /\ requests["api"] > 0 /\ ~asked
  /\ asked' = TRUE
  /\ requests' = [requests EXCEPT !["api"] = @ - 1]
  /\ UNCHANGED <<mainVars, statsVars, acceptVars, http, socks>>

\* Mutant: Shutdown does not wait for the requests.
Drained_Always(s) == TRUE

\* Mutant: Shutdown is given a context without a deadline.
Drained_NoDeadline(s) == requests[s] = 0

\* http.Server.Shutdown returns: nothing is being handled, or ctx is done.
Drained(s) == requests[s] = 0 \/ expired

-----------------------------------------------------------------------------
(* The signal, and the shutdown.                                            *)

Signal ==
  /\ Step("wait", "signalled")
  /\ UNCHANGED <<ctxDone, expired, statsVars, acceptVars, httpVars, socks, asked>>

Expire ==
  /\ main \notin {"start", "web", "socks", "api", "wait", "error", "exit"} /\ ~expired
  /\ expired' = TRUE
  /\ UNCHANGED <<cfg, main, ctxDone, missed, statsVars, acceptVars, httpVars, socks, asked>>

\* http.Server.Shutdown: no request is taken any more.
CloseServer(s) == http' = [http EXCEPT ![s] = "closed"] /\ UNCHANGED requests

\* mgmt.Server.Shutdown.  Without an http.Server it is done.  It reads the
\* field without synchronisation: it misses a server that is not there yet, and
\* may miss one that was just set.
ShutdownApi ==
  /\ main = "signalled"
  /\ \/ http["api"] = "off" /\ main' = "cancel" /\ UNCHANGED <<missed, httpVars>>
     \/ /\ http["api"] \in {"started", "set"}
        /\ main' = "cancel" /\ missed' = TRUE /\ UNCHANGED httpVars
     \/ /\ http["api"] \notin {"off", "started"}
        /\ main' = "drainApi" /\ CloseServer("api") /\ UNCHANGED missed
  /\ UNCHANGED <<cfg, ctxDone, expired, statsVars, acceptVars, socks, asked>>

ApiDrained ==
  /\ Drained("api") /\ Step("drainApi", "cancel")
  /\ UNCHANGED <<ctxDone, expired, statsVars, acceptVars, httpVars, socks, asked>>

\* Mutant: Shutdown does not cancel the context.
Cancel_Forgotten ==
  /\ Step("cancel", "stats")
  /\ UNCHANGED <<ctxDone, expired, statsVars, acceptVars, httpVars, socks, asked>>

Cancel ==
  /\ Step("cancel", "stats")
  /\ ctxDone' = TRUE
  /\ UNCHANGED <<expired, statsVars, acceptVars, httpVars, socks, asked>>

Told(g) == IF g = "running" THEN "told" ELSE g

\* Reporter.Stop and Collector.Stop.
StopStats ==
  /\ Step("stats", "proxy")
  /\ reporter' = Told(reporter) /\ sampler' = Told(sampler)
  /\ UNCHANGED <<ctxDone, expired, acceptVars, httpVars, socks, asked>>

ReporterEnds ==
  /\ reporter = "told" /\ reporter' = "ended"
  /\ UNCHANGED <<mainVars, sampler, acceptVars, httpVars, socks, asked>>

SamplerEnds ==
  /\ sampler = "told" /\ sampler' = "ended"
  /\ UNCHANGED <<mainVars, reporter, acceptVars, httpVars, socks, asked>>

\* UnifiedProxy.Shutdown reads the field without synchronisation: it may miss
\* a listener that has been assigned.
StopUnified ==
  /\ cfg.unified /\ Step("proxy", "exit")
  /\ \/ field /\ listener' = "closed"
     \/ UNCHANGED listener
  /\ UNCHANGED <<ctxDone, expired, statsVars, accept, field, watcher, httpVars, socks, asked>>

\* Mutant: Manager.Shutdown forgets the HTTP proxy.
StopWeb_Forgotten ==
  /\ ~cfg.unified /\ Step("proxy", "stopSocks")
  /\ UNCHANGED <<ctxDone, expired, statsVars, acceptVars, httpVars, socks, asked>>

\* HTTPServer.Stop.
StopWeb ==
  /\ ~cfg.unified
  /\ IF http["web"] = "off" THEN Step("proxy", "stopSocks") /\ UNCHANGED httpVars
                            ELSE Step("proxy", "drainWeb") /\ CloseServer("web")
  /\ UNCHANGED <<ctxDone, expired, statsVars, acceptVars, socks, asked>>

WebDrained ==
  /\ Drained("web") /\ Step("drainWeb", "stopSocks")
  /\ UNCHANGED <<ctxDone, expired, statsVars, acceptVars, httpVars, socks, asked>>

StopSocks ==
  /\ Step("stopSocks", "exit")
  /\ socks' = IF socks = "off" THEN "off" ELSE "closed"
  /\ UNCHANGED <<ctxDone, expired, statsVars, acceptVars, httpVars, asked>>

-----------------------------------------------------------------------------
Main == \/ StartManager \/ StartWeb \/ StartSocks \/ StartSocksFails \/ StartApi
        \/ ShutdownApi \/ ApiDrained \/ Cancel \/ StopStats
        \/ StopUnified \/ StopWeb \/ WebDrained \/ StopSocks

Goroutines == \/ ReporterEnds \/ SamplerEnds \/ WatcherCloses
              \/ Listen \/ ListenFails \/ Assign \/ StartWatcher \/ AcceptFails
              \/ CreateServer \/ \E s \in Servers : ListenAndServe(s)

World == \/ Signal \/ Expire \/ HandleStop
         \/ \E s \in Servers : Request(s) \/ Respond(s)

\* A process whose start has failed is gone.
Next == main /= "error" /\ (Main \/ Goroutines \/ World)

Spec == Init /\ [][Next]_vars

\* Every goroutine is scheduled and time passes.  Requests may take for ever,
\* and nobody has to send a signal.
Fairness ==
  /\ WF_vars(Main) /\ WF_vars(Expire)
  /\ WF_vars(ReporterEnds) /\ WF_vars(SamplerEnds) /\ WF_vars(WatcherCloses)
  /\ WF_vars(Listen \/ ListenFails \/ Assign \/ StartWatcher \/ AcceptFails)
  /\ WF_vars(CreateServer) /\ \A s \in Servers : WF_vars(ListenAndServe(s))

FairSpec == Spec /\ Fairness

-----------------------------------------------------------------------------
(* Properties.                                                              *)

\* The accept loop finds its listener closed only when ctx is done.  It would
\* spin otherwise: an Accept on a closed listener fails at once, and an error
\* without a cancelled ctx sends the loop round.
NoSpin == accept = "loop" /\ listener = "closed" => ctxDone

Stopping == main \in {"cancel", "stats", "proxy", "drainWeb", "stopSocks", "exit"}

\* While Manager.Shutdown runs, and when it has returned, the API handles no
\* request (a reload, a report of the statistics): the API server is shut down
\* first and its handlers are waited for.  There are two ways round this: a
\* handler outlives the deadline, or Shutdown came before the goroutine of the
\* API had created its server, missed it, and it serves on.
ApiQuiet == Stopping /\ ~expired /\ ~missed => requests["api"] = 0

\* A signal ends the program, whatever requests are being handled.
ShutdownEnds == main = "signalled" ~> main = "exit"

Gone(s) == http[s] \in {"off", "failed", "closed"}

Ended == /\ reporter \in {"off", "ended"} /\ sampler \in {"off", "ended"}
         /\ accept \in {"off", "ended"} /\ watcher \in {"off", "ended"}
         /\ listener /= "open" /\ socks /= "serving"
         /\ Gone("web") /\ (Gone("api") \/ missed)

\* Shutdown ends every goroutine, listener and server that Start and runStart
\* began, even a unified proxy that had not come to listening when Shutdown
\* looked for its listener; nothing comes back afterwards.  The exception is an
\* API server that Shutdown missed: nothing ends that one.  Handlers that
\* outlive the deadline are not waited for.
EverythingEnds == main = "signalled" ~> [](Ended)
=============================================================================
