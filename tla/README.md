# A verification project for light-ss

light-ss is a Shadowsocks client. It listens for HTTP, CONNECT and SOCKS5
clients, on one port ("unified") or on a port per protocol, sends every
connection through a Shadowsocks server (optionally behind simple-obfs), counts
what passes, and has a management API that can replace the server while the
proxy runs.

This directory models it in TLA+, checks the models with TLC on small
instances, and proves with TLAPS, for every instance, the safety properties of
the hot reload, of a connection's byte streams, of the counters and the speed
window, of the configuration, and of the order in which things are shut down.
`PROJECT.json` maps each definition to the source lines it stands for.

To check a module: `tlc -config Tunnel.cfg MCTunnel` (the table of modules says
which one a `.cfg` belongs to). To check a proof: `tlapm HotReloadProofs.tla`.

## The system

| component | state | operations | meets |
|---|---|---|---|
| hot reload: `server/manager.go`, `/reload` and `/config` in `mgmt/handlers.go` | `ssClient`, `oldClients`, `config.Shadowsocks`, the RWMutex `ssClientMu` | `ReloadConfig`, `GetSSClient`, `GetConfig` | called by the API's handlers and by every dial |
| unified proxy: `proxy/unified.go` | per connection: a buffered reader, two copying goroutines, `errCh`, the response writer | `handleConnection`, `handleHTTP`, `handleConnect` | dials through the manager's client; hands other requests to goproxy, SOCKS5 to go-socks5 |
| separate proxies: `proxy/http.go`, `proxy/socks5.go` | the client given to the constructor; a listener | `Start`, `Stop` | goproxy, go-socks5 |
| counters: `stats/collector.go` | atomic counters; `closed` per tracked connection | `RecordConnection`, `TrackedConn.Read/Write/Close`, `GetStats` | wraps every dialled connection |
| speed: `stats/collector.go` | a window of samples behind an RWMutex; a ticker | `sampleSpeed`, `AddSample`, `GetCurrentSpeed`, `Stop` | reads the counters once a second |
| reporter: `stats/reporter.go` | a goroutine and its cancel function | `Start`, `Stop` | logs the counters |
| dial: `shadowsocks/client.go`, `plugin/*.go` | per connection: first write, first read, buffered answer | `DialContext`, `WrapConn`, `Read`, `Write` | between the cipher of go-shadowsocks2 and the socket |
| lifecycle: `cmd/light-ss/start.go`, `server/manager.go` | a context, listeners, the `http.Server`s | `runStart`, `Start`, `Shutdown`, `/stop` | begins and ends all goroutines |
| configuration: `config/*.go`, `applyFlags` | one `Config` | `LoadConfig`, `Validate`, `applyFlags` | everything is created from it |
| commands: `cmd/light-ss/test.go`, `convert.go`, `converter/*.go` | what one call reads, merges and writes | `runTest`, `runConvert`, `FromSSLocal`, `FromClash` | `test` and `start` read the same file; `start` reads what `convert` wrote |
| management API: `mgmt/server.go`, `handlers.go`, `middleware.go` | the `http.Server` | `Start`, `Shutdown`, the handlers | the manager, the counters, the speed test |
| speed test: `mgmt/speedtest.go` | none that outlives a call | `Run` | a client it was given at the start |
| logging, command line | none | | |

What is hard here:

- Concurrency. Counters are loaded and added to one by one; several goroutines
  close one connection; `http.Transport` hands a dial to another request than
  the one that asked for it. Reloads overlap; a connection holds a client that was replaced
  after it asked for it; `GET /config` reads a struct without its lock while a
  reload writes it; two goroutines copy in opposite directions and a third
  closes both sockets when the first is done; `Shutdown` looks for a listener
  that another goroutine is just creating.
- Failure. A client that cannot be built, a dial that fails after the socket is
  open, a write that fails half way, a plugin that cannot wrap.
- Ordering and boundaries. Bytes that arrive with the request; salt and target
  before payload; a head split over several reads; a write larger than a TLS
  record; samples at the edge of the window; four sources for each setting,
  validated twice with an override in between, or converted from another
  program's file first; numbers that are zero because they are missing.
- Timeouts. Requests that outlive the 30 seconds of the shutdown.

`PROJECT.json` lists each such hazard at its line, with the properties that
would catch it, or why there is none.

## Modules

| module | models | checked by |
|---|---|---|
| `ReloadRegister` | what a reload promises: a history of installed clients, connections that bind to the current one | refined by `HotReload` |
| `HotReload` | `ReloadConfig`, `GetSSClient`, `GetConfig`, the handlers, the dialling goroutines | `reload_safety`, `reload_live`, `reload_torn` (`MCHotReload`) |
| `HotReloadProofs` | the inductive invariant of `HotReload`, five properties, and that it implements `ReloadRegister` | TLAPS |
| `Tunnel` | a connection of the unified proxy and the counters | `tunnel`, `tunnel_leak` (`MCTunnel`) |
| `ByteStreams` | what a tunnel promises: two byte streams, and when each may end | refined by `Tunnel` |
| `TunnelProofs` | `TypeOK`, `UpIntact`, `DownIntact`, `AnswerComplete`, and that `Tunnel` implements `ByteStreams` | TLAPS |
| `Pool` | plain HTTP requests, the connections `http.Transport` keeps, reloads | `pool` (`MCPool`) |
| `PoolProofs` | the two properties of `Pool` | TLAPS |
| `Dial` | `DialContext` and the simple-obfs wrappers | `dial` (`MCDial`) |
| `DialProofs` | the five safety properties of `Dial` | TLAPS |
| `Counters` | `TrackedConn` and `Collector`, one atomic operation at a time; `GetStats` | `counters` (`MCCounters`) |
| `CountersProofs` | the three properties of `Counters` | TLAPS |
| `Lifecycle` | start and stop | `lifecycle` |
| `LifecycleProofs` | `TypeOK`, `NoSpin`, `ApiQuiet` | TLAPS |
| `Config` | file, environment, flags, `Validate` | through `Commands` (`MCConfig` has the inputs) |
| `Commands` | `convert` and `test` around `start`; extends `Config` | `config`, `convert_listen` (`MCCommands`) |
| `CommandsProofs` | `TypeOK` and the four properties of `Config`, the same for converted files, `ConvertedKept`, `TestAgrees`, types | TLAPS |
| `Speed` | the sampler and the window | `speed` |
| `SpeedProofs` | `TypeOK`, `WindowKept`, `IdleIsZero`, a speed that is not negative | TLAPS |

Names of actions are those of the Go functions, or of what a part of one does.
`pc`, `stage`, `main`, `accept`, `rd` say where a goroutine is in its function.

**HotReload.** A client is the number of the `NewClient` call that built it.
The two halves of `RWMutex.Lock` (exclude other writers and turn new readers
away; wait until the readers inside have left) are `Lock` and `Swap`; an
`Unlock` lets in every reader that parked. The assignment
`m.config.Shadowsocks = newConfig` is one `StoreWord` per machine word in any
order, because `handleConfig` reads them without the lock; a string is a
pointer and a length. `since` is the only history variable: how many clients
had been installed when a request began.

**Tunnel.** A payload is a sequence of pieces numbered from 1, so that a piece
lost, repeated or out of order shows in the numbers. `wire` is sent and not
read, `buf` is in the `bufio.Reader`, `held` is between the read and the write
of `io.Copy`, `out` is delivered. Closing a socket makes reads and writes on it
fail; a goroutine inside a read learns of it from there. goproxy and go-socks5
are represented by the calls they make of this code: the dial closures, the
response writer, `Close` once or more often.

**Pool.** The transport's side is external and follows net/http as the code
configures it (a zero-value `Transport`: two kept connections per target, no
idle timeout): a request takes the connection kept last, or queues for one and
starts a dial; whichever is ready first serves it, and a dial nobody waits for
any more is kept. The closure of `NewUnifiedProxy`, the reload and `handleHTTP`
are this code's part. A connection is known by the client it was dialled with,
a request by what was current when it arrived (`arrival`, the history variable).

**Counters.** Each `atomic.AddInt64` and each `atomic.LoadInt64` is a step of
its own, as is each statement of `TrackedConn.Close` under its mutex. `stats`
are the counters, `at` the next load of a snapshot, `snap` what it has loaded;
`low` (history) is what the counters were when it was asked for. `Tunnel` has
the coarser view: which operations a connection performs, each in one step.

**Dial.** What the cipher writes is numbered too: 1 is the salt and 2 the
target address. `frames` keeps what each `Write` of the socket put on the wire.
The answer of the server is its head, in units of the beginning of the status
line, text, the end of a line and an empty line, followed by data; it arrives
unit by unit. `ConnWrite` is one write of the socket: the loop of
`obfsTLSConn.Write` is several.

**Lifecycle.** `main` is `runStart`; each other goroutine has a variable. The
two fields that are read without synchronisation, `UnifiedProxy.listener` and
`mgmt.Server.httpServer`, may be missed by `Shutdown` even when they are set.
A listener that is missed is closed by its watcher; an API server that is
missed is closed by nobody. `missed` (history) says that this has happened.

**Config.** A value is represented by the source it comes from, a source by the
set of keys it gives. One action per step of `LoadConfig` and `runStart`.

**Commands.** A foreign file is the set of keys it gives, its plugin and its
options. `Convert` translates it, and the file that results is what `Config`
reads: whether a value survives is whether its source is still `"file"` at the
end. `TestFlags` and the actions after it are `runTest`, which loads the same
input and merges its flags by rules of its own.

**Speed.** Discrete time, with a sampler that can be late by `Delay` and a
ticker that drops a tick when its channel is full.

## What makes each part correct

- Hot reload: a reload that is answered 200 installed exactly one client and
  any other answer none (`RefinesRegister`); overlapping reloads lose no client
  (`NoLostClient`) and leave the configuration of the client they leave
  (`ClientMatchesConfig`); nobody who arrives after a reload sees what it
  replaced (`FreshDial`, `NoStaleField`); everybody is answered
  (`ReloadAnswered`, `SharersServed`).
- A connection: both byte streams arrive in order and complete, behind exactly
  one head (`UpIntact`, `DownIntact`, `AnswerComplete`); a stream of a tunnel ends
  with everything delivered, unless the other one has ended or lost its source
  (`RefinesStreams`); nothing is left when it ends (`TunnelReleased`).
- Kept connections: a request that arrives after a reload reaches the replaced
  server only over a connection that was dialled before it arrived
  (`StaleOnlyByReuse`).
- Counters: they agree with what happened to the connections, however the steps
  of several goroutines interleave (`Accounting`), and a snapshot, whose loads
  are not one step, shows no counter outside the values it had meanwhile and no
  more active connections than were ever opened (`SnapshotWithin`).
- Dial: failures leave no socket (`SocketReleased`); the obfuscation is
  removed or added exactly (`UpstreamIntact`, `WellFramed`, `ReplyIntact`), and
  what the server has sent is delivered (`ReplyDelivered`). Two exceptions are
  the code's: the panic of an unsupported mode leaves its socket, and behind
  obfs=http an answer of less than 12 bytes without a head is held back as long
  as the server neither goes on nor closes (`HeldBack`). The cipher, which waits
  for a salt of at least 16 bytes, has no use for so short an answer.
- Start and stop: a shutdown ends (`ShutdownEnds`), ends every goroutine,
  listener and HTTP server (`EverythingEnds`), in an order in which nothing spins
  (`NoSpin`) or works on a manager that is being shut down (`ApiQuiet`). An API
  server that `Shutdown` missed is excepted from both, and from `ApiQuiet` a
  handler that outlives the deadline.
- Configuration: complete and validated twice without harm (`Complete`), by
  priority (`Prioritised`), with the listeners that were asked
  for (`ModeChosen`). A SOCKS5 listener asks for the flag's credentials at the
  flag's address, and for those of the file's address at any other, one of the
  environment included (`AuthOfListener`).
- Commands: what a foreign file says of server and password is there at every
  stage after the parsing, and its port, cipher, timeout and plugin when `start`
  starts, unless something overrides them (`ConvertedKept`); `test` uses the
  server, password and cipher `start` would use, and its address, to which it
  may append a separate port once more (`TestAgrees`).
- Speed: over exactly the window (`WindowKept`), zero when nothing happens
  (`IdleIsZero`).

## Runs

- `reload_safety`: two reload handlers with four configurations (with and
  without plugin options, one refused by the handler, one `NewClient` refuses),
  one connection, one `GET /config`, at most three clients. Two reloads are
  what it takes to overlap; three clients let a third be installed over a
  second while someone still uses the first. One string field stands for
  three: they are stored and loaded alike. 560 thousand states.
- `reload_live`: the same with fairness, a connection and a reader that keep
  coming, and a dialer with a captured client. Every reload is answered, every
  reader is served, and the register is implemented.
- `reload_torn`: counterexample, see "Findings".
- `tunnel`: a CONNECT tunnel with two pieces each way beside a connection of
  another kind. Two pieces let one be in the buffer with the request and one
  arrive later, and let one be delivered while the other is held. The other
  connection is there for the counters they share. 300 thousand states. What it
  shows of the streams is proved for any payload.
- `tunnel_leak`: counterexample.
- `pool`: three requests for one target, four connections, two reloads, two
  kept connections. It takes two requests for a dial to go to another request
  than the one that asked, and a third that arrives between two reloads; four
  connections let the pool be full while another is closed. The transport keeps
  targets apart, so one is enough. 1.3 million states up to symmetry.
- `counters`: two connections of any protocol, each closed twice by two
  goroutines, one transfer and one snapshot. One snapshot is enough because
  snapshots write nothing; a second connection lets `active` go up and down
  between two of its loads.
- `dial`: one connection under each plugin setting, with six units upwards in
  writes of up to three and records of at most two (one record, an exact
  multiple, one more), three data units downwards after the five units of the
  head, and a peek of two units. Connections share nothing but the client's
  settings, which do not change. 52 thousand states.
- `lifecycle`: each of the 28 combinations of what is enabled, two requests at a time
  on each server, a signal at any time after the start. 20 thousand states.
- `config`: every subset of every source within a group of keys (server; cipher
  and the like; listeners), and every foreign file in both formats with what
  may override it; `test` reads the same input beside `start`. Keys of
  different groups do not meet in the code.
- `convert_listen`: counterexample.
- `speed`: a window of three periods, delays of up to half a period, and time
  for more than two windows, traffic and `Stop` at any moment. 860 thousand
  states.

Deadlock is checked in the hot reload, where handlers and connections keep
coming. The other models end: a connection is closed, the program has exited,
the start is refused, the requests have been served, the commands are done, or
the clock has reached its bound.

Each property has a mutant, `Complete`, `ConvertedKept` and `EverythingEnds` two: the definition named `..._Something` beside the one
it replaces, a plausible mistake in that code that the run then finds.

## Findings

Runs that must find a violation state what a comment or the README says:

- `reload_torn`: `GET /config` can answer with a mixture of two configurations,
  or panic on plugin options that disappear after the nil check.
- `tunnel_leak`: `active_connections` never goes down for a CONNECT tunnel.
- `convert_listen`: a converted ss-local file without a local address makes the
  proxy listen on every interface, at a port of the system's choice.

Further disagreements need no run; `PROJECT.json` quotes the lines and names the
definition that shows each:

- with a port per protocol, and in the speed test, a reload changes nothing: the
  old client was captured;
- an unsupported obfs mode is not an error of the dial but a panic; on a
  goroutine of `http.Transport` it ends the process;
- `-m` and `-p` lose against the file;
- `POST /stop` stops nothing;
- answers behind obfs=tls are not unwrapped;
- a signal that comes before the goroutine of the API has stored its
  `http.Server` leaves an API server that comes up and serves beside the
  shutdown of the manager;
- `test -c` refuses a file without `method`, and adds its port to an address
  that has one;
- "All servers started" may be followed by a listener that fails.

## Fairness

- HotReload: a goroutine inside a handler is scheduled (weak fairness). A writer
  that waits for the mutex gets it even if others take it in between (strong
  fairness): Go's mutex hands over to a waiter after a millisecond. Nothing is
  assumed of arrivals, dials or closes.
- Tunnel: the handler and both copying goroutines are scheduled, dials end (they
  have a timeout), a peer reads or closes so that a write ends. A peer need not
  send or close; `TunnelReleased` begins when one has closed.
- Dial: whoever reads keeps reading while the connection is open (`io.Copy`).
  The server owes nothing.
- Lifecycle: every goroutine is scheduled and the 30 seconds pass. A request
  may take for ever and nobody has to send a signal.

## Proofs

`HotReloadProofs` proves `TypeOK`, `ClientMatchesConfig`, `NoLostClient`,
`FreshDial` and `NoStaleField` as theorems of `Spec`, for any sets of handlers,
connections, configurations and words. The assumptions are those of the
module: the initial configuration is one `NewClient` accepts, the kinds of
goroutine are disjoint, and the fields `handleConfig` reads are words of the
struct.

None of the properties is inductive. `FreshDial` alone does not exclude a
connection that reads `ssClient` in the middle of a swap; `ClientMatchesConfig`
does not say what the words are during a store. The inductive invariant `IInv`
adds

- `LockInv`: `readers` are exactly the goroutines inside an RLock section, at
  most one reload is past `Lock`, and while it stores nobody is inside;
- `FreshInv`: a reload past `NewClient` holds a client that was built;
- `StoreInv`: during a store the client is already swapped, a word not yet
  stored is that of the client before, and any other that of the new one;
- `SinceInv`: requests began in the past, and a reader that is loading during a
  store began before it: it had to take the lock first. `NoStaleField` rests on
  this;
- `SeenInv`: a reader has done at most the loads of `handleConfig`.

There is one lemma per conjunct, each with one step per action that can
disturb it, and joins them in `IInvariant`.

The module's second part proves `Spec => RefinesRegister`. A reload takes effect
at `Swap`, a connection binds at `GetSSClient`, the history is `oldClients`
followed by `ssClient`; every other step is a stutter of the register or the
start or end of a request.

`LifecycleProofs` proves `TypeOK`, `NoSpin` and `ApiQuiet` for any number of
requests. `TypeOK` includes that nothing runs that was not configured, which
needs that the separate proxies are started in their own mode only (`ModeInv`). `NoSpin` follows from a stronger fact: the listener is closed only
when the context is done, because the watcher waits for it and `Shutdown`
cancels it first. `ApiQuiet` needs the states in between (`ApiInv`): the API is
started last and takes requests only while its server serves; while `Shutdown`
drains that server there may be handlers, and it leaves this state only without
any or after the deadline; from there on, no API server is up that `Shutdown`
has not missed.

`CommandsProofs` begins with `Config` alone: it proves `TypeOK`, `Complete`, `Prioritised`,
`ModeChosen` and `AuthOfListener` for any set of inputs, in which keys of all
groups may be mixed: what the runs leave out. Its invariants say what each stage
leaves to the next: `PriorityInv` is the chain of overrides so far, `ModeInv`
holds from `ApplyFlags` on and says that a proxy is left to start, so that the
second validation does not bring the default back, and `AuthInv` says whose
credentials go with an address of which source. The assumption on the inputs is the module's: each
source gives only keys it can give.

Its second part carries these over to converted files and to a start beside
`test`: a conversion is over before `start` reads the file, and what it writes
is an input `Config` may be given (`ConvertedFile`); every other step is one of
`Config` or leaves its variables alone. `ConvertedKept` and `TestAgrees` follow
from what the stages of `start` and `runTest` have merged so far.

`TunnelProofs` proves `TypeOK`, `UpIntact`, `DownIntact` and `AnswerComplete`
for any number of connections and any amount of payload. None is inductive. The
invariant of a stream (`UpFlow`, `DownFlow`) says that what is delivered, held
by the copying goroutine, buffered and on the wire are consecutive runs that
end at the last piece sent, as long as the goroutine copies; afterwards only
the delivered part is left, and it does not change. `OwnOf` ties sockets and
goroutines to the stage of the handler; `EndOf` gives the reason why a
direction ended while both sockets were open, which is what `AnswerComplete`
needs. `ActiveInv` (the counter is the number of tracked connections that have
not recorded a disconnection) is why no counter goes below zero. A connection's
invariant speaks of it alone, so one lemma (`Others`) disposes of the steps of
all the others.

The module's last part proves `Spec => RefinesStreams`. A stream is what the
client or the target of a CONNECT sends, without the head of the request and of
the answer; it is over when the goroutine that copies it has left its loop. Each
write delivers, each return of `io.Copy` ends a stream, and every step of the
handler is a stutter. It needs one more invariant, `OrderInv`: the handler
closes a socket only after one of the goroutines has stopped, so that the other
one, when it finds its socket closed, ends second; and the download starts after
the 200 line. What `ByteStreams` lets a stream lose is what the code does lose:
a client that half-closes after its request ends the upload, and the download
may be cut.

`CountersProofs` proves `TypeOK`, `Accounting` and `SnapshotWithin` for any
finite sets of connections and transfers and any number of closers and
snapshots. `Ordered` and `Guarded` say how far `RecordConnection` is and what
the mutex of `Close` excludes, `Count` makes every counter the cardinality of
the set of those who have added to it, and `Since` says that counters but
`active` only grow while a snapshot is taken.

`DialProofs` proves `TypeOK`, `SocketReleased`, `UpstreamIntact`, `WellFramed`
and `ReplyIntact` for any number of connections, sizes and plugin settings. The
properties of the stream to the server speak of `FlattenSeq`, a recursive
function of the community modules; `FlattenIs` shows that a function that
satisfies its equation is the one, by the least index at which two would differ,
and `Holds(fs, m)` (each frame carries the units from the end of the one before
to its own) is what the steps preserve. `WriteInv` ties what was framed, what is
still to be written and what `Write` has reported; `ReadInv` says of a reader
that it has seen nothing but the head, is looking for its end, or is in the
data, and how much of the packets it has taken; the invariant that `Read`
returns the data in order needs all three. The steps of the other connections
are disposed of by `WriteOthers` and `ReadOthers`.

`PoolProofs` proves `TypeOK` and `StaleOnlyByReuse` for any number of requests,
connections and reloads and any limit of the pool. `StaleOnlyByReuse` only
speaks of requests that have been sent. The invariant adds who waits for which
dial (`Dials`: one request at most, and only while it waits, which a connection
handed over in between ends) and how old everything is (`Ages`: a connection
older than a request was dialled when that arrived; one that was dialled for it,
or is in its first use, is not older). It rests on `RemoveFirst` removing what it
is given from a list without repetitions (`RemoveFirstFacts`).

`SpeedProofs` proves `TypeOK`, `WindowKept` and `IdleIsZero` for any period,
window and delay. The code looks for the first sample inside the window and
drops those before it, which is pruning by age because samples are in order of
time (`InOrder`). For `IdleIsZero`, `Punctual` bounds how far the newest sample
lags behind the clock in each state of the sampler, by the remainder of the
clock as long as no tick has come, and `Settled` says that a sample taken later
than one delay after the last byte counts it: a window, a period and three delays
later all samples do.

Every invariant and every safety property the runs check is also a theorem.
Only model-checked: liveness (`ReloadAnswered`, `SharersServed`,
`TunnelReleased`, `ReplyDelivered`, `ShutdownEnds`, `EverythingEnds`), which is
out of the prover's reach here.

## Not modelled

- The ciphers, goproxy, go-socks5 and net/http, but for the calls they make and
  the answers this code depends on.
- What the reporter, the API and `test` format and print.
- `/version` and the token check, which keep no state; the measurement of the
  speed test, one download through an external server by the wall clock.
- The parts of the configuration no other part depends on (name, logging,
  reporting interval, address of the API), and which of several Clash proxies a
  conversion takes.
- Characters: `parseAuth`, cipher names, the mapping of JSON and YAML.
- Logging and the wiring of the command line.

## Plan

Done: the core (`HotReload` with its proofs and refinement), then `Tunnel`,
`Dial`, `Lifecycle`, `Config` and `Speed`, in the order of what would hurt most;
then `Counters`, `Pool` and `Commands`, for the hazards the first modules left
open; and the proofs, module by module.

What is left:

1. an abstract stream for `Dial`, which `UpstreamIntact` and `ReplyIntact` are
   parts of;
2. the speed test: its two connections, the deadline of the read loop and the
   timeout of the client behind it;
3. `parseAuth` as a pure operator with a reference definition.

No module declares a RECURSIVE operator, and the bounds are constants or guards,
so that the proofs can be written for the modules as they are.
