--------------------------------- MODULE Dial ---------------------------------
(***************************************************************************)
(* A connection through the Shadowsocks server: Client.DialContext          *)
(* (internal/shadowsocks/client.go), the plugin NewPlugin chooses           *)
(* (internal/plugin/plugin.go) and the wrappers simple-obfs puts between    *)
(* the cipher and the socket (internal/plugin/simpleobfs.go).               *)
(*                                                                          *)
(* What the cipher writes is the sequence 1, 2, 3, ...: 1 is the salt, 2    *)
(* the target address, the rest payload.  The data a server answers with is *)
(* 1, 2, ... too; the units of its obfuscation are negative.                *)
(***************************************************************************)
EXTENDS Integers, Sequences, FiniteSets, SequencesExt

CONSTANTS
  Dials,        \* calls of DialContext
  PluginCfgs,   \* plugin settings the clients are created from
  MaxRecord,    \* maxRecordSize, in units
  PeekLen,      \* what Read peeks at, in units
  MaxChunk,     \* bound: units the cipher writes at once
  MaxUp,        \* bound: units written on a connection
  MaxDown       \* bound: data units a server answers

AllCfgs == [plugin : {"", "simple-obfs", "unknown"}, opts : BOOLEAN,
            obfs : {"", "http", "tls", "quic"}]
Modes   == {"none", "http", "tls", "unsupported"}
Callers == {"handler", "transport"}   \* handleConnection, or a goroutine of http.Transport

ASSUME CfgAssumption    == PluginCfgs \subseteq AllCfgs
ASSUME SizeAssumption   == MaxRecord \in Nat \ {0} /\ PeekLen \in Nat \ {0}
ASSUME LengthAssumption == MaxChunk \in Nat /\ MaxUp \in Nat /\ MaxDown \in Nat

VARIABLES
  mode,        \* SimpleObfs.mode of the client, "none" without a plugin
  caller,      \* the goroutine DialContext runs on
  pc,          \* where the dial, or its caller, is
  sock,        \* the socket to the server: "none", "open" or "closed"
  firstWrite,  \* obfsHTTPConn.firstWrite
  job,         \* what is left of the Write that is running
  plain,       \* units given to Write so far
  frames,      \* what each Write of the socket has put on the wire
  firstRead,   \* obfsHTTPConn.firstRead
  rd,          \* where the Read that is running is
  got,         \* delivered to the cipher
  head,        \* units of its head the server has sent
  wire,        \* from the server: sent and not read
  replied,     \* data units the server has sent
  eof,         \* the server has closed
  alive        \* the process runs

clientVars == <<mode, caller>>
writeVars  == <<firstWrite, job, plain, frames>>
readVars   == <<firstRead, rd, got>>
peerVars   == <<head, wire, replied, eof>>
vars == <<clientVars, pc, sock, writeVars, readVars, peerVars, alive>>

\* What an answer is obfuscated with.
Status == -1    \* the "HTTP" a status line begins with
Text   == -2    \* a part of a header line
EOL    == -3    \* the end of such a line
Blank  == -4    \* an empty line
Record == -5    \* a TLS record header

\* The head of a simple-obfs server.
ReplyHead == <<Status, EOL, Text, EOL, Blank>>

\* Mutant: the mode has no default.
NewSimpleObfs_NoDefault(cfg) == cfg.obfs

\* NewSimpleObfs: HTTP by default.  The mode is not validated.
NewSimpleObfs(cfg) ==
  CASE cfg.obfs = ""                -> "http"
    [] cfg.obfs \in {"http", "tls"} -> cfg.obfs
    [] OTHER                        -> "unsupported"

\* NewPlugin: an unknown plugin is no plugin.
NewPlugin(cfg) == IF cfg.plugin = "simple-obfs" THEN NewSimpleObfs(cfg) ELSE "none"

\* The settings NewClient accepts: simple-obfs needs options.
Accepted == {cfg \in PluginCfgs : cfg.plugin = "simple-obfs" => cfg.opts}

Frame == [tag : {"raw", "get", "record"}, len : Nat, body : Seq(Nat)]

TypeOK ==
  /\ mode \in [Dials -> Modes] /\ caller \in [Dials -> Callers]
  /\ pc \in [Dials -> {"idle", "connect", "wrap", "salt", "target", "open", "broken",
                       "closed", "failed", "panicked"}]
  /\ sock \in [Dials -> {"none", "open", "closed"}]
  /\ firstWrite \in [Dials -> BOOLEAN] /\ firstRead \in [Dials -> BOOLEAN]
  /\ job \in [Dials -> Seq(Nat)] /\ plain \in [Dials -> Nat]
  /\ frames \in [Dials -> Seq(Frame)]
  /\ rd \in [Dials -> {"idle", "peek", "skip", "read", "eof"}]
  /\ got \in [Dials -> Seq(Int)] /\ wire \in [Dials -> Seq(Int)]
  /\ head \in [Dials -> 0..Len(ReplyHead)]
  /\ replied \in [Dials -> 0..MaxDown] /\ eof \in [Dials -> BOOLEAN]
  /\ alive \in BOOLEAN

Init ==
  /\ mode \in [Dials -> {NewPlugin(cfg) : cfg \in Accepted}]
  /\ caller \in [Dials -> Callers]
  /\ pc = [d \in Dials |-> "idle"] /\ sock = [d \in Dials |-> "none"]
  /\ firstWrite = [d \in Dials |-> TRUE] /\ firstRead = [d \in Dials |-> TRUE]
  /\ job = [d \in Dials |-> <<>>] /\ plain = [d \in Dials |-> 0]
  /\ frames = [d \in Dials |-> <<>>]
  /\ rd = [d \in Dials |-> "idle"] /\ got = [d \in Dials |-> <<>>]
  /\ head = [d \in Dials |-> 0] /\ wire = [d \in Dials |-> <<>>]
  /\ replied = [d \in Dials |-> 0] /\ eof = [d \in Dials |-> FALSE]
  /\ alive = TRUE

Goto(d, s) == pc' = [pc EXCEPT ![d] = s]

\* A caller of Write gives it the next n units.
Write(d, n) ==
  /\ job' = [job EXCEPT ![d] = [i \in 1..n |-> plain[d] + i]]
  /\ plain' = [plain EXCEPT ![d] = @ + n]

-----------------------------------------------------------------------------
(* DialContext.                                                             *)

\* socks.ParseAddr.
Parse(d) ==
  /\ pc[d] = "idle"
  /\ Goto(d, "connect")
  /\ UNCHANGED <<clientVars, sock, writeVars, readVars, peerVars, alive>>

\* An address that does not parse, or a dialer that gives up: refused,
\* unreachable, or after c.timeout.
ConnectFails(d) ==
  /\ pc[d] \in {"idle", "connect"}
  /\ Goto(d, "failed")
  /\ UNCHANGED <<clientVars, sock, writeVars, readVars, peerVars, alive>>

Connect(d) ==
  /\ pc[d] = "connect"
  /\ Goto(d, "wrap")
  /\ sock' = [sock EXCEPT ![d] = "open"]
  /\ UNCHANGED <<clientVars, writeVars, readVars, peerVars, alive>>

\* WrapConn and StreamConn.  The cipher writes its salt before the target address.
WrapConn(d) ==
  /\ pc[d] = "wrap" /\ mode[d] /= "unsupported"
  /\ Goto(d, "salt")
  /\ Write(d, 1)
  /\ UNCHANGED <<clientVars, sock, firstWrite, frames, readVars, peerVars, alive>>

\* WrapConn returns a nil connection with its error and rc.Close is called on
\* it.  handleConnection recovers; nothing does on a goroutine of http.Transport.
WrapFails(d) ==
  /\ pc[d] = "wrap" /\ mode[d] = "unsupported"
  /\ Goto(d, "panicked")
  /\ alive' = (caller[d] /= "transport")
  /\ UNCHANGED <<clientVars, sock, writeVars, readVars, peerVars>>

SendTarget(d) ==
  /\ pc[d] = "salt" /\ job[d] = <<>>
  /\ Goto(d, "target")
  /\ Write(d, 1)
  /\ UNCHANGED <<clientVars, sock, firstWrite, frames, readVars, peerVars, alive>>

Return(d) ==
  /\ pc[d] = "target" /\ job[d] = <<>>
  /\ Goto(d, "open")
  /\ UNCHANGED <<clientVars, sock, writeVars, readVars, peerVars, alive>>

-----------------------------------------------------------------------------
(* Write of the wrappers.                                                   *)

Smaller(a, b) == IF a <= b THEN a ELSE b

\* Mutant: the request goes in front of every write.
Opening_Always(d) == mode[d] = "http"

Opening(d) == mode[d] = "http" /\ firstWrite[d]

\* What the next Write of the socket carries: everything, the first time
\* behind the HTTP request, or one TLS record.
FrameOf(d) ==
  IF mode[d] = "tls"
  THEN LET n == Smaller(MaxRecord, Len(job[d]))
       IN  [tag |-> "record", len |-> n, body |-> SubSeq(job[d], 1, n)]
  ELSE [tag |-> IF Opening(d) THEN "get" ELSE "raw", len |-> 0, body |-> job[d]]

\* Mutant: the record header is counted as data that was written.
Rest_CountsHeader(d) == SubSeq(job[d], Len(FrameOf(d).body) + 2, Len(job[d]))

\* b[written:]
Rest(d) == SubSeq(job[d], Len(FrameOf(d).body) + 1, Len(job[d]))

ConnWrite(d) ==
  /\ job[d] /= <<>>
  /\ frames' = [frames EXCEPT ![d] = Append(@, FrameOf(d))]
  /\ job' = [job EXCEPT ![d] = Rest(d)]
  /\ firstWrite' = [firstWrite EXCEPT ![d] = FALSE]
  /\ UNCHANGED <<clientVars, pc, sock, plain, readVars, peerVars, alive>>

\* The socket fails, with a part of the frame on the wire: the Write that is
\* running returns the error.
SocketFails(d) ==
  /\ job[d] /= <<>>
  /\ \E n \in 0..Len(FrameOf(d).body) - 1 :
       frames' = [frames EXCEPT ![d] = Append(@, [FrameOf(d) EXCEPT !.body = SubSeq(@, 1, n)])]
  /\ job' = [job EXCEPT ![d] = <<>>]
  /\ firstWrite' = [firstWrite EXCEPT ![d] = FALSE]

\* Mutant: DialContext returns the error and leaves the connection.
TargetFails_NoClose(d) ==
  /\ pc[d] \in {"salt", "target"}
  /\ SocketFails(d)
  /\ Goto(d, "failed")
  /\ UNCHANGED <<clientVars, sock, plain, readVars, peerVars, alive>>

\* "failed to send target address".
TargetFails(d) ==
  /\ pc[d] \in {"salt", "target"}
  /\ SocketFails(d)
  /\ Goto(d, "failed")
  /\ sock' = [sock EXCEPT ![d] = "closed"]
  /\ UNCHANGED <<clientVars, plain, readVars, peerVars, alive>>

-----------------------------------------------------------------------------
(* The caller of DialContext, writing, and closing when it is done.         *)

CallWrite(d) ==
  /\ pc[d] = "open" /\ job[d] = <<>>
  /\ \E n \in 1..Smaller(MaxChunk, MaxUp - plain[d]) : Write(d, n)
  /\ UNCHANGED <<clientVars, pc, sock, firstWrite, frames, readVars, peerVars, alive>>

\* A copying goroutine writes no more after an error.
WriteFails(d) ==
  /\ pc[d] = "open"
  /\ SocketFails(d)
  /\ Goto(d, "broken")
  /\ UNCHANGED <<clientVars, sock, plain, readVars, peerVars, alive>>

CloseConn(d) ==
  /\ pc[d] \in {"open", "broken"}
  /\ Goto(d, "closed")
  /\ sock' = [sock EXCEPT ![d] = "closed"]
  /\ job' = [job EXCEPT ![d] = <<>>]
  /\ UNCHANGED <<clientVars, firstWrite, plain, frames, readVars, peerVars, alive>>

-----------------------------------------------------------------------------
(* Read of obfsHTTPConn; the other connections read from the socket.        *)

Reading(d, s) == pc[d] \in {"open", "broken"} /\ rd[d] = s

\* Mutant: every Read looks for a head.
LooksForHead_Always(d) == mode[d] = "http"

LooksForHead(d) == mode[d] = "http" /\ firstRead[d]

CallRead(d) ==
  /\ Reading(d, "idle")
  /\ rd' = [rd EXCEPT ![d] = IF LooksForHead(d) THEN "peek" ELSE "read"]
  /\ firstRead' = [firstRead EXCEPT ![d] = FALSE]
  /\ UNCHANGED <<clientVars, pc, sock, writeVars, got, peerVars, alive>>

\* Peek waits for 12 bytes; with fewer, or without "HTTP", it is data.
Peek(d) ==
  /\ Reading(d, "peek")
  /\ Len(wire[d]) >= PeekLen \/ eof[d]
  /\ rd' = [rd EXCEPT ![d] =
              IF Len(wire[d]) >= PeekLen /\ wire[d][1] = Status THEN "skip" ELSE "read"]
  /\ UNCHANGED <<clientVars, pc, sock, writeVars, firstRead, got, peerVars, alive>>

Ends(d) == {i \in 1..Len(wire[d]) : wire[d][i] \in {EOL, Blank}}

\* Mutant: the head is taken to be one line.
LastLine_First(d, i) == TRUE

\* An empty line ends the head.
LastLine(d, i) == wire[d][i] = Blank

\* ReadString: one header line.
SkipLine(d) ==
  /\ Reading(d, "skip")
  /\ \E i \in Ends(d) :
       /\ \A j \in Ends(d) : i <= j
       /\ wire' = [wire EXCEPT ![d] = SubSeq(@, i + 1, Len(@))]
       /\ rd' = [rd EXCEPT ![d] = IF LastLine(d, i) THEN "read" ELSE "skip"]
  /\ UNCHANGED <<clientVars, pc, sock, writeVars, firstRead, got, head, replied, eof, alive>>

\* ReadString fails at the end of the stream, with what it has read.
SkipFails(d) ==
  /\ Reading(d, "skip") /\ Ends(d) = {} /\ eof[d]
  /\ wire' = [wire EXCEPT ![d] = <<>>]
  /\ rd' = [rd EXCEPT ![d] = "read"]
  /\ UNCHANGED <<clientVars, pc, sock, writeVars, firstRead, got, head, replied, eof, alive>>

ReadData(d) ==
  /\ Reading(d, "read")
  /\ \E n \in 1..Len(wire[d]) :
       /\ got' = [got EXCEPT ![d] = @ \o SubSeq(wire[d], 1, n)]
       /\ wire' = [wire EXCEPT ![d] = SubSeq(@, n + 1, Len(@))]
  /\ rd' = [rd EXCEPT ![d] = "idle"]
  /\ UNCHANGED <<clientVars, pc, sock, writeVars, firstRead, head, replied, eof, alive>>

ReadEnds(d) ==
  /\ Reading(d, "read") /\ wire[d] = <<>> /\ eof[d]
  /\ rd' = [rd EXCEPT ![d] = "eof"]
  /\ UNCHANGED <<clientVars, pc, sock, writeVars, firstRead, got, peerVars, alive>>

-----------------------------------------------------------------------------
(* The server (external).  Behind obfs=http it may answer with or without a *)
(* head; behind obfs=tls its data comes in records.                         *)

ServerSends(d, units) ==
  /\ sock[d] = "open" /\ ~eof[d]
  /\ wire' = [wire EXCEPT ![d] = @ \o units]
  /\ UNCHANGED <<clientVars, pc, sock, writeVars, readVars, eof, alive>>

ServerSendsHead(d) ==
  /\ mode[d] = "http" /\ replied[d] = 0 /\ head[d] < Len(ReplyHead)
  /\ head' = [head EXCEPT ![d] = @ + 1]
  /\ ServerSends(d, <<ReplyHead[head'[d]]>>)
  /\ UNCHANGED replied

ServerSendsData(d) ==
  /\ head[d] \in {0, Len(ReplyHead)} /\ replied[d] < MaxDown
  /\ replied' = [replied EXCEPT ![d] = @ + 1]
  /\ ServerSends(d, IF mode[d] = "tls" THEN <<Record, replied'[d]>> ELSE <<replied'[d]>>)
  /\ UNCHANGED head

ServerCloses(d) ==
  /\ sock[d] = "open" /\ ~eof[d]
  /\ eof' = [eof EXCEPT ![d] = TRUE]
  /\ UNCHANGED <<clientVars, pc, sock, writeVars, readVars, head, wire, replied, alive>>

-----------------------------------------------------------------------------
DialContext(d) == \/ Parse(d) \/ ConnectFails(d) \/ Connect(d)
                  \/ WrapConn(d) \/ WrapFails(d) \/ SendTarget(d) \/ Return(d)

Upstream(d) == ConnWrite(d) \/ TargetFails(d) \/ WriteFails(d)

Downstream(d) == \/ CallRead(d) \/ Peek(d) \/ SkipLine(d) \/ SkipFails(d)
                 \/ ReadData(d) \/ ReadEnds(d)

Server(d) == ServerSendsHead(d) \/ ServerSendsData(d) \/ ServerCloses(d)

\* A process that has crashed takes no step.
Next == /\ alive
        /\ \E d \in Dials : \/ DialContext(d) \/ Upstream(d) \/ Downstream(d)
                            \/ CallWrite(d) \/ CloseConn(d) \/ Server(d)

Spec == Init /\ [][Next]_vars

\* The caller keeps reading while the connection is open (io.Copy).
FairSpec == Spec /\ \A d \in Dials : WF_vars(alive /\ Downstream(d))

-----------------------------------------------------------------------------
(* Properties.                                                              *)

\* A socket to the server is open only while the dial goes on or its caller
\* has the connection: a dial that returns an error has closed what it opened,
\* and so has a caller that is done.  A dial that ends in the panic of an
\* unsupported mode is the exception: it leaves its socket.
SocketReleased ==
  \A d \in Dials : sock[d] = "open" =>
    \/ pc[d] \in {"wrap", "salt", "target", "open", "broken"}
    \/ pc[d] = "panicked" /\ mode[d] = "unsupported"

\* What the server finds in the frames.
Decoded(d) == FlattenSeq([i \in DOMAIN frames[d] |-> frames[d][i].body])
Count(s)   == [n \in 1..Len(s) |-> n]

\* The server finds the salt, the target and the payload in this order and
\* without a gap, whatever the writes were split into; nothing that Write
\* reported as written is missing.
UpstreamIntact ==
  \A d \in Dials :
    /\ Decoded(d) = Count(Decoded(d))
    /\ pc[d] \in {"wrap", "salt", "target", "open"} =>
         Len(Decoded(d)) + Len(job[d]) = plain[d]

\* Every record header announces what the record holds, never more than the
\* protocol allows nor nothing; one HTTP request opens an HTTP stream and none
\* follows.  Only the last frame of a connection that failed may be cut short.
WellFramed ==
  \A d \in Dials : \A i \in DOMAIN frames[d] :
    LET f == frames[d][i] IN
    /\ (f.tag = "get") <=> (mode[d] = "http" /\ i = 1)
    /\ f.tag = "record" =>
         /\ f.len \in 1..MaxRecord
         /\ \/ f.len = Len(f.body)
            \/ i = Len(frames[d]) /\ pc[d] \in {"failed", "broken", "closed"}

\* The cipher reads the server's data, all of it and nothing of the head,
\* however the head and the data are split into reads.  (A server that dies
\* within the first 12 bytes is taken for one that sends no head, and answers
\* in TLS records are not unwrapped: obfsTLSConn has no Read.)
ReplyIntact ==
  \A d \in Dials :
    mode[d] /= "tls" /\ ~(eof[d] /\ head[d] \in 1..PeekLen - 1) => got[d] = Count(got[d])

\* Peek waits for 12 bytes before anything is delivered: an answer without a
\* head that is shorter, of a server that keeps the connection open.
HeldBack(d) == mode[d] = "http" /\ head[d] = 0 /\ replied[d] < PeekLen /\ ~eof[d]

\* What the server has sent reaches a caller that keeps reading, with or
\* without a plugin, with or without a head, and when the server closes after
\* a short answer.  One answer does not: the one Peek holds back, until the
\* server sends more or closes.
ReplyDelivered ==
  \A d \in Dials : \A n \in 1..MaxDown :
    (pc[d] = "open" /\ replied[d] >= n /\ ~HeldBack(d))
      ~> (Len(SelectSeq(got[d], LAMBDA u : u > 0)) >= n \/ pc[d] /= "open" \/ ~alive)
=============================================================================
