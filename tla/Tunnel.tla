------------------------------- MODULE Tunnel -------------------------------
(***************************************************************************)
(* One accepted connection of the unified proxy from the first byte to the  *)
(* last: protocol detection, the HTTP request, the CONNECT tunnel with its  *)
(* two copying goroutines and the channel they report to                    *)
(* (internal/proxy/unified.go), and what TrackedConn and Collector count of *)
(* it (internal/stats/collector.go).                                        *)
(*                                                                          *)
(* What a client sends is the sequence 0, 1, 2, ...: 0 is the head of its   *)
(* request (or the SOCKS5 greeting) and the rest is payload, in pieces a    *)
(* read returns whole.  What a client receives is the head of an answer     *)
(* followed by 1, 2, ..., the payload its target sends.                     *)
(***************************************************************************)
EXTENDS Integers, Sequences, FiniteSets

CONSTANTS
  Conns,      \* accepted connections
  Kinds,      \* per connection: protocols its client may speak
  MaxUp,      \* bound: payload pieces a client sends
  MaxDown     \* bound: payload pieces a target, or goproxy, sends

AllKinds == {"connect", "plain", "socks5", "bad"}
Dirs     == {"up", "down"}

ASSUME KindAssumption  == Kinds \in [Conns -> SUBSET AllKinds]
ASSUME BoundAssumption == MaxUp \in Nat /\ MaxDown \in Nat

VARIABLES
  kind,     \* what the client of a connection speaks
  stage,    \* where the goroutine of handleConnection is
  wire,     \* per direction: sent to the proxy and not read by it
  sent,     \* per direction: pieces the source has sent
  eof,      \* per direction: the source has closed
  buf,      \* bytes in the bufio.Reader of the connection
  pump,     \* per direction: where the copying goroutine is
  held,     \* per direction: read by io.Copy, not written
  out,      \* per direction: delivered to the sink
  own,      \* sockets of the connection the proxy holds open
  errCh,    \* values in the channel of handleConnect
  written,  \* connResponseWriter.written
  tracked,  \* TrackedConn: "none", "open" or "closed"
  stats     \* the Collector's counters

connVars == <<kind, stage>>
wireVars == <<wire, sent, eof>>
pumpVars == <<buf, pump, held, out, errCh>>
vars == <<connVars, wireVars, pumpVars, own, written, tracked, stats>>

OkHead     == 0        \* a 200 line, or the head connResponseWriter writes
BadGateway == -1       \* the 502 line

Both(v) == [d \in Dirs |-> v]

TypeOK ==
  /\ kind \in [Conns -> AllKinds]
  /\ stage \in [Conns -> {"free", "peek", "http", "dial", "reply", "relay", "closing",
                          "socks", "serve", "done"}]
  /\ wire \in [Conns -> [Dirs -> Seq(Nat)]] /\ held \in [Conns -> [Dirs -> Seq(Nat)]]
  /\ sent \in [Conns -> [Dirs -> Nat]] /\ eof \in [Conns -> [Dirs -> BOOLEAN]]
  /\ buf \in [Conns -> Seq(Nat)]
  /\ pump \in [Conns -> [Dirs -> {"off", "read", "write", "report", "ended"}]]
  /\ out \in [Conns -> [Dirs -> Seq(Int)]]
  /\ own \in [Conns -> SUBSET {"client", "target"}]
  /\ errCh \in [Conns -> 0..2] /\ written \in [Conns -> BOOLEAN]
  /\ tracked \in [Conns -> {"none", "open", "closed"}]
  /\ stats \in [{"total", "active", "http", "socks5", "sent", "received"} -> Nat]

Init ==
  /\ kind \in [Conns -> AllKinds] /\ \A c \in Conns : kind[c] \in Kinds[c]
  /\ stage = [c \in Conns |-> "free"]
  /\ wire = [c \in Conns |-> Both(<<>>)] /\ held = [c \in Conns |-> Both(<<>>)]
  /\ sent = [c \in Conns |-> Both(0)] /\ eof = [c \in Conns |-> Both(FALSE)]
  /\ buf = [c \in Conns |-> <<>>]
  /\ pump = [c \in Conns |-> Both("off")]
  /\ out = [c \in Conns |-> Both(<<>>)]
  /\ own = [c \in Conns |-> {}]
  /\ errCh = [c \in Conns |-> 0] /\ written = [c \in Conns |-> FALSE]
  /\ tracked = [c \in Conns |-> "none"]
  /\ stats = [n \in {"total", "active", "http", "socks5", "sent", "received"} |-> 0]

Goto(c, s)     == stage' = [stage EXCEPT ![c] = s]
Answer(c, b)   == out' = [out EXCEPT ![c]["down"] = Append(@, b)]
CloseOwn(c, S) == own' = [own EXCEPT ![c] = @ \ S]

-----------------------------------------------------------------------------
(* The peers: a client that connects, sends and closes (or half-closes),    *)
(* and a target that does so while the proxy is connected to it.            *)

Arrive(c) ==
  /\ stage[c] = "free"
  /\ Goto(c, "peek")
  /\ own' = [own EXCEPT ![c] = {"client"}]
  /\ UNCHANGED <<kind, wireVars, pumpVars, written, tracked, stats>>

SourceSends(c, d) ==
  /\ ~eof[c][d]
  /\ sent' = [sent EXCEPT ![c][d] = @ + 1]
  /\ wire' = [wire EXCEPT ![c][d] = Append(@, IF d = "up" THEN sent[c][d] ELSE sent'[c][d])]
  /\ UNCHANGED <<connVars, eof, pumpVars, own, written, tracked, stats>>

ClientSends(c) ==
  /\ stage[c] /= "free"
  /\ sent[c]["up"] <= IF kind[c] = "connect" THEN MaxUp ELSE 0
  /\ SourceSends(c, "up")

TargetSends(c) ==
  /\ kind[c] = "connect" /\ "target" \in own[c] /\ sent[c]["down"] < MaxDown
  /\ SourceSends(c, "down")

SourceCloses(c, d) ==
  /\ IF d = "up" THEN stage[c] /= "free"
                 ELSE kind[c] = "connect" /\ "target" \in own[c]
  /\ ~eof[c][d]
  /\ eof' = [eof EXCEPT ![c][d] = TRUE]
  /\ UNCHANGED <<connVars, wire, sent, pumpVars, own, written, tracked, stats>>

-----------------------------------------------------------------------------
(* handleConnection and handleHTTP.                                         *)

\* Peek(1) fills the buffer with what one read returns: any part of what has
\* arrived.  0x05 selects SOCKS5.
Peek(c) ==
  /\ stage[c] = "peek"
  /\ \E n \in 1..Len(wire[c]["up"]) :
       /\ buf' = [buf EXCEPT ![c] = SubSeq(wire[c]["up"], 1, n)]
       /\ wire' = [wire EXCEPT ![c]["up"] = SubSeq(@, n + 1, Len(@))]
  /\ Goto(c, IF kind[c] = "socks5" THEN "socks" ELSE "http")
  /\ UNCHANGED <<kind, sent, eof, pump, held, out, errCh, own, written, tracked, stats>>

PeekFails(c) ==
  /\ stage[c] = "peek" /\ wire[c]["up"] = <<>> /\ eof[c]["up"]
  /\ Goto(c, "done")
  /\ CloseOwn(c, {"client"})
  /\ UNCHANGED <<kind, wireVars, pumpVars, written, tracked, stats>>

\* ReadRequest takes the head out of the buffer; a CONNECT goes to
\* handleConnect, another request to goproxy, an unreadable one is dropped.
ReadRequest(c) ==
  /\ stage[c] = "http"
  /\ buf' = [buf EXCEPT ![c] = Tail(@)]
  /\ CASE kind[c] = "connect" -> Goto(c, "dial") /\ UNCHANGED own
       [] kind[c] = "plain"   -> Goto(c, "serve") /\ UNCHANGED own
       [] kind[c] = "bad"     -> Goto(c, "done") /\ CloseOwn(c, {"client"})
  /\ UNCHANGED <<kind, wireVars, pump, held, out, errCh, written, tracked, stats>>

-----------------------------------------------------------------------------
(* Collector and TrackedConn.                                               *)

\* NewTrackedConn and RecordConnection.
Track(c, proxyType) ==
  /\ tracked' = [tracked EXCEPT ![c] = "open"]
  /\ stats' = [stats EXCEPT !["total"] = @ + 1, !["active"] = @ + 1, ![proxyType] = @ + 1]

\* Mutant: Close records a disconnection every time it is called.
TrackedClose_Repeats(c) ==
  /\ tracked' = [tracked EXCEPT ![c] = "closed"]
  /\ stats' = [stats EXCEPT !["active"] = @ - 1]

\* TrackedConn.Close: the disconnection is recorded once.
TrackedClose(c) ==
  /\ tracked' = [tracked EXCEPT ![c] = "closed"]
  /\ stats' = IF tracked[c] = "closed" THEN stats
                                       ELSE [stats EXCEPT !["active"] = @ - 1]

-----------------------------------------------------------------------------
(* handleConnect.                                                           *)

DialFails(c) ==
  /\ stage[c] = "dial"
  /\ Goto(c, "done")
  /\ Answer(c, BadGateway)
  /\ CloseOwn(c, {"client"})
  /\ UNCHANGED <<kind, wireVars, buf, pump, held, errCh, written, tracked, stats>>

DialOk(c) ==
  /\ stage[c] = "dial"
  /\ Goto(c, "reply")
  /\ own' = [own EXCEPT ![c] = @ \cup {"target"}]
  /\ Track(c, "http")
  /\ UNCHANGED <<kind, wireVars, pumpVars, written>>

\* The 200 line, then the two copying goroutines.
Reply(c) ==
  /\ stage[c] = "reply"
  /\ Goto(c, "relay")
  /\ Answer(c, OkHead)
  /\ pump' = [pump EXCEPT ![c] = Both("read")]
  /\ UNCHANGED <<kind, wireVars, buf, held, errCh, own, written, tracked, stats>>

Source(d) == IF d = "up" THEN "client" ELSE "target"
Sink(d)   == IF d = "up" THEN "target" ELSE "client"
Back(d)   == IF d = "up" THEN "down" ELSE "up"

\* Mutant: the client is read directly, not through bufferConn.
Buffered_Ignored(c, d) == FALSE

\* bufferConn.Read serves what Peek and ReadRequest left in the buffer first.
Buffered(c, d) == d = "up" /\ buf[c] /= <<>>

\* io.Copy reads: TrackedConn.Read counts what came from the target.
PumpRead(c, d) ==
  /\ pump[c][d] = "read"
  /\ IF Buffered(c, d)
     THEN /\ held' = [held EXCEPT ![c][d] = buf[c]]
          /\ buf' = [buf EXCEPT ![c] = <<>>]
          /\ UNCHANGED wire
     ELSE /\ Source(d) \in own[c]
          /\ \E n \in 1..Len(wire[c][d]) :
               /\ held' = [held EXCEPT ![c][d] = SubSeq(wire[c][d], 1, n)]
               /\ wire' = [wire EXCEPT ![c][d] = SubSeq(@, n + 1, Len(@))]
          /\ UNCHANGED buf
  /\ pump' = [pump EXCEPT ![c][d] = "write"]
  /\ stats' = IF d = "down" THEN [stats EXCEPT !["received"] = @ + Len(held'[c][d])]
                            ELSE stats
  /\ UNCHANGED <<connVars, sent, eof, out, errCh, own, written, tracked>>

\* io.Copy writes: TrackedConn.Write counts what went to the target.
PumpWrite(c, d) ==
  /\ pump[c][d] = "write" /\ Sink(d) \in own[c]
  /\ out' = [out EXCEPT ![c][d] = @ \o held[c][d]]
  /\ held' = [held EXCEPT ![c][d] = <<>>]
  /\ pump' = [pump EXCEPT ![c][d] = "read"]
  /\ stats' = IF d = "up" THEN [stats EXCEPT !["sent"] = @ + Len(held[c][d])]
                          ELSE stats
  /\ UNCHANGED <<connVars, wireVars, buf, errCh, own, written, tracked>>

\* Mutant: the end is reported although pieces that arrived were not read.
AtEnd_Unread(c, d) == eof[c][d]

\* A read returns io.EOF: the source has closed and everything has been read.
AtEnd(c, d) == wire[c][d] = <<>> /\ eof[c][d]

\* io.Copy returns: at the end of its source, at a read from a socket the
\* handler has closed, or at a write to a socket either side has closed.
PumpStops(c, d) ==
  /\ \/ /\ pump[c][d] = "read" /\ ~Buffered(c, d)
        /\ Source(d) \notin own[c] \/ AtEnd(c, d)
     \/ /\ pump[c][d] = "write"
        /\ Sink(d) \notin own[c] \/ eof[c][Back(d)]
  /\ pump' = [pump EXCEPT ![c][d] = "report"]
  /\ held' = [held EXCEPT ![c][d] = <<>>]
  /\ UNCHANGED <<connVars, wireVars, buf, out, errCh, own, written, tracked, stats>>

\* Mutant: the channel is unbuffered.
ErrChCap_Unbuffered == 0

ErrChCap == 2

\* errCh <- err: without room it needs the handler at its receive.
PumpReports(c, d) ==
  /\ pump[c][d] = "report"
  /\ errCh[c] < ErrChCap \/ (errCh[c] = 0 /\ stage[c] = "relay")
  /\ pump' = [pump EXCEPT ![c][d] = "ended"]
  /\ errCh' = [errCh EXCEPT ![c] = @ + 1]
  /\ UNCHANGED <<connVars, wireVars, buf, held, out, own, written, tracked, stats>>

\* Mutant: the handler does not wait for a direction to complete.
FirstDone_NoWait(c) ==
  /\ stage[c] = "relay"
  /\ Goto(c, "closing")
  /\ UNCHANGED <<kind, wireVars, pumpVars, own, written, tracked, stats>>

\* <-errCh: the first direction that completes ends the tunnel.
FirstDone(c) ==
  /\ stage[c] = "relay" /\ errCh[c] > 0
  /\ Goto(c, "closing")
  /\ errCh' = [errCh EXCEPT ![c] = @ - 1]
  /\ UNCHANGED <<kind, wireVars, buf, pump, held, out, own, written, tracked, stats>>

\* The deferred calls, last registered first.  targetConn.Close was bound
\* before targetConn became the TrackedConn: nothing is recorded.
CloseTarget(c) ==
  /\ stage[c] = "closing" /\ "target" \in own[c]
  /\ CloseOwn(c, {"target"})
  /\ UNCHANGED <<connVars, wireVars, pumpVars, written, tracked, stats>>

CloseClient(c) ==
  /\ stage[c] = "closing" /\ "target" \notin own[c]
  /\ Goto(c, "done")
  /\ CloseOwn(c, {"client"})
  /\ UNCHANGED <<kind, wireVars, pumpVars, written, tracked, stats>>

-----------------------------------------------------------------------------
(* goproxy and its http.Transport (external) behind connResponseWriter.     *)

\* The DialContext closure of NewUnifiedProxy, called by the transport.
TransportDials(c) ==
  /\ stage[c] = "serve" /\ tracked[c] = "none"
  /\ own' = [own EXCEPT ![c] = @ \cup {"target"}]
  /\ Track(c, "http")
  /\ UNCHANGED <<connVars, wireVars, pumpVars, written>>

\* Mutant: WriteHeader does not look whether the head was written.
WriteHeader_Again(c) ==
  /\ stage[c] = "serve"
  /\ written' = [written EXCEPT ![c] = TRUE]
  /\ Answer(c, OkHead)
  /\ UNCHANGED <<connVars, wireVars, buf, pump, held, errCh, own, tracked, stats>>

\* connResponseWriter.WriteHeader: only the first call has an effect.
WriteHeader(c) ==
  /\ stage[c] = "serve" /\ ~written[c]
  /\ written' = [written EXCEPT ![c] = TRUE]
  /\ Answer(c, OkHead)
  /\ UNCHANGED <<connVars, wireVars, buf, pump, held, errCh, own, tracked, stats>>

\* connResponseWriter.Write: a head is written first when there is none.
WriteBody(c) ==
  /\ stage[c] = "serve" /\ sent[c]["down"] < MaxDown
  /\ sent' = [sent EXCEPT ![c]["down"] = @ + 1]
  /\ out' = [out EXCEPT ![c]["down"] =
               (IF written[c] THEN @ ELSE Append(@, OkHead)) \o <<sent'[c]["down"]>>]
  /\ written' = [written EXCEPT ![c] = TRUE]
  /\ UNCHANGED <<connVars, wire, eof, buf, pump, held, errCh, own, tracked, stats>>

\* ServeHTTP returns, and with it the handler; the client is not closed.
Served(c) ==
  /\ stage[c] = "serve"
  /\ Goto(c, "done")
  /\ UNCHANGED <<kind, wireVars, pumpVars, own, written, tracked, stats>>

-----------------------------------------------------------------------------
(* go-socks5 (external) with the Dial closure of NewUnifiedProxy.           *)

SocksDials(c) ==
  /\ stage[c] = "socks" /\ tracked[c] = "none"
  /\ own' = [own EXCEPT ![c] = @ \cup {"target"}]
  /\ Track(c, "socks5")
  /\ UNCHANGED <<connVars, wireVars, pumpVars, written>>

\* ServeConn returns: it has closed the client.
SocksServed(c) ==
  /\ stage[c] = "socks"
  /\ Goto(c, "done")
  /\ CloseOwn(c, {"client"})
  /\ UNCHANGED <<kind, wireVars, pumpVars, written, tracked, stats>>

\* The libraries close the connection they were given, perhaps repeatedly,
\* the transport long after the request.
LibraryCloses(c) ==
  /\ kind[c] \in {"plain", "socks5"} /\ tracked[c] /= "none"
  /\ TrackedClose(c)
  /\ CloseOwn(c, {"target"})
  /\ UNCHANGED <<connVars, wireVars, pumpVars, written>>

-----------------------------------------------------------------------------
Peers(c) == \/ Arrive(c) \/ ClientSends(c) \/ TargetSends(c)
            \/ \E d \in Dirs : SourceCloses(c, d)

Pump(c) == \E d \in Dirs : \/ PumpRead(c, d) \/ PumpWrite(c, d)
                           \/ PumpStops(c, d) \/ PumpReports(c, d)

Handler(c) == \/ Peek(c) \/ PeekFails(c) \/ ReadRequest(c)
              \/ DialFails(c) \/ DialOk(c) \/ Reply(c)
              \/ FirstDone(c) \/ CloseTarget(c) \/ CloseClient(c)

Libraries(c) == \/ TransportDials(c) \/ WriteHeader(c) \/ WriteBody(c) \/ Served(c)
                \/ SocksDials(c) \/ SocksServed(c) \/ LibraryCloses(c)

Next == \E c \in Conns : Peers(c) \/ Handler(c) \/ Pump(c) \/ Libraries(c)

Spec == Init /\ [][Next]_vars

\* The goroutines of the proxy are scheduled, a dial ends (it has a timeout),
\* and a write ends: the peer reads or closes.  The peers owe nothing else.
Fairness == \A c \in Conns :
  /\ WF_vars(Handler(c))
  /\ \A d \in Dirs : WF_vars(\/ PumpRead(c, d) \/ PumpWrite(c, d)
                             \/ PumpStops(c, d) \/ PumpReports(c, d))

FairSpec == Spec /\ Fairness

-----------------------------------------------------------------------------
(* Properties.                                                              *)

Count(s) == [n \in 1..Len(s) |-> n]

\* A CONNECT target receives the client's payload in order and complete,
\* what the client sent along with its request included: at any time it has
\* a prefix, and while the tunnel runs nothing is missing in between.
UpIntact ==
  \A c \in Conns : kind[c] = "connect" =>
    /\ out[c]["up"] = Count(out[c]["up"])
    /\ stage[c] \in {"reply", "relay"} /\ pump[c]["up"] \in {"off", "read", "write"} =>
         LET all == out[c]["up"] \o held[c]["up"] \o buf[c] \o wire[c]["up"]
         IN  all = Count(all) /\ Len(all) + 1 = sent[c]["up"]

\* A client receives one head, and after it the payload in order: a tunnel
\* carries nothing before its 200 line, and goproxy's calls of the response
\* writer never produce a second head.
DownIntact ==
  \A c \in Conns : LET o == out[c]["down"] IN
    o = <<BadGateway>> \/ o = [n \in 1..Len(o) |-> n - 1]

\* A target that answers and closes loses nothing of its answer when the
\* client has sent all it will and stays connected: the end of the download
\* is the only end the handler can see.
AnswerComplete ==
  \A c \in Conns :
    /\ kind[c] = "connect" /\ stage[c] = "done" /\ eof[c]["down"]
    /\ ~eof[c]["up"] /\ Len(out[c]["up"]) + 1 = sent[c]["up"]
    => Len(out[c]["down"]) = sent[c]["down"] + 1

-----------------------------------------------------------------------------
(* Tunnel implements ByteStreams.  Its streams are those of the connections *)
(* that ask for a tunnel, without the head of the request and of the answer;*)
(* a stream is over when the goroutine that copies it has left its loop.    *)

IsTunnel(c)   == kind[c] = "connect"
Stopped(c, d) == pump[c][d] \in {"report", "ended"}

Payload(s) == IF s = <<>> THEN <<>> ELSE Tail(s)

AbsSent(c, d) == IF ~IsTunnel(c) THEN 0
                 ELSE IF d = "up" /\ sent[c][d] > 0 THEN sent[c][d] - 1 ELSE sent[c][d]
AbsGot(c, d)  == IF ~IsTunnel(c) THEN <<>>
                 ELSE IF d = "down" THEN Payload(out[c][d]) ELSE out[c][d]

StreamSent   == [c \in Conns |-> [d \in Dirs |-> AbsSent(c, d)]]
StreamClosed == [c \in Conns |-> [d \in Dirs |-> IsTunnel(c) /\ eof[c][d]]]
StreamGot    == [c \in Conns |-> [d \in Dirs |-> AbsGot(c, d)]]
StreamOver   == [c \in Conns |-> [d \in Dirs |-> Stopped(c, d)]]

Streams == INSTANCE ByteStreams WITH
  Tunnels <- Conns,      sent <- StreamSent, closed <- StreamClosed,
  got     <- StreamGot,  over <- StreamOver

\* handleConnect implements two byte streams: whatever the reads return and
\* whoever closes first, nothing is lost, repeated or reordered, and a stream
\* is not cut short while the other one runs and its sink is there.
RefinesStreams == Streams!Spec

\* A tunnel one of whose ends closed is taken down: both sockets are closed
\* and neither copying goroutine is left behind.
TunnelReleased ==
  \A c \in Conns :
    (stage[c] = "relay" /\ \E d \in Dirs : eof[c][d])
      ~> (own[c] = {} /\ \A d \in Dirs : pump[c][d] = "ended")

\* What the README says of GET /stats: active_connections counts connections
\* that are still open.
ActiveAreOpen ==
  stats["active"] <= Cardinality({c \in Conns : "target" \in own[c]})
=============================================================================
