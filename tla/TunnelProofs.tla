---------------------------- MODULE TunnelProofs ----------------------------
(***************************************************************************)
(* Proofs about Tunnel, for any connections and any amount of payload: the  *)
(* counters never go below zero, both byte streams of a connection arrive   *)
(* in order and complete, and a tunnel is a pair of streams that end as     *)
(* ByteStreams says.                                                        *)
(***************************************************************************)
EXTENDS Tunnel, TLAPS, FiniteSetTheorems

\* The pieces of s are a, a + 1, a + 2, ...
Run(s, a) == \A n \in 1..Len(s) : s[n] = a + n - 1

-----------------------------------------------------------------------------
(* Sequences of consecutive pieces.                                         *)

LEMMA RunEmpty ==
  ASSUME NEW a \in Int
  PROVE  Run(<<>>, a) /\ <<>> \in Seq(Nat) /\ Len(<<>>) = 0
BY DEF Run

LEMMA RunOne ==
  ASSUME NEW s \in Seq(Int), s = <<>>, NEW a \in Int
  PROVE  Run(Append(s, a), a) /\ Append(s, a) \in Seq(Int) /\ Len(Append(s, a)) = 1
BY DEF Run

LEMMA RunAppend ==
  ASSUME NEW s \in Seq(Int), NEW a \in Int, Run(s, a), NEW b \in Int, b = a + Len(s)
  PROVE  Run(Append(s, b), a) /\ Len(Append(s, b)) = Len(s) + 1
BY DEF Run

LEMMA RunConcat ==
  ASSUME NEW s \in Seq(Int), NEW t \in Seq(Int), NEW a \in Int,
         Run(s, a), Run(t, a + Len(s))
  PROVE  Run(s \o t, a) /\ s \o t \in Seq(Int) /\ Len(s \o t) = Len(s) + Len(t)
BY DEF Run

LEMMA RunSplit ==
  ASSUME NEW s \in Seq(Nat), NEW a \in Int, NEW n \in 1..Len(s)
  PROVE  /\ SubSeq(s, 1, n) \in Seq(Nat) /\ SubSeq(s, n + 1, Len(s)) \in Seq(Nat)
         /\ Len(SubSeq(s, 1, n)) = n /\ Len(SubSeq(s, n + 1, Len(s))) = Len(s) - n
         /\ SubSeq(s, 1, n) /= <<>>
         /\ Run(s, a) => /\ Run(SubSeq(s, 1, n), a)
                         /\ Run(SubSeq(s, n + 1, Len(s)), a + n)
<1>1. /\ SubSeq(s, 1, n) \in Seq(Nat) /\ SubSeq(s, n + 1, Len(s)) \in Seq(Nat)
      /\ Len(SubSeq(s, 1, n)) = n /\ Len(SubSeq(s, n + 1, Len(s))) = Len(s) - n
      /\ \A i \in 1..n : SubSeq(s, 1, n)[i] = s[i]
      /\ \A i \in 1..(Len(s) - n) : SubSeq(s, n + 1, Len(s))[i] = s[n + i]
  OBVIOUS
<1>2. SubSeq(s, 1, n) /= <<>>
  BY <1>1
<1>3. ASSUME Run(s, a) PROVE Run(SubSeq(s, 1, n), a)
  BY <1>1, <1>3 DEF Run
<1>4. ASSUME Run(s, a) PROVE Run(SubSeq(s, n + 1, Len(s)), a + n)
  BY <1>1, <1>4 DEF Run
<1> QED
  BY <1>1, <1>2, <1>3, <1>4

LEMMA RunTail ==
  ASSUME NEW s \in Seq(Nat), s /= <<>>, NEW a \in Int
  PROVE  /\ Tail(s) \in Seq(Nat) /\ Len(Tail(s)) = Len(s) - 1
         /\ Run(s, a) => Run(Tail(s), a + 1)
BY DEF Run

LEMMA RunFromZero ==
  ASSUME NEW s \in Seq(Int), Run(s, 0)
  PROVE  s = [n \in 1..Len(s) |-> n - 1]
<1>1. \A n \in 1..Len(s) : s[n] = n - 1
  BY DEF Run
<1> QED
  BY <1>1

LEMMA LenNat ==
  ASSUME NEW s \in Seq(Int)
  PROVE  Len(s) \in Nat
OBVIOUS

LEMMA PositiveSum ==
  \A o, h, b, w, s \in Nat : s = 1 + o + h + b + w /\ h > 0 => o + 1 < s
OBVIOUS

LEMMA Moved ==
  \A o, h, n \in Nat : n = o + h =>
    /\ 1 + n = 1 + o + h /\ 1 + n + 0 = 1 + o + h /\ n + 1 = 1 + o + h
    /\ 1 + o + h \in Int
OBVIOUS

LEMMA RunCount ==
  ASSUME NEW s \in Seq(Int), Run(s, 1)
  PROVE  s = Count(s)
BY DEF Run, Count

-----------------------------------------------------------------------------
(* Types.  The counter of active connections is the number of tracked       *)
(* connections that have not recorded their disconnection, and therefore    *)
(* not negative.                                                            *)

Open == {c \in Conns : tracked[c] = "open"}

ActiveInv == IsFiniteSet(Open) /\ stats["active"] = Cardinality(Open)

\* Which protocol reaches which stage, and what is dialled at most once.
StageOf(c) ==
  /\ stage[c] \in {"dial", "reply", "relay", "closing"} => kind[c] = "connect"
  /\ stage[c] = "serve" => kind[c] = "plain"
  /\ stage[c] = "socks" => kind[c] = "socks5"
  /\ stage[c] \in {"free", "peek", "http", "dial"} => tracked[c] = "none"
  /\ stage[c] = "http" => kind[c] /= "socks5" /\ buf[c] /= <<>>
  /\ kind[c] /= "connect" \/ stage[c] \notin {"relay", "closing", "done"} =>
       pump[c]["up"] = "off" /\ pump[c]["down"] = "off"

StageInv == \A c \in Conns : StageOf(c)

BaseInv == TypeOK /\ StageInv /\ ActiveInv

LEMMA TrackStep ==
  ASSUME BaseInv, NEW c \in Conns, tracked[c] = "none",
         NEW p \in {"http", "socks5"}, Track(c, p)
  PROVE  /\ tracked' \in [Conns -> {"none", "open", "closed"}]
         /\ stats' \in [{"total", "active", "http", "socks5", "sent", "received"} -> Nat]
         /\ ActiveInv'
<1>1. tracked' \in [Conns -> {"none", "open", "closed"}]
  BY DEF BaseInv, TypeOK, Track
<1>2. /\ stats' \in [{"total", "active", "http", "socks5", "sent", "received"} -> Nat]
      /\ stats'["active"] = stats["active"] + 1
  <2>1. /\ stats["active"] + 1 \in Nat /\ stats["total"] + 1 \in Nat /\ stats[p] + 1 \in Nat
        /\ stats \in [{"total", "active", "http", "socks5", "sent", "received"} -> Nat]
    BY DEF BaseInv, TypeOK
  <2>2. CASE p = "http"
    BY <2>1, <2>2 DEF Track
  <2>3. CASE p = "socks5"
    BY <2>1, <2>3 DEF Track
  <2> QED
    BY <2>2, <2>3
<1>3. Open' = Open \cup {c} /\ c \notin Open
  BY DEF BaseInv, TypeOK, Track, Open
<1>4. ActiveInv'
  BY <1>2, <1>3, FS_AddElement DEF BaseInv, ActiveInv
<1> QED
  BY <1>1, <1>2, <1>4

LEMMA CloseStep ==
  ASSUME BaseInv, NEW c \in Conns, tracked[c] /= "none", TrackedClose(c)
  PROVE  /\ tracked' \in [Conns -> {"none", "open", "closed"}]
         /\ stats' \in [{"total", "active", "http", "socks5", "sent", "received"} -> Nat]
         /\ ActiveInv'
<1>1. /\ tracked' \in [Conns -> {"none", "open", "closed"}]
      /\ Open' = Open \ {c}
  BY DEF BaseInv, TypeOK, TrackedClose, Open
<1>2. CASE tracked[c] = "closed"
  <2>1. stats' = stats /\ Open' = Open
    BY <1>1, <1>2 DEF TrackedClose, Open
  <2> QED
    BY <1>1, <2>1 DEF BaseInv, TypeOK, ActiveInv
<1>3. CASE tracked[c] = "open"
  <2>1. c \in Open
    BY <1>3 DEF Open
  <2>2. /\ IsFiniteSet(Open')
        /\ Cardinality(Open') = Cardinality(Open) - 1
    BY <1>1, <2>1, FS_RemoveElement DEF BaseInv, ActiveInv
  <2>3. Cardinality(Open') \in Nat
    BY <2>2, FS_CardinalityType
  <2>4. /\ stats' = [stats EXCEPT !["active"] = @ - 1]
        /\ stats["active"] - 1 \in Nat
    BY <1>3, <2>2, <2>3 DEF TrackedClose, BaseInv, ActiveInv
  <2>5. /\ stats' \in [{"total", "active", "http", "socks5", "sent", "received"} -> Nat]
        /\ stats'["active"] = stats["active"] - 1
    BY <2>4 DEF BaseInv, TypeOK
  <2> QED
    BY <1>1, <2>2, <2>5 DEF BaseInv, ActiveInv
<1>4. tracked[c] \in {"open", "closed"}
  BY DEF BaseInv, TypeOK
<1> QED
  BY <1>2, <1>3, <1>4

LEMMA KeepActive ==
  ASSUME ActiveInv, tracked' = tracked, stats'["active"] = stats["active"]
  PROVE  ActiveInv'
<1>1. Open' = Open
  BY DEF Open
<1> QED
  BY <1>1 DEF ActiveInv

LEMMA InitBase ==
  ASSUME Init
  PROVE  BaseInv
<1>1. TypeOK
  BY KindAssumption DEF Init, TypeOK, Both, Dirs, AllKinds
<1>2. StageInv
  BY DEF Init, StageInv, StageOf, Both, Dirs
<1>3. Open = {} /\ stats["active"] = 0
  BY DEF Init, Open
<1>4. ActiveInv
  BY <1>3, FS_EmptySet DEF ActiveInv
<1> QED
  BY <1>1, <1>2, <1>4 DEF BaseInv

\* What the peers do.
LEMMA PeersBase ==
  ASSUME BaseInv, NEW c \in Conns, Peers(c)
  PROVE  BaseInv'
<1> USE DEF BaseInv
<1>1. CASE Arrive(c)
  <2>1. TypeOK'
    BY <1>1 DEF Arrive, Goto, wireVars, pumpVars, TypeOK
  <2>2. StageInv'
    BY <1>1 DEF Arrive, Goto, wireVars, pumpVars, TypeOK, StageInv, StageOf
  <2> QED
    BY <1>1, <2>1, <2>2, KeepActive DEF Arrive
<1>2. ASSUME NEW d \in Dirs, SourceSends(c, d) PROVE BaseInv'
  <2>1. TypeOK'
    <3>1. /\ sent[c][d] \in Nat /\ sent[c][d] + 1 \in Nat /\ wire[c][d] \in Seq(Nat)
          /\ sent'[c][d] = sent[c][d] + 1
          /\ sent' \in [Conns -> [Dirs -> Nat]]
      BY <1>2 DEF SourceSends, TypeOK
    <3>2. Append(wire[c][d], IF d = "up" THEN sent[c][d] ELSE sent'[c][d]) \in Seq(Nat)
      BY <3>1
    <3>3. wire' \in [Conns -> [Dirs -> Seq(Nat)]]
      BY <1>2, <3>2 DEF SourceSends, TypeOK
    <3> QED
      BY <1>2, <3>1, <3>3 DEF SourceSends, connVars, pumpVars, TypeOK
  <2>2. StageInv'
    BY <1>2 DEF SourceSends, connVars, pumpVars, StageInv, StageOf
  <2> QED
    BY <1>2, <2>1, <2>2, KeepActive DEF SourceSends
<1>3. ASSUME NEW d \in Dirs, SourceCloses(c, d) PROVE BaseInv'
  <2>1. TypeOK'
    BY <1>3 DEF SourceCloses, connVars, pumpVars, TypeOK
  <2>2. StageInv'
    BY <1>3 DEF SourceCloses, connVars, pumpVars, StageInv, StageOf
  <2> QED
    BY <1>3, <2>1, <2>2, KeepActive DEF SourceCloses
<1>4. "up" \in Dirs /\ "down" \in Dirs
  BY DEF Dirs
<1> QED
  BY <1>1, <1>2, <1>3, <1>4 DEF Peers, ClientSends, TargetSends

LEMMA ReadRequestStep ==
  ASSUME BaseInv, NEW c \in Conns, ReadRequest(c)
  PROVE  \/ kind[c] = "connect" /\ Goto(c, "dial") /\ UNCHANGED own
         \/ kind[c] = "plain" /\ Goto(c, "serve") /\ UNCHANGED own
         \/ kind[c] = "bad" /\ Goto(c, "done") /\ CloseOwn(c, {"client"})
<1>1. kind[c] \in {"connect", "plain", "bad"}
  BY DEF BaseInv, ReadRequest, TypeOK, StageInv, StageOf, AllKinds
<1>2. CASE kind[c] = "connect"
  BY <1>2 DEF ReadRequest
<1>3. CASE kind[c] = "plain"
  BY <1>3 DEF ReadRequest
<1>4. CASE kind[c] = "bad"
  BY <1>4 DEF ReadRequest
<1> QED
  BY <1>1, <1>2, <1>3, <1>4

\* The goroutine of handleConnection.
LEMMA HandlerBase ==
  ASSUME BaseInv, NEW c \in Conns, Handler(c)
  PROVE  BaseInv'
<1> USE DEF BaseInv
<1>0. "up" \in Dirs /\ "down" \in Dirs
  BY DEF Dirs
<1>1. CASE Peek(c)
  <2>1. PICK n \in 1..Len(wire[c]["up"]) :
          /\ buf' = [buf EXCEPT ![c] = SubSeq(wire[c]["up"], 1, n)]
          /\ wire' = [wire EXCEPT ![c]["up"] = SubSeq(@, n + 1, Len(@))]
    BY <1>1 DEF Peek
  <2>2. wire[c]["up"] \in Seq(Nat)
    BY <1>0 DEF TypeOK
  <2>3. /\ SubSeq(wire[c]["up"], 1, n) \in Seq(Nat) /\ SubSeq(wire[c]["up"], 1, n) /= <<>>
        /\ SubSeq(wire[c]["up"], n + 1, Len(wire[c]["up"])) \in Seq(Nat)
    BY <2>2, RunSplit, 0 \in Int
  <2>4. TypeOK'
    BY <1>1, <2>1, <2>3 DEF Peek, Goto, TypeOK
  <2>5. StageInv'
    <3>1. /\ stage' = [stage EXCEPT ![c] = IF kind[c] = "socks5" THEN "socks" ELSE "http"]
          /\ kind' = kind /\ tracked' = tracked /\ pump' = pump
          /\ buf'[c] /= <<>> /\ \A e \in Conns : e /= c => buf'[e] = buf[e]
      BY <1>1, <2>1, <2>3 DEF Peek, Goto, TypeOK
    <3>2. ASSUME NEW e \in Conns, e /= c PROVE StageOf(e)'
      BY <3>1, <3>2 DEF TypeOK, StageInv, StageOf
    <3>3. StageOf(c)'
      <4>1. /\ stage'[c] = IF kind[c] = "socks5" THEN "socks" ELSE "http"
            /\ stage[c] = "peek"
        BY <1>1, <3>1 DEF Peek, TypeOK
      <4> QED
        BY <3>1, <4>1 DEF StageInv, StageOf
    <3> QED
      BY <3>2, <3>3 DEF StageInv
  <2> QED
    BY <1>1, <2>4, <2>5, KeepActive DEF Peek
<1>2. CASE PeekFails(c)
  <2>1. TypeOK'
    BY <1>2 DEF PeekFails, Goto, CloseOwn, wireVars, pumpVars, TypeOK
  <2>2. StageInv'
    BY <1>2 DEF PeekFails, Goto, wireVars, pumpVars, TypeOK, StageInv, StageOf
  <2> QED
    BY <1>2, <2>1, <2>2, KeepActive DEF PeekFails
<1>3. CASE ReadRequest(c)
  <2>1. Tail(buf[c]) \in Seq(Nat)
    BY <1>3, RunTail, 0 \in Int DEF ReadRequest, TypeOK, StageInv, StageOf
  <2>2. /\ stage' \in [Conns -> {"free", "peek", "http", "dial", "reply", "relay", "closing",
                                 "socks", "serve", "done"}]
        /\ own' \in [Conns -> SUBSET {"client", "target"}]
    <3>1. \/ Goto(c, "dial") /\ UNCHANGED own
          \/ Goto(c, "serve") /\ UNCHANGED own
          \/ Goto(c, "done") /\ CloseOwn(c, {"client"})
      BY <1>3, ReadRequestStep
    <3>2. CASE Goto(c, "dial") /\ UNCHANGED own
      BY <3>2 DEF Goto, TypeOK
    <3>3. CASE Goto(c, "serve") /\ UNCHANGED own
      BY <3>3 DEF Goto, TypeOK
    <3>4. CASE Goto(c, "done") /\ CloseOwn(c, {"client"})
      BY <3>4 DEF Goto, CloseOwn, TypeOK
    <3> QED
      BY <3>1, <3>2, <3>3, <3>4
  <2>3. TypeOK'
    BY <1>3, <2>1, <2>2 DEF ReadRequest, wireVars, TypeOK
  <2>4. /\ kind' = kind /\ tracked' = tracked /\ pump' = pump
        /\ \A e \in Conns \ {c} : buf'[e] = buf[e] /\ stage[c] = "http"
    BY <1>3 DEF ReadRequest, TypeOK
  <2>5. StageInv'
    <3>1. CASE kind[c] = "connect" /\ Goto(c, "dial")
      BY <1>3, <2>4, <3>1 DEF Goto, ReadRequest, TypeOK, StageInv, StageOf
    <3>2. CASE kind[c] = "plain" /\ Goto(c, "serve")
      BY <1>3, <2>4, <3>2 DEF Goto, ReadRequest, TypeOK, StageInv, StageOf
    <3>3. CASE kind[c] = "bad" /\ Goto(c, "done")
      BY <1>3, <2>4, <3>3 DEF Goto, ReadRequest, TypeOK, StageInv, StageOf
    <3> QED
      BY <1>3, <3>1, <3>2, <3>3, ReadRequestStep
  <2> QED
    BY <1>3, <2>3, <2>5, KeepActive DEF ReadRequest
<1>4. CASE DialFails(c)
  <2>1. out' \in [Conns -> [Dirs -> Seq(Int)]]
    <3>1. out[c]["down"] \in Seq(Int) /\ BadGateway \in Int
      BY <1>0 DEF TypeOK, BadGateway
    <3>2. Append(out[c]["down"], BadGateway) \in Seq(Int)
      BY <3>1
    <3> QED
      BY <1>4, <3>2 DEF DialFails, Answer, TypeOK
  <2>2. TypeOK'
    BY <1>4, <2>1 DEF DialFails, Goto, CloseOwn, wireVars, TypeOK
  <2>3. StageInv'
    BY <1>4 DEF DialFails, Goto, TypeOK, StageInv, StageOf
  <2> QED
    BY <1>4, <2>2, <2>3, KeepActive DEF DialFails
<1>5. CASE DialOk(c)
  <2>1. tracked[c] = "none" /\ Track(c, "http")
    BY <1>5 DEF DialOk, StageInv, StageOf
  <2>2. TypeOK'
    BY <1>5, <2>1, TrackStep DEF DialOk, Goto, wireVars, pumpVars, TypeOK
  <2>3. StageInv'
    BY <1>5, <2>1 DEF DialOk, Track, Goto, wireVars, pumpVars, TypeOK, StageInv, StageOf
  <2> QED
    BY <2>1, <2>2, <2>3, TrackStep
<1>6. CASE Reply(c)
  <2>1. out' \in [Conns -> [Dirs -> Seq(Int)]]
    <3>1. out[c]["down"] \in Seq(Int) /\ OkHead \in Int
      BY <1>0 DEF TypeOK, OkHead
    <3>2. Append(out[c]["down"], OkHead) \in Seq(Int)
      BY <3>1
    <3> QED
      BY <1>6, <3>2 DEF Reply, Answer, TypeOK
  <2>2. TypeOK'
    BY <1>6, <2>1 DEF Reply, Goto, Both, wireVars, TypeOK
  <2>3. StageInv'
    BY <1>6 DEF Reply, Goto, TypeOK, StageInv, StageOf
  <2> QED
    BY <1>6, <2>2, <2>3, KeepActive DEF Reply
<1>7. CASE FirstDone(c)
  <2>1. TypeOK'
    BY <1>7 DEF FirstDone, Goto, wireVars, TypeOK
  <2>2. StageInv'
    BY <1>7 DEF FirstDone, Goto, TypeOK, StageInv, StageOf
  <2> QED
    BY <1>7, <2>1, <2>2, KeepActive DEF FirstDone
<1>8. CASE CloseTarget(c)
  <2>1. TypeOK'
    BY <1>8 DEF CloseTarget, CloseOwn, connVars, wireVars, pumpVars, TypeOK
  <2>2. StageInv'
    BY <1>8 DEF CloseTarget, connVars, pumpVars, StageInv, StageOf
  <2> QED
    BY <1>8, <2>1, <2>2, KeepActive DEF CloseTarget
<1>9. CASE CloseClient(c)
  <2>1. TypeOK'
    BY <1>9 DEF CloseClient, Goto, CloseOwn, wireVars, pumpVars, TypeOK
  <2>2. StageInv'
    BY <1>9 DEF CloseClient, Goto, pumpVars, TypeOK, StageInv, StageOf
  <2> QED
    BY <1>9, <2>1, <2>2, KeepActive DEF CloseClient
<1> QED
  BY <1>1, <1>2, <1>3, <1>4, <1>5, <1>6, <1>7, <1>8, <1>9 DEF Handler

\* A goroutine that copies exists only in the later stages of a tunnel.
LEMMA PumpStage ==
  ASSUME BaseInv, NEW c \in Conns, NEW d \in Dirs, pump[c][d] /= "off",
         NEW s, pump' = [pump EXCEPT ![c][d] = s],
         UNCHANGED <<kind, stage, tracked>>, \A e \in Conns \ {c} : buf'[e] = buf[e]
  PROVE  StageInv'
<1>1. kind[c] = "connect" /\ stage[c] \in {"relay", "closing", "done"}
  BY DEF BaseInv, TypeOK, StageInv, StageOf, Dirs
<1>2. ASSUME NEW e \in Conns, e /= c PROVE StageOf(e)'
  <2>1. pump'[e] = pump[e] /\ buf'[e] = buf[e]
    BY <1>2 DEF BaseInv, TypeOK
  <2>2. StageOf(e)
    BY DEF BaseInv, StageInv
  <2> QED
    BY <2>1, <2>2 DEF StageOf
<1>3. StageOf(c)'
  BY <1>1 DEF StageOf
<1> QED
  BY <1>2, <1>3 DEF StageInv

\* io.Copy, in either direction.
LEMMA PumpBase ==
  ASSUME BaseInv, NEW c \in Conns, NEW d \in Dirs,
         \/ PumpRead(c, d) \/ PumpWrite(c, d) \/ PumpStops(c, d) \/ PumpReports(c, d)
  PROVE  BaseInv'
<1> USE DEF BaseInv
<1>0. /\ wire[c][d] \in Seq(Nat) /\ held[c][d] \in Seq(Nat) /\ buf[c] \in Seq(Nat)
      /\ out[c][d] \in Seq(Int) /\ "up" \in Dirs /\ "down" \in Dirs
      /\ stats \in [{"total", "active", "http", "socks5", "sent", "received"} -> Nat]
  BY DEF TypeOK, Dirs
<1>1. CASE PumpRead(c, d)
  <2>1. /\ held' \in [Conns -> [Dirs -> Seq(Nat)]] /\ held'[c][d] \in Seq(Nat)
        /\ buf' \in [Conns -> Seq(Nat)] /\ wire' \in [Conns -> [Dirs -> Seq(Nat)]]
        /\ \A e \in Conns \ {c} : buf'[e] = buf[e]
    <3>1. CASE Buffered(c, d)
      <4>1. /\ held' = [held EXCEPT ![c][d] = buf[c]]
            /\ buf' = [buf EXCEPT ![c] = <<>>] /\ wire' = wire
        BY <1>1, <3>1 DEF PumpRead
      <4> QED
        BY <1>0, <4>1 DEF TypeOK
    <3>2. CASE ~Buffered(c, d)
      <4>1. PICK n \in 1..Len(wire[c][d]) :
              /\ held' = [held EXCEPT ![c][d] = SubSeq(wire[c][d], 1, n)]
              /\ wire' = [wire EXCEPT ![c][d] = SubSeq(@, n + 1, Len(@))]
        BY <1>1, <3>2 DEF PumpRead
      <4>2. /\ SubSeq(wire[c][d], 1, n) \in Seq(Nat)
            /\ SubSeq(wire[c][d], n + 1, Len(wire[c][d])) \in Seq(Nat)
        BY <1>0, RunSplit, 0 \in Int
      <4>3. buf' = buf
        BY <1>1, <3>2 DEF PumpRead
      <4> QED
        BY <4>1, <4>2, <4>3 DEF TypeOK
    <3> QED
      BY <3>1, <3>2
  <2>2. /\ stats' \in [{"total", "active", "http", "socks5", "sent", "received"} -> Nat]
        /\ stats'["active"] = stats["active"]
    <3>1. Len(held'[c][d]) \in Nat /\ stats["received"] + Len(held'[c][d]) \in Nat
      BY <1>0, <2>1
    <3> QED
      BY <1>0, <1>1, <3>1 DEF PumpRead
  <2>3. TypeOK'
    BY <1>1, <2>1, <2>2 DEF PumpRead, connVars, TypeOK
  <2>4. /\ pump[c][d] /= "off" /\ pump' = [pump EXCEPT ![c][d] = "write"]
        /\ UNCHANGED <<kind, stage, tracked>>
    BY <1>1 DEF PumpRead, connVars
  <2>5. StageInv'
    BY <2>1, <2>4, PumpStage
  <2> QED
    BY <1>1, <2>2, <2>3, <2>5, KeepActive DEF PumpRead
<1>2. CASE PumpWrite(c, d)
  <2>1. out[c][d] \o held[c][d] \in Seq(Int)
    BY <1>0
  <2>2. /\ stats' \in [{"total", "active", "http", "socks5", "sent", "received"} -> Nat]
        /\ stats'["active"] = stats["active"]
    <3>1. Len(held[c][d]) \in Nat /\ stats["sent"] + Len(held[c][d]) \in Nat
      BY <1>0
    <3> QED
      BY <1>0, <1>2, <3>1 DEF PumpWrite
  <2>3. TypeOK'
    BY <1>2, <2>1, <2>2 DEF PumpWrite, connVars, wireVars, TypeOK
  <2>4. StageInv'
    <3>1. /\ pump[c][d] /= "off" /\ pump' = [pump EXCEPT ![c][d] = "read"]
          /\ UNCHANGED <<kind, stage, tracked, buf>>
      BY <1>2 DEF PumpWrite, connVars
    <3> QED
      BY <3>1, PumpStage
  <2> QED
    BY <1>2, <2>2, <2>3, <2>4, KeepActive DEF PumpWrite
<1>3. CASE PumpStops(c, d)
  <2>1. TypeOK'
    BY <1>3 DEF PumpStops, connVars, wireVars, TypeOK
  <2>2. StageInv'
    <3>1. /\ pump[c][d] /= "off" /\ pump' = [pump EXCEPT ![c][d] = "report"]
          /\ UNCHANGED <<kind, stage, tracked, buf>>
      BY <1>3 DEF PumpStops, connVars
    <3> QED
      BY <3>1, PumpStage
  <2> QED
    BY <1>3, <2>1, <2>2, KeepActive DEF PumpStops
<1>4. CASE PumpReports(c, d)
  <2>1. errCh' \in [Conns -> 0..2]
    <3>1. errCh[c] \in 0..2 /\ (errCh[c] < 2 \/ errCh[c] = 0)
      BY <1>4 DEF PumpReports, ErrChCap, TypeOK
    <3>2. errCh[c] + 1 \in 0..2
      BY <3>1
    <3> QED
      BY <1>4, <3>2 DEF PumpReports, TypeOK
  <2>2. TypeOK'
    BY <1>4, <2>1 DEF PumpReports, connVars, wireVars, TypeOK
  <2>3. StageInv'
    <3>1. /\ pump[c][d] /= "off" /\ pump' = [pump EXCEPT ![c][d] = "ended"]
          /\ UNCHANGED <<kind, stage, tracked, buf>>
      BY <1>4 DEF PumpReports, connVars
    <3> QED
      BY <3>1, PumpStage
  <2> QED
    BY <1>4, <2>2, <2>3, KeepActive DEF PumpReports
<1> QED
  BY <1>1, <1>2, <1>3, <1>4

\* goproxy, its transport and go-socks5.
LEMMA LibrariesBase ==
  ASSUME BaseInv, NEW c \in Conns, Libraries(c)
  PROVE  BaseInv'
<1> USE DEF BaseInv
<1>0. /\ out[c]["down"] \in Seq(Int) /\ sent[c]["down"] \in Nat
      /\ "up" \in Dirs /\ "down" \in Dirs
  BY DEF TypeOK, Dirs
<1>1. CASE TransportDials(c)
  <2>1. tracked[c] = "none" /\ Track(c, "http")
    BY <1>1 DEF TransportDials
  <2>2. TypeOK'
    BY <1>1, <2>1, TrackStep DEF TransportDials, connVars, wireVars, pumpVars, TypeOK
  <2>3. StageInv'
    BY <1>1, <2>1 DEF TransportDials, Track, connVars, pumpVars, TypeOK, StageInv, StageOf
  <2> QED
    BY <2>1, <2>2, <2>3, TrackStep
<1>2. CASE WriteHeader(c)
  <2>1. Append(out[c]["down"], OkHead) \in Seq(Int)
    BY <1>0 DEF OkHead
  <2>2. TypeOK'
    BY <1>2, <2>1 DEF WriteHeader, Answer, connVars, wireVars, TypeOK
  <2>3. StageInv'
    BY <1>2 DEF WriteHeader, connVars, StageInv, StageOf
  <2> QED
    BY <1>2, <2>2, <2>3, KeepActive DEF WriteHeader
<1>3. CASE WriteBody(c)
  <2>1. sent' \in [Conns -> [Dirs -> Nat]] /\ sent'[c]["down"] \in Nat
    BY <1>0, <1>3 DEF WriteBody, TypeOK
  <2>2. (IF written[c] THEN out[c]["down"] ELSE Append(out[c]["down"], OkHead))
          \o <<sent'[c]["down"]>> \in Seq(Int)
    BY <1>0, <2>1 DEF OkHead
  <2>3. out' \in [Conns -> [Dirs -> Seq(Int)]]
    BY <1>3, <2>2 DEF WriteBody, TypeOK
  <2>4. TypeOK'
    BY <1>3, <2>1, <2>3 DEF WriteBody, connVars, TypeOK
  <2>5. StageInv'
    BY <1>3 DEF WriteBody, connVars, StageInv, StageOf
  <2> QED
    BY <1>3, <2>4, <2>5, KeepActive DEF WriteBody
<1>4. CASE Served(c)
  <2>1. TypeOK'
    BY <1>4 DEF Served, Goto, wireVars, pumpVars, TypeOK
  <2>2. StageInv'
    BY <1>4 DEF Served, Goto, pumpVars, TypeOK, StageInv, StageOf
  <2> QED
    BY <1>4, <2>1, <2>2, KeepActive DEF Served
<1>5. CASE SocksDials(c)
  <2>1. tracked[c] = "none" /\ Track(c, "socks5")
    BY <1>5 DEF SocksDials
  <2>2. TypeOK'
    BY <1>5, <2>1, TrackStep DEF SocksDials, connVars, wireVars, pumpVars, TypeOK
  <2>3. StageInv'
    BY <1>5, <2>1 DEF SocksDials, Track, connVars, pumpVars, TypeOK, StageInv, StageOf
  <2> QED
    BY <2>1, <2>2, <2>3, TrackStep
<1>6. CASE SocksServed(c)
  <2>1. TypeOK'
    BY <1>6 DEF SocksServed, Goto, CloseOwn, wireVars, pumpVars, TypeOK
  <2>2. StageInv'
    BY <1>6 DEF SocksServed, Goto, pumpVars, TypeOK, StageInv, StageOf
  <2> QED
    BY <1>6, <2>1, <2>2, KeepActive DEF SocksServed
<1>7. CASE LibraryCloses(c)
  <2>1. tracked[c] /= "none" /\ TrackedClose(c)
    BY <1>7 DEF LibraryCloses
  <2>2. TypeOK'
    BY <1>7, <2>1, CloseStep DEF LibraryCloses, CloseOwn, connVars, wireVars, pumpVars, TypeOK
  <2>3. StageInv'
    BY <1>7, <2>1 DEF LibraryCloses, TrackedClose, connVars, pumpVars, TypeOK, StageInv, StageOf
  <2> QED
    BY <2>1, <2>2, <2>3, CloseStep
<1> QED
  BY <1>1, <1>2, <1>3, <1>4, <1>5, <1>6, <1>7 DEF Libraries

LEMMA StutterBase ==
  ASSUME BaseInv, UNCHANGED vars
  PROVE  BaseInv'
<1>1. TypeOK' /\ StageInv'
  BY DEF BaseInv, TypeOK, StageInv, StageOf, vars, connVars, wireVars, pumpVars
<1> QED
  BY <1>1, KeepActive DEF BaseInv, vars

LEMMA BaseInvariant == Spec => []BaseInv
<1>1. Init => BaseInv
  BY InitBase
<1>2. BaseInv /\ [Next]_vars => BaseInv'
  BY PeersBase, HandlerBase, PumpBase, LibrariesBase, StutterBase DEF Next, Pump
<1> QED
  BY <1>1, <1>2, PTL DEF Spec

\* The state of every connection stays well formed, and no counter of the
\* Collector goes below zero: RecordDisconnection is called at most once for
\* a connection that was recorded.
THEOREM TypeCorrect == Spec => []TypeOK
<1>1. BaseInv => TypeOK
  BY DEF BaseInv
<1> QED
  BY <1>1, BaseInvariant, PTL

-----------------------------------------------------------------------------
(* The two streams.  Every connection is on its own: TunnelOf and AnswerOf  *)
(* speak of one, and an action of another one leaves them alone.            *)

\* Sockets and goroutines of a CONNECT connection by the stage of its handler.
OwnOf(c) ==
  /\ stage[c] \in {"free", "done"} => own[c] = {}
  /\ stage[c] \in {"peek", "http", "dial"} => own[c] = {"client"}
  /\ stage[c] \in {"reply", "relay"} => own[c] = {"client", "target"}
  /\ stage[c] = "closing" => "client" \in own[c]
  /\ stage[c] \in {"relay", "closing"} => pump[c]["up"] /= "off"
  /\ pump[c]["up"] = "off" <=> pump[c]["down"] = "off"
  /\ eof[c]["down"] => stage[c] \in {"reply", "relay", "closing"} \/ pump[c]["up"] /= "off"
  /\ held[c]["up"] /= <<>> <=> pump[c]["up"] = "write"
  /\ held[c]["down"] /= <<>> <=> pump[c]["down"] = "write"

\* The head of the request has been taken out of the stream.
Taken(c) == IF stage[c] \in {"free", "peek", "http"} THEN 0 ELSE 1

\* What was delivered, is held, buffered and on the wire is one run of pieces
\* up to the last one sent, as long as the copying goroutine goes on.
UpFlow(c) ==
  LET a == Taken(c) + Len(out[c]["up"])
      b == a + Len(held[c]["up"])
      e == b + Len(buf[c])
  IN  /\ Run(out[c]["up"], 1)
      /\ stage[c] \in {"free", "peek", "http", "dial", "reply"} => out[c]["up"] = <<>>
      /\ stage[c] \in {"free", "peek"} => buf[c] = <<>>
      /\ stage[c] /= "done" /\ pump[c]["up"] \in {"off", "read", "write"} =>
           /\ Run(held[c]["up"], a) /\ Run(buf[c], b) /\ Run(wire[c]["up"], e)
           /\ sent[c]["up"] = e + Len(wire[c]["up"])

\* The 200 line is still to be written.
Awaited(c) == IF pump[c]["down"] = "off" THEN 1 ELSE 0

\* The same downwards, where the first piece delivered is the 200 line.
DownFlow(c) ==
  LET a == Awaited(c) + Len(out[c]["down"])
      b == a + Len(held[c]["down"])
  IN  /\ \/ Run(out[c]["down"], 0)
         \/ stage[c] = "done" /\ out[c]["down"] = <<BadGateway>>
      /\ stage[c] \in {"free", "peek", "http", "dial", "reply"} => out[c]["down"] = <<>>
      /\ stage[c] \in {"free", "peek", "http", "dial"} => sent[c]["down"] = 0
      /\ stage[c] /= "done" /\ pump[c]["down"] \in {"off", "read", "write"} =>
           /\ Run(held[c]["down"], a) /\ Run(wire[c]["down"], b)
           /\ sent[c]["down"] + 1 = b + Len(wire[c]["down"])

UpLost(c)   == Stopped(c, "up") /\ Len(out[c]["up"]) + 1 < sent[c]["up"]
DownDone(c) == /\ Stopped(c, "down") /\ eof[c]["down"]
               /\ Len(out[c]["down"]) = sent[c]["down"] + 1

\* Why a direction has ended before the handler closed anything: the client
\* has closed, or sends what cannot be delivered, or the answer is complete.
EndOf(c) ==
  /\ errCh[c] > 0 => Stopped(c, "up") \/ Stopped(c, "down")
  /\ stage[c] = "relay" /\ Stopped(c, "up") => eof[c]["up"] \/ UpLost(c)
  /\ stage[c] = "relay" /\ Stopped(c, "down") => eof[c]["up"] \/ DownDone(c)
  /\ stage[c] \in {"closing", "done"} /\ pump[c]["up"] /= "off" =>
       eof[c]["up"] \/ UpLost(c) \/ DownDone(c)

TunnelOf(c) == kind[c] = "connect" => OwnOf(c) /\ UpFlow(c) /\ DownFlow(c) /\ EndOf(c)

\* What goproxy has written to a client, the head first.
AnswerOf(c) == kind[c] /= "connect" =>
  /\ Run(out[c]["down"], 0)
  /\ written[c] => Len(out[c]["down"]) = sent[c]["down"] + 1
  /\ ~written[c] => out[c]["down"] = <<>> /\ sent[c]["down"] = 0

IInv == BaseInv /\ \A c \in Conns : TunnelOf(c) /\ AnswerOf(c)

Moves(c) == Peers(c) \/ Handler(c) \/ Pump(c) \/ Libraries(c)

Same(e) ==
  /\ kind'[e] = kind[e] /\ stage'[e] = stage[e] /\ wire'[e] = wire[e]
  /\ sent'[e] = sent[e] /\ eof'[e] = eof[e] /\ buf'[e] = buf[e]
  /\ pump'[e] = pump[e] /\ held'[e] = held[e] /\ out'[e] = out[e]
  /\ own'[e] = own[e] /\ errCh'[e] = errCh[e] /\ written'[e] = written[e]

LEMMA SameKeeps ==
  ASSUME NEW e \in Conns, TunnelOf(e), AnswerOf(e), Same(e)
  PROVE  TunnelOf(e)' /\ AnswerOf(e)'
<1>1. OwnOf(e) => OwnOf(e)'
  BY DEF Same, OwnOf
<1>2. UpFlow(e) => UpFlow(e)'
  <2>1. Taken(e)' = Taken(e)
    BY DEF Same, Taken
  <2> QED
    BY <2>1 DEF Same, UpFlow
<1>3. DownFlow(e) => DownFlow(e)'
  BY DEF Same, DownFlow, Awaited, Run
<1>4. EndOf(e) => EndOf(e)'
  BY DEF Same, EndOf, Stopped, UpLost, DownDone
<1>5. TunnelOf(e)'
  BY <1>1, <1>2, <1>3, <1>4 DEF Same, TunnelOf
<1>6. AnswerOf(e)'
  BY DEF Same, AnswerOf, Run
<1> QED
  BY <1>5, <1>6

LEMMA Others ==
  ASSUME BaseInv, NEW c \in Conns, NEW e \in Conns, e /= c, Moves(c)
  PROVE  Same(e)
<1> USE DEF BaseInv, TypeOK, Same, connVars, wireVars, pumpVars
<1>1. CASE Peers(c)
  BY <1>1 DEF Peers, Arrive, ClientSends, TargetSends, SourceSends, SourceCloses, Goto
<1>2. CASE Peek(c)
  BY <1>2 DEF Peek, Goto
<1>3. CASE ReadRequest(c)
  <2>1. own'[e] = own[e] /\ stage'[e] = stage[e]
    <3>1. \/ Goto(c, "dial") /\ UNCHANGED own
          \/ Goto(c, "serve") /\ UNCHANGED own
          \/ Goto(c, "done") /\ CloseOwn(c, {"client"})
      BY <1>3, ReadRequestStep
    <3> QED
      BY <3>1 DEF Goto, CloseOwn
  <2> QED
    BY <1>3, <2>1 DEF ReadRequest
<1>4. CASE PeekFails(c) \/ DialFails(c) \/ DialOk(c) \/ Reply(c) \/ FirstDone(c)
             \/ CloseTarget(c) \/ CloseClient(c)
  BY <1>4 DEF PeekFails, DialFails, DialOk, Reply, FirstDone, CloseTarget, CloseClient,
              Goto, CloseOwn, Answer
<1>5. ASSUME NEW d \in Dirs,
             PumpRead(c, d) \/ PumpWrite(c, d) \/ PumpStops(c, d) \/ PumpReports(c, d)
      PROVE  Same(e)
  BY <1>5 DEF PumpRead, PumpWrite, PumpStops, PumpReports
<1>6. CASE Libraries(c)
  BY <1>6 DEF Libraries, TransportDials, WriteHeader, WriteBody, Served, SocksDials,
              SocksServed, LibraryCloses, Goto, CloseOwn, Answer
<1> QED
  BY <1>1, <1>2, <1>3, <1>4, <1>5, <1>6 DEF Moves, Handler, Pump

LEMMA TypesOf ==
  ASSUME BaseInv, NEW c \in Conns
  PROVE  /\ wire[c]["up"] \in Seq(Nat) /\ wire[c]["down"] \in Seq(Nat)
         /\ held[c]["up"] \in Seq(Nat) /\ held[c]["down"] \in Seq(Nat)
         /\ out[c]["up"] \in Seq(Int) /\ out[c]["down"] \in Seq(Int)
         /\ sent[c]["up"] \in Nat /\ sent[c]["down"] \in Nat
         /\ buf[c] \in Seq(Nat) /\ errCh[c] \in 0..2
         /\ \A d \in Dirs : pump[c][d] \in {"off", "read", "write", "report", "ended"}
         /\ "up" \in Dirs /\ "down" \in Dirs
         /\ kind[c] \in AllKinds /\ StageOf(c)
BY DEF BaseInv, TypeOK, StageInv, Dirs

LEMMA ArriveFlow ==
  ASSUME IInv, NEW c \in Conns, Arrive(c)
  PROVE  TunnelOf(c)' /\ AnswerOf(c)'
<1>0. BaseInv /\ TunnelOf(c) /\ AnswerOf(c)
  BY DEF IInv
<1>1. /\ stage[c] = "free" /\ stage'[c] = "peek" /\ own'[c] = {"client"}
      /\ UNCHANGED <<kind, wire, sent, eof, buf, pump, held, out, errCh, written>>
  BY <1>0 DEF Arrive, Goto, wireVars, pumpVars, BaseInv, TypeOK
<1>2. AnswerOf(c)'
  BY <1>0, <1>1 DEF AnswerOf
<1>3. ASSUME kind[c] = "connect" PROVE OwnOf(c)' /\ UpFlow(c)' /\ DownFlow(c)' /\ EndOf(c)'
  <2>1. OwnOf(c) /\ UpFlow(c) /\ DownFlow(c) /\ EndOf(c)
    BY <1>0, <1>3 DEF TunnelOf
  <2>2. OwnOf(c)'
    BY <1>1, <2>1 DEF OwnOf
  <2>3. UpFlow(c)'
    BY <1>1, <2>1 DEF UpFlow, Taken
  <2>4. DownFlow(c)'
    BY <1>1, <2>1 DEF DownFlow, Awaited
  <2>5. EndOf(c)'
    BY <1>1, <2>1 DEF EndOf, Stopped, UpLost, DownDone
  <2> QED
    BY <2>2, <2>3, <2>4, <2>5
<1> QED
  BY <1>1, <1>2, <1>3 DEF TunnelOf

LEMMA ClientSendsFlow ==
  ASSUME IInv, NEW c \in Conns, ClientSends(c)
  PROVE  TunnelOf(c)' /\ AnswerOf(c)'
<1>0. BaseInv /\ TunnelOf(c) /\ AnswerOf(c)
  BY DEF IInv
<1>1. /\ stage[c] /= "free"
      /\ sent'[c]["up"] = sent[c]["up"] + 1 /\ sent'[c]["down"] = sent[c]["down"]
      /\ wire'[c]["up"] = Append(wire[c]["up"], sent[c]["up"])
      /\ wire'[c]["down"] = wire[c]["down"]
      /\ UNCHANGED <<kind, stage, eof, buf, pump, held, out, own, errCh, written>>
  BY <1>0, TypesOf DEF ClientSends, SourceSends, connVars, pumpVars, BaseInv, TypeOK
<1>2. AnswerOf(c)'
  BY <1>0, <1>1 DEF AnswerOf
<1>3. ASSUME kind[c] = "connect" PROVE OwnOf(c)' /\ UpFlow(c)' /\ DownFlow(c)' /\ EndOf(c)'
  <2>1. OwnOf(c) /\ UpFlow(c) /\ DownFlow(c) /\ EndOf(c)
    BY <1>0, <1>3 DEF TunnelOf
  <2>2. OwnOf(c)'
    BY <1>1, <2>1 DEF OwnOf
  <2>3. UpFlow(c)'
    <3>1. \A e \in Int : Run(wire[c]["up"], e) /\ sent[c]["up"] = e + Len(wire[c]["up"]) =>
            /\ Run(wire'[c]["up"], e)
            /\ sent'[c]["up"] = e + Len(wire'[c]["up"])
      <4> SUFFICES ASSUME NEW e \in Int, Run(wire[c]["up"], e),
                          sent[c]["up"] = e + Len(wire[c]["up"])
                   PROVE  /\ Run(wire'[c]["up"], e)
                          /\ sent'[c]["up"] = e + Len(wire'[c]["up"])
        OBVIOUS
      <4>1. wire[c]["up"] \in Seq(Int) /\ sent[c]["up"] \in Int
        BY <1>0, TypesOf
      <4>2. /\ Run(wire'[c]["up"], e)
            /\ Len(wire'[c]["up"]) = Len(wire[c]["up"]) + 1
        BY <1>1, <4>1, RunAppend
      <4> QED
        BY <1>1, <4>1, <4>2
    <3>2. Taken(c) + Len(out[c]["up"]) + Len(held[c]["up"]) + Len(buf[c]) \in Int
      BY <1>0, TypesOf DEF Taken
    <3> QED
      BY <1>1, <2>1, <3>1, <3>2 DEF UpFlow, Taken
  <2>4. DownFlow(c)'
    BY <1>1, <2>1 DEF DownFlow, Awaited
  <2>5. EndOf(c)'
    BY <1>0, <1>1, <2>1, TypesOf DEF EndOf, Stopped, UpLost, DownDone
  <2> QED
    BY <2>2, <2>3, <2>4, <2>5
<1> QED
  BY <1>1, <1>2, <1>3 DEF TunnelOf

LEMMA TargetSendsFlow ==
  ASSUME IInv, NEW c \in Conns, TargetSends(c)
  PROVE  TunnelOf(c)' /\ AnswerOf(c)'
<1>0. BaseInv /\ TunnelOf(c) /\ AnswerOf(c) /\ kind[c] = "connect"
  BY DEF IInv, TargetSends
<1>1. /\ "target" \in own[c] /\ ~eof[c]["down"]
      /\ sent'[c]["down"] = sent[c]["down"] + 1 /\ sent'[c]["up"] = sent[c]["up"]
      /\ wire'[c]["down"] = Append(wire[c]["down"], sent[c]["down"] + 1)
      /\ wire'[c]["up"] = wire[c]["up"]
      /\ UNCHANGED <<kind, stage, eof, buf, pump, held, out, own, errCh, written>>
  BY <1>0, TypesOf DEF TargetSends, SourceSends, connVars, pumpVars, BaseInv, TypeOK
<1>2. OwnOf(c) /\ UpFlow(c) /\ DownFlow(c) /\ EndOf(c)
  BY <1>0 DEF TunnelOf
<1>3. OwnOf(c)'
  BY <1>1, <1>2 DEF OwnOf
<1>4. UpFlow(c)'
  BY <1>1, <1>2 DEF UpFlow, Taken
<1>5. DownFlow(c)'
  <2>1. stage[c] \notin {"free", "peek", "http", "dial"}
    BY <1>1, <1>2 DEF OwnOf
  <2>2. \A b \in Int : Run(wire[c]["down"], b) /\ sent[c]["down"] + 1 = b + Len(wire[c]["down"]) =>
          /\ Run(wire'[c]["down"], b)
          /\ sent'[c]["down"] + 1 = b + Len(wire'[c]["down"])
    <3> SUFFICES ASSUME NEW b \in Int, Run(wire[c]["down"], b),
                        sent[c]["down"] + 1 = b + Len(wire[c]["down"])
                 PROVE  /\ Run(wire'[c]["down"], b)
                        /\ sent'[c]["down"] + 1 = b + Len(wire'[c]["down"])
      OBVIOUS
    <3>1. wire[c]["down"] \in Seq(Int) /\ sent[c]["down"] + 1 \in Int
      BY <1>0, TypesOf
    <3>2. /\ Run(wire'[c]["down"], b)
          /\ Len(wire'[c]["down"]) = Len(wire[c]["down"]) + 1
      BY <1>1, <3>1, RunAppend
    <3> QED
      BY <1>1, <3>1, <3>2
  <2>3. Awaited(c) + Len(out[c]["down"]) + Len(held[c]["down"]) \in Int
    BY <1>0, TypesOf DEF Awaited
  <2> QED
    BY <1>1, <1>2, <2>1, <2>2, <2>3 DEF DownFlow, Awaited
<1>6. EndOf(c)'
  BY <1>1, <1>2 DEF EndOf, Stopped, UpLost, DownDone
<1> QED
  BY <1>0, <1>1, <1>3, <1>4, <1>5, <1>6 DEF TunnelOf, AnswerOf

LEMMA SourceClosesFlow ==
  ASSUME IInv, NEW c \in Conns, NEW d \in Dirs, SourceCloses(c, d)
  PROVE  TunnelOf(c)' /\ AnswerOf(c)'
<1>0. BaseInv /\ TunnelOf(c) /\ AnswerOf(c)
  BY DEF IInv
<1>1. /\ eof'[c][d] /\ (d = "down" => kind[c] = "connect" /\ "target" \in own[c])
      /\ \A e \in Dirs : eof[c][e] => eof'[c][e]
      /\ d = "up" => eof'[c]["down"] = eof[c]["down"]
      /\ UNCHANGED <<kind, stage, wire, sent, buf, pump, held, out, own, errCh, written>>
  <2>1. /\ eof' = [eof EXCEPT ![c][d] = TRUE]
        /\ (d = "down" => kind[c] = "connect" /\ "target" \in own[c])
        /\ UNCHANGED <<kind, stage, wire, sent, buf, pump, held, out, own, errCh, written>>
    BY DEF SourceCloses, connVars, pumpVars
  <2>2. eof \in [Conns -> [Dirs -> BOOLEAN]] /\ "down" \in Dirs
    BY <1>0 DEF BaseInv, TypeOK, Dirs
  <2>3. /\ eof'[c][d] /\ \A e \in Dirs : eof[c][e] => eof'[c][e]
        /\ d = "up" => eof'[c]["down"] = eof[c]["down"]
    BY <2>1, <2>2
  <2> QED
    BY <2>1, <2>3
<1>2. AnswerOf(c)'
  BY <1>0, <1>1 DEF AnswerOf
<1>3. ASSUME kind[c] = "connect" PROVE OwnOf(c)' /\ UpFlow(c)' /\ DownFlow(c)' /\ EndOf(c)'
  <2>1. OwnOf(c) /\ UpFlow(c) /\ DownFlow(c) /\ EndOf(c)
    BY <1>0, <1>3 DEF TunnelOf
  <2>2. OwnOf(c)'
    <3>1. d = "down" => stage[c] \in {"reply", "relay", "closing"}
      <4>1. /\ stage[c] \in {"free", "peek", "http", "dial", "reply", "relay", "closing",
                             "socks", "serve", "done"}
            /\ stage[c] \notin {"socks", "serve"}
        BY <1>0, <1>3, TypesOf DEF BaseInv, TypeOK, StageOf
      <4> QED
        BY <1>1, <2>1, <4>1 DEF OwnOf
    <3>2. eof'[c]["down"] => eof[c]["down"] \/ d = "down"
      BY <1>1 DEF Dirs
    <3> QED
      BY <1>1, <2>1, <3>1, <3>2 DEF OwnOf
  <2>3. UpFlow(c)'
    BY <1>1, <2>1 DEF UpFlow, Taken
  <2>4. DownFlow(c)'
    BY <1>1, <2>1 DEF DownFlow, Awaited
  <2>5. EndOf(c)'
    BY <1>1, <2>1 DEF EndOf, Stopped, UpLost, DownDone, Dirs
  <2> QED
    BY <2>2, <2>3, <2>4, <2>5
<1> QED
  BY <1>1, <1>2, <1>3 DEF TunnelOf

\* The steps of the handler that close or answer nothing, or only the end of
\* a connection that was never a tunnel.
LEMMA PeekFlow ==
  ASSUME IInv, NEW c \in Conns, Peek(c)
  PROVE  TunnelOf(c)' /\ AnswerOf(c)'
<1>0. BaseInv /\ TunnelOf(c) /\ AnswerOf(c)
  BY DEF IInv
<1>1. PICK n \in 1..Len(wire[c]["up"]) :
        /\ buf' = [buf EXCEPT ![c] = SubSeq(wire[c]["up"], 1, n)]
        /\ wire' = [wire EXCEPT ![c]["up"] = SubSeq(@, n + 1, Len(@))]
  BY DEF Peek
<1>2. /\ stage[c] = "peek" /\ stage'[c] = IF kind[c] = "socks5" THEN "socks" ELSE "http"
      /\ buf'[c] = SubSeq(wire[c]["up"], 1, n)
      /\ wire'[c]["up"] = SubSeq(wire[c]["up"], n + 1, Len(wire[c]["up"]))
      /\ wire'[c]["down"] = wire[c]["down"]
      /\ UNCHANGED <<kind, sent, eof, pump, held, out, own, errCh, written>>
  <2>1. stage[c] = "peek" /\ stage'[c] = IF kind[c] = "socks5" THEN "socks" ELSE "http"
    BY <1>0 DEF Peek, Goto, BaseInv, TypeOK
  <2>2. /\ buf'[c] = SubSeq(wire[c]["up"], 1, n)
        /\ wire'[c]["up"] = SubSeq(wire[c]["up"], n + 1, Len(wire[c]["up"]))
        /\ wire'[c]["down"] = wire[c]["down"]
    BY <1>0, <1>1, TypesOf DEF BaseInv, TypeOK
  <2> QED
    BY <2>1, <2>2 DEF Peek
<1>3. AnswerOf(c)'
  BY <1>0, <1>2 DEF AnswerOf
<1>4. ASSUME kind[c] = "connect" PROVE OwnOf(c)' /\ UpFlow(c)' /\ DownFlow(c)' /\ EndOf(c)'
  <2>1. OwnOf(c) /\ UpFlow(c) /\ DownFlow(c) /\ EndOf(c) /\ stage'[c] = "http"
    BY <1>0, <1>2, <1>4 DEF TunnelOf
  <2>2. pump[c]["up"] = "off" /\ pump[c]["down"] = "off"
    BY <1>0, <1>2, TypesOf DEF StageOf
  <2>3. OwnOf(c)'
    BY <1>2, <2>1 DEF OwnOf
  <2>4. UpFlow(c)'
    <3>1. held[c]["up"] = <<>> /\ out[c]["up"] = <<>> /\ buf[c] = <<>>
      BY <1>2, <2>1, <2>2, TypesOf, <1>0 DEF OwnOf, UpFlow
    <3>2. Run(wire[c]["up"], 0) /\ sent[c]["up"] = Len(wire[c]["up"])
      BY <1>0, <1>2, <2>1, <2>2, <3>1, TypesOf DEF UpFlow, Taken
    <3>3. /\ Run(buf'[c], 0) /\ Run(wire'[c]["up"], n)
          /\ Len(buf'[c]) = n /\ Len(wire'[c]["up"]) = Len(wire[c]["up"]) - n
      BY <1>0, <1>2, <3>2, TypesOf, RunSplit
    <3>4. /\ out'[c]["up"] = <<>> /\ held'[c]["up"] = <<>> /\ Taken(c)' = 0
          /\ sent'[c]["up"] = Len(wire[c]["up"])
      BY <1>2, <2>1, <3>1, <3>2 DEF Taken
    <3> QED
      BY <1>0, <2>1, <3>3, <3>4, RunEmpty, TypesOf DEF UpFlow
  <2>5. DownFlow(c)'
    BY <1>2, <2>1 DEF DownFlow, Awaited
  <2>6. EndOf(c)'
    BY <1>2, <2>1 DEF EndOf, Stopped, UpLost, DownDone
  <2> QED
    BY <2>3, <2>4, <2>5, <2>6
<1> QED
  BY <1>2, <1>3, <1>4 DEF TunnelOf

LEMMA PeekFailsFlow ==
  ASSUME IInv, NEW c \in Conns, PeekFails(c)
  PROVE  TunnelOf(c)' /\ AnswerOf(c)'
<1>0. BaseInv /\ TunnelOf(c) /\ AnswerOf(c)
  BY DEF IInv
<1>1. /\ stage[c] = "peek" /\ stage'[c] = "done" /\ own'[c] = own[c] \ {"client"}
      /\ UNCHANGED <<kind, wire, sent, eof, buf, pump, held, out, errCh, written>>
  BY <1>0 DEF PeekFails, Goto, CloseOwn, wireVars, pumpVars, BaseInv, TypeOK
<1>2. AnswerOf(c)'
  BY <1>0, <1>1 DEF AnswerOf
<1>3. ASSUME kind[c] = "connect" PROVE OwnOf(c)' /\ UpFlow(c)' /\ DownFlow(c)' /\ EndOf(c)'
  <2>1. OwnOf(c) /\ UpFlow(c) /\ DownFlow(c) /\ EndOf(c)
    BY <1>0, <1>3 DEF TunnelOf
  <2>2. pump[c]["up"] = "off" /\ pump[c]["down"] = "off"
    BY <1>0, <1>1, TypesOf DEF StageOf
  <2>3. OwnOf(c)'
    BY <1>1, <2>1, <2>2 DEF OwnOf
  <2>4. UpFlow(c)'
    BY <1>1, <2>1 DEF UpFlow
  <2>5. DownFlow(c)'
    BY <1>1, <2>1 DEF DownFlow, Awaited
  <2>6. EndOf(c)'
    BY <1>1, <2>1, <2>2 DEF EndOf, Stopped, UpLost, DownDone
  <2> QED
    BY <2>3, <2>4, <2>5, <2>6
<1> QED
  BY <1>1, <1>2, <1>3 DEF TunnelOf

LEMMA ReadRequestFlow ==
  ASSUME IInv, NEW c \in Conns, ReadRequest(c)
  PROVE  TunnelOf(c)' /\ AnswerOf(c)'
<1>0. BaseInv /\ TunnelOf(c) /\ AnswerOf(c)
  BY DEF IInv
<1>1. /\ stage[c] = "http" /\ buf'[c] = Tail(buf[c])
      /\ UNCHANGED <<kind, wire, sent, eof, pump, held, out, errCh, written>>
  BY <1>0 DEF ReadRequest, wireVars, BaseInv, TypeOK
<1>2. AnswerOf(c)'
  BY <1>0, <1>1 DEF AnswerOf
<1>3. ASSUME kind[c] = "connect" PROVE OwnOf(c)' /\ UpFlow(c)' /\ DownFlow(c)' /\ EndOf(c)'
  <2>1. OwnOf(c) /\ UpFlow(c) /\ DownFlow(c) /\ EndOf(c)
    BY <1>0, <1>3 DEF TunnelOf
  <2>2. stage'[c] = "dial" /\ own' = own
    BY <1>0, <1>3, ReadRequestStep DEF Goto, BaseInv, TypeOK
  <2>3. pump[c]["up"] = "off" /\ pump[c]["down"] = "off" /\ buf[c] /= <<>>
    BY <1>0, <1>1, TypesOf DEF StageOf
  <2>4. OwnOf(c)'
    BY <1>1, <2>1, <2>2 DEF OwnOf
  <2>5. UpFlow(c)'
    <3>1. out[c]["up"] = <<>> /\ held[c]["up"] = <<>>
      BY <1>1, <2>1, <2>3 DEF UpFlow, OwnOf
    <3>2. /\ Run(buf[c], 0) /\ Run(wire[c]["up"], Len(buf[c]))
          /\ sent[c]["up"] = Len(buf[c]) + Len(wire[c]["up"])
      <4>1. /\ Len(buf[c]) \in Nat /\ Taken(c) = 0
            /\ Taken(c) + Len(out[c]["up"]) = 0
            /\ Taken(c) + Len(out[c]["up"]) + Len(held[c]["up"]) = 0
            /\ Taken(c) + Len(out[c]["up"]) + Len(held[c]["up"]) + Len(buf[c]) = Len(buf[c])
        BY <1>0, <1>1, <3>1, RunEmpty, TypesOf DEF Taken
      <4> QED
        BY <1>1, <2>1, <2>3, <4>1 DEF UpFlow
    <3>3. Run(buf'[c], 1) /\ Len(buf'[c]) = Len(buf[c]) - 1 /\ Len(buf[c]) \in Nat
      BY <1>0, <1>1, <2>3, <3>2, TypesOf, RunTail
    <3>4. /\ out'[c]["up"] = <<>> /\ held'[c]["up"] = <<>> /\ Taken(c)' = 1
          /\ sent'[c]["up"] = sent[c]["up"] /\ wire'[c]["up"] = wire[c]["up"]
      BY <1>1, <2>2, <3>1 DEF Taken
    <3>5. /\ Taken(c)' + Len(out'[c]["up"]) = 1
          /\ Taken(c)' + Len(out'[c]["up"]) + Len(held'[c]["up"]) = 1
          /\ Taken(c)' + Len(out'[c]["up"]) + Len(held'[c]["up"]) + Len(buf'[c]) = Len(buf[c])
          /\ Run(out'[c]["up"], 1) /\ Run(held'[c]["up"], 1)
      BY <3>3, <3>4, RunEmpty
    <3> QED
      BY <2>2, <3>2, <3>3, <3>4, <3>5 DEF UpFlow
  <2>6. DownFlow(c)'
    BY <1>1, <2>1, <2>2 DEF DownFlow, Awaited
  <2>7. EndOf(c)'
    BY <1>1, <2>1, <2>2, <2>3 DEF EndOf, Stopped, UpLost, DownDone
  <2> QED
    BY <2>4, <2>5, <2>6, <2>7
<1> QED
  BY <1>1, <1>2, <1>3 DEF TunnelOf

LEMMA DialFailsFlow ==
  ASSUME IInv, NEW c \in Conns, DialFails(c)
  PROVE  TunnelOf(c)' /\ AnswerOf(c)'
<1>0. BaseInv /\ TunnelOf(c) /\ AnswerOf(c) /\ kind[c] = "connect"
  BY TypesOf DEF IInv, StageOf, DialFails
<1>1. /\ stage[c] = "dial" /\ stage'[c] = "done" /\ own'[c] = own[c] \ {"client"}
      /\ out'[c]["down"] = Append(out[c]["down"], BadGateway)
      /\ out'[c]["up"] = out[c]["up"]
      /\ UNCHANGED <<kind, wire, sent, eof, buf, pump, held, errCh, written>>
  BY <1>0, TypesOf DEF DialFails, Goto, CloseOwn, Answer, wireVars, BaseInv, TypeOK
<1>2. OwnOf(c) /\ UpFlow(c) /\ DownFlow(c) /\ EndOf(c)
  BY <1>0 DEF TunnelOf
<1>7. pump[c]["up"] = "off" /\ pump[c]["down"] = "off"
  BY <1>0, <1>1, TypesOf DEF StageOf
<1>3. OwnOf(c)'
  BY <1>1, <1>2, <1>7 DEF OwnOf
<1>4. UpFlow(c)'
  BY <1>1, <1>2 DEF UpFlow
<1>5. DownFlow(c)'
  <2>1. out[c]["down"] = <<>>
    BY <1>1, <1>2 DEF DownFlow, Awaited
  <2>2. out'[c]["down"] = <<BadGateway>>
    BY <1>1, <2>1
  <2> QED
    BY <1>1, <2>2 DEF DownFlow, Awaited
<1>6. EndOf(c)'
  BY <1>1, <1>2, <1>7 DEF EndOf, Stopped, UpLost, DownDone
<1> QED
  BY <1>0, <1>1, <1>3, <1>4, <1>5, <1>6 DEF TunnelOf, AnswerOf

LEMMA DialOkFlow ==
  ASSUME IInv, NEW c \in Conns, DialOk(c)
  PROVE  TunnelOf(c)' /\ AnswerOf(c)'
<1>0. BaseInv /\ TunnelOf(c) /\ AnswerOf(c) /\ kind[c] = "connect"
  BY TypesOf DEF IInv, StageOf, DialOk
<1>1. /\ stage[c] = "dial" /\ stage'[c] = "reply" /\ own'[c] = own[c] \cup {"target"}
      /\ UNCHANGED <<kind, wire, sent, eof, buf, pump, held, out, errCh, written>>
  BY <1>0, TypesOf DEF DialOk, Goto, wireVars, pumpVars, BaseInv, TypeOK
<1>2. OwnOf(c) /\ UpFlow(c) /\ DownFlow(c) /\ EndOf(c)
  BY <1>0 DEF TunnelOf
<1>3. OwnOf(c)'
  BY <1>1, <1>2 DEF OwnOf
<1>4. UpFlow(c)'
  BY <1>1, <1>2 DEF UpFlow, Taken
<1>5. DownFlow(c)'
  BY <1>1, <1>2 DEF DownFlow, Awaited
<1>6. EndOf(c)'
  BY <1>1, <1>2 DEF EndOf, Stopped, UpLost, DownDone
<1> QED
  BY <1>0, <1>1, <1>3, <1>4, <1>5, <1>6 DEF TunnelOf, AnswerOf

LEMMA ReplyFlow ==
  ASSUME IInv, NEW c \in Conns, Reply(c)
  PROVE  TunnelOf(c)' /\ AnswerOf(c)'
<1>0. BaseInv /\ TunnelOf(c) /\ AnswerOf(c) /\ kind[c] = "connect"
  BY TypesOf DEF IInv, StageOf, Reply
<1>1. /\ stage[c] = "reply" /\ stage'[c] = "relay"
      /\ out'[c]["down"] = Append(out[c]["down"], 0) /\ out'[c]["up"] = out[c]["up"]
      /\ pump'[c]["up"] = "read" /\ pump'[c]["down"] = "read"
      /\ UNCHANGED <<kind, wire, sent, eof, buf, held, own, errCh, written>>
  BY <1>0, TypesOf DEF Reply, Goto, Answer, OkHead, Both, wireVars, BaseInv, TypeOK
<1>2. OwnOf(c) /\ UpFlow(c) /\ DownFlow(c) /\ EndOf(c)
  BY <1>0 DEF TunnelOf
<1>7. pump[c]["up"] = "off" /\ pump[c]["down"] = "off"
  BY <1>0, <1>1, TypesOf DEF StageOf
<1>3. OwnOf(c)'
  BY <1>1, <1>2, <1>7 DEF OwnOf
<1>4. UpFlow(c)'
  BY <1>1, <1>2, <1>7 DEF UpFlow, Taken
<1>5. DownFlow(c)'
  <2>1. out[c]["down"] = <<>> /\ held[c]["down"] = <<>>
    BY <1>1, <1>2, <1>7 DEF DownFlow, Awaited, OwnOf
  <2>2. Run(out'[c]["down"], 0) /\ Len(out'[c]["down"]) = 1 /\ Len(out[c]["down"]) = 0
    <3>1. out[c]["down"] \in Seq(Int) /\ 0 \in Int
      BY <1>0, TypesOf
    <3>2. Run(Append(out[c]["down"], 0), 0) /\ Len(Append(out[c]["down"], 0)) = 1
      BY <2>1, <3>1, RunOne
    <3> QED
      BY <1>1, <2>1, <3>1, <3>2, RunEmpty
  <2>3. /\ Run(held[c]["down"], 1) /\ Run(wire[c]["down"], 1)
        /\ sent[c]["down"] + 1 = 1 + Len(wire[c]["down"])
    <3>1. /\ Awaited(c) + Len(out[c]["down"]) = 1
          /\ Awaited(c) + Len(out[c]["down"])
               + Len(held[c]["down"]) = 1
      BY <1>7, <2>1, <2>2, RunEmpty DEF Awaited
    <3> QED
      BY <1>1, <1>2, <1>7, <3>1 DEF DownFlow
  <2>4. /\ Awaited(c)' + Len(out'[c]["down"]) = 1
        /\ Awaited(c)' + Len(out'[c]["down"])
             + Len(held'[c]["down"]) = 1
    BY <1>1, <2>1, <2>2, RunEmpty DEF Awaited
  <2> QED
    BY <1>1, <2>2, <2>3, <2>4 DEF DownFlow
<1>6. EndOf(c)'
  BY <1>0, <1>1, <1>2, <1>7 DEF EndOf, Stopped, UpLost, DownDone
<1> QED
  BY <1>0, <1>1, <1>3, <1>4, <1>5, <1>6 DEF TunnelOf, AnswerOf

LEMMA FirstDoneFlow ==
  ASSUME IInv, NEW c \in Conns, FirstDone(c)
  PROVE  TunnelOf(c)' /\ AnswerOf(c)'
<1>0. BaseInv /\ TunnelOf(c) /\ AnswerOf(c) /\ kind[c] = "connect"
  BY TypesOf DEF IInv, StageOf, FirstDone
<1>1. /\ stage[c] = "relay" /\ stage'[c] = "closing"
      /\ errCh[c] > 0 /\ errCh'[c] = errCh[c] - 1
      /\ UNCHANGED <<kind, wire, sent, eof, buf, pump, held, out, own, written>>
  BY <1>0, TypesOf DEF FirstDone, Goto, wireVars, BaseInv, TypeOK
<1>2. OwnOf(c) /\ UpFlow(c) /\ DownFlow(c) /\ EndOf(c)
  BY <1>0 DEF TunnelOf
<1>3. OwnOf(c)'
  BY <1>1, <1>2 DEF OwnOf
<1>4. UpFlow(c)'
  BY <1>1, <1>2 DEF UpFlow, Taken
<1>5. DownFlow(c)'
  BY <1>1, <1>2 DEF DownFlow, Awaited
<1>6. EndOf(c)'
  BY <1>0, <1>1, <1>2, TypesOf DEF EndOf, Stopped, UpLost, DownDone
<1> QED
  BY <1>0, <1>1, <1>3, <1>4, <1>5, <1>6 DEF TunnelOf, AnswerOf

LEMMA CloseTargetFlow ==
  ASSUME IInv, NEW c \in Conns, CloseTarget(c)
  PROVE  TunnelOf(c)' /\ AnswerOf(c)'
<1>0. BaseInv /\ TunnelOf(c) /\ AnswerOf(c) /\ kind[c] = "connect"
  BY TypesOf DEF IInv, StageOf, CloseTarget
<1>1. /\ stage[c] = "closing" /\ own'[c] = own[c] \ {"target"}
      /\ UNCHANGED <<kind, stage, wire, sent, eof, buf, pump, held, out, errCh, written>>
  BY <1>0, TypesOf DEF CloseTarget, CloseOwn, connVars, wireVars, pumpVars, BaseInv, TypeOK
<1>2. OwnOf(c) /\ UpFlow(c) /\ DownFlow(c) /\ EndOf(c)
  BY <1>0 DEF TunnelOf
<1>3. OwnOf(c)'
  BY <1>1, <1>2 DEF OwnOf
<1>4. UpFlow(c)'
  BY <1>1, <1>2 DEF UpFlow, Taken
<1>5. DownFlow(c)'
  BY <1>1, <1>2 DEF DownFlow, Awaited
<1>6. EndOf(c)'
  BY <1>1, <1>2 DEF EndOf, Stopped, UpLost, DownDone
<1> QED
  BY <1>0, <1>1, <1>3, <1>4, <1>5, <1>6 DEF TunnelOf, AnswerOf

LEMMA CloseClientFlow ==
  ASSUME IInv, NEW c \in Conns, CloseClient(c)
  PROVE  TunnelOf(c)' /\ AnswerOf(c)'
<1>0. BaseInv /\ TunnelOf(c) /\ AnswerOf(c) /\ kind[c] = "connect"
  BY TypesOf DEF IInv, StageOf, CloseClient
<1>1. /\ stage[c] = "closing" /\ stage'[c] = "done"
      /\ "target" \notin own[c] /\ own'[c] = own[c] \ {"client"}
      /\ own[c] \in SUBSET {"client", "target"}
      /\ UNCHANGED <<kind, wire, sent, eof, buf, pump, held, out, errCh, written>>
  BY <1>0, TypesOf DEF CloseClient, Goto, CloseOwn, wireVars, pumpVars, BaseInv, TypeOK
<1>2. OwnOf(c) /\ UpFlow(c) /\ DownFlow(c) /\ EndOf(c)
  BY <1>0 DEF TunnelOf
<1>3. OwnOf(c)'
  BY <1>1, <1>2 DEF OwnOf
<1>4. UpFlow(c)'
  BY <1>1, <1>2 DEF UpFlow
<1>5. DownFlow(c)'
  BY <1>1, <1>2 DEF DownFlow, Awaited
<1>6. EndOf(c)'
  BY <1>1, <1>2 DEF EndOf, Stopped, UpLost, DownDone
<1> QED
  BY <1>0, <1>1, <1>3, <1>4, <1>5, <1>6 DEF TunnelOf, AnswerOf

\* The copying goroutines of a CONNECT connection.
LEMMA PumpOf ==
  ASSUME IInv, NEW c \in Conns, NEW d \in Dirs, pump[c][d] /= "off"
  PROVE  /\ BaseInv /\ kind[c] = "connect"
         /\ OwnOf(c) /\ UpFlow(c) /\ DownFlow(c) /\ EndOf(c)
         /\ stage[c] \in {"relay", "closing", "done"}
<1>1. BaseInv /\ TunnelOf(c)
  BY DEF IInv
<1>2. kind[c] = "connect" /\ stage[c] \in {"relay", "closing", "done"}
  BY <1>1, TypesOf DEF StageOf, Dirs
<1> QED
  BY <1>1, <1>2 DEF TunnelOf

\* A read takes from the buffer, or else from the wire, what comes next.
LEMMA ReadUpFlow ==
  ASSUME IInv, NEW c \in Conns, PumpRead(c, "up")
  PROVE  TunnelOf(c)' /\ AnswerOf(c)'
<1>0. /\ BaseInv /\ kind[c] = "connect" /\ pump[c]["up"] = "read"
      /\ OwnOf(c) /\ UpFlow(c) /\ DownFlow(c) /\ EndOf(c)
      /\ stage[c] \in {"relay", "closing", "done"}
  BY PumpOf DEF PumpRead, Dirs
<1>1. /\ pump'[c]["up"] = "write" /\ pump'[c]["down"] = pump[c]["down"]
      /\ held'[c]["down"] = held[c]["down"] /\ wire'[c]["down"] = wire[c]["down"]
      /\ UNCHANGED <<kind, stage, sent, eof, out, own, errCh, written>>
  BY <1>0, TypesOf DEF PumpRead, connVars, BaseInv, TypeOK
<1>2. /\ held[c]["up"] = <<>> /\ Taken(c) = 1 /\ Taken(c)' = 1
  BY <1>0, <1>1 DEF OwnOf, Taken
<1> DEFINE a == 1 + Len(out[c]["up"])
<1>3. a \in Int /\ Len(buf[c]) \in Nat
  BY <1>0, TypesOf
<1>4. stage[c] /= "done" =>
        /\ Run(buf[c], a) /\ Run(wire[c]["up"], a + Len(buf[c]))
        /\ sent[c]["up"] = a + Len(buf[c]) + Len(wire[c]["up"])
  <2>1. /\ Taken(c) + Len(out[c]["up"]) = a
        /\ Taken(c) + Len(out[c]["up"]) + Len(held[c]["up"]) = a
    BY <1>2, <1>3, RunEmpty
  <2> HIDE DEF a
  <2> QED
    BY <1>0, <2>1 DEF UpFlow
<1>5. /\ held'[c]["up"] /= <<>>
      /\ stage[c] /= "done" =>
           /\ Run(held'[c]["up"], a)
           /\ Run(buf'[c], a + Len(held'[c]["up"]))
           /\ Run(wire'[c]["up"], a + Len(held'[c]["up"]) + Len(buf'[c]))
           /\ sent[c]["up"] = a + Len(held'[c]["up"]) + Len(buf'[c]) + Len(wire'[c]["up"])
  <2>1. CASE Buffered(c, "up")
    <3>1. /\ held'[c]["up"] = buf[c] /\ buf'[c] = <<>> /\ wire'[c]["up"] = wire[c]["up"]
          /\ buf[c] /= <<>>
      BY <1>0, <2>1, TypesOf DEF PumpRead, Buffered, BaseInv, TypeOK
    <3>2. a + Len(buf[c]) + Len(<<>>) = a + Len(buf[c]) /\ a + Len(buf[c]) \in Int
      BY <1>3, RunEmpty
    <3> HIDE DEF a
    <3> QED
      BY <1>3, <1>4, <3>1, <3>2, RunEmpty
  <2>2. CASE ~Buffered(c, "up")
    <3>1. buf[c] = <<>> /\ buf' = buf
      BY <1>0, <2>2 DEF PumpRead, Buffered
    <3>2. PICK n \in 1..Len(wire[c]["up"]) :
            /\ held' = [held EXCEPT ![c]["up"] = SubSeq(wire[c]["up"], 1, n)]
            /\ wire' = [wire EXCEPT ![c]["up"] = SubSeq(@, n + 1, Len(@))]
      BY <2>2 DEF PumpRead
    <3>3. /\ held'[c]["up"] = SubSeq(wire[c]["up"], 1, n)
          /\ wire'[c]["up"] = SubSeq(wire[c]["up"], n + 1, Len(wire[c]["up"]))
      BY <1>0, <3>2, TypesOf DEF BaseInv, TypeOK
    <3>4. wire[c]["up"] \in Seq(Nat) /\ Len(wire[c]["up"]) \in Nat
      BY <1>0, TypesOf
    <3>5. /\ held'[c]["up"] /= <<>>
          /\ Len(held'[c]["up"]) = n /\ Len(wire'[c]["up"]) = Len(wire[c]["up"]) - n
          /\ Run(wire[c]["up"], a) => Run(held'[c]["up"], a) /\ Run(wire'[c]["up"], a + n)
      <4> HIDE DEF a
      <4>1. /\ SubSeq(wire[c]["up"], 1, n) /= <<>>
            /\ Len(SubSeq(wire[c]["up"], 1, n)) = n
            /\ Len(SubSeq(wire[c]["up"], n + 1, Len(wire[c]["up"]))) = Len(wire[c]["up"]) - n
            /\ Run(wire[c]["up"], a) =>
                 /\ Run(SubSeq(wire[c]["up"], 1, n), a)
                 /\ Run(SubSeq(wire[c]["up"], n + 1, Len(wire[c]["up"])), a + n)
        BY <1>3, <3>4, RunSplit
      <4> QED
        BY <3>3, <4>1
    <3> HIDE DEF a
    <3>6. /\ Len(buf[c]) = 0 /\ a + Len(buf[c]) = a /\ Len(buf'[c]) = 0
          /\ a + n \in Int /\ a + n + Len(buf'[c]) = a + n
      <4>1. Len(buf[c]) = 0 /\ Len(buf'[c]) = 0
        BY <3>1, RunEmpty
      <4> QED
        BY <1>3, <3>4, <4>1
    <3>7. Run(buf'[c], a + n)
      BY <3>1, <3>6, RunEmpty
    <3> QED
      BY <1>3, <1>4, <3>4, <3>5, <3>6, <3>7
  <2> QED
    BY <2>1, <2>2
<1>6. OwnOf(c)'
  BY <1>0, <1>1, <1>5 DEF OwnOf
<1>7. UpFlow(c)'
  <2>1. Taken(c)' + Len(out'[c]["up"]) = a
    BY <1>1, <1>2
  <2> HIDE DEF a
  <2> QED
    BY <1>0, <1>1, <1>5, <2>1 DEF UpFlow
<1>8. DownFlow(c)'
  BY <1>0, <1>1 DEF DownFlow, Awaited
<1>9. EndOf(c)'
  BY <1>0, <1>1 DEF EndOf, Stopped, UpLost, DownDone
<1> QED
  BY <1>0, <1>1, <1>6, <1>7, <1>8, <1>9 DEF TunnelOf, AnswerOf

LEMMA ReadDownFlow ==
  ASSUME IInv, NEW c \in Conns, PumpRead(c, "down")
  PROVE  TunnelOf(c)' /\ AnswerOf(c)'
<1>0. /\ BaseInv /\ kind[c] = "connect" /\ pump[c]["down"] = "read"
      /\ OwnOf(c) /\ UpFlow(c) /\ DownFlow(c) /\ EndOf(c)
      /\ stage[c] \in {"relay", "closing", "done"}
  BY PumpOf DEF PumpRead, Dirs
<1>1. /\ pump'[c]["down"] = "write" /\ pump'[c]["up"] = pump[c]["up"]
      /\ held'[c]["up"] = held[c]["up"] /\ wire'[c]["up"] = wire[c]["up"]
      /\ UNCHANGED <<kind, stage, sent, eof, buf, out, own, errCh, written>>
  <2>1. /\ pump \in [Conns -> [Dirs -> {"off", "read", "write", "report", "ended"}]]
        /\ held \in [Conns -> [Dirs -> Seq(Nat)]] /\ wire \in [Conns -> [Dirs -> Seq(Nat)]]
        /\ "up" \in Dirs /\ "down" \in Dirs
    BY <1>0, TypesOf DEF BaseInv, TypeOK
  <2>2. /\ pump' = [pump EXCEPT ![c]["down"] = "write"]
        /\ UNCHANGED <<kind, stage, sent, eof, buf, out, own, errCh, written>>
    BY DEF PumpRead, Buffered, connVars
  <2>3. PICK n \in 1..Len(wire[c]["down"]) :
          /\ held' = [held EXCEPT ![c]["down"] = SubSeq(wire[c]["down"], 1, n)]
          /\ wire' = [wire EXCEPT ![c]["down"] = SubSeq(@, n + 1, Len(@))]
    BY DEF PumpRead, Buffered
  <2>4. held'[c]["up"] = held[c]["up"] /\ wire'[c]["up"] = wire[c]["up"]
    BY <2>1, <2>3
  <2>5. pump'[c]["down"] = "write" /\ pump'[c]["up"] = pump[c]["up"]
    BY <2>1, <2>2
  <2> QED
    BY <2>2, <2>4, <2>5
<1>2. held[c]["down"] = <<>> /\ Len(held[c]["down"]) = 0
  BY <1>0, RunEmpty DEF OwnOf
<1> DEFINE a == Len(out[c]["down"])
<1>3. a \in Int
  BY <1>0, TypesOf
<1>4. stage[c] /= "done" =>
        Run(wire[c]["down"], a) /\ sent[c]["down"] + 1 = a + Len(wire[c]["down"])
  <2>1. /\ Awaited(c) + Len(out[c]["down"]) = a
        /\ Awaited(c) + Len(out[c]["down"])
             + Len(held[c]["down"]) = a
    BY <1>0, <1>2, <1>3 DEF Awaited
  <2> HIDE DEF a
  <2> QED
    BY <1>0, <2>1 DEF DownFlow
<1>5. /\ held'[c]["down"] /= <<>>
      /\ stage[c] /= "done" =>
           /\ Run(held'[c]["down"], a)
           /\ Run(wire'[c]["down"], a + Len(held'[c]["down"]))
           /\ sent[c]["down"] + 1 = a + Len(held'[c]["down"]) + Len(wire'[c]["down"])
  <2>1. PICK n \in 1..Len(wire[c]["down"]) :
          /\ held' = [held EXCEPT ![c]["down"] = SubSeq(wire[c]["down"], 1, n)]
          /\ wire' = [wire EXCEPT ![c]["down"] = SubSeq(@, n + 1, Len(@))]
    BY DEF PumpRead, Buffered
  <2>2. /\ held'[c]["down"] = SubSeq(wire[c]["down"], 1, n)
        /\ wire'[c]["down"] = SubSeq(wire[c]["down"], n + 1, Len(wire[c]["down"]))
    BY <1>0, <2>1, TypesOf DEF BaseInv, TypeOK
  <2>3. wire[c]["down"] \in Seq(Nat) /\ Len(wire[c]["down"]) \in Nat
    BY <1>0, TypesOf
  <2> HIDE DEF a
  <2>4. /\ held'[c]["down"] /= <<>>
        /\ Len(held'[c]["down"]) = n /\ Len(wire'[c]["down"]) = Len(wire[c]["down"]) - n
        /\ Run(wire[c]["down"], a) => Run(held'[c]["down"], a) /\ Run(wire'[c]["down"], a + n)
    <3>1. /\ SubSeq(wire[c]["down"], 1, n) /= <<>>
          /\ Len(SubSeq(wire[c]["down"], 1, n)) = n
          /\ Len(SubSeq(wire[c]["down"], n + 1, Len(wire[c]["down"]))) = Len(wire[c]["down"]) - n
          /\ Run(wire[c]["down"], a) =>
               /\ Run(SubSeq(wire[c]["down"], 1, n), a)
               /\ Run(SubSeq(wire[c]["down"], n + 1, Len(wire[c]["down"])), a + n)
      BY <1>3, <2>3, RunSplit
    <3> QED
      BY <2>2, <3>1
  <2> QED
    BY <1>3, <1>4, <2>3, <2>4
<1>6. OwnOf(c)'
  BY <1>0, <1>1, <1>5 DEF OwnOf
<1>7. UpFlow(c)'
  BY <1>0, <1>1 DEF UpFlow, Taken
<1>8. DownFlow(c)'
  <2>1. Awaited(c)' + Len(out'[c]["down"]) = a
    BY <1>1, <1>3 DEF Awaited
  <2> HIDE DEF a
  <2> QED
    BY <1>0, <1>1, <1>5, <2>1 DEF DownFlow
<1>9. EndOf(c)'
  BY <1>0, <1>1 DEF EndOf, Stopped, UpLost, DownDone
<1> QED
  BY <1>0, <1>1, <1>6, <1>7, <1>8, <1>9 DEF TunnelOf, AnswerOf

\* A write delivers what is held, behind what was delivered.
LEMMA WriteUpFlow ==
  ASSUME IInv, NEW c \in Conns, PumpWrite(c, "up")
  PROVE  TunnelOf(c)' /\ AnswerOf(c)'
<1>0. /\ BaseInv /\ kind[c] = "connect" /\ pump[c]["up"] = "write"
      /\ OwnOf(c) /\ UpFlow(c) /\ DownFlow(c) /\ EndOf(c)
      /\ stage[c] \in {"relay", "closing", "done"}
  BY PumpOf DEF PumpWrite, Dirs
<1>1. /\ pump'[c]["up"] = "read" /\ pump'[c]["down"] = pump[c]["down"]
      /\ held'[c]["up"] = <<>> /\ held'[c]["down"] = held[c]["down"]
      /\ out'[c]["up"] = out[c]["up"] \o held[c]["up"] /\ out'[c]["down"] = out[c]["down"]
      /\ "target" \in own[c]
      /\ UNCHANGED <<kind, stage, wire, sent, eof, buf, own, errCh, written>>
  BY <1>0, TypesOf DEF PumpWrite, Sink, connVars, wireVars, BaseInv, TypeOK
<1>2. stage[c] \in {"relay", "closing"}
  BY <1>0, <1>1 DEF OwnOf
<1>3. Taken(c) = 1 /\ Taken(c)' = 1
  BY <1>1, <1>2 DEF Taken
<1>4. /\ Len(out[c]["up"]) \in Nat /\ Len(held[c]["up"]) \in Nat /\ Len(buf[c]) \in Nat
      /\ Run(out[c]["up"], 1) /\ Run(held[c]["up"], 1 + Len(out[c]["up"]))
      /\ out[c]["up"] \in Seq(Int) /\ held[c]["up"] \in Seq(Int)
  <2>1. /\ Len(out[c]["up"]) \in Nat /\ Len(held[c]["up"]) \in Nat /\ Len(buf[c]) \in Nat
        /\ out[c]["up"] \in Seq(Int) /\ held[c]["up"] \in Seq(Int)
    BY <1>0, TypesOf
  <2>2. /\ Run(out[c]["up"], 1)
        /\ Run(held[c]["up"], Taken(c) + Len(out[c]["up"]))
    BY <1>0, <1>2 DEF UpFlow
  <2> QED
    BY <1>3, <2>1, <2>2
<1>5. /\ Run(out'[c]["up"], 1)
      /\ Len(out'[c]["up"]) = Len(out[c]["up"]) + Len(held[c]["up"])
  <2>1. /\ Run(out[c]["up"] \o held[c]["up"], 1)
        /\ Len(out[c]["up"] \o held[c]["up"]) = Len(out[c]["up"]) + Len(held[c]["up"])
    BY <1>4, RunConcat, 1 \in Int
  <2> QED
    BY <1>1, <2>1
<1>6. OwnOf(c)'
  BY <1>0, <1>1 DEF OwnOf
<1>7. UpFlow(c)'
  <2> DEFINE b == Taken(c) + Len(out[c]["up"]) + Len(held[c]["up"])
  <2>1. /\ b \in Int /\ Len(held'[c]["up"]) = 0
        /\ Taken(c)' + Len(out'[c]["up"]) = b
        /\ Taken(c)' + Len(out'[c]["up"]) + Len(held'[c]["up"]) = b
    <3>1. Len(held'[c]["up"]) = 0
      BY <1>1, RunEmpty
    <3>2. /\ Len(out[c]["up"]) \in Nat /\ Len(held[c]["up"]) \in Nat
          /\ Len(out'[c]["up"]) = Len(out[c]["up"]) + Len(held[c]["up"])
      BY <1>4, <1>5
    <3>3. Len(out'[c]["up"]) \in Nat
      <4>1. out[c]["up"] \o held[c]["up"] \in Seq(Int)
        BY <1>4, RunConcat, 1 \in Int
      <4>2. out'[c]["up"] = out[c]["up"] \o held[c]["up"]
        BY <1>1
      <4>3. out'[c]["up"] \in Seq(Int)
        BY <4>1, <4>2
      <4> QED
        BY <4>3
    <3>4. /\ 1 + Len(out'[c]["up"]) = 1 + Len(out[c]["up"]) + Len(held[c]["up"])
          /\ 1 + Len(out'[c]["up"]) + 0 = 1 + Len(out[c]["up"]) + Len(held[c]["up"])
          /\ 1 + Len(out[c]["up"]) + Len(held[c]["up"]) \in Int
      BY <3>2, <3>3, Moved
    <3> QED
      BY <1>3, <3>1, <3>4
  <2>2. Run(held'[c]["up"], b)
    BY <1>1, <2>1, RunEmpty
  <2>3. /\ Run(buf[c], b) /\ Run(wire[c]["up"], b + Len(buf[c]))
        /\ sent[c]["up"] = b + Len(buf[c]) + Len(wire[c]["up"])
    BY <1>0, <1>2 DEF UpFlow
  <2> HIDE DEF b
  <2> QED
    BY <1>1, <1>2, <1>5, <2>1, <2>2, <2>3 DEF UpFlow
<1>8. DownFlow(c)'
  BY <1>0, <1>1 DEF DownFlow, Awaited
<1>9. EndOf(c)'
  BY <1>0, <1>1 DEF EndOf, Stopped, UpLost, DownDone
<1> QED
  BY <1>0, <1>1, <1>6, <1>7, <1>8, <1>9 DEF TunnelOf, AnswerOf

LEMMA WriteDownFlow ==
  ASSUME IInv, NEW c \in Conns, PumpWrite(c, "down")
  PROVE  TunnelOf(c)' /\ AnswerOf(c)'
<1>0. /\ BaseInv /\ kind[c] = "connect" /\ pump[c]["down"] = "write"
      /\ OwnOf(c) /\ UpFlow(c) /\ DownFlow(c) /\ EndOf(c)
      /\ stage[c] \in {"relay", "closing", "done"}
  BY PumpOf DEF PumpWrite, Dirs
<1>1. /\ pump'[c]["down"] = "read" /\ pump'[c]["up"] = pump[c]["up"]
      /\ held'[c]["down"] = <<>> /\ held'[c]["up"] = held[c]["up"]
      /\ out'[c]["down"] = out[c]["down"] \o held[c]["down"] /\ out'[c]["up"] = out[c]["up"]
      /\ "client" \in own[c]
      /\ UNCHANGED <<kind, stage, wire, sent, eof, buf, own, errCh, written>>
  BY <1>0, TypesOf DEF PumpWrite, Sink, connVars, wireVars, BaseInv, TypeOK
<1>2. stage[c] \in {"relay", "closing"}
  BY <1>0, <1>1 DEF OwnOf
<1>3. Awaited(c) = 0 /\ Awaited(c)' = 0
  BY <1>0, <1>1 DEF Awaited
<1>4. /\ Len(out[c]["down"]) \in Nat /\ Len(held[c]["down"]) \in Nat
      /\ Run(out[c]["down"], 0) /\ Run(held[c]["down"], Len(out[c]["down"]))
      /\ out[c]["down"] \in Seq(Int) /\ held[c]["down"] \in Seq(Int)
  <2>1. /\ Len(out[c]["down"]) \in Nat /\ Len(held[c]["down"]) \in Nat /\ Len(buf[c]) \in Nat
        /\ out[c]["down"] \in Seq(Int) /\ held[c]["down"] \in Seq(Int)
    BY <1>0, TypesOf
  <2>2. /\ Run(out[c]["down"], 0)
        /\ Run(held[c]["down"], Awaited(c) + Len(out[c]["down"]))
    BY <1>0, <1>2 DEF DownFlow
  <2> QED
    BY <1>3, <2>1, <2>2
<1>5. /\ Run(out'[c]["down"], 0)
      /\ Len(out'[c]["down"]) = Len(out[c]["down"]) + Len(held[c]["down"])
  BY <1>1, <1>4, RunConcat
<1>6. OwnOf(c)'
  BY <1>0, <1>1 DEF OwnOf
<1>7. UpFlow(c)'
  BY <1>0, <1>1 DEF UpFlow, Taken
<1>8. DownFlow(c)'
  <2> DEFINE b == Awaited(c) + Len(out[c]["down"]) + Len(held[c]["down"])
  <2>1. /\ b \in Int /\ Len(held'[c]["down"]) = 0
        /\ Awaited(c)' + Len(out'[c]["down"]) = b
        /\ Awaited(c)' + Len(out'[c]["down"]) + Len(held'[c]["down"]) = b
    <3>1. Len(held'[c]["down"]) = 0
      BY <1>1, RunEmpty
    <3> QED
      BY <1>3, <1>4, <1>5, <3>1
  <2>2. Run(held'[c]["down"], b)
    BY <1>1, <2>1, RunEmpty
  <2>3. Run(wire[c]["down"], b) /\ sent[c]["down"] + 1 = b + Len(wire[c]["down"])
    BY <1>0, <1>2 DEF DownFlow
  <2> HIDE DEF b
  <2> QED
    BY <1>1, <1>2, <1>5, <2>1, <2>2, <2>3 DEF DownFlow
<1>9. EndOf(c)'
  BY <1>0, <1>1 DEF EndOf, Stopped, UpLost, DownDone
<1> QED
  BY <1>0, <1>1, <1>6, <1>7, <1>8, <1>9 DEF TunnelOf, AnswerOf

\* A direction that stops drops what it holds, and in a tunnel nobody has
\* closed it has a reason.
LEMMA StopFlow ==
  ASSUME IInv, NEW c \in Conns, NEW d \in Dirs, PumpStops(c, d)
  PROVE  TunnelOf(c)' /\ AnswerOf(c)'
<1>0. /\ BaseInv /\ kind[c] = "connect" /\ pump[c][d] \in {"read", "write"}
      /\ OwnOf(c) /\ UpFlow(c) /\ DownFlow(c) /\ EndOf(c)
      /\ stage[c] \in {"relay", "closing", "done"}
  BY PumpOf DEF PumpStops
<1>1. /\ pump'[c][d] = "report" /\ held'[c][d] = <<>>
      /\ \A e \in Dirs \ {d} : pump'[c][e] = pump[c][e] /\ held'[c][e] = held[c][e]
      /\ UNCHANGED <<kind, stage, wire, sent, eof, buf, out, own, errCh, written>>
  BY <1>0 DEF PumpStops, connVars, wireVars, BaseInv, TypeOK
<1>2. OwnOf(c)'
  BY <1>0, <1>1 DEF OwnOf, Dirs
<1>3. UpFlow(c)'
  BY <1>0, <1>1 DEF UpFlow, Taken, Dirs
<1>4. DownFlow(c)'
  BY <1>0, <1>1 DEF DownFlow, Awaited, Dirs
<1>5. CASE d = "up"
  <2>1. pump'[c]["down"] = pump[c]["down"]
    BY <1>1, <1>5 DEF Dirs
  <2>2. stage[c] = "relay" => eof[c]["up"] \/ UpLost(c)'
    <3>1. ASSUME stage[c] = "relay", pump[c]["up"] = "read" PROVE eof[c]["up"]
      BY <1>0, <1>5, <3>1 DEF PumpStops, AtEnd, Source, OwnOf
    <3>2. ASSUME stage[c] = "relay", pump[c]["up"] = "write" PROVE UpLost(c)'
      <4>1. held[c]["up"] /= <<>> /\ Len(held[c]["up"]) > 0
        BY <1>0, <3>2, TypesOf DEF OwnOf
      <4>2. sent[c]["up"] = 1 + Len(out[c]["up"]) + Len(held[c]["up"]) + Len(buf[c])
                              + Len(wire[c]["up"])
        BY <1>0, <3>2 DEF UpFlow, Taken
      <4>3. /\ sent[c]["up"] \in Nat /\ Len(out[c]["up"]) \in Nat
            /\ Len(held[c]["up"]) \in Nat /\ Len(held[c]["up"]) > 0
            /\ Len(buf[c]) \in Nat /\ Len(wire[c]["up"]) \in Nat
        BY <1>0, <4>1, TypesOf
      <4>4. Len(out[c]["up"]) + 1 < sent[c]["up"]
        BY <4>2, <4>3, PositiveSum
      <4> QED
        BY <1>1, <1>5, <4>4 DEF UpLost, Stopped
    <3> QED
      BY <1>0, <1>5, <3>1, <3>2
  <2>3. EndOf(c)'
    BY <1>0, <1>1, <1>5, <2>1, <2>2 DEF EndOf, Stopped, UpLost, DownDone
  <2> QED
    BY <1>0, <1>1, <1>2, <1>3, <1>4, <2>3 DEF TunnelOf, AnswerOf
<1>6. CASE d = "down"
  <2>1. pump'[c]["up"] = pump[c]["up"]
    BY <1>1, <1>6 DEF Dirs
  <2>2. stage[c] = "relay" => eof[c]["up"] \/ DownDone(c)'
    <3>1. ASSUME stage[c] = "relay", pump[c]["down"] = "read" PROVE DownDone(c)'
      <4>1. wire[c]["down"] = <<>> /\ eof[c]["down"] /\ held[c]["down"] = <<>>
        BY <1>0, <1>6, <3>1 DEF PumpStops, AtEnd, Source, OwnOf
      <4>2. sent[c]["down"] + 1 = 0 + Len(out[c]["down"]) + Len(held[c]["down"])
                                    + Len(wire[c]["down"])
        BY <1>0, <3>1 DEF DownFlow, Awaited
      <4>3. Len(out[c]["down"]) = sent[c]["down"] + 1
        <5>1. Len(out[c]["down"]) \in Nat /\ Len(held[c]["down"]) = 0 /\ Len(wire[c]["down"]) = 0
          BY <1>0, <4>1, RunEmpty, TypesOf
        <5> QED
          BY <4>2, <5>1
      <4> QED
        BY <1>1, <1>6, <4>1, <4>3 DEF DownDone, Stopped
    <3>2. ASSUME stage[c] = "relay", pump[c]["down"] = "write" PROVE eof[c]["up"]
      BY <1>0, <1>6, <3>2 DEF PumpStops, Sink, Back, OwnOf
    <3> QED
      BY <1>0, <1>6, <3>1, <3>2
  <2>3. EndOf(c)'
    BY <1>0, <1>1, <1>6, <2>1, <2>2 DEF EndOf, Stopped, UpLost, DownDone
  <2> QED
    BY <1>0, <1>1, <1>2, <1>3, <1>4, <2>3 DEF TunnelOf, AnswerOf
<1> QED
  BY <1>5, <1>6 DEF Dirs

LEMMA ReportFlow ==
  ASSUME IInv, NEW c \in Conns, NEW d \in Dirs, PumpReports(c, d)
  PROVE  TunnelOf(c)' /\ AnswerOf(c)'
<1>0. /\ BaseInv /\ kind[c] = "connect" /\ pump[c][d] = "report"
      /\ OwnOf(c) /\ UpFlow(c) /\ DownFlow(c) /\ EndOf(c)
      /\ stage[c] \in {"relay", "closing", "done"}
  BY PumpOf DEF PumpReports
<1>1. /\ pump'[c][d] = "ended" /\ \A e \in Dirs \ {d} : pump'[c][e] = pump[c][e]
      /\ UNCHANGED <<kind, stage, wire, sent, eof, buf, held, out, own, written>>
  BY <1>0 DEF PumpReports, connVars, wireVars, BaseInv, TypeOK
<1>2. OwnOf(c)'
  BY <1>0, <1>1 DEF OwnOf, Dirs
<1>3. UpFlow(c)'
  BY <1>0, <1>1 DEF UpFlow, Taken, Dirs
<1>4. DownFlow(c)'
  BY <1>0, <1>1 DEF DownFlow, Awaited, Dirs
<1>5. EndOf(c)'
  BY <1>0, <1>1 DEF EndOf, Stopped, UpLost, DownDone, Dirs
<1> QED
  BY <1>0, <1>1, <1>2, <1>3, <1>4, <1>5 DEF TunnelOf, AnswerOf

\* goproxy writes one head, before the body, whichever it calls first.
LEMMA LibrariesFlow ==
  ASSUME IInv, NEW c \in Conns, Libraries(c)
  PROVE  TunnelOf(c)' /\ AnswerOf(c)'
<1>0. /\ BaseInv /\ AnswerOf(c) /\ kind[c] /= "connect" /\ kind' = kind
      /\ out[c]["down"] \in Seq(Int) /\ sent[c]["down"] \in Nat
  BY TypesOf DEF IInv, Libraries, TransportDials, WriteHeader, WriteBody, Served, SocksDials,
                 SocksServed, LibraryCloses, StageOf, connVars
<1>1. TunnelOf(c)'
  BY <1>0 DEF TunnelOf
<1>2. CASE \/ TransportDials(c) \/ Served(c) \/ SocksDials(c) \/ SocksServed(c)
           \/ LibraryCloses(c)
  <2>1. out' = out /\ sent' = sent /\ written' = written
    BY <1>2 DEF TransportDials, Served, SocksDials, SocksServed, LibraryCloses,
                wireVars, pumpVars
  <2> QED
    BY <1>0, <1>1, <2>1 DEF AnswerOf
<1>3. CASE WriteHeader(c)
  <2>1. /\ ~written[c] /\ written'[c] /\ sent' = sent
        /\ out'[c]["down"] = Append(out[c]["down"], 0)
    BY <1>0, <1>3, TypesOf DEF WriteHeader, Answer, OkHead, wireVars, BaseInv, TypeOK
  <2>2. out[c]["down"] = <<>> /\ sent[c]["down"] = 0
    BY <1>0, <2>1 DEF AnswerOf
  <2>3. Run(out'[c]["down"], 0) /\ Len(out'[c]["down"]) = 1
    BY <1>0, <2>1, <2>2, RunOne, 0 \in Int
  <2>4. Len(out'[c]["down"]) = sent'[c]["down"] + 1
    BY <2>1, <2>2, <2>3
  <2> QED
    BY <1>1, <2>1, <2>3, <2>4 DEF AnswerOf
<1>4. CASE WriteBody(c)
  <2> DEFINE head == IF written[c] THEN out[c]["down"] ELSE Append(out[c]["down"], 0)
             n    == sent[c]["down"] + 1
  <2>1. /\ written'[c] /\ sent'[c]["down"] = n
        /\ out'[c]["down"] = head \o <<n>>
    <3>1. sent'[c]["down"] = n
      BY <1>0, <1>4, TypesOf DEF WriteBody, BaseInv, TypeOK
    <3>2. out'[c]["down"] = head \o <<sent'[c]["down"]>>
      BY <1>0, <1>4, TypesOf DEF WriteBody, OkHead, BaseInv, TypeOK
    <3>3. written'[c]
      BY <1>4, <1>0 DEF WriteBody, BaseInv, TypeOK
    <3> QED
      BY <3>1, <3>2, <3>3
  <2>2. head \in Seq(Int) /\ Run(head, 0) /\ Len(head) = n
    <3>1. CASE written[c]
      BY <1>0, <3>1 DEF AnswerOf
    <3>2. CASE ~written[c]
      <4>1. out[c]["down"] = <<>> /\ sent[c]["down"] = 0
        BY <1>0, <3>2 DEF AnswerOf
      <4>2. LET h == Append(out[c]["down"], 0) IN h \in Seq(Int) /\ Run(h, 0) /\ Len(h) = 1
        BY <1>0, <4>1, RunOne, 0 \in Int
      <4> QED
        BY <3>2, <4>1, <4>2
    <3> QED
      BY <3>1, <3>2
  <2>3. n \in Nat /\ <<n>> \in Seq(Int) /\ Run(<<n>>, n) /\ Len(<<n>>) = 1
    BY <1>0 DEF Run
  <2> HIDE DEF head, n
  <2>4. Run(head \o <<n>>, 0) /\ Len(head \o <<n>>) = n + 1
    <3>1. Run(<<n>>, 0 + Len(head)) /\ 0 \in Int
      BY <2>2, <2>3
    <3>2. Run(head \o <<n>>, 0) /\ Len(head \o <<n>>) = Len(head) + Len(<<n>>)
      BY <2>2, <2>3, <3>1, RunConcat
    <3> QED
      BY <2>2, <2>3, <3>2
  <2>5. Run(out'[c]["down"], 0) /\ Len(out'[c]["down"]) = sent'[c]["down"] + 1
    BY <2>1, <2>4
  <2> QED
    BY <1>1, <2>1, <2>5 DEF AnswerOf
<1> QED
  BY <1>1, <1>2, <1>3, <1>4 DEF Libraries

LEMMA MovesFlow ==
  ASSUME IInv, NEW c \in Conns, Moves(c)
  PROVE  TunnelOf(c)' /\ AnswerOf(c)'
<1>1. CASE Peers(c)
  BY <1>1, ArriveFlow, ClientSendsFlow, TargetSendsFlow, SourceClosesFlow DEF Peers
<1>2. CASE Handler(c)
  BY <1>2, PeekFlow, PeekFailsFlow, ReadRequestFlow, DialFailsFlow, DialOkFlow, ReplyFlow,
     FirstDoneFlow, CloseTargetFlow, CloseClientFlow DEF Handler
<1>3. CASE Pump(c)
  BY <1>3, ReadUpFlow, ReadDownFlow, WriteUpFlow, WriteDownFlow, StopFlow, ReportFlow
     DEF Pump, Dirs
<1>4. CASE Libraries(c)
  BY <1>4, LibrariesFlow
<1> QED
  BY <1>1, <1>2, <1>3, <1>4 DEF Moves

LEMMA InitFlow ==
  ASSUME Init
  PROVE  IInv
<1> SUFFICES ASSUME NEW c \in Conns
             PROVE  TunnelOf(c) /\ AnswerOf(c)
  BY InitBase DEF IInv
<1>1. /\ stage[c] = "free" /\ own[c] = {} /\ buf[c] = <<>> /\ errCh[c] = 0 /\ ~written[c]
      /\ \A d \in Dirs : /\ wire[c][d] = <<>> /\ held[c][d] = <<>> /\ out[c][d] = <<>>
                         /\ sent[c][d] = 0 /\ ~eof[c][d] /\ pump[c][d] = "off"
      /\ "up" \in Dirs /\ "down" \in Dirs
  BY DEF Init, Both, Dirs
<1>2. OwnOf(c)
  BY <1>1 DEF OwnOf
<1>7. Len(<<>>) = 0 /\ Run(<<>>, 0) /\ Run(<<>>, 1)
  BY RunEmpty, 0 \in Int, 1 \in Int
<1>3. UpFlow(c)
  <2>1. /\ out[c]["up"] = <<>> /\ held[c]["up"] = <<>> /\ wire[c]["up"] = <<>>
        /\ sent[c]["up"] = 0 /\ Taken(c) = 0
    BY <1>1 DEF Taken
  <2>2. /\ Taken(c) + Len(out[c]["up"]) = 0
        /\ Taken(c) + Len(out[c]["up"]) + Len(held[c]["up"]) = 0
        /\ Taken(c) + Len(out[c]["up"]) + Len(held[c]["up"]) + Len(buf[c]) = 0
        /\ sent[c]["up"] = 0 + Len(wire[c]["up"])
    BY <1>1, <1>7, <2>1
  <2> QED
    BY <1>1, <1>7, <2>1, <2>2 DEF UpFlow
<1>4. DownFlow(c)
  <2>1. /\ out[c]["down"] = <<>> /\ held[c]["down"] = <<>> /\ wire[c]["down"] = <<>>
        /\ sent[c]["down"] = 0 /\ Awaited(c) = 1
    BY <1>1 DEF Awaited
  <2>2. /\ Awaited(c) + Len(out[c]["down"]) = 1
        /\ Awaited(c) + Len(out[c]["down"]) + Len(held[c]["down"]) = 1
        /\ sent[c]["down"] + 1 = 1 + Len(wire[c]["down"])
    BY <1>1, <1>7, <2>1
  <2> QED
    BY <1>1, <1>7, <2>1, <2>2 DEF DownFlow
<1>5. EndOf(c)
  BY <1>1 DEF EndOf, Stopped
<1>6. AnswerOf(c)
  BY <1>1, RunEmpty, 0 \in Int DEF AnswerOf
<1> QED
  BY <1>2, <1>3, <1>4, <1>5, <1>6 DEF TunnelOf

LEMMA IInvariant == Spec => []IInv
<1>1. Init => IInv
  BY InitFlow
<1>2. IInv /\ [Next]_vars => IInv'
  <2> SUFFICES ASSUME IInv, [Next]_vars
               PROVE  IInv'
    OBVIOUS
  <2>1. BaseInv'
    BY PeersBase, HandlerBase, PumpBase, LibrariesBase, StutterBase DEF Next, Pump, IInv
  <2>2. CASE UNCHANGED vars
    <3>1. \A e \in Conns : Same(e)
      BY <2>2 DEF vars, connVars, wireVars, pumpVars, Same
    <3> QED
      BY <2>1, <3>1, SameKeeps DEF IInv
  <2>3. ASSUME NEW c \in Conns, Moves(c) PROVE IInv'
    <3>1. ASSUME NEW e \in Conns PROVE TunnelOf(e)' /\ AnswerOf(e)'
      <4>1. CASE e = c
        BY <2>3, <4>1, MovesFlow
      <4>2. CASE e /= c
        BY <2>3, <4>2, Others, SameKeeps DEF IInv
      <4> QED
        BY <4>1, <4>2
    <3> QED
      BY <2>1, <3>1 DEF IInv
  <2> QED
    BY <2>2, <2>3 DEF Next, Moves
<1> QED
  BY <1>1, <1>2, PTL DEF Spec

\* The target of every tunnel receives the client's payload in order and
\* without a gap, the bytes that came along with the request included,
\* whatever the sizes of reads and whoever closes first (bufferConn and the
\* copying goroutines of handleConnect).
THEOREM UpIntactAlways == Spec => []UpIntact
<1>1. IInv => UpIntact
  <2> SUFFICES ASSUME IInv, NEW c \in Conns, kind[c] = "connect"
               PROVE  /\ out[c]["up"] = Count(out[c]["up"])
                      /\ stage[c] \in {"reply", "relay"}
                           /\ pump[c]["up"] \in {"off", "read", "write"} =>
                           LET all == out[c]["up"] \o held[c]["up"] \o buf[c] \o wire[c]["up"]
                           IN  all = Count(all) /\ Len(all) + 1 = sent[c]["up"]
    BY DEF UpIntact
  <2>1. BaseInv /\ UpFlow(c)
    BY DEF IInv, TunnelOf
  <2>2. /\ out[c]["up"] \in Seq(Int) /\ held[c]["up"] \in Seq(Int)
        /\ buf[c] \in Seq(Int) /\ wire[c]["up"] \in Seq(Int)
        /\ sent[c]["up"] \in Nat
    BY <2>1, TypesOf
  <2>3. Run(out[c]["up"], 1)
    BY <2>1 DEF UpFlow
  <2>4. out[c]["up"] = Count(out[c]["up"])
    BY <2>2, <2>3, RunCount
  <2>5. ASSUME stage[c] \in {"reply", "relay"}, pump[c]["up"] \in {"off", "read", "write"}
        PROVE  LET all == out[c]["up"] \o held[c]["up"] \o buf[c] \o wire[c]["up"]
               IN  all = Count(all) /\ Len(all) + 1 = sent[c]["up"]
    <3> DEFINE s1 == out[c]["up"] \o held[c]["up"]
               s2 == s1 \o buf[c]
               all == s2 \o wire[c]["up"]
    <3>1. /\ Run(held[c]["up"], 1 + Len(out[c]["up"]))
          /\ Run(buf[c], 1 + Len(out[c]["up"]) + Len(held[c]["up"]))
          /\ Run(wire[c]["up"], 1 + Len(out[c]["up"]) + Len(held[c]["up"]) + Len(buf[c]))
          /\ sent[c]["up"] = 1 + Len(out[c]["up"]) + Len(held[c]["up"]) + Len(buf[c])
                               + Len(wire[c]["up"])
      BY <2>1, <2>5 DEF UpFlow, Taken
    <3>2. Run(s1, 1) /\ s1 \in Seq(Int) /\ Len(s1) = Len(out[c]["up"]) + Len(held[c]["up"])
      BY <2>2, <2>3, <3>1, RunConcat, 1 \in Int
    <3> HIDE DEF s1
    <3>0. /\ Len(out[c]["up"]) \in Nat /\ Len(held[c]["up"]) \in Nat
          /\ Len(buf[c]) \in Nat /\ Len(wire[c]["up"]) \in Nat /\ Len(s1) \in Nat
      BY <2>2, <3>2, LenNat
    <3>3. 1 + Len(s1) = 1 + Len(out[c]["up"]) + Len(held[c]["up"])
      <4>1. Len(s1) = Len(out[c]["up"]) + Len(held[c]["up"])
        BY <3>2
      <4>2. PICK o \in Nat, h \in Nat, n \in Nat :
              o = Len(out[c]["up"]) /\ h = Len(held[c]["up"]) /\ n = Len(s1)
        BY <3>0
      <4>3. n = o + h
        BY <4>1, <4>2
      <4>4. 1 + n = 1 + o + h
        BY <4>3
      <4> QED
        BY <4>2, <4>4
    <3>4. Run(s2, 1) /\ s2 \in Seq(Int) /\ Len(s2) = Len(s1) + Len(buf[c])
      BY <2>2, <3>1, <3>2, <3>3, RunConcat, 1 \in Int
    <3> HIDE DEF s2
    <3>5. 1 + Len(s2) = 1 + Len(out[c]["up"]) + Len(held[c]["up"]) + Len(buf[c])
      <4>1. Len(s2) \in Nat
        BY <3>4
      <4>2. 1 + Len(s2) = 1 + Len(s1) + Len(buf[c])
        <5>1. Len(s2) = Len(s1) + Len(buf[c])
          BY <3>4
        <5>2. PICK m \in Nat, n \in Nat, b \in Nat :
                m = Len(s2) /\ n = Len(s1) /\ b = Len(buf[c])
          BY <3>0, <4>1
        <5>3. m = n + b
          BY <5>1, <5>2
        <5>4. 1 + m = 1 + n + b
          BY <5>3
        <5> QED
          BY <5>2, <5>4
      <4> QED
        BY <3>3, <4>2
    <3>6. Run(all, 1) /\ all \in Seq(Int) /\ Len(all) = Len(s2) + Len(wire[c]["up"])
      BY <2>2, <3>1, <3>4, <3>5, RunConcat, 1 \in Int
    <3>7. all = Count(all)
      BY <3>6, RunCount
    <3>8. Len(all) + 1 = sent[c]["up"]
      <4> HIDE DEF all
      <4>1. Len(s2) \in Nat /\ Len(all) \in Nat
        BY <3>4, <3>6, LenNat
      <4>2. Len(all) + 1 = 1 + Len(s2) + Len(wire[c]["up"])
        <5>1. Len(all) = Len(s2) + Len(wire[c]["up"]) /\ Len(wire[c]["up"]) \in Nat
          BY <3>0, <3>6
        <5> QED
          BY <4>1, <5>1, Moved
      <4> QED
        BY <3>1, <3>5, <4>2
    <3> QED
      BY <3>7, <3>8 DEF s1, s2
  <2> QED
    BY <2>4, <2>5
<1> QED
  BY <1>1, IInvariant, PTL

\* Every client receives one head and then its payload in order, through a
\* tunnel or from goproxy's calls of connResponseWriter.
THEOREM DownIntactAlways == Spec => []DownIntact
<1>1. IInv => DownIntact
  <2> SUFFICES ASSUME IInv, NEW c \in Conns
               PROVE  LET o == out[c]["down"] IN
                        o = <<BadGateway>> \/ o = [n \in 1..Len(o) |-> n - 1]
    BY DEF DownIntact
  <2>1. BaseInv /\ TunnelOf(c) /\ AnswerOf(c)
    BY DEF IInv
  <2>2. Run(out[c]["down"], 0) \/ out[c]["down"] = <<BadGateway>>
    BY <2>1 DEF TunnelOf, DownFlow, AnswerOf
  <2>3. out[c]["down"] \in Seq(Int)
    BY <2>1, TypesOf
  <2>4. ASSUME Run(out[c]["down"], 0)
        PROVE  out[c]["down"] = [n \in 1..Len(out[c]["down"]) |-> n - 1]
    BY <2>3, <2>4, RunFromZero
  <2> QED
    BY <2>2, <2>4
<1> QED
  BY <1>1, IInvariant, PTL

\* No answer is cut short by the end of the other direction: when a tunnel is
\* over although its client has not closed and all it sent was delivered, the
\* answer has ended and been delivered to its last piece (the first value of
\* errCh in handleConnect).
THEOREM AnswerCompleteAlways == Spec => []AnswerComplete
<1>1. IInv => AnswerComplete
  <2> SUFFICES ASSUME IInv, NEW c \in Conns, kind[c] = "connect", stage[c] = "done",
                      eof[c]["down"], ~eof[c]["up"], Len(out[c]["up"]) + 1 = sent[c]["up"]
               PROVE  Len(out[c]["down"]) = sent[c]["down"] + 1
    BY DEF AnswerComplete
  <2>1. BaseInv /\ OwnOf(c) /\ EndOf(c)
    BY DEF IInv, TunnelOf
  <2>2. pump[c]["up"] /= "off"
    BY <2>1 DEF OwnOf
  <2>3. ~(Len(out[c]["up"]) + 1 < sent[c]["up"])
    BY <2>1, TypesOf
  <2> QED
    BY <2>1, <2>2, <2>3 DEF EndOf, UpLost, DownDone
<1> QED
  BY <1>1, IInvariant, PTL

-----------------------------------------------------------------------------
(* A tunnel is a pair of byte streams.                                      *)

\* The copying goroutines start after the head of the answer, and the handler
\* closes nothing before one of them has stopped.
OrderOf(c) == kind[c] = "connect" =>
  /\ pump[c]["down"] /= "off" => out[c]["down"] /= <<>>
  /\ stage[c] \in {"closing", "done"} /\ pump[c]["up"] /= "off" =>
       Stopped(c, "up") \/ Stopped(c, "down")

OrderInv == \A c \in Conns : OrderOf(c)

LEMMA NotEmpty ==
  ASSUME NEW s \in Seq(Int), NEW b \in Int
  PROVE  Append(s, b) /= <<>>
<1>1. Len(Append(s, b)) = Len(s) + 1 /\ Len(s) \in Nat /\ Len(<<>>) = 0
  OBVIOUS
<1> QED
  BY <1>1

LEMMA GrownNotEmpty ==
  ASSUME NEW s \in Seq(Int), NEW t \in Seq(Int), s /= <<>>
  PROVE  s \o t /= <<>>
OBVIOUS

LEMMA PeersOrder ==
  ASSUME IInv, NEW c \in Conns, OrderOf(c), Peers(c)
  PROVE  OrderOf(c)'
<1>1. /\ UNCHANGED <<kind, pump, out>>
      /\ stage'[c] \in {"closing", "done"} => stage[c] \in {"closing", "done"}
  BY DEF Peers, Arrive, ClientSends, TargetSends, SourceSends, SourceCloses, Goto,
         connVars, pumpVars, IInv, BaseInv, TypeOK
<1> QED
  BY <1>1 DEF OrderOf, Stopped

LEMMA HandlerOrder ==
  ASSUME IInv, NEW c \in Conns, OrderOf(c), Handler(c)
  PROVE  OrderOf(c)'
<1> SUFFICES ASSUME kind'[c] = "connect" PROVE OrderOf(c)'
  BY DEF OrderOf
<1>0. BaseInv /\ kind' = kind /\ kind[c] = "connect"
  BY DEF IInv, Handler, Peek, PeekFails, ReadRequest, DialFails, DialOk, Reply, FirstDone,
         CloseTarget, CloseClient, connVars
<1>1. OwnOf(c) /\ UpFlow(c) /\ DownFlow(c) /\ EndOf(c) /\ StageOf(c)
  BY <1>0, TypesOf DEF IInv, TunnelOf
<1>2. CASE Peek(c) \/ ReadRequest(c) \/ DialOk(c)
  <2>1. UNCHANGED <<pump, out>> /\ stage'[c] \notin {"closing", "done"}
    BY <1>0, <1>2, ReadRequestStep DEF Peek, ReadRequest, DialOk, Goto, pumpVars, BaseInv, TypeOK
  <2> QED
    BY <1>0, <2>1 DEF OrderOf
<1>3. CASE PeekFails(c) \/ DialFails(c)
  <2>1. pump' = pump /\ pump[c]["up"] = "off" /\ pump[c]["down"] = "off"
    BY <1>1, <1>3 DEF PeekFails, DialFails, pumpVars, StageOf
  <2> QED
    BY <2>1 DEF OrderOf
<1>4. CASE Reply(c)
  <2>1. out'[c]["down"] = Append(out[c]["down"], OkHead) /\ stage'[c] = "relay"
    BY <1>0, <1>4 DEF Reply, Answer, Goto, BaseInv, TypeOK, Dirs
  <2>2. out'[c]["down"] /= <<>>
    <3>1. out[c]["down"] \in Seq(Int) /\ OkHead \in Int
      BY <1>0, TypesOf DEF OkHead
    <3> QED
      BY <2>1, <3>1, NotEmpty
  <2> QED
    BY <2>1, <2>2 DEF OrderOf
<1>5. CASE FirstDone(c)
  <2>1. UNCHANGED <<pump, out>> /\ (Stopped(c, "up") \/ Stopped(c, "down"))
    BY <1>1, <1>5 DEF FirstDone, EndOf
  <2> QED
    BY <1>0, <2>1 DEF OrderOf, Stopped
<1>6. CASE CloseTarget(c) \/ CloseClient(c)
  <2>1. UNCHANGED <<pump, out>> /\ stage[c] = "closing"
    BY <1>6 DEF CloseTarget, CloseClient, pumpVars
  <2> QED
    BY <1>0, <2>1 DEF OrderOf, Stopped
<1> QED
  BY <1>2, <1>3, <1>4, <1>5, <1>6 DEF Handler

\* What a step of a copying goroutine does to the place it is at.
LEMMA PumpNext ==
  ASSUME BaseInv, NEW c \in Conns, NEW d \in Dirs,
         PumpRead(c, d) \/ PumpWrite(c, d) \/ PumpStops(c, d) \/ PumpReports(c, d)
  PROVE  /\ UNCHANGED <<kind, stage>>
         /\ pump[c][d] /= "off" /\ pump'[c][d] /= "off"
         /\ pump[c][d] \in {"report", "ended"} => pump'[c][d] = "ended"
         /\ \A e \in Dirs : e /= d => pump'[c][e] = pump[c][e]
<1>1. /\ pump \in [Conns -> [Dirs -> {"off", "read", "write", "report", "ended"}]]
      /\ kind' = kind /\ stage' = stage
  BY DEF BaseInv, TypeOK, PumpRead, PumpWrite, PumpStops, PumpReports, connVars
<1>2. \/ pump[c][d] = "read" /\ pump' = [pump EXCEPT ![c][d] = "write"]
      \/ pump[c][d] = "write" /\ pump' = [pump EXCEPT ![c][d] = "read"]
      \/ pump[c][d] \in {"read", "write"} /\ pump' = [pump EXCEPT ![c][d] = "report"]
      \/ pump[c][d] = "report" /\ pump' = [pump EXCEPT ![c][d] = "ended"]
  BY DEF PumpRead, PumpWrite, PumpStops, PumpReports
<1> QED
  BY <1>1, <1>2

\* A goroutine that has stopped stays so, and what is delivered only grows.
LEMMA PumpOrder ==
  ASSUME IInv, NEW c \in Conns, OrderOf(c), Pump(c)
  PROVE  OrderOf(c)'
<1>0. BaseInv
  BY DEF IInv
<1>1. PICK d \in Dirs : PumpRead(c, d) \/ PumpWrite(c, d) \/ PumpStops(c, d) \/ PumpReports(c, d)
  BY DEF Pump
<1>2. /\ UNCHANGED <<kind, stage>>
      /\ \A e \in Dirs : Stopped(c, e) => Stopped(c, e)'
      /\ \A e \in Dirs : pump'[c][e] /= "off" <=> pump[c][e] /= "off"
  BY <1>0, <1>1, PumpNext DEF Stopped
<1>3. out[c]["down"] /= <<>> => out'[c]["down"] /= <<>>
  <2>1. CASE PumpWrite(c, d)
    <3>1. out'[c]["down"] = IF d = "down" THEN out[c]["down"] \o held[c]["down"] ELSE out[c]["down"]
      BY <1>0, <2>1 DEF PumpWrite, BaseInv, TypeOK, Dirs
    <3>2. out[c]["down"] \in Seq(Int) /\ held[c]["down"] \in Seq(Int)
      BY <1>0, TypesOf
    <3> QED
      BY <3>1, <3>2, GrownNotEmpty
  <2>2. CASE ~PumpWrite(c, d)
    BY <1>1, <2>2 DEF PumpRead, PumpStops, PumpReports
  <2> QED
    BY <2>1, <2>2
<1> QED
  BY <1>2, <1>3 DEF OrderOf, Dirs

LEMMA LibrariesOther ==
  ASSUME BaseInv, NEW c \in Conns, Libraries(c)
  PROVE  kind' = kind /\ kind[c] /= "connect" /\ UNCHANGED <<pump, eof>>
<1>1. StageOf(c)
  BY TypesOf
<1> QED
  BY <1>1 DEF Libraries, TransportDials, WriteHeader, WriteBody, Served, SocksDials, SocksServed,
              LibraryCloses, StageOf, connVars, wireVars, pumpVars

LEMMA OrderInvariant == Spec => [](IInv /\ OrderInv)
<1>1. Init => OrderInv
  BY DEF Init, Both, Dirs, OrderInv, OrderOf
<1>2. IInv /\ OrderInv /\ [Next]_vars => OrderInv'
  <2> SUFFICES ASSUME IInv, OrderInv, [Next]_vars, NEW e \in Conns
               PROVE  OrderOf(e)'
    BY DEF OrderInv
  <2>0. OrderOf(e) /\ BaseInv
    BY DEF OrderInv, IInv
  <2>1. Same(e) => OrderOf(e)'
    BY <2>0 DEF Same, OrderOf, Stopped
  <2>2. CASE UNCHANGED vars
    BY <2>1, <2>2 DEF vars, connVars, wireVars, pumpVars, Same
  <2>3. ASSUME NEW c \in Conns, Moves(c) PROVE OrderOf(e)'
    <3>1. CASE e /= c
      BY <2>0, <2>1, <2>3, <3>1, Others
    <3>2. CASE e = c
      <4>1. Libraries(e) => OrderOf(e)'
        BY <2>0, LibrariesOther DEF OrderOf
      <4> QED
        BY <2>0, <2>3, <3>2, <4>1, PeersOrder, HandlerOrder, PumpOrder DEF Moves
    <3> QED
      BY <3>1, <3>2
  <2> QED
    BY <2>2, <2>3 DEF Next, Moves
<1> QED
  BY <1>1, <1>2, IInvariant, PTL DEF Spec

\* The streams of a connection before and after a step.
KeepSent(e)   == \A k \in Dirs : AbsSent(e, k)' = AbsSent(e, k)
KeepGot(e)    == \A k \in Dirs : AbsGot(e, k)' = AbsGot(e, k)
KeepClosed(e) == \A k \in Dirs : (IsTunnel(e) /\ eof[e][k])' <=> (IsTunnel(e) /\ eof[e][k])
KeepOver(e)   == \A k \in Dirs : Stopped(e, k)' = Stopped(e, k)
Quiet(e)      == KeepSent(e) /\ KeepClosed(e) /\ KeepGot(e) /\ KeepOver(e)

LEMMA StreamAt ==
  ASSUME NEW e \in Conns, NEW k \in Dirs
  PROVE  /\ StreamSent[e][k] = AbsSent(e, k) /\ StreamGot[e][k] = AbsGot(e, k)
         /\ StreamClosed[e][k] <=> IsTunnel(e) /\ eof[e][k]
         /\ StreamOver[e][k] <=> Stopped(e, k)
BY DEF StreamSent, StreamGot, StreamClosed, StreamOver

LEMMA SentKept ==
  ASSUME \A e \in Conns : KeepSent(e)
  PROVE  StreamSent' = StreamSent
BY DEF KeepSent, StreamSent

LEMMA GotKept ==
  ASSUME \A e \in Conns : KeepGot(e)
  PROVE  StreamGot' = StreamGot
BY DEF KeepGot, StreamGot

LEMMA ClosedKept ==
  ASSUME \A e \in Conns : KeepClosed(e)
  PROVE  StreamClosed' = StreamClosed
BY DEF KeepClosed, StreamClosed

LEMMA OverKept ==
  ASSUME \A e \in Conns : KeepOver(e)
  PROVE  StreamOver' = StreamOver
BY DEF KeepOver, StreamOver

\* A step that leaves the streams of every other connection alone and changes
\* one of them at most is a step of ByteStreams or none.
LEMMA QuietStep ==
  ASSUME \A e \in Conns : Quiet(e)
  PROVE  UNCHANGED Streams!vars
BY SentKept, GotKept, ClosedKept, OverKept DEF Quiet, Streams!vars

LEMMA SendStep ==
  ASSUME NEW c \in Conns, NEW d \in Dirs, \A e \in Conns \ {c} : Quiet(e),
         KeepClosed(c), KeepGot(c), KeepOver(c),
         ~eof[c][d], AbsSent(c, d)' = AbsSent(c, d) + 1,
         \A k \in Dirs \ {d} : AbsSent(c, k)' = AbsSent(c, k)
  PROVE  Streams!Send(c, d)
<1>1. UNCHANGED <<StreamClosed, StreamGot, StreamOver>>
  BY GotKept, ClosedKept, OverKept DEF Quiet
<1>2. StreamSent' = [StreamSent EXCEPT ![c][d] = StreamSent[c][d] + 1]
  BY DEF StreamSent, Quiet, KeepSent
<1>3. ~StreamClosed[c][d]
  BY StreamAt
<1> QED
  BY <1>1, <1>2, <1>3 DEF Streams!Send

LEMMA CloseOfStream ==
  ASSUME NEW c \in Conns, NEW d \in Dirs, \A e \in Conns \ {c} : Quiet(e),
         KeepSent(c), KeepGot(c), KeepOver(c),
         ~eof[c][d], IsTunnel(c)', eof'[c][d],
         \A k \in Dirs \ {d} : (IsTunnel(c) /\ eof[c][k])' <=> (IsTunnel(c) /\ eof[c][k])
  PROVE  Streams!Close(c, d)
<1>1. UNCHANGED <<StreamSent, StreamGot, StreamOver>>
  BY GotKept, SentKept, OverKept DEF Quiet
<1>2. StreamClosed' = [StreamClosed EXCEPT ![c][d] = TRUE]
  BY DEF StreamClosed, Quiet, KeepClosed
<1>3. ~StreamClosed[c][d]
  BY StreamAt
<1> QED
  BY <1>1, <1>2, <1>3 DEF Streams!Close

LEMMA DeliverStep ==
  ASSUME NEW c \in Conns, NEW d \in Dirs, \A e \in Conns \ {c} : Quiet(e),
         KeepSent(c), KeepClosed(c), KeepOver(c), ~Stopped(c, d),
         NEW n \in 1..(AbsSent(c, d) - Len(AbsGot(c, d))),
         AbsGot(c, d)' = AbsGot(c, d) \o [i \in 1..n |-> Len(AbsGot(c, d)) + i],
         \A k \in Dirs \ {d} : AbsGot(c, k)' = AbsGot(c, k)
  PROVE  Streams!Deliver(c, d)
<1>1. UNCHANGED <<StreamSent, StreamClosed, StreamOver>>
  BY SentKept, ClosedKept, OverKept DEF Quiet
<1>2. StreamGot' = [StreamGot EXCEPT ![c][d] = AbsGot(c, d)']
  BY DEF StreamGot, Quiet, KeepGot
<1>3. ~StreamOver[c][d] /\ StreamSent[c][d] = AbsSent(c, d) /\ StreamGot[c][d] = AbsGot(c, d)
  BY StreamAt
<1>4. StreamGot' = [StreamGot EXCEPT ![c][d] =
                      StreamGot[c][d] \o [i \in 1..n |-> Len(StreamGot[c][d]) + i]]
  BY <1>2, <1>3
<1> QED
  BY <1>1, <1>3, <1>4 DEF Streams!Deliver

LEMMA EndStep ==
  ASSUME NEW c \in Conns, NEW d \in Dirs, \A e \in Conns \ {c} : Quiet(e),
         KeepSent(c), KeepClosed(c), KeepGot(c), ~Stopped(c, d), Stopped(c, d)' = TRUE,
         \A k \in Dirs \ {d} : Stopped(c, k)' = Stopped(c, k),
         \/ IsTunnel(c) /\ eof[c][d] /\ Len(AbsGot(c, d)) = AbsSent(c, d)
         \/ Stopped(c, Back(d)) \/ (IsTunnel(c) /\ eof[c][Back(d)])
  PROVE  Streams!End(c, d)
<1>1. UNCHANGED <<StreamSent, StreamClosed, StreamGot>>
  BY SentKept, ClosedKept, GotKept DEF Quiet
<1>2. StreamOver' = [StreamOver EXCEPT ![c][d] = TRUE]
  BY DEF StreamOver, Quiet, KeepOver
<1>3. Back(d) \in Dirs /\ Back(d) = Streams!Opposite(d)
  BY DEF Back, Streams!Opposite, Dirs
<1>4. /\ ~StreamOver[c][d]
      /\ \/ StreamClosed[c][d] /\ Len(StreamGot[c][d]) = StreamSent[c][d]
         \/ StreamOver[c][Back(d)] \/ StreamClosed[c][Back(d)]
  BY <1>3, StreamAt
<1> QED
  BY <1>1, <1>2, <1>3, <1>4 DEF Streams!End

LEMMA StreamsInit ==
  ASSUME Init
  PROVE  Streams!Init
<1>1. ASSUME NEW c \in Conns, NEW d \in Dirs
      PROVE  /\ AbsSent(c, d) = 0 /\ AbsGot(c, d) = <<>> /\ ~eof[c][d] /\ Stopped(c, d) = FALSE
  BY DEF Init, Both, AbsSent, AbsGot, Payload, Stopped
<1>2. Streams!Dirs = Dirs
  BY DEF Streams!Dirs, Dirs
<1>3. StreamSent = [c \in Conns |-> [d \in Dirs |-> 0]]
  BY <1>1 DEF StreamSent
<1>4. StreamGot = [c \in Conns |-> [d \in Dirs |-> <<>>]]
  BY <1>1 DEF StreamGot
<1>5. StreamClosed = [c \in Conns |-> [d \in Dirs |-> FALSE]]
  BY <1>1 DEF StreamClosed
<1>6. StreamOver = [c \in Conns |-> [d \in Dirs |-> FALSE]]
  BY <1>1 DEF StreamOver
<1> QED
  BY <1>2, <1>3, <1>4, <1>5, <1>6 DEF Streams!Init

LEMMA StreamsNext ==
  ASSUME NEW c \in Conns, NEW d \in Dirs,
         \/ Streams!Send(c, d) \/ Streams!Close(c, d)
         \/ Streams!Deliver(c, d) \/ Streams!End(c, d)
  PROVE  Streams!Next
BY DEF Streams!Next, Streams!Dirs, Dirs

LEMMA KindKept ==
  ASSUME BaseInv, NEW c \in Conns, Moves(c)
  PROVE  kind' = kind
<1>1. Peers(c) => kind' = kind
  BY DEF Peers, Arrive, ClientSends, TargetSends, SourceSends, SourceCloses, connVars
<1>2. Handler(c) => kind' = kind
  BY DEF Handler, Peek, PeekFails, ReadRequest, DialFails, DialOk, Reply, FirstDone,
         CloseTarget, CloseClient, connVars
<1>3. Pump(c) => kind' = kind
  BY PumpNext DEF Pump
<1> QED
  BY <1>1, <1>2, <1>3, LibrariesOther DEF Moves

LEMMA Keeps ==
  ASSUME NEW e \in Conns, kind'[e] = kind[e]
  PROVE  /\ sent'[e] = sent[e] => KeepSent(e)
         /\ out'[e] = out[e] => KeepGot(e)
         /\ eof'[e] = eof[e] => KeepClosed(e)
         /\ pump'[e] = pump[e] => KeepOver(e)
<1>1. sent'[e] = sent[e] => KeepSent(e)
  BY DEF KeepSent, AbsSent, IsTunnel
<1>2. out'[e] = out[e] => KeepGot(e)
  BY DEF KeepGot, AbsGot, IsTunnel, Payload
<1>3. eof'[e] = eof[e] => KeepClosed(e)
  BY DEF KeepClosed, IsTunnel
<1>4. pump'[e] = pump[e] => KeepOver(e)
  BY DEF KeepOver, Stopped
<1> QED
  BY <1>1, <1>2, <1>3, <1>4

\* A connection without a tunnel has no streams.
LEMMA OtherQuiet ==
  ASSUME BaseInv, BaseInv', NEW c \in Conns, Moves(c), kind[c] /= "connect"
  PROVE  Quiet(c)
<1>1. kind'[c] = kind[c]
  BY KindKept
<1>2. KeepSent(c) /\ KeepGot(c) /\ KeepClosed(c)
  BY <1>1 DEF KeepSent, KeepGot, KeepClosed, AbsSent, AbsGot, IsTunnel
<1>3. \A k \in Dirs : pump[c][k] = "off" /\ pump'[c][k] = "off"
  BY <1>1 DEF BaseInv, StageInv, StageOf, Dirs
<1>4. KeepOver(c)
  BY <1>3 DEF KeepOver, Stopped
<1> QED
  BY <1>2, <1>4 DEF Quiet

\* The peers send into the streams and close them.
LEMMA PeersStreams ==
  ASSUME IInv, NEW c \in Conns, kind[c] = "connect", \A e \in Conns \ {c} : Quiet(e), Peers(c)
  PROVE  Streams!Next \/ UNCHANGED Streams!vars
<1>0. /\ BaseInv /\ kind' = kind /\ "up" \in Dirs /\ "down" \in Dirs
      /\ sent[c]["up"] \in Nat /\ sent[c]["down"] \in Nat
  BY KindKept, TypesOf DEF IInv, Moves
<1>1. CASE Arrive(c)
  <2>1. Quiet(c)
    BY <1>0, <1>1, Keeps DEF Arrive, wireVars, pumpVars, Quiet
  <2> QED
    BY <2>1, QuietStep
<1>2. CASE ClientSends(c)
  <2>1. /\ ~eof[c]["up"] /\ sent'[c]["up"] = sent[c]["up"] + 1
        /\ sent'[c]["down"] = sent[c]["down"] /\ UNCHANGED <<eof, out, pump>>
    BY <1>0, <1>2 DEF ClientSends, SourceSends, pumpVars, BaseInv, TypeOK
  <2>2. KeepClosed(c) /\ KeepGot(c) /\ KeepOver(c)
    BY <1>0, <2>1, Keeps
  <2>3. AbsSent(c, "down")' = AbsSent(c, "down")
    BY <1>0, <2>1 DEF AbsSent, IsTunnel
  <2>4. CASE sent[c]["up"] = 0
    <3>1. AbsSent(c, "up")' = AbsSent(c, "up")
      BY <1>0, <2>1, <2>4 DEF AbsSent, IsTunnel
    <3>2. Quiet(c)
      BY <2>2, <2>3, <3>1 DEF Quiet, KeepSent, Dirs
    <3> QED
      BY <3>2, QuietStep
  <2>5. CASE sent[c]["up"] /= 0
    <3>1. AbsSent(c, "up")' = AbsSent(c, "up") + 1
      BY <1>0, <2>1, <2>5 DEF AbsSent, IsTunnel
    <3>2. \A k \in Dirs \ {"up"} : AbsSent(c, k)' = AbsSent(c, k)
      BY <2>3 DEF Dirs
    <3>3. Streams!Send(c, "up")
      BY <1>0, <2>1, <2>2, <3>1, <3>2, SendStep
    <3> QED
      BY <1>0, <3>3, StreamsNext
  <2> QED
    BY <2>4, <2>5
<1>3. CASE TargetSends(c)
  <2>1. /\ ~eof[c]["down"] /\ sent'[c]["down"] = sent[c]["down"] + 1
        /\ sent'[c]["up"] = sent[c]["up"] /\ UNCHANGED <<eof, out, pump>>
    BY <1>0, <1>3 DEF TargetSends, SourceSends, pumpVars, BaseInv, TypeOK
  <2>2. KeepClosed(c) /\ KeepGot(c) /\ KeepOver(c)
    BY <1>0, <2>1, Keeps
  <2>3. AbsSent(c, "down")' = AbsSent(c, "down") + 1
    BY <1>0, <2>1 DEF AbsSent, IsTunnel
  <2>4. \A k \in Dirs \ {"down"} : AbsSent(c, k)' = AbsSent(c, k)
    BY <1>0, <2>1 DEF AbsSent, IsTunnel, Dirs
  <2>5. Streams!Send(c, "down")
    BY <1>0, <2>1, <2>2, <2>3, <2>4, SendStep
  <2> QED
    BY <1>0, <2>5, StreamsNext
<1>4. ASSUME NEW d \in Dirs, SourceCloses(c, d) PROVE Streams!Next
  <2>1. /\ ~eof[c][d] /\ eof'[c][d] /\ UNCHANGED <<sent, out, pump>>
        /\ \A k \in Dirs \ {d} : eof'[c][k] = eof[c][k]
    BY <1>0, <1>4 DEF SourceCloses, pumpVars, BaseInv, TypeOK
  <2>2. KeepSent(c) /\ KeepGot(c) /\ KeepOver(c)
    BY <1>0, <2>1, Keeps
  <2>3. /\ IsTunnel(c)'
        /\ \A k \in Dirs \ {d} : (IsTunnel(c) /\ eof[c][k])' <=> (IsTunnel(c) /\ eof[c][k])
    BY <1>0, <2>1 DEF IsTunnel
  <2>4. Streams!Close(c, d)
    BY <2>1, <2>2, <2>3, CloseOfStream
  <2> QED
    BY <2>4, StreamsNext
<1> QED
  BY <1>1, <1>2, <1>3, <1>4 DEF Peers

LEMMA OneTail ==
  ASSUME NEW s, s = <<>>, NEW b \in Int
  PROVE  Payload(Append(s, b)) = Payload(s)
<1>1. Append(s, b) = <<b>> /\ Tail(<<b>>) = <<>>
  OBVIOUS
<1>2. <<b>> /= <<>>
  OBVIOUS
<1> QED
  BY <1>1, <1>2 DEF Payload

\* The handler of a tunnel writes heads, and no payload.
LEMMA HandlerStreams ==
  ASSUME IInv, NEW c \in Conns, kind[c] = "connect", Handler(c)
  PROVE  Quiet(c)
<1>0. /\ BaseInv /\ kind' = kind /\ "up" \in Dirs /\ "down" \in Dirs
      /\ OwnOf(c) /\ DownFlow(c) /\ StageOf(c)
  BY KindKept, TypesOf DEF IInv, Moves, TunnelOf
<1>1. CASE DialFails(c) \/ Reply(c)
  <2>1. PICK b \in Int : out' = [out EXCEPT ![c]["down"] = Append(@, b)]
    <3>1. OkHead \in Int /\ BadGateway \in Int
      BY DEF OkHead, BadGateway
    <3>2. CASE DialFails(c)
      BY <3>1, <3>2 DEF DialFails, Answer
    <3>3. CASE Reply(c)
      BY <3>1, <3>3 DEF Reply, Answer
    <3> QED
      BY <1>1, <3>2, <3>3
  <2>2. out[c]["down"] = <<>> /\ pump[c]["up"] = "off" /\ pump[c]["down"] = "off"
    BY <1>0, <1>1 DEF DialFails, Reply, DownFlow, StageOf
  <2>3. out'[c]["down"] = Append(out[c]["down"], b) /\ out'[c]["up"] = out[c]["up"]
    BY <1>0, <2>1 DEF BaseInv, TypeOK
  <2>4. KeepGot(c)
    BY <1>0, <2>2, <2>3, OneTail DEF KeepGot, AbsGot, IsTunnel, Dirs
  <2>5. KeepOver(c)
    <3>1. \A k \in Dirs : pump'[c][k] \in {"off", "read"} /\ pump[c][k] = "off"
      BY <1>0, <1>1, <2>2 DEF DialFails, Reply, Both, BaseInv, TypeOK, Dirs
    <3> QED
      BY <3>1 DEF KeepOver, Stopped
  <2>6. sent' = sent /\ eof' = eof
    BY <1>1 DEF DialFails, Reply, wireVars
  <2> QED
    BY <1>0, <2>4, <2>5, <2>6, Keeps DEF Quiet
<1>2. CASE ~(DialFails(c) \/ Reply(c))
  <2>1. UNCHANGED <<sent, eof, out, pump>>
    BY <1>2 DEF Handler, Peek, PeekFails, ReadRequest, DialOk, FirstDone, CloseTarget,
                CloseClient, wireVars, pumpVars
  <2> QED
    BY <1>0, <2>1, Keeps DEF Quiet
<1> QED
  BY <1>1, <1>2

LEMMA RunIs ==
  ASSUME NEW s \in Seq(Int), NEW a \in Int, Run(s, a + 1)
  PROVE  s = [i \in 1..Len(s) |-> a + i]
<1>1. \A i \in 1..Len(s) : s[i] = a + i
  BY DEF Run
<1> QED
  BY <1>1

LEMMA TailConcat ==
  ASSUME NEW s \in Seq(Int), NEW t \in Seq(Int), s /= <<>>
  PROVE  /\ Payload(s \o t) = Payload(s) \o t
         /\ Len(Payload(s)) = Len(s) - 1
<1>1. s \o t /= <<>> /\ Len(s) \in Nat /\ Len(s) > 0 /\ Len(Tail(s)) = Len(s) - 1
  OBVIOUS
<1>2. Tail(s \o t) = Tail(s) \o t
  OBVIOUS
<1> QED
  BY <1>1, <1>2 DEF Payload

\* A write delivers the next pieces.
LEMMA WriteStreams ==
  ASSUME IInv, NEW c \in Conns, OrderOf(c), NEW d \in Dirs, \A e \in Conns \ {c} : Quiet(e),
         PumpWrite(c, d)
  PROVE  Streams!Next
<1>0. /\ BaseInv /\ kind[c] = "connect" /\ kind' = kind /\ pump[c][d] = "write"
      /\ OwnOf(c) /\ UpFlow(c) /\ DownFlow(c) /\ "up" \in Dirs /\ "down" \in Dirs
      /\ stage[c] \in {"relay", "closing"}
  <2>1. /\ BaseInv /\ kind[c] = "connect" /\ OwnOf(c) /\ UpFlow(c) /\ DownFlow(c)
        /\ stage[c] \in {"relay", "closing", "done"}
    BY PumpOf DEF PumpWrite
  <2>2. kind' = kind /\ pump[c][d] = "write" /\ own[c] /= {}
    BY PumpNext, <2>1 DEF PumpWrite
  <2> QED
    BY <2>1, <2>2 DEF OwnOf, Dirs
<1>1. /\ out'[c][d] = out[c][d] \o held[c][d] /\ pump'[c][d] = "read"
      /\ \A k \in Dirs \ {d} : out'[c][k] = out[c][k] /\ pump'[c][k] = pump[c][k]
      /\ UNCHANGED <<sent, eof>>
  BY <1>0 DEF PumpWrite, wireVars, BaseInv, TypeOK
<1>2. KeepSent(c) /\ KeepClosed(c)
  BY <1>0, <1>1, Keeps
<1>3. KeepOver(c) /\ ~Stopped(c, d)
  <2>1. pump[c][d] \notin {"report", "ended"} /\ pump'[c][d] \notin {"report", "ended"}
    BY <1>0, <1>1
  <2>2. \A k \in Dirs : Stopped(c, k)' = Stopped(c, k)
    BY <1>1, <2>1 DEF Stopped
  <2> QED
    BY <2>1, <2>2 DEF KeepOver, Stopped
<1>4. \A k \in Dirs \ {d} : AbsGot(c, k)' = AbsGot(c, k)
  BY <1>0, <1>1 DEF AbsGot, IsTunnel
<1>5. /\ out[c][d] \in Seq(Int) /\ held[c][d] \in Seq(Int) /\ held[c][d] /= <<>>
      /\ Len(held[c][d]) \in Nat /\ Len(held[c][d]) > 0 /\ Len(out[c][d]) \in Nat
  <2>1. out[c][d] \in Seq(Int) /\ held[c][d] \in Seq(Int) /\ held[c][d] /= <<>>
    BY <1>0, TypesOf DEF OwnOf, Dirs
  <2> QED
    BY <2>1
<1>6. PICK n \in Nat : n = Len(held[c][d]) /\ n > 0
  BY <1>5
<1>7. /\ n \in 1..(AbsSent(c, d) - Len(AbsGot(c, d)))
      /\ AbsGot(c, d)' = AbsGot(c, d) \o [i \in 1..n |-> Len(AbsGot(c, d)) + i]
  <2>1. CASE d = "up"
    <3>1. PICK o \in Nat, x \in Nat, w \in Nat, s \in Nat :
            /\ o = Len(out[c]["up"]) /\ x = Len(buf[c]) /\ w = Len(wire[c]["up"])
            /\ s = sent[c]["up"]
      <4>1. /\ out[c]["up"] \in Seq(Int) /\ buf[c] \in Seq(Nat) /\ wire[c]["up"] \in Seq(Nat)
            /\ sent[c]["up"] \in Nat
        BY <1>0, TypesOf
      <4>2. Len(out[c]["up"]) \in Nat /\ Len(buf[c]) \in Nat /\ Len(wire[c]["up"]) \in Nat
        BY <4>1
      <4> QED
        BY <4>1, <4>2
    <3>2. Run(held[c]["up"], 1 + o) /\ s = 1 + o + n + x + w
      BY <1>0, <1>6, <2>1, <3>1 DEF UpFlow, Taken
    <3>3. /\ AbsGot(c, "up") = out[c]["up"] /\ Len(AbsGot(c, "up")) = o
          /\ AbsGot(c, "up")' = AbsGot(c, "up") \o held[c]["up"]
      BY <1>0, <1>1, <2>1, <3>1 DEF AbsGot, IsTunnel
    <3>4. AbsSent(c, "up") = o + n + x + w
      <4>1. s > 0 /\ s - 1 = o + n + x + w
        BY <3>2
      <4> QED
        BY <1>0, <3>1, <4>1 DEF AbsSent, IsTunnel
    <3>5. n \in 1..(o + n + x + w - o)
      BY <1>6
    <3>6. held[c]["up"] = [i \in 1..n |-> o + i]
      <4>1. Run(held[c]["up"], o + 1)
        <5>1. 1 + o = o + 1
          OBVIOUS
        <5> QED
          BY <3>2, <5>1
      <4>2. held[c]["up"] \in Seq(Int) /\ Len(held[c]["up"]) = n /\ o \in Int
        BY <1>5, <1>6, <2>1
      <4>3. held[c]["up"] = [i \in 1..Len(held[c]["up"]) |-> o + i]
        BY <4>1, <4>2, RunIs
      <4> QED
        BY <4>2, <4>3
    <3>7. n \in 1..(AbsSent(c, "up") - Len(AbsGot(c, "up")))
      BY <3>3, <3>4, <3>5
    <3>8. [i \in 1..n |-> Len(AbsGot(c, "up")) + i] = held[c]["up"]
      BY <3>3, <3>6
    <3> QED
      BY <2>1, <3>3, <3>7, <3>8
  <2>2. CASE d = "down"
    <3>1. PICK o \in Nat, w \in Nat, s \in Nat :
            o = Len(out[c]["down"]) /\ w = Len(wire[c]["down"]) /\ s = sent[c]["down"]
      BY <1>0, TypesOf
    <3>2. Run(held[c]["down"], o) /\ s + 1 = o + n + w
      <4>1. Awaited(c) = 0
        BY <1>0, <2>2 DEF Awaited
      <4>2. /\ Run(held[c]["down"], 0 + o) /\ s + 1 = 0 + o + n + w
        BY <1>0, <1>6, <2>2, <3>1, <4>1 DEF DownFlow
      <4>3. 0 + o = o
        OBVIOUS
      <4> QED
        BY <4>2, <4>3
    <3>3. out[c]["down"] /= <<>>
      BY <1>0, <2>2 DEF OrderOf
    <3>4. /\ AbsGot(c, "down") = Payload(out[c]["down"])
          /\ AbsGot(c, "down")' = Payload(out[c]["down"]) \o held[c]["down"]
          /\ Len(AbsGot(c, "down")) = o - 1
      <4>1. /\ Payload(out[c]["down"] \o held[c]["down"]) = Payload(out[c]["down"]) \o held[c]["down"]
            /\ Len(Payload(out[c]["down"])) = o - 1
        BY <1>5, <2>2, <3>1, <3>3, TailConcat
      <4>2. AbsGot(c, "down")' = Payload(out'[c]["down"])
        BY <1>0 DEF AbsGot, IsTunnel, Payload
      <4> QED
        BY <1>0, <1>1, <2>2, <4>1, <4>2 DEF AbsGot, IsTunnel
    <3>5. AbsSent(c, "down") = s
      BY <1>0, <3>1 DEF AbsSent, IsTunnel
    <3>6. n \in 1..(s - (o - 1))
      BY <1>6, <3>2
    <3>7. held[c]["down"] = [i \in 1..n |-> (o - 1) + i]
      <4>1. PICK a \in Int : a = o - 1 /\ a + 1 = o
        OBVIOUS
      <4>2. Run(held[c]["down"], a + 1)
        BY <3>2, <4>1
      <4>3. held[c]["down"] = [i \in 1..n |-> a + i]
        BY <1>5, <1>6, <2>2, <4>2, RunIs
      <4> QED
        BY <4>1, <4>3
    <3> QED
      BY <2>2, <3>4, <3>5, <3>6, <3>7
  <2> QED
    BY <2>1, <2>2 DEF Dirs
<1>8. Streams!Deliver(c, d)
  BY <1>2, <1>3, <1>4, <1>7, DeliverStep
<1> QED
  BY <1>8, StreamsNext

\* A goroutine stops when its source has closed and all has been delivered,
\* when the other stream's source has closed, or when the handler has closed
\* a socket: then the other goroutine has stopped before.
LEMMA StopStreams ==
  ASSUME IInv, NEW c \in Conns, OrderOf(c), NEW d \in Dirs, \A e \in Conns \ {c} : Quiet(e),
         PumpStops(c, d)
  PROVE  Streams!Next
<1>0. /\ BaseInv /\ kind[c] = "connect" /\ kind' = kind /\ pump[c][d] \in {"read", "write"}
      /\ OwnOf(c) /\ UpFlow(c) /\ DownFlow(c) /\ "up" \in Dirs /\ "down" \in Dirs
      /\ stage[c] \in {"relay", "closing", "done"}
  BY PumpOf, PumpNext DEF PumpStops, Dirs
<1>1. /\ pump'[c][d] = "report" /\ UNCHANGED <<sent, eof, out>>
      /\ \A k \in Dirs \ {d} : pump'[c][k] = pump[c][k]
  BY <1>0 DEF PumpStops, wireVars, BaseInv, TypeOK
<1>2. KeepSent(c) /\ KeepClosed(c) /\ KeepGot(c)
  BY <1>0, <1>1, Keeps
<1>3. /\ ~Stopped(c, d) /\ Stopped(c, d)' = TRUE
      /\ \A k \in Dirs \ {d} : Stopped(c, k)' = Stopped(c, k)
  BY <1>0, <1>1 DEF Stopped
<1>4. stage[c] \in {"closing", "done"} => Stopped(c, Back(d))
  <2>1. pump[c]["up"] /= "off"
    BY <1>0 DEF OwnOf, Dirs
  <2> QED
    BY <1>3, <2>1, <1>0 DEF OrderOf, Back, Dirs
<1>5. CASE pump[c][d] = "write"
  <2>1. eof[c][Back(d)] \/ Sink(d) \notin own[c]
    BY <1>5 DEF PumpStops
  <2>2. Sink(d) \notin own[c] => stage[c] \in {"closing", "done"}
    BY <1>0 DEF Sink, OwnOf, Dirs
  <2>3. Stopped(c, Back(d)) \/ (IsTunnel(c) /\ eof[c][Back(d)])
    BY <1>0, <1>4, <2>1, <2>2 DEF IsTunnel
  <2> QED
    BY <1>2, <1>3, <2>3, EndStep, StreamsNext
<1>6. CASE pump[c][d] = "read" /\ Source(d) \notin own[c]
  <2>1. stage[c] \in {"closing", "done"}
    BY <1>0, <1>6 DEF Source, OwnOf, Dirs
  <2> QED
    BY <1>2, <1>3, <1>4, <2>1, EndStep, StreamsNext
<1>7. CASE pump[c][d] = "read" /\ Source(d) \in own[c]
  <2>1. ~Buffered(c, d) /\ wire[c][d] = <<>> /\ eof[c][d] /\ held[c][d] = <<>>
    BY <1>0, <1>7 DEF PumpStops, AtEnd, OwnOf, Dirs
  <2>2. stage[c] /= "done" /\ Len(wire[c][d]) = 0 /\ Len(held[c][d]) = 0
    BY <1>0, <1>7, <2>1, RunEmpty DEF OwnOf
  <2>3. Len(AbsGot(c, d)) = AbsSent(c, d)
    <3>1. PICK o \in Nat, s \in Nat : o = Len(out[c][d]) /\ s = sent[c][d]
      <4>1. out[c][d] \in Seq(Int) /\ sent[c][d] \in Nat
        BY <1>0, TypesOf DEF Dirs
      <4>2. Len(out[c][d]) \in Nat
        BY <4>1
      <4> QED
        BY <4>1, <4>2
    <3>2. CASE d = "up"
      <4>1. buf[c] = <<>> /\ Len(buf[c]) = 0
        BY <2>1, <3>2, RunEmpty DEF Buffered
      <4>2. s = 1 + o + 0 + 0 + 0
        BY <1>0, <1>7, <2>2, <3>1, <3>2, <4>1 DEF UpFlow, Taken
      <4>3. s > 0 /\ s - 1 = o
        BY <4>2
      <4> QED
        BY <1>0, <3>1, <3>2, <4>3 DEF AbsGot, AbsSent, IsTunnel
    <3>3. CASE d = "down"
      <4>1. Awaited(c) = 0 /\ out[c]["down"] /= <<>>
        BY <1>0, <3>3 DEF Awaited, OrderOf
      <4>2. s + 1 = 0 + o + 0 + 0
        BY <1>0, <1>7, <2>2, <3>1, <3>3, <4>1 DEF DownFlow
      <4>3. Len(Payload(out[c]["down"])) = o - 1
        <5>1. out[c]["down"] \in Seq(Int)
          BY <1>0, TypesOf
        <5> QED
          BY <3>1, <3>3, <4>1, <5>1, TailConcat
      <4>4. o - 1 = s
        BY <4>2
      <4> QED
        BY <1>0, <3>1, <3>3, <4>3, <4>4 DEF AbsGot, AbsSent, IsTunnel
    <3> QED
      BY <3>2, <3>3 DEF Dirs
  <2>4. IsTunnel(c)
    BY <1>0 DEF IsTunnel
  <2> QED
    BY <1>2, <1>3, <2>1, <2>3, <2>4, EndStep, StreamsNext
<1> QED
  BY <1>0, <1>5, <1>6, <1>7

LEMMA PumpStreams ==
  ASSUME IInv, NEW c \in Conns, OrderOf(c), \A e \in Conns \ {c} : Quiet(e), Pump(c)
  PROVE  Streams!Next \/ UNCHANGED Streams!vars
<1>1. PICK d \in Dirs : PumpRead(c, d) \/ PumpWrite(c, d) \/ PumpStops(c, d) \/ PumpReports(c, d)
  BY DEF Pump
<1>2. CASE PumpWrite(c, d) \/ PumpStops(c, d)
  BY <1>2, WriteStreams, StopStreams
<1>3. CASE PumpRead(c, d) \/ PumpReports(c, d)
  <2>1. BaseInv /\ kind' = kind
    BY <1>1, PumpNext DEF IInv
  <2>2. UNCHANGED <<sent, eof, out>>
    BY <1>3 DEF PumpRead, PumpReports, wireVars
  <2>3. KeepOver(c)
    <3>1. \/ pump[c][d] = "read" /\ pump' = [pump EXCEPT ![c][d] = "write"]
          \/ pump[c][d] = "report" /\ pump' = [pump EXCEPT ![c][d] = "ended"]
      BY <1>3 DEF PumpRead, PumpReports
    <3>2. pump \in [Conns -> [Dirs -> {"off", "read", "write", "report", "ended"}]]
      BY <2>1 DEF BaseInv, TypeOK
    <3>3. \A k \in Dirs : pump'[c][k] \in {"report", "ended"} <=> pump[c][k] \in {"report", "ended"}
      BY <3>1, <3>2
    <3> QED
      BY <3>3 DEF KeepOver, Stopped
  <2>4. Quiet(c)
    BY <2>1, <2>2, <2>3, Keeps DEF Quiet
  <2> QED
    BY <2>4, QuietStep
<1> QED
  BY <1>1, <1>2, <1>3

LEMMA StreamsStep ==
  ASSUME IInv, OrderInv, BaseInv', [Next]_vars
  PROVE  Streams!Next \/ UNCHANGED Streams!vars
<1>0. BaseInv
  BY DEF IInv
<1>1. CASE UNCHANGED vars
  <2>1. ASSUME NEW e \in Conns PROVE Quiet(e)
    BY <1>1, Keeps DEF vars, connVars, wireVars, pumpVars, Quiet
  <2> QED
    BY <2>1, QuietStep
<1>2. ASSUME NEW c \in Conns, Moves(c) PROVE Streams!Next \/ UNCHANGED Streams!vars
  <2>1. ASSUME NEW e \in Conns, e /= c PROVE Quiet(e)
    <3>1. Same(e)
      BY <1>0, <1>2, <2>1, Others
    <3> QED
      BY <3>1, Keeps DEF Same, Quiet
  <2>2. CASE kind[c] /= "connect"
    <3>1. Quiet(c)
      BY <1>0, <1>2, <2>2, OtherQuiet
    <3> QED
      BY <2>1, <3>1, QuietStep
  <2>3. CASE kind[c] = "connect"
    <3>1. OrderOf(c)
      BY DEF OrderInv
    <3>2. CASE Peers(c)
      BY <2>1, <2>3, <3>2, PeersStreams
    <3>3. CASE Handler(c)
      BY <2>1, <2>3, <3>3, HandlerStreams, QuietStep
    <3>4. CASE Pump(c)
      BY <2>1, <3>1, <3>4, PumpStreams
    <3>5. CASE Libraries(c)
      BY <1>0, <2>3, <3>5, LibrariesOther
    <3> QED
      BY <1>2, <3>2, <3>3, <3>4, <3>5 DEF Moves
  <2> QED
    BY <2>2, <2>3
<1> QED
  BY <1>1, <1>2 DEF Next, Moves

\* The handler of a CONNECT request and its two copying goroutines implement
\* two byte streams: whatever the reads return and whoever closes first, what
\* arrives is what was sent, and a stream ends early only after the other one
\* has ended or lost its source (handleConnect, bufferConn).
THEOREM Refinement == Spec => RefinesStreams
<1>1. Init => Streams!Init
  BY StreamsInit
<1>2. IInv /\ OrderInv /\ IInv' /\ [Next]_vars => [Streams!Next]_Streams!vars
  BY StreamsStep DEF IInv
<1> QED
  BY <1>1, <1>2, OrderInvariant, PTL DEF Spec, RefinesStreams, Streams!Spec
=============================================================================
