----------------------------- MODULE DialProofs -----------------------------
(***************************************************************************)
(* Proofs about Dial, for any number of connections, any sizes and any      *)
(* plugin settings: sockets are released, both streams of a connection      *)
(* keep their order and lose nothing, and the frames on the wire are well   *)
(* formed.                                                                  *)
(***************************************************************************)
EXTENDS Dial, TLAPS, WellFoundedInduction

\* The units of s are a + 1, a + 2, ...
Run(s, a) == \A n \in 1..Len(s) : s[n] = a + n

-----------------------------------------------------------------------------
(* Sequences of consecutive units.                                          *)

LEMMA RunEmpty ==
  ASSUME NEW a
  PROVE  Run(<<>>, a) /\ Len(<<>>) = 0
BY DEF Run

LEMMA RunConcat ==
  ASSUME NEW s \in Seq(Int), NEW t \in Seq(Int), NEW a \in Int,
         Run(s, a), Run(t, a + Len(s))
  PROVE  Run(s \o t, a) /\ s \o t \in Seq(Int) /\ Len(s \o t) = Len(s) + Len(t)
BY DEF Run

LEMMA Split ==
  ASSUME NEW S, NEW s \in Seq(S), NEW n \in 0..Len(s)
  PROVE  /\ SubSeq(s, 1, n) \in Seq(S) /\ Len(SubSeq(s, 1, n)) = n
         /\ SubSeq(s, n + 1, Len(s)) \in Seq(S) /\ Len(SubSeq(s, n + 1, Len(s))) = Len(s) - n
         /\ \A i \in 1..n : SubSeq(s, 1, n)[i] = s[i]
         /\ \A i \in 1..(Len(s) - n) : SubSeq(s, n + 1, Len(s))[i] = s[n + i]
OBVIOUS

LEMMA RunSplit ==
  ASSUME NEW s \in Seq(Int), NEW n \in 0..Len(s), NEW a \in Int, Run(s, a)
  PROVE  Run(SubSeq(s, 1, n), a) /\ Run(SubSeq(s, n + 1, Len(s)), a + n)
<1>1. Run(SubSeq(s, 1, n), a)
  BY Split DEF Run
<1>2. Run(SubSeq(s, n + 1, Len(s)), a + n)
  BY Split DEF Run
<1> QED
  BY <1>1, <1>2

LEMMA RunCount ==
  ASSUME NEW s \in Seq(Int), Run(s, 0)
  PROVE  s = Count(s)
BY DEF Run, Count

LEMMA FullSub ==
  ASSUME NEW S, NEW s \in Seq(S)
  PROVE  SubSeq(s, 1, Len(s)) = s
OBVIOUS

LEMMA Appended ==
  ASSUME NEW S, NEW s \in Seq(S), NEW x \in S
  PROVE  /\ Append(s, x) \in Seq(S) /\ Append(s, x) /= <<>>
         /\ Len(Append(s, x)) = Len(s) + 1
         /\ \A i \in 1..Len(s) : Append(s, x)[i] = s[i]
         /\ Append(s, x)[Len(s) + 1] = x
OBVIOUS

-----------------------------------------------------------------------------
(* FlattenSeq is a recursive function over the indices.  A function that    *)
(* satisfies its equation is the only one: the least index at which two of  *)
(* them differ would not be the first, and they agree just before it.       *)

LEMMA LeastExists ==
  ASSUME NEW S \in SUBSET Nat, S /= {}
  PROVE  \E m \in S : \A n \in S : m <= n
<1>1. PICK m \in S : \A n \in S : ~(<<n, m>> \in OpToRel(<, Nat))
  BY NatLessThanWellFounded, WFMin
<1>2. \A n \in S : ~(n < m)
  BY <1>1 DEF OpToRel
<1> QED
  BY <1>2

LEMMA FlattenIs ==
  ASSUME NEW seqs, NEW N \in Nat \ {0}, Len(seqs) = N,
         NEW h, \A i \in 1..N : h[i] = IF i = 1 THEN seqs[i] ELSE h[i - 1] \o seqs[i]
  PROVE  FlattenSeq(seqs) = h[N]
<1> DEFINE f == CHOOSE g : g = [i \in 1..N |-> IF i = 1 THEN seqs[i] ELSE g[i - 1] \o seqs[i]]
<1>1. f = [i \in 1..N |-> IF i = 1 THEN seqs[i] ELSE f[i - 1] \o seqs[i]]
  <2> DEFINE k == [i \in 1..N |-> h[i]]
  <2>1. \A i \in 1..N : i /= 1 => i - 1 \in 1..N
    OBVIOUS
  <2>2. k = [i \in 1..N |-> IF i = 1 THEN seqs[i] ELSE k[i - 1] \o seqs[i]]
    BY <2>1
  <2> HIDE DEF k
  <2> QED
    BY <2>2
<1>2. FlattenSeq(seqs) = f[N]
  BY DEF FlattenSeq
<1> HIDE DEF f
<1>3. ASSUME f[N] /= h[N]
      PROVE  FALSE
  <2> DEFINE Bad == {i \in 1..N : f[i] /= h[i]}
  <2>1. N \in Bad /\ Bad \subseteq Nat
    BY <1>3
  <2>2. PICK m \in Bad : \A n \in Bad : m <= n
    BY <2>1, LeastExists
  <2>3. m \in 1..N /\ f[m] /= h[m]
    OBVIOUS
  <2>4. CASE m = 1
    <3>1. f[m] = seqs[m]
      BY <1>1, <2>3, <2>4
    <3>2. h[m] = seqs[m]
      BY <2>3, <2>4
    <3> QED
      BY <2>3, <3>1, <3>2
  <2>5. CASE m /= 1
    <3>1. m - 1 \in 1..N
      BY <2>3, <2>5
    <3>2. f[m - 1] = h[m - 1]
      <4>1. ~(m <= m - 1)
        BY <2>3
      <4> QED
        BY <2>2, <3>1, <4>1
    <3>3. f[m] = f[m - 1] \o seqs[m]
      BY <1>1, <2>3, <2>5
    <3>4. h[m] = h[m - 1] \o seqs[m]
      BY <2>3, <2>5
    <3> QED
      BY <2>3, <3>2, <3>3, <3>4
  <2> QED
    BY <2>4, <2>5
<1> QED
  BY <1>2, <1>3

-----------------------------------------------------------------------------
(* Types.                                                                   *)

LEMMA HeadFacts ==
  /\ Len(ReplyHead) = 5 /\ ReplyHead \in Seq(Int)
  /\ ReplyHead[1] = -1 /\ ReplyHead[2] = -3 /\ ReplyHead[3] = -2
  /\ ReplyHead[4] = -3 /\ ReplyHead[5] = -4
BY DEF ReplyHead, Status, EOL, Text, Blank

\* What the next Write of the socket takes from the front of the job.
LEMMA FrameFacts ==
  ASSUME NEW d, job[d] \in Seq(Nat), job[d] /= <<>>
  PROVE  \E n \in 1..Len(job[d]) :
           /\ FrameOf(d) \in Frame
           /\ FrameOf(d).body = SubSeq(job[d], 1, n) /\ Len(FrameOf(d).body) = n
           /\ Rest(d) = SubSeq(job[d], n + 1, Len(job[d]))
           /\ FrameOf(d).tag = IF mode[d] = "tls" THEN "record"
                               ELSE IF mode[d] = "http" /\ firstWrite[d] THEN "get" ELSE "raw"
           /\ FrameOf(d).tag = "record" => FrameOf(d).len = n /\ n \in 1..MaxRecord
<1>0. Len(job[d]) \in Nat \ {0}
  OBVIOUS
<1>1. CASE mode[d] = "tls"
  <2> DEFINE n == Smaller(MaxRecord, Len(job[d]))
  <2>1. n \in 1..Len(job[d]) /\ n \in 1..MaxRecord /\ n \in Nat
    BY <1>0, SizeAssumption DEF Smaller
  <2>2. FrameOf(d) = [tag |-> "record", len |-> n, body |-> SubSeq(job[d], 1, n)]
    BY <1>1 DEF FrameOf
  <2> HIDE DEF n
  <2>3. SubSeq(job[d], 1, n) \in Seq(Nat) /\ Len(SubSeq(job[d], 1, n)) = n
    BY <2>1, Split
  <2>4. FrameOf(d) \in Frame
    BY <2>1, <2>2, <2>3 DEF Frame
  <2>5. Rest(d) = SubSeq(job[d], n + 1, Len(job[d]))
    <3>1. Len(FrameOf(d).body) = n
      BY <2>2, <2>3
    <3> QED
      BY <3>1 DEF Rest
  <2> QED
    BY <1>1, <2>1, <2>2, <2>3, <2>4, <2>5
<1>2. CASE mode[d] /= "tls"
  <2> DEFINE t == IF Opening(d) THEN "get" ELSE "raw"
  <2>1. FrameOf(d) = [tag |-> t, len |-> 0, body |-> job[d]]
    BY <1>2 DEF FrameOf
  <2>2. t = (IF mode[d] = "http" /\ firstWrite[d] THEN "get" ELSE "raw")
    BY DEF Opening
  <2>3. t \in {"get", "raw"}
    BY <2>2
  <2> HIDE DEF t
  <2>4. FrameOf(d) \in Frame /\ FrameOf(d).body = job[d] /\ FrameOf(d).tag = t
    BY <2>1, <2>3 DEF Frame
  <2>5. job[d] = SubSeq(job[d], 1, Len(job[d]))
    BY FullSub
  <2>6. Rest(d) = SubSeq(job[d], Len(job[d]) + 1, Len(job[d]))
    BY <2>4 DEF Rest
  <2>7. FrameOf(d).tag /= "record"
    BY <2>3, <2>4
  <2> QED
    BY <1>0, <1>2, <2>2, <2>4, <2>5, <2>6, <2>7
<1> QED
  BY <1>1, <1>2

\* A Write that fails leaves a part of its frame.
LEMMA CutFacts ==
  ASSUME NEW d, job[d] \in Seq(Nat), job[d] /= <<>>, NEW n \in 0..Len(FrameOf(d).body) - 1
  PROVE  LET cut == [FrameOf(d) EXCEPT !.body = SubSeq(@, 1, n)]
         IN  /\ cut \in Frame /\ cut.tag = FrameOf(d).tag /\ cut.len = FrameOf(d).len
             /\ cut.body = SubSeq(job[d], 1, n) /\ Len(cut.body) = n /\ n \in 0..Len(job[d])
<1>1. PICK m \in 1..Len(job[d]) :
        /\ FrameOf(d) \in Frame
        /\ FrameOf(d).body = SubSeq(job[d], 1, m) /\ Len(FrameOf(d).body) = m
  BY FrameFacts
<1>2. n \in 0..Len(job[d]) /\ n <= m /\ n \in Nat
  BY <1>1
<1>3. SubSeq(SubSeq(job[d], 1, m), 1, n) = SubSeq(job[d], 1, n)
  BY <1>2
<1>4. SubSeq(job[d], 1, n) \in Seq(Nat) /\ Len(SubSeq(job[d], 1, n)) = n
  BY <1>2, Split
<1> QED
  BY <1>1, <1>2, <1>3, <1>4 DEF Frame

\* Every write changes one connection, and this is all TypeOK says of writes.
WriteTypes ==
  /\ pc \in [Dials -> {"idle", "connect", "wrap", "salt", "target", "open", "broken",
                       "closed", "failed", "panicked"}]
  /\ sock \in [Dials -> {"none", "open", "closed"}]
  /\ firstWrite \in [Dials -> BOOLEAN]
  /\ job \in [Dials -> Seq(Nat)] /\ plain \in [Dials -> Nat]
  /\ frames \in [Dials -> Seq(Frame)]

ReadTypes ==
  /\ firstRead \in [Dials -> BOOLEAN]
  /\ rd \in [Dials -> {"idle", "peek", "skip", "read", "eof"}]
  /\ got \in [Dials -> Seq(Int)] /\ wire \in [Dials -> Seq(Int)]
  /\ head \in [Dials -> 0..Len(ReplyHead)]
  /\ replied \in [Dials -> 0..MaxDown] /\ eof \in [Dials -> BOOLEAN]

ClientTypes == mode \in [Dials -> Modes] /\ caller \in [Dials -> Callers] /\ alive \in BOOLEAN

LEMMA TypeParts == TypeOK <=> WriteTypes /\ ReadTypes /\ ClientTypes
BY Zenon DEF TypeOK, WriteTypes, ReadTypes, ClientTypes

LEMMA TypePartsNext == (TypeOK <=> WriteTypes /\ ReadTypes /\ ClientTypes)'
BY TypeParts, PTL

LEMMA InitTypes == Init => TypeOK
<1> SUFFICES ASSUME Init PROVE TypeOK
  OBVIOUS
<1>1. mode \in [Dials -> Modes]
  <2>1. \A cfg \in Accepted : NewPlugin(cfg) \in Modes
    BY DEF Modes, NewPlugin, NewSimpleObfs
  <2> QED
    BY <2>1 DEF Init
<1>2. 0 \in 0..Len(ReplyHead) /\ 0 \in 0..MaxDown
  BY HeadFacts, LengthAssumption
<1>3. WriteTypes
  BY DEF Init, WriteTypes
<1>4. ReadTypes
  BY <1>2 DEF Init, ReadTypes
<1>5. ClientTypes
  BY <1>1 DEF Init, ClientTypes
<1> QED
  BY <1>3, <1>4, <1>5, TypeParts

\* What a caller gives to Write.
LEMMA WriteKeepsTypes ==
  ASSUME WriteTypes, NEW d \in Dials, NEW n \in Nat, Write(d, n)
  PROVE  job' \in [Dials -> Seq(Nat)] /\ plain' \in [Dials -> Nat]
<1>1. plain[d] \in Nat
  BY DEF WriteTypes
<1>2. [i \in 1..n |-> plain[d] + i] \in Seq(Nat)
  BY <1>1
<1> QED
  BY <1>1, <1>2 DEF Write, WriteTypes

LEMMA DialContextTypes ==
  ASSUME TypeOK, NEW d \in Dials, DialContext(d)
  PROVE  TypeOK'
<1> USE DEF clientVars, writeVars, readVars, peerVars, Goto
<1>0. WriteTypes /\ ReadTypes /\ ClientTypes
  BY TypeParts
<1>1. ReadTypes'
  BY <1>0, Zenon DEF ReadTypes, DialContext, Parse, ConnectFails, Connect, WrapConn, WrapFails,
     SendTarget, Return
<1>2. ClientTypes'
  BY <1>0 DEF ClientTypes, DialContext, Parse, ConnectFails, Connect, WrapConn, WrapFails,
     SendTarget, Return
<1>3. WriteTypes'
  <2>1. CASE Parse(d) \/ ConnectFails(d) \/ Connect(d) \/ WrapFails(d) \/ Return(d)
    BY <1>0, <2>1 DEF WriteTypes, Parse, ConnectFails, Connect, WrapFails, Return
  <2>2. CASE WrapConn(d) \/ SendTarget(d)
    <3>1. Write(d, 1) /\ UNCHANGED <<sock, firstWrite, frames>>
      BY <2>2 DEF WrapConn, SendTarget
    <3>2. job' \in [Dials -> Seq(Nat)] /\ plain' \in [Dials -> Nat]
      BY <1>0, <3>1, WriteKeepsTypes
    <3> QED
      BY <1>0, <2>2, <3>1, <3>2 DEF WriteTypes, WrapConn, SendTarget
  <2> QED
    BY <2>1, <2>2 DEF DialContext
<1> QED
  BY <1>1, <1>2, <1>3, TypePartsNext

LEMMA FailsTypes ==
  ASSUME WriteTypes, NEW d \in Dials, SocketFails(d)
  PROVE  /\ frames' \in [Dials -> Seq(Frame)] /\ job' \in [Dials -> Seq(Nat)]
         /\ firstWrite' \in [Dials -> BOOLEAN]
<1>1. job[d] \in Seq(Nat) /\ job[d] /= <<>>
  BY DEF WriteTypes, SocketFails
<1>2. PICK n \in 0..Len(FrameOf(d).body) - 1 :
        frames' = [frames EXCEPT ![d] = Append(@, [FrameOf(d) EXCEPT !.body = SubSeq(@, 1, n)])]
  BY DEF SocketFails
<1>3. [FrameOf(d) EXCEPT !.body = SubSeq(@, 1, n)] \in Frame
  BY <1>1, CutFacts
<1>4. frames' \in [Dials -> Seq(Frame)]
  BY <1>2, <1>3, Appended DEF WriteTypes
<1> QED
  BY <1>4 DEF WriteTypes, SocketFails

LEMMA UpstreamTypes ==
  ASSUME TypeOK, NEW d \in Dials, Upstream(d) \/ CallWrite(d) \/ CloseConn(d)
  PROVE  TypeOK'
<1> USE DEF clientVars, readVars, peerVars, Goto
<1>0. WriteTypes /\ ReadTypes /\ ClientTypes
  BY TypeParts
<1>1. ReadTypes'
  BY <1>0, Zenon DEF ReadTypes, Upstream, ConnWrite, TargetFails, WriteFails, CallWrite, CloseConn
<1>2. ClientTypes'
  BY <1>0, Zenon DEF ClientTypes, Upstream, ConnWrite, TargetFails, WriteFails, CallWrite, CloseConn
<1>3. WriteTypes'
  <2>1. CASE ConnWrite(d)
    <3>1. job[d] \in Seq(Nat) /\ job[d] /= <<>>
      BY <1>0, <2>1 DEF WriteTypes, ConnWrite
    <3>2. PICK n \in 1..Len(job[d]) :
            FrameOf(d) \in Frame /\ Rest(d) = SubSeq(job[d], n + 1, Len(job[d]))
      BY <3>1, FrameFacts
    <3>3. Rest(d) \in Seq(Nat)
      BY <3>1, <3>2, Split
    <3>4. frames' \in [Dials -> Seq(Frame)]
      BY <1>0, <2>1, <3>2, Appended DEF WriteTypes, ConnWrite
    <3> QED
      BY <1>0, <2>1, <3>3, <3>4 DEF WriteTypes, ConnWrite
  <2>2. CASE TargetFails(d) \/ WriteFails(d)
    <3>1. SocketFails(d) /\ UNCHANGED plain
      BY <2>2 DEF TargetFails, WriteFails
    <3>2. /\ frames' \in [Dials -> Seq(Frame)] /\ job' \in [Dials -> Seq(Nat)]
          /\ firstWrite' \in [Dials -> BOOLEAN]
      BY <1>0, <3>1, FailsTypes
    <3> QED
      BY <1>0, <2>2, <3>1, <3>2 DEF WriteTypes, TargetFails, WriteFails
  <2>3. CASE CallWrite(d)
    <3>1. PICK n \in 1..Smaller(MaxChunk, MaxUp - plain[d]) : Write(d, n)
      BY <2>3 DEF CallWrite
    <3>2. job' \in [Dials -> Seq(Nat)] /\ plain' \in [Dials -> Nat]
      BY <1>0, <3>1, WriteKeepsTypes
    <3> QED
      BY <1>0, <2>3, <3>2 DEF WriteTypes, CallWrite
  <2>4. CASE CloseConn(d)
    BY <1>0, <2>4 DEF WriteTypes, CloseConn
  <2> QED
    BY <2>1, <2>2, <2>3, <2>4 DEF Upstream
<1> QED
  BY <1>1, <1>2, <1>3, TypePartsNext

LEMMA DownstreamTypes ==
  ASSUME TypeOK, NEW d \in Dials, Downstream(d)
  PROVE  TypeOK'
<1> USE DEF clientVars, writeVars, peerVars
<1>0. WriteTypes /\ ReadTypes /\ ClientTypes
  BY TypeParts
<1>1. WriteTypes' /\ ClientTypes'
  BY <1>0, Zenon DEF WriteTypes, ClientTypes, Downstream, CallRead, Peek, SkipLine, SkipFails,
     ReadData, ReadEnds
<1>2. ReadTypes'
  <2>0. wire[d] \in Seq(Int) /\ got[d] \in Seq(Int) /\ Len(wire[d]) \in Nat
    BY <1>0 DEF ReadTypes
  <2>1. CASE SkipFails(d)
    <3>1. <<>> \in Seq(Int)
      OBVIOUS
    <3> QED
      BY <1>0, <2>1, <3>1 DEF ReadTypes, SkipFails
  <2>6. CASE ReadEnds(d)
    BY <1>0, <2>6 DEF ReadTypes, ReadEnds
  <2>5. CASE CallRead(d)
    <3>1. \E s \in {"peek", "read"} : rd' = [rd EXCEPT ![d] = s]
      BY <2>5, Zenon DEF CallRead
    <3> QED
      BY <1>0, <2>5, <3>1 DEF ReadTypes, CallRead
  <2>4. CASE Peek(d)
    <3>1. \E s \in {"skip", "read"} : rd' = [rd EXCEPT ![d] = s]
      BY <2>4, Zenon DEF Peek
    <3> QED
      BY <1>0, <2>4, <3>1 DEF ReadTypes, Peek
  <2>2. CASE SkipLine(d)
    <3>1. PICK i \in 1..Len(wire[d]) :
            /\ wire' = [wire EXCEPT ![d] = SubSeq(@, i + 1, Len(@))]
            /\ rd' = [rd EXCEPT ![d] = IF LastLine(d, i) THEN "read" ELSE "skip"]
      BY <2>2 DEF SkipLine, Ends
    <3>2. SubSeq(wire[d], i + 1, Len(wire[d])) \in Seq(Int)
      BY <2>0, Split
    <3> QED
      BY <1>0, <2>2, <3>1, <3>2 DEF ReadTypes, SkipLine
  <2>3. CASE ReadData(d)
    <3>1. PICK n \in 1..Len(wire[d]) :
            /\ got' = [got EXCEPT ![d] = @ \o SubSeq(wire[d], 1, n)]
            /\ wire' = [wire EXCEPT ![d] = SubSeq(@, n + 1, Len(@))]
      BY <2>3 DEF ReadData
    <3>2. SubSeq(wire[d], n + 1, Len(wire[d])) \in Seq(Int) /\ SubSeq(wire[d], 1, n) \in Seq(Int)
      BY <2>0, Split
    <3>3. got[d] \o SubSeq(wire[d], 1, n) \in Seq(Int)
      BY <2>0, <3>2
    <3> QED
      BY <1>0, <2>3, <3>1, <3>2, <3>3 DEF ReadTypes, ReadData
  <2> QED
    BY <2>1, <2>2, <2>3, <2>4, <2>5, <2>6 DEF Downstream
<1> QED
  BY <1>1, <1>2, TypePartsNext

LEMMA ServerTypes ==
  ASSUME TypeOK, NEW d \in Dials, Server(d)
  PROVE  TypeOK'
<1> USE DEF clientVars, writeVars, readVars, ServerSends
<1>0. WriteTypes /\ ReadTypes /\ ClientTypes
  BY TypeParts
<1>1. WriteTypes' /\ ClientTypes'
  BY <1>0, Zenon DEF WriteTypes, ClientTypes, Server, ServerSendsHead, ServerSendsData, ServerCloses
<1>2. ReadTypes'
  <2>0. /\ wire[d] \in Seq(Int) /\ head[d] \in 0..5 /\ replied[d] \in 0..MaxDown
        /\ MaxDown \in Nat /\ Len(ReplyHead) = 5
    BY <1>0, HeadFacts, LengthAssumption DEF ReadTypes
  <2>1. CASE ServerSendsHead(d)
    <3>1. head[d] + 1 \in 1..5 /\ head'[d] = head[d] + 1 /\ head' \in [Dials -> 0..Len(ReplyHead)]
      BY <1>0, <2>0, <2>1 DEF ReadTypes, ServerSendsHead
    <3>2. ReplyHead[head'[d]] \in Int
      BY <3>1, HeadFacts
    <3>3. wire[d] \o <<ReplyHead[head'[d]]>> \in Seq(Int)
      BY <2>0, <3>2
    <3> QED
      BY <1>0, <2>1, <3>1, <3>3 DEF ReadTypes, ServerSendsHead
  <2>2. CASE ServerSendsData(d)
    <3>1. replied'[d] = replied[d] + 1 /\ replied' \in [Dials -> 0..MaxDown]
      BY <1>0, <2>0, <2>2 DEF ReadTypes, ServerSendsData
    <3>2. replied'[d] \in Int /\ Record \in Int
      BY <2>0, <3>1 DEF Record
    <3>3. (IF mode[d] = "tls" THEN <<Record, replied'[d]>> ELSE <<replied'[d]>>) \in Seq(Int)
      BY <3>2
    <3>4. wire[d] \o (IF mode[d] = "tls" THEN <<Record, replied'[d]>> ELSE <<replied'[d]>>) \in Seq(Int)
      BY <2>0, <3>3
    <3> QED
      BY <1>0, <2>2, <3>1, <3>4 DEF ReadTypes, ServerSendsData
  <2>3. CASE ServerCloses(d)
    BY <1>0, <2>3 DEF ReadTypes, ServerCloses
  <2> QED
    BY <2>1, <2>2, <2>3 DEF Server
<1> QED
  BY <1>1, <1>2, TypePartsNext

LEMMA StutterTypes ==
  ASSUME TypeOK, UNCHANGED vars
  PROVE  TypeOK'
BY DEF TypeOK, vars, clientVars, writeVars, readVars, peerVars

LEMMA NextTypes ==
  ASSUME TypeOK, [Next]_vars
  PROVE  TypeOK'
BY DialContextTypes, UpstreamTypes, DownstreamTypes, ServerTypes, StutterTypes DEF Next

\* Every part of a connection holds what the code may put there.
THEOREM TypeCorrect == Spec => []TypeOK
BY InitTypes, NextTypes, PTL DEF Spec

-----------------------------------------------------------------------------
(* What the frames of a connection hold.                                    *)

\* The bodies of fs are, one after the other, the units 1..m.
Holds(fs, m) ==
  \E end \in [0..Len(fs) -> Nat] :
    /\ end[0] = 0 /\ end[Len(fs)] = m
    /\ \A i \in 1..Len(fs) :
         end[i] = end[i - 1] + Len(fs[i].body) /\ Run(fs[i].body, end[i - 1])

Up(k) == [n \in 1..k |-> n]

LEMMA BodyOf ==
  ASSUME NEW f \in Frame
  PROVE  f.body \in Seq(Nat) /\ f.body \in Seq(Int) /\ Len(f.body) \in Nat
<1>1. f.body \in Seq(Nat)
  BY DEF Frame
<1> QED
  BY <1>1

LEMMA HoldsNone == Holds(<<>>, 0)
<1> DEFINE z == [i \in 0..0 |-> 0]
<1>1. z \in [0..0 -> Nat] /\ z[0] = 0
  OBVIOUS
<1>2. Len(<<>>) = 0 /\ 1..0 = {}
  OBVIOUS
<1> HIDE DEF z
<1> QED
  BY <1>1, <1>2 DEF Holds

LEMMA HoldsAppend ==
  ASSUME NEW fs \in Seq(Frame), NEW m \in Nat, Holds(fs, m), NEW f \in Frame, Run(f.body, m)
  PROVE  Holds(Append(fs, f), m + Len(f.body))
<1>1. PICK end \in [0..Len(fs) -> Nat] :
        /\ end[0] = 0 /\ end[Len(fs)] = m
        /\ \A i \in 1..Len(fs) :
             end[i] = end[i - 1] + Len(fs[i].body) /\ Run(fs[i].body, end[i - 1])
  BY DEF Holds
<1> DEFINE N == Len(fs)
           more == Append(fs, f)
           last == m + Len(f.body)
           ext == [i \in 0..N + 1 |-> IF i = N + 1 THEN last ELSE end[i]]
<1>2. N \in Nat /\ last \in Nat /\ Len(f.body) \in Nat
  BY BodyOf
<1>3. Len(more) = N + 1 /\ more[N + 1] = f /\ \A i \in 1..N : more[i] = fs[i]
  OBVIOUS
<1> HIDE DEF N, more
<1>4. /\ ext \in [0..N + 1 -> Nat] /\ ext[0] = 0 /\ ext[N + 1] = last
      /\ \A i \in 0..N : ext[i] = end[i]
  BY <1>1, <1>2 DEF N
<1> HIDE DEF ext, last
<1>5. ASSUME NEW i \in 1..N + 1
      PROVE  ext[i] = ext[i - 1] + Len(more[i].body) /\ Run(more[i].body, ext[i - 1])
  <2>1. CASE i = N + 1
    <3>1. i - 1 = N /\ i - 1 \in 0..N
      BY <1>2, <2>1
    <3>2. ext[i - 1] = m /\ more[i] = f /\ ext[i] = last
      BY <1>1, <1>3, <1>4, <2>1, <3>1 DEF N
    <3> QED
      BY <3>2 DEF last
  <2>2. CASE i /= N + 1
    <3>1. i \in 1..N /\ i - 1 \in 0..N /\ i \in 0..N
      BY <1>2, <2>2
    <3>2. ext[i - 1] = end[i - 1] /\ ext[i] = end[i] /\ more[i] = fs[i]
      BY <1>3, <1>4, <3>1
    <3> QED
      BY <1>1, <3>1, <3>2 DEF N
  <2> QED
    BY <2>1, <2>2
<1>6. Holds(more, last)
  BY <1>3, <1>4, <1>5 DEF Holds
<1> QED
  BY <1>6 DEF more, last

LEMMA UpConcat ==
  ASSUME NEW k \in Nat, NEW s \in Seq(Nat), Run(s, k)
  PROVE  Up(k) \o s = Up(k + Len(s))
<1>1. Up(k) \in Seq(Int) /\ Len(Up(k)) = k /\ Run(Up(k), 0)
  BY DEF Up, Run
<1>2. s \in Seq(Int) /\ Run(s, 0 + Len(Up(k)))
  BY <1>1
<1>3. /\ Run(Up(k) \o s, 0) /\ Up(k) \o s \in Seq(Int)
      /\ Len(Up(k) \o s) = k + Len(s)
  <2>1. 0 \in Int
    OBVIOUS
  <2>2. /\ Run(Up(k) \o s, 0) /\ Up(k) \o s \in Seq(Int)
        /\ Len(Up(k) \o s) = Len(Up(k)) + Len(s)
    BY <1>1, <1>2, <2>1, RunConcat, Zenon
  <2> QED
    BY <1>1, <2>2, Zenon
<1>4. Up(k) \o s = Count(Up(k) \o s)
  BY <1>3, RunCount
<1> QED
  BY <1>3, <1>4 DEF Count, Up

\* Decoding the frames one after the other gives the units in order.
\* The sequences of seqs are runs, and end[i] is the last unit of number i.
Chained(seqs, end) ==
  /\ end \in [0..Len(seqs) -> Nat] /\ end[0] = 0
  /\ \A i \in 1..Len(seqs) : /\ seqs[i] \in Seq(Nat) /\ Run(seqs[i], end[i - 1])
                             /\ end[i] = end[i - 1] + Len(seqs[i])

LEMMA RunsFlat ==
  ASSUME NEW seqs, NEW N \in Nat \ {0}, Len(seqs) = N,
         NEW end, Chained(seqs, end)
  PROVE  FlattenSeq(seqs) = Up(end[N])
<1> DEFINE h == [i \in 1..N |-> Up(end[i])]
<1>1. \A i \in 1..N : h[i] = IF i = 1 THEN seqs[i] ELSE h[i - 1] \o seqs[i]
  <2> TAKE i \in 1..N
  <2>1. i \in 0..N /\ i - 1 \in 0..N /\ end[i - 1] \in Nat /\ seqs[i] \in Seq(Nat)
    BY DEF Chained
  <2>2. Up(end[i - 1]) \o seqs[i] = Up(end[i])
    BY <2>1, UpConcat DEF Chained
  <2>3. CASE i = 1
    <3>1. Up(0) = <<>> /\ end[i - 1] = 0
      BY <2>3 DEF Up, Chained
    <3>2. <<>> \o seqs[i] = seqs[i]
      BY <2>1
    <3> QED
      BY <2>2, <2>3, <3>1, <3>2
  <2>4. CASE i /= 1
    <3>1. i - 1 \in 1..N
      BY <2>4
    <3> QED
      BY <2>2, <2>4, <3>1
  <2> QED
    BY <2>3, <2>4
<1>2. h[N] = Up(end[N])
  OBVIOUS
<1> HIDE DEF h
<1>3. FlattenSeq(seqs) = h[N]
  BY <1>1, FlattenIs
<1> QED
  BY <1>2, <1>3

LEMMA HoldsFlat ==
  ASSUME NEW fs \in Seq(Frame), NEW m \in Nat, Holds(fs, m)
  PROVE  FlattenSeq([i \in DOMAIN fs |-> fs[i].body]) = Up(m)
<1> DEFINE seqs == [i \in DOMAIN fs |-> fs[i].body]
           N == Len(fs)
<1>1. N \in Nat /\ seqs = [i \in 1..N |-> fs[i].body] /\ Len(seqs) = N
  OBVIOUS
<1>2. PICK end \in [0..N -> Nat] :
        /\ end[0] = 0 /\ end[N] = m
        /\ \A i \in 1..N :
             end[i] = end[i - 1] + Len(fs[i].body) /\ Run(fs[i].body, end[i - 1])
  BY DEF Holds
<1>3. \A i \in 1..N : fs[i].body \in Seq(Nat)
  BY BodyOf
<1>4. CASE N = 0
  <2>1. m = 0 /\ Up(m) = <<>>
    BY <1>2, <1>4 DEF Up
  <2>2. seqs = <<>>
    BY <1>1, <1>4
  <2>3. FlattenSeq(seqs) = seqs
    BY <1>1, <1>4 DEF FlattenSeq
  <2> QED
    BY <2>1, <2>2, <2>3
<1>5. CASE N /= 0
  <2>1. \A i \in 1..N : /\ seqs[i] \in Seq(Nat) /\ Run(seqs[i], end[i - 1])
                       /\ end[i] = end[i - 1] + Len(seqs[i])
    BY <1>1, <1>2, <1>3
  <2>2. N \in Nat \ {0} /\ Len(seqs) = N /\ Chained(seqs, end)
    BY <1>1, <1>2, <1>5, <2>1 DEF Chained
  <2> HIDE DEF seqs, N
  <2>3. FlattenSeq(seqs) = Up(end[N])
    BY <2>2, RunsFlat
  <2> QED
    BY <1>2, <2>3 DEF seqs
<1> QED
  BY <1>4, <1>5

-----------------------------------------------------------------------------
(* The way to the server.                                                   *)

\* Where a connection is on which nothing is written any more.
Ended == {"failed", "broken", "closed"}

\* What the frames and the job hold are the units given to Write, in order;
\* only the end of what was given is missing once a Write has failed.
StreamOf(d) ==
  \E m \in Nat : /\ Holds(frames[d], m)
                 /\ pc[d] \notin Ended => plain[d] = m + Len(job[d]) /\ Run(job[d], m)

\* There is no socket before the dial, nor after an error that is returned; a
\* Write runs only on a working one.
SockOf(d) ==
  /\ pc[d] \in {"idle", "connect"} => sock[d] = "none"
  /\ pc[d] \in {"failed", "closed"} => sock[d] /= "open"
  /\ pc[d] = "panicked" => mode[d] = "unsupported"
  /\ job[d] /= <<>> => pc[d] \in {"salt", "target", "open"}

WellFrame(d, i) ==
  LET f == frames[d][i] IN
  /\ (f.tag = "get") <=> (mode[d] = "http" /\ i = 1)
  /\ f.tag = "record" =>
       /\ f.len \in 1..MaxRecord
       /\ f.len = Len(f.body) \/ (i = Len(frames[d]) /\ pc[d] \in Ended)

FramesOf(d) ==
  /\ firstWrite[d] <=> frames[d] = <<>>
  /\ \A i \in 1..Len(frames[d]) : WellFrame(d, i)

WriteOf(d) == StreamOf(d) /\ SockOf(d) /\ FramesOf(d)

WriteInv == \A d \in Dials : WriteOf(d)

\* A step of another connection leaves this one alone.
SameWrite(e) ==
  /\ pc'[e] = pc[e] /\ sock'[e] = sock[e] /\ mode'[e] = mode[e]
  /\ firstWrite'[e] = firstWrite[e] /\ job'[e] = job[e] /\ plain'[e] = plain[e]
  /\ frames'[e] = frames[e]

LEMMA SameWriteKeeps ==
  ASSUME NEW e \in Dials, WriteOf(e), SameWrite(e)
  PROVE  WriteOf(e)'
<1>1. StreamOf(e)'
  BY DEF WriteOf, StreamOf, SameWrite
<1>2. SockOf(e)'
  BY DEF WriteOf, SockOf, SameWrite
<1>3. FramesOf(e)'
  BY DEF WriteOf, FramesOf, WellFrame, SameWrite
<1> QED
  BY <1>1, <1>2, <1>3 DEF WriteOf

\* The dial goes on, or the caller closes: the frames stay.
LEMMA PcMoves ==
  ASSUME WriteTypes, NEW d \in Dials, WriteOf(d),
         UNCHANGED <<mode, firstWrite, plain, frames>>,
         job'[d] = <<>>, pc'[d] \in Ended \/ job[d] = <<>>,
         pc[d] \in Ended => pc'[d] \in Ended
  PROVE  StreamOf(d)' /\ FramesOf(d)'
<1>1. StreamOf(d)'
  BY DEF WriteOf, StreamOf
<1>2. FramesOf(d)'
  BY DEF WriteOf, FramesOf, WellFrame
<1> QED
  BY <1>1, <1>2

LEMMA DialMoves ==
  ASSUME WriteTypes, NEW d \in Dials, WriteOf(d),
         \/ Parse(d) \/ ConnectFails(d) \/ Connect(d) \/ WrapFails(d) \/ Return(d)
         \/ CloseConn(d)
  PROVE  WriteOf(d)'
<1> USE DEF clientVars, writeVars, Goto
<1>1. /\ UNCHANGED <<mode, firstWrite, plain, frames>>
      /\ job'[d] = <<>> /\ (pc'[d] \in Ended \/ job[d] = <<>>)
      /\ pc[d] \in Ended => pc'[d] \in Ended
      /\ SockOf(d)'
  <2>1. CASE Parse(d)
    BY <2>1 DEF Parse, WriteOf, SockOf, WriteTypes, Ended
  <2>2. CASE ConnectFails(d)
    BY <2>2 DEF ConnectFails, WriteOf, SockOf, WriteTypes, Ended
  <2>3. CASE Connect(d)
    BY <2>3 DEF Connect, WriteOf, SockOf, WriteTypes, Ended
  <2>4. CASE WrapFails(d)
    BY <2>4 DEF WrapFails, WriteOf, SockOf, WriteTypes, Ended
  <2>5. CASE Return(d)
    BY <2>5 DEF Return, WriteOf, SockOf, WriteTypes, Ended
  <2>6. CASE CloseConn(d)
    BY <2>6 DEF CloseConn, WriteOf, SockOf, WriteTypes, Ended
  <2> QED
    BY <2>1, <2>2, <2>3, <2>4, <2>5, <2>6
<1>2. StreamOf(d)' /\ FramesOf(d)'
  BY <1>1, PcMoves
<1> QED
  BY <1>1, <1>2 DEF WriteOf

\* A caller of Write gives it the units that follow.
LEMMA GiveMoves ==
  ASSUME WriteTypes, NEW d \in Dials, WriteOf(d),
         WrapConn(d) \/ SendTarget(d) \/ CallWrite(d)
  PROVE  WriteOf(d)'
<1>1. PICK n \in Nat : Write(d, n)
  <2>1. CASE WrapConn(d) \/ SendTarget(d)
    BY <2>1 DEF WrapConn, SendTarget
  <2>2. CASE CallWrite(d)
    <3>1. PICK n \in 1..Smaller(MaxChunk, MaxUp - plain[d]) : Write(d, n)
      BY <2>2 DEF CallWrite
    <3> QED
      BY <3>1
  <2> QED
    BY <2>1, <2>2
<1>2. /\ UNCHANGED <<mode, sock, firstWrite, frames>>
      /\ pc[d] \in {"wrap", "salt", "open"} /\ pc'[d] \in {"salt", "target", "open"}
      /\ job[d] = <<>>
  <2>1. CASE WrapConn(d)
    BY <2>1 DEF WrapConn, Goto, WriteOf, SockOf, WriteTypes, clientVars
  <2>2. CASE SendTarget(d)
    BY <2>2 DEF SendTarget, Goto, WriteTypes, clientVars
  <2>3. CASE CallWrite(d)
    BY <2>3 DEF CallWrite, WriteTypes, clientVars
  <2> QED
    BY <2>1, <2>2, <2>3
<1>3. PICK m \in Nat : Holds(frames[d], m) /\ plain[d] = m
  <2>1. Len(job[d]) = 0 /\ pc[d] \notin Ended
    BY <1>2 DEF Ended
  <2> QED
    BY <2>1 DEF WriteOf, StreamOf
<1>4. Len(job'[d]) = n /\ Run(job'[d], m) /\ plain'[d] = m + n
  BY <1>1, <1>3 DEF Write, WriteTypes, Run
<1>5. StreamOf(d)'
  BY <1>2, <1>3, <1>4 DEF StreamOf
<1>6. SockOf(d)'
  BY <1>2 DEF SockOf
<1>7. FramesOf(d)'
  BY <1>2 DEF WriteOf, FramesOf, WellFrame, Ended
<1> QED
  BY <1>5, <1>6, <1>7 DEF WriteOf

\* One more frame, with a prefix of the job.
LEMMA FrameMoves ==
  ASSUME WriteTypes, NEW d \in Dials, WriteOf(d), job[d] /= <<>>,
         NEW f \in Frame, NEW n \in 0..Len(job[d]), f.body = SubSeq(job[d], 1, n),
         f.tag = FrameOf(d).tag, f.len = FrameOf(d).len,
         frames'[d] = Append(frames[d], f), ~firstWrite'[d], mode'[d] = mode[d],
         Len(f.body) = f.len \/ f.tag /= "record" \/ pc'[d] \in Ended
  PROVE  /\ FramesOf(d)'
         /\ \E m \in Nat : /\ Holds(frames'[d], m + n)
                           /\ plain[d] = m + Len(job[d]) /\ Run(job[d], m)
<1>0. /\ job[d] \in Seq(Nat) /\ job[d] \in Seq(Int) /\ frames[d] \in Seq(Frame)
      /\ pc[d] \notin Ended /\ Len(job[d]) \in Nat
  <2>1. job[d] \in Seq(Nat) /\ frames[d] \in Seq(Frame)
    BY DEF WriteTypes
  <2>2. pc[d] \notin Ended
    BY DEF WriteOf, SockOf, Ended
  <2> QED
    BY <2>1, <2>2
<1>1. \E m \in Nat : /\ Holds(frames'[d], m + n)
                     /\ plain[d] = m + Len(job[d]) /\ Run(job[d], m)
  <2>1. PICK m \in Nat : Holds(frames[d], m) /\ plain[d] = m + Len(job[d]) /\ Run(job[d], m)
    BY <1>0 DEF WriteOf, StreamOf
  <2>2. Run(f.body, m) /\ Len(f.body) = n
    BY <1>0, <2>1, RunSplit, Split
  <2>3. Holds(Append(frames[d], f), m + Len(f.body))
    BY <1>0, <2>1, <2>2, HoldsAppend
  <2> QED
    BY <2>1, <2>2, <2>3
<1>2. FramesOf(d)'
  <2>1. PICK k \in Nat : k = Len(frames[d])
    BY <1>0
  <2>2. /\ frames'[d] /= <<>> /\ Len(frames'[d]) = k + 1 /\ frames'[d][k + 1] = f
        /\ \A i \in 1..k : frames'[d][i] = frames[d][i]
    <3>1. /\ Append(frames[d], f) /= <<>> /\ Len(Append(frames[d], f)) = Len(frames[d]) + 1
          /\ \A i \in 1..Len(frames[d]) : Append(frames[d], f)[i] = frames[d][i]
          /\ Append(frames[d], f)[Len(frames[d]) + 1] = f
      BY <1>0, Appended
    <3> QED
      BY <2>1, <3>1
  <2>3. ASSUME NEW i \in 1..k
        PROVE  WellFrame(d, i)'
    <3>1. WellFrame(d, i)
      BY <2>1 DEF WriteOf, FramesOf
    <3> QED
      BY <1>0, <2>1, <2>2, <3>1 DEF WellFrame
  <2>4. WellFrame(d, k + 1)'
    <3>1. k + 1 = 1 <=> firstWrite[d]
      <4>1. k = 0 <=> frames[d] = <<>>
        BY <1>0, <2>1
      <4> QED
        BY <2>1, <4>1 DEF WriteOf, FramesOf
    <3>2. /\ FrameOf(d).tag = IF mode[d] = "tls" THEN "record"
                              ELSE IF mode[d] = "http" /\ firstWrite[d] THEN "get" ELSE "raw"
          /\ FrameOf(d).tag = "record" => FrameOf(d).len \in 1..MaxRecord
      BY <1>0, FrameFacts
    <3>3. (f.tag = "get") <=> (mode[d] = "http" /\ k + 1 = 1)
      BY <3>1, <3>2
    <3>4. f.tag = "record" => f.len \in 1..MaxRecord
      BY <3>2
    <3> QED
      BY <2>2, <3>3, <3>4 DEF WellFrame
  <2>5. \A i \in 1..k + 1 : WellFrame(d, i)'
    <3>1. \A i \in 1..k + 1 : i \in 1..k \/ i = k + 1
      OBVIOUS
    <3> QED
      BY <2>3, <2>4, <3>1
  <2> QED
    BY <2>2, <2>5 DEF FramesOf
<1> QED
  BY <1>1, <1>2

LEMMA ConnWriteMoves ==
  ASSUME WriteTypes, NEW d \in Dials, WriteOf(d), ConnWrite(d)
  PROVE  WriteOf(d)'
<1>0. /\ job[d] \in Seq(Nat) /\ job[d] \in Seq(Int) /\ job[d] /= <<>> /\ Len(job[d]) \in Nat
      /\ frames'[d] = Append(frames[d], FrameOf(d)) /\ job'[d] = Rest(d)
      /\ ~firstWrite'[d] /\ UNCHANGED <<mode, pc, sock, plain>>
  <2>1. job[d] \in Seq(Nat)
    BY DEF WriteTypes
  <2> QED
    BY <2>1 DEF ConnWrite, WriteTypes, clientVars
<1>1. PICK n \in 1..Len(job[d]) :
        /\ FrameOf(d) \in Frame
        /\ FrameOf(d).body = SubSeq(job[d], 1, n) /\ Len(FrameOf(d).body) = n
        /\ Rest(d) = SubSeq(job[d], n + 1, Len(job[d]))
        /\ FrameOf(d).tag = "record" => FrameOf(d).len = n
  BY <1>0, FrameFacts
<1>2. n \in 0..Len(job[d])
  OBVIOUS
<1>3. /\ FramesOf(d)'
      /\ \E m \in Nat : Holds(frames'[d], m + n) /\ plain[d] = m + Len(job[d]) /\ Run(job[d], m)
  BY <1>0, <1>1, <1>2, FrameMoves
<1>4. StreamOf(d)'
  <2>1. PICK m \in Nat : Holds(frames'[d], m + n) /\ plain[d] = m + Len(job[d]) /\ Run(job[d], m)
    BY <1>3
  <2>2. Run(job'[d], m + n)
    BY <1>0, <1>1, <1>2, <2>1, RunSplit
  <2>3. Len(job'[d]) = Len(job[d]) - n
    BY <1>0, <1>1, <1>2, Split
  <2>4. plain'[d] = (m + n) + Len(job'[d]) /\ m + n \in Nat
    <3>1. PICK a \in Int : a = Len(job[d])
      BY <1>0
    <3>2. n \in Int /\ m \in Int /\ n \in Nat
      BY <1>2
    <3>3. PICK b \in Int : b = Len(job'[d])
      <4>1. a - n \in Int
        BY <3>1, <3>2
      <4>2. Len(job'[d]) = a - n
        BY <2>3, <3>1
      <4> QED
        BY <4>1, <4>2
    <3>4. b = a - n
      BY <2>3, <3>1, <3>3
    <3>5. m + a = (m + n) + b
      BY <3>2, <3>4
    <3>6. plain[d] = m + a
      BY <2>1, <3>1
    <3>7. m + n \in Nat
      BY <3>2
    <3> QED
      BY <1>0, <3>3, <3>5, <3>6, <3>7, Zenon
  <2> QED
    BY <2>1, <2>2, <2>4 DEF StreamOf
<1>5. SockOf(d)'
  BY <1>0 DEF WriteOf, SockOf
<1> QED
  BY <1>3, <1>4, <1>5 DEF WriteOf

LEMMA FailsMoves ==
  ASSUME WriteTypes, NEW d \in Dials, WriteOf(d), TargetFails(d) \/ WriteFails(d)
  PROVE  WriteOf(d)'
<1>0. /\ job[d] \in Seq(Nat) /\ job[d] /= <<>> /\ job'[d] = <<>>
      /\ ~firstWrite'[d] /\ UNCHANGED <<mode, plain>>
      /\ pc'[d] \in {"failed", "broken"} /\ (pc'[d] = "failed" => sock'[d] = "closed")
      /\ SocketFails(d)
  BY DEF TargetFails, WriteFails, SocketFails, Goto, WriteTypes, clientVars
<1>1. PICK n \in 0..Len(FrameOf(d).body) - 1 :
        frames' = [frames EXCEPT ![d] = Append(@, [FrameOf(d) EXCEPT !.body = SubSeq(@, 1, n)])]
  BY <1>0 DEF SocketFails
<1> DEFINE cut == [FrameOf(d) EXCEPT !.body = SubSeq(@, 1, n)]
<1>2. /\ cut \in Frame /\ cut.tag = FrameOf(d).tag /\ cut.len = FrameOf(d).len
      /\ cut.body = SubSeq(job[d], 1, n) /\ Len(cut.body) = n /\ n \in 0..Len(job[d])
  BY <1>0, CutFacts
<1>3. frames'[d] = Append(frames[d], cut)
  BY <1>1 DEF WriteTypes
<1> HIDE DEF cut
<1>4. pc'[d] \in Ended
  BY <1>0 DEF Ended
<1>5. /\ FramesOf(d)'
      /\ \E m \in Nat : Holds(frames'[d], m + n) /\ plain[d] = m + Len(job[d]) /\ Run(job[d], m)
  BY <1>0, <1>2, <1>3, <1>4, FrameMoves
<1>6. StreamOf(d)'
  <2>1. PICK m \in Nat : Holds(frames'[d], m + n)
    BY <1>5
  <2>2. m + n \in Nat
    BY <1>2
  <2> QED
    BY <1>4, <2>1, <2>2 DEF StreamOf
<1>7. SockOf(d)'
  BY <1>0 DEF SockOf
<1> QED
  BY <1>5, <1>6, <1>7 DEF WriteOf

LEMMA WriteOthers ==
  ASSUME WriteTypes, NEW d \in Dials, DialContext(d) \/ Upstream(d) \/ CallWrite(d) \/ CloseConn(d)
  PROVE  \A e \in Dials : e /= d => SameWrite(e)
<1> USE DEF WriteTypes, SameWrite, Goto, clientVars, writeVars
<1>1. CASE DialContext(d)
  <2>1. CASE Parse(d) \/ ConnectFails(d) \/ Connect(d) \/ WrapFails(d) \/ Return(d)
    BY <2>1 DEF Parse, ConnectFails, Connect, WrapFails, Return
  <2>2. CASE WrapConn(d) \/ SendTarget(d)
    BY <2>2 DEF WrapConn, SendTarget, Write
  <2> QED
    BY <1>1, <2>1, <2>2 DEF DialContext
<1>2. CASE ConnWrite(d)
  BY <1>2 DEF ConnWrite
<1>3. CASE TargetFails(d) \/ WriteFails(d)
  <2>1. SocketFails(d)
    BY <1>3 DEF TargetFails, WriteFails
  <2>2. /\ job' = [job EXCEPT ![d] = <<>>] /\ firstWrite' = [firstWrite EXCEPT ![d] = FALSE]
        /\ \E f : frames' = [frames EXCEPT ![d] = Append(@, f)]
    BY <2>1 DEF SocketFails
  <2>3. \A e \in Dials : e /= d => frames'[e] = frames[e] /\ job'[e] = job[e]
                                  /\ firstWrite'[e] = firstWrite[e]
    BY <2>2
  <2> QED
    BY <1>3, <2>3 DEF TargetFails, WriteFails
<1>4. CASE CallWrite(d)
  <2>1. PICK n \in 1..Smaller(MaxChunk, MaxUp - plain[d]) : Write(d, n)
    BY <1>4 DEF CallWrite
  <2> QED
    BY <1>4, <2>1 DEF CallWrite, Write
<1>5. CASE CloseConn(d)
  BY <1>5 DEF CloseConn
<1> QED
  BY <1>1, <1>2, <1>3, <1>4, <1>5 DEF Upstream

LEMMA WriteUntouched ==
  ASSUME NEW d \in Dials, Downstream(d) \/ Server(d) \/ UNCHANGED vars
  PROVE  UNCHANGED <<pc, sock, mode, firstWrite, job, plain, frames>>
BY DEF Downstream, CallRead, Peek, SkipLine, SkipFails, ReadData, ReadEnds, Server,
  ServerSendsHead, ServerSendsData, ServerCloses, ServerSends, vars, clientVars, writeVars

LEMMA WriteStep ==
  ASSUME TypeOK, WriteInv, [Next]_vars
  PROVE  WriteInv'
<1>0. WriteTypes
  BY TypeParts
<1>1. ASSUME NEW d \in Dials, DialContext(d) \/ Upstream(d) \/ CallWrite(d) \/ CloseConn(d)
      PROVE  WriteInv'
  <2>1. WriteOf(d)'
    BY <1>0, <1>1, DialMoves, GiveMoves, ConnWriteMoves, FailsMoves
    DEF WriteInv, DialContext, Upstream
  <2>2. ASSUME NEW e \in Dials, e /= d
        PROVE  WriteOf(e)'
    BY <1>0, <1>1, <2>2, WriteOthers, SameWriteKeeps DEF WriteInv
  <2> QED
    BY <2>1, <2>2 DEF WriteInv
<1>2. ASSUME UNCHANGED <<pc, sock, mode, firstWrite, job, plain, frames>>
      PROVE  WriteInv'
  BY <1>2, SameWriteKeeps DEF WriteInv, SameWrite
<1>3. CASE UNCHANGED vars
  BY <1>2, <1>3 DEF vars, clientVars, writeVars
<1> QED
  BY <1>1, <1>2, <1>3, WriteUntouched DEF Next

LEMMA WriteInit == Init => WriteInv
<1> SUFFICES ASSUME Init, NEW d \in Dials PROVE WriteOf(d)
  BY DEF WriteInv
<1>1. /\ pc[d] = "idle" /\ sock[d] = "none" /\ job[d] = <<>> /\ frames[d] = <<>>
      /\ firstWrite[d] /\ plain[d] = 0
  BY DEF Init
<1>2. StreamOf(d)
  <2>1. Len(<<>>) = 0 /\ Run(<<>>, 0)
    BY RunEmpty
  <2> QED
    BY <1>1, <2>1, HoldsNone DEF StreamOf
<1>3. SockOf(d)
  BY <1>1 DEF SockOf
<1>4. FramesOf(d)
  <2>1. 1..Len(<<>>) = {}
    OBVIOUS
  <2> QED
    BY <1>1, <2>1 DEF FramesOf
<1> QED
  BY <1>2, <1>3, <1>4 DEF WriteOf

LEMMA WriteInvariant == Spec => [](TypeOK /\ WriteInv)
<1>1. Init => TypeOK /\ WriteInv
  BY InitTypes, WriteInit
<1>2. TypeOK /\ WriteInv /\ [Next]_vars => (TypeOK /\ WriteInv)'
  BY NextTypes, WriteStep
<1> QED
  BY <1>1, <1>2, PTL DEF Spec

\* A dial that returns an error has closed its socket, whichever step failed,
\* and so has a caller that is done.  The dial that panics, in an unsupported
\* mode, is the only one that leaves its socket.
THEOREM SocketReleasedAlways == Spec => []SocketReleased
<1>1. TypeOK /\ WriteInv => SocketReleased
  <2> SUFFICES ASSUME TypeOK, WriteInv, NEW d \in Dials, sock[d] = "open"
               PROVE  \/ pc[d] \in {"wrap", "salt", "target", "open", "broken"}
                      \/ pc[d] = "panicked" /\ mode[d] = "unsupported"
    BY DEF SocketReleased
  <2>1. pc[d] \in {"idle", "connect", "wrap", "salt", "target", "open", "broken", "closed",
                  "failed", "panicked"}
    BY DEF TypeOK
  <2>2. SockOf(d)
    BY DEF WriteInv, WriteOf
  <2> QED
    BY <2>1, <2>2 DEF SockOf
<1> QED
  BY <1>1, TypeCorrect, WriteInvariant, PTL

\* Whatever the writes are split into, the server finds the salt, the target
\* and the payload in order, and nothing is lost while the connection works.
THEOREM UpstreamIntactAlways == Spec => []UpstreamIntact
<1>1. ASSUME TypeOK, WriteInv
      PROVE  UpstreamIntact
  <2> SUFFICES ASSUME NEW d \in Dials
               PROVE  /\ Decoded(d) = Count(Decoded(d))
                      /\ pc[d] \in {"wrap", "salt", "target", "open"} =>
                           Len(Decoded(d)) + Len(job[d]) = plain[d]
    BY DEF UpstreamIntact
  <2>1. PICK m \in Nat : /\ Holds(frames[d], m)
                         /\ pc[d] \notin Ended => plain[d] = m + Len(job[d])
    BY <1>1 DEF WriteInv, WriteOf, StreamOf
  <2>2. frames[d] \in Seq(Frame)
    BY <1>1, TypeParts DEF WriteTypes
  <2>3. Decoded(d) = Up(m)
    BY <2>1, <2>2, HoldsFlat DEF Decoded
  <2>4. Len(Up(m)) = m /\ Up(m) = Count(Up(m))
    BY DEF Up, Count
  <2> QED
    BY <2>1, <2>3, <2>4 DEF Ended
<1> QED
  BY <1>1, WriteInvariant, PTL

\* Records announce what they hold and one request opens an HTTP stream; only
\* the last frame of a connection whose Write failed is cut short.
THEOREM WellFramedAlways == Spec => []WellFramed
<1>1. ASSUME TypeOK, WriteInv
      PROVE  WellFramed
  <2>1. \A d \in Dials : DOMAIN frames[d] = 1..Len(frames[d])
    BY <1>1, TypeParts DEF WriteTypes
  <2> QED
    BY <1>1, <2>1 DEF WriteInv, WriteOf, FramesOf, WellFrame, WellFramed, Ended
<1> QED
  BY <1>1, WriteInvariant, PTL

-----------------------------------------------------------------------------
(* The way back.                                                            *)

\* Unit n of what a server sends: first h units of its head, then its data.
Stream(h, n) == IF n <= h THEN ReplyHead[n] ELSE n - h

\* w is what is left of such a stream, with r units of data, after unit p.
Follows(w, h, r, p) ==
  /\ p <= h + r
  /\ Len(w) = h + r - p
  /\ \A i \in 1..Len(w) : w[i] = Stream(h, p + i)

LEMMA FollowsSkip ==
  ASSUME NEW w \in Seq(Int), NEW h \in Nat, NEW r \in Nat, NEW q \in Nat, Follows(w, h, r, q),
         NEW n \in 0..Len(w)
  PROVE  Follows(SubSeq(w, n + 1, Len(w)), h, r, q + n)
<1>1. /\ Len(SubSeq(w, n + 1, Len(w))) = Len(w) - n
      /\ \A i \in 1..(Len(w) - n) : SubSeq(w, n + 1, Len(w))[i] = w[n + i]
  BY Split
<1>2. Len(w) \in Nat /\ n \in Nat
  OBVIOUS
<1>3. q + n <= h + r /\ Len(w) - n = h + r - (q + n)
  BY <1>2 DEF Follows
<1>4. \A i \in 1..(Len(w) - n) : w[n + i] = Stream(h, (q + n) + i)
  <2> TAKE i \in 1..(Len(w) - n)
  <2>1. n + i \in 1..Len(w) /\ q + (n + i) = (q + n) + i
    BY <1>2
  <2>2. w[n + i] = Stream(h, q + (n + i))
    BY <2>1 DEF Follows
  <2> QED
    BY <2>1, <2>2, Zenon
<1> QED
  BY <1>1, <1>3, <1>4 DEF Follows

\* The server sends one more unit, of its head or of its data.
LEMMA FollowsOne ==
  ASSUME NEW w \in Seq(Int), NEW h \in Nat, NEW r \in Nat, NEW q \in Nat, Follows(w, h, r, q),
         NEW k \in Nat, NEW s \in Nat, k + s = h + r + 1,
         NEW x \in Int, x = Stream(k, k + s), \A i \in 1..h + r : Stream(k, i) = Stream(h, i)
  PROVE  Follows(w \o <<x>>, k, s, q)
<1> DEFINE v == w \o <<x>>
<1>1. /\ Len(v) = Len(w) + 1 /\ v[Len(w) + 1] = x /\ Len(w) \in Nat
      /\ \A i \in 1..Len(w) : v[i] = w[i]
  OBVIOUS
<1> HIDE DEF v
<1>2. Len(w) = h + r - q /\ q <= h + r
  BY DEF Follows
<1>3. q <= k + s /\ Len(v) = k + s - q
  BY <1>1, <1>2
<1>4. ASSUME NEW i \in 1..Len(v)
      PROVE  v[i] = Stream(k, q + i)
  <2>1. CASE i = Len(w) + 1
    <3>1. q + i = k + s
      BY <1>2, <2>1
    <3> QED
      BY <1>1, <2>1, <3>1
  <2>2. CASE i /= Len(w) + 1
    <3>1. i \in 1..Len(w) /\ q + i \in 1..h + r
      BY <1>1, <1>2, <2>2
    <3> QED
      BY <1>1, <3>1 DEF Follows
  <2> QED
    BY <2>1, <2>2
<1>5. Follows(v, k, s, q)
  BY <1>3, <1>4 DEF Follows
<1> QED
  BY <1>5 DEF v

LEMMA FollowsHead ==
  ASSUME NEW w \in Seq(Int), NEW h \in 0..4, NEW q \in Nat, Follows(w, h, 0, q)
  PROVE  Follows(w \o <<ReplyHead[h + 1]>>, h + 1, 0, q)
<1>1. ReplyHead[h + 1] \in Int
  BY HeadFacts
<1>2. ReplyHead[h + 1] = Stream(h + 1, h + 1 + 0)
  BY DEF Stream
<1>3. \A i \in 1..h + 0 : Stream(h + 1, i) = Stream(h, i)
  BY DEF Stream
<1>4. h \in Nat /\ h + 1 \in Nat /\ 0 \in Nat /\ h + 1 + 0 = h + 0 + 1
  OBVIOUS
<1> QED
  BY <1>1, <1>2, <1>3, <1>4, FollowsOne

LEMMA FollowsData ==
  ASSUME NEW w \in Seq(Int), NEW h \in Nat, NEW r \in Nat, NEW q \in Nat, Follows(w, h, r, q)
  PROVE  Follows(w \o <<r + 1>>, h, r + 1, q)
<1>1. r + 1 \in Int /\ r + 1 \in Nat /\ h + (r + 1) = h + r + 1
  OBVIOUS
<1>2. r + 1 = Stream(h, h + (r + 1))
  BY DEF Stream
<1>3. \A i \in 1..h + r : Stream(h, i) = Stream(h, i)
  OBVIOUS
<1> QED
  BY <1>1, <1>2, <1>3, FollowsOne

\* Behind its head, the stream is the data.
LEMMA FollowsRun ==
  ASSUME NEW w \in Seq(Int), NEW h \in Nat, NEW r \in Nat, NEW g \in Nat,
         Follows(w, h, r, h + g)
  PROVE  Run(w, g)
<1> SUFFICES ASSUME NEW i \in 1..Len(w) PROVE w[i] = g + i
  BY DEF Run
<1>1. w[i] = Stream(h, (h + g) + i)
  BY DEF Follows
<1> QED
  BY <1>1 DEF Stream

\* Where the lines of the head end.
LEMMA StreamEnds ==
  ASSUME NEW h \in 0..5, NEW n \in Nat \ {0}
  PROVE  /\ Stream(h, n) \in {EOL, Blank} <=> n <= h /\ n \in {2, 4, 5}
         /\ Stream(h, n) = Blank <=> n <= h /\ n = 5
         /\ Stream(h, n) = Status <=> n <= h /\ n = 1
<1>1. CASE n > h
  BY <1>1 DEF Stream, EOL, Blank, Status
<1>2. CASE n <= h
  <2>1. n \in {1, 2, 3, 4, 5} /\ Stream(h, n) = ReplyHead[n]
    BY <1>2 DEF Stream
  <2> QED
    BY <1>2, <2>1, HeadFacts DEF EOL, Blank, Status
<1> QED
  BY <1>1, <1>2

\* The one case in which the head is taken for data: a server that dies
\* within the bytes Read peeks at.
Excused(d) == eof[d] /\ head[d] \in 1..PeekLen - 1

Unread(d, q) == Follows(wire[d], head[d], replied[d], q)

\* Nothing is read; or lines of the head are; or the rest is data.
Fresh(d) == (firstRead[d] \/ rd[d] = "peek") /\ got[d] = <<>> /\ Unread(d, 0)

Skipping(d) ==
  /\ rd[d] = "skip" /\ got[d] = <<>>
  /\ head[d] >= 1 /\ \E q \in {0, 2, 4} : q <= head[d] /\ Unread(d, q)

InData(d) ==
  /\ ~firstRead[d] /\ rd[d] \notin {"peek", "skip"} /\ Run(got[d], 0)
  /\ mode[d] = "http" => head[d] = 5 \/ replied[d] > 0 \/ eof[d]
  /\ \/ head[d] \in {0, 5} /\ Unread(d, head[d] + Len(got[d]))
     \/ wire[d] = <<>> /\ eof[d]

\* A server sends its head before its data, and only behind obfs=http.
HeadOf(d) ==
  /\ head[d] > 0 => mode[d] = "http"
  /\ head[d] \in 1..4 => replied[d] = 0
  /\ firstRead[d] => rd[d] = "idle"
  /\ rd[d] \in {"peek", "skip"} => mode[d] = "http"

ReadOf(d) ==
  /\ HeadOf(d)
  /\ mode[d] /= "tls" /\ ~Excused(d) => Fresh(d) \/ Skipping(d) \/ InData(d)

ReadInv == \A d \in Dials : ReadOf(d)

SameRead(e) ==
  /\ mode'[e] = mode[e] /\ firstRead'[e] = firstRead[e] /\ rd'[e] = rd[e] /\ got'[e] = got[e]
  /\ head'[e] = head[e] /\ wire'[e] = wire[e] /\ replied'[e] = replied[e] /\ eof'[e] = eof[e]

LEMMA SameReadKeeps ==
  ASSUME NEW e \in Dials, ReadOf(e), SameRead(e)
  PROVE  ReadOf(e)'
<1>1. HeadOf(e)' /\ (Excused(e)' <=> Excused(e))
  BY DEF ReadOf, HeadOf, Excused, SameRead
<1>2. (Fresh(e)' <=> Fresh(e)) /\ (Skipping(e)' <=> Skipping(e)) /\ (InData(e)' <=> InData(e))
  BY DEF Fresh, Skipping, InData, Unread, SameRead
<1> QED
  BY <1>1, <1>2 DEF ReadOf, SameRead

LEMMA ReadTypesOf ==
  ASSUME ReadTypes, NEW d \in Dials
  PROVE  /\ wire[d] \in Seq(Int) /\ Len(wire[d]) \in Nat
         /\ got[d] \in Seq(Int) /\ Len(got[d]) \in Nat
         /\ head[d] \in 0..5 /\ head[d] \in Nat /\ replied[d] \in Nat
<1>1. wire[d] \in Seq(Int) /\ got[d] \in Seq(Int) /\ head[d] \in 0..5
  BY HeadFacts DEF ReadTypes
<1>2. replied[d] \in Nat
  BY LengthAssumption DEF ReadTypes
<1> QED
  BY <1>1, <1>2

LEMMA CallReadMoves ==
  ASSUME ReadTypes, NEW d \in Dials, ReadOf(d), CallRead(d)
  PROVE  ReadOf(d)'
<1> USE ReadTypesOf
<1>1. /\ rd[d] = "idle" /\ ~firstRead'[d]
      /\ UNCHANGED <<mode, got, head, wire, replied, eof>>
      /\ mode[d] = "http" /\ firstRead[d] => rd'[d] = "peek"
      /\ ~(mode[d] = "http" /\ firstRead[d]) => rd'[d] = "read"
  BY DEF CallRead, Reading, LooksForHead, ReadTypes, clientVars, peerVars
<1>2. HeadOf(d)' /\ (Excused(d)' <=> Excused(d))
  BY <1>1 DEF ReadOf, HeadOf, Excused
<1>3. ASSUME mode[d] /= "tls", ~Excused(d)
      PROVE  Fresh(d)' \/ InData(d)'
  <2>1. Fresh(d) \/ InData(d)
    BY <1>1, <1>3 DEF ReadOf, Skipping
  <2>2. CASE Fresh(d) /\ mode[d] = "http"
    BY <1>1, <2>2 DEF Fresh, Unread
  <2>3. CASE Fresh(d) /\ mode[d] /= "http"
    <3>1. head[d] = 0
      BY <2>3 DEF ReadOf, HeadOf
    <3>2. got[d] = <<>> /\ Unread(d, 0) /\ Run(got[d], 0) /\ Len(got[d]) = 0
      BY <2>3, RunEmpty DEF Fresh
    <3>3. head[d] + Len(got[d]) = 0
      BY <3>1, <3>2
    <3>4. Unread(d, head[d] + Len(got[d]))
      BY <3>2, <3>3
    <3> QED
      BY <1>1, <2>3, <3>1, <3>2, <3>4 DEF InData, Unread
  <2>4. CASE InData(d)
    BY <1>1, <2>4 DEF InData, Unread
  <2> QED
    BY <2>1, <2>2, <2>3, <2>4
<1> QED
  BY <1>1, <1>2, <1>3 DEF ReadOf

LEMMA PeekMoves ==
  ASSUME ReadTypes, NEW d \in Dials, ReadOf(d), Peek(d)
  PROVE  ReadOf(d)'
<1> USE ReadTypesOf
<1> DEFINE found == Len(wire[d]) >= PeekLen /\ wire[d][1] = Status
<1>1. /\ rd[d] = "peek" /\ UNCHANGED <<mode, firstRead, got, head, wire, replied, eof>>
      /\ Len(wire[d]) >= PeekLen \/ eof[d]
      /\ rd' = [rd EXCEPT ![d] = IF found THEN "skip" ELSE "read"]
  BY DEF Peek, Reading, clientVars, peerVars
<1>2. (found => rd'[d] = "skip") /\ (~found => rd'[d] = "read")
  BY <1>1, Zenon DEF ReadTypes
<1> HIDE DEF found
<1>3. ~firstRead[d] /\ mode[d] = "http"
  BY <1>1 DEF ReadOf, HeadOf
<1>4. HeadOf(d)' /\ (Excused(d)' <=> Excused(d))
  BY <1>1, <1>2, <1>3 DEF ReadOf, HeadOf, Excused
<1>5. ASSUME mode[d] /= "tls", ~Excused(d)
      PROVE  Skipping(d)' \/ InData(d)'
  <2>1. got[d] = <<>> /\ Unread(d, 0)
    BY <1>1, <1>5 DEF ReadOf, Fresh, Skipping, InData
  <2>2. Len(wire[d]) = head[d] + replied[d]
    BY <2>1 DEF Unread, Follows
  <2>3. Len(wire[d]) >= 1 => (wire[d][1] = Status <=> head[d] >= 1)
    <3>1. Len(wire[d]) >= 1 => wire[d][1] = Stream(head[d], 0 + 1)
      BY <2>1 DEF Unread, Follows
    <3>2. Stream(head[d], 1) = Status <=> 1 <= head[d]
      BY StreamEnds
    <3> QED
      BY <3>1, <3>2
  <2>4. CASE found
    <3>1. head[d] >= 1
      BY <2>3, <2>4, SizeAssumption DEF found
    <3> QED
      BY <1>1, <1>2, <2>1, <2>4, <3>1 DEF Skipping, Unread
  <2>5. CASE ~found
    <3>1. head[d] = 0
      <4>1. CASE Len(wire[d]) >= PeekLen
        BY <2>3, <2>5, <4>1, SizeAssumption DEF found
      <4>2. CASE ~(Len(wire[d]) >= PeekLen)
        BY <1>1, <1>5, <2>2, <4>2, SizeAssumption DEF Excused
      <4> QED
        BY <4>1, <4>2
    <3>2. replied[d] > 0 \/ eof[d]
      BY <1>1, <2>2, <3>1, SizeAssumption
    <3>3. Run(got[d], 0) /\ Len(got[d]) = 0
      BY <2>1, RunEmpty
    <3>4. Unread(d, head[d] + Len(got[d]))
      BY <2>1, <3>1, <3>3
    <3> QED
      BY <1>1, <1>2, <1>3, <2>5, <3>1, <3>2, <3>3, <3>4 DEF InData, Unread
  <2> QED
    BY <2>4, <2>5
<1> QED
  BY <1>1, <1>4, <1>5 DEF ReadOf

LEMMA SkipLineMoves ==
  ASSUME ReadTypes, NEW d \in Dials, ReadOf(d), SkipLine(d)
  PROVE  ReadOf(d)'
<1> USE ReadTypesOf
<1>1. PICK i \in Ends(d) :
        /\ \A j \in Ends(d) : i <= j
        /\ wire' = [wire EXCEPT ![d] = SubSeq(@, i + 1, Len(@))]
        /\ rd' = [rd EXCEPT ![d] = IF LastLine(d, i) THEN "read" ELSE "skip"]
  BY DEF SkipLine
<1>2. /\ rd[d] = "skip" /\ UNCHANGED <<mode, firstRead, got, head, replied, eof>>
      /\ wire'[d] = SubSeq(wire[d], i + 1, Len(wire[d]))
      /\ LastLine(d, i) => rd'[d] = "read"
      /\ ~LastLine(d, i) => rd'[d] = "skip"
  BY <1>1 DEF SkipLine, Reading, clientVars, ReadTypes
<1>3. ~firstRead[d] /\ mode[d] = "http"
  BY <1>2 DEF ReadOf, HeadOf
<1>4. HeadOf(d)' /\ (Excused(d)' <=> Excused(d))
  BY <1>2, <1>3 DEF ReadOf, HeadOf, Excused
<1>5. ASSUME mode[d] /= "tls", ~Excused(d)
      PROVE  Skipping(d)' \/ InData(d)'
  <2>1. PICK q \in {0, 2, 4} : got[d] = <<>> /\ head[d] >= 1 /\ q <= head[d] /\ Unread(d, q)
    BY <1>2, <1>3, <1>5 DEF ReadOf, Fresh, Skipping, InData
  <2>2. /\ i \in 1..Len(wire[d]) /\ i \in Nat \ {0}
        /\ Ends(d) = {j \in 1..Len(wire[d]) : wire[d][j] \in {EOL, Blank}}
        /\ Len(wire[d]) = head[d] + replied[d] - q /\ q \in Nat
    BY <2>1 DEF Ends, Unread, Follows
  <2>3. \A j \in 1..Len(wire[d]) : wire[d][j] = Stream(head[d], q + j)
    BY <2>1 DEF Unread, Follows
  <2>4. \A j \in 1..Len(wire[d]) : j \in Ends(d) <=> q + j <= head[d] /\ q + j \in {2, 4, 5}
    <3> TAKE j \in 1..Len(wire[d])
    <3>1. q + j \in Nat \ {0}
      BY <2>2
    <3>2. Stream(head[d], q + j) \in {EOL, Blank} <=> q + j <= head[d] /\ q + j \in {2, 4, 5}
      BY <3>1, StreamEnds
    <3> QED
      BY <2>2, <2>3, <3>2
  <2>5. q + i <= head[d] /\ q + i \in {2, 4, 5}
    BY <2>2, <2>4
  <2>6. LastLine(d, i) <=> q + i = 5
    <3>1. q + i \in Nat \ {0} /\ wire[d][i] = Stream(head[d], q + i)
      BY <2>2, <2>3
    <3>2. Stream(head[d], q + i) = Blank <=> q + i <= head[d] /\ q + i = 5
      BY <3>1, StreamEnds
    <3> QED
      BY <2>5, <3>1, <3>2 DEF LastLine
  <2>7. i \in 0..Len(wire[d])
    BY <2>2
  <2>8. Follows(SubSeq(wire[d], i + 1, Len(wire[d])), head[d], replied[d], q + i)
    BY <2>1, <2>2, <2>7, FollowsSkip DEF Unread
  <2>9. CASE q + i = 5
    <3>1. head[d] = 5 /\ rd'[d] = "read"
      BY <1>2, <2>5, <2>6, <2>9
    <3>2. Run(got[d], 0) /\ Len(got[d]) = 0
      BY <2>1, RunEmpty
    <3>3. head[d] + Len(got[d]) = q + i
      BY <2>9, <3>1, <3>2
    <3>4. Follows(wire'[d], head[d], replied[d], head[d] + Len(got[d]))
      BY <1>2, <2>8, <3>3
    <3> QED
      BY <1>2, <1>3, <3>1, <3>2, <3>4 DEF InData, Unread
  <2>10. CASE q + i /= 5
    <3>1. q + i \in {0, 2, 4} /\ rd'[d] = "skip"
      BY <1>2, <2>5, <2>6, <2>10
    <3> QED
      BY <1>2, <2>1, <2>5, <2>8, <3>1 DEF Skipping, Unread
  <2> QED
    BY <2>9, <2>10
<1> QED
  BY <1>2, <1>4, <1>5 DEF ReadOf

LEMMA SkipFailsMoves ==
  ASSUME ReadTypes, NEW d \in Dials, ReadOf(d), SkipFails(d)
  PROVE  ReadOf(d)'
<1>1. /\ rd[d] = "skip" /\ UNCHANGED <<mode, firstRead, got, head, replied, eof>>
      /\ wire'[d] = <<>> /\ rd'[d] = "read" /\ eof[d]
  BY DEF SkipFails, Reading, clientVars, ReadTypes
<1>2. ~firstRead[d] /\ mode[d] = "http"
  BY <1>1 DEF ReadOf, HeadOf
<1>3. HeadOf(d)' /\ (Excused(d)' <=> Excused(d))
  BY <1>1, <1>2 DEF ReadOf, HeadOf, Excused
<1>4. ASSUME mode[d] /= "tls", ~Excused(d)
      PROVE  InData(d)'
  <2>1. got[d] = <<>>
    BY <1>1, <1>2, <1>4 DEF ReadOf, Fresh, Skipping, InData
  <2>2. Run(got[d], 0)
    BY <2>1, RunEmpty
  <2> QED
    BY <1>1, <1>2, <2>2 DEF InData
<1> QED
  BY <1>1, <1>3, <1>4 DEF ReadOf

LEMMA ReadDataMoves ==
  ASSUME ReadTypes, NEW d \in Dials, ReadOf(d), ReadData(d)
  PROVE  ReadOf(d)'
<1> USE ReadTypesOf
<1>1. PICK n \in 1..Len(wire[d]) :
        /\ got' = [got EXCEPT ![d] = @ \o SubSeq(wire[d], 1, n)]
        /\ wire' = [wire EXCEPT ![d] = SubSeq(@, n + 1, Len(@))]
  BY DEF ReadData
<1>2. /\ rd[d] = "read" /\ rd'[d] = "idle"
      /\ UNCHANGED <<mode, firstRead, head, replied, eof>>
      /\ got'[d] = got[d] \o SubSeq(wire[d], 1, n)
      /\ wire'[d] = SubSeq(wire[d], n + 1, Len(wire[d]))
  BY <1>1 DEF ReadData, Reading, clientVars, ReadTypes
<1>3. ~firstRead[d]
  BY <1>2 DEF ReadOf, HeadOf
<1>4. HeadOf(d)' /\ (Excused(d)' <=> Excused(d))
  BY <1>2, <1>3 DEF ReadOf, HeadOf, Excused
<1>5. ASSUME mode[d] /= "tls", ~Excused(d)
      PROVE  InData(d)'
  <2>1. InData(d) /\ wire[d] /= <<>>
    BY <1>2, <1>3, <1>5 DEF ReadOf, Fresh, Skipping
  <2>2. PICK g \in Nat : g = Len(got[d])
    OBVIOUS
  <2>3. head[d] \in {0, 5} /\ Follows(wire[d], head[d], replied[d], head[d] + g) /\ Run(got[d], 0)
    BY <2>1, <2>2 DEF InData, Unread
  <2>4. n \in 0..Len(wire[d]) /\ n \in Nat
    OBVIOUS
  <2>5. Run(wire[d], g)
    BY <2>2, <2>3, FollowsRun
  <2>6. /\ SubSeq(wire[d], 1, n) \in Seq(Int) /\ Len(SubSeq(wire[d], 1, n)) = n
        /\ Run(SubSeq(wire[d], 1, n), g)
    BY <2>2, <2>4, <2>5, Split, RunSplit
  <2>7. Run(SubSeq(wire[d], 1, n), 0 + Len(got[d]))
    BY <2>2, <2>6
  <2>8. Run(got'[d], 0) /\ Len(got'[d]) = g + n
    <3>1. PICK part \in Seq(Int) : /\ part = SubSeq(wire[d], 1, n) /\ Len(part) = n
                                  /\ Run(part, 0 + Len(got[d]))
      BY <2>6, <2>7
    <3>2. 0 \in Int /\ got[d] \in Seq(Int)
      OBVIOUS
    <3>3. Run(got[d] \o part, 0) /\ Len(got[d] \o part) = Len(got[d]) + Len(part)
      BY <2>3, <3>1, <3>2, RunConcat
    <3>4. got'[d] = got[d] \o part
      BY <1>2, <3>1
    <3> QED
      BY <2>2, <3>1, <3>3, <3>4
  <2>9. Follows(wire'[d], head[d], replied[d], (head[d] + g) + n)
    <3>1. head[d] + g \in Nat
      BY <2>2
    <3> QED
      BY <1>2, <2>3, <2>4, <3>1, FollowsSkip
  <2>10. Follows(wire'[d], head[d], replied[d], head[d] + Len(got'[d]))
    <3>1. (head[d] + g) + n = head[d] + Len(got'[d])
      <4>1. head[d] \in Nat /\ g \in Nat /\ n \in Nat
        BY <2>2, <2>4
      <4>2. (head[d] + g) + n = head[d] + (g + n)
        BY <4>1
      <4> QED
        BY <2>8, <4>2
    <3> QED
      BY <2>9, <3>1
  <2> QED
    BY <1>2, <1>3, <2>1, <2>3, <2>8, <2>10 DEF InData, Unread
<1> QED
  BY <1>2, <1>4, <1>5 DEF ReadOf

LEMMA ReadEndsMoves ==
  ASSUME ReadTypes, NEW d \in Dials, ReadOf(d), ReadEnds(d)
  PROVE  ReadOf(d)'
<1>1. /\ rd[d] = "read" /\ rd'[d] = "eof"
      /\ UNCHANGED <<mode, firstRead, got, head, wire, replied, eof>>
  BY DEF ReadEnds, Reading, clientVars, peerVars, ReadTypes
<1>2. HeadOf(d)' /\ (Excused(d)' <=> Excused(d))
  BY <1>1 DEF ReadOf, HeadOf, Excused
<1>3. Fresh(d) \/ Skipping(d) \/ InData(d) => InData(d)'
  BY <1>1 DEF ReadOf, HeadOf, Fresh, Skipping, InData, Unread
<1> QED
  BY <1>1, <1>2, <1>3 DEF ReadOf

LEMMA ServerMoves ==
  ASSUME ReadTypes, NEW d \in Dials, ReadOf(d), Server(d)
  PROVE  ReadOf(d)'
<1> USE ReadTypesOf
<1>1. /\ UNCHANGED <<mode, firstRead, rd, got>> /\ ~eof[d]
  BY DEF Server, ServerSendsHead, ServerSendsData, ServerCloses, ServerSends, clientVars, readVars
<1>2. /\ HeadOf(d) /\ ~Excused(d)
      /\ mode[d] /= "tls" => Fresh(d) \/ Skipping(d) \/ InData(d)
  BY <1>1 DEF ReadOf, Excused
<1>3. CASE ServerSendsHead(d)
  <2>1. /\ mode[d] = "http" /\ replied[d] = 0 /\ head[d] \in 0..4
        /\ head'[d] = head[d] + 1 /\ replied'[d] = replied[d]
        /\ wire'[d] = wire[d] \o <<ReplyHead[head[d] + 1]>> /\ eof'[d] = eof[d]
    BY <1>3, HeadFacts DEF ServerSendsHead, ServerSends, ReadTypes
  <2>2. HeadOf(d)'
    BY <1>1, <1>2, <2>1 DEF HeadOf
  <2>3. ~InData(d)
    BY <1>1, <2>1 DEF InData
  <2>4. ASSUME NEW q \in Nat, Unread(d, q)
        PROVE  Unread(d, q)'
    <3>1. Follows(wire[d], head[d], 0, q)
      BY <2>1, <2>4 DEF Unread
    <3>2. Follows(wire'[d], head[d] + 1, 0, q)
      BY <2>1, <3>1, FollowsHead
    <3> QED
      BY <2>1, <3>2 DEF Unread
  <2>5. CASE Fresh(d)
    <3>1. Unread(d, 0)'
      BY <2>4, <2>5 DEF Fresh
    <3> QED
      BY <1>1, <2>2, <2>5, <3>1 DEF Fresh, ReadOf
  <2>6. CASE Skipping(d)
    <3>1. PICK q \in {0, 2, 4} : q <= head[d] /\ Unread(d, q)
      BY <2>6 DEF Skipping
    <3>2. Unread(d, q)' /\ q <= head'[d] /\ head'[d] >= 1
      BY <2>1, <2>4, <3>1
    <3>3. Skipping(d)'
      BY <1>1, <2>6, <3>2 DEF Skipping
    <3> QED
      BY <2>2, <3>3 DEF ReadOf
  <2> QED
    BY <1>2, <2>1, <2>3, <2>5, <2>6
<1>4. CASE ServerSendsData(d)
  <2>1. /\ head[d] \in {0, 5} /\ head'[d] = head[d] /\ replied'[d] = replied[d] + 1
        /\ mode[d] /= "tls" => wire'[d] = wire[d] \o <<replied[d] + 1>>
        /\ eof'[d] = eof[d]
    BY <1>4, HeadFacts DEF ServerSendsData, ServerSends, ReadTypes
  <2>2. HeadOf(d)'
    BY <1>1, <1>2, <2>1 DEF HeadOf
  <2>3. ASSUME mode[d] /= "tls", NEW q \in Nat, Unread(d, q)
        PROVE  Unread(d, q)'
    <3>1. Follows(wire'[d], head[d], replied[d] + 1, q)
      BY <2>1, <2>3, FollowsData DEF Unread
    <3> QED
      BY <2>1, <3>1 DEF Unread
  <2>4. ASSUME mode[d] /= "tls", Fresh(d)
        PROVE  Fresh(d)'
    <3>1. Unread(d, 0)'
      BY <2>3, <2>4 DEF Fresh
    <3> QED
      BY <1>1, <2>4, <3>1 DEF Fresh
  <2>5. ASSUME mode[d] /= "tls", Skipping(d)
        PROVE  Skipping(d)'
    <3>1. PICK q \in {0, 2, 4} : q <= head[d] /\ Unread(d, q)
      BY <2>5 DEF Skipping
    <3>2. Unread(d, q)' /\ q <= head'[d] /\ head'[d] >= 1
      BY <2>1, <2>3, <2>5, <3>1 DEF Skipping
    <3> QED
      BY <1>1, <2>5, <3>2 DEF Skipping
  <2>6. ASSUME mode[d] /= "tls", InData(d)
        PROVE  InData(d)'
    <3>1. PICK q \in Nat : q = head[d] + Len(got[d])
      OBVIOUS
    <3>2. Unread(d, q)
      BY <1>1, <2>6, <3>1 DEF InData
    <3>3. Unread(d, q)'
      BY <2>3, <2>6, <3>2
    <3>4. q = (head[d] + Len(got[d]))'
      BY <1>1, <2>1, <3>1
    <3>5. Unread(d, head[d] + Len(got[d]))'
      BY <3>3, <3>4 DEF Unread
    <3>6. replied'[d] > 0
      BY <2>1
    <3> QED
      BY <1>1, <2>1, <2>6, <3>5, <3>6 DEF InData
  <2> QED
    BY <1>1, <1>2, <2>2, <2>4, <2>5, <2>6 DEF ReadOf
<1>5. CASE ServerCloses(d)
  <2>1. UNCHANGED <<head, wire, replied>> /\ eof'[d]
    BY <1>5 DEF ServerCloses, ReadTypes
  <2>2. HeadOf(d)'
    BY <1>1, <1>2, <2>1 DEF HeadOf
  <2>3. (Fresh(d) => Fresh(d)') /\ (Skipping(d) => Skipping(d)')
    BY <1>1, <2>1 DEF Fresh, Skipping, Unread
  <2>4. InData(d) => InData(d)'
    BY <1>1, <2>1 DEF InData, Unread
  <2> QED
    BY <1>1, <1>2, <2>2, <2>3, <2>4 DEF ReadOf
<1> QED
  BY <1>3, <1>4, <1>5 DEF Server

LEMMA ReadOthers ==
  ASSUME ReadTypes, NEW d \in Dials, Downstream(d) \/ Server(d)
  PROVE  \A e \in Dials : e /= d => SameRead(e)
<1> USE DEF ReadTypes, SameRead, clientVars, readVars, peerVars, ServerSends
<1>1. CASE CallRead(d) \/ Peek(d)
  <2>1. \E x : rd' = [rd EXCEPT ![d] = x]
    BY <1>1 DEF CallRead, Peek
  <2>2. \A e \in Dials : e /= d => rd'[e] = rd[e]
    BY <2>1
  <2> QED
    BY <1>1, <2>2 DEF CallRead, Peek
<1>2. CASE SkipLine(d)
  <2>1. \E x, y : rd' = [rd EXCEPT ![d] = x] /\ wire' = [wire EXCEPT ![d] = y]
    BY <1>2 DEF SkipLine
  <2>2. \A e \in Dials : e /= d => rd'[e] = rd[e] /\ wire'[e] = wire[e]
    BY <2>1
  <2> QED
    BY <1>2, <2>2 DEF SkipLine
<1>3. CASE SkipFails(d) \/ ReadEnds(d)
  BY <1>3 DEF SkipFails, ReadEnds
<1>4. CASE ReadData(d)
  <2>1. \E x, y : got' = [got EXCEPT ![d] = x] /\ wire' = [wire EXCEPT ![d] = y]
    BY <1>4 DEF ReadData
  <2>2. \A e \in Dials : e /= d => got'[e] = got[e] /\ wire'[e] = wire[e]
    BY <2>1
  <2> QED
    BY <1>4, <2>2 DEF ReadData
<1>5. CASE ServerSendsHead(d) \/ ServerSendsData(d)
  <2>1. \E x : wire' = [wire EXCEPT ![d] = x]
    BY <1>5 DEF ServerSendsHead, ServerSendsData
  <2>2. \A e \in Dials : e /= d => wire'[e] = wire[e]
    BY <2>1
  <2> QED
    BY <1>5, <2>2 DEF ServerSendsHead, ServerSendsData
<1>6. CASE ServerCloses(d)
  BY <1>6 DEF ServerCloses
<1> QED
  BY <1>1, <1>2, <1>3, <1>4, <1>5, <1>6 DEF Downstream, Server

LEMMA ReadUntouched ==
  ASSUME NEW d \in Dials,
         DialContext(d) \/ Upstream(d) \/ CallWrite(d) \/ CloseConn(d) \/ UNCHANGED vars
  PROVE  UNCHANGED <<mode, firstRead, rd, got, head, wire, replied, eof>>
BY DEF DialContext, Parse, ConnectFails, Connect, WrapConn, WrapFails, SendTarget, Return,
  Upstream, ConnWrite, TargetFails, WriteFails, CallWrite, CloseConn, vars, clientVars,
  readVars, peerVars

LEMMA ReadStep ==
  ASSUME TypeOK, ReadInv, [Next]_vars
  PROVE  ReadInv'
<1>0. ReadTypes
  BY TypeParts
<1>1. ASSUME NEW d \in Dials, Downstream(d) \/ Server(d)
      PROVE  ReadInv'
  <2>1. ReadOf(d)'
    BY <1>0, <1>1, CallReadMoves, PeekMoves, SkipLineMoves, SkipFailsMoves, ReadDataMoves,
       ReadEndsMoves, ServerMoves
    DEF ReadInv, Downstream
  <2>2. ASSUME NEW e \in Dials, e /= d
        PROVE  ReadOf(e)'
    BY <1>0, <1>1, <2>2, ReadOthers, SameReadKeeps DEF ReadInv
  <2> QED
    BY <2>1, <2>2 DEF ReadInv
<1>2. ASSUME UNCHANGED <<mode, firstRead, rd, got, head, wire, replied, eof>>
      PROVE  ReadInv'
  BY <1>2, SameReadKeeps DEF ReadInv, SameRead
<1>3. CASE UNCHANGED vars
  BY <1>2, <1>3 DEF vars, clientVars, readVars, peerVars
<1> QED
  BY <1>1, <1>2, <1>3, ReadUntouched DEF Next

LEMMA ReadInit == Init => ReadInv
<1> SUFFICES ASSUME Init, NEW d \in Dials PROVE ReadOf(d)
  BY DEF ReadInv
<1>1. /\ firstRead[d] /\ rd[d] = "idle" /\ got[d] = <<>> /\ wire[d] = <<>>
      /\ head[d] = 0 /\ replied[d] = 0
  BY DEF Init
<1>2. Follows(<<>>, 0, 0, 0)
  <2>1. Len(<<>>) = 0 /\ 1..0 = {}
    OBVIOUS
  <2> QED
    BY <2>1 DEF Follows
<1>3. Fresh(d)
  BY <1>1, <1>2 DEF Fresh, Unread
<1> QED
  BY <1>1, <1>3 DEF ReadOf, HeadOf

LEMMA ReadInvariant == Spec => [](TypeOK /\ ReadInv)
<1>1. Init => TypeOK /\ ReadInv
  BY InitTypes, ReadInit
<1>2. TypeOK /\ ReadInv /\ [Next]_vars => (TypeOK /\ ReadInv)'
  BY NextTypes, ReadStep
<1> QED
  BY <1>1, <1>2, PTL DEF Spec

\* The cipher reads the data of the server, all of it up to here and nothing
\* of the head, however the answer is cut into pieces.
THEOREM ReplyIntactAlways == Spec => []ReplyIntact
<1>1. ASSUME TypeOK, ReadInv
      PROVE  ReplyIntact
  <2> SUFFICES ASSUME NEW d \in Dials, mode[d] /= "tls", ~Excused(d)
               PROVE  got[d] = Count(got[d])
    BY DEF ReplyIntact, Excused
  <2>1. got[d] \in Seq(Int)
    BY <1>1, TypeParts DEF ReadTypes
  <2>2. Run(got[d], 0)
    <3>1. CASE got[d] = <<>>
      BY <3>1, RunEmpty
    <3>2. CASE got[d] /= <<>>
      BY <1>1, <3>2 DEF ReadInv, ReadOf, Fresh, Skipping, InData
    <3> QED
      BY <3>1, <3>2
  <2> QED
    BY <2>1, <2>2, RunCount
<1> QED
  BY <1>1, ReadInvariant, PTL
=============================================================================
