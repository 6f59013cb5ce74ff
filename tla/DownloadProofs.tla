--------------------------- MODULE DownloadProofs ---------------------------
(***************************************************************************)
(* Download for any clients, files, options and faults: what a client      *)
(* reads next answers its last question (Frame), what it has written is    *)
(* the source's up to the block it has come to (Progress), nothing but a   *)
(* fault keeps it from the end (Smooth), and it never waits for good       *)
(* (LiveInv) nor goes on for ever (StepsFall).                             *)
(***************************************************************************)
EXTENDS Download, BlockFileProofs, FiniteSetTheorems, SequenceTheorems

Message == [kind : {"size"}, blk : {0}] \cup [kind : {"ask"}, blk : Nat]
Answers == [kind : {"size", "data", "payload"}, blk : 0 .. LastServed]
             \cup [kind : {"zero"}, blk : {b \in 0 .. LastServed : ZeroServed(b)}]
             \cup [kind : {"done"}, blk : {b \in Nat : b > LastServed}]

LEMMA Channel ==
  ASSUME NEW S, NEW s \in Seq(S)
  PROVE  /\ \A m \in S : Append(s, m) \in Seq(S)
         /\ s # <<>> => Head(s) \in S /\ Tail(s) \in Seq(S)
         /\ \A k \in 0 .. Len(s) : SubSeq(s, 1, k) \in Seq(S)
<1>1. \A k \in 0 .. Len(s) : SubSeq(s, 1, k) \in Seq(S)
  BY SubSeqProperties
<1> QED
  BY <1>1, HeadTailProperties, AppendProperties

\* Channels with at most two messages.
LEMMA Short ==
  ASSUME NEW a, NEW b
  PROVE  /\ Append(<<>>, a) = <<a>> /\ Append(<<a>>, b) = <<a, b>>
         /\ Head(<<a>>) = a /\ Tail(<<a>>) = <<>> /\ <<a>> # <<>>
         /\ Head(<<a, b>>) = a /\ Tail(<<a, b>>) = <<b>> /\ <<a, b>> # <<>>
<1> DEFINE S == {a, b}
<1>1. /\ <<a>> \in Seq(S) /\ Len(<<a>>) = 1 /\ b \in S
      /\ <<a, b>> \in Seq(S) /\ Len(<<a, b>>) = 2
  OBVIOUS
<1>2. /\ Append(<<a>>, b) \in Seq(S) /\ Len(Append(<<a>>, b)) = 2
      /\ Append(<<a>>, b)[1] = a /\ Append(<<a>>, b)[2] = b
  BY <1>1, AppendProperties
<1>3. \A i \in 1 .. 2 : Append(<<a>>, b)[i] = <<a, b>>[i]
  BY <1>2
<1> HIDE DEF S
<1>4. Append(<<a>>, b) = <<a, b>>
  BY <1>1, <1>2, <1>3, SeqEqual
<1>5. Append(<<>>, a) = <<a>>
  OBVIOUS
<1>6. Head(<<a>>) = a /\ Tail(<<a>>) = <<>> /\ <<a>> # <<>>
  OBVIOUS
<1>7. Head(<<a, b>>) = a /\ Tail(<<a, b>>) = <<b>> /\ <<a, b>> # <<>>
  OBVIOUS
<1> QED
  BY <1>4, <1>5, <1>6, <1>7

LEMMA Whole ==
  ASSUME NEW S, NEW s \in Seq(S)
  PROVE  SubSeq(s, 1, Len(s)) = s
OBVIOUS

\* What a broken connection leaves of such a channel.
LEMMA Prefix ==
  ASSUME NEW a, NEW b
  PROVE  /\ \A k \in 0 .. Len(<<>>) : SubSeq(<<>>, 1, k) = <<>>
         /\ \A k \in 0 .. Len(<<a>>) : SubSeq(<<a>>, 1, k) \in {<<>>, <<a>>}
         /\ \A k \in 0 .. Len(<<a, b>>) : SubSeq(<<a, b>>, 1, k) \in {<<>>, <<a>>, <<a, b>>}
<1> DEFINE S == {a, b}
<1>1. /\ <<a>> \in Seq(S) /\ Len(<<a>>) = 1 /\ <<a>>[1] = a
      /\ <<a, b>> \in Seq(S) /\ Len(<<a, b>>) = 2 /\ <<a, b>>[1] = a /\ a \in S
  OBVIOUS
<1>2. \A s : SubSeq(s, 1, 0) = <<>>
  BY SubSeqEmpty
<1>3. SubSeq(<<a, b>>, 1, 1) \in Seq(S) /\ Len(SubSeq(<<a, b>>, 1, 1)) = 1
  BY <1>1, SubSeqProperties
<1>4. \A i \in 1 .. 1 : SubSeq(<<a, b>>, 1, 1)[i] = <<a, b>>[i]
  BY <1>1, SubSeqProperties
<1>5. \A i \in 1 .. 1 : SubSeq(<<a, b>>, 1, 1)[i] = <<a>>[i]
  BY <1>1, <1>4
<1> HIDE DEF S
<1>6. SubSeq(<<a, b>>, 1, 1) = <<a>>
  BY <1>1, <1>3, <1>5, SeqEqual
<1>7. SubSeq(<<a>>, 1, 1) = <<a>> /\ SubSeq(<<a, b>>, 1, 2) = <<a, b>>
  BY <1>1, Whole
<1>8. \A k \in 0 .. Len(<<>>) : SubSeq(<<>>, 1, k) = <<>>
  BY <1>2
<1>9. \A k \in 0 .. Len(<<a>>) : k = 0 \/ k = 1
  BY <1>1
<1>10. \A k \in 0 .. Len(<<a, b>>) : k = 0 \/ k = 1 \/ k = 2
  BY <1>1
<1> QED
  BY <1>2, <1>6, <1>7, <1>8, <1>9, <1>10

---------------------------------------------------------------------------
(* One question, one answer.                                               *)

\* Where a client's question is: with the client, on its way, with the handler, or on its way
\* back. pc and i are the client's, h and b the handler's, c and s what is under way; a payload
\* can go ahead of its header only if the connection is lost, and then it does not arrive.
FrameOf(pc, i, h, b, c, s, lost) ==
  LET rests    == h \in {"read", "end"}
      busy(hp) == h = hp /\ b = i
  IN \/ pc = "over"
     \/ pc = "dial" /\ c = <<>> /\ s = <<>> /\ h = "unused"
     \/ pc = "size" /\ c \in {<<>>, <<Msg("size", 0)>>} /\ s = <<>> /\ (h = "queued" \/ rests)
     \/ pc = "size" /\ c = <<>> /\ s = <<Msg("size", 0)>> /\ rests
     \/ pc \in {"loop", "break"} /\ c = <<>> /\ s = <<>> /\ rests
     \/ pc = "header" /\ c \in {<<>>, <<Msg("ask", i)>>} /\ s = <<>> /\ rests
     \/ pc = "header" /\ c = <<>> /\ s = <<>> /\ (busy("answer") \/ (busy("payload") /\ lost))
     \/ pc = "header" /\ c = <<>> /\ s \in {<<Msg("zero", i)>>, <<Msg("done", i)>>} /\ rests
     \/ pc = "header" /\ c = <<>> /\ s = <<Msg("data", i)>> /\ (rests \/ busy("payload"))
     \/ pc = "header" /\ c = <<>> /\ s = <<Msg("data", i), Msg("payload", i)>> /\ rests
     \/ pc = "payload" /\ c = <<>> /\ s \in {<<>>, <<Msg("payload", i)>>} /\ rests
     \/ pc = "payload" /\ c = <<>> /\ s = <<>> /\ busy("payload")

Frame(q) ==
  FrameOf(client[q].pc, client[q].idx, handler[q].pc, handler[q].blk, c2s[q], s2c[q],
          q \in broken)

\* The types of what Frame speaks of.
Pcs  == {"dial", "size", "loop", "header", "payload", "break", "over"}
Ends == {"none", "complete", "cut", "failed", "panic"}
ClientState  == [pc : Pcs, idx : Nat, end : Ends]
HandlerState == [pc : {"unused", "queued", "read", "answer", "payload", "end"}, blk : 0 .. LastServed]

Wires ==
  /\ client \in [Clients -> ClientState]
  /\ handler \in [Clients -> HandlerState]
  /\ c2s \in [Clients -> Seq(Message)]
  /\ s2c \in [Clients -> Seq(Answers)]

LEMMA FrameOther ==
  ASSUME NEW q \in Clients, Frame(q), client'[q] = client[q], handler'[q] = handler[q],
         c2s'[q] = c2s[q], s2c'[q] = s2c[q], broken \subseteq broken'
  PROVE  Frame(q)'
BY DEF Frame, FrameOf, Msg

\* What a client that waits for something finds.
LEMMA Found ==
  ASSUME NEW pc, NEW i, NEW h, NEW b, NEW c, NEW s, NEW lost,
         FrameOf(pc, i, h, b, c, s, lost), s # <<>>
  PROVE  /\ pc = "size" => c = <<>> /\ s = <<Msg("size", 0)>> /\ h \in {"read", "end"}
         /\ pc = "header" =>
              /\ c = <<>>
              /\ \/ s \in {<<Msg("zero", i)>>, <<Msg("done", i)>>} /\ h \in {"read", "end"}
                 \/ s = <<Msg("data", i)>> /\ (h \in {"read", "end"} \/ (h = "payload" /\ b = i))
                 \/ s = <<Msg("data", i), Msg("payload", i)>> /\ h \in {"read", "end"}
         /\ pc = "payload" => c = <<>> /\ s = <<Msg("payload", i)>> /\ h \in {"read", "end"}
BY DEF FrameOf

\* The client's steps but its last, which leave Frame nothing to say.
LEMMA FrameClient ==
  ASSUME Wires, NEW q \in Clients, Frame(q), ~Left(q)', ClientStep(q) \/ WriteFails(q)
  PROVE  Frame(q)'
<1> USE DEF At, Goto, Stop, Left, inputs, netVars, cacheVars
<1> DEFINE i == client[q].idx
<1>1. CASE Dial(q)
  <2>1. /\ client[q].pc = "dial" /\ client'[q].pc = "size" /\ handler'[q].pc = "queued"
        /\ c2s'[q] = <<Msg("size", 0)>> /\ s2c'[q] = s2c[q] /\ broken' = broken
    BY <1>1 DEF Dial, Wires, ClientState, HandlerState
  <2>2. s2c[q] = <<>>
    BY <2>1 DEF Frame, FrameOf
  <2> QED
    BY <2>1, <2>2 DEF Frame, FrameOf, Msg
<1>2. CASE ReadSize(q)
  <2>1. /\ client[q].pc = "size" /\ s2c[q] # <<>> /\ client'[q].pc = "loop"
        /\ handler'[q] = handler[q] /\ c2s'[q] = c2s[q] /\ s2c'[q] = Tail(s2c[q])
        /\ broken' = broken
    BY <1>2 DEF ReadSize, Wires, ClientState, HandlerState
  <2>2. c2s[q] = <<>> /\ s2c[q] = <<Msg("size", 0)>> /\ handler[q].pc \in {"read", "end"}
    BY <2>1, Found DEF Frame
  <2>3. s2c'[q] = <<>>
    BY <2>1, <2>2, Short
  <2> QED
    BY <2>1, <2>2, <2>3 DEF Frame, FrameOf, Msg
<1>3. CASE Ask(q)
  <2>1. /\ client[q].pc = "loop" /\ client'[q].pc = "header" /\ client'[q].idx = i
        /\ handler'[q] = handler[q] /\ s2c'[q] = s2c[q] /\ broken' = broken
        /\ c2s'[q] \in {c2s[q], Append(c2s[q], Msg("ask", i))}
    BY <1>3 DEF Ask, Wires, ClientState, HandlerState
  <2>2. c2s[q] = <<>> /\ s2c[q] = <<>> /\ handler[q].pc \in {"read", "end"}
    BY <2>1 DEF Frame, FrameOf
  <2>3. c2s'[q] \in {<<>>, <<Msg("ask", i)>>}
    BY <2>1, <2>2, Short
  <2> QED
    BY <2>1, <2>2, <2>3 DEF Frame, FrameOf, Msg
<1>4. CASE ReadHeader(q)
  <2> DEFINE m == Head(s2c[q])
  <2>1. /\ client[q].pc = "header" /\ s2c[q] # <<>>
        /\ handler'[q] = handler[q] /\ c2s'[q] = c2s[q] /\ s2c'[q] = Tail(s2c[q])
        /\ broken' = broken
        /\ \/ m.kind = "zero" /\ client'[q].pc = "loop"
           \/ m.kind = "data" /\ client'[q].pc = "payload" /\ client'[q].idx = i
    BY <1>4 DEF ReadHeader, Wires, ClientState, HandlerState
  <2>2. /\ c2s[q] = <<>>
        /\ \/ s2c[q] \in {<<Msg("zero", i)>>, <<Msg("done", i)>>} /\ handler[q].pc \in {"read", "end"}
           \/ /\ s2c[q] = <<Msg("data", i)>>
              /\ handler[q].pc \in {"read", "end"} \/ (handler[q].pc = "payload" /\ handler[q].blk = i)
           \/ s2c[q] = <<Msg("data", i), Msg("payload", i)>> /\ handler[q].pc \in {"read", "end"}
    BY <2>1, Found DEF Frame
  <2>3. CASE s2c[q] \in {<<Msg("zero", i)>>, <<Msg("done", i)>>}
    <3>1. m \in {Msg("zero", i), Msg("done", i)} /\ s2c'[q] = <<>>
      BY <2>1, <2>3, Short
    <3>2. client'[q].pc = "loop" /\ handler[q].pc \in {"read", "end"}
      BY <2>1, <2>2, <2>3, <3>1, Short DEF Msg
    <3> QED
      BY <2>1, <2>2, <3>1, <3>2 DEF Frame, FrameOf, Msg
  <2>4. CASE s2c[q] \in {<<Msg("data", i)>>, <<Msg("data", i), Msg("payload", i)>>}
    <3>1. m = Msg("data", i) /\ s2c'[q] \in {<<>>, <<Msg("payload", i)>>}
      <4>1. CASE s2c[q] = <<Msg("data", i)>>
        BY <2>1, <4>1, Short
      <4>2. CASE s2c[q] = <<Msg("data", i), Msg("payload", i)>>
        <5>1. Head(<<Msg("data", i), Msg("payload", i)>>) = Msg("data", i)
              /\ Tail(<<Msg("data", i), Msg("payload", i)>>) = <<Msg("payload", i)>>
          BY Short
        <5> QED
          BY <2>1, <4>2, <5>1
      <4> QED
        BY <2>4, <4>1, <4>2
    <3>2. client'[q].pc = "payload" /\ client'[q].idx = i
      BY <2>1, <3>1 DEF Msg
    <3>3. CASE handler[q].pc \in {"read", "end"}
      BY <2>1, <2>2, <3>1, <3>2, <3>3 DEF Frame, FrameOf, Msg
    <3>4. CASE ~(handler[q].pc \in {"read", "end"})
      <4>1. s2c[q] = <<Msg("data", i)>> /\ handler[q].pc = "payload" /\ handler[q].blk = i
        BY <2>2, <3>4
      <4>2. s2c'[q] = <<>>
        BY <2>1, <4>1, Short
      <4> QED
        BY <2>1, <2>2, <3>2, <4>1, <4>2 DEF Frame, FrameOf
    <3> QED
      BY <3>3, <3>4
  <2> QED
    BY <2>2, <2>3, <2>4
<1>5. CASE ReadPayload(q) \/ WriteFails(q)
  <2>1. /\ client[q].pc = "payload" /\ s2c[q] # <<>> /\ client'[q].pc \in {"loop", "break"}
        /\ handler'[q] = handler[q] /\ c2s'[q] = c2s[q] /\ s2c'[q] = Tail(s2c[q])
        /\ broken' = broken
    BY <1>5 DEF ReadPayload, WriteFails, Wires, ClientState, HandlerState
  <2>2. c2s[q] = <<>> /\ s2c[q] = <<Msg("payload", i)>> /\ handler[q].pc \in {"read", "end"}
    BY <2>1, Found DEF Frame
  <2>3. s2c'[q] = <<>>
    BY <2>1, <2>2, Short
  <2> QED
    BY <2>1, <2>2, <2>3 DEF Frame, FrameOf, Msg
<1>6. CASE Refused(q) \/ Complete(q) \/ ReadEnds(q)
  BY <1>6 DEF Refused, Complete, ReadEnds, Wires, ClientState, HandlerState
<1> QED
  BY <1>1, <1>2, <1>3, <1>4, <1>5, <1>6 DEF ClientStep
LEMMA FrameHandler ==
  ASSUME Wires, NEW q \in Clients, Frame(q), ~Left(q), HandlerStep(q) \/ HandlerFails(q)
  PROVE  Frame(q)'
<1> USE DEF Left, Running, Serve, Answer, inputs, netVars, cacheVars
<1> DEFINE i == client[q].idx
           b == handler[q].blk
<1>1. CASE Accept(q)
  <2>1. /\ handler[q].pc = "queued" /\ handler'[q].pc = "read"
        /\ client'[q] = client[q] /\ broken' = broken /\ c2s'[q] = c2s[q] /\ s2c'[q] = s2c[q]
    BY <1>1 DEF Accept, Wires, ClientState, HandlerState
  <2> QED
    BY <2>1 DEF Frame, FrameOf, Msg
<1>2. CASE Read(q)
  <2> DEFINE m == Head(c2s[q])
  <2>1. /\ handler[q].pc = "read" /\ c2s[q] # <<>>
        /\ client'[q] = client[q] /\ broken' = broken /\ c2s'[q] = Tail(c2s[q])
        /\ \/ m.kind = "size" /\ s2c'[q] \in {s2c[q], Append(s2c[q], m)} /\ handler'[q] = handler[q]
           \/ /\ m.kind = "ask" /\ handler'[q].pc = "end"
              /\ s2c'[q] \in {s2c[q], Append(s2c[q], Msg("done", m.blk))}
           \/ /\ m.kind = "ask" /\ handler'[q] = [pc |-> "answer", blk |-> m.blk]
              /\ s2c'[q] = s2c[q]
    BY <1>2 DEF Read, Wires, ClientState, HandlerState
  <2>2. /\ s2c[q] = <<>>
        /\ \/ client[q].pc = "size" /\ c2s[q] = <<Msg("size", 0)>>
           \/ client[q].pc = "header" /\ c2s[q] = <<Msg("ask", i)>>
    BY <2>1 DEF Frame, FrameOf
  <2>3. CASE client[q].pc = "size"
    <3>1. m = Msg("size", 0) /\ c2s'[q] = <<>> /\ Append(<<>>, m) = <<m>>
      BY <2>1, <2>2, <2>3, Short
    <3>2. s2c'[q] \in {<<>>, <<Msg("size", 0)>>} /\ handler'[q] = handler[q]
      BY <2>1, <2>2, <3>1 DEF Msg
    <3> QED
      BY <2>1, <2>3, <3>1, <3>2 DEF Frame, FrameOf
  <2>4. CASE client[q].pc = "header"
    <3>1. /\ m = Msg("ask", i) /\ c2s'[q] = <<>>
          /\ Append(<<>>, Msg("done", i)) = <<Msg("done", i)>>
      BY <2>1, <2>2, <2>4, Short
    <3>2. \/ handler'[q].pc = "end" /\ s2c'[q] \in {<<>>, <<Msg("done", i)>>}
          \/ handler'[q].pc = "answer" /\ handler'[q].blk = i /\ s2c'[q] = <<>>
      BY <2>1, <2>2, <3>1 DEF Msg
    <3> QED
      BY <2>1, <2>4, <3>1, <3>2 DEF Frame, FrameOf
  <2> QED
    BY <2>2, <2>3, <2>4
<1>3. CASE Header(q)
  <2>1. /\ handler[q].pc = "answer" /\ client'[q] = client[q] /\ broken' = broken /\ c2s'[q] = c2s[q]
        /\ handler'[q].blk = b /\ (q \in broken => s2c'[q] = s2c[q])
        /\ q \notin broken =>
             s2c'[q] = Append(s2c[q], Msg(IF handler'[q].pc = "read" THEN "zero" ELSE "data", b))
        /\ handler'[q].pc \in {"read", "payload"}
    BY <1>3 DEF Header, Wires, ClientState, HandlerState
  <2>2. client[q].pc = "header" /\ c2s[q] = <<>> /\ s2c[q] = <<>> /\ b = i
    BY <2>1 DEF Frame, FrameOf, Left
  <2>3. /\ Append(<<>>, Msg("zero", b)) = <<Msg("zero", b)>>
        /\ Append(<<>>, Msg("data", b)) = <<Msg("data", b)>>
    BY Short
  <2> QED
    BY <2>1, <2>2, <2>3 DEF Frame, FrameOf
<1>4. CASE Payload(q)
  <2>1. /\ handler[q].pc = "payload" /\ client'[q] = client[q] /\ broken' = broken /\ c2s'[q] = c2s[q]
        /\ s2c'[q] = IF q \in broken THEN s2c[q] ELSE Append(s2c[q], Msg("payload", b))
        /\ handler'[q].pc = "read"
    BY <1>4 DEF Payload, Wires, ClientState, HandlerState
  <2>2. /\ c2s[q] = <<>> /\ b = i
        /\ \/ client[q].pc = "header" /\ s2c[q] \in {<<>>, <<Msg("data", i)>>}
           \/ client[q].pc = "payload" /\ s2c[q] = <<>>
    BY <2>1 DEF Frame, FrameOf, Left
  <2>3. /\ Append(<<>>, Msg("payload", i)) = <<Msg("payload", i)>>
        /\ Append(<<Msg("data", i)>>, Msg("payload", i)) = <<Msg("data", i), Msg("payload", i)>>
    BY Short
  <2> QED
    BY <2>1, <2>2, <2>3 DEF Frame, FrameOf
<1>5. CASE End(q) \/ HandlerFails(q)
  <2>1. /\ handler[q].pc \in {"read", "answer"} /\ handler'[q].pc = "end"
        /\ client'[q] = client[q] /\ broken' = broken /\ c2s'[q] = c2s[q] /\ s2c'[q] = s2c[q]
    BY <1>5 DEF End, HandlerFails, Wires, ClientState, HandlerState
  <2> QED
    BY <2>1 DEF Frame, FrameOf
<1> QED
  BY <1>1, <1>2, <1>3, <1>4, <1>5 DEF HandlerStep

LEMMA FrameBreak ==
  ASSUME Wires, NEW q \in Clients, Frame(q), ~Left(q), Break(q)
  PROVE  Frame(q)'
<1> DEFINE i == client[q].idx
<1>1. /\ client'[q] = client[q] /\ handler'[q] = handler[q] /\ client[q].pc # "over"
      /\ handler[q].pc # "unused" /\ q \in broken'
      /\ \E k \in 0 .. Len(c2s[q]), n \in 0 .. Len(s2c[q]) :
           c2s'[q] = SubSeq(c2s[q], 1, k) /\ s2c'[q] = SubSeq(s2c[q], 1, n)
  BY DEF Break, Wires, ClientState, HandlerState, Left
<1>2. /\ c2s[q] = <<>> => c2s'[q] = <<>>
      /\ \A a : c2s[q] = <<a>> => c2s'[q] \in {<<>>, <<a>>}
      /\ s2c[q] = <<>> => s2c'[q] = <<>>
      /\ \A a : s2c[q] = <<a>> => s2c'[q] \in {<<>>, <<a>>}
      /\ \A a, b : s2c[q] = <<a, b>> => s2c'[q] \in {<<>>, <<a>>, <<a, b>>}
  BY <1>1, Prefix
<1> QED
  BY <1>1, <1>2 DEF Frame, FrameOf

---------------------------------------------------------------------------
(* Types.                                                                  *)

\* A block that is asked for is one of the source's; one whose payload comes, of the server's.
Placed(q) == /\ client[q].pc \in {"header", "payload", "break"} => client[q].idx <= LastAsked
             /\ client[q].pc = "payload" => client[q].idx <= LastServed

Store ==
  /\ src \in Sources /\ old \in [Clients -> Targets] /\ setting \in Settings
  /\ dst \in [Clients -> File]
  /\ cache \in [0 .. LastServed -> {"none", "zero", "other"}]
  /\ \A b \in 0 .. LastServed : cache[b] = "zero" => ZeroServed(b)
  /\ nextJob \in Nat
  /\ job \in [Hashers -> {NoJob} \cup 0 .. LastServed]
  /\ broken \subseteq Clients
  /\ server \in {"serving", "ended"}
  /\ faults \in 0 .. MaxFaults

DownIInv == Store /\ Wires /\ \A q \in Clients : Frame(q) /\ Placed(q)

LEMMA SourceBounds ==
  ASSUME src \in Sources, setting \in Settings
  PROVE  /\ src \in File /\ src.size \in 1 .. BlockCount * BlockSize
         /\ serverSize \in Nat \ {0} /\ clientSkip \in Nat /\ serverSkip \in Nat
         /\ LastServed \in Nat /\ LastServed * serverSize < src.size
         /\ LastAsked \in Block /\ src.size <= Start(LastAsked + 1)
         /\ Start(LastAsked) + serverSize <= BlockCount * BlockSize
<1>1. /\ src \in File /\ src.size > 0 /\ setting \in Setting
      /\ Start(LastBlock(src.size)) + setting.serverSize <= BlockCount * BlockSize
  BY DownloadAssumption, RoomAssumption
<1>2. /\ serverSize \in Nat \ {0} /\ clientSkip \in Nat /\ serverSkip \in Nat
  BY <1>1 DEF Setting, serverSize, clientSkip, serverSkip
<1>3. src.size \in 1 .. BlockCount * BlockSize /\ src.size - 1 \in Nat
  BY <1>1, Sizes, FileElim
<1>4. LastServed \in Nat /\ LastServed * serverSize <= src.size - 1
  BY <1>2, <1>3, DivMod DEF LastServed
<1>5. LastServed * serverSize \in Int
  BY <1>2, <1>4
<1>6. LastServed * serverSize < src.size
  BY <1>3, <1>4, <1>5
<1>7. LastAsked \in Block /\ src.size <= Start(LastAsked + 1)
  BY <1>1, LastBlockBounds DEF LastAsked
<1> QED
  BY <1>1, <1>2, <1>3, <1>4, <1>6, <1>7 DEF LastAsked, serverSize

\* Where the payload of block i lies, and that it lies within the model's files.
LEMMA PasteBounds ==
  ASSUME src \in Sources, setting \in Settings, NEW i \in Nat, i <= LastAsked, i <= LastServed
  PROVE  /\ i * serverSize \in Nat /\ Start(i) \in Nat
         /\ ServedEnd(i) \in Nat /\ i * serverSize < ServedEnd(i) /\ ServedEnd(i) <= src.size
         /\ PasteEnd(i, i) \in 0 .. BlockCount * BlockSize /\ Start(i) < PasteEnd(i, i)
<1>1. /\ i * serverSize \in Nat /\ i * serverSize < src.size
      /\ (i + 1) * serverSize = i * serverSize + serverSize
  <2>1. i * serverSize <= LastServed * serverSize /\ i * serverSize \in Nat
    BY SourceBounds, MulMono
  <2>2. LastServed * serverSize \in Nat
    BY SourceBounds
  <2> QED
    BY <2>1, <2>2, SourceBounds
<1>2. Start(i) \in Nat /\ Start(LastAsked) \in Nat /\ Start(i) <= Start(LastAsked)
  <2>1. LastAsked \in Nat
    BY SourceBounds, Sizes
  <2> QED
    BY <2>1, StartMono
<1>3. /\ ServedEnd(i) \in Nat /\ i * serverSize < ServedEnd(i) /\ ServedEnd(i) <= src.size
      /\ ServedEnd(i) <= i * serverSize + serverSize
  BY <1>1, SourceBounds DEF ServedEnd
<1> HIDE DEF ServedEnd
<1>4. PasteEnd(i, i) = Start(i) + ServedEnd(i) - i * serverSize
  BY DEF PasteEnd
<1> QED
  BY <1>1, <1>2, <1>3, <1>4, SourceBounds, Sizes

LEMMA PasteType ==
  ASSUME src \in Sources, setting \in Settings, NEW i \in Nat, i <= LastAsked, i <= LastServed,
         NEW f \in File, NEW n \in Nat, n <= PasteEnd(i, i) \/ n <= f.size
  PROVE  Paste(f, i, i, n) \in File
<1> DEFINE S == {j \in Start(i) .. PasteEnd(i, i) - 1 : j < n}
           d == [k \in S |-> src.data[i * serverSize + k - Start(i)]]
           e == IF n > Start(i) THEN n ELSE 0
<1>1. S \in SUBSET Pos
  BY PasteBounds, Sizes DEF Pos
<1>2. \A k \in S : i * serverSize + k - Start(i) \in Pos
  <2>1. PasteEnd(i, i) = Start(i) + ServedEnd(i) - i * serverSize
    BY DEF PasteEnd
  <2> QED
    BY <2>1, PasteBounds, SourceBounds, Sizes DEF Pos
<1>3. d \in [S -> Byte]
  BY <1>2, SourceBounds, FileElim
<1>4. d \in Reads /\ DOMAIN d = S
  BY <1>1, <1>3, ReadsIntro
<1>5. e \in 0 .. BlockCount * BlockSize
  BY PasteBounds, FileElim, Sizes
<1>6. \A k \in S : k < e
  BY PasteBounds
<1>7. WriteBlock(f, d, e) \in File
  <2> HIDE DEF d, e, S
  <2> QED
    BY <1>4, <1>5, <1>6, WriteType
<1> QED
  BY <1>7 DEF Paste

\* The inputs stay, and with them the numbers of the last blocks.
LEMMA InputsStay ==
  ASSUME DownNext
  PROVE  /\ src' = src /\ old' = old /\ setting' = setting
         /\ LastServed' = LastServed /\ LastAsked' = LastAsked
         /\ \A b : ZeroServed(b)' = ZeroServed(b)
         /\ broken \subseteq broken'
<1>1. /\ src' = src /\ old' = old /\ setting' = setting
      /\ broken \subseteq broken'
  BY DEF DownNext, ClientStep, HandlerStep, FaultStep, HasherStep, Dial, Refused, DialFails, ReadSize,
     Ask, Complete, ReadHeader, ReadPayload, WriteFails, ReadEnds, ReadFails, TakeJob, SetHash,
     HashFails, Accept, AcceptFails, Read, Header, Payload, End, HandlerFails, Break, inputs, netVars
<1>2. LastServed' = LastServed /\ LastAsked' = LastAsked
  BY <1>1 DEF LastServed, LastAsked, serverSize
<1>3. \A b : ZeroServed(b)' = ZeroServed(b)
  BY <1>1 DEF ZeroServed, ServedEnd, serverSize
<1> QED
  BY <1>1, <1>2, <1>3

\* A client's step leaves the other clients' state, and all of the server's but the new handler.
LEMMA StoreClient ==
  ASSUME DownIInv, NEW q \in Clients,
         ClientStep(q) \/ DialFails(q) \/ ReadFails(q) \/ WriteFails(q)
  PROVE  /\ dst' \in [Clients -> File] /\ \A r \in Clients \ {q} : dst'[r] = dst[r]
         /\ UNCHANGED <<inputs, cacheVars, broken, server>> /\ faults' \in 0 .. MaxFaults
<1> USE DEF Store, Wires, inputs, netVars, cacheVars
<1>0. dst \in [Clients -> File] /\ faults \in 0 .. MaxFaults /\ MaxFaults \in Nat
  BY DownloadAssumption DEF DownIInv
<1>1. CASE Dial(q) \/ Refused(q) \/ Ask(q) \/ Complete(q) \/ ReadHeader(q) \/ ReadEnds(q)
  BY <1>0, <1>1 DEF Dial, Refused, Ask, Complete, ReadHeader, ReadEnds
<1>2. CASE DialFails(q) \/ ReadFails(q)
  BY <1>0, <1>2 DEF DialFails, ReadFails, Fault
<1>3. CASE ReadSize(q)
  <2>1. Resize(dst[q], src.size) \in File
    BY <1>0, ResizeType, SourceBounds DEF DownIInv
  <2> QED
    BY <1>0, <1>3, <2>1 DEF ReadSize
<1>4. CASE ReadPayload(q) \/ WriteFails(q)
  <2> DEFINE i == client[q].idx
             b == Head(s2c[q]).blk
  <2>1. s2c[q] = <<Msg("payload", i)>> /\ b = i /\ i \in Nat /\ i <= LastAsked /\ i <= LastServed
    <3>1. s2c[q] # <<>> /\ client[q].pc = "payload"
      BY <1>4 DEF ReadPayload, WriteFails, At
    <3>2. s2c[q] = <<Msg("payload", i)>>
      BY <3>1, Found DEF DownIInv, Frame
    <3>3. i \in Nat
      BY DEF DownIInv, Wires, ClientState
    <3> QED
      BY <3>1, <3>2, <3>3, Short DEF DownIInv, Placed, Msg
  <2>2. \A n \in Nat : n <= PasteEnd(i, i) \/ n <= dst[q].size => Paste(dst[q], i, i, n) \in File
    BY <1>0, <2>1, PasteType DEF DownIInv
  <2>3. PasteEnd(i, i) \in Nat /\ dst[q].size \in Nat /\ Start(i) \in Nat
    <3>1. dst[q].size \in 0 .. BlockCount * BlockSize
      BY <1>0, FileElim
    <3> QED
      BY <2>1, <3>1, PasteBounds, Sizes DEF DownIInv
  <2>4. CASE ReadPayload(q)
    <3>1. \/ dst' = [dst EXCEPT ![q] = Paste(dst[q], i, i, PasteEnd(i, i))]
          \/ dst' = [dst EXCEPT ![q] = Paste(dst[q], i, i, dst[q].size)]
      BY <2>1, <2>4 DEF ReadPayload
    <3>2. \A n \in {PasteEnd(i, i), dst[q].size} : Paste(dst[q], i, i, n) \in File
      BY <2>2, <2>3
    <3> HIDE DEF i
    <3>3. dst' \in [Clients -> File] /\ \A r \in Clients \ {q} : dst'[r] = dst[r]
      BY <1>0, <3>1, <3>2
    <3> QED
      BY <1>0, <2>4, <3>3 DEF ReadPayload
  <2>5. CASE WriteFails(q)
    <3>1. PICK n \in Start(i) .. PasteEnd(i, i) : dst' = [dst EXCEPT ![q] = Paste(dst[q], i, i, n)]
      BY <2>1, <2>5 DEF WriteFails
    <3>2. Paste(dst[q], i, i, n) \in File
      BY <2>2, <2>3
    <3> HIDE DEF i
    <3>3. dst' \in [Clients -> File] /\ \A r \in Clients \ {q} : dst'[r] = dst[r]
      BY <1>0, <3>1, <3>2
    <3> QED
      BY <1>0, <2>5, <3>3 DEF WriteFails, Fault
  <2> QED
    BY <1>4, <2>4, <2>5
<1> QED
  BY <1>1, <1>2, <1>3, <1>4 DEF ClientStep

\* Only connection q is touched.
Only(q) == \A r \in Clients \ {q} : /\ client'[r] = client[r] /\ handler'[r] = handler[r]
                                    /\ c2s'[r] = c2s[r] /\ s2c'[r] = s2c[r]

\* A function changed at one place.
At1(f, S, T, x) == {g \in [S -> T] : \A y \in S \ {x} : g[y] = f[y]}

LEMMA Put ==
  ASSUME NEW S, NEW T, NEW f \in [S -> T], NEW x \in S
  PROVE  f \in At1(f, S, T, x) /\ \A v \in T : [f EXCEPT ![x] = v] \in At1(f, S, T, x)
BY DEF At1

LEMMA Sets ==
  ASSUME DownNext
  PROVE  /\ Message' = Message /\ Answers' = Answers
         /\ ClientState' = ClientState /\ HandlerState' = HandlerState
BY InputsStay DEF Message, Answers, ClientState, HandlerState, Pcs, Ends

LEMMA Assemble ==
  ASSUME DownNext, NEW q \in Clients,
         client' \in At1(client, Clients, ClientState, q),
         handler' \in At1(handler, Clients, HandlerState, q),
         c2s' \in At1(c2s, Clients, Seq(Message), q),
         s2c' \in At1(s2c, Clients, Seq(Answers), q)
  PROVE  Only(q) /\ Wires'
BY Sets DEF At1, Only, Wires

LEMMA ClientChange ==
  ASSUME client \in [Clients -> ClientState], NEW q \in Clients, NEW p \in Pcs, NEW e \in Ends
  PROVE  /\ [client EXCEPT ![q].pc = p] \in At1(client, Clients, ClientState, q)
         /\ [client EXCEPT ![q].pc = p, ![q].end = e] \in At1(client, Clients, ClientState, q)
         /\ [client EXCEPT ![q].pc = p, ![q].idx = @ + 1] \in At1(client, Clients, ClientState, q)
<1>1. \A c \in ClientState : [c EXCEPT !.pc = p] \in ClientState
  BY DEF ClientState
<1>2. \A c \in ClientState : [c EXCEPT !.pc = p, !.end = e] \in ClientState
  BY DEF ClientState
<1>3. ASSUME NEW c \in ClientState PROVE [c EXCEPT !.pc = p, !.idx = @ + 1] \in ClientState
  <2>1. c.idx + 1 \in Nat
    BY DEF ClientState
  <2>2. \A n \in Nat : [c EXCEPT !.pc = p, !.idx = n] \in ClientState
    BY DEF ClientState
  <2> QED
    BY <2>1, <2>2
<1> QED
  BY <1>1, <1>2, <1>3 DEF At1

LEMMA HandlerChange ==
  ASSUME handler \in [Clients -> HandlerState], NEW q \in Clients,
         NEW p \in {"unused", "queued", "read", "answer", "payload", "end"}, NEW n \in 0 .. LastServed
  PROVE  /\ [handler EXCEPT ![q].pc = p] \in At1(handler, Clients, HandlerState, q)
         /\ [handler EXCEPT ![q] = [pc |-> p, blk |-> n]] \in At1(handler, Clients, HandlerState, q)
<1>1. \A h \in HandlerState : [h EXCEPT !.pc = p] \in HandlerState
  BY DEF HandlerState
<1>2. [pc |-> p, blk |-> n] \in HandlerState
  BY DEF HandlerState
<1> QED
  BY <1>1, <1>2 DEF At1

\* What may be done to the channels.
LEMMA ChannelChange ==
  ASSUME Wires, NEW q \in Clients
  PROVE  /\ c2s \in At1(c2s, Clients, Seq(Message), q) /\ s2c \in At1(s2c, Clients, Seq(Answers), q)
         /\ \A m \in Message : /\ [c2s EXCEPT ![q] = <<m>>] \in At1(c2s, Clients, Seq(Message), q)
                               /\ [c2s EXCEPT ![q] = Append(@, m)] \in At1(c2s, Clients, Seq(Message), q)
         /\ \A m \in Answers : [s2c EXCEPT ![q] = Append(@, m)] \in At1(s2c, Clients, Seq(Answers), q)
         /\ c2s[q] # <<>> => /\ Head(c2s[q]) \in Message
                             /\ [c2s EXCEPT ![q] = Tail(@)] \in At1(c2s, Clients, Seq(Message), q)
         /\ s2c[q] # <<>> => /\ Head(s2c[q]) \in Answers
                             /\ [s2c EXCEPT ![q] = Tail(@)] \in At1(s2c, Clients, Seq(Answers), q)
         /\ \A k \in 0 .. Len(c2s[q]) :
              [c2s EXCEPT ![q] = SubSeq(@, 1, k)] \in At1(c2s, Clients, Seq(Message), q)
         /\ \A k \in 0 .. Len(s2c[q]) :
              [s2c EXCEPT ![q] = SubSeq(@, 1, k)] \in At1(s2c, Clients, Seq(Answers), q)
<1>1. /\ c2s \in [Clients -> Seq(Message)] /\ s2c \in [Clients -> Seq(Answers)]
      /\ c2s[q] \in Seq(Message) /\ s2c[q] \in Seq(Answers)
  BY DEF Wires
<1>2. /\ \A m \in Message : <<m>> \in Seq(Message) /\ Append(c2s[q], m) \in Seq(Message)
      /\ \A m \in Answers : Append(s2c[q], m) \in Seq(Answers)
      /\ c2s[q] # <<>> => Head(c2s[q]) \in Message /\ Tail(c2s[q]) \in Seq(Message)
      /\ s2c[q] # <<>> => Head(s2c[q]) \in Answers /\ Tail(s2c[q]) \in Seq(Answers)
      /\ \A k \in 0 .. Len(c2s[q]) : SubSeq(c2s[q], 1, k) \in Seq(Message)
      /\ \A k \in 0 .. Len(s2c[q]) : SubSeq(s2c[q], 1, k) \in Seq(Answers)
  BY <1>1, Channel
<1>3. /\ c2s \in At1(c2s, Clients, Seq(Message), q)
      /\ \A v \in Seq(Message) : [c2s EXCEPT ![q] = v] \in At1(c2s, Clients, Seq(Message), q)
  BY <1>1, Put
<1>4. /\ s2c \in At1(s2c, Clients, Seq(Answers), q)
      /\ \A v \in Seq(Answers) : [s2c EXCEPT ![q] = v] \in At1(s2c, Clients, Seq(Answers), q)
  BY <1>1, Put
<1> QED
  BY <1>2, <1>3, <1>4

LEMMA WiresClient ==
  ASSUME DownIInv, NEW q \in Clients,
         ClientStep(q) \/ DialFails(q) \/ ReadFails(q) \/ WriteFails(q)
  PROVE  Only(q) /\ Wires' /\ Placed(q)'
<1> USE DEF At, Goto, Stop, inputs, netVars, cacheVars
<1> DEFINE i == client[q].idx
           C == At1(client, Clients, ClientState, q)
           H == At1(handler, Clients, HandlerState, q)
           Ask2 == At1(c2s, Clients, Seq(Message), q)
           Ans  == At1(s2c, Clients, Seq(Answers), q)
<1>0. DownNext /\ LastServed' = LastServed /\ LastAsked' = LastAsked
  BY InputsStay DEF DownNext, FaultStep
<1>1. /\ client \in [Clients -> ClientState] /\ handler \in [Clients -> HandlerState]
      /\ client[q] \in ClientState /\ i \in Nat
  BY DEF DownIInv, Wires, ClientState
<1>2. /\ handler \in H /\ c2s \in Ask2 /\ s2c \in Ans /\ client \in C
      /\ s2c[q] # <<>> => Head(s2c[q]) \in Answers /\ [s2c EXCEPT ![q] = Tail(@)] \in Ans
      /\ \A m \in Message : [c2s EXCEPT ![q] = <<m>>] \in Ask2 /\ [c2s EXCEPT ![q] = Append(@, m)] \in Ask2
  BY <1>1, ChannelChange, Put DEF DownIInv
<1>3. /\ \A p \in Pcs : [client EXCEPT ![q].pc = p] \in C
      /\ \A p \in Pcs, e \in Ends : [client EXCEPT ![q].pc = p, ![q].end = e] \in C
      /\ \A p \in Pcs : [client EXCEPT ![q].pc = p, ![q].idx = @ + 1] \in C
  BY <1>1, ClientChange DEF Ends
<1>4. Msg("size", 0) \in Message /\ Msg("ask", i) \in Message
  BY <1>1 DEF Msg, Message
<1>5. [handler EXCEPT ![q].pc = "queued"] \in H
  <2>1. LastServed \in Nat /\ 0 \in 0 .. LastServed
    BY SourceBounds DEF DownIInv, Store
  <2> QED
    BY <1>1, <2>1, HandlerChange
<1>6. client[q].pc = "payload" => i <= LastAsked
  BY DEF DownIInv, Placed
<1> HIDE DEF C, H, Ask2, Ans
<1>7. /\ \A p \in Pcs : Goto(q, p) => client' \in C
      /\ \A e \in Ends : Stop(q, e) => client' \in C
      /\ \A p \in Pcs : client' = [client EXCEPT ![q].pc = p, ![q].idx = @ + 1] => client' \in C
  BY <1>3 DEF Pcs
<1> SUFFICES client' \in C /\ handler' \in H /\ c2s' \in Ask2 /\ s2c' \in Ans /\ Placed(q)'
  BY <1>0, Assemble DEF C, H, Ask2, Ans
<1> HIDE DEF Goto, Stop
<1> USE DEF Pcs, Ends
<1>10. CASE Dial(q)
  <2>1. client'[q].pc = "size"
    BY <1>1, <1>10 DEF Dial, Goto, ClientState
  <2>2. client' \in C /\ handler' \in H /\ c2s' \in Ask2
    BY <1>2, <1>4, <1>5, <1>7, <1>10 DEF Dial
  <2> QED
    BY <1>2, <1>10, <2>1, <2>2 DEF Dial, Placed
<1>11. CASE Refused(q) \/ Complete(q) \/ ReadEnds(q) \/ DialFails(q) \/ ReadFails(q)
  <2>1. client'[q].pc = "over"
    BY <1>1, <1>11 DEF Refused, Complete, ReadEnds, DialFails, ReadFails, Stop, ClientState
  <2>2. client' \in C
    BY <1>7, <1>11 DEF Refused, Complete, ReadEnds, DialFails, ReadFails
  <2> QED
    BY <1>2, <1>11, <2>1, <2>2 DEF Refused, Complete, ReadEnds, DialFails, ReadFails, Placed
<1>12. CASE ReadSize(q)
  <2>1. client'[q].pc = "loop"
    BY <1>1, <1>12 DEF ReadSize, Goto, ClientState
  <2>2. client' \in C /\ s2c' \in Ans
    BY <1>2, <1>7, <1>12 DEF ReadSize
  <2> QED
    BY <1>2, <1>12, <2>1, <2>2 DEF ReadSize, Placed
<1>13. CASE Ask(q)
  <2>1. c2s' \in Ask2 /\ client' \in C
    BY <1>2, <1>4, <1>7, <1>13 DEF Ask
  <2>2. i <= LastAsked /\ (client'[q].pc = "over" \/ (client'[q].pc = "header" /\ client'[q].idx = i))
    BY <1>1, <1>13 DEF Ask, Goto, Stop, ClientState
  <2> QED
    BY <1>0, <1>2, <1>13, <2>1, <2>2 DEF Ask, Placed
<1>14. CASE ReadHeader(q)
  <2>1. client[q].pc = "header" /\ s2c[q] # <<>> /\ s2c' \in Ans
    BY <1>2, <1>14 DEF ReadHeader
  <2>2. client' \in C
    BY <1>7, <1>14 DEF ReadHeader
  <2>3. \/ client'[q].pc \in {"over", "loop"}
        \/ client'[q].pc = "payload" /\ client'[q].idx = i /\ Head(s2c[q]).kind = "data"
    BY <1>1, <1>14 DEF ReadHeader, Goto, Stop, ClientState
  <2>4. s2c[q] \in {<<Msg("zero", i)>>, <<Msg("done", i)>>, <<Msg("data", i)>>,
                    <<Msg("data", i), Msg("payload", i)>>}
    BY <2>1, Found DEF DownIInv, Frame
  <2>5. Head(s2c[q]).blk = i
    <3>1. \A a, b : Head(<<a>>) = a /\ Head(<<a, b>>) = a
      BY Short
    <3> QED
      BY <2>4, <3>1 DEF Msg
  <2>6. Head(s2c[q]).kind = "data" => i <= LastServed
    <3>1. LastServed \in Nat
      BY SourceBounds DEF DownIInv, Store
    <3> QED
      BY <1>2, <2>1, <2>5, <3>1 DEF Answers
  <2>7. i <= LastAsked
    BY <2>1 DEF DownIInv, Placed
  <2>8. Placed(q)'
    BY <1>0, <2>3, <2>6, <2>7 DEF Placed
  <2> QED
    BY <1>2, <1>14, <2>1, <2>2, <2>8 DEF ReadHeader
<1>15. CASE ReadPayload(q) \/ WriteFails(q)
  <2>1. s2c' \in Ans /\ client[q].pc = "payload"
    BY <1>2, <1>15 DEF ReadPayload, WriteFails
  <2>2. client' \in C
    BY <1>7, <1>15 DEF ReadPayload, WriteFails
  <2>3. client'[q].pc = "loop" \/ (client'[q].pc = "break" /\ client'[q].idx = i)
    BY <1>1, <1>15 DEF ReadPayload, WriteFails, Goto, ClientState
  <2>4. Placed(q)'
    BY <1>0, <1>6, <2>1, <2>3 DEF Placed
  <2> QED
    BY <1>2, <1>15, <2>1, <2>2, <2>4 DEF ReadPayload, WriteFails
<1> QED
  BY <1>10, <1>11, <1>12, <1>13, <1>14, <1>15 DEF ClientStep

\* A handler's step, or a break, leaves the other connections and what the files hold.
LEMMA WiresHandler ==
  ASSUME DownIInv, NEW q \in Clients, HandlerStep(q) \/ HandlerFails(q) \/ Break(q)
  PROVE  /\ Only(q) /\ Wires' /\ UNCHANGED <<inputs, dst, cacheVars, server, client>>
         /\ broken' \subseteq Clients /\ faults' \in 0 .. MaxFaults
<1> USE DEF Serve, Answer, Running, inputs, netVars, cacheVars
<1> DEFINE C == At1(client, Clients, ClientState, q)
           H == At1(handler, Clients, HandlerState, q)
           Ask2 == At1(c2s, Clients, Seq(Message), q)
           Ans  == At1(s2c, Clients, Seq(Answers), q)
<1>0. DownNext /\ LastServed \in Nat
  BY SourceBounds DEF DownNext, FaultStep, DownIInv, Store
<1>1. /\ client \in [Clients -> ClientState] /\ handler \in [Clients -> HandlerState]
      /\ handler[q].blk \in 0 .. LastServed
  BY DEF DownIInv, Wires, HandlerState
<1>2. /\ handler \in H /\ c2s \in Ask2 /\ s2c \in Ans /\ client \in C
      /\ c2s[q] # <<>> => Head(c2s[q]) \in Message /\ [c2s EXCEPT ![q] = Tail(@)] \in Ask2
      /\ \A m \in Answers : [s2c EXCEPT ![q] = Append(@, m)] \in Ans
  BY <1>1, ChannelChange, Put DEF DownIInv
<1>3. /\ \A p \in {"read", "payload", "end"} : [handler EXCEPT ![q].pc = p] \in H
      /\ \A n \in 0 .. LastServed : [handler EXCEPT ![q] = [pc |-> "answer", blk |-> n]] \in H
  BY <1>0, <1>1, HandlerChange
<1>4. \A n \in 0 .. LastServed : /\ {Msg("data", n), Msg("payload", n)} \subseteq Answers
                                 /\ ZeroServed(n) => Msg("zero", n) \in Answers
  BY DEF Msg, Answers
<1>5. \A m \in Message : /\ m.kind = "size" => m \in Answers
                         /\ m.kind = "ask" => m.blk \in Nat
                         /\ m.kind = "ask" /\ m.blk > LastServed => Msg("done", m.blk) \in Answers
  BY <1>0 DEF Message, Answers, Msg
<1>6. broken \subseteq Clients /\ faults \in 0 .. MaxFaults /\ MaxFaults \in Nat
  BY DownloadAssumption DEF DownIInv, Store
<1> HIDE DEF C, H, Ask2, Ans
<1> SUFFICES /\ client' \in C /\ handler' \in H /\ c2s' \in Ask2 /\ s2c' \in Ans
             /\ UNCHANGED <<inputs, dst, cacheVars, server, client>>
             /\ broken' \subseteq Clients /\ faults' \in 0 .. MaxFaults
  BY <1>0, Assemble DEF C, H, Ask2, Ans
<1>10. CASE Accept(q) \/ End(q)
  BY <1>2, <1>3, <1>6, <1>10 DEF Accept, End
<1>11. CASE Read(q)
  <2> DEFINE m == Head(c2s[q])
  <2>1. m \in Message /\ c2s' \in Ask2
    BY <1>2, <1>11 DEF Read
  <2> HIDE DEF m
  <2>2. s2c' \in Ans
    BY <1>2, <1>5, <1>11, <2>1 DEF Read, m
  <2>3. handler' \in H
    <3>1. \/ handler' = handler \/ handler' = [handler EXCEPT ![q].pc = "end"]
          \/ /\ m.kind = "ask" /\ m.blk <= LastServed
             /\ handler' = [handler EXCEPT ![q] = [pc |-> "answer", blk |-> m.blk]]
      BY <1>11 DEF Read, m
    <3>2. m.kind = "ask" /\ m.blk <= LastServed => m.blk \in 0 .. LastServed
      BY <1>0, <1>5, <2>1
    <3> QED
      BY <1>2, <1>3, <3>1, <3>2
  <2> QED
    BY <1>2, <1>6, <1>11, <2>1, <2>2, <2>3 DEF Read
<1>12. CASE Header(q) \/ Payload(q)
  <2>1. s2c' \in Ans
    <3>1. cache[handler[q].blk] = "zero" => ZeroServed(handler[q].blk)
      BY <1>1 DEF DownIInv, Store
    <3> HIDE DEF ZeroServed
    <3> QED
      BY <1>1, <1>2, <1>4, <1>12, <3>1 DEF Header, Payload
  <2>2. handler' \in H
    BY <1>3, <1>12 DEF Header, Payload
  <2> QED
    BY <1>2, <1>6, <1>12, <2>1, <2>2 DEF Header, Payload
<1>13. CASE HandlerFails(q)
  BY <1>2, <1>3, <1>6, <1>13 DEF HandlerFails, Fault
<1>14. CASE Break(q)
  <2>1. PICK k \in 0 .. Len(c2s[q]), n \in 0 .. Len(s2c[q]) :
          /\ c2s' = [c2s EXCEPT ![q] = SubSeq(@, 1, k)]
          /\ s2c' = [s2c EXCEPT ![q] = SubSeq(@, 1, n)]
    BY <1>14 DEF Break
  <2>2. c2s' \in Ask2
    BY <2>1, ChannelChange DEF DownIInv, Ask2
  <2>3. s2c' \in Ans
    BY <2>1, ChannelChange DEF DownIInv, Ans
  <2>4. broken' \subseteq Clients /\ faults' \in 0 .. MaxFaults
    BY <1>6, <1>14 DEF Break, Fault
  <2> QED
    BY <1>2, <1>14, <2>2, <2>3, <2>4 DEF Break
<1> QED
  BY <1>10, <1>11, <1>12, <1>13, <1>14 DEF HandlerStep

---------------------------------------------------------------------------
(* The invariant, and what follows from it.                                *)

LEMMA DownStart ==
  ASSUME DownInit
  PROVE  DownIInv
<1>1. src \in Sources /\ setting \in Settings
  BY DEF DownInit
<1>2. LastServed \in Nat /\ clientSkip \in Nat /\ serverSkip \in Nat
  BY <1>1, SourceBounds
<1>3. \A t \in Targets : t.file \in File
  BY DownloadAssumption
<1>4. dst \in [Clients -> File]
  BY <1>3 DEF DownInit
<1>5. job \in [Hashers -> {NoJob} \cup 0 .. LastServed] /\ nextJob \in Nat
  BY <1>2 DEF DownInit
<1>6. Store
  BY <1>2, <1>4, <1>5, DownloadAssumption DEF DownInit, Store
<1>7. client \in [Clients -> ClientState] /\ handler \in [Clients -> HandlerState]
  BY <1>2 DEF DownInit, ClientState, HandlerState, Pcs, Ends
<1>8. c2s \in [Clients -> Seq(Message)] /\ s2c \in [Clients -> Seq(Answers)]
  BY DEF DownInit
<1>9. \A q \in Clients : Frame(q)
  BY DEF DownInit, Frame, FrameOf
<1>10. \A q \in Clients : Placed(q)
  BY DEF DownInit, Placed
<1> QED
  BY <1>6, <1>7, <1>8, <1>9, <1>10 DEF DownIInv, Wires

LEMMA HasherStore ==
  ASSUME DownIInv, NEW p \in Hashers, HasherStep(p) \/ HashFails(p)
  PROVE  Store'
<1>1. /\ LastServed' = LastServed /\ LastServed \in Nat
      /\ src' = src /\ old' = old /\ setting' = setting
      /\ \A b : ZeroServed(b)' = ZeroServed(b)
  BY InputsStay, SourceBounds DEF DownNext, DownIInv, Store
<1>2. /\ cache \in [0 .. LastServed -> {"none", "zero", "other"}] /\ nextJob \in Nat
      /\ job \in [Hashers -> {NoJob} \cup 0 .. LastServed] /\ faults \in 0 .. MaxFaults
      /\ MaxFaults \in Nat
  BY DownloadAssumption DEF DownIInv, Store
<1>3. CASE TakeJob(p)
  <2>1. nextJob \in 0 .. LastServed /\ nextJob' \in Nat /\ job' = [job EXCEPT ![p] = nextJob]
    BY <1>1, <1>2, <1>3 DEF TakeJob
  <2>2. job' \in [Hashers -> {NoJob} \cup 0 .. LastServed]
    BY <1>2, <2>1
  <2> QED
    BY <1>1, <1>3, <2>1, <2>2 DEF TakeJob, DownIInv, Store, netVars
<1>4. CASE SetHash(p) \/ HashFails(p)
  <2>1. job[p] \in 0 .. LastServed
    BY <1>2, <1>4 DEF SetHash, HashFails
  <2>2. PICK v \in {"zero", "other"} :
          /\ cache' = [cache EXCEPT ![job[p]] = v]
          /\ v = "zero" => ZeroServed(job[p])
    BY <1>4 DEF SetHash, HashFails
  <2> HIDE DEF ZeroServed
  <2>3. cache' \in [0 .. LastServed -> {"none", "zero", "other"}]
    <3>1. cache' = [cache EXCEPT ![job[p]] = v]
      BY <2>2
    <3> QED
      BY <1>2, <2>1, <3>1
  <2>4. job' \in [Hashers -> {NoJob} \cup 0 .. LastServed]
    BY <1>2, <1>4 DEF SetHash, HashFails
  <2>5. faults' \in 0 .. MaxFaults
    BY <1>2, <1>4 DEF SetHash, HashFails, Fault
  <2>6. \A b \in 0 .. LastServed : cache'[b] = "zero" => ZeroServed(b)
    <3>1. \A b \in 0 .. LastServed : cache[b] = "zero" => ZeroServed(b)
      BY DEF DownIInv, Store
    <3> QED
      BY <1>2, <2>1, <2>2, <3>1
  <2> QED
    BY <1>1, <1>4, <2>3, <2>4, <2>5, <2>6 DEF SetHash, HashFails, DownIInv, Store, netVars
<1> QED
  BY <1>3, <1>4 DEF HasherStep

LEMMA DownStep ==
  ASSUME DownIInv, [DownNext]_downVars
  PROVE  DownIInv'
<1>1. CASE UNCHANGED downVars
  <2>1. LastServed' = LastServed /\ LastAsked' = LastAsked /\ \A b : ZeroServed(b)' = ZeroServed(b)
    BY <1>1 DEF downVars, inputs, LastServed, LastAsked, ZeroServed, ServedEnd, serverSize
  <2>2. Store'
    BY <1>1, <2>1 DEF downVars, inputs, cacheVars, netVars, DownIInv, Store
  <2>3. Wires'
    BY <1>1, <2>1 DEF downVars, netVars, DownIInv, Wires, ClientState, HandlerState, Message, Answers
  <2>4. \A q \in Clients : Frame(q)' /\ Placed(q)'
    BY <1>1, <2>1 DEF downVars, netVars, DownIInv, Frame, Placed
  <2> QED
    BY <2>2, <2>3, <2>4 DEF DownIInv
<1>2. ASSUME NEW q \in Clients, DownNext, Only(q), Wires', Placed(q)', Frame(q)', Store'
      PROVE  DownIInv'
  <2>1. ASSUME NEW r \in Clients \ {q} PROVE Frame(r)' /\ Placed(r)'
    <3>1. /\ client'[r] = client[r] /\ handler'[r] = handler[r] /\ c2s'[r] = c2s[r]
          /\ s2c'[r] = s2c[r] /\ r \in Clients /\ Frame(r) /\ Placed(r)
      BY <1>2 DEF Only, DownIInv
    <3>2. Frame(r)'
      BY <1>2, <3>1, InputsStay, FrameOther
    <3>3. Placed(r)'
      BY <1>2, <3>1, InputsStay DEF Placed
    <3> QED
      BY <3>2, <3>3
  <2> QED
    BY <1>2, <2>1 DEF DownIInv
<1>3. ASSUME NEW q \in Clients, ClientStep(q) \/ DialFails(q) \/ ReadFails(q) \/ WriteFails(q)
      PROVE  DownIInv'
  <2>1. DownNext
    BY <1>3 DEF DownNext, FaultStep
  <2>2. Only(q) /\ Wires' /\ Placed(q)'
    BY <1>3, WiresClient
  <2>3. /\ dst' \in [Clients -> File] /\ faults' \in 0 .. MaxFaults
        /\ UNCHANGED <<inputs, cacheVars, broken, server>>
    BY <1>3, StoreClient
  <2>4. Store'
    BY <2>1, <2>3, InputsStay DEF DownIInv, Store, inputs, cacheVars
  <2>5. CASE Left(q)'
    <3>1. Frame(q)'
      BY <2>5 DEF Left, Frame, FrameOf
    <3> QED
      BY <1>2, <2>1, <2>2, <2>4, <3>1
  <2>6. CASE ~Left(q)'
    <3>1. ClientStep(q) \/ WriteFails(q)
      BY <1>3, <2>6 DEF DialFails, ReadFails, Stop, Left, DownIInv, Wires, ClientState
    <3>2. Frame(q)'
      BY <2>6, <3>1, FrameClient DEF DownIInv
    <3> QED
      BY <1>2, <2>1, <2>2, <2>4, <3>2
  <2> QED
    BY <2>5, <2>6
<1>4. ASSUME NEW q \in Clients, HandlerStep(q) \/ HandlerFails(q) \/ Break(q)
      PROVE  DownIInv'
  <2>1. DownNext
    BY <1>4 DEF DownNext, FaultStep
  <2>2. /\ Only(q) /\ Wires' /\ UNCHANGED <<inputs, dst, cacheVars, server, client>>
        /\ broken' \subseteq Clients /\ faults' \in 0 .. MaxFaults
    BY <1>4, WiresHandler
  <2>3. Store'
    BY <2>1, <2>2, InputsStay DEF DownIInv, Store, inputs, cacheVars
  <2>4. Placed(q)'
    BY <2>1, <2>2, InputsStay DEF DownIInv, Placed
  <2>5. Frame(q)'
    <3>1. CASE Left(q)
      BY <2>2, <3>1 DEF Left, Frame, FrameOf
    <3>2. CASE ~Left(q)
      BY <1>4, <3>2, FrameHandler, FrameBreak DEF DownIInv
    <3> QED
      BY <3>1, <3>2
  <2> QED
    BY <1>2, <2>1, <2>2, <2>3, <2>4, <2>5
<1>5. ASSUME UNCHANGED <<client, handler, netVars>>, DownNext, Store'
      PROVE  DownIInv'
  <2>1. Wires'
    BY <1>5, Sets DEF DownIInv, Wires, netVars
  <2>2. \A q \in Clients : Frame(q)' /\ Placed(q)'
    BY <1>5, InputsStay DEF DownIInv, Frame, FrameOf, Msg, Placed, netVars
  <2> QED
    BY <1>5, <2>1, <2>2 DEF DownIInv
<1>6. ASSUME NEW p \in Hashers, HasherStep(p) \/ HashFails(p)
      PROVE  DownIInv'
  <2>1. Store'
    BY <1>6, HasherStore
  <2>2. DownNext /\ UNCHANGED <<client, handler, netVars>>
    BY <1>6 DEF DownNext, HasherStep, TakeJob, SetHash, HashFails
  <2> QED
    BY <1>5, <2>1, <2>2
<1>7. CASE AcceptFails
  <2>1. DownNext /\ UNCHANGED <<client, handler, netVars>>
    BY <1>7 DEF DownNext, AcceptFails
  <2>2. faults' \in 0 .. MaxFaults /\ server' \in {"serving", "ended"}
    BY <1>7, DownloadAssumption DEF AcceptFails, Fault, DownIInv, Store
  <2>3. Store'
    BY <1>7, <2>1, <2>2, InputsStay DEF AcceptFails, DownIInv, Store, inputs, cacheVars, netVars
  <2> QED
    BY <1>5, <2>1, <2>3
<1> QED
  BY <1>1, <1>3, <1>4, <1>6, <1>7 DEF DownNext, FaultStep

\* Types: the payload of a larger server block still lies within the file the client writes.
THEOREM DownTypeCorrect == DownSpec => []DownTypeOK
<1>1. DownIInv => DownTypeOK
  <2> SUFFICES ASSUME DownIInv PROVE DownTypeOK
    OBVIOUS
  <2>1. LastServed \in Nat
    BY SourceBounds DEF DownIInv, Store
  <2>2. /\ Message \subseteq [kind : {"size", "ask"}, blk : Nat]
        /\ Answers \subseteq [kind : {"size", "zero", "data", "payload", "done"}, blk : Nat]
    BY <2>1 DEF Message, Answers
  <2>3. /\ Seq(Message) \subseteq Seq([kind : {"size", "ask"}, blk : Nat])
        /\ Seq(Answers) \subseteq Seq([kind : {"size", "zero", "data", "payload", "done"}, blk : Nat])
    <3>1. \A S, T : S \subseteq T => Seq(S) \subseteq Seq(T)
      OBVIOUS
    <3> QED
      BY <2>2, <3>1
  <2>4. /\ c2s \in [Clients -> Seq([kind : {"size", "ask"}, blk : Nat])]
        /\ s2c \in [Clients -> Seq([kind : {"size", "zero", "data", "payload", "done"}, blk : Nat])]
    BY <2>3 DEF DownIInv, Wires
  <2> QED
    BY <2>4 DEF DownIInv, Store, Wires, DownTypeOK, ClientState, HandlerState, Pcs, Ends
<1> QED
  BY <1>1, DownStart, DownStep, PTL DEF DownSpec

\* serverHandleUpload and startClientDownload stay in step with no index on the wire: after any
\* faults, what a client reads next answers the question it asked last.
THEOREM DownAnswersFit == DownSpec => []AnswersFit
<1>1. DownIInv => AnswersFit
  <2> SUFFICES ASSUME DownIInv, NEW q \in Clients, s2c[q] # <<>>, ~Left(q)
               PROVE  LET m == Head(s2c[q])
                          rest == Tail(s2c[q])
                      IN \/ At(q, "size") /\ m = Msg("size", 0) /\ rest = <<>>
                         \/ /\ At(q, "header") /\ m.kind \in {"zero", "data", "done"}
                            /\ m.blk = client[q].idx
                            /\ rest = <<>> \/ (m.kind = "data" /\ rest = <<Msg("payload", m.blk)>>)
                         \/ At(q, "payload") /\ m = Msg("payload", client[q].idx) /\ rest = <<>>
    BY DEF AnswersFit
  <2> DEFINE i == client[q].idx
  <2>1. \/ client[q].pc = "size" /\ s2c[q] = <<Msg("size", 0)>>
        \/ /\ client[q].pc = "header"
           /\ s2c[q] \in {<<Msg("zero", i)>>, <<Msg("done", i)>>, <<Msg("data", i)>>,
                          <<Msg("data", i), Msg("payload", i)>>}
        \/ client[q].pc = "payload" /\ s2c[q] = <<Msg("payload", i)>>
    BY DEF DownIInv, Frame, FrameOf, Left
  <2>2. \A a, b : /\ Head(<<a>>) = a /\ Tail(<<a>>) = <<>>
                  /\ Head(<<a, b>>) = a /\ Tail(<<a, b>>) = <<b>>
    BY Short
  <2>3. \A k, b : Msg(k, b).kind = k /\ Msg(k, b).blk = b
    BY DEF Msg
  <2>4. ASSUME NEW k \in {"size", "zero", "done", "data", "payload"}, s2c[q] = <<Msg(k, i)>>
        PROVE  Head(s2c[q]) = Msg(k, i) /\ Tail(s2c[q]) = <<>>
    BY <2>2, <2>4
  <2>5. ASSUME s2c[q] = <<Msg("data", i), Msg("payload", i)>>
        PROVE  Head(s2c[q]) = Msg("data", i) /\ Tail(s2c[q]) = <<Msg("payload", i)>>
    BY <2>2, <2>5
  <2>6. ASSUME s2c[q] = <<Msg("size", 0)>>
        PROVE  Head(s2c[q]) = Msg("size", 0) /\ Tail(s2c[q]) = <<>>
    BY <2>2, <2>6
  <2>7. CASE client[q].pc = "size"
    BY <2>1, <2>6, <2>7 DEF At
  <2>8. CASE client[q].pc = "payload"
    BY <2>1, <2>4, <2>8 DEF At
  <2>9. CASE client[q].pc = "header"
    <3>1. CASE s2c[q] = <<Msg("data", i), Msg("payload", i)>>
      BY <2>3, <2>5, <2>9, <3>1 DEF At
    <3>2. CASE \E k \in {"zero", "done", "data"} : s2c[q] = <<Msg(k, i)>>
      BY <2>3, <2>4, <2>9, <3>2 DEF At
    <3> QED
      BY <2>1, <2>9, <3>1, <3>2
  <2> QED
    BY <2>1, <2>7, <2>8, <2>9
<1> QED
  BY <1>1, DownStart, DownStep, PTL DEF DownSpec

---------------------------------------------------------------------------
(* What a download has written.                                            *)

\* Resumable of client q and block b.
Kept(q, b) ==
  /\ clientSkip <= b /\ b < client[q].idx => InSync(q, b) \/ ZeroServed(b)
  /\ b < clientSkip \/ b > client[q].idx =>
       \A k \in Span(b) : \/ dst[q].data[k] = old[q].file.data[k]
                          \/ ~old[q].device /\ k >= src.size /\ dst[q].data[k] = 0

Begun(q) == client[q].pc \in {"loop", "header", "payload", "break"}

Progress(q) ==
  /\ client[q].idx >= clientSkip
  /\ client[q].pc # "over" => client[q].end = "none"
  /\ client[q].pc \in {"dial", "size"} => client[q].idx = clientSkip /\ dst[q] = old[q].file
  /\ Agreed /\ ~(client[q].pc \in {"dial", "size"}) => \A b \in Block : Kept(q, b)
  /\ Agreed /\ ~old[q].device =>
       \/ dst[q].size = src.size
       \/ dst[q] = old[q].file /\ (client[q].pc \in {"dial", "size"} \/ client[q].end = "failed")

ProgressInv == DownIInv /\ \A q \in Clients : Progress(q)

\* With the same block size, a payload is written over its own block, as far as the source goes.
LEMMA PasteAgreed ==
  ASSUME src \in Sources, setting \in Settings, Agreed,
         NEW i \in Nat, i <= LastAsked, i <= LastServed,
         NEW f \in File, NEW n \in Nat, n <= PasteEnd(i, i)
  PROVE  /\ \A k \in Pos : k \notin Span(i) => Paste(f, i, i, n).data[k] = f.data[k]
         /\ n = PasteEnd(i, i) =>
              \A k \in Span(i) : k < src.size => Paste(f, i, i, n).data[k] = src.data[k]
         /\ f.size = src.size => Paste(f, i, i, n).size = src.size
         /\ \A k \in Span(i) : f.data[k] = src.data[k] => Paste(f, i, i, n).data[k] = src.data[k]
         /\ \A k \in Pos : Paste(f, i, i, n).data[k] \in {f.data[k], src.data[k]}
         /\ PasteEnd(i, i) <= src.size /\ ServedEnd(i) - i * serverSize <= BlockSize
<1>1. serverSize = BlockSize /\ Start(i) = i * serverSize /\ Start(i + 1) = (i + 1) * serverSize
  BY DEF Agreed, Start
<1>2. /\ Start(i) \in Nat /\ Start(i + 1) \in Nat /\ src.size \in Nat /\ ServedEnd(i) \in Nat
      /\ Start(i) < ServedEnd(i) /\ ServedEnd(i) <= src.size
  BY <1>1, PasteBounds, SourceBounds, StartMono, Sizes
<1>3. /\ ServedEnd(i) <= Start(i + 1)
      /\ \A k \in Nat : k < Start(i + 1) /\ k < src.size => k < ServedEnd(i)
  BY <1>1, <1>2 DEF ServedEnd
<1> HIDE DEF ServedEnd
<1>4. PasteEnd(i, i) = ServedEnd(i)
  <2>1. PasteEnd(i, i) = Start(i) + ServedEnd(i) - Start(i)
    BY <1>1 DEF PasteEnd
  <2> QED
    BY <1>2, <2>1
<1> DEFINE S == {j \in Start(i) .. PasteEnd(i, i) - 1 : j < n}
           d == [k \in S |-> src.data[i * serverSize + k - Start(i)]]
<1>5. \A k \in S : d[k] = src.data[k]
  <2>1. \A k \in S : i * serverSize + k - Start(i) = k
    BY <1>1, <1>2, <1>4
  <2> QED
    BY <2>1
<1>6. \A k \in S : k \in Span(i)
  BY <1>2, <1>3, <1>4 DEF Span
<1>7. n = PasteEnd(i, i) => \A k \in Span(i) : k < src.size => k \in S
  BY <1>2, <1>3, <1>4 DEF Span
<1>8. \A k \in Span(i) : k < src.size => k \in Pos
  BY <1>2, SourceBounds, Sizes DEF Span, Pos
<1>9. DOMAIN d = S
  OBVIOUS
<1>10. (IF n > Start(i) THEN n ELSE 0) <= src.size
  BY <1>2, <1>4
<1> HIDE DEF S, d
<1>11. Paste(f, i, i, n) = [size |-> IF (IF n > Start(i) THEN n ELSE 0) > f.size
                                     THEN IF n > Start(i) THEN n ELSE 0 ELSE f.size,
                           data |-> [k \in Pos |-> IF k \in S THEN d[k] ELSE f.data[k]]]
  BY <1>9 DEF Paste, WriteBlock, S, d
<1>12. /\ \A k \in Pos : Paste(f, i, i, n).data[k] = IF k \in S THEN d[k] ELSE f.data[k]
       /\ f.size = src.size => Paste(f, i, i, n).size = src.size
  BY <1>2, <1>10, <1>11
<1>13. \A k \in Pos : Paste(f, i, i, n).data[k] \in {f.data[k], src.data[k]}
  BY <1>5, <1>12
<1>14. ServedEnd(i) - i * serverSize <= BlockSize
  <2>1. Start(i + 1) = Start(i) + BlockSize
    BY Sizes DEF Start
  <2> QED
    BY <1>1, <1>2, <1>3, <2>1, Sizes
<1>15. \A k \in Span(i) : k \in Pos
  <2>1. LastAsked \in Block /\ i \in Block
    BY SourceBounds, Sizes DEF Block
  <2> QED
    BY <2>1, StartBounds
<1> QED
  BY <1>2, <1>4, <1>5, <1>6, <1>7, <1>8, <1>12, <1>13, <1>14, <1>15

LEMMA ProgressSame ==
  ASSUME NEW q \in Clients, Progress(q), UNCHANGED inputs, client'[q] = client[q], dst'[q] = dst[q]
  PROVE  Progress(q)'
<1>1. \A b : Kept(q, b)' = Kept(q, b)
  BY DEF Kept, InSync, ZeroServed, ServedEnd, serverSize, clientSkip, inputs
<1>2. Agreed' = Agreed /\ clientSkip' = clientSkip
  BY DEF Agreed, serverSize, serverSkip, clientSkip, inputs
<1> QED
  BY <1>1, <1>2 DEF Progress, Begun, inputs

\* Steps of a client that write nothing and keep the block it is at.
LEMMA ProgressStays ==
  ASSUME NEW q \in Clients, DownIInv, Progress(q), UNCHANGED inputs, dst'[q] = dst[q],
         client'[q].idx = client[q].idx,
         client'[q].pc \in {"dial", "size"} => client[q].pc \in {"dial", "size"},
         client'[q].pc # "over" => client'[q].end = "none",
         Begun(q) \/ client'[q].pc \in {"dial", "size"} \/ client'[q].end = "failed"
  PROVE  Progress(q)'
<1>1. \A b : Kept(q, b)' = Kept(q, b)
  BY DEF Kept, InSync, ZeroServed, ServedEnd, serverSize, clientSkip, inputs
<1>2. Agreed' = Agreed /\ clientSkip' = clientSkip
  BY DEF Agreed, serverSize, serverSkip, clientSkip, inputs
<1>3. ASSUME client[q].pc \in {"dial", "size"}, NEW b \in Block PROVE Kept(q, b)
  <2>1. b \in Nat /\ clientSkip \in Nat
    BY Sizes, SourceBounds DEF DownIInv, Store
  <2>2. client[q].idx = clientSkip /\ dst[q] = old[q].file
    BY <1>3 DEF Progress
  <2> QED
    BY <2>1, <2>2 DEF Kept
<1>5. Agreed => \A b \in Block : Kept(q, b)
  BY <1>3 DEF Progress
<1>6. Agreed /\ ~old[q].device =>
        \/ dst[q].size = src.size
        \/ dst[q] = old[q].file /\ (client'[q].pc \in {"dial", "size"} \/ client'[q].end = "failed")
  BY DEF Progress, Begun
<1> QED
  BY <1>1, <1>2, <1>5, <1>6 DEF Progress, inputs

\* The block a client is at is the source's, or zeros, and the client goes on.
LEMMA ProgressNext ==
  ASSUME NEW q \in Clients, DownIInv, Progress(q), Begun(q), UNCHANGED inputs,
         client'[q].idx = client[q].idx + 1, client'[q].pc = "loop", client'[q].end = client[q].end,
         Agreed => /\ old[q].device \/ dst'[q].size = src.size
                   /\ \A b \in Block \ {client[q].idx} : \A k \in Span(b) : dst'[q].data[k] = dst[q].data[k]
                   /\ \A b \in Block : b = client[q].idx => InSync(q, b)' \/ ZeroServed(b)
  PROVE  Progress(q)'
<1> DEFINE i == client[q].idx
<1>1. Agreed' = Agreed /\ clientSkip' = clientSkip /\ src' = src /\ old' = old
      /\ \A b : ZeroServed(b)' = ZeroServed(b)
  BY DEF Agreed, serverSize, serverSkip, clientSkip, inputs, ZeroServed, ServedEnd
<1>2. i \in Nat /\ clientSkip \in Nat /\ i >= clientSkip
  BY SourceBounds DEF DownIInv, Store, Wires, ClientState, Progress
<1>3. ASSUME Agreed, NEW b \in Block PROVE Kept(q, b)'
  <2>1. b \in Nat /\ Kept(q, b)
    BY <1>3, Sizes DEF Progress, Begun
  <2>2. CASE b = i
    <3>1. InSync(q, b)' \/ ZeroServed(b)
      BY <1>3, <2>2
    <3>2. ~(b < clientSkip \/ b > i + 1)
      BY <1>2, <2>2
    <3> QED
      BY <1>1, <3>1, <3>2 DEF Kept
  <2>3. CASE b # i
    <3>1. \A k \in Span(b) : dst'[q].data[k] = dst[q].data[k]
      BY <1>3, <2>3
    <3>2. InSync(q, b) => InSync(q, b)'
      BY <1>1, <3>1 DEF InSync
    <3>3. b < i + 1 => b < i
      BY <1>2, <2>1, <2>3
    <3>4. b > i + 1 => b > i
      BY <1>2, <2>1
    <3>5. b < clientSkip \/ b > i + 1 =>
            \A k \in Span(b) : \/ dst'[q].data[k] = old[q].file.data[k]
                               \/ ~old[q].device /\ k >= src.size /\ dst'[q].data[k] = 0
      BY <2>1, <3>1, <3>4 DEF Kept
    <3>6. clientSkip <= b /\ b < i + 1 => InSync(q, b)' \/ ZeroServed(b)
      BY <2>1, <3>2, <3>3 DEF Kept
    <3> QED
      BY <1>1, <3>5, <3>6 DEF Kept
  <2> QED
    BY <2>2, <2>3
<1>4. client[q].end = "none"
  BY DEF Progress, Begun
<1>5. Agreed /\ ~old[q].device => dst'[q].size = src.size
  OBVIOUS
<1>6. client'[q].idx >= clientSkip
  BY <1>2
<1> QED
  BY <1>1, <1>3, <1>4, <1>5, <1>6 DEF Progress

\* A write that fails touches the block the client is at, and no other.
LEMMA ProgressBreaks ==
  ASSUME NEW q \in Clients, DownIInv, Progress(q), Begun(q), UNCHANGED inputs,
         client'[q].idx = client[q].idx, client'[q].pc = "break", client'[q].end = client[q].end,
         Agreed => /\ old[q].device \/ dst'[q].size = src.size
                   /\ \A b \in Block \ {client[q].idx} : \A k \in Span(b) : dst'[q].data[k] = dst[q].data[k]
  PROVE  Progress(q)'
<1> DEFINE i == client[q].idx
<1>1. Agreed' = Agreed /\ clientSkip' = clientSkip /\ src' = src /\ old' = old
      /\ \A b : ZeroServed(b)' = ZeroServed(b)
  BY DEF Agreed, serverSize, serverSkip, clientSkip, inputs, ZeroServed, ServedEnd
<1>2. i \in Nat /\ clientSkip \in Nat /\ i >= clientSkip
  BY SourceBounds DEF DownIInv, Store, Wires, ClientState, Progress
<1>3. ASSUME Agreed, NEW b \in Block PROVE Kept(q, b)'
  <2>1. b \in Nat /\ Kept(q, b)
    BY <1>3, Sizes DEF Progress, Begun
  <2>2. CASE b = i
    <3>1. ~(b < clientSkip \/ b > i) /\ ~(b < i)
      BY <1>2, <2>2
    <3> QED
      BY <1>1, <3>1 DEF Kept
  <2>3. CASE b # i
    <3>1. \A k \in Span(b) : dst'[q].data[k] = dst[q].data[k]
      BY <1>3, <2>3
    <3>2. InSync(q, b) => InSync(q, b)'
      BY <1>1, <3>1 DEF InSync
    <3> QED
      BY <1>1, <2>1, <3>1, <3>2 DEF Kept
  <2> QED
    BY <2>2, <2>3
<1>4. client[q].end = "none"
  BY DEF Progress, Begun
<1> QED
  BY <1>1, <1>2, <1>3, <1>4 DEF Progress

\* A payload that arrives: what it does to the client, and to its file.
LEMMA Pasted ==
  ASSUME DownIInv, NEW q \in Clients, Progress(q), ReadPayload(q) \/ WriteFails(q)
  PROVE  /\ client[q].idx \in Block
         /\ client'[q].pc = "loop" => client'[q].idx = client[q].idx + 1
         /\ client'[q].pc = "break" => client'[q].idx = client[q].idx
         /\ client'[q].pc \in {"loop", "break"} /\ client'[q].end = client[q].end
         /\ Agreed =>
              /\ old[q].device \/ dst'[q].size = src.size
              /\ \A b \in Block \ {client[q].idx} : \A k \in Span(b) : dst'[q].data[k] = dst[q].data[k]
              /\ client'[q].pc = "loop" => \A b \in Block : b = client[q].idx => InSync(q, b)'
              /\ \A b \in Block : b = client[q].idx /\ InSync(q, b) => InSync(q, b)'
              /\ \A k \in Pos : dst'[q].data[k] \in {dst[q].data[k], src.data[k]}
<1> USE DEF At, Goto
<1> DEFINE i == client[q].idx
<1>0. client \in [Clients -> ClientState] /\ dst \in [Clients -> File] /\ client[q] \in ClientState
  BY DEF DownIInv, Wires, Store
<1>1. client[q].pc = "payload" /\ s2c[q] # <<>> /\ Begun(q)
  BY DEF ReadPayload, WriteFails, Begun
<1>2. s2c[q] = <<Msg("payload", i)>>
  BY <1>1, Found DEF DownIInv, Frame
<1>3. Head(s2c[q]).blk = i /\ i \in Nat /\ i <= LastAsked /\ i <= LastServed
  BY <1>0, <1>1, <1>2, Short DEF DownIInv, Placed, Msg, ClientState
<1>4. src \in Sources /\ setting \in Settings /\ dst[q] \in File
  BY <1>0 DEF DownIInv, Store
<1>5. PasteEnd(i, i) \in Nat /\ dst[q].size \in Nat /\ Start(i) \in Nat
  <2>1. dst[q].size \in 0 .. BlockCount * BlockSize
    BY <1>4, FileElim
  <2> QED
    BY <1>3, <1>4, <2>1, PasteBounds, Sizes
<1>6. i \in Block
  <2>1. LastAsked \in Block
    BY <1>4, SourceBounds
  <2> QED
    BY <1>3, <2>1, Sizes DEF Block
<1>7. ASSUME Agreed, NEW n \in Nat, n <= PasteEnd(i, i), dst'[q] = Paste(dst[q], i, i, n)
      PROVE  /\ old[q].device \/ dst'[q].size = src.size
             /\ \A b \in Block \ {i} : \A k \in Span(b) : dst'[q].data[k] = dst[q].data[k]
             /\ n = PasteEnd(i, i) =>
                  \A b \in Block : b = i => \A k \in Span(b) : k < src.size => dst'[q].data[k] = src.data[k]
             /\ \A k \in Span(i) : dst[q].data[k] = src.data[k] => dst'[q].data[k] = src.data[k]
             /\ \A k \in Pos : dst'[q].data[k] \in {dst[q].data[k], src.data[k]}
  <2>1. old[q].device \/ dst[q].size = src.size
    BY <1>1, <1>7 DEF Progress
  <2>2. \A b \in Block \ {i} : \A k \in Span(b) : k \notin Span(i) /\ k \in Pos
    BY <1>6, SpansApart
  <2>3. /\ \A k \in Pos : k \notin Span(i) => dst'[q].data[k] = dst[q].data[k]
        /\ n = PasteEnd(i, i) => \A k \in Span(i) : k < src.size => dst'[q].data[k] = src.data[k]
        /\ dst[q].size = src.size => dst'[q].size = src.size
        /\ \A k \in Span(i) : dst[q].data[k] = src.data[k] => dst'[q].data[k] = src.data[k]
        /\ \A k \in Pos : dst'[q].data[k] \in {dst[q].data[k], src.data[k]}
    BY <1>3, <1>4, <1>7, PasteAgreed
  <2> QED
    BY <2>1, <2>2, <2>3
<1>8. /\ client'[q].pc = "loop" => client'[q].idx = i + 1
      /\ client'[q].pc = "break" => client'[q].idx = i
      /\ client'[q].pc \in {"loop", "break"} /\ client'[q].end = client[q].end
  BY <1>0 DEF ReadPayload, WriteFails, ClientState
<1>9. \E n \in Nat : /\ dst'[q] = Paste(dst[q], i, i, n) /\ n <= PasteEnd(i, i)
                     /\ client'[q].pc = "loop" => n = PasteEnd(i, i)
  <2> HIDE DEF i
  <2>1. CASE ReadPayload(q)
    <3>1. \/ dst'[q] = Paste(dst[q], i, i, PasteEnd(i, i))
          \/ /\ PasteEnd(i, i) > dst[q].size /\ dst'[q] = Paste(dst[q], i, i, dst[q].size)
             /\ client'[q].pc = "break"
      BY <1>0, <1>3, <2>1 DEF ReadPayload, ClientState, i
    <3> QED
      BY <1>5, <3>1
  <2>2. CASE WriteFails(q)
    <3>1. PICK n \in Start(i) .. PasteEnd(i, i) : dst'[q] = Paste(dst[q], i, i, n)
      BY <1>0, <1>3, <2>2 DEF WriteFails, i
    <3>2. client'[q].pc = "break"
      BY <1>0, <2>2 DEF WriteFails, ClientState
    <3> QED
      BY <1>5, <3>1, <3>2
  <2> QED
    BY <2>1, <2>2
<1>10. Agreed =>
         /\ old[q].device \/ dst'[q].size = src.size
         /\ \A b \in Block \ {i} : \A k \in Span(b) : dst'[q].data[k] = dst[q].data[k]
         /\ client'[q].pc = "loop" =>
              \A b \in Block : b = i => \A k \in Span(b) : k < src.size => dst'[q].data[k] = src.data[k]
         /\ \A b \in Block : b = i =>
              \A k \in Span(b) : dst[q].data[k] = src.data[k] => dst'[q].data[k] = src.data[k]
         /\ \A k \in Pos : dst'[q].data[k] \in {dst[q].data[k], src.data[k]}
  <2> HIDE DEF i
  <2> QED
    BY <1>7, <1>9
<1>11. src' = src
  BY InputsStay DEF DownNext, ClientStep, FaultStep
<1>12. Agreed =>
         /\ client'[q].pc = "loop" => \A b \in Block : b = i => InSync(q, b)'
         /\ \A b \in Block : b = i /\ InSync(q, b) => InSync(q, b)'
  BY <1>10, <1>11 DEF InSync
<1> QED
  BY <1>6, <1>8, <1>10, <1>12

LEMMA ProgressClient ==
  ASSUME DownIInv, NEW q \in Clients, Progress(q),
         ClientStep(q) \/ DialFails(q) \/ ReadFails(q) \/ WriteFails(q)
  PROVE  Progress(q)'
<1> USE DEF At, Goto, Stop
<1> DEFINE i == client[q].idx
<1>0. UNCHANGED inputs
  BY InputsStay DEF DownNext, FaultStep, inputs
<1>1. client \in [Clients -> ClientState] /\ dst \in [Clients -> File] /\ client[q] \in ClientState
  BY DEF DownIInv, Wires, Store
<1>2. client[q].pc # "over" => client[q].end = "none"
  BY DEF Progress
<1>3. CASE Dial(q) \/ Refused(q) \/ DialFails(q) \/ ReadFails(q) \/ ReadEnds(q) \/ Ask(q)
  <2>1. /\ dst'[q] = dst[q] /\ client'[q].idx = i
        /\ client'[q].pc \in {"dial", "size"} => client[q].pc \in {"dial", "size"}
        /\ client'[q].pc # "over" => client'[q].end = "none"
        /\ Begun(q) \/ client'[q].pc \in {"dial", "size"} \/ client'[q].end = "failed"
    BY <1>1, <1>2, <1>3 DEF Dial, Refused, DialFails, ReadFails, ReadEnds, Waits, Ask, Begun, ClientState
  <2> QED
    BY <1>0, <2>1, ProgressStays
<1>4. CASE Complete(q)
  <2>1. /\ dst'[q] = dst[q] /\ client'[q].idx = i /\ client'[q].pc = "over" /\ Begun(q)
    BY <1>1, <1>4 DEF Complete, Begun, ClientState
  <2> QED
    BY <1>0, <2>1, ProgressStays
<1>5. CASE ReadHeader(q)
  <2> DEFINE m == Head(s2c[q])
  <2>1. /\ client[q].pc = "header" /\ s2c[q] # <<>> /\ dst'[q] = dst[q] /\ Begun(q)
    BY <1>5 DEF ReadHeader, Begun
  <2>2. CASE m.kind = "zero" /\ client' = [client EXCEPT ![q].pc = "loop", ![q].idx = @ + 1]
    <3>1. /\ client'[q].idx = i + 1 /\ client'[q].pc = "loop" /\ client'[q].end = client[q].end
      BY <1>1, <2>2 DEF ClientState
    <3>2. m \in Answers
      BY <2>1, ChannelChange DEF DownIInv
    <3>3. m.blk = i
      <4>1. \A a, b : Head(<<a>>) = a /\ Head(<<a, b>>) = a
        BY Short
      <4>2. s2c[q] \in {<<Msg("zero", i)>>, <<Msg("done", i)>>, <<Msg("data", i)>>,
                        <<Msg("data", i), Msg("payload", i)>>}
        BY <2>1, Found DEF DownIInv, Frame
      <4> QED
        BY <4>1, <4>2 DEF Msg
    <3> HIDE DEF m
    <3>4. ZeroServed(i)
      <4> HIDE DEF ZeroServed
      <4> QED
        BY <2>2, <3>2, <3>3 DEF Answers
    <3>5. Agreed => old[q].device \/ dst[q].size = src.size
      BY <1>2, <2>1 DEF Progress
    <3> QED
      BY <1>0, <2>1, <3>1, <3>4, <3>5, ProgressNext
  <2>3. CASE ~(m.kind = "zero" /\ client' = [client EXCEPT ![q].pc = "loop", ![q].idx = @ + 1])
    <3>1. Stop(q, "complete") \/ Goto(q, "payload") \/ Stop(q, "panic")
      BY <1>5, <2>3 DEF ReadHeader
    <3>2. /\ client'[q].idx = i /\ client'[q].pc \in {"over", "payload"}
          /\ client'[q].pc # "over" => client'[q].end = client[q].end
      BY <1>1, <3>1 DEF ClientState
    <3> QED
      BY <1>0, <1>2, <2>1, <3>2, ProgressStays
  <2> QED
    BY <2>2, <2>3
<1>6. CASE ReadSize(q)
  <2>1. /\ client[q].pc = "size" /\ client'[q].pc = "loop" /\ client'[q].idx = i
        /\ client'[q].end = client[q].end
        /\ dst'[q] = IF old[q].device THEN dst[q] ELSE Resize(dst[q], src.size)
    BY <1>1, <1>6 DEF ReadSize, ClientState
  <2>2. i = clientSkip /\ dst[q] = old[q].file
    BY <2>1 DEF Progress
  <2>3. \A b \in Block : \A k \in Span(b) :
          \/ dst'[q].data[k] = old[q].file.data[k]
          \/ ~old[q].device /\ k >= src.size /\ dst'[q].data[k] = 0
    <3>1. \A b \in Block : \A k \in Span(b) : k \in Pos
      BY StartBounds
    <3>2. \A k \in Pos : k \in Nat
      BY Sizes
    <3>3. src.size \in Nat
      BY SourceBounds DEF DownIInv, Store
    <3> QED
      BY <2>1, <2>2, <3>1, <3>2, <3>3 DEF Resize
  <2>4. ~old[q].device => dst'[q].size = src.size
    BY <2>1 DEF Resize
  <2>5. src' = src /\ old' = old /\ clientSkip' = clientSkip
    BY <1>0 DEF inputs, clientSkip
  <2>6. \A b \in Block : Kept(q, b)'
    <3>1. \A b \in Block : ~(clientSkip <= b /\ b < clientSkip)
      BY Sizes, SourceBounds DEF DownIInv, Store
    <3> QED
      BY <2>1, <2>2, <2>3, <2>5, <3>1 DEF Kept
  <2>7. client'[q].idx >= clientSkip
    BY <2>1, <2>2, SourceBounds DEF DownIInv, Store
  <2> QED
    BY <1>2, <2>1, <2>4, <2>5, <2>6, <2>7 DEF Progress
<1>7. CASE ReadPayload(q) \/ WriteFails(q)
  <2>1. Begun(q)
    BY <1>7 DEF ReadPayload, WriteFails, Begun
  <2>2. /\ client'[q].pc = "loop" => client'[q].idx = i + 1
        /\ client'[q].pc = "break" => client'[q].idx = i
        /\ client'[q].pc \in {"loop", "break"} /\ client'[q].end = client[q].end
    BY <1>7, Pasted
  <2>3. Agreed =>
          /\ old[q].device \/ dst'[q].size = src.size
          /\ \A b \in Block \ {i} : \A k \in Span(b) : dst'[q].data[k] = dst[q].data[k]
          /\ client'[q].pc = "loop" => \A b \in Block : b = i => InSync(q, b)'
    BY <1>7, Pasted
  <2>4. CASE client'[q].pc = "loop"
    BY <1>0, <2>1, <2>2, <2>3, <2>4, ProgressNext
  <2>5. CASE client'[q].pc = "break"
    BY <1>0, <2>1, <2>2, <2>3, <2>5, ProgressBreaks
  <2> QED
    BY <2>2, <2>4, <2>5
<1> QED
  BY <1>3, <1>4, <1>5, <1>6, <1>7 DEF ClientStep

LEMMA ProgressStart ==
  ASSUME DownInit
  PROVE  ProgressInv
<1>1. DownIInv
  BY DownStart
<1>2. clientSkip \in Nat
  BY <1>1, SourceBounds DEF DownIInv, Store
<1>3. \A q \in Clients : Progress(q)
  BY <1>2 DEF DownInit, Progress, Begun
<1> QED
  BY <1>1, <1>3 DEF ProgressInv

LEMMA ProgressStep ==
  ASSUME ProgressInv, [DownNext]_downVars
  PROVE  ProgressInv'
<1>1. DownIInv /\ \A q \in Clients : Progress(q)
  BY DEF ProgressInv
<1>2. DownIInv'
  BY <1>1, DownStep
<1>3. UNCHANGED inputs
  BY InputsStay DEF downVars, inputs
<1>4. CASE UNCHANGED <<client, dst>>
  BY <1>1, <1>2, <1>3, <1>4, ProgressSame DEF ProgressInv
<1>5. ASSUME NEW q \in Clients, ClientStep(q) \/ DialFails(q) \/ ReadFails(q) \/ WriteFails(q)
      PROVE  ProgressInv'
  <2>1. Progress(q)'
    BY <1>1, <1>5, ProgressClient
  <2>2. \A r \in Clients \ {q} : client'[r] = client[r] /\ dst'[r] = dst[r]
    BY <1>1, <1>5, WiresClient, StoreClient DEF Only
  <2>3. \A r \in Clients \ {q} : Progress(r)'
    BY <1>1, <1>3, <2>2, ProgressSame
  <2> QED
    BY <1>2, <2>1, <2>3 DEF ProgressInv
<1>6. ASSUME NEW q \in Clients, HandlerStep(q) \/ HandlerFails(q) \/ Break(q)
      PROVE  ProgressInv'
  <2>1. UNCHANGED <<client, dst>>
    BY <1>1, <1>6, WiresHandler
  <2> QED
    BY <1>4, <2>1
<1>7. ASSUME NEW p \in Hashers, HasherStep(p) \/ HashFails(p)
      PROVE  ProgressInv'
  BY <1>4, <1>7 DEF HasherStep, TakeJob, SetHash, HashFails
<1>8. CASE AcceptFails
  BY <1>4, <1>8 DEF AcceptFails
<1>9. CASE UNCHANGED downVars
  BY <1>4, <1>9 DEF downVars
<1> QED
  BY <1>5, <1>6, <1>7, <1>8, <1>9 DEF DownNext, FaultStep

\* startClientDownload, whatever fails: with the same -b on both sides, every block up to the one
\* it had come to is the source's or of zeros, and the blocks behind it are as they were, so that
\* a second run with -s goes on from there.
THEOREM DownResumable == DownSpec => []Resumable
<1>1. ProgressInv => Resumable
  <2> SUFFICES ASSUME ProgressInv, Agreed, NEW q \in Clients, ~(At(q, "dial") \/ At(q, "size")),
                      NEW b \in Block
               PROVE  /\ clientSkip <= b /\ b < client[q].idx => InSync(q, b) \/ ZeroServed(b)
                      /\ b < clientSkip \/ b > client[q].idx =>
                           \A i \in Span(b) : \/ dst[q].data[i] = old[q].file.data[i]
                                              \/ (~old[q].device /\ i >= src.size /\ dst[q].data[i] = 0)
    BY DEF Resumable
  <2>1. Kept(q, b)
    BY DEF ProgressInv, Progress, At
  <2> QED
    BY <2>1 DEF Kept
<1> QED
  BY <1>1, ProgressStart, ProgressStep, PTL DEF DownSpec

\* truncateIfRegularFile comes before the blocks, and no block is written past the source's end:
\* from the truncation on a regular file has the source's size, and before it its own.
THEOREM DownSizeKept == DownSpec => []SizeKept
<1>1. ProgressInv => SizeKept
  BY DEF ProgressInv, Progress, SizeKept, At
<1> QED
  BY <1>1, ProgressStart, ProgressStep, PTL DEF DownSpec

---------------------------------------------------------------------------
(* A download implements Mirror.                                           *)

Over(q) == client[q].end \in {"complete", "cut"}

\* The steps of Promise(q), in its terms: nothing, a block copied, blocks excused, the end.
LEMMA MirrorCases ==
  ASSUME NEW q \in Clients,
         \/ Differ(q)' = Differ(q) /\ Excused(q)' = Excused(q) /\ Over(q)' = Over(q)
         \/ /\ ~Over(q) /\ ~Over(q)' /\ Excused(q)' = Excused(q)
            /\ \E b \in Differ(q) : Differ(q)' = Differ(q) \ {b}
         \/ /\ ~Over(q) /\ ~Over(q)'
            /\ \E S \in SUBSET Block, T \in SUBSET Block :
                 T \subseteq S /\ Excused(q)' = Excused(q) \cup S /\ Differ(q)' = Differ(q) \ T
         \/ /\ ~Over(q) /\ Over(q)' /\ Differ(q) \subseteq Excused(q)
            /\ Differ(q)' = Differ(q) /\ Excused(q)' = Excused(q)
  PROVE  [Promise(q)!MirrorNext]_(Promise(q)!mirrorVars)
<1>1. Differ(q) \subseteq Block
  BY DEF Differ
<1>2. CASE Differ(q)' = Differ(q) /\ Excused(q)' = Excused(q) /\ Over(q)' = Over(q)
  BY <1>2 DEF Promise!mirrorVars, Over
<1>3. CASE /\ ~Over(q) /\ ~Over(q)' /\ Excused(q)' = Excused(q)
           /\ \E b \in Differ(q) : Differ(q)' = Differ(q) \ {b}
  <2>1. PICK b \in Differ(q) : Differ(q)' = Differ(q) \ {b}
    BY <1>3
  <2>2. Promise(q)!Copy(b)
    BY <1>3, <2>1 DEF Promise!Copy, Over
  <2> QED
    BY <1>1, <2>2 DEF Promise!MirrorNext
<1>4. CASE /\ ~Over(q) /\ ~Over(q)'
           /\ \E S \in SUBSET Block, T \in SUBSET Block :
                T \subseteq S /\ Excused(q)' = Excused(q) \cup S /\ Differ(q)' = Differ(q) \ T
  <2>1. Promise(q)!Excuse
    BY <1>4 DEF Promise!Excuse, Over
  <2> QED
    BY <2>1 DEF Promise!MirrorNext
<1>5. CASE /\ ~Over(q) /\ Over(q)' /\ Differ(q) \subseteq Excused(q)
           /\ Differ(q)' = Differ(q) /\ Excused(q)' = Excused(q)
  <2>1. Promise(q)!Leave
    BY <1>5 DEF Promise!Leave, Over
  <2> QED
    BY <2>1 DEF Promise!MirrorNext
<1> QED
  BY <1>2, <1>3, <1>4, <1>5

\* What a step that leaves the inputs alone leaves alone with them.
LEMMA SameTerms ==
  ASSUME UNCHANGED inputs, NEW q \in Clients
  PROVE  /\ Agreed' = Agreed /\ clientSkip' = clientSkip /\ \A b : ZeroServed(b)' = ZeroServed(b)
         /\ dst'[q] = dst[q] => \A b : InSync(q, b)' = InSync(q, b)
<1>1. Agreed' = Agreed /\ clientSkip' = clientSkip /\ \A b : ZeroServed(b)' = ZeroServed(b)
  BY DEF Agreed, serverSize, serverSkip, clientSkip, inputs, ZeroServed, ServedEnd
<1>2. dst'[q] = dst[q] => \A b : InSync(q, b)' = InSync(q, b)
  BY DEF InSync, inputs
<1> QED
  BY <1>1, <1>2

LEMMA MirrorSame ==
  ASSUME NEW q \in Clients, UNCHANGED inputs, client'[q] = client[q], dst'[q] = dst[q]
  PROVE  Differ(q)' = Differ(q) /\ Excused(q)' = Excused(q) /\ Over(q)' = Over(q)
<1>1. Differ(q)' = Differ(q)
  BY SameTerms DEF Differ
<1>2. Excused(q)' = Excused(q)
  BY SameTerms DEF Excused, At
<1> QED
  BY <1>1, <1>2 DEF Over

\* Past the source's last block nothing can differ; up to it, what a client passed is excused.
LEMMA MirrorDone ==
  ASSUME ProgressInv, NEW q \in Clients, Begun(q),
         client[q].idx > LastAsked \/ At(q, "break") \/ ~Agreed
  PROVE  Differ(q) \subseteq Excused(q)
<1> DEFINE i == client[q].idx
<1>1. /\ src \in Sources /\ setting \in Settings /\ i \in Nat /\ clientSkip \in Nat /\ LastAsked \in Nat
  BY SourceBounds, Sizes DEF ProgressInv, DownIInv, Store, Wires, ClientState
<1>2. ASSUME NEW b \in Block, Agreed, b >= clientSkip, ~InSync(q, b) PROVE b \in Excused(q)
  <2>1. b \in Nat /\ Kept(q, b)
    BY <1>2, Sizes DEF ProgressInv, Progress, Begun
  <2>2. CASE b < i
    BY <1>2, <2>1, <2>2 DEF Kept, Excused
  <2>3. CASE b >= i /\ At(q, "break")
    BY <1>2, <2>3 DEF Excused
  <2>4. CASE b >= i /\ i > LastAsked
    <3>1. LastAsked + 1 <= b
      BY <1>1, <2>1, <2>4
    <3>2. Start(LastAsked + 1) <= Start(b) /\ Start(LastAsked + 1) \in Nat
      BY <1>1, <2>1, <3>1, StartMono
    <3>3. src.size <= Start(LastAsked + 1) /\ src.size \in Nat
      BY <1>1, SourceBounds
    <3>4. \A k \in Span(b) : ~(k < src.size)
      BY <2>1, <3>2, <3>3, StartMono DEF Span
    <3> QED
      BY <1>2, <3>4 DEF InSync
  <2> QED
    BY <1>1, <1>2, <2>1, <2>2, <2>3, <2>4
<1> QED
  BY <1>2 DEF Differ

LEMMA MirrorClient ==
  ASSUME ProgressInv, NEW q \in Clients,
         ClientStep(q) \/ DialFails(q) \/ ReadFails(q) \/ WriteFails(q)
  PROVE  [Promise(q)!MirrorNext]_(Promise(q)!mirrorVars)
<1> USE DEF At, Goto, Stop
<1> DEFINE i == client[q].idx
           Quiet == Differ(q)' = Differ(q) /\ Excused(q)' = Excused(q) /\ Over(q)' = Over(q)
<1>0. UNCHANGED inputs
  BY InputsStay DEF DownNext, FaultStep, inputs
<1>1. client \in [Clients -> ClientState] /\ client[q] \in ClientState /\ i \in Nat /\ clientSkip \in Nat
  BY SourceBounds DEF ProgressInv, DownIInv, Store, Wires, ClientState
<1>2. client[q].pc # "over" => client[q].end = "none"
  BY DEF ProgressInv, Progress
<1>3. ASSUME dst'[q] = dst[q] PROVE Differ(q)' = Differ(q)
  BY <1>0, <1>3, SameTerms DEF Differ
<1>4. ASSUME client'[q].idx = i, client[q].pc # "break", client'[q].pc # "break",
             client[q].end = "none", client'[q].end # "cut"
      PROVE  Excused(q)' = Excused(q)
  BY <1>0, <1>4, SameTerms DEF Excused
<1>5. CASE Dial(q) \/ Refused(q) \/ DialFails(q) \/ ReadFails(q) \/ ReadEnds(q) \/ Ask(q)
  <2>1. /\ dst'[q] = dst[q] /\ client'[q].idx = i /\ client[q].pc \notin {"break", "over"}
        /\ client'[q].pc # "break" /\ client'[q].end \in {client[q].end, "failed"}
    BY <1>1, <1>5 DEF Dial, Refused, DialFails, ReadFails, ReadEnds, Waits, Ask, ClientState
  <2>2. Quiet
    BY <1>2, <1>3, <1>4, <2>1 DEF Over
  <2> QED
    BY <2>2, MirrorCases
<1>6. CASE Complete(q)
  <2>1. /\ dst'[q] = dst[q] /\ client'[q].idx = i /\ client'[q].pc = "over"
        /\ \/ client[q].pc = "break" /\ client'[q].end = "cut"
           \/ client[q].pc = "loop" /\ client'[q].end = "complete" /\ i > LastAsked
    BY <1>1, <1>6 DEF Complete, ClientState
  <2>2. client[q].end = "none" /\ Begun(q)
    BY <1>2, <2>1 DEF Begun
  <2>3. Differ(q) \subseteq Excused(q)
    BY <2>1, <2>2, MirrorDone
  <2>4. Excused(q)' = Excused(q)
    <3>1. CASE client[q].pc = "loop"
      BY <1>4, <2>1, <2>2, <3>1
    <3>2. CASE client[q].pc = "break"
      BY <1>0, <2>1, <3>2, SameTerms DEF Excused
    <3> QED
      BY <2>1, <3>1, <3>2
  <2>5. ~Over(q) /\ Over(q)'
    BY <2>1, <2>2 DEF Over
  <2> QED
    BY <1>3, <2>1, <2>3, <2>4, <2>5, MirrorCases
<1>7. CASE ReadSize(q)
  <2>1. /\ client[q].pc = "size" /\ client'[q].pc = "loop" /\ client'[q].idx = i
        /\ client'[q].end = client[q].end
        /\ dst'[q] = IF old[q].device THEN dst[q] ELSE Resize(dst[q], src.size)
    BY <1>1, <1>7 DEF ReadSize, ClientState, ProgressInv, DownIInv, Store
  <2>2. \A b \in Block : InSync(q, b)' = InSync(q, b)
    <3>1. \A b \in Block : \A k \in Span(b) : k \in Pos
      BY StartBounds
    <3>2. \A k \in Pos : k < src.size => dst'[q].data[k] = dst[q].data[k]
      BY <2>1 DEF Resize
    <3> QED
      BY <1>0, <3>1, <3>2 DEF InSync, inputs
  <2>3. Differ(q)' = Differ(q)
    BY <1>0, <2>2, SameTerms DEF Differ
  <2>4. Excused(q)' = Excused(q)
    BY <1>2, <1>4, <2>1
  <2>5. Quiet
    BY <2>1, <2>3, <2>4 DEF Over
  <2> QED
    BY <2>5, MirrorCases
<1>8. CASE ReadHeader(q)
  <2> DEFINE m == Head(s2c[q])
  <2>1. client[q].pc = "header" /\ s2c[q] # <<>> /\ dst'[q] = dst[q] /\ Begun(q)
    BY <1>8 DEF ReadHeader, Begun
  <2>2. m \in Answers /\ m.blk = i
    <3>1. \A a, b : Head(<<a>>) = a /\ Head(<<a, b>>) = a
      BY Short
    <3>2. s2c[q] \in {<<Msg("zero", i)>>, <<Msg("done", i)>>, <<Msg("data", i)>>,
                      <<Msg("data", i), Msg("payload", i)>>}
      BY <2>1, Found DEF ProgressInv, DownIInv, Frame
    <3>3. m.blk = i
      BY <3>1, <3>2 DEF Msg
    <3>4. m \in Answers
      BY <2>1, ChannelChange DEF ProgressInv, DownIInv
    <3> QED
      BY <3>3, <3>4
  <2>3. \/ m.kind = "done" /\ client'[q].pc = "over" /\ client'[q].end = "complete" /\ client'[q].idx = i
        \/ m.kind = "zero" /\ client'[q].pc = "loop" /\ client'[q].end = "none" /\ client'[q].idx = i + 1
        \/ client'[q].pc \in {"payload", "over"} /\ client'[q].end \in {"none", "panic"} /\ client'[q].idx = i
    BY <1>1, <1>2, <1>8, <2>1 DEF ReadHeader, ClientState
  <2> HIDE DEF m
  <2>4. CASE m.kind = "done" /\ client'[q].pc = "over" /\ client'[q].end = "complete" /\ client'[q].idx = i
    <3>1. i > LastServed
      BY <2>2, <2>4 DEF Answers
    <3>2. i <= LastAsked
      BY <2>1 DEF ProgressInv, DownIInv, Placed
    <3>3. LastServed \in Nat /\ LastAsked \in Nat /\ (Agreed => LastServed = LastAsked)
      BY SourceBounds, Sizes DEF ProgressInv, DownIInv, Store, Agreed, LastServed, LastAsked, LastBlock
    <3>4. ~Agreed
      BY <1>1, <3>1, <3>2, <3>3
    <3>5. Differ(q) \subseteq Excused(q)
      BY <2>1, <3>4, MirrorDone
    <3>6. Excused(q)' = Excused(q) /\ ~Over(q) /\ Over(q)'
      BY <1>2, <1>4, <2>1, <2>4 DEF Over
    <3> QED
      BY <1>3, <2>1, <3>5, <3>6, MirrorCases
  <2>5. CASE m.kind = "zero" /\ client'[q].pc = "loop" /\ client'[q].end = "none" /\ client'[q].idx = i + 1
    <3> DEFINE S == {b \in Block : b = i}
    <3>1. ZeroServed(i)
      <4> HIDE DEF ZeroServed
      <4> QED
        BY <2>2, <2>5 DEF Answers
    <3>2. i >= clientSkip
      BY DEF ProgressInv, Progress
    <3>3. \A b \in Block : b < i + 1 <=> b < i \/ b = i
      BY <1>1, Sizes
    <3>4. client[q].end = "none"
      BY <1>2, <2>1
    <3>5. Excused(q)' = Excused(q) \cup S
      <4> HIDE DEF ZeroServed, i
      <4> QED
        BY <1>0, <2>1, <2>5, <3>1, <3>2, <3>3, <3>4, SameTerms DEF Excused, i
    <3>6. Differ(q)' = Differ(q) \ {}
      BY <1>3, <2>1
    <3>7. ~Over(q) /\ ~Over(q)'
      BY <2>5, <3>4 DEF Over
    <3>8. S \in SUBSET Block /\ {} \in SUBSET Block /\ {} \subseteq S
      OBVIOUS
    <3> HIDE DEF S
    <3> QED
      BY <3>5, <3>6, <3>7, <3>8, MirrorCases
  <2>6. CASE client'[q].pc \in {"payload", "over"} /\ client'[q].end \in {"none", "panic"} /\ client'[q].idx = i
    <3>1. Quiet
      BY <1>2, <1>3, <1>4, <2>1, <2>6 DEF Over
    <3> QED
      BY <3>1, MirrorCases
  <2> QED
    BY <2>3, <2>4, <2>5, <2>6
<1>9. CASE ReadPayload(q) \/ WriteFails(q)
  <2>1. client[q].pc = "payload" /\ Begun(q) /\ client[q].end = "none"
    BY <1>2, <1>9 DEF ReadPayload, WriteFails, Begun
  <2>2. i >= clientSkip
    BY DEF ProgressInv, Progress
  <2> DEFINE here == {b \in Block : b = i}
             T    == {b \in here : b \in Differ(q) /\ ~(b \in Differ(q)')}
             more == IF client'[q].pc = "break" THEN {b \in Block : b >= i}
                     ELSE {b \in here : ZeroServed(b)}
  <2>3. /\ client'[q].pc = "loop" => client'[q].idx = i + 1
        /\ client'[q].pc = "break" => client'[q].idx = i
        /\ client'[q].pc \in {"loop", "break"} /\ client'[q].end = "none"
    BY <1>9, <2>1, Pasted DEF ProgressInv
  <2>4. Differ(q)' = Differ(q) \ T
    <3>1. Agreed =>
            /\ \A b \in Block \ {i} : \A k \in Span(b) : dst'[q].data[k] = dst[q].data[k]
            /\ \A b \in Block : b = i /\ InSync(q, b) => InSync(q, b)'
      BY <1>9, Pasted DEF ProgressInv
    <3>2. Agreed => \A b \in Block \ {i} : InSync(q, b)' = InSync(q, b)
      BY <1>0, <3>1 DEF InSync, inputs
    <3>3. \A b \in Block \ {i} : b \in Differ(q)' <=> b \in Differ(q)
      BY <1>0, <3>2, SameTerms DEF Differ
    <3>4. \A b \in Block : b = i /\ b \in Differ(q)' => b \in Differ(q)
      BY <1>0, <3>1, SameTerms DEF Differ
    <3>5. Differ(q) \subseteq Block /\ Differ(q)' \subseteq Block
      BY DEF Differ
    <3> QED
      BY <3>3, <3>4, <3>5
  <2>5. Excused(q)' = Excused(q) \cup more
    <3>1. \A b \in Block : b \in Excused(q) <=> clientSkip <= b /\ b < i /\ ZeroServed(b)
      BY <2>1 DEF Excused
    <3>2. \A b \in Block : b < i + 1 <=> b < i \/ b = i
      BY <1>1, Sizes
    <3> HIDE DEF ZeroServed
    <3>3. \A b \in Block : b \in Excused(q)' <=>
            \/ clientSkip <= b /\ b < client'[q].idx /\ ZeroServed(b)
            \/ b >= client'[q].idx /\ client'[q].pc = "break"
      BY <1>0, <2>3, SameTerms DEF Excused
    <3>4. Excused(q) \subseteq Block /\ Excused(q)' \subseteq Block
      BY DEF Excused
    <3>5. ASSUME NEW b \in Block PROVE b \in Excused(q)' <=> b \in Excused(q) \cup more
      BY <2>2, <2>3, <3>1, <3>2, <3>3
    <3> HIDE DEF more
    <3>6. more \subseteq Block
      BY DEF more
    <3> QED
      BY <3>4, <3>5, <3>6
  <2>6. ~Over(q) /\ ~Over(q)'
    BY <2>1, <2>3 DEF Over
  <2>7. CASE T = {}
    <3>1. more \in SUBSET Block /\ {} \in SUBSET Block /\ Differ(q)' = Differ(q) \ {}
      BY <2>4, <2>7
    <3> HIDE DEF more, T
    <3> QED
      BY <2>5, <2>6, <3>1, MirrorCases
  <2>8. CASE T # {} /\ i \in more
    <3>1. more \in SUBSET Block /\ T \in SUBSET Block /\ T \subseteq more
      BY <2>8
    <3> HIDE DEF more, T
    <3> QED
      BY <2>4, <2>5, <2>6, <3>1, MirrorCases
  <2>9. CASE T # {} /\ i \notin more
    <3>1. T = {i} /\ i \in Differ(q)
      BY <2>9
    <3>2. more = {}
      <4>1. i \in Block /\ i >= i
        BY <1>1, <2>9
      <4> QED
        BY <2>3, <2>9, <4>1
    <3> HIDE DEF more, T
    <3>3. Excused(q)' = Excused(q) /\ Differ(q)' = Differ(q) \ {i}
      BY <2>4, <2>5, <3>1, <3>2
    <3> QED
      BY <2>6, <3>1, <3>3, MirrorCases
  <2> QED
    BY <2>7, <2>8, <2>9
<1> QED
  BY <1>5, <1>6, <1>7, <1>8, <1>9 DEF ClientStep

\* startClientDownload and serverHandleUpload keep Mirror's promise to every client: no step undoes
\* a block that is right, and what "download complete" leaves different is zero blocks, which the
\* client never writes, and the blocks from a failed write on.
THEOREM DownImplementsMirror == DownSpec => DownloadMirrors
<1>1. ASSUME DownInit, NEW q \in Clients PROVE Promise(q)!MirrorInit
  <2>1. client[q].idx = clientSkip /\ client[q].pc = "dial" /\ client[q].end = "none"
    BY <1>1 DEF DownInit
  <2>2. clientSkip \in Nat
    BY <1>1, ProgressStart, SourceBounds DEF ProgressInv, DownIInv, Store
  <2>3. Excused(q) = {}
    <3>1. \A b \in Block : ~(clientSkip <= b /\ b < clientSkip)
      BY <2>2, Sizes
    <3> QED
      BY <2>1, <3>1 DEF Excused, At
  <2> QED
    BY <2>1, <2>3 DEF Promise!MirrorInit, Differ
<1>2. ASSUME ProgressInv, [DownNext]_downVars, NEW q \in Clients
      PROVE  [Promise(q)!MirrorNext]_(Promise(q)!mirrorVars)
  <2>1. UNCHANGED inputs
    BY <1>2, InputsStay DEF downVars, inputs
  <2>2. CASE client'[q] = client[q] /\ dst'[q] = dst[q]
    BY <2>1, <2>2, MirrorSame, MirrorCases
  <2>3. ASSUME NEW r \in Clients, ClientStep(r) \/ DialFails(r) \/ ReadFails(r) \/ WriteFails(r)
        PROVE  [Promise(q)!MirrorNext]_(Promise(q)!mirrorVars)
    <3>1. CASE r = q
      BY <1>2, <2>3, <3>1, MirrorClient
    <3>2. CASE r # q
      <4>1. client'[q] = client[q] /\ dst'[q] = dst[q]
        BY <1>2, <2>3, <3>2, WiresClient, StoreClient DEF Only, ProgressInv
      <4> QED
        BY <2>2, <4>1
    <3> QED
      BY <3>1, <3>2
  <2>4. CASE \E r \in Clients : HandlerStep(r) \/ HandlerFails(r) \/ Break(r)
    BY <1>2, <2>2, <2>4, WiresHandler DEF ProgressInv
  <2>5. CASE \E p \in Hashers : HasherStep(p) \/ HashFails(p)
    BY <2>2, <2>5 DEF HasherStep, TakeJob, SetHash, HashFails
  <2>6. CASE AcceptFails \/ UNCHANGED downVars
    BY <2>2, <2>6 DEF AcceptFails, downVars
  <2> QED
    BY <1>2, <2>3, <2>4, <2>5, <2>6 DEF DownNext, FaultStep
<1>3. ProgressInv /\ [DownNext]_downVars =>
        [\A q \in Clients : [Promise(q)!MirrorNext]_(Promise(q)!mirrorVars)]_downVars
  BY <1>2
<1>4. DownInit => \A q \in Clients : Promise(q)!MirrorInit
  BY <1>1
<1> QED
  BY <1>3, <1>4, ProgressStart, ProgressStep, PTL DEF DownSpec, DownloadMirrors

---------------------------------------------------------------------------
(* What a download over a new file leaves.                                 *)

\* A client and its file change by its own steps only.
LEMMA OwnSteps ==
  ASSUME DownIInv, [DownNext]_downVars, NEW q \in Clients
  PROVE  \/ client'[q] = client[q] /\ dst'[q] = dst[q]
         \/ ClientStep(q) \/ DialFails(q) \/ ReadFails(q) \/ WriteFails(q)
<1>1. ASSUME NEW r \in Clients, ClientStep(r) \/ DialFails(r) \/ ReadFails(r) \/ WriteFails(r), r # q
      PROVE  client'[q] = client[q] /\ dst'[q] = dst[q]
  BY <1>1, WiresClient, StoreClient DEF Only
<1>2. CASE \E r \in Clients : HandlerStep(r) \/ HandlerFails(r) \/ Break(r)
  BY <1>2, WiresHandler
<1>3. CASE \E p \in Hashers : HasherStep(p) \/ HashFails(p)
  BY <1>3 DEF HasherStep, TakeJob, SetHash, HashFails
<1>4. CASE AcceptFails \/ UNCHANGED downVars
  BY <1>4 DEF AcceptFails, downVars
<1> QED
  BY <1>1, <1>2, <1>3, <1>4 DEF DownNext, FaultStep

\* Every byte of a client's file is still the old one, or the source's, or from an extension.
Touched(q) == Agreed =>
  \A k \in Pos : dst[q].data[k] \in {old[q].file.data[k], src.data[k], 0}

\* With the same block size a download is complete only when the client is past the last block.
Through(q) == Agreed /\ client[q].end = "complete" => client[q].idx > LastAsked

TraceInv == ProgressInv /\ \A q \in Clients : Touched(q) /\ Through(q)

LEMMA TouchedClient ==
  ASSUME ProgressInv, NEW q \in Clients, Touched(q),
         ClientStep(q) \/ DialFails(q) \/ ReadFails(q) \/ WriteFails(q)
  PROVE  Touched(q)'
<1> USE DEF At, Goto, Stop
<1>0. UNCHANGED inputs /\ src' = src /\ old' = old
  BY InputsStay DEF DownNext, FaultStep, inputs
<1>1. Agreed' = Agreed
  BY <1>0, SameTerms
<1>2. dst \in [Clients -> File]
  BY DEF ProgressInv, DownIInv, Store
<1>3. CASE ReadPayload(q) \/ WriteFails(q)
  <2>1. Agreed => \A k \in Pos : dst'[q].data[k] \in {dst[q].data[k], src.data[k]}
    BY <1>3, Pasted DEF ProgressInv
  <2> QED
    BY <1>0, <1>1, <2>1 DEF Touched
<1>4. CASE ReadSize(q)
  <2>1. dst'[q] = IF old[q].device THEN dst[q] ELSE Resize(dst[q], src.size)
    BY <1>2, <1>4 DEF ReadSize
  <2>2. \A k \in Pos : dst'[q].data[k] \in {dst[q].data[k], 0}
    BY <2>1 DEF Resize
  <2> QED
    BY <1>0, <1>1, <2>2 DEF Touched
<1>5. CASE ~(ReadPayload(q) \/ WriteFails(q) \/ ReadSize(q))
  <2>1. dst' = dst
    BY <1>5 DEF ClientStep, Dial, Refused, DialFails, ReadFails, ReadEnds, Ask, Complete, ReadHeader
  <2> QED
    BY <1>0, <1>1, <2>1 DEF Touched
<1> QED
  BY <1>3, <1>4, <1>5

LEMMA ThroughClient ==
  ASSUME ProgressInv, NEW q \in Clients, Through(q),
         ClientStep(q) \/ DialFails(q) \/ ReadFails(q) \/ WriteFails(q)
  PROVE  Through(q)'
<1> USE DEF At, Goto, Stop
<1> DEFINE i == client[q].idx
<1>0. UNCHANGED inputs /\ LastAsked' = LastAsked
  BY InputsStay DEF DownNext, FaultStep, inputs
<1>1. Agreed' = Agreed
  BY <1>0, SameTerms
<1>2. client \in [Clients -> ClientState] /\ client[q] \in ClientState
  BY DEF ProgressInv, DownIInv, Wires
<1>3. client[q].pc # "over" => client[q].end = "none"
  BY DEF ProgressInv, Progress
<1>4. CASE Complete(q)
  <2>1. client'[q].end = "complete" => i > LastAsked /\ client'[q].idx = i
    BY <1>2, <1>4 DEF Complete, ClientState
  <2> QED
    BY <1>0, <1>1, <2>1 DEF Through
<1>5. CASE ReadHeader(q)
  <2> DEFINE m == Head(s2c[q])
  <2>1. client[q].pc = "header" /\ s2c[q] # <<>>
    BY <1>5 DEF ReadHeader
  <2>2. m \in Answers /\ m.blk = i
    <3>1. \A a, b : Head(<<a>>) = a /\ Head(<<a, b>>) = a
      BY Short
    <3>2. s2c[q] \in {<<Msg("zero", i)>>, <<Msg("done", i)>>, <<Msg("data", i)>>,
                      <<Msg("data", i), Msg("payload", i)>>}
      BY <2>1, Found DEF ProgressInv, DownIInv, Frame
    <3>3. m.blk = i
      BY <3>1, <3>2 DEF Msg
    <3>4. m \in Answers
      BY <2>1, ChannelChange DEF ProgressInv, DownIInv
    <3> QED
      BY <3>3, <3>4
  <2>3. client'[q].end = "complete" => m.kind = "done"
    BY <1>2, <1>3, <1>5, <2>1 DEF ReadHeader, ClientState
  <2>4. m.kind = "done" => i > LastServed
    <3> HIDE DEF m
    <3> QED
      BY <2>2 DEF Answers
  <2>5. i <= LastAsked /\ i \in Nat
    BY <1>2, <2>1 DEF ProgressInv, DownIInv, Placed, ClientState
  <2>6. LastServed \in Nat /\ LastAsked \in Nat /\ (Agreed => LastServed = LastAsked)
    BY SourceBounds, Sizes DEF ProgressInv, DownIInv, Store, Agreed, LastServed, LastAsked, LastBlock
  <2> HIDE DEF m
  <2> QED
    BY <1>0, <1>1, <2>3, <2>4, <2>5, <2>6 DEF Through
<1>6. CASE ~(Complete(q) \/ ReadHeader(q))
  <2>1. client'[q].end # "complete"
    BY <1>2, <1>3, <1>6 DEF ClientStep, Dial, Refused, DialFails, ReadFails, ReadEnds, Waits, Ask,
       ReadSize, ReadPayload, WriteFails, ClientState
  <2> QED
    BY <2>1 DEF Through
<1> QED
  BY <1>4, <1>5, <1>6

LEMMA TraceStart ==
  ASSUME DownInit
  PROVE  TraceInv
BY ProgressStart DEF DownInit, TraceInv, Touched, Through

LEMMA TraceStep ==
  ASSUME TraceInv, [DownNext]_downVars
  PROVE  TraceInv'
<1>1. ProgressInv /\ ProgressInv' /\ DownIInv
  BY ProgressStep DEF TraceInv, ProgressInv
<1>2. UNCHANGED inputs /\ src' = src /\ old' = old
  BY InputsStay DEF downVars, inputs
<1>3. ASSUME NEW q \in Clients PROVE Touched(q)' /\ Through(q)'
  <2>1. Touched(q) /\ Through(q)
    BY DEF TraceInv
  <2>2. CASE client'[q] = client[q] /\ dst'[q] = dst[q]
    <3>1. Agreed' = Agreed /\ LastAsked' = LastAsked
      BY <1>2, SameTerms DEF LastAsked
    <3> QED
      BY <1>2, <2>1, <2>2, <3>1 DEF Touched, Through
  <2>3. CASE ClientStep(q) \/ DialFails(q) \/ ReadFails(q) \/ WriteFails(q)
    BY <1>1, <2>1, <2>3, TouchedClient, ThroughClient
  <2> QED
    BY <1>1, <2>2, <2>3, OwnSteps
<1> QED
  BY <1>1, <1>3 DEF TraceInv

\* The destination is new, or holds only zeros.
Blank == \A t \in Targets : \A k \in Pos : t.file.data[k] = 0

\* What README.md:194 checks with md5sum holds over a new or blank destination, with the same -b
\* on both sides: "download complete" means the source's bytes, in every block from -s on. The
\* zero blocks, which are never written, are there already.
THEOREM DownBlankIsCopy ==
  ASSUME Blank
  PROVE  DownSpec => []DownloadIsCopy
<1>1. TraceInv => DownloadIsCopy
  <2> SUFFICES ASSUME TraceInv, Agreed, NEW q \in Clients, client[q].end = "complete",
                      NEW b \in Block, b >= clientSkip
               PROVE  InSync(q, b)
    BY DEF DownloadIsCopy
  <2> DEFINE i == client[q].idx
  <2>1. ProgressInv /\ Store /\ Touched(q) /\ i > LastAsked
    BY DEF TraceInv, ProgressInv, DownIInv, Through
  <2>2. /\ i \in Nat /\ b \in Nat /\ clientSkip \in Nat /\ LastAsked \in Nat /\ src.size \in Nat
        /\ src.size <= Start(LastAsked + 1)
    <3>1. src \in Sources /\ setting \in Settings
      BY <2>1 DEF Store
    <3>2. /\ clientSkip \in Nat /\ LastAsked \in Nat /\ src.size \in Nat
          /\ src.size <= Start(LastAsked + 1)
      <4>1. /\ clientSkip \in Nat /\ LastAsked \in Block /\ src.size <= Start(LastAsked + 1)
            /\ src.size \in 1 .. BlockCount * BlockSize
        BY <3>1, SourceBounds
      <4>2. Block \subseteq Nat /\ BlockCount * BlockSize \in Nat
        BY Sizes
      <4> QED
        BY <4>1, <4>2
    <3>3. i \in Nat /\ b \in Nat
      BY <2>1, Sizes DEF ProgressInv, DownIInv, Wires, ClientState
    <3> QED
      BY <3>2, <3>3
  <2>3. ~(client[q].pc \in {"dial", "size"})
    BY <2>1 DEF ProgressInv, Progress
  <2>4. CASE b < i
    <3>1. InSync(q, b) \/ ZeroServed(b)
      BY <2>1, <2>3, <2>4 DEF ProgressInv, Progress, Kept
    <3>2. ASSUME ZeroServed(b), NEW k \in Span(b), k < src.size PROVE dst[q].data[k] = src.data[k]
      <4>1. k \in Pos /\ k \in Nat
        BY StartBounds, Sizes
      <4>2. src.data[k] = 0
        <5>1. b * serverSize = Start(b) /\ (b + 1) * serverSize = Start(b + 1)
          BY DEF Agreed, Start
        <5>2. Start(b) \in Nat /\ Start(b + 1) \in Nat
          BY StartBounds
        <5>3. k \in b * serverSize .. ServedEnd(b) - 1
          BY <2>2, <3>2, <4>1, <5>1, <5>2 DEF ServedEnd, Span
        <5> QED
          BY <3>2, <5>3 DEF ZeroServed
      <4>3. old[q].file.data[k] = 0
        BY <2>1, <4>1 DEF Store, Blank
      <4> QED
        BY <2>1, <4>1, <4>2, <4>3 DEF Touched
    <3> QED
      BY <3>1, <3>2 DEF InSync
  <2>5. CASE b >= i
    <3>1. Start(LastAsked + 1) <= Start(b) /\ Start(b) \in Nat /\ Start(LastAsked + 1) \in Nat
      BY <2>1, <2>2, <2>5, StartMono
    <3>2. Start(b + 1) \in Nat
      BY StartBounds
    <3>3. \A k \in Span(b) : ~(k < src.size)
      BY <2>2, <3>1, <3>2 DEF Span
    <3> QED
      BY <3>3 DEF InSync
  <2> QED
    BY <2>2, <2>4, <2>5
<1> QED
  BY <1>1, TraceStart, TraceStep, PTL DEF DownSpec
---------------------------------------------------------------------------
(* A download without faults.                                              *)

\* A block device keeps its size.
Rigid(q) == old[q].device => dst[q].size = old[q].file.size

\* Without faults nothing is lost or closed under a client, and nothing but the end ends it.
Smooth(q) ==
  /\ client[q].pc = "over" => client[q].end # "none"
  /\ Agreed /\ faults = 0 =>
       /\ q \notin broken /\ server = "serving"
       /\ handler[q].pc = "end" => Left(q)
       /\ Fits(q) => client[q].pc # "break" /\ client[q].end \in {"none", "complete"}

SmoothInv == TraceInv /\ \A q \in Clients : Rigid(q) /\ Smooth(q)

LEMMA PasteKeepsSize ==
  ASSUME NEW f, f.size \in Nat, NEW b, NEW i, NEW n \in Nat, n <= f.size
  PROVE  Paste(f, b, i, n).size = f.size
BY DEF Paste, WriteBlock

LEMMA RigidClient ==
  ASSUME ProgressInv, NEW q \in Clients, Rigid(q),
         ClientStep(q) \/ DialFails(q) \/ ReadFails(q) \/ WriteFails(q)
  PROVE  Rigid(q)'
<1> USE DEF At, Goto, Stop
<1> DEFINE i == client[q].idx
<1>0. old' = old
  BY InputsStay DEF DownNext, FaultStep
<1>1. dst \in [Clients -> File] /\ src \in Sources /\ setting \in Settings
  BY DEF ProgressInv, DownIInv, Store
<1>2. dst[q].size \in Nat
  BY <1>1, FileElim, Sizes
<1>3. CASE ReadPayload(q) \/ WriteFails(q)
  <2>1. client[q].pc = "payload" /\ s2c[q] # <<>>
    BY <1>3 DEF ReadPayload, WriteFails
  <2>2. s2c[q] = <<Msg("payload", i)>>
    BY <2>1, Found DEF ProgressInv, DownIInv, Frame
  <2>3. Head(s2c[q]).blk = i
    BY <2>2, Short DEF Msg
  <2>4. i \in Nat /\ i <= LastAsked /\ i <= LastServed
    BY <2>1 DEF ProgressInv, DownIInv, Placed, Wires, ClientState
  <2>5. PasteEnd(i, i) \in Nat /\ Start(i) \in Nat
    BY <1>1, <2>4, PasteBounds, Sizes
  <2> HIDE DEF i
  <2>6. old[q].device => \E n \in Nat : n <= dst[q].size /\ dst'[q] = Paste(dst[q], i, i, n)
    <3>1. CASE ReadPayload(q)
      <4>1. old[q].device =>
              \/ PasteEnd(i, i) <= dst[q].size /\ dst'[q] = Paste(dst[q], i, i, PasteEnd(i, i))
              \/ dst'[q] = Paste(dst[q], i, i, dst[q].size)
        BY <1>1, <2>3, <3>1 DEF ReadPayload, i
      <4> QED
        BY <1>2, <2>5, <4>1
    <3>2. CASE WriteFails(q)
      <4>1. PICK n \in Start(i) .. PasteEnd(i, i) :
              /\ old[q].device => n <= dst[q].size
              /\ dst' = [dst EXCEPT ![q] = Paste(@, i, i, n)]
        BY <2>3, <3>2 DEF WriteFails, i
      <4> QED
        BY <1>1, <2>5, <4>1
    <3> QED
      BY <1>3, <3>1, <3>2
  <2> QED
    BY <1>0, <1>2, <2>6, PasteKeepsSize DEF Rigid
<1>4. CASE ReadSize(q)
  BY <1>0, <1>4 DEF ReadSize, Rigid
<1>5. CASE ~(ReadPayload(q) \/ WriteFails(q) \/ ReadSize(q))
  <2>1. dst' = dst
    BY <1>5 DEF ClientStep, Dial, Refused, DialFails, ReadFails, ReadEnds, Ask, Complete, ReadHeader
  <2> QED
    BY <1>0, <2>1 DEF Rigid
<1> QED
  BY <1>3, <1>4, <1>5

LEMMA FaultsCounted ==
  ASSUME faults \in Nat, [DownNext]_downVars, faults' = 0
  PROVE  /\ faults = 0 /\ UNCHANGED <<server, broken>>
         /\ \/ \E q \in Clients : ClientStep(q) \/ HandlerStep(q)
            \/ \E p \in Hashers : HasherStep(p)
            \/ UNCHANGED downVars
<1>1. ~Fault
  BY DEF Fault
<1>2. \/ \E q \in Clients : ClientStep(q) \/ HandlerStep(q)
      \/ \E p \in Hashers : HasherStep(p)
      \/ UNCHANGED downVars
  BY <1>1 DEF DownNext, FaultStep, DialFails, ReadFails, WriteFails, HandlerFails, Break, HashFails,
     AcceptFails
<1>3. faults' = faults /\ UNCHANGED <<server, broken>>
  BY <1>2 DEF downVars, netVars, ClientStep, HandlerStep, HasherStep, Dial, Refused, ReadSize, Ask,
     Complete, ReadHeader, ReadPayload, ReadEnds, TakeJob, SetHash, Accept, Read, Header, Payload, End
<1> QED
  BY <1>2, <1>3

\* What keeps a client going.
LEMMA NothingLost ==
  ASSUME SmoothInv, NEW q \in Clients, Agreed, faults = 0, ~Left(q)
  PROVE  /\ ~Hung(q) /\ (Waits(q) => ~NoAnswer(q))
<1>1. ~Hung(q)
  BY DEF SmoothInv, Smooth, Hung
<1>2. ASSUME Waits(q), handler[q].pc = "answer" PROVE handler[q].blk = client[q].idx
  BY <1>2 DEF Waits, At, SmoothInv, TraceInv, ProgressInv, DownIInv, Frame, FrameOf
<1>3. client[q].idx \in Nat /\ client[q].idx >= clientSkip /\ clientSkip \in Nat /\ serverSkip \in Nat
  BY SourceBounds DEF SmoothInv, TraceInv, ProgressInv, Progress, DownIInv, Store, Wires, ClientState
<1>4. serverSkip <= clientSkip
  BY DEF Agreed
<1> QED
  BY <1>1, <1>2, <1>3, <1>4 DEF NoAnswer

LEMMA SmoothClient ==
  ASSUME SmoothInv, NEW q \in Clients, faults' = 0, faults = 0,
         UNCHANGED <<server, broken>>, ClientStep(q)
  PROVE  Smooth(q)'
<1> USE DEF At, Goto, Stop
<1> DEFINE i == client[q].idx
<1>0. UNCHANGED inputs /\ old' = old /\ src' = src
  BY InputsStay DEF DownNext, inputs
<1>1. Agreed' = Agreed /\ Fits(q)' = Fits(q)
  BY <1>0, SameTerms DEF Fits
<1>2. /\ client \in [Clients -> ClientState] /\ client[q] \in ClientState
      /\ ProgressInv /\ DownIInv /\ Smooth(q) /\ Rigid(q)
      /\ src \in Sources /\ setting \in Settings /\ dst \in [Clients -> File]
  BY DEF SmoothInv, TraceInv, ProgressInv, DownIInv, Wires, Store
<1>3. client[q].pc # "over" => client[q].end = "none"
  BY <1>2 DEF ProgressInv, Progress
<1>4. client'[q].pc = "over" => client'[q].end # "none"
  BY <1>2 DEF ClientState, ClientStep, Dial, Refused, ReadSize, Ask, Complete, ReadHeader, ReadPayload,
     ReadEnds
<1>5. ASSUME Agreed PROVE handler'[q].pc = "end" => Left(q)'
  <2>1. CASE Dial(q)
    <3>1. handler'[q].pc = "queued"
      BY <1>2, <2>1 DEF Dial, DownIInv, Wires, HandlerState
    <3> QED
      BY <3>1
  <2>2. CASE ~Dial(q)
    <3>1. handler' = handler
      BY <2>2 DEF ClientStep, Refused, ReadSize, Ask, Complete, ReadHeader, ReadPayload, ReadEnds, netVars
    <3>2. handler[q].pc = "end" => Left(q)
      BY <1>2, <1>5 DEF Smooth
    <3>3. ~Left(q)
      BY <2>2 DEF Left, ClientStep, Refused, ReadSize, Ask, Complete, ReadHeader, ReadPayload, ReadEnds,
         Waits
    <3> QED
      BY <3>1, <3>2, <3>3
  <2> QED
    BY <2>1, <2>2
<1>6. ASSUME Agreed, Fits(q)
      PROVE  client'[q].pc # "break" /\ client'[q].end \in {"none", "complete"}
  <2>1. q \notin broken /\ server = "serving" /\ client[q].pc # "break"
    BY <1>2, <1>6 DEF Smooth
  <2>2. CASE Dial(q) \/ Ask(q) \/ ReadSize(q) \/ Complete(q) \/ Refused(q) \/ ReadEnds(q)
    <3>1. ~Refused(q) /\ ~ReadEnds(q)
      BY <1>6, <2>1, NothingLost DEF Refused, ReadEnds, Waits, Left
    <3>2. Ask(q) => Goto(q, "header")
      BY <1>6, NothingLost DEF Ask, Left
    <3> QED
      BY <1>2, <1>3, <2>1, <2>2, <3>1, <3>2 DEF Dial, Ask, ReadSize, Complete, ClientState
  <2>3. CASE ReadHeader(q)
    <3> DEFINE m == Head(s2c[q])
    <3>1. client[q].pc = "header" /\ s2c[q] # <<>>
      BY <2>3 DEF ReadHeader
    <3>2. /\ s2c[q] \in {<<Msg("zero", i)>>, <<Msg("done", i)>>, <<Msg("data", i)>>,
                         <<Msg("data", i), Msg("payload", i)>>}
          /\ m \in Answers
      <4>1. m \in Answers
        BY <1>2, <3>1, ChannelChange DEF DownIInv
      <4> QED
        BY <1>2, <3>1, <4>1, Found DEF DownIInv, Frame
    <3>3. m.blk = i
      <4>1. \A a, b : Head(<<a>>) = a /\ Head(<<a, b>>) = a
        BY Short
      <4> QED
        BY <3>2, <4>1 DEF Msg
    <3> HIDE DEF m, i
    <3>4. m.kind = "data" => ServedEnd(i) - i * serverSize <= BlockSize
      <4>1. m.kind = "data" => i <= LastServed
        <5>1. LastServed \in Nat
          BY <1>2, SourceBounds
        <5> QED
          BY <3>2, <3>3, <5>1 DEF Answers
      <4>2. i \in Nat /\ i <= LastAsked
        BY <1>2, <3>1 DEF DownIInv, Placed, ClientState, i
      <4>3. dst[q] \in File /\ 0 \in Nat
        BY <1>2
      <4>4. i <= LastServed => PasteEnd(i, i) \in Nat /\ 0 <= PasteEnd(i, i)
        BY <1>2, <4>2, PasteBounds, Sizes
      <4> QED
        BY <1>2, <1>6, <4>1, <4>2, <4>3, <4>4, PasteAgreed
    <3>5. /\ client'[q].pc \in {"over", "loop", "payload"}
          /\ \/ client'[q].end \in {"complete", client[q].end}
             \/ m.kind = "data" /\ ServedEnd(i) - i * serverSize > BlockSize
      BY <1>2, <2>3, <3>3 DEF ReadHeader, ClientState, m
    <3>6. /\ i \in Nat /\ BlockSize \in Nat
          /\ m.kind = "data" => ServedEnd(i) - i * serverSize \in Int
      BY <1>2, <3>1, SourceBounds, Sizes DEF ClientState, i, ServedEnd
    <3> QED
      BY <1>3, <3>1, <3>4, <3>5, <3>6
  <2>4. CASE ReadPayload(q)
    <3>1. client[q].pc = "payload" /\ s2c[q] # <<>>
      BY <2>4 DEF ReadPayload
    <3>2. s2c[q] = <<Msg("payload", i)>>
      BY <1>2, <3>1, Found DEF DownIInv, Frame
    <3>3. Head(s2c[q]).blk = i
      BY <3>2, Short DEF Msg
    <3>4. i \in Nat /\ i <= LastAsked /\ i <= LastServed
      BY <1>2, <3>1 DEF DownIInv, Placed, ClientState
    <3>5. PasteEnd(i, i) \in Nat /\ PasteEnd(i, i) <= src.size
      <4>1. PasteEnd(i, i) \in Nat
        BY <1>2, <3>4, PasteBounds, Sizes
      <4> QED
        BY <1>2, <1>6, <3>4, <4>1, PasteAgreed
    <3>6. src.size \in Nat /\ dst[q].size \in Nat
      BY <1>2, SourceBounds, FileElim, Sizes
    <3>7. old[q].device => src.size <= dst[q].size
      BY <1>2, <1>6 DEF Rigid, Fits
    <3>8. ~(old[q].device /\ PasteEnd(i, i) > dst[q].size)
      BY <3>5, <3>6, <3>7
    <3> HIDE DEF i
    <3>9. client' = [client EXCEPT ![q].pc = "loop", ![q].idx = @ + 1]
      BY <2>4, <3>3, <3>8 DEF ReadPayload, i
    <3> QED
      BY <1>2, <1>3, <3>1, <3>9 DEF ClientState
  <2> QED
    BY <2>2, <2>3, <2>4 DEF ClientStep
<1> QED
  BY <1>1, <1>2, <1>4, <1>5, <1>6 DEF Smooth

LEMMA SmoothHandler ==
  ASSUME SmoothInv, NEW q \in Clients, faults' = 0, faults = 0,
         UNCHANGED <<server, broken>>, HandlerStep(q)
  PROVE  Smooth(q)'
<1> USE DEF At, Serve, Running
<1>0. UNCHANGED inputs /\ old' = old /\ src' = src
  BY InputsStay DEF DownNext, inputs
<1>1. Agreed' = Agreed /\ Fits(q)' = Fits(q)
  BY <1>0, SameTerms DEF Fits
<1>2. DownIInv /\ Smooth(q) /\ handler \in [Clients -> HandlerState]
  BY DEF SmoothInv, TraceInv, ProgressInv, DownIInv, Wires
<1>3. client' = client
  BY <1>2, WiresHandler
<1>4. ASSUME Agreed, handler'[q].pc = "end", ~Left(q) PROVE FALSE
  <2>1. handler[q].pc # "end" /\ q \notin broken
    BY <1>2, <1>4 DEF Smooth
  <2>2. CASE Read(q)
    <3>1. c2s[q] # <<>> /\ Head(c2s[q]).kind = "ask" /\ Head(c2s[q]).blk > LastServed
      BY <1>2, <1>4, <2>1, <2>2 DEF Read, HandlerState
    <3>2. \/ c2s[q] = <<Msg("size", 0)>>
          \/ client[q].pc = "header" /\ c2s[q] = <<Msg("ask", client[q].idx)>>
      BY <1>2, <1>4, <3>1 DEF DownIInv, Frame, FrameOf, Left
    <3>3. \A a : Head(<<a>>) = a
      BY Short
    <3>4. client[q].pc = "header" /\ client[q].idx > LastServed
      BY <3>1, <3>2, <3>3 DEF Msg
    <3>5. client[q].idx <= LastAsked /\ client[q].idx \in Nat
      BY <1>2, <3>4 DEF DownIInv, Placed, Wires, ClientState
    <3>6. LastServed \in Nat /\ LastAsked \in Nat /\ LastServed = LastAsked
      BY <1>2, <1>4, SourceBounds, Sizes DEF DownIInv, Store, Agreed, LastServed, LastAsked, LastBlock
    <3> QED
      BY <3>4, <3>5, <3>6
  <2>3. CASE ~Read(q)
    BY <1>2, <1>4, <2>1, <2>3 DEF HandlerStep, Accept, Header, Payload, End, HandlerState
  <2> QED
    BY <2>2, <2>3
<1> QED
  BY <1>1, <1>2, <1>3, <1>4 DEF Smooth, Left

LEMMA SmoothStart ==
  ASSUME DownInit
  PROVE  SmoothInv
<1>1. \A q \in Clients : Rigid(q) /\ Smooth(q)
  BY DEF DownInit, Rigid, Smooth
<1> QED
  BY <1>1, TraceStart DEF SmoothInv

LEMMA SmoothStep ==
  ASSUME SmoothInv, [DownNext]_downVars
  PROVE  SmoothInv'
<1>1. /\ TraceInv /\ TraceInv' /\ ProgressInv /\ ProgressInv' /\ DownIInv
      /\ faults \in Nat /\ faults' \in Nat
  BY TraceStep, DownloadAssumption DEF SmoothInv, TraceInv, ProgressInv, DownIInv, Store
<1>2. UNCHANGED inputs /\ old' = old /\ src' = src
  BY InputsStay DEF downVars, inputs
<1>3. ASSUME NEW q \in Clients PROVE Rigid(q)'
  <2>1. Rigid(q)
    BY DEF SmoothInv
  <2>2. CASE client'[q] = client[q] /\ dst'[q] = dst[q]
    BY <1>2, <2>1, <2>2 DEF Rigid
  <2> QED
    BY <1>1, <2>1, <2>2, OwnSteps, RigidClient
<1>4. ASSUME NEW q \in Clients PROVE client'[q].pc = "over" => client'[q].end # "none"
  <2>1. CASE client'[q] = client[q]
    BY <2>1 DEF SmoothInv, Smooth
  <2>2. CASE ClientStep(q) \/ DialFails(q) \/ ReadFails(q) \/ WriteFails(q)
    <3>1. client \in [Clients -> ClientState] /\ client[q] \in ClientState
      BY <1>1 DEF DownIInv, Wires
    <3> QED
      BY <2>2, <3>1 DEF ClientState, ClientStep, Dial, Refused, ReadSize, Ask, Complete, ReadHeader,
         ReadPayload, ReadEnds, DialFails, ReadFails, WriteFails, At, Goto, Stop
  <2> QED
    BY <1>1, <2>1, <2>2, OwnSteps
<1>5. ASSUME NEW q \in Clients, faults' = 0 PROVE Smooth(q)'
  <2>1. /\ faults = 0 /\ UNCHANGED <<server, broken>>
        /\ \/ \E r \in Clients : ClientStep(r) \/ HandlerStep(r)
           \/ \E p \in Hashers : HasherStep(p)
           \/ UNCHANGED downVars
    BY <1>1, <1>5, FaultsCounted
  <2>2. Smooth(q)
    BY DEF SmoothInv
  <2>3. ASSUME client'[q] = client[q], handler'[q] = handler[q] PROVE Smooth(q)'
    <3>1. Agreed' = Agreed /\ Fits(q)' = Fits(q)
      BY <1>2, SameTerms DEF Fits
    <3> QED
      BY <2>1, <2>2, <2>3, <3>1 DEF Smooth, Left, At
  <2>4. ASSUME NEW r \in Clients, ClientStep(r) \/ HandlerStep(r) PROVE Smooth(q)'
    <3>1. CASE r = q
      BY <1>5, <2>1, <2>4, <3>1, SmoothClient, SmoothHandler
    <3>2. CASE r # q
      <4>1. client'[q] = client[q] /\ handler'[q] = handler[q]
        BY <1>1, <2>4, <3>2, WiresClient, WiresHandler DEF Only
      <4> QED
        BY <2>3, <4>1
    <3> QED
      BY <3>1, <3>2
  <2>5. CASE (\E p \in Hashers : HasherStep(p)) \/ UNCHANGED downVars
    <3>1. client' = client /\ handler' = handler
      BY <2>5 DEF HasherStep, TakeJob, SetHash, downVars
    <3> QED
      BY <2>3, <3>1
  <2> QED
    BY <2>1, <2>4, <2>5
<1>6. ASSUME NEW q \in Clients PROVE Smooth(q)'
  BY <1>4, <1>5, <1>6 DEF Smooth
<1> QED
  BY <1>1, <1>3, <1>6 DEF SmoothInv

\* A download that ends without a fault is complete, unless the sides disagree or the file does not
\* fit on the block device.
Completes ==
  Agreed /\ faults = 0 => \A q \in Clients : Left(q) /\ Fits(q) => client[q].end = "complete"

\* No order of the steps of clients, handlers and precomputation makes startClientDownload give up
\* by itself: what DownloadEnds says of how a download ends, for any number of clients and blocks.
THEOREM DownCompletes == DownSpec => []Completes
<1>1. SmoothInv => Completes
  BY DEF SmoothInv, Smooth, Completes, Left, At
<1> QED
  BY <1>1, SmoothStart, SmoothStep, PTL DEF DownSpec

---------------------------------------------------------------------------
(* Nobody waits for good.                                                  *)

\* Until a connection is gone, a client's question is on its way to the handler, or with it.
Asked(q) == ~Hung(q) =>
  /\ Waits(q) => \/ handler[q].pc \in {"queued", "read"} /\ c2s[q] # <<>>
                 \/ handler[q].pc \in {"answer", "payload"}
  /\ At(q, "header") /\ s2c[q] = <<Msg("data", client[q].idx)>> => handler[q].pc = "payload"

\* The hash of a block from the server's -s on is there, in hand, or yet to be handed out.
Listed ==
  \A b \in 0 .. LastServed :
    serverSkip <= b /\ cache[b] = "none" => nextJob <= b \/ \E p \in Hashers : job[p] = b

LiveInv == DownIInv /\ Listed /\ \A q \in Clients : Asked(q)

LEMMA AskedClient ==
  ASSUME DownIInv, DownIInv', NEW q \in Clients, Asked(q),
         ClientStep(q) \/ DialFails(q) \/ ReadFails(q) \/ WriteFails(q)
  PROVE  Asked(q)'
<1> USE DEF At, Goto, Stop
<1> DEFINE i == client[q].idx
<1>1. /\ client \in [Clients -> ClientState] /\ client[q] \in ClientState
      /\ handler \in [Clients -> HandlerState]
  BY DEF DownIInv, Wires
<1>2. UNCHANGED <<server, broken>>
  BY StoreClient
<1>3. CASE Dial(q)
  <2>1. /\ client'[q].pc = "size" /\ handler'[q].pc = "queued" /\ c2s'[q] = <<Msg("size", 0)>>
    BY <1>1, <1>3 DEF Dial, DownIInv, Wires
  <2> QED
    BY <2>1, Short DEF Asked
<1>4. CASE Ask(q)
  <2>1. client[q].pc = "loop" /\ handler' = handler /\ s2c' = s2c
    BY <1>4 DEF Ask
  <2>2. c2s[q] = <<>> /\ s2c[q] = <<>> /\ handler[q].pc \in {"read", "end"}
    BY <2>1 DEF DownIInv, Frame, FrameOf
  <2>3. SUFFICES ASSUME ~Hung(q)', client'[q].pc = "header" PROVE c2s'[q] # <<>>
    <3>1. client'[q].pc \in {"header", "over"}
      BY <1>1, <1>4 DEF Ask, ClientState
    <3>2. s2c'[q] = <<>>
      BY <2>1, <2>2
    <3>3. ~Hung(q)' => handler'[q].pc = "read"
      BY <2>1, <2>2 DEF Hung
    <3>4. \A m : <<>> # <<m>>
      BY Short
    <3> QED
      BY <2>3, <3>1, <3>2, <3>3, <3>4 DEF Asked, Waits
  <2>4. ~Hung(q)
    BY <1>2, <2>1, <2>3 DEF Hung
  <2>5. c2s' = [c2s EXCEPT ![q] = Append(@, Msg("ask", i))]
    BY <1>4, <2>4 DEF Ask
  <2>6. c2s'[q] = <<Msg("ask", i)>>
    BY <2>2, <2>5, Short DEF DownIInv, Wires
  <2> QED
    BY <2>6, Short
<1>5. CASE ReadHeader(q)
  <2>1. client[q].pc = "header" /\ s2c[q] # <<>> /\ handler' = handler /\ s2c'[q] = Tail(s2c[q])
        /\ client'[q].pc \in {"over", "loop", "payload"}
    BY <1>1, <1>5 DEF ReadHeader, DownIInv, Wires, ClientState
  <2>2. SUFFICES ASSUME ~Hung(q)', client'[q].pc = "payload", s2c'[q] = <<>>
                 PROVE  handler'[q].pc = "payload"
    BY <2>1 DEF Asked, Waits
  <2>3. ~Hung(q)
    BY <1>2, <2>1, <2>2 DEF Hung
  <2>4. Head(s2c[q]).kind = "data"
    BY <1>1, <1>5, <2>1, <2>2 DEF ReadHeader, ClientState
  <2>5. s2c[q] \in {<<Msg("zero", i)>>, <<Msg("done", i)>>, <<Msg("data", i)>>,
                    <<Msg("data", i), Msg("payload", i)>>}
    BY <2>1, Found DEF DownIInv, Frame
  <2>6. /\ Head(<<Msg("zero", i)>>).kind = "zero" /\ Head(<<Msg("done", i)>>).kind = "done"
        /\ Tail(<<Msg("data", i), Msg("payload", i)>>) # <<>>
    BY Short DEF Msg
  <2>7. s2c[q] = <<Msg("data", i)>>
    BY <2>1, <2>2, <2>4, <2>5, <2>6
  <2> QED
    BY <2>1, <2>3, <2>7 DEF Asked
<1>6. CASE ~(Dial(q) \/ Ask(q) \/ ReadHeader(q))
  <2>1. client'[q].pc \in {"loop", "break", "over"}
    BY <1>1, <1>6 DEF ClientStep, Refused, DialFails, ReadSize, Complete, ReadPayload, ReadEnds,
       ReadFails, WriteFails, ClientState
  <2> QED
    BY <2>1 DEF Asked, Waits
<1> QED
  BY <1>3, <1>4, <1>5, <1>6

LEMMA AskedHandler ==
  ASSUME DownIInv, DownIInv', NEW q \in Clients, Asked(q),
         HandlerStep(q) \/ HandlerFails(q) \/ Break(q)
  PROVE  Asked(q)'
<1> USE DEF At, Serve, Running
<1> DEFINE i == client[q].idx
<1>1. /\ handler \in [Clients -> HandlerState] /\ handler[q] \in HandlerState
      /\ server \in {"serving", "ended"}
  BY DEF DownIInv, Wires, Store
<1>2. client' = client /\ server' = server
  BY WiresHandler
<1>3. SUFFICES ASSUME ~Hung(q)', ~Left(q) PROVE Asked(q)'
  BY <1>2 DEF Asked, Waits, Left
<1>4. q \notin broken /\ server = "serving" /\ handler'[q].pc # "end"
  <2>1. broken \subseteq broken'
    BY InputsStay DEF DownNext, FaultStep
  <2> QED
    BY <1>1, <1>2, <1>3, <2>1 DEF Hung
<1>5. ~End(q) /\ ~HandlerFails(q) /\ ~Break(q)
  BY <1>1, <1>3, <1>4 DEF End, HandlerFails, Break, HandlerState, Hung
<1>6. CASE Accept(q)
  <2>1. handler[q].pc = "queued" /\ handler'[q].pc = "read" /\ c2s' = c2s /\ s2c' = s2c
    BY <1>1, <1>6 DEF Accept, HandlerState, netVars
  <2>2. ~Hung(q)
    BY <1>4, <2>1 DEF Hung
  <2> QED
    BY <1>2, <2>1, <2>2 DEF Asked, Waits
<1>7. CASE Read(q)
  <2>1. handler[q].pc = "read" /\ c2s[q] # <<>> /\ ~Hung(q)
    BY <1>4, <1>7 DEF Read, Hung
  <2>2. /\ c2s[q] \in {<<Msg("size", 0)>>, <<Msg("ask", i)>>} /\ s2c[q] = <<>>
    BY <1>3, <2>1 DEF DownIInv, Frame, FrameOf, Left
  <2>3. \/ handler'[q].pc = "answer" /\ s2c' = s2c
        \/ client[q].pc = "size" /\ s2c'[q] # <<>>
    <3>1. CASE Head(c2s[q]).kind = "size"
      <4>1. client[q].pc = "size"
        <5>1. Head(<<Msg("ask", i)>>).kind = "ask"
          BY Short DEF Msg
        <5>2. c2s[q] = <<Msg("size", 0)>>
          BY <2>2, <3>1, <5>1
        <5> QED
          BY <1>3, <2>1, <5>1, <5>2, <3>1 DEF DownIInv, Frame, FrameOf, Left
      <4>2. s2c' = [s2c EXCEPT ![q] = Append(@, Head(c2s[q]))]
        BY <1>3, <1>4, <1>7, <3>1 DEF Read, Answer
      <4>3. s2c'[q] = <<Head(c2s[q])>>
        BY <2>2, <4>2, Short DEF DownIInv, Wires
      <4> QED
        BY <4>1, <4>3, Short
    <3>2. CASE Head(c2s[q]).kind # "size"
      BY <1>1, <1>4, <1>7, <2>1, <3>2 DEF Read, HandlerState
    <3> QED
      BY <3>1, <3>2
  <2>4. \A m : <<>> # <<m>>
    BY Short
  <2> QED
    BY <1>2, <2>2, <2>3, <2>4 DEF Asked, Waits
<1>8. CASE Header(q)
  <2> DEFINE b == handler[q].blk
  <2>1. handler[q].pc = "answer" /\ c2s' = c2s
    BY <1>8 DEF Header
  <2>2. client[q].pc = "header" /\ s2c[q] = <<>> /\ b = i
    BY <1>3, <2>1 DEF DownIInv, Frame, FrameOf, Left
  <2>3. \/ s2c' = [s2c EXCEPT ![q] = Append(@, Msg("zero", b))]
        \/ s2c' = [s2c EXCEPT ![q] = Append(@, Msg("data", b))] /\ handler'[q].pc = "payload"
    BY <1>1, <1>3, <1>4, <1>8 DEF Header, Answer, HandlerState
  <2>4. \/ s2c'[q] = <<Msg("zero", i)>>
        \/ s2c'[q] = <<Msg("data", i)>> /\ handler'[q].pc = "payload"
    BY <2>2, <2>3, Short DEF DownIInv, Wires
  <2>5. <<Msg("zero", i)>> # <<Msg("data", i)>>
    <3>1. Head(<<Msg("zero", i)>>).kind = "zero" /\ Head(<<Msg("data", i)>>).kind = "data"
      BY Short DEF Msg
    <3> QED
      BY <3>1
  <2>6. s2c'[q] # <<>> /\ client'[q].idx = i
    BY <1>2, <2>4, Short
  <2> QED
    BY <2>4, <2>5, <2>6 DEF Asked, Waits
<1>9. CASE Payload(q)
  <2> DEFINE b == handler[q].blk
  <2>1. handler[q].pc = "payload" /\ c2s' = c2s /\ handler'[q].pc = "read" /\ ~Hung(q)
    BY <1>1, <1>4, <1>9 DEF Payload, HandlerState, Hung
  <2>2. \/ client[q].pc = "header" /\ s2c[q] = <<Msg("data", i)>>
        \/ client[q].pc = "payload" /\ s2c[q] = <<>>
    BY <1>3, <1>4, <2>1 DEF DownIInv, Frame, FrameOf, Left
  <2>3. s2c' = [s2c EXCEPT ![q] = Append(@, Msg("payload", b))]
    BY <1>3, <1>4, <1>9 DEF Payload, Answer
  <2>4. \/ client[q].pc = "header" /\ s2c'[q] = <<Msg("data", i), Msg("payload", b)>>
        \/ client[q].pc = "payload" /\ s2c'[q] = <<Msg("payload", b)>>
    <3>1. s2c'[q] = Append(s2c[q], Msg("payload", b))
      BY <2>3 DEF DownIInv, Wires
    <3>2. \A x, y : Append(<<>>, y) = <<y>> /\ Append(<<x>>, y) = <<x, y>>
      BY Short
    <3> QED
      BY <2>2, <3>1, <3>2, Zenon
  <2>5. \A x, y : <<x, y>> # <<x>> /\ <<x>> # <<>> /\ <<x, y>> # <<>>
    BY Short
  <2> QED
    BY <1>2, <2>4, <2>5 DEF Asked, Waits
<1> QED
  BY <1>5, <1>6, <1>7, <1>8, <1>9 DEF HandlerStep

LEMMA ListedStep ==
  ASSUME DownIInv, Listed, DownNext
  PROVE  Listed'
<1>0. LastServed' = LastServed /\ serverSkip' = serverSkip
  BY InputsStay DEF serverSkip
<1>1. /\ nextJob \in Nat /\ LastServed \in Nat
      /\ job \in [Hashers -> {NoJob} \cup 0 .. LastServed]
      /\ cache \in [0 .. LastServed -> {"none", "zero", "other"}]
  BY SourceBounds DEF DownIInv, Store
<1>2. \A b \in 0 .. LastServed : b # NoJob
  BY <1>1 DEF NoJob
<1>3. CASE UNCHANGED cacheVars
  BY <1>0, <1>3 DEF Listed, cacheVars
<1>4. ASSUME NEW p \in Hashers, TakeJob(p) PROVE Listed'
  <2>1. /\ job[p] = NoJob /\ job' = [job EXCEPT ![p] = nextJob] /\ nextJob' = nextJob + 1
        /\ cache' = cache
    BY <1>4 DEF TakeJob
  <2>2. ASSUME NEW b \in 0 .. LastServed, nextJob <= b \/ \E r \in Hashers : job[r] = b
        PROVE  nextJob' <= b \/ \E r \in Hashers : job'[r] = b
    <3>1. CASE b = nextJob
      BY <1>1, <2>1, <3>1
    <3>2. CASE nextJob <= b /\ b # nextJob
      BY <1>1, <2>1, <3>2
    <3>3. CASE \E r \in Hashers : job[r] = b
      <4>1. PICK r \in Hashers : job[r] = b
        BY <3>3
      <4>2. r # p
        BY <1>2, <2>1, <4>1
      <4> QED
        BY <1>1, <2>1, <4>1, <4>2
    <3> QED
      BY <2>2, <3>1, <3>2, <3>3
  <2> QED
    BY <1>0, <2>1, <2>2 DEF Listed
<1>5. ASSUME NEW p \in Hashers, SetHash(p) \/ HashFails(p) PROVE Listed'
  <2>1. /\ job[p] \in 0 .. LastServed /\ job' = [job EXCEPT ![p] = NoJob] /\ nextJob' = nextJob
        /\ cache'[job[p]] # "none"
        /\ \A b \in 0 .. LastServed : b # job[p] => cache'[b] = cache[b]
    BY <1>1, <1>5 DEF SetHash, HashFails
  <2>2. \A r \in Hashers : job[r] # job[p] => job'[r] = job[r]
    BY <1>1, <2>1
  <2> QED
    BY <1>0, <2>1, <2>2 DEF Listed
<1> QED
  <2>1. ASSUME NEW q \in Clients, ClientStep(q) \/ DialFails(q) \/ ReadFails(q) \/ WriteFails(q)
        PROVE  UNCHANGED cacheVars
    BY <2>1, StoreClient
  <2>2. ASSUME NEW q \in Clients, HandlerStep(q) \/ HandlerFails(q) \/ Break(q)
        PROVE  UNCHANGED cacheVars
    BY <2>2, WiresHandler
  <2>3. AcceptFails => UNCHANGED cacheVars
    BY DEF AcceptFails
  <2> QED
    BY <1>3, <1>4, <1>5, <2>1, <2>2, <2>3 DEF DownNext, FaultStep, HasherStep

LEMMA LiveStart ==
  ASSUME DownInit
  PROVE  LiveInv
<1>1. DownIInv
  BY DownStart
<1>2. Listed
  BY DEF DownInit, Listed
<1>3. \A q \in Clients : Asked(q)
  BY DEF DownInit, Asked, Waits, At
<1> QED
  BY <1>1, <1>2, <1>3 DEF LiveInv

LEMMA LiveStep ==
  ASSUME LiveInv, [DownNext]_downVars
  PROVE  LiveInv'
<1>1. DownIInv /\ DownIInv'
  BY DownStep DEF LiveInv
<1>2. Listed'
  <2>1. CASE UNCHANGED downVars
    BY <2>1 DEF LiveInv, Listed, downVars, inputs, cacheVars, LastServed, serverSize, serverSkip
  <2> QED
    BY <1>1, <2>1, ListedStep DEF LiveInv
<1>3. ASSUME NEW q \in Clients PROVE Asked(q)'
  <2>1. Asked(q)
    BY DEF LiveInv
  <2>2. ASSUME UNCHANGED <<client[q], handler[q], c2s[q], s2c[q]>>, broken \subseteq broken',
               server = "ended" => server' = "ended"
        PROVE  Asked(q)'
    BY <2>1, <2>2 DEF Asked, Hung, Waits, At, Msg
  <2>3. ASSUME NEW r \in Clients, ClientStep(r) \/ DialFails(r) \/ ReadFails(r) \/ WriteFails(r)
        PROVE  Asked(q)'
    <3>1. CASE r = q
      BY <1>1, <2>1, <2>3, <3>1, AskedClient
    <3>2. CASE r # q
      <4>1. Only(r) /\ UNCHANGED <<broken, server>>
        BY <1>1, <2>3, WiresClient, StoreClient
      <4> QED
        BY <2>2, <3>2, <4>1 DEF Only
    <3> QED
      BY <3>1, <3>2
  <2>4. ASSUME NEW r \in Clients, HandlerStep(r) \/ HandlerFails(r) \/ Break(r)
        PROVE  Asked(q)'
    <3>1. CASE r = q
      BY <1>1, <2>1, <2>4, <3>1, AskedHandler
    <3>2. CASE r # q
      <4>1. Only(r) /\ UNCHANGED server
        BY <1>1, <2>4, WiresHandler
      <4>2. broken \subseteq broken'
        BY <2>4, InputsStay DEF DownNext, FaultStep
      <4> QED
        BY <2>2, <3>2, <4>1, <4>2 DEF Only
    <3> QED
      BY <3>1, <3>2
  <2>5. CASE AcceptFails \/ (\E p \in Hashers : HasherStep(p) \/ HashFails(p)) \/ UNCHANGED downVars
    <3>1. UNCHANGED <<client, handler, c2s, s2c, broken>> /\ (server = "ended" => server' = "ended")
      BY <2>5 DEF AcceptFails, HasherStep, TakeJob, SetHash, HashFails, downVars, netVars
    <3> QED
      BY <2>2, <3>1
  <2> QED
    BY <2>3, <2>4, <2>5 DEF DownNext, FaultStep
<1> QED
  BY <1>1, <1>2, <1>3 DEF LiveInv

\* What ENABLED says of ClientStep, HandlerStep and HasherStep: the client can go on if it reads
\* what is there or cannot come, a handler if it has a request, a hash or nobody to serve, a
\* precompute worker if it has a block or there is one.
ClientCan(q) ==
  \/ client[q].pc \in {"dial", "loop", "break"}
  \/ ~Left(q) /\ (s2c[q] # <<>> \/ Hung(q) \/ NoAnswer(q))
HandlerCan(q) ==
  /\ server = "serving"
  /\ \/ handler[q].pc \in {"queued", "payload"}
     \/ handler[q].pc = "read" /\ (c2s[q] # <<>> \/ Left(q) \/ q \in broken)
     \/ handler[q].pc = "answer" /\ cache[handler[q].blk] # "none"
HasherCan(p) == server = "serving" /\ (job[p] # NoJob \/ nextJob <= LastServed)

\* Who waits, waits for one who can go on: a client that is not over for its handler, a handler
\* that is not over for its client or a precompute worker.
DownNeverStuck == \A q \in Clients :
  /\ ~Left(q) => ClientCan(q) \/ HandlerCan(q) \/ \E p \in Hashers : HasherCan(p)
  /\ Left(q) => \/ handler[q].pc \in {"unused", "end"} \/ server = "ended" \/ NoAnswer(q)
               \/ HandlerCan(q) \/ \E p \in Hashers : HasherCan(p)

\* startServerUpload's precomputation with at least one worker, its handlers and the clients never
\* all wait: the only wait without an end is the one for a block that the server's -s skips, and
\* there the client gives up at its deadline.
THEOREM DownloadNeverStuck ==
  ASSUME Hashers # {}
  PROVE  DownSpec => []DownNeverStuck
<1>1. ASSUME LiveInv PROVE DownNeverStuck
  <2>1. ASSUME NEW q \in Clients, handler[q].pc = "answer", ~NoAnswer(q), server = "serving"
        PROVE  HandlerCan(q) \/ \E p \in Hashers : HasherCan(p)
    <3> DEFINE b == handler[q].blk
    <3>1. b \in 0 .. LastServed /\ serverSkip \in Nat /\ LastServed \in Nat /\ nextJob \in Nat
      BY <1>1, SourceBounds DEF LiveInv, DownIInv, Store, Wires, HandlerState
    <3>2. serverSkip <= b
      BY <2>1, <3>1 DEF NoAnswer
    <3>3. CASE cache[b] # "none"
      BY <2>1, <3>3 DEF HandlerCan
    <3>4. CASE cache[b] = "none"
      <4>1. nextJob <= b \/ \E p \in Hashers : job[p] = b
        BY <1>1, <3>1, <3>2, <3>4 DEF LiveInv, Listed
      <4>2. CASE nextJob <= b
        <5>1. nextJob <= LastServed
          BY <3>1, <4>2
        <5> QED
          BY <2>1, <5>1 DEF HasherCan
      <4>3. CASE \E p \in Hashers : job[p] = b
        <5>1. b # NoJob
          BY <3>1 DEF NoJob
        <5> QED
          BY <2>1, <4>3, <5>1 DEF HasherCan
      <4> QED
        BY <4>1, <4>2, <4>3
    <3> QED
      BY <3>3, <3>4
  <2>2. ASSUME NEW q \in Clients, ~Left(q), ~ClientCan(q)
        PROVE  HandlerCan(q) \/ \E p \in Hashers : HasherCan(p)
    <3>1. client[q].pc \in Pcs /\ server \in {"serving", "ended"}
      BY <1>1 DEF LiveInv, DownIInv, Store, Wires, ClientState
    <3>2. Waits(q) /\ ~Hung(q) /\ ~NoAnswer(q)
      BY <2>2, <3>1 DEF ClientCan, Left, Waits, At, Pcs
    <3>3. server = "serving"
      BY <3>1, <3>2 DEF Hung
    <3>4. \/ handler[q].pc \in {"queued", "read"} /\ c2s[q] # <<>>
          \/ handler[q].pc \in {"answer", "payload"}
      BY <1>1, <3>2 DEF LiveInv, Asked
    <3> QED
      BY <2>1, <3>2, <3>3, <3>4 DEF HandlerCan
  <2>3. ASSUME NEW q \in Clients, Left(q), handler[q].pc \notin {"unused", "end"}, server # "ended",
               ~NoAnswer(q)
        PROVE  HandlerCan(q) \/ \E p \in Hashers : HasherCan(p)
    <3>1. handler[q].pc \in {"queued", "read", "answer", "payload"} /\ server = "serving"
      BY <1>1, <2>3 DEF LiveInv, DownIInv, Store, Wires, HandlerState
    <3> QED
      BY <2>1, <2>3, <3>1 DEF HandlerCan
  <2> QED
    BY <2>2, <2>3 DEF DownNeverStuck
<1> QED
  BY <1>1, LiveStart, LiveStep, PTL DEF DownSpec

---------------------------------------------------------------------------
(* How long a download takes.                                              *)

\* At most so many steps of the client are left with the next block i: eight for a block, to have
\* some in hand for the request and the answer.
Rank(pc) ==
  IF pc = "dial" THEN 8 ELSE IF pc = "size" THEN 2 ELSE IF pc = "loop" THEN 1
  ELSE IF pc = "header" THEN -4 ELSE IF pc = "payload" THEN -5 ELSE -6
PhaseOf(pc, i) ==
  IF pc = "over" THEN 0
  ELSE 8 * (IF i <= LastAsked THEN LastAsked + 1 - i ELSE 0) + Rank(pc)

\* At most so many of the handler for the request it has read.
ReplyOf(h) ==
  IF h = "answer" THEN 3 ELSE IF h \in {"queued", "payload"} THEN 2 ELSE IF h = "read" THEN 1 ELSE 0

\* At most so many for one download, with its requests under way and a break of its connection.
StepsOf(q) ==
  PhaseOf(client[q].pc, client[q].idx) + ReplyOf(handler[q].pc) + 3 * Len(c2s[q])
    + (IF q \in broken THEN 0 ELSE 1)

\* At most so many of the precompute workers: two for a block.
HashSteps ==
  2 * (IF nextJob <= LastServed THEN LastServed + 1 - nextJob ELSE 0)
    + Cardinality({p \in Hashers : job[p] # NoJob})

\* Sums the counts of steps are made of.
LEMMA SumLess ==
  ASSUME NEW p \in Nat, NEW r \in 0 .. 3, NEW l \in Nat
  PROVE  /\ (p - 1) + r + 3 * l < p + r + 3 * l
         /\ (p - 2) + r + 3 * l < p + r + 3 * l
         /\ (p - 3) + r + 3 * l < p + r + 3 * l
         /\ (p - 5) + r + 3 * 0 < p + r + 3 * 0
         /\ (p - 5) + r + 3 * 1 < p + r + 3 * 0
OBVIOUS

LEMMA LessSum ==
  ASSUME NEW p \in Nat, NEW r \in 0 .. 3, NEW r2 \in 0 .. 3, NEW l \in Nat, NEW l2 \in Nat,
         NEW b \in 0 .. 1, NEW b2 \in 0 .. 1,
         (r2 < r /\ l2 = l /\ b2 = b) \/ (r2 = r /\ l2 <= l /\ b2 < b)
  PROVE  p + r2 + 3 * l2 + b2 < p + r + 3 * l + b
OBVIOUS

LEMMA SumNat ==
  ASSUME NEW p \in Nat, NEW r \in 0 .. 3, NEW l \in Nat, NEW b \in 0 .. 1
  PROVE  p + r + 3 * l + b \in Nat
OBVIOUS

LEMMA SumStrict ==
  ASSUME NEW p \in Nat, NEW r \in 0 .. 3, NEW l \in Nat, NEW b \in 0 .. 1,
         NEW p2 \in Nat, NEW r2 \in 0 .. 3, NEW l2 \in Nat,
         p2 + r2 + 3 * l2 < p + r + 3 * l
  PROVE  p2 + r2 + 3 * l2 + b < p + r + 3 * l + b
OBVIOUS

LEMMA SumTwice ==
  ASSUME NEW t \in Nat, NEW c \in Nat
  PROVE  /\ t - 1 \in Nat => 2 * (t - 1) + (c + 1) \in Nat /\ 2 * (t - 1) + (c + 1) < 2 * t + c
         /\ c - 1 \in Nat => 2 * t + (c - 1) \in Nat /\ 2 * t + (c - 1) < 2 * t + c
OBVIOUS

LEMMA PhaseFalls ==
  ASSUME LastAsked \in Nat, NEW i \in Nat
  PROVE  /\ \A pc \in {"dial", "size", "loop", "over"} : PhaseOf(pc, i) \in Nat
         /\ \A pc \in {"dial", "size", "loop"} : PhaseOf(pc, i) > 0
         /\ i <= LastAsked => \A pc \in {"header", "payload", "break"} :
              PhaseOf(pc, i) \in Nat /\ PhaseOf(pc, i) > 0
         /\ PhaseOf("over", i) = 0
         /\ PhaseOf("size", i) = PhaseOf("dial", i) - 6
         /\ PhaseOf("loop", i) = PhaseOf("size", i) - 1
         /\ PhaseOf("header", i) = PhaseOf("loop", i) - 5
         /\ PhaseOf("payload", i) = PhaseOf("header", i) - 1
         /\ PhaseOf("break", i) = PhaseOf("payload", i) - 1
         /\ i <= LastAsked => PhaseOf("loop", i + 1) = PhaseOf("payload", i) - 2
BY DEF PhaseOf, Rank

\* Phase of a client is a number of steps, and one it has not used up before it is over.
LEMMA PhaseNat ==
  ASSUME DownIInv, NEW q \in Clients
  PROVE  /\ PhaseOf(client[q].pc, client[q].idx) \in Nat
         /\ client[q].pc # "over" => PhaseOf(client[q].pc, client[q].idx) > 0
<1>1. client[q].pc \in Pcs /\ client[q].idx \in Nat /\ Placed(q)
  BY DEF DownIInv, Wires, ClientState
<1>2. LastAsked \in Nat
  <2>1. LastAsked \in Block
    BY SourceBounds DEF DownIInv, Store
  <2> QED
    BY <2>1, Sizes
<1> QED
  BY <1>1, <1>2, PhaseFalls DEF Placed, Pcs

\* A client's step takes one of its own at least, and as many more as it gives the handler.
LEMMA ClientFalls ==
  ASSUME DownIInv, DownIInv', NEW q \in Clients,
         ClientStep(q) \/ DialFails(q) \/ ReadFails(q) \/ WriteFails(q)
  PROVE  StepsOf(q)' \in Nat /\ StepsOf(q)' < StepsOf(q)
<1> USE DEF At
<1> DEFINE i == client[q].idx
           P == PhaseOf(client[q].pc, i)
           R == ReplyOf(handler[q].pc)
           L == Len(c2s[q])
           B == IF q \in broken THEN 0 ELSE 1
<1>1. /\ client \in [Clients -> ClientState] /\ client[q] \in ClientState /\ i \in Nat
      /\ client'[q].pc \in Pcs /\ client'[q].idx \in Nat /\ Placed(q)'
      /\ handler \in [Clients -> HandlerState]
      /\ c2s \in [Clients -> Seq(Message)] /\ c2s' \in [Clients -> Seq(Message)']
  BY DEF DownIInv, Wires, ClientState
<1>0. LastAsked \in Nat
  <2>1. LastAsked \in Block
    BY SourceBounds DEF DownIInv, Store
  <2> QED
    BY <2>1, Sizes
<1>2. LastAsked' = LastAsked /\ broken' = broken
  BY InputsStay, StoreClient DEF DownNext, FaultStep
<1>4. P' = PhaseOf(client'[q].pc, client'[q].idx)
  BY <1>2 DEF PhaseOf, Rank
<1>3. P \in Nat /\ P' \in Nat /\ (client[q].pc # "over" => P > 0)
  <2>1. P \in Nat /\ (client[q].pc # "over" => P > 0)
    BY PhaseNat
  <2>2. PhaseOf(client'[q].pc, client'[q].idx) \in Nat
    BY <1>0, <1>1, <1>2, PhaseFalls DEF Placed, Pcs
  <2> HIDE DEF P
  <2> QED
    BY <1>4, <2>1, <2>2
<1>5. L \in Nat /\ L' \in Nat /\ R \in 0 .. 3 /\ R' \in 0 .. 3 /\ B \in 0 .. 1 /\ B' = B
  BY <1>1, <1>2 DEF ReplyOf
<1>6. P' + R' + 3 * L' < P + R + 3 * L
        => StepsOf(q)' \in Nat /\ StepsOf(q)' < StepsOf(q)
  <2>1. StepsOf(q) = P + R + 3 * L + B /\ StepsOf(q)' = P' + R' + 3 * L' + B'
    BY DEF StepsOf
  <2> HIDE DEF P, R, L, B
  <2>2. P' + R' + 3 * L' + B' \in Nat
    BY <1>3, <1>5, SumNat
  <2>3. ASSUME P' + R' + 3 * L' < P + R + 3 * L
        PROVE  P' + R' + 3 * L' + B' < P + R + 3 * L + B
    BY <1>3, <1>5, <2>3, SumStrict
  <2> QED
    BY <2>1, <2>2, <2>3
<1> SUFFICES P' + R' + 3 * L' < P + R + 3 * L
  BY <1>6
<1>7. CASE Dial(q)
  <2>1. /\ client[q].pc = "dial" /\ client'[q].pc = "size" /\ client'[q].idx = i
        /\ handler'[q].pc = "queued" /\ c2s'[q] = <<Msg("size", 0)>>
    BY <1>1, <1>7 DEF Dial, Goto, ClientState
  <2>2. R = 0 /\ L = 0
    BY <2>1 DEF DownIInv, Frame, FrameOf, ReplyOf
  <2>3. R' = 2 /\ L' = 1
    BY <2>1 DEF ReplyOf
  <2>4. P' = P - 6
    BY <1>0, <1>1, <1>4, <2>1, PhaseFalls
  <2> HIDE DEF P, R, L
  <2> QED
    BY <1>3, <2>2, <2>3, <2>4
<1>8. CASE Ask(q)
  <2>1. client[q].pc = "loop" /\ handler' = handler
    BY <1>8 DEF Ask
  <2>2. R' = R
    BY <2>1
  <2>3. CASE client'[q].pc = "over"
    <3>1. c2s' = c2s
      BY <1>1, <1>8, <2>3 DEF Ask, Goto, ClientState
    <3>2. P' = 0 /\ L' = L /\ P > 0
      BY <1>3, <1>4, <2>1, <2>3, <3>1 DEF PhaseOf
    <3> HIDE DEF P, R, L
    <3> QED
      BY <1>3, <1>5, <2>2, <3>2
  <2>4. CASE client'[q].pc # "over"
    <3>1. client'[q].pc = "header" /\ client'[q].idx = i
          /\ (c2s' = c2s \/ c2s' = [c2s EXCEPT ![q] = Append(@, Msg("ask", i))])
      BY <1>1, <1>8, <2>4 DEF Ask, Goto, Stop, ClientState
    <3>2. c2s[q] = <<>>
      BY <2>1 DEF DownIInv, Frame, FrameOf
    <3>3. c2s'[q] = <<>> \/ c2s'[q] = <<Msg("ask", i)>>
      BY <1>1, <3>1, <3>2, Short
    <3>4. L = 0 /\ L' \in {0, 1}
      BY <3>2, <3>3
    <3>5. P' = P - 5
      BY <1>0, <1>1, <1>4, <2>1, <3>1, PhaseFalls
    <3> HIDE DEF P, R, L
    <3> QED
      BY <1>3, <1>5, <2>2, <3>4, <3>5, SumLess
  <2> QED
    BY <2>3, <2>4
<1>9. CASE ~Dial(q) /\ ~Ask(q)
  <2>1. handler' = handler /\ c2s' = c2s /\ client[q].pc # "over"
    BY <1>9 DEF ClientStep, Refused, ReadSize, Complete, ReadHeader, ReadPayload, ReadEnds,
       DialFails, ReadFails, WriteFails, Waits, netVars
  <2>2. R' = R /\ L' = L
    BY <2>1
  <2>3. CASE client'[q].pc = "over"
    <3>1. P' = 0 /\ P > 0
      BY <1>3, <1>4, <2>1, <2>3 DEF PhaseOf
    <3> HIDE DEF P, R, L
    <3> QED
      BY <1>3, <1>5, <2>2, <3>1
  <2>4. CASE ReadSize(q)
    <3>1. client[q].pc = "size" /\ client'[q].pc = "loop" /\ client'[q].idx = i
      BY <1>1, <2>4 DEF ReadSize, Goto, ClientState
    <3>2. P' = P - 1
      BY <1>0, <1>1, <1>4, <3>1, PhaseFalls
    <3> HIDE DEF P, R, L
    <3> QED
      BY <1>3, <1>5, <2>2, <3>2
  <2>5. CASE ReadHeader(q) /\ client'[q].pc # "over"
    <3>1. /\ client[q].pc = "header"
          /\ \/ client'[q].pc = "loop" /\ client'[q].idx = i + 1
             \/ client'[q].pc = "payload" /\ client'[q].idx = i
      BY <1>1, <2>5 DEF ReadHeader, Goto, Stop, ClientState
    <3>2. i <= LastAsked
      BY <3>1 DEF DownIInv, Placed
    <3>3. P' = P - 1 \/ P' = P - 3
      <4>1. CASE client'[q].pc = "payload"
        BY <1>0, <1>1, <1>4, <3>1, <4>1, PhaseFalls
      <4>2. CASE client'[q].pc = "loop"
        <5>1. /\ P = PhaseOf("header", i) /\ P' = PhaseOf("loop", i + 1)
              /\ PhaseOf("payload", i) = PhaseOf("header", i) - 1
              /\ PhaseOf("loop", i + 1) = PhaseOf("payload", i) - 2
          BY <1>0, <1>1, <1>4, <3>1, <3>2, <4>2, PhaseFalls
        <5> HIDE DEF P
        <5> QED
          BY <1>3, <5>1
      <4> QED
        BY <3>1, <4>1, <4>2
    <3> HIDE DEF P, R, L
    <3> QED
      BY <1>3, <1>5, <2>2, <3>3, SumLess
  <2>6. CASE ReadPayload(q) \/ WriteFails(q)
    <3>1. /\ client[q].pc = "payload"
          /\ \/ client'[q].pc = "loop" /\ client'[q].idx = i + 1
             \/ client'[q].pc = "break" /\ client'[q].idx = i
      BY <1>1, <2>6 DEF ReadPayload, WriteFails, Goto, ClientState
    <3>2. i <= LastAsked
      BY <3>1 DEF DownIInv, Placed
    <3>3. P' = P - 1 \/ P' = P - 2
      BY <1>0, <1>1, <1>4, <3>1, <3>2, PhaseFalls
    <3> HIDE DEF P, R, L
    <3> QED
      BY <1>3, <1>5, <2>2, <3>3, SumLess
  <2>7. Refused(q) \/ Complete(q) \/ ReadEnds(q) \/ DialFails(q) \/ ReadFails(q)
          => client'[q].pc = "over"
    BY <1>1 DEF Refused, Complete, ReadEnds, DialFails, ReadFails, Stop, ClientState
  <2> QED
    BY <1>9, <2>3, <2>4, <2>5, <2>6, <2>7 DEF ClientStep
<1> QED
  BY <1>7, <1>8, <1>9

\* A handler's step takes one of the handler's or of the requests, and a break is one itself.
LEMMA HandlerFalls ==
  ASSUME DownIInv, DownIInv', NEW q \in Clients,
         HandlerStep(q) \/ HandlerFails(q) \/ Break(q)
  PROVE  StepsOf(q)' \in Nat /\ StepsOf(q)' < StepsOf(q)
<1> USE DEF Running, Serve
<1> DEFINE P == PhaseOf(client[q].pc, client[q].idx)
           R == ReplyOf(handler[q].pc)
           L == Len(c2s[q])
           B == IF q \in broken THEN 0 ELSE 1
<1>1. /\ handler \in [Clients -> HandlerState] /\ handler[q] \in HandlerState
      /\ c2s \in [Clients -> Seq(Message)] /\ c2s' \in [Clients -> Seq(Message)']
  BY DEF DownIInv, Wires
<1>2. client' = client /\ LastAsked' = LastAsked
  BY WiresHandler, InputsStay DEF DownNext, FaultStep
<1>3. P \in Nat /\ P' = P
  <2>1. P \in Nat
    BY PhaseNat
  <2> QED
    BY <1>2, <2>1 DEF PhaseOf, Rank
<1>4. L \in Nat /\ L' \in Nat /\ R \in 0 .. 3 /\ R' \in 0 .. 3 /\ B \in 0 .. 1 /\ B' \in 0 .. 1
  BY <1>1 DEF ReplyOf
<1>5. StepsOf(q) = P + R + 3 * L + B /\ StepsOf(q)' = P' + R' + 3 * L' + B'
  BY DEF StepsOf
<1>9. StepsOf(q)' \in Nat
  <2> HIDE DEF P, R, L, B
  <2>1. P' + R' + 3 * L' + B' \in Nat
    BY <1>3, <1>4, SumNat
  <2> QED
    BY <1>5, <2>1
<1> SUFFICES StepsOf(q)' < StepsOf(q)
  BY <1>9
<1>6. CASE Read(q)
  <2>1. B' = B /\ L' = L - 1
    <3>1. /\ c2s[q] # <<>> /\ c2s' = [c2s EXCEPT ![q] = Tail(@)] /\ broken' = broken
      BY <1>6 DEF Read
    <3>2. c2s'[q] = Tail(c2s[q])
      BY <1>1, <3>1
    <3>3. Len(Tail(c2s[q])) = Len(c2s[q]) - 1
      BY <1>1, <3>1, HeadTailProperties
    <3> QED
      BY <3>1, <3>2, <3>3
  <2>2. R = 1 /\ R' \in {0, 1, 3}
    BY <1>1, <1>6 DEF Read, ReplyOf, HandlerState
  <2> HIDE DEF P, R, L, B
  <2>3. CASE R' = 3
    BY <1>3, <1>4, <1>5, <2>1, <2>2, <2>3
  <2>4. CASE R' = 1
    BY <1>3, <1>4, <1>5, <2>1, <2>2, <2>4
  <2>5. CASE R' = 0
    BY <1>3, <1>4, <1>5, <2>1, <2>2, <2>5
  <2> QED
    BY <2>2, <2>3, <2>4, <2>5
<1>7. CASE Accept(q) \/ Header(q) \/ Payload(q) \/ End(q) \/ HandlerFails(q)
  <2>1. B' = B /\ L' = L
    BY <1>7 DEF Accept, Header, Payload, End, HandlerFails, netVars
  <2>2. R' < R
    BY <1>1, <1>7 DEF Accept, Header, Payload, End, HandlerFails, ReplyOf, HandlerState
  <2> HIDE DEF P, R, L, B
  <2>3. P + R' + 3 * L' + B' < P + R + 3 * L + B
    BY <1>3, <1>4, <2>1, <2>2, LessSum
  <2> QED
    BY <1>3, <1>5, <2>3
<1>8. CASE Break(q)
  <2>1. R' = R /\ B' < B
    BY <1>8 DEF Break, DownIInv, Store
  <2>2. PICK k \in 0 .. Len(c2s[q]) : c2s' = [c2s EXCEPT ![q] = SubSeq(@, 1, k)]
    BY <1>8 DEF Break
  <2>3. L' <= L
    <3>1. c2s'[q] = SubSeq(c2s[q], 1, k)
      BY <1>1, <2>2
    <3>2. Len(SubSeq(c2s[q], 1, k)) <= Len(c2s[q])
      BY <1>1, <2>2, SubSeqProperties
    <3> QED
      BY <3>1, <3>2
  <2> HIDE DEF P, R, L, B
  <2>4. P + R' + 3 * L' + B' < P + R + 3 * L + B
    BY <1>3, <1>4, <2>1, <2>3, LessSum
  <2> QED
    BY <1>3, <1>5, <2>4
<1> QED
  BY <1>6, <1>7, <1>8 DEF HandlerStep

LEMMA HasherFalls ==
  ASSUME DownIInv, IsFiniteSet(Hashers), NEW p \in Hashers, HasherStep(p) \/ HashFails(p)
  PROVE  HashSteps' \in Nat /\ HashSteps' < HashSteps
<1> DEFINE J == {r \in Hashers : job[r] # NoJob}
           C == Cardinality(J)
           T == IF nextJob <= LastServed THEN LastServed + 1 - nextJob ELSE 0
<1>1. /\ nextJob \in Nat /\ job \in [Hashers -> {NoJob} \cup 0 .. LastServed]
      /\ LastServed \in Nat /\ LastServed' = LastServed
  BY SourceBounds, InputsStay DEF DownIInv, Store, DownNext
<1>2. IsFiniteSet(J) /\ C \in Nat
  BY FS_Subset, FS_CardinalityType
<1>3. T \in Nat
  BY <1>1
<1>4. HashSteps = 2 * T + C /\ HashSteps' = 2 * T' + C'
  BY DEF HashSteps
<1>5. CASE TakeJob(p)
  <2>1. nextJob <= LastServed /\ nextJob' = nextJob + 1 /\ job[p] = NoJob
        /\ job' = [job EXCEPT ![p] = nextJob]
    BY <1>5 DEF TakeJob
  <2>2. T' = T - 1
    BY <1>1, <2>1
  <2>3. J' = J \cup {p} /\ p \notin J
    <3>1. nextJob # NoJob
      BY <1>1 DEF NoJob
    <3> QED
      BY <1>1, <2>1, <3>1
  <2>4. C' = C + 1
    BY <1>2, <2>3, FS_AddElement
  <2>5. T - 1 \in Nat
    BY <1>1, <2>1
  <2> HIDE DEF C, T, J
  <2> QED
    BY <1>2, <1>3, <1>4, <2>2, <2>4, <2>5, SumTwice
<1>6. CASE SetHash(p) \/ HashFails(p)
  <2>1. nextJob' = nextJob /\ job[p] # NoJob /\ job' = [job EXCEPT ![p] = NoJob]
    BY <1>6 DEF SetHash, HashFails
  <2>2. T' = T
    BY <1>1, <2>1
  <2>3. J' = J \ {p} /\ p \in J
    BY <1>1, <2>1
  <2>4. C' = C - 1
    BY <1>2, <2>3, FS_RemoveElement
  <2>5. C - 1 \in Nat
    <3>1. C # 0
      BY <1>2, <2>3, FS_EmptySet
    <3> HIDE DEF C
    <3> QED
      BY <1>2, <3>1
  <2> HIDE DEF C, T, J
  <2> QED
    BY <1>2, <1>3, <1>4, <2>2, <2>4, <2>5, SumTwice
<1> QED
  BY <1>5, <1>6 DEF HasherStep

\* Each step uses up one of a download's or of the precomputation's, but AcceptFails, which ends
\* the server; and none gives one back.
StepsFall ==
  /\ \A q \in Clients : StepsOf(q)' <= StepsOf(q)
  /\ HashSteps' <= HashSteps
  /\ \/ server = "serving" /\ server' = "ended"
     \/ HashSteps' < HashSteps
     \/ \E q \in Clients : StepsOf(q)' < StepsOf(q)

LEMMA StepsNat ==
  ASSUME DownIInv, IsFiniteSet(Hashers)
  PROVE  (\A q \in Clients : StepsOf(q) \in Nat) /\ HashSteps \in Nat
<1>1. ASSUME NEW q \in Clients PROVE StepsOf(q) \in Nat
  <2> DEFINE P == PhaseOf(client[q].pc, client[q].idx)
             L == Len(c2s[q])
  <2>1. P \in Nat
    BY PhaseNat
  <2>2. ReplyOf(handler[q].pc) \in 0 .. 3 /\ L \in Nat
    BY DEF ReplyOf, DownIInv, Wires
  <2> HIDE DEF P, L
  <2>3. P + ReplyOf(handler[q].pc) + 3 * L + (IF q \in broken THEN 0 ELSE 1) \in Nat
    BY <2>1, <2>2
  <2> QED
    BY <2>3 DEF StepsOf, P, L
<1>2. HashSteps \in Nat
  <2> DEFINE J == {r \in Hashers : job[r] # NoJob}
             C == Cardinality(J)
  <2>1. nextJob \in Nat /\ LastServed \in Nat
    BY SourceBounds DEF DownIInv, Store
  <2>2. C \in Nat
    BY FS_Subset, FS_CardinalityType
  <2> HIDE DEF C
  <2>3. 2 * (IF nextJob <= LastServed THEN LastServed + 1 - nextJob ELSE 0) + C \in Nat
    BY <2>1, <2>2
  <2> QED
    BY <2>3 DEF HashSteps, C
<1> QED
  BY <1>1, <1>2

LEMMA StepsFallStep ==
  ASSUME DownIInv, DownIInv', IsFiniteSet(Hashers), DownNext
  PROVE  StepsFall
<1>0. LastAsked' = LastAsked /\ LastServed' = LastServed
  BY InputsStay
<1>1. (\A q \in Clients : StepsOf(q) \in Nat) /\ HashSteps \in Nat
  BY StepsNat
<1>2. ASSUME NEW r \in Clients,
             client'[r] = client[r], handler'[r] = handler[r], c2s'[r] = c2s[r],
             r \in broken <=> r \in broken'
      PROVE  StepsOf(r)' = StepsOf(r)
  BY <1>0, <1>2 DEF StepsOf, PhaseOf, Rank, ReplyOf
<1>3. ASSUME UNCHANGED cacheVars PROVE HashSteps' = HashSteps
  BY <1>0, <1>3 DEF HashSteps, cacheVars
<1>4. ASSUME NEW q \in Clients,
             ClientStep(q) \/ DialFails(q) \/ ReadFails(q) \/ WriteFails(q)
                \/ HandlerStep(q) \/ HandlerFails(q) \/ Break(q)
      PROVE  StepsFall
  <2>1. Only(q) /\ UNCHANGED cacheVars
    BY <1>4, WiresClient, StoreClient, WiresHandler
  <2>2. StepsOf(q)' \in Nat /\ StepsOf(q)' < StepsOf(q)
    BY <1>4, ClientFalls, HandlerFalls
  <2>3. \A r \in Clients \ {q} : r \in broken <=> r \in broken'
    BY <1>4, StoreClient DEF HandlerStep, Accept, Read, Header, Payload, End, HandlerFails, Break,
       netVars
  <2>4. \A r \in Clients \ {q} : StepsOf(r)' = StepsOf(r)
    BY <1>2, <2>1, <2>3 DEF Only
  <2>5. HashSteps' = HashSteps
    BY <1>3, <2>1
  <2>6. \A r \in Clients : StepsOf(r)' <= StepsOf(r)
    BY <1>1, <2>2, <2>4
  <2> QED
    BY <1>1, <2>2, <2>5, <2>6 DEF StepsFall
<1>5. ASSUME NEW p \in Hashers, HasherStep(p) \/ HashFails(p) PROVE StepsFall
  <2>1. UNCHANGED <<client, handler, c2s, broken>>
    BY <1>5 DEF HasherStep, TakeJob, SetHash, HashFails, netVars
  <2>2. \A r \in Clients : StepsOf(r)' = StepsOf(r)
    BY <1>2, <2>1
  <2>3. HashSteps' \in Nat /\ HashSteps' < HashSteps
    BY <1>5, HasherFalls
  <2>4. HashSteps' <= HashSteps /\ \A r \in Clients : StepsOf(r)' <= StepsOf(r)
    BY <1>1, <2>2, <2>3
  <2> QED
    BY <2>3, <2>4 DEF StepsFall
<1>6. CASE AcceptFails
  <2>1. UNCHANGED <<client, handler, c2s, broken, cacheVars>>
        /\ server = "serving" /\ server' = "ended"
    BY <1>6 DEF AcceptFails, netVars
  <2>2. \A r \in Clients : StepsOf(r)' = StepsOf(r)
    BY <1>2, <2>1
  <2> QED
    BY <1>1, <1>3, <2>1, <2>2 DEF StepsFall
<1> QED
  BY <1>4, <1>5, <1>6 DEF DownNext, FaultStep

\* No download goes on for ever, and no precomputation: whatever the clients, handlers, workers and
\* faults do, the numbers of steps left only fall, and each step but the server's end lowers one.
THEOREM DownloadStepsLeft ==
  ASSUME IsFiniteSet(Hashers)
  PROVE  DownSpec => /\ []((\A q \in Clients : StepsOf(q) \in Nat) /\ HashSteps \in Nat)
                     /\ [][StepsFall]_downVars
<1>1. DownIInv => (\A q \in Clients : StepsOf(q) \in Nat) /\ HashSteps \in Nat
  BY StepsNat
<1>2. DownIInv /\ DownIInv' /\ [DownNext]_downVars => [StepsFall]_downVars
  BY StepsFallStep
<1> QED
  BY <1>1, <1>2, DownStart, DownStep, PTL DEF DownSpec
=============================================================================
