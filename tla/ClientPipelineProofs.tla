------------------------ MODULE ClientPipelineProofs ------------------------
(***************************************************************************)
(* ClientPipeline for any number of goroutines, blocks and channel places: *)
(* the channels are closed behind the last sender (Order), each block is   *)
(* in one place at a time until one worker takes it (Placement), somebody  *)
(* can always go on, and the steps that are left are numbered (StepsLeft). *)
(***************************************************************************)
EXTENDS ClientPipeline, SequenceTheorems, FiniteSetTheorems, TLAPS

\* At least one goroutine in each stage. With -w 0 there is none, and nothing is sent.
Staffed == Compressors # {} /\ Workers # {}

\* The index behind the last block's is one, so that the reader's loop ends.
Indexed == lastBlockNum + 1 \in Index

LEMMA Marks ==
  /\ Idle # Ended
  /\ \A i : Busy(i) # Idle /\ Busy(i) # Ended /\ Busy(i)[2] = i
BY DEF Idle, Ended, Busy

LEMMA Indices ==
  /\ lastBlockNum \in Index /\ SkipIdx \in Index
  /\ \A i \in Index : (i + 1) % IdxMod \in Index /\ (i + 1 \in Index => (i + 1) % IdxMod = i + 1)
BY PipelineAssumption DEF lastBlockNum, Index

---------------------------------------------------------------------------
(* Channels.                                                               *)

Distinct(s) == \A i, j \in DOMAIN s : s[i] = s[j] => i = j

LEMMA Sent ==
  ASSUME NEW s \in Seq(Index), NEW e \in Index
  PROVE  /\ Append(s, e) \in Seq(Index) /\ Len(Append(s, e)) = Len(s) + 1
         /\ Image(Append(s, e)) = Image(s) \cup {e}
         /\ Distinct(s) /\ e \notin Image(s) => Distinct(Append(s, e))
<1> DEFINE t == Append(s, e)
<1>1. /\ t \in Seq(Index) /\ Len(t) = Len(s) + 1 /\ t[Len(s) + 1] = e
      /\ \A i \in 1 .. Len(s) : t[i] = s[i]
  BY AppendProperties
<1>2. Len(s) \in Nat /\ DOMAIN s = 1 .. Len(s) /\ DOMAIN t = 1 .. Len(s) + 1
  BY <1>1, LenProperties
<1> HIDE DEF t
<1>3. Image(t) = Image(s) \cup {e}
  BY <1>1, <1>2 DEF Image
<1>4. ASSUME Distinct(s), e \notin Image(s) PROVE Distinct(t)
  BY <1>1, <1>2, <1>4 DEF Distinct, Image
<1> QED
  BY <1>1, <1>3, <1>4 DEF t

LEMMA Received ==
  ASSUME NEW s \in Seq(Index), s # <<>>
  PROVE  /\ Head(s) \in Index /\ Tail(s) \in Seq(Index) /\ Len(Tail(s)) = Len(s) - 1
         /\ Image(s) = Image(Tail(s)) \cup {Head(s)}
         /\ Distinct(s) => Distinct(Tail(s)) /\ Head(s) \notin Image(Tail(s))
<1> DEFINE t == Tail(s)
<1>1. /\ Head(s) \in Index /\ t \in Seq(Index) /\ Len(t) = Len(s) - 1
      /\ \A i \in 1 .. Len(t) : t[i] = s[i + 1]
      /\ Head(s) = s[1]
  BY HeadTailProperties
<1>2. /\ Len(s) \in Nat \ {0} /\ DOMAIN s = 1 .. Len(s) /\ DOMAIN t = 1 .. Len(s) - 1
  BY <1>1, LenProperties, EmptySeq
<1> HIDE DEF t
<1>3. Image(t) \cup {Head(s)} \subseteq Image(s)
  BY <1>1, <1>2 DEF Image
<1>4. ASSUME NEW i \in 1 .. Len(s) PROVE s[i] \in Image(t) \cup {Head(s)}
  <2>1. CASE i = 1
    BY <1>1, <2>1
  <2>2. CASE i # 1
    <3>1. i - 1 \in 1 .. Len(t) /\ t[i - 1] = s[i]
      BY <1>1, <1>2, <2>2
    <3> QED
      BY <1>1, <1>2, <3>1 DEF Image
  <2> QED
    BY <2>1, <2>2
<1>5. Image(s) = Image(t) \cup {Head(s)}
  BY <1>2, <1>3, <1>4 DEF Image
<1>6. ASSUME Distinct(s) PROVE Distinct(t) /\ Head(s) \notin Image(t)
  <2>1. \A i, j \in 1 .. Len(s) : s[i] = s[j] => i = j
    BY <1>2, <1>6 DEF Distinct
  <2>2. \A i \in 1 .. Len(t) : i + 1 \in 1 .. Len(s) /\ i + 1 # 1 /\ 1 \in 1 .. Len(s)
    BY <1>1, <1>2
  <2>3. Head(s) \notin Image(t)
    BY <1>1, <1>2, <2>1, <2>2 DEF Image
  <2>4. ASSUME NEW i \in 1 .. Len(t), NEW j \in 1 .. Len(t), t[i] = t[j] PROVE i = j
    <3>1. i + 1 = j + 1
      BY <1>1, <2>1, <2>2, <2>4
    <3> QED
      BY <3>1
  <2> QED
    BY <1>1, <1>2, <2>3, <2>4 DEF Distinct
<1> QED
  BY <1>1, <1>5, <1>6 DEF t
---------------------------------------------------------------------------
(* Types, and the order in which the stages end.                           *)

LEMMA PipeInitType == PipeInit => PipeTypeOK
<1> SUFFICES ASSUME PipeInit PROVE PipeTypeOK
  OBVIOUS
<1>1. <<>> \in Seq(Index) /\ Len(<<>>) = 0 /\ 0 <= Ahead
  BY PipelineAssumption
<1>2. taken \in [Index -> 0 .. 2]
  BY DEF PipeInit
<1>3. /\ compressor \in [Compressors -> {Idle, Ended} \cup {Busy(i) : i \in Index}]
      /\ worker \in [Workers -> {Idle, Ended} \cup {Busy(i) : i \in Index}]
  BY DEF PipeInit
<1> QED
  BY <1>1, <1>2, <1>3, Indices DEF PipeInit, PipeTypeOK

LEMMA PipeTypeStep == PipeTypeOK /\ [PipeNext]_pipeVars => PipeTypeOK'
<1> SUFFICES ASSUME PipeTypeOK, [PipeNext]_pipeVars PROVE PipeTypeOK'
  OBVIOUS
<1> USE DEF PipeTypeOK
<1>1. CASE ReadBlock
  <2>1. next \in Index /\ Len(blocks) \in Nat
    BY LenProperties
  <2>2. next' \in Index
    BY <1>1, <2>1, Indices DEF ReadBlock
  <2>3. blocks' \in Seq(Index) /\ Len(blocks') = Len(blocks) + 1
    BY <1>1, <2>1, Sent DEF ReadBlock
  <2>4. Len(blocks') <= Ahead
    BY <1>1, <2>1, <2>3, PipelineAssumption DEF ReadBlock
  <2> QED
    BY <1>1, <2>2, <2>3, <2>4 DEF ReadBlock
<1>2. CASE EndReader \/ FailReader \/ Close \/ SendDone \/ UNCHANGED pipeVars
  BY <1>2 DEF EndReader, FailReader, Close, SendDone, pipeVars
<1>3. ASSUME NEW p \in Compressors, Receive(p) PROVE PipeTypeOK'
  <2>1. Head(blocks) \in Index /\ Tail(blocks) \in Seq(Index) /\ Len(Tail(blocks)) <= Ahead
    BY <1>3, Received, LenProperties, PipelineAssumption DEF Receive
  <2> QED
    BY <1>3, <2>1 DEF Receive
<1>4. ASSUME NEW p \in Compressors, Forward(p) PROVE PipeTypeOK'
  <2>1. compressor[p][2] \in Index
    BY <1>4, Marks DEF Forward
  <2>2. Len(compressed) \in Nat
    BY LenProperties
  <2> QED
    BY <1>4, <2>1, <2>2, Sent, PipelineAssumption DEF Forward
<1>5. ASSUME NEW p \in Compressors, EndCompressor(p) PROVE PipeTypeOK'
  BY <1>5 DEF EndCompressor
<1>6. ASSUME NEW w \in Workers, Take(w) PROVE PipeTypeOK'
  <2>1. /\ Head(compressed) \in Index /\ Tail(compressed) \in Seq(Index)
        /\ Len(Tail(compressed)) <= Ahead
    BY <1>6, Received, LenProperties, PipelineAssumption DEF Take
  <2>2. \A n \in 0 .. 2 : (IF n < 2 THEN n + 1 ELSE n) \in 0 .. 2
    OBVIOUS
  <2> QED
    BY <1>6, <2>1, <2>2 DEF Take
<1>7. ASSUME NEW w \in Workers, Finish(w) \/ EndWorker(w) PROVE PipeTypeOK'
  BY <1>7 DEF Finish, EndWorker
<1> QED
  BY <1>1, <1>2, <1>3, <1>4, <1>5, <1>6, <1>7 DEF PipeNext

\* The pipeline keeps its types, and no channel holds more than it has room for.
THEOREM PipeTypeCorrect == PipeSpec => []PipeTypeOK
BY PipeInitType, PipeTypeStep, PTL DEF PipeSpec

\* A stage has ended only behind the one before it, with nothing left in between.
Order ==
  /\ \A p \in Compressors : compressor[p] = Ended => reader # "reading" /\ blocks = <<>>
  /\ closed => \A p \in Compressors : compressor[p] = Ended
  /\ \A w \in Workers : worker[w] = Ended => closed /\ compressed = <<>>
  /\ main = "done" => \A w \in Workers : worker[w] = Ended

LEMMA OrderInit == PipeInit => Order
BY Marks DEF PipeInit, Order

LEMMA OrderStep == PipeTypeOK /\ Order /\ [PipeNext]_pipeVars => Order'
<1> SUFFICES ASSUME PipeTypeOK, Order, [PipeNext]_pipeVars PROVE Order'
  OBVIOUS
<1> USE Marks DEF PipeTypeOK, Order
<1>1. CASE ReadBlock
  BY <1>1 DEF ReadBlock
<1>2. CASE EndReader \/ FailReader
  BY <1>2 DEF EndReader, FailReader
<1>3. CASE Close \/ SendDone \/ UNCHANGED pipeVars
  BY <1>3 DEF Close, SendDone, pipeVars
<1>4. ASSUME NEW p \in Compressors, Receive(p) PROVE Order'
  BY <1>4 DEF Receive
<1>5. ASSUME NEW p \in Compressors, Forward(p) PROVE Order'
  BY <1>5 DEF Forward
<1>6. ASSUME NEW p \in Compressors, EndCompressor(p) PROVE Order'
  BY <1>6 DEF EndCompressor
<1>7. ASSUME NEW w \in Workers, Take(w) PROVE Order'
  BY <1>7 DEF Take
<1>8. ASSUME NEW w \in Workers, Finish(w) PROVE Order'
  BY <1>8 DEF Finish
<1>9. ASSUME NEW w \in Workers, EndWorker(w) PROVE Order'
  BY <1>9 DEF EndWorker
<1> QED
  BY <1>1, <1>2, <1>3, <1>4, <1>5, <1>6, <1>7, <1>8, <1>9 DEF PipeNext

\* No goroutine sends on a channel that has been closed.
THEOREM PipeNoSendOnClosed ==
  ASSUME Staffed
  PROVE  PipeSpec => []NoSendOnClosed
<1>1. Order => NoSendOnClosed
  <2> SUFFICES ASSUME Order, closed PROVE NoSendOnClosed
    BY DEF NoSendOnClosed
  <2>1. \A p \in Compressors : compressor[p] = Ended
    BY DEF Order
  <2>2. InHand = {}
    BY <2>1 DEF InHand
  <2> QED
    BY <2>1, <2>2, Staffed DEF Staffed, Order, NoSendOnClosed
<1> QED
  BY <1>1, PipeInitType, PipeTypeStep, OrderInit, OrderStep, PTL DEF PipeSpec
---------------------------------------------------------------------------
(* Where the blocks are.                                                   *)

Given == {i \in Index : taken[i] > 0}

\* No two compressors have the same block in hand.
Alone == \A p, q \in Compressors :
           compressor[p] \notin {Idle, Ended} /\ compressor[p] = compressor[q] => p = q

\* The blocks read so far, and no others, are in a channel, in hand or with a worker, each in
\* one place and once.
Placement ==
  /\ SkipIdx <= next /\ (next = SkipIdx \/ next <= lastBlockNum + 1)
  /\ reader = "ended" => next > lastBlockNum
  /\ Distinct(blocks) /\ Distinct(compressed) /\ Alone
  /\ \A i \in Index : taken[i] <= 1
  /\ Image(blocks) \cap InHand = {}
  /\ (Image(blocks) \cup InHand) \cap Image(compressed) = {}
  /\ (Image(blocks) \cup InHand \cup Image(compressed)) \cap Given = {}
  /\ Image(blocks) \cup InHand \cup Image(compressed) \cup Given = SkipIdx .. next - 1

LEMMA Grasp ==
  ASSUME PipeTypeOK, NEW p \in Compressors, compressor[p] = Idle, NEW i \in Index,
         compressor' = [compressor EXCEPT ![p] = Busy(i)]
  PROVE  InHand' = InHand \cup {i} /\ (Alone /\ i \notin InHand => Alone')
<1>1. /\ \A q \in Compressors \ {p} : compressor'[q] = compressor[q]
      /\ compressor'[p] = Busy(i)
  BY DEF PipeTypeOK
<1>2. InHand' = InHand \cup {i}
  BY <1>1, Marks DEF InHand
<1>3. ASSUME Alone, i \notin InHand PROVE Alone'
  <2>1. \A q \in Compressors : compressor[q] \notin {Idle, Ended} => compressor[q][2] # i
    BY <1>3 DEF InHand
  <2>2. \A q \in Compressors \ {p} : compressor'[q] # Busy(i)
    BY <1>1, <2>1, Marks
  <2> QED
    BY <1>1, <1>3, <2>2 DEF Alone
<1> QED
  BY <1>2, <1>3

LEMMA Release ==
  ASSUME PipeTypeOK, Alone, NEW p \in Compressors, compressor[p] \notin {Idle, Ended},
         compressor' = [compressor EXCEPT ![p] = Idle]
  PROVE  /\ InHand = InHand' \cup {compressor[p][2]} /\ compressor[p][2] \notin InHand'
         /\ Alone'
<1>1. /\ \A q \in Compressors \ {p} : compressor'[q] = compressor[q]
      /\ compressor'[p] = Idle
  BY DEF PipeTypeOK
<1>2. InHand = InHand' \cup {compressor[p][2]}
  BY <1>1 DEF InHand
<1>3. ASSUME NEW q \in Compressors \ {p}, compressor[q] \notin {Idle, Ended}
      PROVE  compressor[q][2] # compressor[p][2]
  <2>1. PICK i \in Index : compressor[p] = Busy(i)
    BY DEF PipeTypeOK
  <2>2. PICK j \in Index : compressor[q] = Busy(j)
    BY <1>3 DEF PipeTypeOK
  <2>3. compressor[p] # compressor[q]
    BY DEF Alone
  <2> QED
    BY <2>1, <2>2, <2>3, Marks
<1>4. compressor[p][2] \notin InHand'
  BY <1>1, <1>3 DEF InHand
<1>5. Alone'
  BY <1>1 DEF Alone
<1> QED
  BY <1>2, <1>4, <1>5

LEMMA Rests ==
  ASSUME PipeTypeOK, Alone, NEW p \in Compressors, EndCompressor(p)
  PROVE  InHand' = InHand /\ Alone'
<1>1. /\ \A q \in Compressors \ {p} : compressor'[q] = compressor[q]
      /\ compressor[p] = Idle /\ compressor'[p] = Ended
  BY DEF PipeTypeOK, EndCompressor
<1> QED
  BY <1>1 DEF InHand, Alone

LEMMA PlacementInit == PipeInit => Placement
<1> SUFFICES ASSUME PipeInit PROVE Placement
  OBVIOUS
<1>1. Image(<<>>) = {} /\ Distinct(<<>>)
  BY DEF Image, Distinct
<1>2. InHand = {} /\ Alone
  BY DEF PipeInit, InHand, Alone
<1>3. Given = {} /\ \A i \in Index : taken[i] <= 1
  BY DEF PipeInit, Given
<1>4. SkipIdx .. SkipIdx - 1 = {} /\ SkipIdx <= SkipIdx
  BY PipelineAssumption
<1> QED
  BY <1>1, <1>2, <1>3, <1>4 DEF PipeInit, Placement

---------------------------------------------------------------------------
(* What a step moves.                                                      *)

LEMMA ReadMoves ==
  ASSUME PipeTypeOK, Placement, Indexed, ReadBlock
  PROVE  /\ next' = next + 1 /\ next <= lastBlockNum /\ reader' = "reading"
         /\ Image(blocks)' = Image(blocks) \cup {next} /\ Distinct(blocks)'
         /\ next \notin Image(blocks)
<1>1. next \in Index /\ next <= lastBlockNum /\ next + 1 \in Index
  BY Indices, PipelineAssumption DEF PipeTypeOK, ReadBlock, Indexed, Index
<1>2. next \notin SkipIdx .. next - 1
  BY <1>1, PipelineAssumption DEF Index
<1>3. next \notin Image(blocks)
  BY <1>2 DEF Placement
<1> QED
  BY <1>1, <1>3, Indices, Sent DEF ReadBlock, PipeTypeOK, Placement

LEMMA ReceiveMoves ==
  ASSUME PipeTypeOK, Placement, NEW p \in Compressors, Receive(p)
  PROVE  \E i \in Index : /\ Image(blocks) = Image(blocks)' \cup {i} /\ i \notin Image(blocks)'
                          /\ Distinct(blocks)'
                          /\ InHand' = InHand \cup {i} /\ Alone'
<1>1. blocks \in Seq(Index) /\ blocks # <<>> /\ Distinct(blocks) /\ blocks' = Tail(blocks)
  BY DEF PipeTypeOK, Placement, Receive
<1> DEFINE i == Head(blocks)
<1>2. /\ i \in Index /\ Image(blocks) = Image(blocks') \cup {i}
      /\ i \notin Image(blocks') /\ Distinct(blocks')
  BY <1>1, Received
<1>3. i \notin InHand /\ Alone /\ compressor[p] = Idle
      /\ compressor' = [compressor EXCEPT ![p] = Busy(i)]
  BY <1>2 DEF Placement, Receive
<1> HIDE DEF i
<1>4. InHand' = InHand \cup {i} /\ Alone'
  BY <1>2, <1>3, Grasp
<1> QED
  BY <1>2, <1>4 DEF Image, Distinct

LEMMA ForwardMoves ==
  ASSUME PipeTypeOK, Placement, NEW p \in Compressors, Forward(p)
  PROVE  \E i \in Index : /\ InHand = InHand' \cup {i} /\ i \notin InHand' /\ Alone'
                          /\ Image(compressed)' = Image(compressed) \cup {i}
                          /\ Distinct(compressed)'
<1> DEFINE i == compressor[p][2]
<1>1. i \in Index /\ i \in InHand
  BY Marks DEF PipeTypeOK, Forward, InHand
<1>2. /\ compressed \in Seq(Index) /\ Distinct(compressed) /\ compressed' = Append(compressed, i)
      /\ i \notin Image(compressed)
  BY <1>1 DEF PipeTypeOK, Placement, Forward
<1>3. Alone /\ compressor[p] \notin {Idle, Ended} /\ compressor' = [compressor EXCEPT ![p] = Idle]
  BY DEF Placement, Forward
<1>4. InHand = InHand' \cup {i} /\ i \notin InHand' /\ Alone'
  BY <1>3, Release
<1> HIDE DEF i
<1>5. Image(compressed') = Image(compressed) \cup {i} /\ Distinct(compressed')
  BY <1>1, <1>2, Sent
<1> QED
  BY <1>1, <1>4, <1>5 DEF Image, Distinct

LEMMA TakeMoves ==
  ASSUME PipeTypeOK, Placement, NEW w \in Workers, Take(w)
  PROVE  \E i \in Index : /\ Image(compressed) = Image(compressed)' \cup {i}
                          /\ i \notin Image(compressed)' /\ Distinct(compressed)'
                          /\ Given' = Given \cup {i} /\ i \notin Given
                          /\ \A j \in Index : taken'[j] <= 1
<1>1. compressed \in Seq(Index) /\ compressed # <<>> /\ Distinct(compressed)
      /\ compressed' = Tail(compressed)
  BY DEF PipeTypeOK, Placement, Take
<1> DEFINE i == Head(compressed)
<1>2. /\ i \in Index /\ Image(compressed) = Image(compressed') \cup {i}
      /\ i \notin Image(compressed') /\ Distinct(compressed')
  BY <1>1, Received
<1>3. i \notin Given /\ taken' = [taken EXCEPT ![i] = IF @ < 2 THEN @ + 1 ELSE @]
  BY <1>2 DEF Placement, Take
<1> HIDE DEF i
<1>4. taken[i] = 0
  BY <1>2, <1>3 DEF Given, PipeTypeOK
<1>5. taken'[i] = 1 /\ \A j \in Index \ {i} : taken'[j] = taken[j]
  BY <1>2, <1>3, <1>4 DEF PipeTypeOK
<1>6. Given' = Given \cup {i} /\ \A j \in Index : taken'[j] <= 1
  BY <1>2, <1>5 DEF Given, Placement
<1> QED
  BY <1>2, <1>3, <1>6 DEF Image, Distinct

LEMMA PlacementStep ==
  ASSUME PipeTypeOK, Placement, Order, Indexed, [PipeNext]_pipeVars
  PROVE  Placement'
<1> DEFINE B == Image(blocks)
           H == InHand
           C == Image(compressed)
           G == Given
           Apart == /\ B \cap H = {} /\ (B \cup H) \cap C = {} /\ (B \cup H \cup C) \cap G = {}
                    /\ B \cup H \cup C \cup G = SkipIdx .. next - 1
           Bounds == /\ SkipIdx <= next /\ (next = SkipIdx \/ next <= lastBlockNum + 1)
                     /\ reader = "ended" => next > lastBlockNum
           Once == Distinct(blocks) /\ Distinct(compressed) /\ Alone /\ \A i \in Index : taken[i] <= 1
<1>1. Bounds /\ Once /\ Apart
  BY DEF Placement
<1>2. SUFFICES Bounds' /\ Once' /\ Apart'
  BY DEF Placement
<1>3. /\ UNCHANGED blocks => UNCHANGED B
      /\ UNCHANGED compressor => UNCHANGED H
      /\ UNCHANGED compressed => UNCHANGED C
      /\ UNCHANGED taken => UNCHANGED G
  BY DEF Image, InHand, Given
<1>4. /\ UNCHANGED blocks => Distinct(blocks)' = Distinct(blocks)
      /\ UNCHANGED compressed => Distinct(compressed)' = Distinct(compressed)
      /\ UNCHANGED compressor => Alone' = Alone
  BY DEF Distinct, Alone
<1>5. next \in Nat /\ SkipIdx \in Nat /\ lastBlockNum \in Nat
  BY Indices DEF PipeTypeOK, Index
<1> HIDE DEF B, H, C, G
<1>6. CASE ReadBlock
  <2>1. UNCHANGED <<H, C, G, compressor, compressed, taken>>
    BY <1>3, <1>6 DEF ReadBlock
  <2>2. /\ next' = next + 1 /\ next <= lastBlockNum /\ reader' = "reading"
        /\ B' = B \cup {next} /\ Distinct(blocks)'
    BY <1>6, ReadMoves DEF B
  <2>3. Bounds'
    BY <1>1, <1>5, <2>2
  <2>4. Once'
    BY <1>1, <1>4, <2>1, <2>2
  <2>5. next \notin SkipIdx .. next - 1 /\ SkipIdx .. next' - 1 = (SkipIdx .. next - 1) \cup {next}
    BY <1>1, <1>5, <2>2
  <2>6. Apart'
    BY <1>1, <2>1, <2>2, <2>5
  <2> QED
    BY <2>3, <2>4, <2>6
<1>7. CASE EndReader \/ FailReader \/ Close \/ SendDone \/ UNCHANGED pipeVars
           \/ \E w \in Workers : Finish(w) \/ EndWorker(w)
  <2>1. UNCHANGED <<B, H, C, G, blocks, compressor, compressed, taken, next>>
    BY <1>3, <1>7 DEF EndReader, FailReader, Close, SendDone, Finish, EndWorker, pipeVars
  <2>2. Bounds'
    BY <1>1, <1>7 DEF EndReader, FailReader, Close, SendDone, Finish, EndWorker, pipeVars
  <2> QED
    BY <1>1, <1>4, <2>1, <2>2
<1>8. ASSUME NEW p \in Compressors, Receive(p) PROVE Bounds' /\ Once' /\ Apart'
  <2>1. UNCHANGED <<C, G, compressed, taken, next, reader>>
    BY <1>3, <1>8 DEF Receive
  <2>2. PICK i \in Index : /\ B = B' \cup {i} /\ i \notin B' /\ Distinct(blocks)'
                           /\ H' = H \cup {i} /\ Alone'
    BY <1>8, ReceiveMoves DEF B, H
  <2>3. Once'
    BY <1>1, <1>4, <2>1, <2>2
  <2> QED
    BY <1>1, <2>1, <2>2, <2>3
<1>9. ASSUME NEW p \in Compressors, Forward(p) PROVE Bounds' /\ Once' /\ Apart'
  <2>1. UNCHANGED <<B, G, blocks, taken, next, reader>>
    BY <1>3, <1>9 DEF Forward
  <2>2. PICK i \in Index : /\ H = H' \cup {i} /\ i \notin H' /\ Alone'
                           /\ C' = C \cup {i} /\ Distinct(compressed)'
    BY <1>9, ForwardMoves DEF H, C
  <2>3. Once'
    BY <1>1, <1>4, <2>1, <2>2
  <2> QED
    BY <1>1, <2>1, <2>2, <2>3
<1>10. ASSUME NEW p \in Compressors, EndCompressor(p) PROVE Bounds' /\ Once' /\ Apart'
  <2>1. UNCHANGED <<B, C, G, blocks, compressed, taken, next, reader>>
    BY <1>3, <1>10 DEF EndCompressor
  <2>2. UNCHANGED H /\ Alone'
    BY <1>1, <1>10, Rests DEF H
  <2>3. Once'
    BY <1>1, <1>4, <2>1, <2>2
  <2> QED
    BY <1>1, <2>1, <2>2, <2>3
<1>11. ASSUME NEW w \in Workers, Take(w) PROVE Bounds' /\ Once' /\ Apart'
  <2>1. UNCHANGED <<B, H, blocks, compressor, next, reader>>
    BY <1>3, <1>11 DEF Take
  <2>2. PICK i \in Index : /\ C = C' \cup {i} /\ i \notin C' /\ Distinct(compressed)'
                           /\ G' = G \cup {i} /\ \A j \in Index : taken'[j] <= 1
    BY <1>11, TakeMoves DEF C, G
  <2>3. Once'
    BY <1>1, <1>4, <2>1, <2>2
  <2> QED
    BY <1>1, <2>1, <2>2, <2>3
<1> QED
  BY <1>6, <1>7, <1>8, <1>9, <1>10, <1>11 DEF PipeNext

PipeInv == PipeTypeOK /\ Order /\ Placement

LEMMA PipeInvInit == PipeInit => PipeInv
BY PipeInitType, OrderInit, PlacementInit DEF PipeInv

LEMMA PipeInvStep ==
  ASSUME Indexed
  PROVE  PipeInv /\ [PipeNext]_pipeVars => PipeInv'
BY PipeTypeStep, OrderStep, PlacementStep DEF PipeInv

\* Before a worker ends, whatever was read has been taken.
LEMMA Drained ==
  ASSUME PipeInv, Staffed, closed, compressed = <<>>
  PROVE  Unread = {} /\ Image(blocks) = {} /\ InHand = {} /\ Image(compressed) = {}
<1>1. (\A p \in Compressors : compressor[p] = Ended) /\ reader # "reading" /\ blocks = <<>>
  BY DEF PipeInv, Order, Staffed
<1> QED
  BY <1>1 DEF Unread, InHand, Image

\* When DONE goes out, every block up to the file's last one went through a worker, each once,
\* unless reading failed.
THEOREM PipeAllBlocksTaken ==
  ASSUME Staffed, LastBlock + 1 < IdxMod
  PROVE  PipeSpec => []AllBlocksTaken
<1>1. Indexed /\ lastBlockNum = LastBlock
  BY PipelineAssumption DEF Indexed, lastBlockNum, Index
<1>2. PipeInv => AllBlocksTaken
  <2> SUFFICES ASSUME PipeInv, main = "done", reader # "failed", NEW i \in SkipIdx .. LastBlock
               PROVE  i \in Index /\ taken[i] = 1
    BY DEF AllBlocksTaken
  <2>1. closed /\ compressed = <<>>
    BY DEF PipeInv, Order, Staffed
  <2>2. reader = "ended"
    BY <2>1, Staffed DEF PipeInv, Order, Staffed, PipeTypeOK
  <2>3. i \in Index /\ i \in SkipIdx .. next - 1
    BY <1>1, <2>2, PipelineAssumption DEF PipeInv, Placement, PipeTypeOK, Index
  <2>4. i \in Given
    BY <2>1, <2>3, Drained DEF PipeInv, Placement
  <2> QED
    BY <2>3, <2>4 DEF Given, PipeInv, Placement, PipeTypeOK
<1> QED
  BY <1>1, <1>2, PipeInvInit, PipeInvStep, PTL DEF PipeSpec
---------------------------------------------------------------------------
(* The feed.                                                               *)

Coming == Image(blocks) \cup InHand \cup Image(compressed)
Finished == {w \in Workers : worker[w] = Ended}

LEMMA FeedStart == PipeInit => Feed!FeedInit
<1> SUFFICES ASSUME PipeInit PROVE Feed!FeedInit
  OBVIOUS
<1>1. Image(<<>>) = {} /\ InHand = {}
  BY DEF Image, PipeInit, InHand
<1>2. Given = {} /\ Finished = {}
  BY Marks DEF PipeInit, Given, Finished
<1> QED
  BY <1>1, <1>2 DEF PipeInit, Feed!FeedInit, Unread, Given, Finished

\* Receiving, forwarding and ending move no block into the stages or out of them.
LEMMA FeedSame ==
  ASSUME Unread' = Unread, Coming' = Coming, Given' = Given, Finished' = Finished
  PROVE  UNCHANGED Feed!feedVars
BY DEF Feed!feedVars, Coming, Given, Finished

LEMMA FeedStep ==
  ASSUME PipeInv, Indexed, Staffed, [PipeNext]_pipeVars
  PROVE  [Feed!FeedNext]_(Feed!feedVars)
<1> DEFINE U == Unread
           B == Image(blocks)
           H == InHand
           C == Image(compressed)
<1>1. /\ Unread = U /\ Unread' = U'
      /\ Coming = B \cup H \cup C /\ Coming' = B' \cup H' \cup C'
  BY DEF Coming
<1>2. /\ UNCHANGED <<next, reader>> => UNCHANGED U
      /\ UNCHANGED blocks => UNCHANGED B
      /\ UNCHANGED compressor => UNCHANGED H
      /\ UNCHANGED compressed => UNCHANGED C
      /\ UNCHANGED taken => UNCHANGED Given
      /\ UNCHANGED worker => UNCHANGED Finished
  BY DEF Unread, lastBlockNum, Image, InHand, Given, Finished
<1>3. PipeTypeOK /\ Placement
  BY DEF PipeInv
<1>4. next \in Nat /\ SkipIdx \in Nat /\ lastBlockNum \in Nat
  BY <1>3, Indices DEF PipeTypeOK, Index
<1>5. (B \cup H) \cap C = {} /\ (B \cup H \cup C) \cap Given = {}
  BY <1>3 DEF Placement
<1> HIDE DEF U, B, H, C
<1>7. CASE ReadBlock
  <2>1. UNCHANGED <<H, C, Given, Finished>>
    BY <1>2, <1>7 DEF ReadBlock
  <2>2. /\ next' = next + 1 /\ next <= lastBlockNum /\ reader' = "reading"
        /\ B' = B \cup {next}
    BY <1>3, <1>7, ReadMoves DEF B
  <2>3. /\ U' = U \ {next} /\ next \in U
        /\ \A b \in U : next <= b
    BY <1>4, <1>7, <2>2 DEF U, Unread, ReadBlock, lastBlockNum
  <2>4. Feed!Fetch(next)
    BY <1>1, <2>1, <2>2, <2>3 DEF Feed!Fetch, Coming, Given, Finished
  <2> QED
    BY <1>1, <2>3, <2>4 DEF Feed!FeedNext
<1>8. CASE EndReader
  <2>1. U = {} /\ U' = {}
    BY <1>4, <1>8 DEF U, Unread, EndReader, lastBlockNum
  <2> QED
    BY <1>1, <1>2, <1>8, <2>1, FeedSame DEF EndReader
<1>9. CASE FailReader
  <2>1. UNCHANGED <<B, H, C, Given, Finished>>
    BY <1>2, <1>9 DEF FailReader
  <2>2. U' = {}
    BY <1>9 DEF U, Unread, FailReader
  <2>3. Feed!Lose
    BY <1>1, <2>1, <2>2 DEF Feed!Lose, Coming, Given, Finished
  <2> QED
    BY <2>3 DEF Feed!FeedNext
<1>10. ASSUME NEW p \in Compressors, Receive(p) PROVE [Feed!FeedNext]_(Feed!feedVars)
  <2>1. UNCHANGED <<U, C, Given, Finished>>
    BY <1>2, <1>10 DEF Receive
  <2>2. PICK i \in Index : B = B' \cup {i} /\ H' = H \cup {i}
    BY <1>3, <1>10, ReceiveMoves DEF B, H
  <2> QED
    BY <1>1, <2>1, <2>2, FeedSame
<1>11. ASSUME NEW p \in Compressors, Forward(p) PROVE [Feed!FeedNext]_(Feed!feedVars)
  <2>1. UNCHANGED <<U, B, Given, Finished>>
    BY <1>2, <1>11 DEF Forward
  <2>2. PICK i \in Index : H = H' \cup {i} /\ C' = C \cup {i}
    BY <1>3, <1>11, ForwardMoves DEF H, C
  <2> QED
    BY <1>1, <2>1, <2>2, FeedSame
<1>12. ASSUME NEW p \in Compressors, EndCompressor(p) PROVE [Feed!FeedNext]_(Feed!feedVars)
  <2>1. UNCHANGED <<U, B, C, Given, Finished>>
    BY <1>2, <1>12 DEF EndCompressor
  <2>2. UNCHANGED H
    BY <1>3, <1>12, Rests DEF H, Placement
  <2> QED
    BY <1>1, <2>1, <2>2, FeedSame
<1>13. CASE Close \/ SendDone \/ UNCHANGED pipeVars
  <2>1. UNCHANGED <<U, B, H, C, Given, Finished>>
    BY <1>2, <1>13 DEF Close, SendDone, pipeVars
  <2> QED
    BY <1>1, <2>1, FeedSame
<1>14. ASSUME NEW w \in Workers, Take(w) PROVE [Feed!FeedNext]_(Feed!feedVars)
  <2>1. UNCHANGED <<U, B, H>>
    BY <1>2, <1>14 DEF Take
  <2>2. PICK i \in Index : /\ C = C' \cup {i} /\ i \notin C'
                           /\ Given' = Given \cup {i} /\ i \notin Given
    BY <1>3, <1>14, TakeMoves DEF C
  <2>3. i \notin B /\ i \notin H
    BY <1>5, <2>2
  <2>4. i \in Coming /\ Coming' = Coming \ {i}
    BY <1>1, <2>1, <2>2, <2>3
  <2>5. Finished' = Finished
    BY <1>3, <1>14, Marks DEF Take, PipeTypeOK, Finished
  <2>6. Feed!Give(i)
    BY <1>1, <2>1, <2>2, <2>4, <2>5 DEF Feed!Give, Coming, Given, Finished
  <2> QED
    BY <2>4, <2>6 DEF Feed!FeedNext, Coming
<1>15. ASSUME NEW w \in Workers, Finish(w) PROVE [Feed!FeedNext]_(Feed!feedVars)
  <2>1. UNCHANGED <<U, B, H, C, Given>>
    BY <1>2, <1>15 DEF Finish
  <2>2. Finished' = Finished
    BY <1>3, <1>15, Marks DEF Finish, PipeTypeOK, Finished
  <2> QED
    BY <1>1, <2>1, <2>2, FeedSame
<1>16. ASSUME NEW w \in Workers, EndWorker(w) PROVE [Feed!FeedNext]_(Feed!feedVars)
  <2>1. UNCHANGED <<U, B, H, C, Given>>
    BY <1>2, <1>16 DEF EndWorker
  <2>2. U = {} /\ Coming = {}
    BY <1>16, Drained DEF EndWorker, Coming, U
  <2>3. Finished' = Finished \cup {w}
    BY <1>3, <1>16 DEF EndWorker, PipeTypeOK, Finished
  <2>4. Feed!End(w)
    BY <1>1, <2>1, <2>2, <2>3 DEF Feed!End, Coming, Given, Finished
  <2> QED
    BY <2>4 DEF Feed!FeedNext
<1> QED
  BY <1>7, <1>8, <1>9, <1>10, <1>11, <1>12, <1>13, <1>14, <1>15, <1>16 DEF PipeNext

\* The reader, the compressors and their channels are a feed, as Upload takes them for: no block
\* that was read is lost, repeated or left behind.
THEOREM PipeImplementsFeed ==
  ASSUME Staffed, Indexed
  PROVE  PipeSpec => ImplementsFeed
<1>1. PipeInv /\ [PipeNext]_pipeVars => [Feed!FeedNext]_(Feed!feedVars)
  BY FeedStep
<1> QED
  BY <1>1, FeedStart, PipeInvInit, PipeInvStep, PTL DEF PipeSpec, ImplementsFeed, Feed!FeedSpec
---------------------------------------------------------------------------
(* Progress: somebody can always go on, and nobody can forever.            *)

\* Whoever waits does so for somebody who does not: from the workers back to the reader.
LEMMA SomebodyGoesOn ==
  ASSUME PipeTypeOK, Staffed
  PROVE  CanGoOn
<1> SUFFICES ASSUME ~CanGoOn PROVE FALSE
  OBVIOUS
<1>1. \A w \in Workers : worker[w] \in {Idle, Ended}
  BY DEF CanGoOn
<1>2. PICK v \in Workers : worker[v] = Idle
  BY <1>1 DEF CanGoOn
<1>3. compressed = <<>> /\ ~closed
  BY <1>2 DEF CanGoOn
<1>4. Len(compressed) < Ahead
  BY <1>3, PipelineAssumption
<1>5. PICK p \in Compressors : compressor[p] # Ended
  BY <1>3 DEF CanGoOn
<1>6. compressor[p] = Idle
  BY <1>4, <1>5 DEF CanGoOn
<1>7. blocks = <<>> /\ reader = "reading"
  BY <1>6 DEF CanGoOn
<1>8. Len(blocks) < Ahead
  BY <1>7, PipelineAssumption
<1> QED
  BY <1>7, <1>8 DEF CanGoOn

\* The pipeline is never stuck, and leaves nothing behind: for any numbers of goroutines, blocks
\* and channel places.
THEOREM PipeNeverStuck ==
  ASSUME Staffed
  PROVE  PipeSpec => []NeverStuck
<1>1. PipeTypeOK /\ Order => NeverStuck
  <2> SUFFICES ASSUME PipeTypeOK, Order PROVE NeverStuck
    OBVIOUS
  <2>1. ASSUME main = "done"
        PROVE  /\ reader # "reading" /\ blocks = <<>> /\ compressed = <<>> /\ closed
               /\ \A p \in Compressors : compressor[p] = Ended
    <3>1. closed /\ compressed = <<>>
      BY <2>1, Staffed DEF Order, Staffed
    <3>2. \A p \in Compressors : compressor[p] = Ended
      BY <3>1 DEF Order
    <3> QED
      BY <3>1, <3>2, Staffed DEF Order, Staffed
  <2> QED
    BY <2>1, SomebodyGoesOn DEF NeverStuck
<1> QED
  BY <1>1, PipeInitType, PipeTypeStep, OrderInit, OrderStep, PTL DEF PipeSpec

Holding == {p \in Compressors : compressor[p] \notin {Idle, Ended}}
Working == {w \in Workers : worker[w] \notin {Idle, Ended}}
Compressing == {p \in Compressors : compressor[p] # Ended}
Serving == {w \in Workers : worker[w] # Ended}
ToRead == IF reader = "reading" /\ next <= lastBlockNum THEN lastBlockNum + 1 - next ELSE 0

\* The steps that are left: five for a block not yet read, one fewer for each step it has made,
\* and one for each end.
StepsLeft ==
  5 * ToRead + 4 * Len(blocks) + 3 * Cardinality(Holding) + 2 * Len(compressed)
    + Cardinality(Working) + Cardinality(Compressing) + Cardinality(Serving)
    + (IF reader = "reading" THEN 1 ELSE 0) + (IF closed THEN 0 ELSE 1)
    + (IF main = "waiting" THEN 1 ELSE 0)

\* As many goroutines as -w says and the machine has processors.
Counted == IsFiniteSet(Compressors) /\ IsFiniteSet(Workers)

LEMMA StepsCounted ==
  ASSUME Counted, PipeTypeOK
  PROVE  /\ IsFiniteSet(Holding) /\ IsFiniteSet(Working)
         /\ IsFiniteSet(Compressing) /\ IsFiniteSet(Serving)
         /\ Cardinality(Holding) \in Nat /\ Cardinality(Working) \in Nat
         /\ Cardinality(Compressing) \in Nat /\ Cardinality(Serving) \in Nat
         /\ ToRead \in Nat /\ Len(blocks) \in Nat /\ Len(compressed) \in Nat
<1>1. /\ Holding \in SUBSET Compressors /\ Working \in SUBSET Workers
      /\ Compressing \in SUBSET Compressors /\ Serving \in SUBSET Workers
  BY DEF Holding, Working, Compressing, Serving
<1>2. /\ IsFiniteSet(Holding) /\ IsFiniteSet(Working)
      /\ IsFiniteSet(Compressing) /\ IsFiniteSet(Serving)
  BY <1>1, FS_Subset DEF Counted
<1>3. /\ Cardinality(Holding) \in Nat /\ Cardinality(Working) \in Nat
      /\ Cardinality(Compressing) \in Nat /\ Cardinality(Serving) \in Nat
  BY <1>2, FS_CardinalityType
<1>4. ToRead \in Nat
  BY Indices DEF PipeTypeOK, ToRead, Index
<1>5. Len(blocks) \in Nat /\ Len(compressed) \in Nat
  BY LenProperties DEF PipeTypeOK
<1> QED
  BY <1>2, <1>3, <1>4, <1>5

LEMMA Joined ==
  ASSUME NEW S, NEW T, NEW x, IsFiniteSet(S), x \notin S, T = S \cup {x}
  PROVE  Cardinality(T) = Cardinality(S) + 1
BY FS_AddElement

LEMMA StepsLeftStep ==
  ASSUME PipeTypeOK, PipeTypeOK', Counted, Indexed, PipeNext
  PROVE  StepsLeft' < StepsLeft
<1> DEFINE R == ToRead
           B == Len(blocks)
           H == Cardinality(Holding)
           C == Len(compressed)
           W == Cardinality(Working)
           P == Cardinality(Compressing)
           S == Cardinality(Serving)
           Open == (IF reader = "reading" THEN 1 ELSE 0) + (IF closed THEN 0 ELSE 1)
                     + (IF main = "waiting" THEN 1 ELSE 0)
<1>1. /\ R \in Nat /\ B \in Nat /\ H \in Nat /\ C \in Nat /\ W \in Nat /\ P \in Nat /\ S \in Nat
      /\ IsFiniteSet(Holding) /\ IsFiniteSet(Working)
      /\ IsFiniteSet(Compressing) /\ IsFiniteSet(Serving)
  BY StepsCounted
<1>2. /\ R' \in Nat /\ B' \in Nat /\ H' \in Nat /\ C' \in Nat /\ W' \in Nat /\ P' \in Nat /\ S' \in Nat
      /\ IsFiniteSet(Holding') /\ IsFiniteSet(Working')
      /\ IsFiniteSet(Compressing') /\ IsFiniteSet(Serving')
  <2>1. /\ Holding' \in SUBSET Compressors /\ Working' \in SUBSET Workers
        /\ Compressing' \in SUBSET Compressors /\ Serving' \in SUBSET Workers
    BY DEF Holding, Working, Compressing, Serving
  <2>2. /\ IsFiniteSet(Holding') /\ IsFiniteSet(Working')
        /\ IsFiniteSet(Compressing') /\ IsFiniteSet(Serving')
    BY <2>1, FS_Subset DEF Counted
  <2>3. H' \in Nat /\ W' \in Nat /\ P' \in Nat /\ S' \in Nat
    BY <2>2, FS_CardinalityType
  <2>4. R' \in Nat
    <3>1. next' \in Nat /\ LastBlock % IdxMod \in Nat
      BY PipelineAssumption DEF PipeTypeOK, Index
    <3> QED
      BY <3>1 DEF ToRead, lastBlockNum
  <2>5. B' \in Nat /\ C' \in Nat
    BY LenProperties DEF PipeTypeOK
  <2> QED
    BY <2>2, <2>3, <2>4, <2>5
<1>3. /\ StepsLeft = 5 * R + 4 * B + 3 * H + 2 * C + W + P + S + Open
      /\ StepsLeft' = 5 * R' + 4 * B' + 3 * H' + 2 * C' + W' + P' + S' + Open'
      /\ Open \in 0 .. 3 /\ Open' \in 0 .. 3
  <2>1. Open \in 0 .. 3 /\ Open' \in 0 .. 3
    OBVIOUS
  <2>2. /\ StepsLeft = 5 * R + 4 * B + 3 * H + 2 * C + W + P + S
                         + (IF reader = "reading" THEN 1 ELSE 0) + (IF closed THEN 0 ELSE 1)
                         + (IF main = "waiting" THEN 1 ELSE 0)
        /\ StepsLeft' = 5 * R' + 4 * B' + 3 * H' + 2 * C' + W' + P' + S'
                          + (IF reader' = "reading" THEN 1 ELSE 0) + (IF closed' THEN 0 ELSE 1)
                          + (IF main' = "waiting" THEN 1 ELSE 0)
    BY DEF StepsLeft
  <2> HIDE DEF R, B, H, C, W, P, S
  <2> QED
    BY <1>1, <1>2, <2>1, <2>2
<1>4. /\ UNCHANGED blocks => B' = B
      /\ UNCHANGED compressed => C' = C
      /\ UNCHANGED compressor => H' = H /\ P' = P
      /\ UNCHANGED worker => W' = W /\ S' = S
      /\ UNCHANGED <<next, reader>> => R' = R
      /\ UNCHANGED <<reader, closed, main>> => Open' = Open
  <2>1. /\ UNCHANGED compressor => Holding' = Holding /\ Compressing' = Compressing
        /\ UNCHANGED worker => Working' = Working /\ Serving' = Serving
    BY DEF Holding, Compressing, Working, Serving
  <2>2. UNCHANGED <<next, reader>> => R' = R
    BY DEF ToRead, lastBlockNum
  <2>3. UNCHANGED <<reader, closed, main>> => Open' = Open
    OBVIOUS
  <2>4. /\ UNCHANGED blocks => B' = B
        /\ UNCHANGED compressed => C' = C
    OBVIOUS
  <2> QED
    BY <2>1, <2>2, <2>3, <2>4
<1> USE DEF PipeTypeOK
<1>5. CASE ReadBlock
  <2>1. C' = C /\ H' = H /\ P' = P /\ W' = W /\ S' = S /\ Open' = Open
    BY <1>4, <1>5 DEF ReadBlock
  <2>2. B' = B + 1
    BY <1>5, AppendProperties DEF ReadBlock
  <2>3. next' = next + 1
    BY <1>5, Indices, PipelineAssumption DEF ReadBlock, Indexed, Index
  <2>4. R' = R - 1
    <3>1. next \in Nat /\ lastBlockNum \in Nat /\ lastBlockNum' = lastBlockNum
      BY Indices DEF Index, lastBlockNum
    <3> QED
      BY <1>5, <2>3, <3>1 DEF ReadBlock, ToRead
  <2> HIDE DEF R, B, H, C, W, P, S, Open
  <2> QED
    BY <1>1, <1>2, <1>3, <2>1, <2>2, <2>4
<1>6. CASE EndReader \/ FailReader
  <2>1. B' = B /\ C' = C /\ H' = H /\ P' = P /\ W' = W /\ S' = S
    BY <1>4, <1>6 DEF EndReader, FailReader
  <2>2. R' = 0 /\ Open' = Open - 1
    BY <1>6 DEF EndReader, FailReader, ToRead
  <2> HIDE DEF R, B, H, C, W, P, S, Open
  <2> QED
    BY <1>1, <1>2, <1>3, <2>1, <2>2
<1>7. CASE Close \/ SendDone
  <2>1. R' = R /\ B' = B /\ C' = C /\ H' = H /\ P' = P /\ W' = W /\ S' = S
    BY <1>4, <1>7 DEF Close, SendDone
  <2>2. Open' = Open - 1
    BY <1>7 DEF Close, SendDone
  <2> HIDE DEF R, B, H, C, W, P, S, Open
  <2> QED
    BY <1>1, <1>2, <1>3, <2>1, <2>2
<1>8. ASSUME NEW p \in Compressors, Receive(p) PROVE StepsLeft' < StepsLeft
  <2>1. R' = R /\ C' = C /\ W' = W /\ S' = S /\ Open' = Open
    BY <1>4, <1>8 DEF Receive
  <2>2. B' = B - 1
    BY <1>8, HeadTailProperties DEF Receive
  <2>3. p \notin Holding /\ Holding' = Holding \cup {p} /\ Compressing' = Compressing
    BY <1>8, Marks DEF Receive, Holding, Compressing
  <2>4. H' = H + 1 /\ P' = P
    BY <1>1, <2>3, Joined
  <2> HIDE DEF R, B, H, C, W, P, S, Open
  <2> QED
    BY <1>1, <1>2, <1>3, <2>1, <2>2, <2>4
<1>9. ASSUME NEW p \in Compressors, Forward(p) PROVE StepsLeft' < StepsLeft
  <2>1. R' = R /\ B' = B /\ W' = W /\ S' = S /\ Open' = Open
    BY <1>4, <1>9 DEF Forward
  <2>2. compressor[p][2] \in Index
    BY <1>9, Marks DEF Forward
  <2>3. C' = C + 1
    BY <1>9, <2>2, AppendProperties DEF Forward
  <2>4. p \notin Holding' /\ Holding = Holding' \cup {p} /\ Compressing' = Compressing
    BY <1>9, Marks DEF Forward, Holding, Compressing
  <2>5. H' = H - 1 /\ P' = P
    BY <1>2, <2>4, Joined
  <2> HIDE DEF R, B, H, C, W, P, S, Open
  <2> QED
    BY <1>1, <1>2, <1>3, <2>1, <2>3, <2>5
<1>10. ASSUME NEW p \in Compressors, EndCompressor(p) PROVE StepsLeft' < StepsLeft
  <2>1. R' = R /\ B' = B /\ C' = C /\ W' = W /\ S' = S /\ Open' = Open
    BY <1>4, <1>10 DEF EndCompressor
  <2>2. /\ p \notin Compressing' /\ Compressing = Compressing' \cup {p}
        /\ Holding' = Holding
    BY <1>10, Marks DEF EndCompressor, Holding, Compressing
  <2>3. P' = P - 1
    <3>1. Cardinality(Compressing) = Cardinality(Compressing') + 1
      BY <1>2, <2>2, Joined
    <3> QED
      BY <1>2, <3>1
  <2>4. H' = H
    BY <2>2
  <2> HIDE DEF R, B, H, C, W, P, S, Open
  <2> QED
    BY <1>1, <1>2, <1>3, <2>1, <2>3, <2>4
<1>11. ASSUME NEW w \in Workers, Take(w) PROVE StepsLeft' < StepsLeft
  <2>1. R' = R /\ B' = B /\ H' = H /\ P' = P /\ Open' = Open
    BY <1>4, <1>11 DEF Take
  <2>2. C' = C - 1
    BY <1>11, HeadTailProperties DEF Take
  <2>3. w \notin Working /\ Working' = Working \cup {w} /\ Serving' = Serving
    BY <1>11, Marks DEF Take, Working, Serving
  <2>4. W' = W + 1 /\ S' = S
    BY <1>1, <2>3, Joined
  <2> HIDE DEF R, B, H, C, W, P, S, Open
  <2> QED
    BY <1>1, <1>2, <1>3, <2>1, <2>2, <2>4
<1>12. ASSUME NEW w \in Workers, Finish(w) PROVE StepsLeft' < StepsLeft
  <2>1. R' = R /\ B' = B /\ C' = C /\ H' = H /\ P' = P /\ Open' = Open
    BY <1>4, <1>12 DEF Finish
  <2>2. w \notin Working' /\ Working = Working' \cup {w} /\ Serving' = Serving
    BY <1>12, Marks DEF Finish, Working, Serving
  <2>3. W' = W - 1 /\ S' = S
    BY <1>2, <2>2, Joined
  <2> HIDE DEF R, B, H, C, W, P, S, Open
  <2> QED
    BY <1>1, <1>2, <1>3, <2>1, <2>3
<1>13. ASSUME NEW w \in Workers, EndWorker(w) PROVE StepsLeft' < StepsLeft
  <2>1. R' = R /\ B' = B /\ C' = C /\ H' = H /\ P' = P /\ Open' = Open
    BY <1>4, <1>13 DEF EndWorker
  <2>2. w \notin Serving' /\ Serving = Serving' \cup {w} /\ Working' = Working
    BY <1>13, Marks DEF EndWorker, Working, Serving
  <2>3. S' = S - 1 /\ W' = W
    BY <1>2, <2>2, Joined
  <2> HIDE DEF R, B, H, C, W, P, S, Open
  <2> QED
    BY <1>1, <1>2, <1>3, <2>1, <2>3
<1> QED
  BY <1>5, <1>6, <1>7, <1>8, <1>9, <1>10, <1>11, <1>12, <1>13 DEF PipeNext

\* Every step of the pipeline leaves fewer, a natural number of them: with PipeNeverStuck, it comes
\* to its end after at most that many steps, in whatever order the goroutines make them.
THEOREM PipeStepsLeft ==
  ASSUME Counted, Indexed
  PROVE  PipeSpec => [](StepsLeft \in Nat) /\ [][StepsLeft' < StepsLeft]_pipeVars
<1>1. PipeTypeOK => StepsLeft \in Nat
  <2> SUFFICES ASSUME PipeTypeOK PROVE StepsLeft \in Nat
    OBVIOUS
  <2> DEFINE H == Cardinality(Holding)
             W == Cardinality(Working)
             P == Cardinality(Compressing)
             S == Cardinality(Serving)
  <2>1. /\ H \in Nat /\ W \in Nat /\ P \in Nat /\ S \in Nat
        /\ ToRead \in Nat /\ Len(blocks) \in Nat /\ Len(compressed) \in Nat
    BY StepsCounted
  <2>2. StepsLeft = 5 * ToRead + 4 * Len(blocks) + 3 * H + 2 * Len(compressed) + W + P + S
          + (IF reader = "reading" THEN 1 ELSE 0) + (IF closed THEN 0 ELSE 1)
          + (IF main = "waiting" THEN 1 ELSE 0)
    BY DEF StepsLeft
  <2> HIDE DEF H, W, P, S
  <2> QED
    BY <2>1, <2>2
<1>2. PipeTypeOK /\ [PipeNext]_pipeVars => [StepsLeft' < StepsLeft]_pipeVars
  BY PipeTypeStep, StepsLeftStep
<1> QED
  BY <1>1, <1>2, PipeInitType, PipeTypeStep, PTL DEF PipeSpec
=============================================================================
