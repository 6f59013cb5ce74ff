---------------------------- MODULE UploadProofs ----------------------------
(***************************************************************************)
(* Proofs about Upload, for any files, block size, workers, connections    *)
(* and faults: types; hashes answer the questions they were asked for; a   *)
(* block that is right stays so; and what a client is never sent.          *)
(***************************************************************************)
EXTENDS SameBlockSize, ServerLoopProofs, BlockFileProofs, SequenceTheorems

---------------------------------------------------------------------------
(* The server loop inside an upload.                                       *)

\* All that the server's death changes is that it no longer runs.
LEMMA DeathOnly ==
  ASSUME ServerDies
  PROVE  /\ UNCHANGED <<stage, backlog, activeConns, doneReceived, timer>>
         /\ UNCHANGED <<dst, src, noCompress, maxId, cache, nextJob, hasher, handler>>
         /\ UNCHANGED <<link, c2s, s2c, broken, todo, worker, outcome, main>>
         /\ server = "running" /\ server' \in {"acceptError", "truncateError"}
         /\ Fault
BY DEF ServerDies, AcceptError, TruncateError, fileVars, inputVars, cacheVars, netVars, clientVars

\* Every step of an upload is a step of the server loop, or leaves it alone.
LEMMA LoopSim == [Next]_vars => [LoopNext]_loopVars
<1> SUFFICES ASSUME [Next]_vars PROVE [LoopNext]_loopVars
  OBVIOUS
<1>1. CASE UNCHANGED vars
  BY <1>1 DEF vars
<1>2. CASE LoopStep
  BY <1>2 DEF LoopStep, LoopNext, Epilogue
<1>3. ASSUME NEW c \in Conn, HandlerStep(c) \/ Break(c) \/ Abort(c)
      PROVE  [LoopNext]_loopVars
  BY <1>3 DEF HandlerStep, Read, Reply, Zero, Write, Set, End, Break, Abort, LoopNext
<1>4. ASSUME NEW p \in Hashers, HasherStep(p) \/ HashFails(p)
      PROVE  [LoopNext]_loopVars
  BY <1>4 DEF HasherStep, TakeJob, HashBlock, Publish, HashFails
<1>5. ASSUME NEW w \in Workers, WorkerStep(w) \/ AskFails(w) \/ ReplyFails(w)
      PROVE  [LoopNext]_loopVars
  BY <1>5 DEF WorkerStep, Take, Ask, Transmit, Compare, EndWorker, AskFails, ReplyFails, LoopNext
<1>6. CASE MainStep \/ SendDoneFails \/ ReaderFails
  BY <1>6 DEF MainStep, SendDone, Transmit, EndClient, SendDoneFails, ReaderFails, LoopNext
<1>7. CASE ServerDies
  BY <1>7 DEF ServerDies, LoopNext
<1> QED
  BY <1>1, <1>2, <1>3, <1>4, <1>5, <1>6, <1>7 DEF Next

\* During an upload the server leaves only when no handler is in the middle of a block.
THEOREM UploadExitIsQuiet == Spec => []GracefulExitIsQuiet
<1>1. Init => LoopInv
  BY InitLoopInv DEF Init
<1>2. LoopInv /\ [Next]_vars => LoopInv'
  BY LoopSim, LoopInvStep
<1>3. LoopInv => GracefulExitIsQuiet
  BY DEF LoopInv
<1> QED
  BY <1>1, <1>2, <1>3, PTL DEF Spec

---------------------------------------------------------------------------
(* Types.                                                                  *)

LEMMA SourceFacts ==
  ASSUME TypeOK
  PROVE  /\ src \in File /\ src.size > 0 /\ src.size \in Nat
         /\ src.size \in 0 .. BlockCount * BlockSize
         /\ LastSrc \in Block
         /\ \A b \in Block : /\ SrcBlock(b) \in Reads
                             /\ SrcHash(b) \in Hash
                             /\ SrcEnd(b) \in 0 .. BlockCount * BlockSize
<1>1. src \in File /\ src.size > 0
  BY UploadAssumption DEF TypeOK
<1>2. src.size \in Nat /\ src.size \in 0 .. BlockCount * BlockSize
  BY <1>1, FileElim, Sizes
<1>3. LastSrc \in Block
  BY <1>1, LastBlockBounds DEF LastSrc
<1>4. ASSUME NEW b \in Block
      PROVE  SrcBlock(b) \in Reads /\ SrcHash(b) \in Hash
  BY <1>1, ReadBlockType, HashTypes DEF SrcBlock, SrcHash
<1>5. ASSUME NEW b \in Block
      PROVE  SrcEnd(b) \in 0 .. BlockCount * BlockSize
  BY <1>2, StartBounds DEF SrcEnd
<1> QED
  BY <1>1, <1>2, <1>3, <1>4, <1>5

LEMMA MsgType ==
  ASSUME TypeOK, NEW b \in Block, NEW k \in MsgKind
  PROVE  Msg(k, b) \in Message /\ NoMsg \in Message
BY SourceFacts, NoBytesType, Sizes DEF Msg, NoMsg, Message, MsgKind

\* With the same -b the server's blocks are the client's.
LEMMA SameBlocks ==
  /\ \A f \in File : CacheBound(f) = IF f.size > 0 THEN LastBlock(f.size) ELSE 0
  /\ \A f \in File, b \in Block : ReadServed(f, b) = ReadBlock(f, b)
<1>1. \A f \in File : CacheBound(f) = IF f.size > 0 THEN LastBlock(f.size) ELSE 0
  BY SameSizeAssumption DEF CacheBound, LastBlock
<1>2. ASSUME NEW f \in File, NEW b \in Block
      PROVE  ReadServed(f, b) = ReadBlock(f, b)
  <2>1. Start(b) \in Nat /\ b * ServerBlockSize = Start(b)
    BY StartBounds, SameSizeAssumption DEF Start
  <2>2. Start(b + 1) = Start(b) + ServerBlockSize
    BY SameSizeAssumption, Sizes DEF Start, Block
  <2>3. Span(b) = Start(b) .. Start(b) + ServerBlockSize - 1
    <3>1. Start(b + 1) - 1 = Start(b) + ServerBlockSize - 1
      BY <2>1, <2>2, UploadAssumption
    <3> QED
      BY <3>1 DEF Span
  <2> DEFINE at(i) == b * ServerBlockSize + i - Start(b)
  <2>4. \A i \in Span(b) : at(i) = i
    BY <2>1, <2>3, StartBounds, Sizes, SameSizeAssumption
  <2> HIDE DEF at
  <2>5. ReadServed(f, b) = [i \in {j \in Span(b) : at(j) < f.size} |-> f.data[at(i)]]
    BY <2>3 DEF ReadServed, at
  <2> QED
    BY <2>4, <2>5 DEF ReadBlock
<1> QED
  BY <1>1, <1>2

LEMMA InitType == Init => TypeOK
<1> SUFFICES ASSUME Init PROVE TypeOK
  OBVIOUS
<1> USE DEF Init
<1>1. LoopTypeOK
  BY InitLoopInv DEF LoopInv
<1>2. src \in File /\ src.size > 0 /\ dst \in File
  BY UploadAssumption
<1>3. LastSrc \in Block /\ maxId \in Block
  BY <1>2, LastBlockBounds, SameBlocks, FileElim, Sizes DEF LastSrc
<1>4. cache \in [Block -> Hash]
  BY HashTypes
<1>5. nextJob \in Nat
  BY UploadAssumption
<1>6. hasher \in [Hashers -> [pc : {"idle", "read", "set"}, blk : Block, got : Hash]]
  BY HashTypes, Sizes
<1>7. NoMsg \in Message
  BY NoBytesType, Sizes DEF NoMsg, Message, MsgKind
<1>8. handler \in [Conn -> [pc : HandlerPc, msg : Message, last : {0, LastSrc}]]
  BY <1>7 DEF HandlerPc
<1>9. todo \subseteq Block
  BY <1>3, UploadAssumption, Sizes DEF Block
<1>10. worker \in [Workers -> [pc : {"idle", "ask", "reply", "ended"}, blk : Block,
                              try : 0 .. MaxRetries - 1]]
  BY Sizes DEF MaxRetries
<1>11. outcome \in [Block -> Result] /\ link \in [Agent -> Conn \cup {NoConn}]
  BY DEF Result
<1>12. c2s \in [Conn -> Seq(Message)] /\ s2c \in [Conn -> Seq([blk : Block, hash : Hash])]
  OBVIOUS
<1>13. broken \subseteq Conn /\ faults \in 0 .. MaxFaults
  BY UploadAssumption
<1> QED
  BY <1>1, <1>2, <1>3, <1>4, <1>5, <1>6, <1>8, <1>9, <1>10, <1>11, <1>12, <1>13 DEF TypeOK

\* Arrays of queues stay so when one queue grows, shrinks, or starts.
LEMMA QueueType ==
  ASSUME NEW S, NEW q \in [Conn -> Seq(S)], NEW c \in Conn
  PROVE  /\ \A e \in S : [q EXCEPT ![c] = Append(@, e)] \in [Conn -> Seq(S)]
         /\ \A e \in S : [q EXCEPT ![c] = <<e>>] \in [Conn -> Seq(S)]
         /\ q[c] # <<>> => /\ [q EXCEPT ![c] = Tail(@)] \in [Conn -> Seq(S)]
                           /\ Head(q[c]) \in S
<1>0. q[c] \in Seq(S)
  OBVIOUS
<1>1. \A e \in S : Append(q[c], e) \in Seq(S) /\ <<e>> \in Seq(S)
  BY <1>0
<1>2. q[c] # <<>> => Tail(q[c]) \in Seq(S) /\ Head(q[c]) \in S
  BY <1>0
<1> QED
  BY <1>1, <1>2

\* A prefix, and a sequence with other elements, are sequences.
LEMMA PrefixType ==
  ASSUME NEW S, NEW q \in Seq(S), NEW n \in 0 .. Len(q)
  PROVE  /\ SubSeq(q, 1, n) \in Seq(S)
         /\ Len(SubSeq(q, 1, n)) = n /\ \A i \in 1 .. n : SubSeq(q, 1, n)[i] = q[i]
<1>1. n \in Nat /\ n <= Len(q) /\ Len(q) \in Nat
  OBVIOUS
<1>2. \A i \in 1 .. n : q[i] \in S
  BY <1>1, ElementOfSeq
<1> QED
  BY <1>1, <1>2, SubSeqProperties

LEMMA FunctionSeq ==
  ASSUME NEW S, NEW k \in Nat, NEW f \in [1 .. k -> S]
  PROVE  f \in Seq(S) /\ Len(f) = k
BY SeqDef

\* A dead connection takes nothing, a live one one message more.
LEMMA SendType ==
  ASSUME NEW S, NEW q \in [Conn -> Seq(S)], NEW c \in Conn, NEW m \in S
  PROVE  Send(q, c, m) \in [Conn -> Seq(S)]
BY QueueType DEF Send

\* A fault is one more, within the bound.
LEMMA FaultType == TypeOK /\ Fault => faults' \in 0 .. MaxFaults
BY UploadAssumption DEF TypeOK, Fault

\* Answers are hashes.
LEMMA AnswerType ==
  ASSUME TypeOK, NEW b \in Block
  PROVE  Answer(b) \in Hash
BY HashTypes DEF Answer, TypeOK

\* What Retry does to the client, whichever failure calls it.
LEMMA RetryType ==
  ASSUME TypeOK, NEW w \in Workers, NEW closed \in BOOLEAN, Retry(w, closed)
  PROVE  /\ worker' \in [Workers -> [pc : {"idle", "ask", "reply", "ended"}, blk : Block,
                                    try : 0 .. MaxRetries - 1]]
         /\ outcome' \in [Block -> Result]
         /\ link' \in [Agent -> Conn \cup {NoConn}]
<1>1. worker[w].blk \in Block /\ worker[w].try \in 0 .. 2
  BY DEF TypeOK, MaxRetries
<1>2. worker' \in [Workers -> [pc : {"idle", "ask", "reply", "ended"}, blk : Block,
                              try : 0 .. MaxRetries - 1]]
  BY <1>1, Sizes DEF Retry, TypeOK, MaxRetries
<1>3. outcome' \in [Block -> Result]
  BY <1>1 DEF Retry, TypeOK, Result, NoConn
<1>4. link' \in [Agent -> Conn \cup {NoConn}]
  BY DEF Retry, TypeOK, NoConn
<1> QED
  BY <1>2, <1>3, <1>4

LEMMA TransmitType ==
  ASSUME TypeOK, NEW S, c2s \in [Conn -> Seq(S)], NEW a \in Agent, NEW m \in S, Transmit(a, m)
  PROVE  /\ link' \in [Agent -> Conn \cup {NoConn}]
         /\ c2s' \in [Conn -> Seq(S)]
<1>0. link \in [Agent -> Conn \cup {NoConn}]
  BY DEF TypeOK
<1>1. CASE link[a] = NoConn
  <2>1. PICK c \in Conn : /\ link' = [link EXCEPT ![a] = c]
                          /\ c2s' = [c2s EXCEPT ![c] = <<m>>]
    BY <1>1 DEF Transmit
  <2>2. c2s' \in [Conn -> Seq(S)]
    BY <1>0, <2>1, QueueType
  <2> QED
    BY <1>0, <2>1, <2>2
<1>2. CASE link[a] # NoConn
  <2>1. link[a] \in Conn
    BY <1>0, <1>2
  <2>2. c2s' = Send(c2s, link[a], m) /\ link' = link
    BY <1>2 DEF Transmit
  <2> QED
    BY <1>0, <2>1, <2>2, SendType
<1> QED
  BY <1>1, <1>2

LEMMA ClientType ==
  ASSUME TypeOK, LoopTypeOK', NEW w \in Workers,
         WorkerStep(w) \/ AskFails(w) \/ ReplyFails(w)
  PROVE  TypeOK'
<1>0. worker[w].blk \in Block /\ w \in Agent /\ link[w] \in Conn \cup {NoConn}
  BY DEF TypeOK, Agent
<1>1. CASE Take(w)
  <2>1. worker' \in [Workers -> [pc : {"idle", "ask", "reply", "ended"}, blk : Block,
                                try : 0 .. MaxRetries - 1]]
    BY <1>1 DEF Take, TypeOK, MaxRetries
  <2>2. todo' \subseteq Block
    BY <1>1 DEF Take, TypeOK
  <2> QED
    BY <1>1, <2>1, <2>2 DEF Take, TypeOK, LastSrc, fileVars, inputVars, cacheVars, netVars
<1>2. CASE Ask(w)
  <2>1. Msg("ask", worker[w].blk) \in Message
    BY <1>0, MsgType DEF MsgKind
  <2>2. link' \in [Agent -> Conn \cup {NoConn}] /\ c2s' \in [Conn -> Seq(Message)]
    BY <1>0, <1>2, <2>1, TransmitType DEF Ask, TypeOK
  <2> QED
    BY <1>2, <2>2 DEF Ask, TypeOK, LastSrc, fileVars, inputVars, cacheVars
<1>3. CASE Compare(w)
  <2>1. link[w] \in Conn
    BY <1>0, <1>3 DEF Compare
  <2>2. s2c' \in [Conn -> Seq([blk : Block, hash : Hash])]
    BY <1>3, <2>1, QueueType DEF Compare, TypeOK
  <2>3. c2s' \in [Conn -> Seq(Message)]
    <3>1. \A k \in {"zero", "data"} : Msg(k, worker[w].blk) \in Message
      BY <1>0, MsgType DEF MsgKind
    <3> QED
      <4>1. c2s' = c2s \/ \E k \in {"zero", "data"} :
                            c2s' = Send(c2s, link[w], Msg(k, worker[w].blk))
        BY <1>3 DEF Compare
      <4>2. ASSUME NEW k \in {"zero", "data"}, c2s' = Send(c2s, link[w], Msg(k, worker[w].blk))
            PROVE  c2s' \in [Conn -> Seq(Message)]
        <5>1. Msg(k, worker[w].blk) \in Message
          BY <3>1
        <5> QED
          BY <2>1, <4>2, <5>1, SendType DEF TypeOK
      <4> QED
        BY <4>1, <4>2 DEF TypeOK
  <2>4. /\ worker' \in [Workers -> [pc : {"idle", "ask", "reply", "ended"}, blk : Block,
                                   try : 0 .. MaxRetries - 1]]
        /\ outcome' \in [Block -> Result]
        /\ link' \in [Agent -> Conn \cup {NoConn}]
    <3>1. CASE \E what \in {"insync", "sent"} : Settle(w, what) /\ link' = link
      <4>1. worker' \in [Workers -> [pc : {"idle", "ask", "reply", "ended"}, blk : Block,
                                    try : 0 .. MaxRetries - 1]]
        BY <3>1, Sizes DEF Settle, TypeOK, MaxRetries
      <4>2. outcome' \in [Block -> Result] /\ link' \in [Agent -> Conn \cup {NoConn}]
        BY <1>0, <3>1 DEF Settle, TypeOK, Result
      <4> QED
        BY <4>1, <4>2
    <3>2. CASE \E closed \in BOOLEAN : Retry(w, closed)
      BY <3>2, RetryType
    <3> QED
      BY <1>3, <3>1, <3>2 DEF Compare
  <2> QED
    BY <1>3, <2>2, <2>3, <2>4 DEF Compare, TypeOK, LastSrc, fileVars, inputVars, cacheVars
<1>4. CASE EndWorker(w)
  BY <1>0, <1>4 DEF EndWorker, TypeOK, LastSrc, fileVars, inputVars, cacheVars, NoConn
<1>5. CASE AskFails(w) \/ ReplyFails(w)
  <2>1. Retry(w, TRUE)
    BY <1>5 DEF AskFails, ReplyFails
  <2>2. faults' \in 0 .. MaxFaults
    BY <1>5, FaultType DEF AskFails, ReplyFails, TypeOK
  <2> QED
    BY <1>5, <2>1, <2>2, RetryType
       DEF AskFails, ReplyFails, TypeOK, LastSrc, fileVars, inputVars, cacheVars
<1> QED
  BY <1>1, <1>2, <1>3, <1>4, <1>5 DEF WorkerStep

LEMMA MainType ==
  ASSUME TypeOK, LoopTypeOK', MainStep \/ SendDoneFails \/ ServerDies \/ ReaderFails
  PROVE  TypeOK'
<1>0. Main \in Agent
  BY DEF Agent
<1>1. CASE SendDone
  <2>1. Msg("done", 0) \in Message
    BY MsgType, Sizes DEF MsgKind
  <2>2. link' \in [Agent -> Conn \cup {NoConn}] /\ c2s' \in [Conn -> Seq(Message)]
    BY <1>0, <1>1, <2>1, TransmitType DEF SendDone, TypeOK
  <2> QED
    BY <1>1, <2>2 DEF SendDone, TypeOK, LastSrc, fileVars, inputVars, cacheVars
<1>2. CASE EndClient
  BY <1>0, <1>2 DEF EndClient, TypeOK, LastSrc, fileVars, inputVars, cacheVars, NoConn
<1>3. CASE SendDoneFails
  <2>1. faults' \in 0 .. MaxFaults
    BY <1>3, FaultType DEF SendDoneFails, TypeOK
  <2> QED
    BY <1>3, <2>1 DEF SendDoneFails, TypeOK, LastSrc, fileVars, inputVars, cacheVars, netVars
<1>4. CASE ReaderFails
  <2>1. faults' \in 0 .. MaxFaults
    BY <1>4, FaultType DEF ReaderFails
  <2>2. todo' \subseteq Block
    BY <1>4 DEF ReaderFails, TypeOK
  <2>3. outcome' \in [Block -> Result]
    BY <1>4 DEF ReaderFails, TypeOK, Result, NoConn
  <2> QED
    BY <1>4, <2>1, <2>2, <2>3
       DEF ReaderFails, TypeOK, LastSrc, fileVars, inputVars, cacheVars, netVars
<1>5. CASE ServerDies
  <2>1. faults' \in 0 .. MaxFaults
    BY <1>5, DeathOnly, FaultType DEF TypeOK
  <2> QED
    BY <1>5, <2>1, DeathOnly DEF TypeOK, LastSrc
<1> QED
  BY <1>1, <1>2, <1>3, <1>4, <1>5 DEF MainStep

LEMMA HasherType ==
  ASSUME TypeOK, LoopTypeOK', NEW p \in Hashers, HasherStep(p) \/ HashFails(p)
  PROVE  TypeOK'
<1>0. hasher[p].blk \in Block /\ hasher[p].got \in Hash
  BY DEF TypeOK
<1>1. hasher' \in [Hashers -> [pc : {"idle", "read", "set"}, blk : Block, got : Hash]]
  <2>1. CASE TakeJob(p)
    <3>1. nextJob \in Block
      BY <2>1, Sizes DEF TakeJob, TypeOK, Block
    <3> QED
      BY <2>1, <3>1, HashTypes DEF TakeJob, TypeOK
  <2>2. CASE HashBlock(p)
    <3>1. BlockHash(ReadServed(dst, hasher[p].blk)) \in Hash /\ EofMark \in Hash
      BY <1>0, ReadBlockType, SameBlocks, HashTypes DEF TypeOK
    <3> QED
      BY <2>2, <3>1 DEF HashBlock, TypeOK
  <2>3. CASE Publish(p)
    BY <2>3, HashTypes, Sizes DEF Publish, TypeOK
  <2>4. CASE HashFails(p)
    BY <2>4, HashTypes DEF HashFails, TypeOK
  <2> QED
    BY <2>1, <2>2, <2>3, <2>4 DEF HasherStep
<1>2. cache' \in [Block -> Hash]
  BY <1>0 DEF HasherStep, TakeJob, HashBlock, Publish, HashFails, TypeOK
<1>3. nextJob' \in Nat
  BY DEF HasherStep, TakeJob, HashBlock, Publish, HashFails, TypeOK
<1>4. faults' \in 0 .. MaxFaults
  BY FaultType DEF HasherStep, TakeJob, HashBlock, Publish, HashFails, TypeOK
<1>5. UNCHANGED <<fileVars, handler, netVars, clientVars>>
  BY DEF HasherStep, TakeJob, HashBlock, Publish, HashFails
<1> QED
  BY <1>1, <1>2, <1>3, <1>4, <1>5
     DEF TypeOK, LastSrc, fileVars, inputVars, netVars, clientVars

---------------------------------------------------------------------------
(* What the messages carry.                                                *)

\* A data message carries the source's bytes, a zero message is about a zero block.
Honest ==
  {m \in Message : /\ m.kind = "data" => m.data = SrcBlock(m.blk)
                   /\ m.kind = "zero" => SrcHash(m.blk) = ZeroHash}

\* What is on a connection is a message.
Wire == {m \in Honest : m.kind # "none"}

\* The kinds of message a handler can have in hand at each place.
Fitting(pc, kind) ==
  /\ pc = "write" => kind = "data"
  /\ pc \in {"waitZero", "writeZero"} => kind = "zero"
  /\ pc = "set" => kind \in {"data", "zero"}
  /\ pc = "wait" => kind \in {"ask", "done"}

Carried ==
  /\ c2s \in [Conn -> Seq(Wire)]
  /\ \A c \in Conn : handler[c].msg \in Honest /\ Fitting(handler[c].pc, handler[c].msg.kind)

LEMMA MsgHonest ==
  ASSUME TypeOK, NEW b \in Block, NEW k \in MsgKind, k = "zero" => SrcHash(b) = ZeroHash
  PROVE  /\ Msg(k, b) \in Honest /\ NoMsg \in Honest
         /\ k # "none" => Msg(k, b) \in Wire
<1>1. Msg(k, b) \in Message /\ NoMsg \in Message
  BY MsgType
<1> QED
  BY <1>1 DEF Honest, Wire, Msg, NoMsg

\* The source does not change, so what is honest stays so.
LEMMA HonestStable == UNCHANGED src => Honest' = Honest /\ Wire' = Wire
BY DEF Honest, Wire, SrcBlock, SrcHash

\* What a write puts into the file.
LEMMA WriteDst ==
  ASSUME TypeOK, Carried, NEW c \in Conn, Write(c)
  PROVE  dst' \in File
<1>0. handler[c].msg \in Honest /\ handler[c].msg.blk \in Block /\ dst \in File /\ src \in File
  BY SourceFacts DEF Carried, TypeOK, Honest, Message
<1> DEFINE b == handler[c].msg.blk
<1>1. CASE Running(c, "write")
  <2>1. handler[c].msg.data = SrcBlock(b)
    BY <1>0, <1>1 DEF Carried, Fitting, Honest, Running
  <2>2. SrcBlock(b) \in Reads /\ DOMAIN SrcBlock(b) = {i \in Span(b) : i < src.size}
    BY <1>0, ReadBlockType DEF SrcBlock
  <2>3. SrcEnd(b) \in 0 .. BlockCount * BlockSize
    BY <1>0, SourceFacts
  <2>4. \A i \in DOMAIN SrcBlock(b) : i < SrcEnd(b)
    BY <2>2, <1>0, StartBounds DEF SrcEnd, Span
  <2>5. dst' = WriteBlock(dst, SrcBlock(b), SrcEnd(b))
    BY <1>1, <2>1 DEF Write, Running
  <2> QED
    BY <1>0, <2>2, <2>3, <2>4, <2>5, WriteType
<1>2. CASE Running(c, "writeZero")
  <2>1. Start(b + 1) \in 0 .. BlockCount * BlockSize /\ Start(b) \in Nat
    BY <1>0, StartBounds
  <2>2. Zeros(b) \in Reads /\ \A i \in DOMAIN Zeros(b) : i < Start(b + 1)
    BY <1>0, <2>1, ZerosType DEF Span
  <2>3. dst' = WriteBlock(dst, Zeros(b), Start(b + 1))
    BY <1>2 DEF Write, Running
  <2> QED
    BY <1>0, <2>1, <2>2, <2>3, WriteType
<1> QED
  BY <1>1, <1>2 DEF Write

\* A write of block b that gets as far as byte n.
LEMMA PartType ==
  ASSUME NEW f \in File, NEW b \in Block, NEW d \in Reads, DOMAIN d \subseteq Span(b),
         NEW n \in Start(b) .. Start(b + 1)
  PROVE  /\ WritePart(f, d, b, n) \in File
         /\ \A i \in Pos : WritePart(f, d, b, n).data[i] =
                            IF i \in DOMAIN d /\ i < n THEN d[i] ELSE f.data[i]
         /\ WritePart(f, d, b, n).size = IF n > Start(b) /\ n > f.size THEN n ELSE f.size
<1> DEFINE D == {i \in DOMAIN d : i < n}
           e == [i \in D |-> d[i]]
           m == IF n > Start(b) THEN n ELSE 0
<1>0. /\ Start(b) \in Nat /\ Start(b + 1) \in 0 .. BlockCount * BlockSize
      /\ Span(b) \subseteq Pos /\ f.size \in Nat
  BY StartBounds, FileElim, Sizes
<1>1. m \in 0 .. BlockCount * BlockSize /\ WritePart(f, d, b, n) = WriteBlock(f, e, m)
  BY <1>0, Sizes DEF WritePart
<1>2. \A i \in D : i < m
  BY <1>0 DEF Span
<1>3. e \in Reads
  <2>1. PICK S \in SUBSET Pos : d \in [S -> Byte]
    BY DEF Reads
  <2>2. D \in SUBSET Pos /\ e \in [D -> Byte]
    BY <2>1
  <2> QED
    BY <2>2, ReadsIntro
<1>4. DOMAIN e = D /\ \A i \in D : e[i] = d[i]
  OBVIOUS
<1>5. WritePart(f, d, b, n) \in File
  BY <1>1, <1>2, <1>3, <1>4, WriteType
<1>6. \A i \in Pos : WritePart(f, d, b, n).data[i] =
                     IF i \in DOMAIN d /\ i < n THEN d[i] ELSE f.data[i]
  BY <1>1, <1>4 DEF WriteBlock
<1>7. WritePart(f, d, b, n).size = IF n > Start(b) /\ n > f.size THEN n ELSE f.size
  BY <1>0, <1>1 DEF WriteBlock
<1> QED
  BY <1>5, <1>6, <1>7

\* What an abort leaves of the destination: it is as it was, or some bytes of the handler's block
\* have become the source's, and it may have grown to the last of them.
LEMMA AbortPart ==
  ASSUME TypeOK, Carried, NEW c \in Conn, Abort(c), NEW b, b = handler[c].msg.blk
  PROVE  /\ b \in Block /\ dst' \in File /\ dst \in File
         /\ \A i \in Pos : \/ dst'.data[i] = dst.data[i]
                           \/ i \in Span(b) /\ dst'.data[i] = src.data[i]
         /\ \/ dst'.size = dst.size
            \/ dst'.size > dst.size /\ dst'.size <= SrcEnd(b)
            \/ SrcHash(b) = ZeroHash /\ dst'.size > dst.size /\ dst'.size <= Start(b + 1)
         /\ \/ dst' = dst
            \/ handler[c].pc \in {"write", "writeZero"} /\ handler[c].msg.kind \in {"data", "zero"}
<1>0. /\ handler[c].msg \in Honest /\ Fitting(handler[c].pc, handler[c].msg.kind)
      /\ b \in Block /\ dst \in File /\ src \in File
  BY SourceFacts DEF Carried, TypeOK, Honest, Message
<1>1. /\ Start(b) \in Nat /\ Start(b + 1) \in Nat /\ Span(b) \subseteq Pos /\ Pos \subseteq Nat
      /\ src.size \in Nat /\ dst.size \in Nat /\ SrcEnd(b) \in Nat /\ SrcEnd(b) <= Start(b + 1)
      /\ \A i \in Pos : i >= src.size => src.data[i] = 0
  <2>1. Start(b + 1) \in Nat
    BY <1>0, StartBounds
  <2> QED
    BY <1>0, <2>1, StartBounds, SourceFacts, FileElim, Sizes DEF SrcEnd
<1>2. /\ SrcBlock(b) \in Reads /\ DOMAIN SrcBlock(b) = {i \in Span(b) : i < src.size}
      /\ \A i \in DOMAIN SrcBlock(b) : SrcBlock(b)[i] = src.data[i]
  BY <1>0, ReadBlockType DEF SrcBlock
<1>3. CASE UNCHANGED dst
  <2>1. dst' = dst /\ dst' \in File /\ dst'.size = dst.size /\ b \in Block
    BY <1>0, <1>3
  <2>2. \A i \in Pos : dst'.data[i] = dst.data[i]
    BY <1>3
  <2> QED
    BY <2>1, <2>2
<1>4. ASSUME Running(c, "write"), NEW n \in Start(b) .. SrcEnd(b),
             dst' = WritePart(dst, handler[c].msg.data, b, n)
      PROVE  /\ dst' \in File
             /\ \A i \in Pos : \/ dst'.data[i] = dst.data[i]
                               \/ i \in Span(b) /\ dst'.data[i] = src.data[i]
             /\ dst'.size = dst.size \/ (dst'.size > dst.size /\ dst'.size <= SrcEnd(b))
             /\ handler[c].pc = "write" /\ handler[c].msg.kind = "data"
  <2>1. handler[c].msg.data = SrcBlock(b) /\ handler[c].pc = "write" /\ handler[c].msg.kind = "data"
    BY <1>0, <1>4 DEF Fitting, Honest, Running
  <2>2. n \in Start(b) .. Start(b + 1)
    BY <1>1
  <2>3. DOMAIN SrcBlock(b) \subseteq Span(b) /\ dst' = WritePart(dst, SrcBlock(b), b, n)
    BY <1>2, <1>4, <2>1
  <2>4. /\ dst' \in File
        /\ \A i \in Pos : dst'.data[i] = IF i \in DOMAIN SrcBlock(b) /\ i < n THEN SrcBlock(b)[i]
                                          ELSE dst.data[i]
        /\ dst'.size = IF n > Start(b) /\ n > dst.size THEN n ELSE dst.size
    BY <1>0, <1>2, <2>2, <2>3, PartType
  <2>5. \A i \in Pos : \/ dst'.data[i] = dst.data[i]
                       \/ i \in Span(b) /\ dst'.data[i] = src.data[i]
    BY <1>2, <2>3, <2>4
  <2>6. dst'.size = dst.size \/ (dst'.size > dst.size /\ dst'.size <= SrcEnd(b))
    BY <1>1, <2>4
  <2>7. dst' \in File
    BY <2>4
  <2> QED
    BY <2>1, <2>5, <2>6, <2>7
<1>5. ASSUME Running(c, "writeZero"), NEW n \in Start(b) .. Start(b + 1),
             dst' = WritePart(dst, Zeros(b), b, n)
      PROVE  /\ dst' \in File
             /\ \A i \in Pos : \/ dst'.data[i] = dst.data[i]
                               \/ i \in Span(b) /\ dst'.data[i] = src.data[i]
             /\ \/ dst'.size = dst.size
                \/ SrcHash(b) = ZeroHash /\ dst'.size > dst.size /\ dst'.size <= Start(b + 1)
             /\ handler[c].pc = "writeZero" /\ handler[c].msg.kind = "zero"
  <2>1. SrcHash(b) = ZeroHash /\ handler[c].pc = "writeZero" /\ handler[c].msg.kind = "zero"
    BY <1>0, <1>5 DEF Fitting, Honest, Running
  <2>2. \A i \in Span(b) : src.data[i] = 0
    <3>1. IsZero(SrcBlock(b))
      BY <2>1 DEF SrcHash, BlockHash, ZeroHash, Sum
    <3>2. ASSUME NEW i \in Span(b) PROVE src.data[i] = 0
      <4>1. i \in Pos /\ i \in Nat /\ src.size \in Nat
        BY <1>1
      <4>2. CASE i < src.size
        BY <1>2, <3>1, <4>2 DEF IsZero
      <4>3. CASE i >= src.size
        BY <1>1, <4>1, <4>3
      <4> QED
        BY <4>1, <4>2, <4>3
    <3> QED
      BY <3>2
  <2>3. /\ dst' \in File
        /\ \A i \in Pos : dst'.data[i] = IF i \in DOMAIN Zeros(b) /\ i < n THEN Zeros(b)[i]
                                          ELSE dst.data[i]
        /\ dst'.size = IF n > Start(b) /\ n > dst.size THEN n ELSE dst.size
    BY <1>0, <1>5, ZerosType, PartType
  <2>4. DOMAIN Zeros(b) = Span(b) /\ \A i \in Span(b) : Zeros(b)[i] = 0
    BY <1>0, ZerosType
  <2>5. \A i \in Pos : \/ dst'.data[i] = dst.data[i]
                       \/ i \in Span(b) /\ dst'.data[i] = src.data[i]
    BY <2>2, <2>3, <2>4
  <2>6. dst'.size = dst.size \/ (dst'.size > dst.size /\ dst'.size <= Start(b + 1))
    BY <1>1, <2>3
  <2>7. dst' \in File
    BY <2>3
  <2> QED
    BY <2>1, <2>5, <2>6, <2>7
<1> QED
  BY <1>0, <1>3, <1>4, <1>5 DEF Abort

\* What a break leaves of the queues, whatever set the messages are known to come from.
LEMMA BreakType ==
  ASSUME TypeOK, NEW c \in Conn, Break(c),
         NEW S, c2s \in [Conn -> Seq(S)], \A m \in S : Msg("header", m.blk) \in S
  PROVE  /\ c2s' \in [Conn -> Seq(S)]
         /\ s2c' \in [Conn -> Seq([blk : Block, hash : Hash])]
<1> DEFINE R == [blk : Block, hash : Hash]
<1>0. s2c \in [Conn -> Seq(R)]
  BY DEF TypeOK
<1>1. PICK k \in 0 .. Len(c2s[c]), n \in 0 .. Len(s2c[c]), whole \in BOOLEAN :
        /\ c2s' = [c2s EXCEPT ![c] =
                     [i \in 1 .. k |-> IF ~whole /\ i = k /\ @[i].kind = "data"
                                       THEN Msg("header", @[i].blk) ELSE @[i]]]
        /\ s2c' = [s2c EXCEPT ![c] = SubSeq(@, 1, n)]
  BY DEF Break
<1>2. SubSeq(s2c[c], 1, n) \in Seq(R)
  BY <1>0, PrefixType
<1>3. ASSUME NEW i \in 1 .. k
      PROVE  c2s[c][i] \in S /\ Msg("header", c2s[c][i].blk) \in S
  <2>1. c2s[c] \in Seq(S) /\ i \in 1 .. Len(c2s[c])
    OBVIOUS
  <2> QED
    BY <2>1, ElementOfSeq
<1>4. [i \in 1 .. k |-> IF ~whole /\ i = k /\ c2s[c][i].kind = "data"
                        THEN Msg("header", c2s[c][i].blk) ELSE c2s[c][i]] \in Seq(S)
  BY <1>3, FunctionSeq
<1> QED
  BY <1>0, <1>1, <1>2, <1>4

LEMMA HandlerType ==
  ASSUME TypeOK, Carried, LoopTypeOK', NEW c \in Conn, HandlerStep(c) \/ Break(c) \/ Abort(c)
  PROVE  TypeOK'
<1> DEFINE HandlerSet == [pc : HandlerPc, msg : Message, last : {0, LastSrc}]
           ReplySet == [blk : Block, hash : Hash]
<1>0. /\ handler \in [Conn -> HandlerSet] /\ handler[c] \in HandlerSet
      /\ handler[c].msg \in Message
      /\ handler[c].msg.blk \in Block /\ handler[c].msg.data \in Reads
      /\ NoMsg \in Message
      /\ c2s \in [Conn -> Seq(Message)] /\ s2c \in [Conn -> Seq(ReplySet)]
  BY MsgType DEF TypeOK, Message, MsgKind
<1>1. handler' \in [Conn -> HandlerSet]
  <2>1. CASE Read(c)
    <3>1. Head(c2s[c]) \in Message
      BY <1>0, <2>1, QueueType DEF Read
    <3> QED
      BY <1>0, <2>1, <3>1 DEF Read, HandlerPc
  <2>2. CASE NextMessage(c)
    BY <1>0, <2>2 DEF NextMessage, HandlerPc
  <2>3. ASSUME NEW pc \in HandlerPc, handler' = [handler EXCEPT ![c].pc = pc]
        PROVE  handler' \in [Conn -> HandlerSet]
    BY <1>0, <2>3
  <2>4. CASE handler' = handler
    BY <1>0, <2>4
  <2>5. CASE Reply(c)
    BY <2>2, <2>3, <2>5 DEF Reply, HandlerPc
  <2>6. CASE Zero(c) \/ Write(c) \/ Set(c)
    BY <2>2, <2>3, <2>6 DEF Zero, Write, Set, HandlerPc
  <2>7. CASE Break(c)
    BY <2>4, <2>7 DEF Break
  <2>8. CASE Abort(c)
    BY <2>3, <2>8 DEF Abort, HandlerPc
  <2>9. CASE End(c)
    BY <1>0, <2>9 DEF End, HandlerPc
  <2> QED
    BY <2>1, <2>5, <2>6, <2>7, <2>8, <2>9 DEF HandlerStep
<1>2. dst' \in File
  <2>1. CASE Read(c)
    BY <2>1, SourceFacts, ResizeType DEF Read, TypeOK
  <2>2. CASE Write(c)
    BY <2>2, WriteDst
  <2>3. CASE Abort(c)
    BY <2>3, AbortPart
  <2>4. CASE ~Read(c) /\ ~Write(c) /\ ~Abort(c)
    BY <2>4 DEF HandlerStep, Reply, Zero, Set, End, Break, TypeOK, fileVars
  <2> QED
    BY <2>1, <2>2, <2>3, <2>4
<1>3. cache' \in [Block -> Hash]
  <2>1. CASE Set(c)
    BY <1>0, <2>1, HashTypes DEF Set, TypeOK
  <2>2. CASE ~Set(c)
    BY <2>2 DEF HandlerStep, Read, Reply, Zero, Write, End, Break, Abort, TypeOK, cacheVars
  <2> QED
    BY <2>1, <2>2
<1>4. c2s' \in [Conn -> Seq(Message)] /\ s2c' \in [Conn -> Seq(ReplySet)]
  <2>1. CASE Read(c)
    BY <1>0, <2>1, QueueType DEF Read
  <2>2. CASE Reply(c)
    <3>1. [blk |-> handler[c].msg.blk, hash |-> Answer(handler[c].msg.blk)] \in ReplySet
      BY <1>0, AnswerType
    <3>2. s2c' = s2c \/ s2c' = [s2c EXCEPT ![c] = Append(@, [blk |-> handler[c].msg.blk,
                                                   hash |-> Answer(handler[c].msg.blk)])]
      BY <2>2 DEF Reply
    <3>3. s2c' \in [Conn -> Seq(ReplySet)]
      <4>1. \A e \in ReplySet : [s2c EXCEPT ![c] = Append(@, e)] \in [Conn -> Seq(ReplySet)]
        BY <1>0, QueueType
      <4> HIDE DEF ReplySet
      <4> QED
        BY <1>0, <3>1, <3>2, <4>1
    <3>4. c2s' = c2s
      BY <2>2 DEF Reply
    <3> QED
      BY <1>0, <3>3, <3>4
  <2>3. CASE Break(c)
    <3>1. \A m \in Message : Msg("header", m.blk) \in Message
      BY MsgType DEF Message, MsgKind
    <3> QED
      BY <1>0, <2>3, <3>1, BreakType
  <2>4. CASE End(c)
    <3>1. c2s' = [c2s EXCEPT ![c] = <<>>] /\ s2c' = s2c
      BY <2>4 DEF End
    <3>2. <<>> \in Seq(Message)
      OBVIOUS
    <3> QED
      BY <1>0, <3>1, <3>2
  <2>5. CASE ~Read(c) /\ ~Reply(c) /\ ~Break(c) /\ ~End(c)
    BY <1>0, <2>5 DEF HandlerStep, Zero, Write, Set, Abort, netVars
  <2> QED
    BY <2>1, <2>2, <2>3, <2>4, <2>5
<1>5. broken' \subseteq Conn
  BY DEF HandlerStep, Read, Reply, Zero, Write, Set, End, Break, Abort, netVars, TypeOK
<1>6. faults' \in 0 .. MaxFaults
  <2>1. Fault \/ UNCHANGED faults
    BY DEF HandlerStep, Read, Reply, Zero, Write, Set, End, Break, Abort
  <2> QED
    BY <2>1, FaultType DEF TypeOK
<1>7. UNCHANGED <<inputVars, nextJob, hasher, link, clientVars>>
  BY DEF HandlerStep, Read, Reply, Zero, Write, Set, End, Break, Abort, fileVars, cacheVars,
         netVars
<1> QED
  BY <1>1, <1>2, <1>3, <1>4, <1>5, <1>6, <1>7 DEF TypeOK, LastSrc, inputVars, clientVars

LEMMA CarriedStep ==
  ASSUME TypeOK, Carried, [Next]_vars
  PROVE  Carried'
<1> DEFINE Fits(h) == h.msg \in Honest /\ Fitting(h.pc, h.msg.kind)
<1>0. /\ c2s \in [Conn -> Seq(Wire)]
      /\ \A c \in Conn : Fits(handler[c])
      /\ handler \in [Conn -> [pc : HandlerPc, msg : Message, last : {0, LastSrc}]]
  BY DEF Carried, TypeOK
<1>1. Honest' = Honest /\ Wire' = Wire
  <2>1. UNCHANGED src
    BY DEF Next, LoopStep, HandlerStep, Read, Reply, Zero, Write, Set, End, HasherStep, TakeJob,
           HashBlock, Publish, WorkerStep, Take, Ask, Compare, EndWorker, MainStep, SendDone,
           EndClient, AskFails, ReplyFails, Break, Abort, HashFails, SendDoneFails, ReaderFails,
           ServerDies, vars, fileVars, inputVars
  <2> QED
    BY <2>1, HonestStable
<1>2. SUFFICES c2s' \in [Conn -> Seq(Wire)] /\ \A c \in Conn : Fits(handler'[c])
  BY <1>1 DEF Carried
<1>3. ASSUME UNCHANGED <<c2s, handler>>
      PROVE  c2s' \in [Conn -> Seq(Wire)] /\ \A c \in Conn : Fits(handler'[c])
  BY <1>0, <1>3
<1>4. CASE LoopStep \/ SendDoneFails \/ ServerDies \/ ReaderFails \/ EndClient \/ UNCHANGED vars
  BY <1>3, <1>4 DEF LoopStep, SendDoneFails, ReaderFails, ServerDies, EndClient, vars, netVars
<1>5. ASSUME NEW p \in Hashers, HasherStep(p) \/ HashFails(p)
      PROVE  UNCHANGED <<c2s, handler>>
  BY <1>5 DEF HasherStep, TakeJob, HashBlock, Publish, HashFails, netVars
<1>6. ASSUME NEW w \in Workers, WorkerStep(w) \/ AskFails(w) \/ ReplyFails(w)
      PROVE  c2s' \in [Conn -> Seq(Wire)] /\ UNCHANGED handler
  <2>0. worker[w].blk \in Block /\ w \in Agent /\ link[w] \in Conn \cup {NoConn}
    BY DEF TypeOK, Agent
  <2>1. CASE Ask(w)
    <3>1. Msg("ask", worker[w].blk) \in Wire
      BY <2>0, MsgHonest DEF MsgKind
    <3> QED
      BY <1>0, <2>0, <2>1, <3>1, TransmitType DEF Ask
  <2>2. CASE Compare(w)
    <3>1. \/ c2s' = c2s
          \/ c2s' = Send(c2s, link[w], Msg("data", worker[w].blk))
          \/ /\ SrcHash(worker[w].blk) = ZeroHash
             /\ c2s' = Send(c2s, link[w], Msg("zero", worker[w].blk))
      BY <2>2 DEF Compare
    <3>2. Msg("data", worker[w].blk) \in Wire
      BY <2>0, MsgHonest DEF MsgKind
    <3>3. SrcHash(worker[w].blk) = ZeroHash => Msg("zero", worker[w].blk) \in Wire
      BY <2>0, MsgHonest DEF MsgKind
    <3>4. link[w] \in Conn
      BY <2>0, <2>2 DEF Compare
    <3>5. c2s' \in [Conn -> Seq(Wire)]
      BY <1>0, <3>1, <3>2, <3>3, <3>4, SendType
    <3> QED
      BY <3>5, <2>2 DEF Compare
  <2>3. CASE Take(w) \/ EndWorker(w) \/ AskFails(w) \/ ReplyFails(w)
    BY <1>0, <2>3 DEF Take, EndWorker, AskFails, ReplyFails, netVars
  <2> QED
    BY <1>6, <2>1, <2>2, <2>3 DEF WorkerStep
<1>7. CASE SendDone
  <2>1. Msg("done", 0) \in Wire /\ Main \in Agent
    BY MsgHonest, Sizes DEF MsgKind, Agent
  <2> QED
    BY <1>0, <1>7, <2>1, TransmitType DEF SendDone
<1>8. ASSUME NEW c \in Conn, HandlerStep(c) \/ Break(c) \/ Abort(c)
      PROVE  c2s' \in [Conn -> Seq(Wire)] /\ \A d \in Conn : Fits(handler'[d])
  <2>1. CASE Read(c)
    <3>0. Head(c2s[c]) \in Wire /\ c2s' \in [Conn -> Seq(Wire)]
      <4>1. c2s[c] # <<>> /\ c2s' = [c2s EXCEPT ![c] = Tail(@)]
        BY <2>1 DEF Read
      <4> QED
        BY <1>0, <4>1, QueueType
    <3>1. Head(c2s[c]) \in Honest /\ Head(c2s[c]).kind \in MsgKind
      BY <3>0 DEF Wire, Honest, Message
    <3>2. Head(c2s[c]).kind # "none"
      BY <3>0 DEF Wire
    <3>3. Fits(handler'[c])
      <4>1. /\ handler'[c].msg = Head(c2s[c])
            /\ handler'[c].pc = CASE Head(c2s[c]).kind = "zero" -> "waitZero"
                                 [] Head(c2s[c]).kind = "data" -> "write"
                                 [] Head(c2s[c]).kind = "header" -> "end"
                                 [] OTHER -> "wait"
        BY <1>0, <2>1 DEF Read
      <4> QED
        BY <3>1, <3>2, <4>1 DEF Fitting, MsgKind
    <3> QED
      BY <1>0, <2>1, <3>0, <3>3 DEF Read
  <2>2. CASE Reply(c) \/ Zero(c) \/ Write(c) \/ Set(c) \/ Abort(c)
    <3>1. c2s' = c2s /\ \A d \in Conn : d # c => handler'[d] = handler[d]
      BY <1>0, <2>2 DEF Reply, Zero, Write, Set, Abort, NextMessage, netVars
    <3>2. Fits(handler'[c])
      <4>1. NoMsg \in Honest /\ Fitting("read", NoMsg.kind)
        BY MsgHonest, Sizes DEF Fitting, MsgKind
      <4>2. CASE NextMessage(c)
        BY <1>0, <4>1, <4>2 DEF NextMessage
      <4>3. ASSUME NEW pc \in HandlerPc, handler' = [handler EXCEPT ![c].pc = pc],
                   Fitting(pc, handler[c].msg.kind)
            PROVE  Fits(handler'[c])
        BY <1>0, <4>3
      <4>4. CASE Reply(c) \/ Abort(c)
        BY <4>2, <4>3, <4>4 DEF Reply, Abort, HandlerPc, Fitting
      <4>5. CASE Zero(c) \/ Write(c)
        BY <1>0, <4>2, <4>3, <4>5 DEF Zero, Write, Running, HandlerPc, Fitting
      <4>6. CASE Set(c)
        BY <4>2, <4>6 DEF Set
      <4> QED
        BY <2>2, <4>4, <4>5, <4>6
    <3> QED
      BY <1>0, <3>1, <3>2
  <2>3. CASE Break(c)
    <3>1. \A m \in Wire : Msg("header", m.blk) \in Wire
      BY MsgHonest DEF Wire, Honest, Message, MsgKind
    <3>2. c2s' \in [Conn -> Seq(Wire)]
      BY <1>0, <2>3, <3>1, BreakType
    <3> QED
      BY <1>0, <2>3, <3>2 DEF Break
  <2>4. CASE End(c)
    <3>1. NoMsg \in Honest /\ Fitting("end", NoMsg.kind)
      BY MsgHonest, Sizes DEF Fitting, MsgKind
    <3> QED
      BY <1>0, <2>4, <3>1 DEF End
  <2> QED
    BY <1>8, <2>1, <2>2, <2>3, <2>4 DEF HandlerStep
<1> QED
  <2>1. CASE \E w \in Workers : WorkerStep(w) \/ AskFails(w) \/ ReplyFails(w)
    BY <1>0, <1>6, <2>1
  <2>2. CASE SendDone
    BY <1>0, <1>7, <2>2 DEF SendDone
  <2>3. CASE \E c \in Conn : HandlerStep(c) \/ Break(c) \/ Abort(c)
    BY <1>8, <2>3
  <2>4. CASE \E p \in Hashers : HasherStep(p) \/ HashFails(p)
    BY <1>3, <1>5, <2>4
  <2> QED
    BY <1>4, <2>1, <2>2, <2>3, <2>4 DEF Next, MainStep

\* The first inductive invariant: the server loop's, the types, and what messages carry.
Shape == LoopInv /\ TypeOK /\ Carried

LEMMA InitShape == Init => Shape
<1> SUFFICES ASSUME Init PROVE Shape
  OBVIOUS
<1>1. LoopInv /\ TypeOK
  BY InitLoopInv, InitType DEF Init
<1>2. NoMsg \in Honest
  BY <1>1, MsgHonest, Sizes DEF MsgKind
<1>3. c2s \in [Conn -> Seq(Wire)]
  BY DEF Init
<1>4. \A c \in Conn : handler[c].msg = NoMsg /\ handler[c].pc = "read"
  BY DEF Init
<1> QED
  BY <1>1, <1>2, <1>3, <1>4 DEF Shape, Carried, Fitting

LEMMA ShapeStep == Shape /\ [Next]_vars => Shape'
<1> SUFFICES ASSUME Shape, [Next]_vars PROVE Shape'
  OBVIOUS
<1>0. LoopInv /\ TypeOK /\ Carried
  BY DEF Shape
<1>1. LoopInv'
  BY <1>0, LoopSim, LoopInvStep
<1>2. LoopTypeOK'
  BY <1>1 DEF LoopInv
<1>3. Carried'
  BY <1>0, CarriedStep
<1>4. TypeOK'
  <2>1. CASE LoopStep
    BY <1>0, <1>2, <2>1
       DEF LoopStep, TypeOK, LastSrc, fileVars, inputVars, cacheVars, netVars, clientVars
  <2>2. CASE UNCHANGED vars
    BY <1>0, <1>2, <2>2
       DEF vars, TypeOK, LastSrc, fileVars, inputVars, cacheVars, netVars, clientVars
  <2>3. CASE \E c \in Conn : HandlerStep(c) \/ Break(c) \/ Abort(c)
    BY <1>0, <1>2, <2>3, HandlerType
  <2>4. CASE \E p \in Hashers : HasherStep(p) \/ HashFails(p)
    BY <1>0, <1>2, <2>4, HasherType
  <2>5. CASE \E w \in Workers : WorkerStep(w) \/ AskFails(w) \/ ReplyFails(w)
    BY <1>0, <1>2, <2>5, ClientType
  <2>6. CASE MainStep \/ SendDoneFails \/ ServerDies \/ ReaderFails
    BY <1>0, <1>2, <2>6, MainType
  <2> QED
    BY <2>1, <2>2, <2>3, <2>4, <2>5, <2>6 DEF Next
<1> QED
  BY <1>1, <1>3, <1>4 DEF Shape

\* Client, server and connections keep their types, and each file its invariant: nothing but
\* zeros past its end.
THEOREM UploadTypeCorrect == Spec => []TypeOK
<1>1. Spec => []Shape
  BY InitShape, ShapeStep, PTL DEF Spec
<1>2. Shape => TypeOK
  BY DEF Shape
<1> QED
  BY <1>1, <1>2, PTL

---------------------------------------------------------------------------
(* Framing: requests and replies on a worker's connection.                 *)

\* At most one request of the worker is under way, in the stream, with the handler or as a reply,
\* it is about the worker's block, and there is one only while the worker waits.
Framed(w, c) ==
  /\ \A i \in 1 .. Len(c2s[c]) :
       /\ c2s[c][i].kind # "done"
       /\ c2s[c][i].kind = "ask" =>
            /\ worker[w].pc = "reply" /\ c2s[c][i].blk = worker[w].blk
            /\ i = Len(c2s[c]) /\ handler[c].pc # "wait" /\ s2c[c] = <<>>
  /\ handler[c].pc = "wait" =>
       /\ worker[w].pc = "reply" /\ handler[c].msg.blk = worker[w].blk /\ s2c[c] = <<>>
  /\ s2c[c] # <<>> =>
       /\ worker[w].pc = "reply" /\ Len(s2c[c]) = 1 /\ s2c[c][1].blk = worker[w].blk

Links ==
  /\ \A a, b \in Agent : link[a] = link[b] /\ link[a] # NoConn => a = b
  /\ \A a \in Agent : link[a] # NoConn => stage[link[a]] # "unused"
  /\ \A c \in Conn : stage[c] = "unused" => /\ c2s[c] = <<>> /\ s2c[c] = <<>>
                                            /\ handler[c].pc = "read"

Framing == Links /\ \A w \in Workers : link[w] # NoConn => Framed(w, link[w])

\* The facts about types the proofs below use.
LEMMA Typed ==
  ASSUME TypeOK
  PROVE  /\ c2s \in [Conn -> Seq(Message)] /\ s2c \in [Conn -> Seq([blk : Block, hash : Hash])]
         /\ handler \in [Conn -> [pc : HandlerPc, msg : Message, last : {0, LastSrc}]]
         /\ worker \in [Workers -> [pc : {"idle", "ask", "reply", "ended"}, blk : Block,
                                   try : 0 .. MaxRetries - 1]]
         /\ link \in [Agent -> Conn \cup {NoConn}] /\ stage \in [Conn -> Stage]
         /\ Workers \subseteq Agent /\ Main \in Agent /\ Main \notin Workers
         /\ NoConn \notin Conn
<1>1. NoConn \notin Conn
  BY MaxConnAssumption DEF NoConn, Conn
<1>2. Workers \subseteq Agent /\ Main \in Agent /\ Main \notin Workers
  BY UploadAssumption DEF Agent
<1> QED
  BY <1>1, <1>2 DEF TypeOK, LoopTypeOK

LEMMA InitFraming == Init => Framing
<1> SUFFICES ASSUME Init PROVE Framing
  OBVIOUS
<1>1. /\ \A a \in Agent : link[a] = NoConn
      /\ \A c \in Conn : c2s[c] = <<>> /\ s2c[c] = <<>> /\ handler[c].pc = "read"
  BY DEF Init
<1>2. Workers \subseteq Agent
  BY DEF Agent
<1> QED
  BY <1>1, <1>2 DEF Framing, Links

\* No connection becomes unused again.
LEMMA UsedStays ==
  ASSUME TypeOK, [LoopNext]_loopVars, NEW c \in Conn, stage'[c] = "unused"
  PROVE  stage[c] = "unused"
<1>0. stage \in [Conn -> Stage]
  BY Typed
<1>1. CASE UNCHANGED loopVars
  BY <1>1 DEF loopVars
<1>2. CASE Accept \/ AcceptError \/ \E t \in Timer : Fire(t)
  BY <1>0, <1>2 DEF Accept, AcceptError, Fire, Goto
<1>3. ASSUME NEW d \in Conn,
             Connect(d) \/ Receive(d) \/ Return(d) \/ StoreDone(d) \/ ArmShutdown(d)
               \/ TruncateError(d)
      PROVE  stage[c] = "unused"
  BY <1>0, <1>3 DEF Connect, Receive, Return, StoreDone, ArmShutdown, TruncateError, Goto
<1>4. ASSUME NEW d \in Conn, CheckDone(d) \/ CheckIdle(d) \/ Leave(d)
      PROVE  stage[c] = "unused"
  BY <1>0, <1>4 DEF CheckDone, CheckIdle, Leave, Goto
<1> QED
  BY <1>1, <1>2, <1>3, <1>4 DEF LoopNext

\* Steps that touch neither queues, handlers, links nor workers.
LEMMA FramingUntouched ==
  ASSUME TypeOK, Framing, [LoopNext]_loopVars, UNCHANGED <<c2s, s2c, handler, link, worker>>
  PROVE  Framing'
<1>1. Links'
  <2>1. \A a \in Agent : link[a] # NoConn => stage'[link[a]] # "unused"
    BY Typed, UsedStays DEF Framing, Links
  <2> QED
    BY <2>1, UsedStays DEF Framing, Links
<1>2. \A w \in Workers : link[w] # NoConn => Framed(w, link[w])'
  BY DEF Framing, Framed
<1> QED
  BY <1>1, <1>2 DEF Framing

\* Steps that take a worker's link away, or leave the links alone, and change one worker only.
LEMMA FramingDrop ==
  ASSUME TypeOK, Framing, [LoopNext]_loopVars, UNCHANGED <<c2s, s2c, handler>>,
         NEW a \in Agent, link' = [link EXCEPT ![a] = NoConn],
         \A w \in Workers : w # a => worker'[w] = worker[w]
  PROVE  Framing'
<1>1. Links'
  <2>1. \A d \in Agent : link'[d] # NoConn => stage'[link'[d]] # "unused"
    BY Typed, UsedStays DEF Framing, Links
  <2> QED
    BY <2>1, Typed, UsedStays DEF Framing, Links
<1>2. ASSUME NEW w \in Workers, link'[w] # NoConn
      PROVE  Framed(w, link[w])' /\ link'[w] = link[w]
  <2>1. w \in Agent /\ w # a /\ link'[w] = link[w] /\ worker'[w] = worker[w]
    BY <1>2, Typed
  <2>2. Framed(w, link[w])
    BY <1>2, <2>1 DEF Framing
  <2> QED
    BY <2>1, <2>2 DEF Framed
<1> QED
  BY <1>1, <1>2 DEF Framing

\* Nothing of a worker that does not wait is under way.
LEMMA Quiet ==
  ASSUME Framing, TypeOK, NEW w \in Workers, link[w] # NoConn, worker[w].pc # "reply"
  PROVE  /\ \A i \in 1 .. Len(c2s[link[w]]) : c2s[link[w]][i].kind \notin {"ask", "done"}
         /\ handler[link[w]].pc # "wait"
         /\ s2c[link[w]] = <<>>
BY DEF Framing, Framed

\* What one more element does to a queue.
LEMMA AppendFacts ==
  ASSUME NEW S, NEW q \in Seq(S), NEW e \in S
  PROVE  /\ Len(q) \in Nat /\ Len(Append(q, e)) = Len(q) + 1
         /\ Append(q, e)[Len(q) + 1] = e
         /\ \A i \in 1 .. Len(q) : Append(q, e)[i] = q[i]
OBVIOUS

LEMMA TailFacts ==
  ASSUME NEW S, NEW q \in Seq(S), q # <<>>
  PROVE  /\ Len(q) \in Nat /\ Len(q) >= 1 /\ Head(q) = q[1] /\ Len(Tail(q)) = Len(q) - 1
         /\ \A i \in 1 .. Len(Tail(q)) : Tail(q)[i] = q[i + 1]
OBVIOUS

\* A message of an agent on its connection, old or new: a worker's request, or DONE.
LEMMA FramingTransmit ==
  ASSUME TypeOK, Framing, [LoopNext]_loopVars, UNCHANGED <<s2c, handler>>,
         NEW a \in Agent, NEW m \in Message, Transmit(a, m),
         \A w \in Workers : w # a => worker'[w] = worker[w],
         a \in Workers => /\ m.kind = "ask" /\ worker[a].pc = "ask"
                          /\ worker'[a].pc = "reply" /\ worker'[a].blk = m.blk
  PROVE  Framing'
<1>0. /\ c2s \in [Conn -> Seq(Message)] /\ link \in [Agent -> Conn \cup {NoConn}]
      /\ stage \in [Conn -> Stage] /\ Workers \subseteq Agent /\ NoConn \notin Conn
  BY Typed
<1>1. ASSUME NEW c \in Conn, Connect(c), link[a] = NoConn, link' = [link EXCEPT ![a] = c],
             c2s' = [c2s EXCEPT ![c] = <<m>>]
      PROVE  Framing'
  <2>1. stage[c] = "unused" /\ c2s[c] = <<>> /\ s2c[c] = <<>> /\ handler[c].pc = "read"
    BY <1>1 DEF Connect, Framing, Links
  <2>2. \A d \in Agent : link[d] # c
    <3>1. c # NoConn
      BY <1>0
    <3>2. \A d \in Agent : link[d] # NoConn => stage[link[d]] # "unused"
      BY DEF Framing, Links
    <3> QED
      BY <2>1, <3>1, <3>2
  <2>3. stage' = [stage EXCEPT ![c] = "queued"]
    BY <1>1 DEF Connect, Goto
  <2>4. Links'
    <3>1. \A d \in Conn : d # c => stage'[d] = stage[d] /\ c2s'[d] = c2s[d]
      BY <1>0, <1>1, <2>3
    <3>2. stage'[c] = "queued" /\ link'[a] = c /\ \A d \in Agent : d # a => link'[d] = link[d]
      BY <1>0, <1>1, <2>3
    <3>3. \A d, e \in Agent : link'[d] = link'[e] /\ link'[d] # NoConn => d = e
      BY <2>2, <3>2 DEF Framing, Links
    <3>4. \A d \in Agent : link'[d] # NoConn => stage'[link'[d]] # "unused"
      BY <1>0, <2>2, <3>1, <3>2 DEF Framing, Links
    <3> QED
      BY <3>1, <3>2, <3>3, <3>4 DEF Framing, Links
  <2>5. ASSUME NEW w \in Workers, link'[w] # NoConn
        PROVE  Framed(w, link[w])'
    <3>1. CASE w = a
      <4>1. c2s'[link'[w]] = <<m>> /\ s2c'[link'[w]] = <<>> /\ handler'[link'[w]].pc = "read"
        BY <1>0, <1>1, <2>1, <3>1
      <4> QED
        BY <3>1, <4>1 DEF Framed
    <3>2. CASE w # a
      <4>1. /\ w \in Agent /\ link'[w] = link[w] /\ link[w] # c /\ worker'[w] = worker[w]
            /\ link[w] \in Conn
        BY <1>0, <1>1, <2>2, <2>5, <3>2
      <4>2. c2s'[link[w]] = c2s[link[w]]
        BY <1>0, <1>1, <4>1
      <4>3. Framed(w, link[w])
        BY <2>5, <4>1 DEF Framing
      <4> QED
        BY <4>1, <4>2, <4>3 DEF Framed
    <3> QED
      BY <3>1, <3>2
  <2> QED
    BY <2>4, <2>5 DEF Framing
<1>2. ASSUME link[a] # NoConn, UNCHANGED <<loopVars, link>>, c2s' = Send(c2s, link[a], m)
      PROVE  Framing'
  <2> DEFINE c == link[a]
  <2>1. /\ c \in Conn /\ stage[c] # "unused"
        /\ \A d \in Agent : d # a /\ link[d] # NoConn => link[d] # c
    BY <1>0, <1>2 DEF Framing, Links
  <2>2. \A d \in Conn : d # c => c2s'[d] = c2s[d]
    BY <1>0, <1>2, <2>1 DEF Send
  <2>3. Links'
    BY <1>2, <2>1, <2>2 DEF Framing, Links, loopVars
  <2>4. ASSUME NEW w \in Workers, link'[w] # NoConn
        PROVE  Framed(w, link[w])'
    <3>1. CASE w = a
      <4>1. /\ \A i \in 1 .. Len(c2s[c]) : c2s[c][i].kind \notin {"ask", "done"}
            /\ handler[c].pc # "wait" /\ s2c[c] = <<>>
        BY <1>2, <3>1, Quiet
      <4>2. CASE c2s'[c] = c2s[c]
        BY <1>2, <3>1, <4>1, <4>2 DEF Framed
      <4>3. CASE c2s'[c] = Append(c2s[c], m)
        <5>1. /\ Len(c2s'[c]) = Len(c2s[c]) + 1 /\ Len(c2s[c]) \in Nat
              /\ c2s'[c][Len(c2s[c]) + 1] = m
              /\ \A i \in 1 .. Len(c2s[c]) : c2s'[c][i] = c2s[c][i]
          BY <1>0, <2>1, <4>3, AppendFacts
        <5>2. \A i \in 1 .. Len(c2s'[c]) : i \in 1 .. Len(c2s[c]) \/ i = Len(c2s[c]) + 1
          BY <5>1
        <5>3. /\ link'[w] = c /\ handler'[c].pc # "wait" /\ s2c'[c] = <<>>
              /\ m.kind = "ask" /\ worker'[w].pc = "reply" /\ worker'[w].blk = m.blk
          BY <1>2, <3>1, <4>1
        <5>4. ASSUME NEW i \in 1 .. Len(c2s'[c])
              PROVE  /\ c2s'[c][i].kind # "done"
                     /\ c2s'[c][i].kind = "ask" => i = Len(c2s'[c]) /\ c2s'[c][i].blk = m.blk
          <6>1. CASE i \in 1 .. Len(c2s[c])
            BY <4>1, <5>1, <6>1
          <6>2. CASE i = Len(c2s[c]) + 1
            BY <5>1, <5>3, <6>2
          <6> QED
            BY <5>2, <6>1, <6>2
        <5> HIDE DEF c
        <5> QED
          BY <5>3, <5>4 DEF Framed
      <4> QED
        BY <1>0, <1>2, <2>1, <4>2, <4>3 DEF Send
    <3>2. CASE w # a
      <4>1. w \in Agent /\ link'[w] = link[w] /\ link[w] # c /\ worker'[w] = worker[w]
            /\ link[w] \in Conn
        BY <1>0, <1>2, <2>1, <2>4, <3>2
      <4>2. c2s'[link[w]] = c2s[link[w]]
        BY <2>2, <4>1
      <4>3. Framed(w, link[w])
        BY <2>4, <4>1 DEF Framing
      <4> QED
        BY <4>1, <4>2, <4>3 DEF Framed
    <3> QED
      BY <3>1, <3>2
  <2> QED
    BY <2>3, <2>4 DEF Framing
<1> QED
  BY <1>1, <1>2 DEF Transmit

\* Steps that change one connection's queues and handler, and no client.
LEMMA FramingAt ==
  ASSUME TypeOK, Framing, [LoopNext]_loopVars, UNCHANGED <<link, worker>>,
         NEW c \in Conn, stage[c] # "unused",
         \A d \in Conn : d # c => /\ c2s'[d] = c2s[d] /\ s2c'[d] = s2c[d]
                                  /\ handler'[d] = handler[d],
         \A w \in Workers : link[w] = c => Framed(w, c)'
  PROVE  Framing'
<1>0. link \in [Agent -> Conn \cup {NoConn}] /\ Workers \subseteq Agent
  BY Typed
<1>1. Links'
  <2>1. \A d \in Conn : stage'[d] = "unused" => stage[d] = "unused" /\ d # c
    BY UsedStays
  <2>2. \A a \in Agent : link[a] # NoConn => stage'[link[a]] # "unused"
    BY <1>0, <2>1 DEF Framing, Links
  <2> QED
    BY <2>1, <2>2 DEF Framing, Links
<1>2. ASSUME NEW w \in Workers, link[w] # NoConn
      PROVE  Framed(w, link[w])'
  <2>1. link[w] \in Conn /\ Framed(w, link[w])
    BY <1>0, <1>2 DEF Framing
  <2>2. CASE link[w] = c
    BY <2>2 DEF Framed
  <2>3. CASE link[w] # c
    BY <2>1, <2>3 DEF Framed
  <2> QED
    BY <2>2, <2>3
<1> QED
  BY <1>1, <1>2 DEF Framing

\* The worker reads its reply, and sends the block or nothing, and closes or not.
LEMMA FramingCompare ==
  ASSUME TypeOK, Framing, UNCHANGED <<loopVars, handler>>,
         NEW w \in Workers, link[w] # NoConn, s2c[link[w]] # <<>>,
         s2c' = [s2c EXCEPT ![link[w]] = Tail(@)],
         NEW m \in Message, m.kind \notin {"ask", "done"},
         c2s' = c2s \/ c2s' = Send(c2s, link[w], m),
         link' = link \/ link' = [link EXCEPT ![w] = NoConn],
         \A v \in Workers : v # w => worker'[v] = worker[v]
  PROVE  Framing'
<1> DEFINE c == link[w]
<1>0. /\ c2s \in [Conn -> Seq(Message)] /\ s2c \in [Conn -> Seq([blk : Block, hash : Hash])]
      /\ link \in [Agent -> Conn \cup {NoConn}]
      /\ Workers \subseteq Agent /\ w \in Agent /\ NoConn \notin Conn /\ c \in Conn
  BY Typed
<1>1. /\ stage[c] # "unused" /\ \A a \in Agent : a # w /\ link[a] # NoConn => link[a] # c
      /\ \A a, b \in Agent : link[a] = link[b] /\ link[a] # NoConn => a = b
      /\ \A a \in Agent : link[a] # NoConn => stage[link[a]] # "unused"
  BY <1>0 DEF Framing, Links
<1>2. \A d \in Conn : d # c => c2s'[d] = c2s[d] /\ s2c'[d] = s2c[d]
  BY <1>0 DEF Send
<1>3. \A a \in Agent : link'[a] = link[a] \/ link'[a] = NoConn
  BY <1>0
<1>4. Links'
  <2>1. \A a, b \in Agent : link'[a] = link'[b] /\ link'[a] # NoConn => a = b
    BY <1>1, <1>3
  <2>2. \A a \in Agent : link'[a] # NoConn => stage'[link'[a]] # "unused"
    BY <1>1, <1>3 DEF loopVars
  <2>3. \A d \in Conn : stage'[d] = "unused" => /\ c2s'[d] = <<>> /\ s2c'[d] = <<>>
                                                /\ handler'[d].pc = "read"
    BY <1>1, <1>2 DEF Framing, Links, loopVars
  <2> QED
    BY <2>1, <2>2, <2>3 DEF Links
<1>5. /\ s2c'[c] = <<>> /\ handler'[c].pc # "wait"
      /\ \A i \in 1 .. Len(c2s'[c]) : c2s'[c][i].kind \notin {"ask", "done"}
  <2>1. Framed(w, c)
    BY <1>0 DEF Framing
  <2>2. Len(s2c[c]) = 1 /\ s2c[c] \in Seq([blk : Block, hash : Hash])
    BY <1>0, <2>1 DEF Framed
  <2>3. s2c'[c] = <<>>
    BY <1>0, <2>2
  <2>4. /\ \A i \in 1 .. Len(c2s[c]) : c2s[c][i].kind \notin {"ask", "done"}
        /\ handler'[c].pc # "wait"
    BY <2>1 DEF Framed
  <2>5. CASE c2s'[c] = Append(c2s[c], m)
    <3>1. /\ Len(c2s'[c]) = Len(c2s[c]) + 1 /\ Len(c2s[c]) \in Nat
          /\ c2s'[c][Len(c2s[c]) + 1] = m
          /\ \A i \in 1 .. Len(c2s[c]) : c2s'[c][i] = c2s[c][i]
      BY <1>0, <2>5, AppendFacts
    <3>2. \A i \in 1 .. Len(c2s'[c]) : i \in 1 .. Len(c2s[c]) \/ i = Len(c2s[c]) + 1
      BY <3>1
    <3>3. \A i \in 1 .. Len(c2s'[c]) : c2s'[c][i].kind \notin {"ask", "done"}
      BY <2>4, <3>1, <3>2
    <3> QED
      BY <2>3, <2>4, <3>3
  <2>6. c2s'[c] = c2s[c] \/ c2s'[c] = Append(c2s[c], m)
    BY <1>0 DEF Send
  <2> QED
    BY <2>3, <2>4, <2>5, <2>6
<1>6. ASSUME NEW v \in Workers, link'[v] # NoConn
      PROVE  Framed(v, link[v])'
  <2>1. link'[v] = link[v] /\ link[v] \in Conn
    BY <1>0, <1>3, <1>6
  <2>2. CASE v = w
    <3>1. link'[v] = c
      BY <2>1, <2>2
    <3> HIDE DEF c
    <3> QED
      BY <1>5, <3>1 DEF Framed
  <2>3. CASE v # w
    <3>1. link[v] # c /\ worker'[v] = worker[v] /\ Framed(v, link[v])
      BY <1>0, <1>1, <2>1, <2>3 DEF Framing
    <3> QED
      BY <1>2, <2>1, <3>1 DEF Framed
  <2> QED
    BY <2>2, <2>3
<1> QED
  BY <1>4, <1>6 DEF Framing

LEMMA RetryFacts ==
  ASSUME TypeOK, NEW w \in Workers, NEW closed \in BOOLEAN, Retry(w, closed)
  PROVE  /\ link' = link \/ link' = [link EXCEPT ![w] = NoConn]
         /\ closed => link' = [link EXCEPT ![w] = NoConn]
         /\ \A v \in Workers : v # w => worker'[v] = worker[v]
BY Typed DEF Retry

\* A worker's steps.
LEMMA FramingWorker ==
  ASSUME TypeOK, Framing, [LoopNext]_loopVars,
         NEW w \in Workers, WorkerStep(w) \/ AskFails(w) \/ ReplyFails(w)
  PROVE  Framing'
<1>0. w \in Agent /\ worker[w].blk \in Block /\ link[w] \in Conn \cup {NoConn}
      /\ NoConn \notin Conn /\ worker \in [Workers ->
            [pc : {"idle", "ask", "reply", "ended"}, blk : Block, try : 0 .. MaxRetries - 1]]
  BY Typed
<1>1. CASE Take(w)
  <2>1. /\ UNCHANGED <<loopVars, handler, link, c2s, s2c>> /\ worker[w].pc = "idle"
        /\ \A v \in Workers : v # w => worker'[v] = worker[v]
    BY <1>0, <1>1 DEF Take, netVars
  <2>2. Links'
    BY <2>1 DEF Framing, Links, loopVars
  <2>3. ASSUME NEW v \in Workers, link[v] # NoConn
        PROVE  Framed(v, link[v])'
    <3>1. Framed(v, link[v])
      BY <2>3 DEF Framing
    <3>2. CASE v = w
      BY <2>1, <3>1, <3>2 DEF Framed
    <3>3. CASE v # w
      BY <2>1, <3>1, <3>3 DEF Framed
    <3> QED
      BY <3>2, <3>3
  <2> QED
    BY <2>1, <2>2, <2>3 DEF Framing
<1>2. CASE Ask(w)
  <2>1. Msg("ask", worker[w].blk) \in Message
    BY <1>0, MsgType DEF MsgKind
  <2>2. Msg("ask", worker[w].blk).kind = "ask" /\ Msg("ask", worker[w].blk).blk = worker[w].blk
    BY DEF Msg
  <2>3. /\ worker[w].pc = "ask" /\ worker'[w].pc = "reply" /\ worker'[w].blk = worker[w].blk
        /\ \A v \in Workers : v # w => worker'[v] = worker[v]
        /\ UNCHANGED <<s2c, handler>>
    BY <1>0, <1>2 DEF Ask
  <2>4. Transmit(w, Msg("ask", worker[w].blk))
    BY <1>2 DEF Ask
  <2> QED
    BY <1>0, <2>1, <2>2, <2>3, <2>4, FramingTransmit
<1>3. CASE Compare(w)
  <2>0. /\ link[w] # NoConn /\ s2c[link[w]] # <<>> /\ UNCHANGED <<loopVars, handler>>
        /\ s2c' = [s2c EXCEPT ![link[w]] = Tail(@)]
    BY <1>3 DEF Compare
  <2>1. Msg("zero", worker[w].blk) \in Message /\ Msg("data", worker[w].blk) \in Message
    BY <1>0, MsgType DEF MsgKind
  <2>2. Msg("zero", worker[w].blk).kind = "zero" /\ Msg("data", worker[w].blk).kind = "data"
    BY DEF Msg
  <2>3. CASE \E what \in {"insync", "sent"} : Settle(w, what) /\ UNCHANGED link
    <3>1. \A v \in Workers : v # w => worker'[v] = worker[v]
      BY <2>3 DEF Settle
    <3>2. CASE UNCHANGED c2s
      BY <2>0, <2>1, <2>2, <2>3, <3>1, <3>2, FramingCompare
    <3>3. CASE \E k \in {"zero", "data"} : c2s' = Send(c2s, link[w], Msg(k, worker[w].blk))
      BY <2>0, <2>1, <2>2, <2>3, <3>1, <3>3, FramingCompare
    <3> QED
      BY <1>3, <2>3, <3>2, <3>3 DEF Compare
  <2>4. CASE UNCHANGED c2s /\ \E closed \in BOOLEAN : Retry(w, closed)
    BY <2>0, <2>1, <2>2, <2>4, RetryFacts, FramingCompare
  <2> QED
    BY <1>3, <2>3, <2>4 DEF Compare
<1>4. CASE AskFails(w) \/ ReplyFails(w)
  <2>1. Retry(w, TRUE) /\ UNCHANGED <<c2s, s2c, handler>>
    BY <1>4 DEF AskFails, ReplyFails
  <2> QED
    BY <1>0, <2>1, RetryFacts, FramingDrop
<1>5. CASE EndWorker(w)
  <2>1. /\ UNCHANGED <<c2s, s2c, handler>> /\ link' = [link EXCEPT ![w] = NoConn]
        /\ \A v \in Workers : v # w => worker'[v] = worker[v]
    BY <1>0, <1>5 DEF EndWorker
  <2> QED
    BY <1>0, <2>1, FramingDrop
<1> QED
  BY <1>1, <1>2, <1>3, <1>4, <1>5 DEF WorkerStep

\* A handler's steps and the faults of its connection.
LEMMA FramingHandler ==
  ASSUME TypeOK, Carried, Framing, [LoopNext]_loopVars,
         NEW c \in Conn, HandlerStep(c) \/ Break(c) \/ Abort(c)
  PROVE  Framing'
<1>0. /\ c2s \in [Conn -> Seq(Message)] /\ s2c \in [Conn -> Seq([blk : Block, hash : Hash])]
      /\ handler \in [Conn -> [pc : HandlerPc, msg : Message, last : {0, LastSrc}]]
      /\ NoConn \notin Conn /\ UNCHANGED <<link, worker>>
  <2>1. UNCHANGED <<link, worker>>
    BY DEF HandlerStep, Read, Reply, Zero, Write, Set, End, Break, Abort, netVars, clientVars
  <2> QED
    BY <2>1, Typed
<1>1. stage[c] # "unused"
  BY DEF HandlerStep, Read, Reply, Zero, Write, Set, End, Break, Abort, Running, Return
<1>2. \A w \in Workers : link[w] = c => Framed(w, c)
  BY <1>0 DEF Framing
<1>3. CASE Read(c)
  <2>1. /\ c2s[c] # <<>> /\ c2s' = [c2s EXCEPT ![c] = Tail(@)] /\ UNCHANGED s2c
        /\ handler[c].pc = "read"
        /\ handler'[c].msg = Head(c2s[c])
        /\ handler'[c].pc = CASE Head(c2s[c]).kind = "zero" -> "waitZero"
                                [] Head(c2s[c]).kind = "data" -> "write"
                                [] Head(c2s[c]).kind = "header" -> "end"
                                [] OTHER -> "wait"
        /\ \A d \in Conn : d # c => handler'[d] = handler[d]
    BY <1>0, <1>3 DEF Read, Running
  <2>2. Len(c2s[c]) \in Nat /\ Len(c2s[c]) >= 1 /\ Head(c2s[c]) = c2s[c][1]
        /\ c2s'[c] = Tail(c2s[c]) /\ Len(c2s'[c]) = Len(c2s[c]) - 1
        /\ \A i \in 1 .. Len(c2s'[c]) : c2s'[c][i] = c2s[c][i + 1]
    <3>1. c2s[c] \in Seq(Message) /\ c2s'[c] = Tail(c2s[c]) /\ c2s[c] # <<>>
      BY <1>0, <2>1
    <3>2. /\ Len(c2s[c]) \in Nat /\ Len(c2s[c]) >= 1 /\ Head(c2s[c]) = c2s[c][1]
          /\ Len(Tail(c2s[c])) = Len(c2s[c]) - 1
          /\ \A i \in 1 .. Len(Tail(c2s[c])) : Tail(c2s[c])[i] = c2s[c][i + 1]
      BY ONLY <3>1, TailFacts
    <3> QED
      BY <3>1, <3>2
  <2>3. c2s[c][1].kind \in MsgKind /\ c2s[c][1].kind # "none"
    <3>1. c2s[c] \in Seq(Wire)
      BY DEF Carried
    <3>2. c2s[c][1] \in Wire
      BY <2>2, <3>1, ElementOfSeq
    <3> QED
      BY <3>2 DEF Wire, Honest, Message
  <2>4. ASSUME NEW w \in Workers, link[w] = c
        PROVE  Framed(w, c)'
    <3>1. Framed(w, c) /\ worker'[w] = worker[w]
      BY <1>0, <1>2, <2>4
    <3>2. c2s[c][1].kind # "done"
      BY <2>2, <3>1 DEF Framed
    <3>3. handler'[c].pc = "wait" =>
            /\ worker[w].pc = "reply" /\ handler'[c].msg.blk = worker[w].blk
            /\ s2c[c] = <<>> /\ Len(c2s[c]) = 1
      <4>1. handler'[c].pc = "wait" => c2s[c][1].kind = "ask"
        BY <2>1, <2>2, <2>3, <3>2 DEF MsgKind
      <4>2. 1 \in 1 .. Len(c2s[c])
        BY <2>2
      <4>3. c2s[c][1].kind = "ask" =>
              /\ worker[w].pc = "reply" /\ c2s[c][1].blk = worker[w].blk
              /\ 1 = Len(c2s[c]) /\ s2c[c] = <<>>
        BY <3>1, <4>2 DEF Framed
      <4> QED
        BY <2>1, <2>2, <4>1, <4>3
    <3>4. ASSUME NEW i \in 1 .. Len(c2s'[c])
          PROVE  /\ c2s'[c][i].kind # "done"
                 /\ c2s'[c][i].kind = "ask" =>
                      /\ worker'[w].pc = "reply" /\ c2s'[c][i].blk = worker'[w].blk
                      /\ i = Len(c2s'[c]) /\ handler'[c].pc # "wait" /\ s2c'[c] = <<>>
      <4>1. i + 1 \in 1 .. Len(c2s[c]) /\ c2s'[c][i] = c2s[c][i + 1]
        BY <2>2
      <4>2. handler'[c].pc # "wait"
        BY <2>2, <3>3, <4>1
      <4> QED
        BY <2>1, <2>2, <3>1, <4>1, <4>2 DEF Framed
    <3> QED
      BY <2>1, <3>1, <3>3, <3>4 DEF Framed
  <2>5. \A d \in Conn : d # c => c2s'[d] = c2s[d] /\ s2c'[d] = s2c[d]
    BY <1>0, <2>1
  <2> QED
    BY <1>0, <1>1, <2>1, <2>4, <2>5, FramingAt
<1>4. CASE Reply(c) /\ ~UNCHANGED s2c
  <2> DEFINE r == [blk |-> handler[c].msg.blk, hash |-> Answer(handler[c].msg.blk)]
  <2>1. /\ s2c' = [s2c EXCEPT ![c] = Append(@, r)] /\ UNCHANGED c2s /\ handler[c].pc = "wait"
        /\ NextMessage(c)
    BY <1>4 DEF Reply, Running
  <2>2. handler'[c].pc = "read" /\ \A d \in Conn : d # c => handler'[d] = handler[d]
    BY <1>0, <2>1 DEF NextMessage
  <2>3. ASSUME NEW w \in Workers, link[w] = c
        PROVE  Framed(w, c)'
    <3>1. Framed(w, c) /\ worker'[w] = worker[w]
      BY <1>0, <1>2, <2>3
    <3>2. /\ s2c[c] = <<>> /\ worker[w].pc = "reply" /\ handler[c].msg.blk = worker[w].blk
      BY <2>1, <3>1 DEF Framed
    <3>3. \A i \in 1 .. Len(c2s[c]) : c2s[c][i].kind \notin {"ask", "done"}
      BY <2>1, <3>1 DEF Framed
    <3>4. s2c'[c] = <<r>>
      BY <1>0, <2>1, <3>2
    <3>5. Len(s2c'[c]) = 1 /\ s2c'[c][1].blk = worker[w].blk
      BY <3>2, <3>4
    <3> QED
      BY <2>1, <2>2, <3>1, <3>2, <3>3, <3>5 DEF Framed
  <2>4. \A d \in Conn : d # c => c2s'[d] = c2s[d] /\ s2c'[d] = s2c[d]
    BY <1>0, <2>1
  <2> QED
    BY <1>0, <1>1, <2>2, <2>3, <2>4, FramingAt
<1>5. ASSUME UNCHANGED <<c2s, s2c>>, handler'[c].pc # "wait",
             \A d \in Conn : d # c => handler'[d] = handler[d]
      PROVE  Framing'
  <2>1. ASSUME NEW w \in Workers, link[w] = c
        PROVE  Framed(w, c)'
    BY <1>0, <1>2, <1>5, <2>1 DEF Framed
  <2> QED
    BY <1>0, <1>1, <1>5, <2>1, FramingAt
<1>6. CASE (Reply(c) /\ UNCHANGED s2c) \/ Zero(c) \/ Set(c)
  <2>1. UNCHANGED <<c2s, s2c>>
    BY <1>6 DEF Reply, Zero, Set, netVars
  <2>2. NextMessage(c) \/ \E pc \in {"end", "writeZero"} : handler' = [handler EXCEPT ![c].pc = pc]
    BY <1>6 DEF Reply, Zero, Set
  <2>3. handler'[c].pc # "wait" /\ \A d \in Conn : d # c => handler'[d] = handler[d]
    BY <1>0, <2>2 DEF NextMessage
  <2> QED
    BY <1>5, <2>1, <2>3
<1>7. CASE Write(c) \/ Abort(c)
  <2>1. /\ UNCHANGED <<c2s, s2c>>
        /\ \E pc \in {"end", "set"} : handler' = [handler EXCEPT ![c].pc = pc]
    BY <1>7 DEF Write, Abort, netVars
  <2>2. handler'[c].pc # "wait" /\ \A d \in Conn : d # c => handler'[d] = handler[d]
    BY <1>0, <2>1
  <2> QED
    BY <1>5, <2>1, <2>2
<1>8. CASE End(c)
  <2>1. /\ c2s' = [c2s EXCEPT ![c] = <<>>] /\ UNCHANGED s2c
        /\ handler' = [handler EXCEPT ![c] = [pc |-> "end", msg |-> NoMsg, last |-> 0]]
    BY <1>8 DEF End
  <2>2. /\ c2s'[c] = <<>> /\ handler'[c].pc = "end"
        /\ \A d \in Conn : d # c => c2s'[d] = c2s[d] /\ s2c'[d] = s2c[d] /\ handler'[d] = handler[d]
    BY <1>0, <2>1
  <2>3. ASSUME NEW w \in Workers, link[w] = c
        PROVE  Framed(w, c)'
    BY <1>0, <1>2, <2>1, <2>2, <2>3 DEF Framed
  <2> QED
    BY <1>0, <1>1, <2>2, <2>3, FramingAt
<1>9. CASE Break(c)
  <2>1. PICK k \in 0 .. Len(c2s[c]), n \in 0 .. Len(s2c[c]), whole \in BOOLEAN :
          /\ c2s' = [c2s EXCEPT ![c] =
                       [i \in 1 .. k |-> IF ~whole /\ i = k /\ @[i].kind = "data"
                                         THEN Msg("header", @[i].blk) ELSE @[i]]]
          /\ s2c' = [s2c EXCEPT ![c] = SubSeq(@, 1, n)]
    BY <1>9 DEF Break
  <2>2. \A d \in Conn : d # c => c2s'[d] = c2s[d] /\ s2c'[d] = s2c[d] /\ handler'[d] = handler[d]
    BY <1>0, <1>9, <2>1 DEF Break
  <2>3. UNCHANGED handler
    BY <1>9 DEF Break
  <2>4. /\ k \in Nat /\ k <= Len(c2s[c]) /\ Len(c2s[c]) \in Nat /\ Len(s2c[c]) \in Nat
        /\ Len(c2s'[c]) = k
        /\ \A i \in 1 .. k : c2s'[c][i] = c2s[c][i] \/ c2s'[c][i] = Msg("header", c2s[c][i].blk)
    <3>1. c2s[c] \in Seq(Message) /\ s2c[c] \in Seq([blk : Block, hash : Hash])
      BY <1>0
    <3>2. k \in Nat /\ k <= Len(c2s[c]) /\ Len(c2s[c]) \in Nat /\ Len(s2c[c]) \in Nat
      BY <3>1
    <3>3. c2s'[c] = [i \in 1 .. k |-> IF ~whole /\ i = k /\ c2s[c][i].kind = "data"
                                      THEN Msg("header", c2s[c][i].blk) ELSE c2s[c][i]]
      BY <1>0, <2>1
    <3>4. \A i \in 1 .. k : c2s'[c][i] = c2s[c][i] \/ c2s'[c][i] = Msg("header", c2s[c][i].blk)
      BY <3>3
    <3>5. c2s' \in [Conn -> Seq(Message)]
      <4>1. \A m \in Message : Msg("header", m.blk) \in Message
        BY MsgType DEF Message, MsgKind
      <4> QED
        BY <1>0, <1>9, <4>1, BreakType
    <3>6. Len(c2s'[c]) = k
      <4>1. c2s'[c] \in Seq(Message) /\ DOMAIN c2s'[c] = 1 .. k
        BY <3>3, <3>5
      <4>2. DOMAIN c2s'[c] = 1 .. Len(c2s'[c]) /\ Len(c2s'[c]) \in Nat
        BY <4>1
      <4> QED
        BY <3>2, <4>1, <4>2
    <3> QED
      BY <3>2, <3>4, <3>6
  <2>5. /\ s2c[c] = <<>> => s2c'[c] = <<>>
        /\ s2c'[c] # <<>> /\ Len(s2c[c]) = 1 => s2c'[c] = s2c[c]
    <3>1. s2c[c] \in Seq([blk : Block, hash : Hash]) /\ s2c'[c] = SubSeq(s2c[c], 1, n)
      BY <1>0, <2>1
    <3>2. n \in Nat /\ n <= Len(s2c[c])
      BY <2>4
    <3>3. SubSeq(s2c[c], 1, n) \in Seq([blk : Block, hash : Hash]) /\ Len(SubSeq(s2c[c], 1, n)) = n
          /\ \A i \in 1 .. n : SubSeq(s2c[c], 1, n)[i] = s2c[c][i]
      BY <2>1, <3>1, PrefixType
    <3>4. s2c[c] = <<>> => n = 0
      BY <3>2
    <3>5. n = 0 => s2c'[c] = <<>>
      BY <3>1, <3>3
    <3>6. n = 1 /\ Len(s2c[c]) = 1 => s2c'[c] = s2c[c]
      BY <3>1, <3>3
    <3>7. s2c'[c] # <<>> /\ Len(s2c[c]) = 1 => n = 1
      BY <3>2, <3>5
    <3> QED
      BY <3>4, <3>5, <3>6, <3>7
  <2>6. ASSUME NEW w \in Workers, link[w] = c
        PROVE  Framed(w, c)'
    <3>1. Framed(w, c) /\ worker'[w] = worker[w]
      BY <1>0, <1>2, <2>6
    <3>2. ASSUME NEW i \in 1 .. Len(c2s'[c])
          PROVE  /\ c2s'[c][i].kind # "done"
                 /\ c2s'[c][i].kind = "ask" =>
                      /\ worker'[w].pc = "reply" /\ c2s'[c][i].blk = worker'[w].blk
                      /\ i = Len(c2s'[c]) /\ handler'[c].pc # "wait" /\ s2c'[c] = <<>>
      <4>1. i \in 1 .. k /\ i \in 1 .. Len(c2s[c])
        BY <2>4
      <4>2. CASE c2s'[c][i] = c2s[c][i]
        <5>1. /\ c2s[c][i].kind # "done"
              /\ c2s[c][i].kind = "ask" =>
                   /\ worker[w].pc = "reply" /\ c2s[c][i].blk = worker[w].blk
                   /\ i = Len(c2s[c]) /\ handler[c].pc # "wait" /\ s2c[c] = <<>>
          BY <3>1, <4>1 DEF Framed
        <5>2. i = Len(c2s[c]) => i = k
          BY <2>4, <4>1
        <5> QED
          BY <2>3, <2>4, <2>5, <3>1, <4>2, <5>1, <5>2
      <4>3. CASE c2s'[c][i] = Msg("header", c2s[c][i].blk)
        BY <4>3 DEF Msg
      <4> QED
        BY <2>4, <4>1, <4>2, <4>3
    <3>3. handler'[c].pc = "wait" =>
            worker'[w].pc = "reply" /\ handler'[c].msg.blk = worker'[w].blk /\ s2c'[c] = <<>>
      BY <2>3, <2>5, <3>1 DEF Framed
    <3>4. s2c'[c] # <<>> =>
            worker'[w].pc = "reply" /\ Len(s2c'[c]) = 1 /\ s2c'[c][1].blk = worker'[w].blk
      BY <2>5, <3>1 DEF Framed
    <3> QED
      BY <3>2, <3>3, <3>4 DEF Framed
  <2> QED
    BY <1>0, <1>1, <2>2, <2>6, FramingAt
<1> QED
  BY <1>3, <1>4, <1>6, <1>7, <1>8, <1>9 DEF HandlerStep

LEMMA FramingStep == Shape /\ Framing /\ [Next]_vars => Framing'
<1> SUFFICES ASSUME Shape, Framing, [Next]_vars PROVE Framing'
  OBVIOUS
<1>0. TypeOK /\ Carried /\ [LoopNext]_loopVars
  BY LoopSim DEF Shape
<1>1. CASE UNCHANGED vars \/ LoopStep
  BY <1>0, <1>1, FramingUntouched DEF vars, LoopStep, netVars, clientVars
<1>2. CASE \E p \in Hashers : HasherStep(p) \/ HashFails(p)
  <2>1. UNCHANGED <<c2s, s2c, handler, link, worker>>
    BY <1>2 DEF HasherStep, TakeJob, HashBlock, Publish, HashFails, netVars, clientVars
  <2> QED
    BY <1>0, <2>1, FramingUntouched
<1>3. CASE \E w \in Workers : WorkerStep(w) \/ AskFails(w) \/ ReplyFails(w)
  BY <1>0, <1>3, FramingWorker
<1>4. CASE \E c \in Conn : HandlerStep(c) \/ Break(c) \/ Abort(c)
  BY <1>0, <1>4, FramingHandler
<1>5. CASE SendDone
  <2>1. Msg("done", 0) \in Message
    BY <1>0, MsgType, Sizes DEF MsgKind
  <2>2. Transmit(Main, Msg("done", 0)) /\ UNCHANGED <<s2c, handler, worker>>
    BY <1>5 DEF SendDone
  <2> QED
    BY <1>0, <2>1, <2>2, Typed, FramingTransmit
<1>6. CASE EndClient
  <2>1. UNCHANGED <<c2s, s2c, handler, worker>> /\ link' = [link EXCEPT ![Main] = NoConn]
    BY <1>6 DEF EndClient
  <2> QED
    BY <1>0, <2>1, Typed, FramingDrop
<1>7. CASE SendDoneFails \/ ServerDies \/ ReaderFails
  BY <1>0, <1>7, DeathOnly, FramingUntouched DEF SendDoneFails, ReaderFails, netVars
<1> QED
  BY <1>1, <1>2, <1>3, <1>4, <1>5, <1>6, <1>7 DEF Next, MainStep

LEMMA FramingMatches == TypeOK /\ Framing => RepliesMatch
<1> SUFFICES ASSUME TypeOK, Framing, NEW w \in Workers, link[w] # NoConn, s2c[link[w]] # <<>>
             PROVE  /\ worker[w].pc = "reply"
                    /\ Len(s2c[link[w]]) = 1 /\ Head(s2c[link[w]]).blk = worker[w].blk
  BY DEF RepliesMatch
<1>1. s2c[link[w]] \in Seq([blk : Block, hash : Hash])
  BY Typed
<1> QED
  BY <1>1, TailFacts DEF Framing, Framed

\* Whatever is queued on a worker's connection, the hash it reads answers its question: a message
\* of processPrecomputedBlock is never taken for another's.
THEOREM UploadRepliesMatch == Spec => []RepliesMatch
<1>1. Init => Shape /\ Framing
  BY InitShape, InitFraming
<1>2. Shape /\ Framing /\ [Next]_vars => (Shape /\ Framing)'
  BY ShapeStep, FramingStep
<1>3. Shape /\ Framing => RepliesMatch
  BY FramingMatches DEF Shape
<1> QED
  BY <1>1, <1>2, <1>3, PTL DEF Spec

---------------------------------------------------------------------------
(* No step undoes a block that is right.                                   *)

\* Each byte of the destination stays what it is or becomes the source's.
Towards == \A i \in Pos : i < src.size => dst'.data[i] = dst.data[i] \/ dst'.data[i] = src.data[i]

LEMMA ResizeTowards ==
  ASSUME TypeOK, dst' = Resize(dst, src.size)
  PROVE  Towards
BY DEF Towards, Resize

LEMMA WriteTowards ==
  ASSUME TypeOK, Carried, NEW c \in Conn, Write(c)
  PROVE  /\ Towards
         /\ \A i \in Span(handler[c].msg.blk) : i < src.size => dst'.data[i] = src.data[i]
<1>0. handler[c].msg \in Honest /\ handler[c].msg.blk \in Block /\ src \in File
  BY SourceFacts DEF Carried, TypeOK, Honest, Message
<1> DEFINE b == handler[c].msg.blk
<1>1. Span(b) \subseteq Pos
  BY <1>0, StartBounds
<1>2. /\ DOMAIN SrcBlock(b) = {i \in Span(b) : i < src.size}
      /\ \A i \in DOMAIN SrcBlock(b) : SrcBlock(b)[i] = src.data[i]
  BY <1>0, ReadBlockType DEF SrcBlock
<1>3. CASE Running(c, "write")
  <2>1. handler[c].msg.data = SrcBlock(b)
    BY <1>0, <1>3 DEF Carried, Fitting, Honest, Running
  <2>2. dst' = WriteBlock(dst, SrcBlock(b), SrcEnd(b))
    BY <1>3, <2>1 DEF Write, Running
  <2>3. \A i \in Pos : dst'.data[i] = IF i \in DOMAIN SrcBlock(b) THEN SrcBlock(b)[i]
                                      ELSE dst.data[i]
    BY <2>2 DEF WriteBlock
  <2> QED
    BY <1>1, <1>2, <2>3 DEF Towards
<1>4. CASE Running(c, "writeZero")
  <2>1. SrcHash(b) = ZeroHash
    BY <1>0, <1>4 DEF Carried, Fitting, Honest, Running
  <2>2. IsZero(SrcBlock(b))
    BY <2>1 DEF SrcHash, BlockHash, ZeroHash, Sum
  <2>3. \A i \in Span(b) : i < src.size => src.data[i] = 0
    BY <1>2, <2>2 DEF IsZero
  <2>4. dst' = WriteBlock(dst, Zeros(b), Start(b + 1))
    BY <1>4 DEF Write, Running
  <2>5. \A i \in Pos : dst'.data[i] = IF i \in Span(b) THEN 0 ELSE dst.data[i]
    BY <2>4 DEF WriteBlock, Zeros
  <2> QED
    BY <1>1, <2>3, <2>5 DEF Towards
<1> QED
  BY <1>3, <1>4 DEF Write

LEMMA StepTowards ==
  ASSUME TypeOK, Carried, [Next]_vars
  PROVE  Towards /\ UNCHANGED inputVars
<1>1. UNCHANGED inputVars
  BY DEF Next, LoopStep, HandlerStep, Read, Reply, Zero, Write, Set, End, HasherStep, TakeJob,
         HashBlock, Publish, WorkerStep, Take, Ask, Compare, EndWorker, MainStep, SendDone,
         EndClient, AskFails, ReplyFails, Break, Abort, HashFails, SendDoneFails, ReaderFails,
         ServerDies, vars, fileVars
<1>2. CASE UNCHANGED dst
  BY <1>1, <1>2 DEF Towards
<1>3. ASSUME NEW c \in Conn, Read(c)
      PROVE  Towards
  BY <1>2, <1>3, ResizeTowards DEF Read
<1>4. ASSUME NEW c \in Conn, Write(c)
      PROVE  Towards
  BY <1>4, WriteTowards
<1>5. ASSUME NEW c \in Conn, Abort(c)
      PROVE  Towards
  BY <1>5, AbortPart DEF Towards
<1>6. CASE \A c \in Conn : ~Read(c) /\ ~Write(c) /\ ~Abort(c)
  <2>1. UNCHANGED dst
    BY <1>6 DEF Next, LoopStep, HandlerStep, Reply, Zero, Set, End, HasherStep, TakeJob,
           HashBlock, Publish, WorkerStep, Take, Ask, Compare, EndWorker, MainStep, SendDone,
           EndClient, AskFails, ReplyFails, Break, HashFails, SendDoneFails, ReaderFails,
           ServerDies, vars, fileVars
  <2> QED
    BY <1>2, <2>1
<1> QED
  BY <1>1, <1>3, <1>4, <1>5, <1>6

\* What a block's source and being in sync come to after a step.
LEMMA SyncStays ==
  ASSUME TypeOK, Carried, [Next]_vars, NEW b \in Block
  PROVE  SrcHash(b)' = SrcHash(b) /\ (InSync(b) => InSync(b)')
<1>1. UNCHANGED src /\ Towards
  BY StepTowards DEF inputVars
<1>2. Span(b) \subseteq Pos
  BY StartBounds
<1> QED
  BY <1>1, <1>2 DEF SrcHash, SrcBlock, InSync, Towards

\* The facts about types on the server's side.
LEMMA TruthTyped ==
  ASSUME TypeOK
  PROVE  /\ cache \in [Block -> Hash]
         /\ hasher \in [Hashers -> [pc : {"idle", "read", "set"}, blk : Block, got : Hash]]
         /\ handler \in [Conn -> [pc : HandlerPc, msg : Message, last : {0, LastSrc}]]
         /\ \A c \in Conn : handler[c].msg.blk \in Block
         /\ s2c \in [Conn -> Seq([blk : Block, hash : Hash])]
BY DEF TypeOK, Message

---------------------------------------------------------------------------
(* What a step can put on a connection and into a handler's hand.          *)

\* Where a message on a connection's stream comes from: it was there, or it is the request or the
\* block of a worker, or DONE on a new connection, or a header the connection broke behind.
Comes(c, m) ==
  \/ \E j \in 1 .. Len(c2s[c]) : m = c2s[c][j]
  \/ \E w \in Workers : Ask(w) /\ m = Msg("ask", worker[w].blk)
  \/ \E w \in Workers, k \in {"zero", "data"} :
       Compare(w) /\ Settle(w, "sent") /\ link[w] = c /\ m = Msg(k, worker[w].blk)
  \/ SendDone /\ m = Msg("done", 0) /\ (link[Main] = NoConn => Connect(c))
  \/ Break(c) /\ \E j \in 1 .. Len(c2s[c]) : m = Msg("header", c2s[c][j].blk)

LEMMA StreamSource ==
  ASSUME TypeOK, [Next]_vars, NEW c \in Conn, NEW i \in 1 .. Len(c2s'[c])
  PROVE  Comes(c, c2s'[c][i])
<1> DEFINE Old == \E j \in 1 .. Len(c2s[c]) : c2s'[c][i] = c2s[c][j]
<1>0. /\ c2s \in [Conn -> Seq(Message)] /\ c2s[c] \in Seq(Message)
      /\ Workers \subseteq Agent /\ Main \in Agent /\ link \in [Agent -> Conn \cup {NoConn}]
      /\ \A w \in Workers : worker[w].blk \in Block
  BY Typed
<1>1. CASE c2s'[c] = c2s[c]
  BY <1>1 DEF Comes
<1>2. ASSUME NEW m \in Message, c2s'[c] = Append(c2s[c], m)
      PROVE  Old \/ c2s'[c][i] = m
  <2>1. /\ Len(c2s[c]) \in Nat /\ Len(c2s'[c]) = Len(c2s[c]) + 1
        /\ c2s'[c][Len(c2s[c]) + 1] = m
        /\ \A j \in 1 .. Len(c2s[c]) : c2s'[c][j] = c2s[c][j]
    BY <1>0, <1>2, AppendFacts
  <2>2. i \in 1 .. Len(c2s[c]) \/ i = Len(c2s[c]) + 1
    BY <2>1
  <2> QED
    BY <2>1, <2>2
<1>3. ASSUME NEW a \in Agent, NEW m \in Message, Transmit(a, m)
      PROVE  Old \/ (c2s'[c][i] = m /\ (link[a] = NoConn => Connect(c)))
  <2>1. ASSUME NEW d \in Conn, Connect(d), link[a] = NoConn, c2s' = [c2s EXCEPT ![d] = <<m>>]
        PROVE  Old \/ (c2s'[c][i] = m /\ Connect(c))
    <3>1. CASE d = c
      <4>1. c2s'[c] = <<m>>
        BY <1>0, <2>1, <3>1
      <4>2. i = 1
        BY <4>1
      <4> QED
        BY <2>1, <3>1, <4>1, <4>2
    <3>2. CASE d # c
      BY <1>0, <1>1, <2>1, <3>2
    <3> QED
      BY <3>1, <3>2
  <2>2. ASSUME link[a] # NoConn, c2s' = Send(c2s, link[a], m)
        PROVE  Old \/ c2s'[c][i] = m
    <3>1. c2s'[c] = c2s[c] \/ c2s'[c] = Append(c2s[c], m)
      BY <1>0, <2>2 DEF Send
    <3> QED
      BY <1>1, <1>2, <3>1
  <2> QED
    BY <1>3, <2>1, <2>2 DEF Transmit
<1>4. ASSUME NEW w \in Workers, Ask(w)
      PROVE  Old \/ c2s'[c][i] = Msg("ask", worker[w].blk)
  <2>1. Msg("ask", worker[w].blk) \in Message
    BY <1>0, MsgType DEF MsgKind
  <2> QED
    BY <1>0, <1>3, <1>4, <2>1 DEF Ask
<1>5. ASSUME NEW w \in Workers, Compare(w)
      PROVE  Old \/ (/\ Settle(w, "sent") /\ link[w] = c
                     /\ \E k \in {"zero", "data"} : c2s'[c][i] = Msg(k, worker[w].blk))
  <2>1. \A k \in {"zero", "data"} : Msg(k, worker[w].blk) \in Message
    BY <1>0, MsgType DEF MsgKind
  <2>2. \/ c2s' = c2s
        \/ /\ Settle(w, "sent")
           /\ \E k \in {"zero", "data"} : c2s' = Send(c2s, link[w], Msg(k, worker[w].blk))
    BY <1>5 DEF Compare
  <2>3. \/ c2s'[c] = c2s[c]
        \/ /\ Settle(w, "sent") /\ link[w] = c
           /\ \E k \in {"zero", "data"} : c2s'[c] = Append(c2s[c], Msg(k, worker[w].blk))
    BY <1>0, <2>2 DEF Send
  <2> QED
    BY <1>1, <1>2, <2>1, <2>3
<1>6. CASE SendDone
  <2>1. Msg("done", 0) \in Message
    BY MsgType, Sizes DEF MsgKind
  <2>2. Old \/ (c2s'[c][i] = Msg("done", 0) /\ (link[Main] = NoConn => Connect(c)))
    BY <1>0, <1>3, <1>6, <2>1 DEF SendDone
  <2> QED
    BY <1>6, <2>2 DEF Comes
<1>7. ASSUME NEW d \in Conn, Read(d)
      PROVE  Old
  <2>1. c2s[d] # <<>> /\ c2s' = [c2s EXCEPT ![d] = Tail(@)]
    BY <1>7 DEF Read
  <2>2. CASE d = c
    <3>1. c2s'[c] = Tail(c2s[c]) /\ c2s[c] # <<>>
      BY <1>0, <2>1, <2>2
    <3>2. /\ Len(c2s[c]) \in Nat /\ Len(c2s'[c]) = Len(c2s[c]) - 1 /\ c2s'[c][i] = c2s[c][i + 1]
      BY <1>0, <3>1, TailFacts
    <3> QED
      BY <3>2
  <2>3. CASE d # c
    BY <1>0, <1>1, <2>1, <2>3
  <2> QED
    BY <2>2, <2>3
<1>8. ASSUME NEW d \in Conn, Break(d)
      PROVE  Old \/ (d = c /\ \E j \in 1 .. Len(c2s[c]) : c2s'[c][i] = Msg("header", c2s[c][j].blk))
  <2>1. PICK k \in 0 .. Len(c2s[d]), whole \in BOOLEAN :
          c2s' = [c2s EXCEPT ![d] =
                    [n \in 1 .. k |-> IF ~whole /\ n = k /\ @[n].kind = "data"
                                      THEN Msg("header", @[n].blk) ELSE @[n]]]
    BY <1>8 DEF Break
  <2>2. CASE d = c
    <3>1. c2s'[c] = [n \in 1 .. k |-> IF ~whole /\ n = k /\ c2s[c][n].kind = "data"
                                      THEN Msg("header", c2s[c][n].blk) ELSE c2s[c][n]]
      BY <1>0, <2>1, <2>2
    <3>2. i \in 1 .. k
      <4>1. c2s'[c] \in Seq(Message)
        <5>1. \A m \in Message : Msg("header", m.blk) \in Message
          BY MsgType DEF Message, MsgKind
        <5> QED
          BY <1>0, <1>8, <5>1, BreakType
      <4>2. DOMAIN c2s'[c] = 1 .. Len(c2s'[c])
        BY <4>1
      <4> QED
        BY <3>1, <4>2
    <3>3. i \in 1 .. Len(c2s[c])
      BY <1>0, <2>1, <2>2, <3>2
    <3> QED
      BY <2>2, <3>1, <3>2, <3>3
  <2>3. CASE d # c
    BY <1>0, <1>1, <2>1, <2>3
  <2> QED
    BY <2>2, <2>3
<1>9. ASSUME NEW d \in Conn, End(d)
      PROVE  Old
  <2>1. c2s' = [c2s EXCEPT ![d] = <<>>]
    BY <1>9 DEF End
  <2>2. d # c
    BY <1>0, <2>1
  <2> QED
    BY <1>0, <1>1, <2>1, <2>2
<1>10. CASE /\ \A w \in Workers : ~Ask(w) /\ ~Compare(w)
            /\ \A d \in Conn : ~Read(d) /\ ~Break(d) /\ ~End(d)
            /\ ~SendDone
  <2>1. UNCHANGED c2s
    BY <1>10 DEF Next, LoopStep, HandlerStep, Reply, Zero, Write, Set, HasherStep, TakeJob,
           HashBlock, Publish, WorkerStep, Take, EndWorker, MainStep,
           EndClient, AskFails, ReplyFails, Abort, HashFails, SendDoneFails, ReaderFails,
           ServerDies, vars, netVars
  <2> QED
    BY <1>1, <2>1
<1> QED
  BY <1>4, <1>5, <1>6, <1>7, <1>8, <1>9, <1>10 DEF Comes

\* The message in a handler's hand after a step: the one it had, none, or the stream's first.
LEMMA HandSource ==
  ASSUME TypeOK, [Next]_vars, NEW c \in Conn
  PROVE  \/ handler'[c].msg \in {handler[c].msg, NoMsg}
         \/ Read(c) /\ 1 \in 1 .. Len(c2s[c]) /\ handler'[c].msg = c2s[c][1]
<1>0. /\ handler \in [Conn -> [pc : HandlerPc, msg : Message, last : {0, LastSrc}]]
      /\ c2s \in [Conn -> Seq(Message)]
  BY Typed
<1>1. ASSUME NEW d \in Conn, Read(d)
      PROVE  \/ handler'[c] = handler[c]
             \/ Read(c) /\ 1 \in 1 .. Len(c2s[c]) /\ handler'[c].msg = c2s[c][1]
  <2>1. d = c => c2s[c] # <<>> /\ handler'[c].msg = Head(c2s[c])
    BY <1>0, <1>1 DEF Read
  <2>2. d # c => handler'[c] = handler[c]
    BY <1>0, <1>1 DEF Read
  <2>3. c2s[c] \in Seq(Message) /\ (c2s[c] # <<>> => Len(c2s[c]) >= 1 /\ Head(c2s[c]) = c2s[c][1])
    BY <1>0, TailFacts
  <2> QED
    BY <1>1, <2>1, <2>2, <2>3
<1>2. ASSUME NEW d \in Conn,
             NextMessage(d) \/ \E pc \in HandlerPc : handler' = [handler EXCEPT ![d].pc = pc]
      PROVE  handler'[c].msg \in {handler[c].msg, NoMsg}
  <2>1. CASE NextMessage(d)
    BY <1>0, <2>1 DEF NextMessage
  <2>2. ASSUME NEW pc \in HandlerPc, handler' = [handler EXCEPT ![d].pc = pc]
        PROVE  handler'[c].msg = handler[c].msg
    BY <1>0, <2>2
  <2> QED
    BY <1>2, <2>1, <2>2
<1>3. ASSUME NEW d \in Conn, Reply(d) \/ Zero(d) \/ Write(d) \/ Set(d) \/ Abort(d)
      PROVE  handler'[c].msg \in {handler[c].msg, NoMsg}
  <2>1. NextMessage(d) \/ \E pc \in HandlerPc : handler' = [handler EXCEPT ![d].pc = pc]
    BY <1>3 DEF Reply, Zero, Write, Set, Abort, HandlerPc
  <2> QED
    BY <1>2, <2>1
<1>4. ASSUME NEW d \in Conn, End(d)
      PROVE  handler'[c].msg \in {handler[c].msg, NoMsg}
  BY <1>0, <1>4 DEF End
<1>5. CASE \A d \in Conn : ~HandlerStep(d) /\ ~Abort(d)
  <2>1. UNCHANGED handler
    BY <1>5 DEF Next, LoopStep, HasherStep, TakeJob, HashBlock, Publish, WorkerStep, Take, Ask,
                Compare, EndWorker, MainStep, SendDone, EndClient, AskFails, ReplyFails, Break,
                HashFails, SendDoneFails, ReaderFails, ServerDies, vars
  <2> QED
    BY <2>1
<1> QED
  BY <1>1, <1>3, <1>4, <1>5 DEF HandlerStep

---------------------------------------------------------------------------
(* The mark of a block past the end stays with such blocks.                *)

\* What the client asks for and sends is of blocks the source has.
Asked ==
  /\ \A b \in todo : b <= LastSrc
  /\ \A w \in Workers : worker[w].blk <= LastSrc
  /\ \A c \in Conn : handler[c].msg.blk <= LastSrc
  /\ \A c \in Conn : \A i \in 1 .. Len(c2s[c]) : c2s[c][i].blk <= LastSrc

LEMMA InitAsked == Init => Asked
<1> SUFFICES ASSUME Init PROVE Asked
  OBVIOUS
<1>1. LastSrc \in Block /\ LastSrc \in Nat
  BY InitType, SourceFacts, Sizes
<1>2. \A b \in todo : b <= LastSrc
  BY <1>1, UploadAssumption DEF Init
<1>3. /\ \A w \in Workers : worker[w].blk = 0
      /\ \A c \in Conn : handler[c].msg.blk = 0 /\ c2s[c] = <<>>
  BY DEF Init, NoMsg
<1> QED
  BY <1>1, <1>2, <1>3 DEF Asked

LEMMA AskedStep ==
  ASSUME TypeOK, Asked, [Next]_vars
  PROVE  Asked'
<1>0. /\ LastSrc \in Nat /\ LastSrc' = LastSrc /\ NoMsg.blk = 0
      /\ worker \in [Workers -> [pc : {"idle", "ask", "reply", "ended"}, blk : Block,
                                 try : 0 .. MaxRetries - 1]]
  <2>1. UNCHANGED src
    BY DEF Next, LoopStep, HandlerStep, Read, Reply, Zero, Write, Set, End, HasherStep, TakeJob,
           HashBlock, Publish, WorkerStep, Take, Ask, Compare, EndWorker, MainStep, SendDone,
           EndClient, AskFails, ReplyFails, Break, Abort, HashFails, SendDoneFails, ReaderFails,
           ServerDies, vars, fileVars, inputVars
  <2> QED
    BY <2>1, SourceFacts, Sizes, Typed DEF LastSrc, NoMsg
<1>1. \A b \in todo' : b <= LastSrc
  <2>1. todo' \subseteq todo
    BY DEF Next, LoopStep, HandlerStep, Read, Reply, Zero, Write, Set, End, HasherStep, TakeJob,
           HashBlock, Publish, WorkerStep, Take, Ask, Compare, EndWorker, MainStep, SendDone,
           EndClient, AskFails, ReplyFails, Break, Abort, HashFails, SendDoneFails, ReaderFails,
           ServerDies, vars, clientVars
  <2> QED
    BY <2>1 DEF Asked
<1>2. ASSUME NEW w \in Workers
      PROVE  worker'[w].blk <= LastSrc
  <2>1. ASSUME NEW v \in Workers, WorkerStep(v) \/ AskFails(v) \/ ReplyFails(v)
        PROVE  worker'[w].blk \in {worker[w].blk, 0} \cup todo
    <3>1. CASE Take(v)
      BY <1>0, <3>1 DEF Take
    <3>2. CASE Ask(v) \/ EndWorker(v)
      BY <1>0, <3>2 DEF Ask, EndWorker
    <3>3. CASE \E closed \in BOOLEAN : Retry(v, closed)
      BY <1>0, <3>3 DEF Retry
    <3>4. CASE \E what \in {"insync", "sent"} : Settle(v, what)
      BY <1>0, <3>4 DEF Settle
    <3>5. CASE Compare(v)
      BY <3>3, <3>4, <3>5 DEF Compare
    <3>6. CASE AskFails(v) \/ ReplyFails(v)
      BY <3>3, <3>6 DEF AskFails, ReplyFails
    <3> QED
      BY <2>1, <3>1, <3>2, <3>5, <3>6 DEF WorkerStep
  <2>2. CASE \A v \in Workers : ~(WorkerStep(v) \/ AskFails(v) \/ ReplyFails(v))
    <3>1. UNCHANGED worker
      BY <2>2 DEF Next, LoopStep, HandlerStep, Read, Reply, Zero, Write, Set, End, HasherStep,
             TakeJob, HashBlock, Publish, MainStep, SendDone, EndClient, Break, Abort, HashFails,
             SendDoneFails, ReaderFails, ServerDies, vars, clientVars
    <3> QED
      BY <3>1 DEF Asked
  <2> QED
    BY <1>0, <2>1, <2>2 DEF Asked
<1>3. ASSUME NEW c \in Conn, NEW i \in 1 .. Len(c2s'[c])
      PROVE  c2s'[c][i].blk <= LastSrc
  <2>1. \/ \E j \in 1 .. Len(c2s[c]) : c2s'[c][i].blk = c2s[c][j].blk
        \/ \E w \in Workers : c2s'[c][i].blk = worker[w].blk
        \/ c2s'[c][i].blk = 0
    <3>1. Comes(c, c2s'[c][i])
      BY StreamSource
    <3>2. \A k, b : Msg(k, b).blk = b
      BY DEF Msg
    <3> QED
      BY <3>1, <3>2 DEF Comes
  <2> QED
    BY <1>0, <2>1 DEF Asked
<1>4. ASSUME NEW c \in Conn
      PROVE  handler'[c].msg.blk <= LastSrc
  <2>1. \/ handler'[c].msg.blk \in {handler[c].msg.blk, 0}
        \/ 1 \in 1 .. Len(c2s[c]) /\ handler'[c].msg.blk = c2s[c][1].blk
    <3>1. \/ handler'[c].msg \in {handler[c].msg, NoMsg}
          \/ 1 \in 1 .. Len(c2s[c]) /\ handler'[c].msg = c2s[c][1]
      BY HandSource
    <3> QED
      BY <1>0, <3>1
  <2> QED
    BY <1>0, <2>1 DEF Asked
<1> QED
  BY <1>0, <1>1, <1>2, <1>3, <1>4 DEF Asked

\* The mark is made of a block past the end of the source only.
EofPast ==
  /\ \A b \in Block : cache[b] = EofMark => b > LastSrc
  /\ \A p \in Hashers : hasher[p].pc = "set" /\ hasher[p].got = EofMark => hasher[p].blk > LastSrc

\* As long as blocks are read, those of the source that the destination had from the start lie
\* within it.
ReadsWithin ==
  \/ \A b \in Block : b <= maxId /\ b <= LastSrc => Start(b) < dst.size
  \/ nextJob > maxId /\ \A p \in Hashers : hasher[p].pc # "read"

JobsBounded == \A p \in Hashers : hasher[p].pc = "read" => hasher[p].blk <= maxId

NoEof == \A c \in Conn : \A i \in 1 .. Len(s2c[c]) : s2c[c][i].hash # EofMark

EofInv == Asked /\ EofPast /\ ReadsWithin /\ JobsBounded /\ NoEof

\* The last block of a file starts within it, and so do those before.
LEMMA StartWithin ==
  ASSUME NEW f \in File, f.size > 0, NEW b \in Nat, b <= LastBlock(f.size)
  PROVE  Start(b) < f.size
<1>1. f.size \in Nat /\ f.size - 1 \in Nat
  BY FileElim, Sizes
<1> DEFINE q == (f.size - 1) \div BlockSize
<1>2. q \in Nat /\ q * BlockSize <= f.size - 1
  BY <1>1, Sizes, DivMod
<1>3. b <= q /\ Start(b) \in Nat /\ Start(b) <= q * BlockSize
  <2>1. b <= q
    BY DEF LastBlock
  <2>2. Start(b) \in Nat /\ Start(b) <= Start(q)
    BY <1>2, <2>1, StartMono
  <2> QED
    BY <2>1, <2>2 DEF Start
<1>4. q * BlockSize \in Int
  BY <1>2, Sizes
<1> QED
  BY <1>1, <1>2, <1>3, <1>4

LEMMA StartInSpan ==
  ASSUME NEW b \in Block
  PROVE  Start(b) \in Span(b)
<1>1. b \in Nat /\ BlockSize \in Nat \ {0}
  BY Sizes
<1>2. b * BlockSize \in Int /\ (b + 1) * BlockSize = b * BlockSize + BlockSize
  BY <1>1
<1> QED
  BY <1>1, <1>2 DEF Start, Span

LEMMA InitEof == Init => EofInv
<1> SUFFICES ASSUME Init PROVE EofInv
  OBVIOUS
<1>1. TypeOK /\ dst \in File /\ maxId \in Nat /\ src \in File
  BY InitType, SourceFacts, Sizes DEF TypeOK
<1>2. EofPast /\ JobsBounded /\ NoEof
  BY DEF Init, EofPast, JobsBounded, NoEof, None, EofMark
<1>3. ReadsWithin
  <2>1. CASE dst.size > 0
    <3>1. maxId = LastBlock(dst.size)
      BY <1>1, <2>1, SameBlocks DEF Init
    <3> QED
      BY <1>1, <2>1, <3>1, StartWithin, Sizes DEF ReadsWithin
  <2>2. CASE ~(dst.size > 0)
    <3>1. maxId = 0 /\ nextJob = 1
      BY <1>1, <2>2, SameBlocks DEF Init
    <3> QED
      BY <3>1 DEF Init, ReadsWithin
  <2> QED
    BY <2>1, <2>2
<1> QED
  BY <1>2, <1>3, InitAsked DEF EofInv

LEMMA JobsStep ==
  ASSUME TypeOK, JobsBounded, [Next]_vars
  PROVE  JobsBounded'
<1>0. /\ maxId' = maxId
      /\ hasher \in [Hashers -> [pc : {"idle", "read", "set"}, blk : Block, got : Hash]]
  <2>1. maxId' = maxId
    BY DEF Next, LoopStep, HandlerStep, Read, Reply, Zero, Write, Set, End, HasherStep, TakeJob,
         HashBlock, Publish, WorkerStep, Take, Ask, Compare, EndWorker, MainStep, SendDone,
         EndClient, AskFails, ReplyFails, Break, Abort, HashFails, SendDoneFails, ReaderFails,
         ServerDies, vars, fileVars, inputVars
  <2> QED
    BY <2>1, TruthTyped
<1>1. ASSUME NEW p \in Hashers, HasherStep(p) \/ HashFails(p), NEW q \in Hashers,
             hasher'[q].pc = "read"
      PROVE  hasher'[q].blk <= maxId
  BY <1>0, <1>1 DEF HasherStep, TakeJob, HashBlock, Publish, HashFails, JobsBounded
<1>2. CASE \A p \in Hashers : ~HasherStep(p) /\ ~HashFails(p)
  <2>1. UNCHANGED hasher
    BY <1>2 DEF Next, LoopStep, HandlerStep, Read, Reply, Zero, Write, Set, End, WorkerStep, Take,
                Ask, Compare, EndWorker, MainStep, SendDone, EndClient, AskFails, ReplyFails,
                Break, Abort, SendDoneFails, ReaderFails, ServerDies, vars, cacheVars
  <2> QED
    BY <1>0, <2>1 DEF JobsBounded
<1> QED
  BY <1>0, <1>1, <1>2 DEF JobsBounded

\* The destination shrinks only to the source's size.
LEMMA SizeStep ==
  ASSUME TypeOK, Carried, [Next]_vars
  PROVE  dst'.size >= dst.size \/ dst'.size = src.size
<1>0. dst.size \in Nat
  BY FileElim, Sizes DEF TypeOK
<1>1. ASSUME NEW c \in Conn, Read(c)
      PROVE  dst'.size >= dst.size \/ dst'.size = src.size
  BY <1>0, <1>1 DEF Read, Resize
<1>2. ASSUME NEW c \in Conn, Write(c)
      PROVE  dst'.size >= dst.size
  <2>1. handler[c].msg.blk \in Block
    BY TruthTyped
  <2>2. SrcEnd(handler[c].msg.blk) \in Nat /\ Start(handler[c].msg.blk + 1) \in Nat
    <3>1. \A b \in Block : SrcEnd(b) \in 0 .. BlockCount * BlockSize
      BY SourceFacts
    <3>2. \A b \in Block : Start(b + 1) \in 0 .. BlockCount * BlockSize
      BY StartBounds
    <3> QED
      BY <2>1, <3>1, <3>2
  <2>3. \E d, e : e \in Nat /\ dst' = WriteBlock(dst, d, e)
    BY <1>2, <2>2 DEF Write
  <2> QED
    BY <1>0, <2>3 DEF WriteBlock
<1>3. ASSUME NEW c \in Conn, Abort(c)
      PROVE  dst'.size >= dst.size
  <2> DEFINE b == handler[c].msg.blk
  <2>1. b = handler[c].msg.blk
    OBVIOUS
  <2> HIDE DEF b
  <2>2. dst' \in File /\ (dst'.size = dst.size \/ dst'.size > dst.size)
    BY <1>3, <2>1, AbortPart
  <2>3. dst'.size \in Nat
    BY <2>2, FileElim, Sizes
  <2> QED
    BY <1>0, <2>2, <2>3
<1>4. CASE \A c \in Conn : ~Read(c) /\ ~Write(c) /\ ~Abort(c)
  <2>1. UNCHANGED dst
    BY <1>4 DEF Next, LoopStep, HandlerStep, Reply, Zero, Set, End, HasherStep, TakeJob,
           HashBlock, Publish, WorkerStep, Take, Ask, Compare, EndWorker, MainStep, SendDone,
           EndClient, AskFails, ReplyFails, Break, HashFails, SendDoneFails, ReaderFails,
           ServerDies, vars, fileVars
  <2> QED
    BY <1>0, <2>1
<1> QED
  BY <1>1, <1>2, <1>3, <1>4

LEMMA ReadsWithinStep ==
  ASSUME Shape, ReadsWithin, [Next]_vars
  PROVE  ReadsWithin'
<1> TypeOK /\ Carried
  BY DEF Shape
<1>0. /\ src' = src /\ maxId' = maxId /\ LastSrc' = LastSrc
      /\ nextJob \in Nat /\ maxId \in Nat
      /\ hasher \in [Hashers -> [pc : {"idle", "read", "set"}, blk : Block, got : Hash]]
  BY StepTowards, TruthTyped, Sizes DEF inputVars, LastSrc, TypeOK
<1>1. CASE \A b \in Block : b <= maxId /\ b <= LastSrc => Start(b) < dst.size
  <2>1. ASSUME NEW b \in Block, b <= maxId, b <= LastSrc
        PROVE  Start(b) < dst'.size
    <3>1. Start(b) < dst.size /\ Start(b) \in Nat /\ dst.size \in Nat /\ dst'.size \in Int
      <4>1. dst' \in File
        BY ShapeStep DEF Shape, TypeOK
      <4> QED
        BY <1>1, <2>1, <4>1, StartBounds, FileElim, Sizes DEF TypeOK
    <3>2. Start(b) < src.size
      BY <2>1, SourceFacts, StartWithin, Sizes DEF LastSrc
    <3> QED
      BY <3>1, <3>2, SizeStep
  <2> QED
    BY <1>0, <2>1 DEF ReadsWithin, Start
<1>2. CASE nextJob > maxId /\ \A p \in Hashers : hasher[p].pc # "read"
  <2>1. ASSUME NEW p \in Hashers, HasherStep(p) \/ HashFails(p)
        PROVE  nextJob' = nextJob /\ \A q \in Hashers : hasher'[q].pc # "read"
    BY <1>0, <1>2, <2>1 DEF HasherStep, TakeJob, HashBlock, Publish, HashFails
  <2>2. nextJob' > maxId /\ \A q \in Hashers : hasher'[q].pc # "read"
    <3>1. CASE \A p \in Hashers : ~HasherStep(p) /\ ~HashFails(p)
      <4>1. UNCHANGED <<nextJob, hasher>>
        BY <3>1 DEF Next, LoopStep, HandlerStep, Read, Reply, Zero, Write, Set, End, WorkerStep,
                Take, Ask, Compare, EndWorker, MainStep, SendDone, EndClient, AskFails, ReplyFails,
                Break, Abort, SendDoneFails, ReaderFails, ServerDies, vars, cacheVars
      <4> QED
        BY <1>2, <4>1
    <3> QED
      BY <1>2, <2>1, <3>1
  <2> QED
    BY <1>0, <2>2 DEF ReadsWithin
<1> QED
  BY <1>1, <1>2 DEF ReadsWithin

LEMMA EofPastStep ==
  ASSUME TypeOK, EofPast, ReadsWithin, JobsBounded, [Next]_vars
  PROVE  EofPast'
<1>0. /\ LastSrc' = LastSrc /\ LastSrc \in Nat /\ dst \in File
      /\ cache \in [Block -> Hash] /\ \A c \in Conn : handler[c].msg.blk \in Block
      /\ hasher \in [Hashers -> [pc : {"idle", "read", "set"}, blk : Block, got : Hash]]
  <2>1. UNCHANGED src
    BY DEF Next, LoopStep, HandlerStep, Read, Reply, Zero, Write, Set, End, HasherStep, TakeJob,
         HashBlock, Publish, WorkerStep, Take, Ask, Compare, EndWorker, MainStep, SendDone,
         EndClient, AskFails, ReplyFails, Break, Abort, HashFails, SendDoneFails, ReaderFails,
         ServerDies, vars, fileVars, inputVars
  <2> QED
    BY <2>1, SourceFacts, TruthTyped, Sizes DEF LastSrc, TypeOK
<1>1. ASSUME NEW p \in Hashers, HashBlock(p), NEW q \in Hashers,
             hasher'[q].pc = "set", hasher'[q].got = EofMark
      PROVE  hasher'[q].blk > LastSrc
  <2>1. CASE q # p
    BY <1>0, <1>1, <2>1 DEF HashBlock, EofPast
  <2>2. CASE q = p
    <3> DEFINE b == hasher[p].blk
               d == ReadServed(dst, b)
    <3>1. /\ hasher[p].pc = "read" /\ hasher'[p].blk = b
          /\ hasher'[p].got = IF DOMAIN d = {} THEN EofMark ELSE BlockHash(d)
      BY <1>0, <1>1 DEF HashBlock
    <3>2. BlockHash(d) # EofMark
      BY DEF BlockHash, ZeroHash, Sum, EofMark
    <3>3. DOMAIN d = {} /\ b \in Block /\ d = ReadBlock(dst, b)
      <4>1. b \in Block
        BY <1>0
      <4>2. DOMAIN d = {}
        BY <1>1, <2>2, <3>1, <3>2
      <4> QED
        BY <1>0, <4>1, <4>2, SameBlocks
    <3>4. ~(Start(b) < dst.size)
      <4>1. Start(b) \in Span(b)
        BY <3>3, StartInSpan
      <4> QED
        BY <1>0, <3>3, <4>1, ReadBlockType
    <3>5. b <= maxId /\ \A r \in Block : r <= maxId /\ r <= LastSrc => Start(r) < dst.size
      BY <3>1 DEF JobsBounded, ReadsWithin
    <3>6. b > LastSrc
      BY <1>0, <3>3, <3>4, <3>5, Sizes
    <3> QED
      BY <2>2, <3>1, <3>6
  <2> QED
    BY <2>1, <2>2
<1>2. ASSUME NEW p \in Hashers, TakeJob(p) \/ Publish(p) \/ HashFails(p), NEW q \in Hashers,
             hasher'[q].pc = "set", hasher'[q].got = EofMark
      PROVE  hasher'[q].blk > LastSrc
  BY <1>0, <1>2 DEF TakeJob, Publish, HashFails, EofPast, EofMark, ErrMark
<1>3. ASSUME NEW q \in Hashers, hasher'[q].pc = "set", hasher'[q].got = EofMark
      PROVE  hasher'[q].blk > LastSrc
  <2>1. CASE \A p \in Hashers : ~HasherStep(p) /\ ~HashFails(p)
    <3>1. UNCHANGED hasher
      BY <2>1 DEF Next, LoopStep, HandlerStep, Read, Reply, Zero, Write, Set, End, WorkerStep,
                Take, Ask, Compare, EndWorker, MainStep, SendDone, EndClient, AskFails, ReplyFails,
                Break, Abort, SendDoneFails, ReaderFails, ServerDies, vars, cacheVars
    <3> QED
      BY <1>3, <3>1 DEF EofPast
  <2> QED
    BY <1>1, <1>2, <1>3, <2>1 DEF HasherStep
<1>4. ASSUME NEW b \in Block, cache'[b] = EofMark
      PROVE  b > LastSrc
  <2>1. ASSUME NEW p \in Hashers, Publish(p)
        PROVE  b > LastSrc
    BY <1>0, <1>4, <2>1 DEF Publish, EofPast
  <2>2. ASSUME NEW c \in Conn, Set(c)
        PROVE  b > LastSrc
    BY <1>0, <1>4, <2>2 DEF Set, EofPast, Sum, ZeroHash, EofMark
  <2>3. CASE (\A p \in Hashers : ~Publish(p)) /\ (\A c \in Conn : ~Set(c))
    <3>1. UNCHANGED cache
      BY <2>3 DEF Next, LoopStep, HandlerStep, Read, Reply, Zero, Write, End, HasherStep, TakeJob,
           HashBlock, WorkerStep, Take, Ask, Compare, EndWorker, MainStep, SendDone,
           EndClient, AskFails, ReplyFails, Break, Abort, HashFails, SendDoneFails, ReaderFails,
           ServerDies, vars, cacheVars
    <3> QED
      BY <1>4, <3>1 DEF EofPast
  <2> QED
    BY <2>1, <2>2, <2>3
<1> QED
  BY <1>0, <1>3, <1>4 DEF EofPast

\* A reply after a step: one that was there, or the answer to the message in a handler's hand.
LEMMA ReplySource ==
  ASSUME TypeOK, [Next]_vars, NEW c \in Conn, NEW i \in 1 .. Len(s2c'[c])
  PROVE  \/ \E j \in 1 .. Len(s2c[c]) : s2c'[c][i] = s2c[c][j]
         \/ /\ s2c'[c][i].hash = Answer(handler[c].msg.blk)
            /\ s2c'[c][i].blk = handler[c].msg.blk /\ Answered(handler[c].msg.blk)
<1> DEFINE Old == \E j \in 1 .. Len(s2c[c]) : s2c'[c][i] = s2c[c][j]
<1>0. /\ s2c \in [Conn -> Seq([blk : Block, hash : Hash])]
      /\ s2c[c] \in Seq([blk : Block, hash : Hash])
      /\ \A d \in Conn : handler[d].msg.blk \in Block
  BY TruthTyped
<1>1. CASE s2c'[c] = s2c[c]
  BY <1>1
<1>2. ASSUME NEW w \in Workers, Compare(w)
      PROVE  Old
  <2>1. s2c[link[w]] # <<>> /\ s2c' = [s2c EXCEPT ![link[w]] = Tail(@)]
    BY <1>2 DEF Compare
  <2>2. CASE s2c[c] # <<>> /\ s2c'[c] = Tail(s2c[c])
    <3>1. /\ Len(s2c[c]) \in Nat /\ Len(s2c'[c]) = Len(s2c[c]) - 1 /\ s2c'[c][i] = s2c[c][i + 1]
      BY <1>0, <2>2, TailFacts
    <3> QED
      BY <3>1
  <2> QED
    BY <1>0, <1>1, <2>1, <2>2
<1>3. ASSUME NEW d \in Conn, Break(d)
      PROVE  Old
  <2>1. PICK n \in 0 .. Len(s2c[d]) : s2c' = [s2c EXCEPT ![d] = SubSeq(@, 1, n)]
    BY <1>3 DEF Break
  <2>2. CASE d = c
    <3>1. s2c'[c] = SubSeq(s2c[c], 1, n)
      BY <1>0, <2>1, <2>2
    <3>2. Len(s2c'[c]) = n /\ \A j \in 1 .. n : s2c'[c][j] = s2c[c][j]
      BY <1>0, <2>1, <2>2, <3>1, PrefixType
    <3> QED
      BY <1>0, <2>1, <2>2, <3>2
  <2> QED
    BY <1>0, <1>1, <2>1, <2>2
<1>4. ASSUME NEW d \in Conn, Reply(d)
      PROVE  \/ Old
             \/ /\ s2c'[c][i].hash = Answer(handler[c].msg.blk)
                /\ s2c'[c][i].blk = handler[c].msg.blk /\ Answered(handler[c].msg.blk)
  <2> DEFINE a == handler[d].msg.blk
             r == [blk |-> a, hash |-> Answer(a)]
  <2>1. Answered(a) /\ (s2c' = s2c \/ s2c' = [s2c EXCEPT ![d] = Append(@, r)])
    BY <1>4 DEF Reply
  <2>2. r \in [blk : Block, hash : Hash] /\ r.hash = Answer(a) /\ r.blk = a
    BY <1>0, AnswerType
  <2>3. CASE d = c /\ s2c'[c] = Append(s2c[c], r)
    <3>1. /\ Len(s2c[c]) \in Nat /\ Len(s2c'[c]) = Len(s2c[c]) + 1
          /\ s2c'[c][Len(s2c[c]) + 1] = r
          /\ \A j \in 1 .. Len(s2c[c]) : s2c'[c][j] = s2c[c][j]
      <4> HIDE DEF r
      <4> QED
        BY <1>0, <2>2, <2>3, AppendFacts
    <3>2. i \in 1 .. Len(s2c[c]) \/ i = Len(s2c[c]) + 1
      BY <3>1
    <3> HIDE DEF r
    <3> QED
      BY <2>1, <2>2, <2>3, <3>1, <3>2
  <2>4. s2c'[c] = s2c[c] \/ (d = c /\ s2c'[c] = Append(s2c[c], r))
    <3> HIDE DEF r
    <3> QED
      BY <1>0, <2>1
  <2> QED
    BY <1>1, <2>3, <2>4
<1>5. CASE (\A w \in Workers : ~Compare(w)) /\ (\A d \in Conn : ~Break(d) /\ ~Reply(d))
  <2>1. UNCHANGED s2c
    BY <1>5 DEF Next, LoopStep, HandlerStep, Read, Zero, Write, Set, End, HasherStep, TakeJob,
           HashBlock, Publish, WorkerStep, Take, Ask, EndWorker, MainStep, SendDone,
           EndClient, AskFails, ReplyFails, Abort, HashFails, SendDoneFails, ReaderFails,
           ServerDies, vars, netVars
  <2> QED
    BY <1>1, <2>1
<1> QED
  BY <1>2, <1>3, <1>4, <1>5

LEMMA EofInvStep == Shape /\ EofInv /\ [Next]_vars => EofInv'
<1> SUFFICES ASSUME Shape, EofInv, [Next]_vars PROVE EofInv'
  OBVIOUS
<1>1. TypeOK /\ Carried /\ Asked /\ EofPast /\ ReadsWithin /\ JobsBounded /\ NoEof
  BY DEF Shape, EofInv
<1>2. Asked' /\ EofPast' /\ ReadsWithin' /\ JobsBounded'
  BY <1>1, AskedStep, EofPastStep, ReadsWithinStep, JobsStep
<1>3. NoEof'
  <2>1. \A c \in Conn : Answer(handler[c].msg.blk) # EofMark
    <3>1. \A c \in Conn : handler[c].msg.blk \in Block /\ handler[c].msg.blk <= LastSrc
      BY <1>1, TruthTyped DEF Asked
    <3>2. LastSrc \in Nat /\ Block \subseteq Nat /\ ZeroHash # EofMark
      BY <1>1, SourceFacts, Sizes DEF ZeroHash, EofMark
    <3>3. ASSUME NEW b \in Block, b <= LastSrc
          PROVE  Answer(b) # EofMark
      <4>1. cache[b] # EofMark
        BY <1>1, <3>2, <3>3 DEF EofPast
      <4> QED
        BY <3>2, <4>1 DEF Answer
    <3> QED
      BY <3>1, <3>3
  <2>2. ASSUME NEW c \in Conn, NEW i \in 1 .. Len(s2c'[c])
        PROVE  s2c'[c][i].hash # EofMark
    BY <1>1, <2>1, ReplySource DEF NoEof
  <2> QED
    BY <2>2 DEF NoEof
<1> QED
  BY <1>2, <1>3 DEF EofInv

\* The mark precomputation leaves for a block past the end never reaches a client, whose read of
\* sixteen bytes it would not satisfy: truncation and writes never put a block the client asks for
\* past the end while it is read.
THEOREM UploadNoEofReply == Spec => []NoEofReply
<1>1. Init => Shape /\ EofInv
  BY InitShape, InitEof
<1>2. Shape /\ EofInv /\ [Next]_vars => (Shape /\ EofInv)'
  BY ShapeStep, EofInvStep
<1>3. Shape /\ EofInv => NoEofReply
  <2> SUFFICES ASSUME Shape, EofInv, NEW c \in Conn, NEW i \in DOMAIN s2c[c]
               PROVE  s2c[c][i].hash # EofMark
    BY DEF NoEofReply
  <2>1. i \in 1 .. Len(s2c[c])
    BY Typed DEF Shape
  <2> QED
    BY <2>1 DEF EofInv, NoEof
<1> QED
  BY <1>1, <1>2, <1>3, PTL DEF Spec
=============================================================================
