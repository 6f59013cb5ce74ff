------------------------- MODULE UploadMirrorProofs -------------------------
(***************************************************************************)
(* Proofs about Upload: a block the client skips is in sync, whatever was  *)
(* read, cut and written meanwhile; what is sent arrives before DONE is    *)
(* acted on; and so an upload implements Mirror, and leaves a copy of the  *)
(* source when it is over. Nobody waits for good on the way there.         *)
(***************************************************************************)
EXTENDS UploadProofs

---------------------------------------------------------------------------
(* Hashes tell the truth: a hash equal to the source's, wherever it is on  *)
(* its way to the client, is of a block that is in sync by now.            *)

CacheTrue == \A b \in Block : cache[b] = SrcHash(b) => InSync(b)

HashersTrue ==
  \A p \in Hashers, b \in Block :
    hasher[p].pc = "set" /\ hasher[p].blk = b /\ hasher[p].got = SrcHash(b) => InSync(b)

RepliesTrue ==
  \A c \in Conn, b \in Block : \A i \in 1 .. Len(s2c[c]) :
    s2c[c][i].blk = b /\ s2c[c][i].hash = SrcHash(b) => InSync(b)

\* A handler about to publish the hash of what it wrote has written it.
Written ==
  \A c \in Conn, b \in Block : handler[c].pc = "set" /\ handler[c].msg.blk = b => InSync(b)

\* Past the cache's bound there is nothing but zeros and the source's bytes.
BeyondTrue ==
  \A i \in Pos : i >= Start(maxId + 1) /\ i < src.size => dst.data[i] = 0 \/ dst.data[i] = src.data[i]

Truthful == CacheTrue /\ HashersTrue /\ RepliesTrue /\ Written /\ BeyondTrue

LEMMA SrcHashKind ==
  ASSUME NEW b
  PROVE  SrcHash(b).kind \in {"zero", "sum"}
BY DEF SrcHash, BlockHash, ZeroHash, Sum

LEMMA InitTruthful == Init => Truthful /\ SkipSound
<1> SUFFICES ASSUME Init PROVE Truthful /\ SkipSound
  OBVIOUS
<1>1. TypeOK
  BY InitType
<1>2. CacheTrue
  <2>1. \A b \in Block : cache[b].kind = "none"
    BY DEF Init, None
  <2> QED
    BY <2>1, SrcHashKind DEF CacheTrue
<1>3. HashersTrue /\ Written
  BY DEF Init, HashersTrue, Written
<1>4. RepliesTrue
  <2>1. \A c \in Conn : s2c[c] = <<>>
    BY DEF Init
  <2> QED
    BY <2>1 DEF RepliesTrue
<1>5. BeyondTrue
  <2>1. dst \in File /\ maxId = CacheBound(dst) /\ maxId \in Nat
    BY <1>1 DEF Init, TypeOK, Block
  <2>2. dst.size <= Start(maxId + 1)
    <3>1. dst.size \in Nat
      BY <2>1, FileElim, Sizes
    <3>2. CASE dst.size > 0
      BY <2>1, <3>2, LastBlockBounds, SameBlocks
    <3>3. CASE dst.size = 0
      BY <2>1, <3>3, StartMono, Sizes DEF Start
    <3> QED
      BY <3>1, <3>2, <3>3
  <2>3. Start(maxId + 1) \in Int /\ dst.size \in Int /\ Pos \subseteq Int
    BY <2>1, FileElim, StartMono, Sizes
  <2>4. \A i \in Pos : i >= Start(maxId + 1) => i >= dst.size
    BY <2>2, <2>3
  <2> QED
    BY <2>1, <2>4, FileElim DEF BeyondTrue
<1>6. SkipSound
  BY DEF Init, SkipSound
<1> QED
  BY <1>2, <1>3, <1>4, <1>5, <1>6 DEF Truthful

\* What a handler answers is true, from the cache or past its bound.
LEMMA AnswerTrue ==
  ASSUME TypeOK, CacheTrue, BeyondTrue, NEW b \in Block, Answer(b) = SrcHash(b)
  PROVE  InSync(b)
<1>0. maxId \in Nat /\ b \in Nat /\ src \in File
  BY SourceFacts, Sizes DEF TypeOK, Block
<1>1. CASE b <= maxId
  BY <1>0, <1>1 DEF Answer, CacheTrue
<1>2. CASE b > maxId
  <2>1. SrcHash(b) = ZeroHash
    BY <1>2 DEF Answer
  <2>2. IsZero(SrcBlock(b))
    BY <2>1 DEF SrcHash, BlockHash, ZeroHash, Sum
  <2>3. \A i \in Span(b) : i < src.size => src.data[i] = 0
    BY <1>0, <2>2, ReadBlockType DEF IsZero, SrcBlock
  <2>4. Start(maxId + 1) <= Start(b) /\ Start(maxId + 1) \in Nat /\ Start(b) \in Nat
    BY <1>0, <1>2, StartMono
  <2>5. \A i \in Span(b) : i \in Pos /\ i \in Int /\ i >= Start(b)
    BY StartBounds, <2>4 DEF Span
  <2>6. \A i \in Span(b) : i >= Start(maxId + 1)
    BY <2>4, <2>5
  <2> QED
    BY <2>3, <2>5, <2>6 DEF InSync, BeyondTrue
<1> QED
  BY <1>0, <1>1, <1>2

\* What a precompute worker makes of a block is true.
LEMMA HashTrue ==
  ASSUME TypeOK, NEW b \in Block, BlockHash(ReadBlock(dst, b)) = SrcHash(b)
  PROVE  InSync(b)
<1>1. src \in File /\ dst \in File
  BY SourceFacts DEF TypeOK
<1> QED
  BY <1>1, SameHash DEF SrcHash, SrcBlock, InSync

---------------------------------------------------------------------------
(* The invariant, conjunct by conjunct.                                    *)

LEMMA BeyondStep ==
  ASSUME TypeOK, Carried, BeyondTrue, [Next]_vars
  PROVE  BeyondTrue'
<1>1. Towards /\ UNCHANGED <<src, maxId>>
  BY StepTowards DEF inputVars
<1> QED
  BY <1>1 DEF BeyondTrue, Towards, Start

\* A handler's publication is of what it wrote: the zero hash or the sum of the message's data,
\* and either way the block is in sync.
LEMMA WrittenStep ==
  ASSUME TypeOK, Carried, Written, [Next]_vars
  PROVE  Written'
<1>0. handler \in [Conn -> [pc : HandlerPc, msg : Message, last : {0, LastSrc}]]
  BY TruthTyped
<1> SUFFICES ASSUME NEW c \in Conn, NEW b \in Block,
                    handler'[c].pc = "set", handler'[c].msg.blk = b
             PROVE  InSync(b)'
  BY DEF Written
<1>1. CASE handler'[c] = handler[c]
  BY <1>1, SyncStays DEF Written
<1>2. CASE handler'[c] # handler[c]
  <2>1. PICK d \in Conn : HandlerStep(d) \/ Abort(d)
    BY <1>2, DeathOnly DEF Next, LoopStep, HasherStep, TakeJob, HashBlock, Publish, WorkerStep,
           Take, Ask, Compare, EndWorker, MainStep, SendDone, EndClient, AskFails, ReplyFails,
           Break, HashFails, SendDoneFails, ReaderFails, vars
  <2>2. d = c
    BY <1>0, <1>2, <2>1 DEF HandlerStep, Read, Reply, Zero, Write, Set, End, Abort, NextMessage
  <2>3. Write(c)
    <3>1. ~Read(c) /\ ~Reply(c) /\ ~Set(c)
      BY <1>0 DEF Read, Reply, Set, NextMessage
    <3>2. ~Zero(c) /\ ~End(c) /\ ~Abort(c)
      BY <1>0 DEF Zero, End, Abort, NextMessage
    <3> QED
      BY <2>1, <2>2, <3>1, <3>2 DEF HandlerStep
  <2>4. handler[c].msg.blk = b /\ UNCHANGED src
    BY <1>0, <2>3 DEF Write, inputVars
  <2>5. \A i \in Span(b) : i < src.size => dst'.data[i] = src.data[i]
    BY <2>3, <2>4, WriteTowards
  <2> QED
    BY <2>4, <2>5 DEF InSync
<1> QED
  BY <1>1, <1>2

LEMMA HashersStep ==
  ASSUME TypeOK, Carried, HashersTrue, [Next]_vars
  PROVE  HashersTrue'
<1>0. hasher \in [Hashers -> [pc : {"idle", "read", "set"}, blk : Block, got : Hash]]
  BY TruthTyped
<1> SUFFICES ASSUME NEW p \in Hashers, NEW b \in Block, hasher'[p].pc = "set",
                    hasher'[p].blk = b, hasher'[p].got = SrcHash(b)'
             PROVE  InSync(b)'
  BY DEF HashersTrue
<1>1. SrcHash(b)' = SrcHash(b) /\ (InSync(b) => InSync(b)')
  BY SyncStays
<1>2. CASE hasher'[p] = hasher[p]
  BY <1>1, <1>2 DEF HashersTrue
<1>3. CASE hasher'[p] # hasher[p]
  <2>1. PICK q \in Hashers : HasherStep(q) \/ HashFails(q)
    BY <1>3, DeathOnly DEF Next, LoopStep, HandlerStep, Read, Reply, Zero, Write, Set, End,
           WorkerStep, Take, Ask, Compare, EndWorker, MainStep, SendDone, EndClient, AskFails,
           ReplyFails, Break, Abort, SendDoneFails, ReaderFails, vars, cacheVars
  <2>2. q = p
    BY <1>0, <1>3, <2>1 DEF HasherStep, TakeJob, HashBlock, Publish, HashFails
  <2>3. HashBlock(p) \/ HashFails(p)
    BY <1>0, <2>1, <2>2 DEF HasherStep, TakeJob, Publish
  <2>4. hasher[p].blk = b
    BY <1>0, <2>3 DEF HashBlock, HashFails
  <2>5. hasher'[p].got = SrcHash(b) /\ SrcHash(b).kind \in {"zero", "sum"}
    BY <1>1, SrcHashKind
  <2>6. SrcHash(b) = BlockHash(ReadServed(dst, b))
    BY <1>0, <2>3, <2>4, <2>5 DEF HashBlock, HashFails, EofMark, ErrMark
  <2>7. SrcHash(b) = BlockHash(ReadBlock(dst, b))
    BY <2>6, SameBlocks DEF TypeOK
  <2> QED
    BY <1>1, <2>7, HashTrue
<1> QED
  BY <1>2, <1>3

\* The cache takes only what is true: from a precompute worker, or from a handler that wrote.
LEMMA CacheTrueStep ==
  ASSUME TypeOK, Carried, CacheTrue, HashersTrue, Written, [Next]_vars
  PROVE  CacheTrue'
<1>0. /\ cache \in [Block -> Hash]
      /\ hasher \in [Hashers -> [pc : {"idle", "read", "set"}, blk : Block, got : Hash]]
      /\ \A c \in Conn : handler[c].msg.blk \in Block
  BY TruthTyped
<1> SUFFICES ASSUME NEW b \in Block, cache'[b] = SrcHash(b)'
             PROVE  InSync(b)'
  BY DEF CacheTrue
<1>1. SrcHash(b)' = SrcHash(b) /\ (InSync(b) => InSync(b)')
  BY SyncStays
<1>2. CASE cache'[b] = cache[b]
  BY <1>1, <1>2 DEF CacheTrue
<1>3. ASSUME NEW p \in Hashers, Publish(p), cache'[b] # cache[b]
      PROVE  InSync(b)
  <2>1. hasher[p].pc = "set" /\ hasher[p].blk = b /\ cache'[b] = hasher[p].got
    BY <1>0, <1>3 DEF Publish
  <2> QED
    BY <1>1, <2>1 DEF HashersTrue
<1>4. ASSUME NEW c \in Conn, Set(c), cache'[b] # cache[b]
      PROVE  InSync(b)
  <2>1. handler[c].pc = "set" /\ handler[c].msg.blk = b
    BY <1>0, <1>4 DEF Set, Running
  <2> QED
    BY <2>1 DEF Written
<1>5. CASE (\A p \in Hashers : ~Publish(p)) /\ (\A c \in Conn : ~Set(c))
  <2>1. UNCHANGED cache
    BY <1>5, DeathOnly DEF Next, LoopStep, HandlerStep, Read, Reply, Zero, Write, End, HasherStep,
           TakeJob, HashBlock, WorkerStep, Take, Ask, Compare, EndWorker, MainStep, SendDone,
           EndClient, AskFails, ReplyFails, Break, Abort, HashFails, SendDoneFails, ReaderFails,
           vars, cacheVars
  <2> QED
    BY <1>2, <2>1
<1> QED
  BY <1>1, <1>2, <1>3, <1>4, <1>5

\* Replies come from the cache or its bound; breaks and reads only take some away.
LEMMA RepliesTrueStep ==
  ASSUME TypeOK, Carried, RepliesTrue, CacheTrue, BeyondTrue, [Next]_vars
  PROVE  RepliesTrue'
<1>0. /\ s2c \in [Conn -> Seq([blk : Block, hash : Hash])]
      /\ \A c \in Conn : handler[c].msg.blk \in Block
  BY TruthTyped
<1> SUFFICES ASSUME NEW c \in Conn, NEW b \in Block, NEW i \in 1 .. Len(s2c'[c]),
                    s2c'[c][i].blk = b, s2c'[c][i].hash = SrcHash(b)'
             PROVE  InSync(b)'
  BY DEF RepliesTrue
<1>1. SrcHash(b)' = SrcHash(b) /\ (InSync(b) => InSync(b)')
  BY SyncStays
<1>2. ASSUME NEW j \in 1 .. Len(s2c[c]), s2c'[c][i] = s2c[c][j]
      PROVE  InSync(b)
  BY <1>1, <1>2 DEF RepliesTrue
<1>3. CASE s2c'[c] = s2c[c]
  BY <1>1, <1>2, <1>3
<1>4. ASSUME NEW w \in Workers, Compare(w), s2c'[c] # s2c[c]
      PROVE  InSync(b)
  <2>1. s2c[c] # <<>> /\ s2c'[c] = Tail(s2c[c]) /\ s2c[c] \in Seq([blk : Block, hash : Hash])
    BY <1>0, <1>4 DEF Compare
  <2>2. /\ Len(s2c[c]) \in Nat /\ Len(s2c[c]) >= 1 /\ Len(s2c'[c]) = Len(s2c[c]) - 1
        /\ s2c'[c][i] = s2c[c][i + 1]
    BY <2>1, TailFacts
  <2>3. i + 1 \in 1 .. Len(s2c[c])
    BY <2>2
  <2> QED
    BY <1>2, <2>2, <2>3
<1>5. ASSUME NEW d \in Conn, Break(d), s2c'[c] # s2c[c]
      PROVE  InSync(b)
  <2>1. PICK n \in 0 .. Len(s2c[d]) : s2c' = [s2c EXCEPT ![d] = SubSeq(@, 1, n)]
    BY <1>5 DEF Break
  <2>2. d = c /\ s2c'[c] = SubSeq(s2c[c], 1, n) /\ s2c[c] \in Seq([blk : Block, hash : Hash])
    BY <1>0, <1>5, <2>1
  <2>3. Len(s2c'[c]) = n /\ \A j \in 1 .. n : s2c'[c][j] = s2c[c][j]
    BY <2>1, <2>2, PrefixType
  <2>4. i \in 1 .. Len(s2c[c]) /\ s2c'[c][i] = s2c[c][i]
    BY <2>1, <2>2, <2>3
  <2> QED
    BY <1>2, <2>4
<1>6. ASSUME NEW d \in Conn, Reply(d), s2c'[c] # s2c[c]
      PROVE  InSync(b)
  <2> DEFINE a == handler[d].msg.blk
             r == [blk |-> a, hash |-> Answer(a)]
  <2>1. s2c' = [s2c EXCEPT ![d] = Append(@, r)]
    BY <1>6 DEF Reply
  <2>2. d = c /\ s2c'[c] = Append(s2c[c], r) /\ s2c[c] \in Seq([blk : Block, hash : Hash])
        /\ r \in [blk : Block, hash : Hash]
    BY <1>0, <1>6, <2>1, AnswerType
  <2>3. /\ Len(s2c[c]) \in Nat /\ Len(s2c'[c]) = Len(s2c[c]) + 1
        /\ s2c'[c][Len(s2c[c]) + 1] = r
        /\ \A j \in 1 .. Len(s2c[c]) : s2c'[c][j] = s2c[c][j]
    <3> HIDE DEF r
    <3> QED
      BY <2>2, AppendFacts
  <2>4. CASE i \in 1 .. Len(s2c[c])
    BY <1>2, <2>3, <2>4
  <2>5. CASE i = Len(s2c[c]) + 1
    <3>1. a = b /\ Answer(b) = SrcHash(b)
      BY <1>1, <2>3, <2>5
    <3> QED
      BY <3>1, AnswerTrue
  <2> QED
    BY <2>3, <2>4, <2>5
<1>7. CASE (\A w \in Workers : ~Compare(w)) /\ (\A d \in Conn : ~Break(d) /\ ~Reply(d))
  <2>1. UNCHANGED s2c
    BY <1>7, DeathOnly DEF Next, LoopStep, HandlerStep, Read, Zero, Write, Set, End, HasherStep,
           TakeJob, HashBlock, Publish, WorkerStep, Take, Ask, EndWorker, MainStep, SendDone,
           EndClient, AskFails, ReplyFails, Abort, HashFails, SendDoneFails, ReaderFails, vars,
           netVars
  <2> QED
    BY <1>3, <2>1
<1> QED
  BY <1>1, <1>3, <1>4, <1>5, <1>6, <1>7

\* A block the client skips now is one whose true hash it has read.
LEMMA SkipStep ==
  ASSUME TypeOK, Carried, RepliesMatch, RepliesTrue, SkipSound, [Next]_vars
  PROVE  SkipSound'
<1>0. /\ s2c \in [Conn -> Seq([blk : Block, hash : Hash])]
      /\ outcome \in [Block -> Result] /\ \A w \in Workers : worker[w].blk \in Block
      /\ link \in [Agent -> Conn \cup {NoConn}] /\ Workers \subseteq Agent
  BY Typed DEF TypeOK
<1> SUFFICES ASSUME NEW b \in Block, outcome'[b].what = "insync"
             PROVE  InSync(b)'
  BY DEF SkipSound
<1>1. InSync(b) => InSync(b)'
  BY SyncStays
<1>2. CASE outcome'[b] = outcome[b]
  BY <1>1, <1>2 DEF SkipSound
<1>3. ASSUME NEW w \in Workers, NEW closed \in BOOLEAN, Retry(w, closed)
      PROVE  outcome'[b] = outcome[b]
  <2>1. outcome' = outcome \/ outcome' = [outcome EXCEPT ![worker[w].blk] =
                                            [what |-> "failed", on |-> NoConn]]
    BY <1>3 DEF Retry
  <2> QED
    BY <1>0, <2>1
<1>4. ASSUME NEW w \in Workers, Compare(w), outcome'[b] # outcome[b]
      PROVE  InSync(b)
  <2> DEFINE c == link[w]
             theirs == Head(s2c[c]).hash
  <2>1. c \in Conn /\ c # NoConn /\ s2c[c] # <<>> /\ s2c[c] \in Seq([blk : Block, hash : Hash])
    BY <1>0, <1>4 DEF Compare
  <2>2. (theirs = SrcHash(worker[w].blk) /\ Settle(w, "insync")) \/ Settle(w, "sent")
    BY <1>3, <1>4 DEF Compare
  <2>3. theirs = SrcHash(worker[w].blk) /\ worker[w].blk = b
    BY <1>0, <1>4, <2>2 DEF Settle
  <2>4. Head(s2c[c]).blk = worker[w].blk
    BY <2>1 DEF RepliesMatch
  <2>5. 1 \in 1 .. Len(s2c[c]) /\ s2c[c][1] = Head(s2c[c])
    BY <2>1, TailFacts
  <2> HIDE DEF c, theirs
  <2>6. s2c[c][1].blk = b /\ s2c[c][1].hash = SrcHash(b)
    BY <2>3, <2>4, <2>5 DEF theirs
  <2> QED
    BY <2>1, <2>5, <2>6 DEF RepliesTrue
<1>5. ASSUME NEW w \in Workers, AskFails(w) \/ ReplyFails(w)
      PROVE  outcome'[b] = outcome[b]
  BY <1>3, <1>5 DEF AskFails, ReplyFails
<1>6. CASE ReaderFails
  <2>1. outcome'[b] = outcome[b]
    BY <1>0, <1>6 DEF ReaderFails
  <2> QED
    BY <1>2, <2>1
<1>7. CASE (\A w \in Workers : ~Compare(w) /\ ~AskFails(w) /\ ~ReplyFails(w)) /\ ~ReaderFails
  <2>1. UNCHANGED outcome
    BY <1>7, DeathOnly DEF Next, LoopStep, HandlerStep, Read, Reply, Zero, Write, Set, End,
           HasherStep, TakeJob, HashBlock, Publish, WorkerStep, Take, Ask, EndWorker, MainStep,
           SendDone, EndClient, Break, Abort, HashFails, SendDoneFails, vars, clientVars
  <2> QED
    BY <1>2, <2>1
<1> QED
  BY <1>1, <1>2, <1>4, <1>5, <1>6, <1>7

---------------------------------------------------------------------------
SkipInv == Shape /\ Framing /\ Truthful /\ SkipSound

LEMMA SkipInvStep == SkipInv /\ [Next]_vars => SkipInv'
<1> SUFFICES ASSUME SkipInv, [Next]_vars PROVE SkipInv'
  OBVIOUS
<1>1. TypeOK /\ Carried /\ RepliesMatch /\ Truthful /\ SkipSound
  BY FramingMatches DEF SkipInv, Shape
<1>2. Shape' /\ Framing'
  BY ShapeStep, FramingStep DEF SkipInv
<1>3. CacheTrue' /\ HashersTrue' /\ Written' /\ BeyondTrue'
  BY <1>1, CacheTrueStep, HashersStep, WrittenStep, BeyondStep DEF Truthful
<1>4. RepliesTrue' /\ SkipSound'
  BY <1>1, RepliesTrueStep, SkipStep DEF Truthful
<1> QED
  BY <1>2, <1>3, <1>4 DEF SkipInv, Truthful

\* A block is skipped only if the server's bytes are the source's: whatever handlers truncated and
\* wrote, and whatever precomputation read, between the hash and its use.
THEOREM UploadSkipSound == Spec => []SkipSound
<1>1. Init => SkipInv
  BY InitShape, InitFraming, InitTruthful DEF SkipInv
<1>2. SkipInv => SkipSound
  BY DEF SkipInv
<1> QED
  BY <1>1, <1>2, SkipInvStep, PTL DEF Spec

---------------------------------------------------------------------------
(* The client's books: every block has one place.                          *)

Busy(w) == worker[w].pc \in {"ask", "reply"}

\* A block of the source waits for a worker, or is one worker's, or is settled, and only one of
\* these.
Assigned ==
  /\ \A b \in todo : outcome[b].what = "none"
  /\ \A w \in Workers : Busy(w) => outcome[worker[w].blk].what = "none" /\ worker[w].blk \notin todo
  /\ \A v, w \in Workers : Busy(v) /\ Busy(w) /\ worker[v].blk = worker[w].blk => v = w
  /\ \A b \in Block : b >= ClientSkip /\ b <= LastSrc /\ outcome[b].what = "none" =>
       b \in todo \/ \E w \in Workers : Busy(w) /\ worker[w].blk = b

\* A worker that has ended left no block and holds no connection.
EndedIdle == \A w \in Workers : worker[w].pc = "ended" => todo = {} /\ link[w] = NoConn

\* A step of a worker that has a block: it goes on with it, or settles it.
LEMMA BusyMoves ==
  ASSUME TypeOK, NEW w \in Workers, Ask(w) \/ Compare(w) \/ AskFails(w) \/ ReplyFails(w)
  PROVE  /\ Busy(w) /\ todo' = todo /\ worker'[w].pc # "ended"
         /\ \A v \in Workers : v # w => worker'[v] = worker[v]
         /\ \/ Busy(w)' /\ worker'[w].blk = worker[w].blk /\ outcome' = outcome
            \/ ~Busy(w)' /\ \E r \in Result :
                 /\ r.what # "none" /\ outcome' = [outcome EXCEPT ![worker[w].blk] = r]
                 /\ r.what = "sent" => Compare(w) /\ r.on = link[w]
<1>0. /\ worker \in [Workers -> [pc : {"idle", "ask", "reply", "ended"}, blk : Block,
                                try : 0 .. MaxRetries - 1]]
      /\ link \in [Agent -> Conn \cup {NoConn}] /\ w \in Agent
  BY Typed
<1>1. Busy(w) /\ todo' = todo
  BY DEF Busy, Ask, Compare, AskFails, ReplyFails
<1>2. CASE Ask(w)
  BY <1>0, <1>1, <1>2 DEF Ask, Busy
<1>3. ASSUME NEW closed \in BOOLEAN, Retry(w, closed)
      PROVE  /\ worker'[w].pc # "ended"
             /\ \A v \in Workers : v # w => worker'[v] = worker[v]
             /\ \/ Busy(w)' /\ worker'[w].blk = worker[w].blk /\ outcome' = outcome
                \/ ~Busy(w)' /\ \E r \in Result :
                     r.what = "failed" /\ outcome' = [outcome EXCEPT ![worker[w].blk] = r]
  <2>1. [what |-> "failed", on |-> NoConn] \in Result
    BY DEF Result
  <2>2. CASE worker[w].try + 1 = MaxRetries
    <3>1. /\ worker' = [worker EXCEPT ![w] = [pc |-> "idle", blk |-> 0, try |-> 0]]
          /\ outcome' = [outcome EXCEPT ![worker[w].blk] = [what |-> "failed", on |-> NoConn]]
      BY <1>3, <2>2 DEF Retry
    <3>2. worker'[w].pc = "idle" /\ \A v \in Workers : v # w => worker'[v] = worker[v]
      BY <1>0, <3>1
    <3> QED
      BY <2>1, <3>1, <3>2 DEF Busy
  <2>3. CASE worker[w].try + 1 # MaxRetries
    <3>1. /\ worker' = [worker EXCEPT ![w] = [pc |-> "ask", blk |-> worker[w].blk,
                                             try |-> worker[w].try + 1]]
          /\ outcome' = outcome
      BY <1>3, <2>3 DEF Retry
    <3> QED
      BY <1>0, <3>1 DEF Busy
  <2> QED
    BY <2>2, <2>3
<1>4. CASE AskFails(w) \/ ReplyFails(w)
  <2>1. Retry(w, TRUE)
    BY <1>4 DEF AskFails, ReplyFails
  <2> QED
    BY <1>1, <1>3, <2>1
<1>5. ASSUME NEW what \in {"insync", "sent"}, Settle(w, what), Compare(w)
      PROVE  /\ worker'[w].pc # "ended" /\ ~Busy(w)'
             /\ \A v \in Workers : v # w => worker'[v] = worker[v]
             /\ \E r \in Result :
                  /\ r.what # "none" /\ outcome' = [outcome EXCEPT ![worker[w].blk] = r]
                  /\ r.what = "sent" => r.on = link[w]
  <2> DEFINE r == [what |-> what, on |-> IF what = "sent" THEN link[w] ELSE NoConn]
  <2>1. r \in Result
    BY <1>0 DEF Result
  <2>2. outcome' = [outcome EXCEPT ![worker[w].blk] = r]
    BY <1>5 DEF Settle
  <2>3. r.what # "none" /\ (r.what = "sent" => r.on = link[w])
    OBVIOUS
  <2>4. worker' = [worker EXCEPT ![w] = [pc |-> "idle", blk |-> 0, try |-> 0]]
    BY <1>5 DEF Settle
  <2>5. worker'[w].pc = "idle" /\ \A v \in Workers : v # w => worker'[v] = worker[v]
    BY <1>0, <2>4
  <2> HIDE DEF r
  <2> QED
    BY <2>1, <2>2, <2>3, <2>5 DEF Busy
<1>6. CASE Compare(w)
  <2>1. (\E what \in {"insync", "sent"} : Settle(w, what)) \/ (\E closed \in BOOLEAN : Retry(w, closed))
    BY <1>6 DEF Compare
  <2> QED
    BY <1>1, <1>3, <1>5, <1>6, <2>1
<1> QED
  BY <1>2, <1>4, <1>6

\* The other steps leave the workers' blocks and the outcomes alone, but for three.
LEMMA BooksStill ==
  ASSUME [Next]_vars,
         \A w \in Workers : /\ ~Ask(w) /\ ~Compare(w) /\ ~AskFails(w) /\ ~ReplyFails(w)
                            /\ ~Take(w) /\ ~EndWorker(w),
         ~ReaderFails
  PROVE  UNCHANGED <<todo, worker, outcome>>
BY DeathOnly DEF Next, LoopStep, HandlerStep, Read, Reply, Zero, Write, Set, End, HasherStep,
       TakeJob, HashBlock, Publish, WorkerStep, MainStep, SendDone, EndClient, Break, Abort,
       HashFails, SendDoneFails, vars, clientVars

\* Nobody but a worker changes the worker's link.
LEMMA LinkStill ==
  ASSUME TypeOK, [Next]_vars, NEW w \in Workers, ~WorkerStep(w), ~AskFails(w), ~ReplyFails(w)
  PROVE  link'[w] = link[w]
<1>0. link \in [Agent -> Conn \cup {NoConn}] /\ w \in Agent /\ w # Main
  BY Typed
<1>1. ASSUME NEW a \in Agent, a # w, NEW m, Transmit(a, m)
      PROVE  link'[w] = link[w]
  BY <1>0, <1>1 DEF Transmit
<1>2. ASSUME NEW v \in Workers, v # w, NEW closed \in BOOLEAN, Retry(v, closed)
      PROVE  link'[w] = link[w]
  BY <1>0, <1>2, RetryFacts
<1>3. ASSUME NEW v \in Workers, WorkerStep(v) \/ AskFails(v) \/ ReplyFails(v)
      PROVE  link'[w] = link[w]
  <2>0. v # w /\ v \in Agent
    BY <1>3, Typed
  <2>1. CASE Ask(v)
    BY <1>1, <2>0, <2>1 DEF Ask
  <2>2. CASE Compare(v)
    BY <1>2, <2>0, <2>2 DEF Compare
  <2>3. CASE AskFails(v) \/ ReplyFails(v)
    BY <1>2, <2>0, <2>3 DEF AskFails, ReplyFails
  <2>4. CASE Take(v) \/ EndWorker(v)
    BY <1>0, <2>0, <2>4 DEF Take, EndWorker, netVars
  <2> QED
    BY <1>3, <2>1, <2>2, <2>3, <2>4 DEF WorkerStep
<1>4. CASE MainStep
  BY <1>0, <1>1, <1>4, Typed DEF MainStep, SendDone, EndClient
<1>5. CASE ~MainStep /\ \A v \in Workers : ~WorkerStep(v) /\ ~AskFails(v) /\ ~ReplyFails(v)
  <2>1. UNCHANGED link
    BY <1>5, DeathOnly DEF Next, LoopStep, HandlerStep, Read, Reply, Zero, Write, Set, End,
           HasherStep, TakeJob, HashBlock, Publish, Break, Abort, HashFails, SendDoneFails,
           ReaderFails, vars, netVars
  <2> QED
    BY <2>1
<1> QED
  BY <1>3, <1>4, <1>5

LEMMA EndedStep ==
  ASSUME TypeOK, EndedIdle, [Next]_vars
  PROVE  EndedIdle'
<1>0. /\ worker \in [Workers -> [pc : {"idle", "ask", "reply", "ended"}, blk : Block,
                                try : 0 .. MaxRetries - 1]]
      /\ link \in [Agent -> Conn \cup {NoConn}] /\ Workers \subseteq Agent
  BY Typed
<1> SUFFICES ASSUME NEW w \in Workers, worker'[w].pc = "ended"
             PROVE  todo' = {} /\ link'[w] = NoConn
  BY DEF EndedIdle
<1>1. todo' \subseteq todo
  BY DeathOnly DEF Next, LoopStep, HandlerStep, Read, Reply, Zero, Write, Set, End, HasherStep,
         TakeJob, HashBlock, Publish, WorkerStep, Take, Ask, Compare, EndWorker, MainStep,
         SendDone, EndClient, AskFails, ReplyFails, Break, Abort, HashFails, SendDoneFails,
         ReaderFails, vars, clientVars
<1>2. CASE EndWorker(w)
  BY <1>0, <1>2 DEF EndWorker
<1>3. CASE Ask(w) \/ Compare(w) \/ AskFails(w) \/ ReplyFails(w)
  BY <1>3, BusyMoves
<1>4. CASE Take(w)
  BY <1>0, <1>4 DEF Take
<1>5. CASE ~WorkerStep(w) /\ ~AskFails(w) /\ ~ReplyFails(w)
  <2>1. worker'[w] = worker[w]
    <3>1. ASSUME NEW v \in Workers, v # w, WorkerStep(v) \/ AskFails(v) \/ ReplyFails(v)
          PROVE  worker'[w] = worker[w]
      <4>1. CASE Take(v) \/ EndWorker(v)
        BY <1>0, <3>1, <4>1 DEF Take, EndWorker
      <4> QED
        BY <3>1, <4>1, BusyMoves DEF WorkerStep
    <3>2. CASE ReaderFails
      BY <3>2 DEF ReaderFails
    <3> QED
      BY <1>5, <3>1, <3>2, BooksStill DEF WorkerStep
  <2>2. link'[w] = link[w]
    BY <1>5, LinkStill
  <2> QED
    BY <1>1, <2>1, <2>2 DEF EndedIdle
<1> QED
  BY <1>2, <1>3, <1>4, <1>5 DEF WorkerStep

LEMMA AssignedStep ==
  ASSUME TypeOK, Assigned, [Next]_vars
  PROVE  Assigned'
<1>0. /\ worker \in [Workers -> [pc : {"idle", "ask", "reply", "ended"}, blk : Block,
                                try : 0 .. MaxRetries - 1]]
      /\ outcome \in [Block -> Result] /\ todo \subseteq Block
      /\ LastSrc' = LastSrc
  <2>1. UNCHANGED src
    BY DeathOnly DEF Next, LoopStep, HandlerStep, Read, Reply, Zero, Write, Set, End, HasherStep,
           TakeJob, HashBlock, Publish, WorkerStep, Take, Ask, Compare, EndWorker, MainStep,
           SendDone, EndClient, AskFails, ReplyFails, Break, Abort, HashFails, SendDoneFails,
           ReaderFails, vars, fileVars, inputVars
  <2> QED
    BY <2>1, Typed DEF TypeOK, LastSrc
<1>1. CASE UNCHANGED <<todo, worker, outcome>>
  BY <1>0, <1>1 DEF Assigned, Busy
<1>2. ASSUME NEW w \in Workers, Take(w)
      PROVE  Assigned'
  <2>1. PICK b \in todo : /\ todo' = todo \ {b}
                          /\ worker' = [worker EXCEPT ![w] = [pc |-> "ask", blk |-> b, try |-> 0]]
    BY <1>2 DEF Take
  <2>2. /\ outcome' = outcome /\ ~Busy(w) /\ Busy(w)' /\ worker'[w].blk = b
        /\ \A v \in Workers : v # w => worker'[v] = worker[v]
    BY <1>0, <1>2, <2>1 DEF Take, Busy
  <2>3. \A v \in Workers : v # w => Busy(v)' = Busy(v)
    BY <2>2 DEF Busy
  <2>4. \A v \in Workers : Busy(v)' => outcome'[worker'[v].blk].what = "none"
                                       /\ worker'[v].blk \notin todo'
    BY <2>1, <2>2, <2>3 DEF Assigned
  <2>5. \A u, v \in Workers : Busy(u)' /\ Busy(v)' /\ worker'[u].blk = worker'[v].blk => u = v
    BY <2>1, <2>2, <2>3 DEF Assigned
  <2>6. ASSUME NEW a \in Block, a >= ClientSkip, a <= LastSrc, outcome'[a].what = "none"
        PROVE  a \in todo' \/ \E v \in Workers : Busy(v)' /\ worker'[v].blk = a
    <3>1. a \in todo \/ \E v \in Workers : Busy(v) /\ worker[v].blk = a
      BY <2>2, <2>6 DEF Assigned
    <3> QED
      BY <2>1, <2>2, <2>3, <3>1
  <2> QED
    BY <1>0, <2>1, <2>2, <2>4, <2>5, <2>6 DEF Assigned
<1>3. ASSUME NEW w \in Workers, Ask(w) \/ Compare(w) \/ AskFails(w) \/ ReplyFails(w)
      PROVE  Assigned'
  <2>0. /\ Busy(w) /\ todo' = todo
        /\ \A v \in Workers : v # w => worker'[v] = worker[v] /\ Busy(v)' = Busy(v)
    BY <1>3, BusyMoves DEF Busy
  <2>1. CASE Busy(w)' /\ worker'[w].blk = worker[w].blk /\ outcome' = outcome
    <3>1. \A v \in Workers : Busy(v)' = Busy(v) /\ worker'[v].blk = worker[v].blk
      BY <2>0, <2>1 DEF Busy
    <3> QED
      BY <1>0, <2>0, <2>1, <3>1 DEF Assigned
  <2>2. ASSUME NEW r \in Result, ~Busy(w)', r.what # "none",
               outcome' = [outcome EXCEPT ![worker[w].blk] = r]
        PROVE  Assigned'
    <3> DEFINE a == worker[w].blk
    <3>1. a \in Block /\ a \notin todo /\ \A v \in Workers : v # w /\ Busy(v) => worker[v].blk # a
      BY <1>0, <2>0 DEF Assigned
    <3>2. outcome'[a] = r /\ \A b \in Block : b # a => outcome'[b] = outcome[b]
      BY <1>0, <2>2, <3>1
    <3>3. \A b \in todo' : outcome'[b].what = "none"
      BY <1>0, <2>0, <3>1, <3>2 DEF Assigned
    <3>4. \A v \in Workers : Busy(v)' => outcome'[worker'[v].blk].what = "none"
                                         /\ worker'[v].blk \notin todo'
      BY <1>0, <2>0, <2>2, <3>1, <3>2 DEF Assigned
    <3>5. \A u, v \in Workers : Busy(u)' /\ Busy(v)' /\ worker'[u].blk = worker'[v].blk => u = v
      BY <2>0, <2>2 DEF Assigned
    <3>6. ASSUME NEW b \in Block, b >= ClientSkip, b <= LastSrc, outcome'[b].what = "none"
          PROVE  b \in todo' \/ \E v \in Workers : Busy(v)' /\ worker'[v].blk = b
      <4>1. b # a /\ outcome[b].what = "none"
        BY <2>2, <3>2, <3>6
      <4>2. b \in todo \/ \E v \in Workers : Busy(v) /\ worker[v].blk = b
        BY <3>6, <4>1 DEF Assigned
      <4> QED
        BY <2>0, <4>1, <4>2
    <3> QED
      BY <1>0, <3>3, <3>4, <3>5, <3>6 DEF Assigned
  <2> QED
    BY <1>3, <2>1, <2>2, BusyMoves
<1>4. ASSUME NEW w \in Workers, EndWorker(w)
      PROVE  Assigned'
  <2>1. /\ UNCHANGED <<todo, outcome>> /\ ~Busy(w) /\ ~Busy(w)'
        /\ \A v \in Workers : v # w => worker'[v] = worker[v]
    BY <1>0, <1>4 DEF EndWorker, Busy
  <2>2. \A v \in Workers : Busy(v)' = Busy(v) /\ (Busy(v) => worker'[v] = worker[v])
    BY <2>1 DEF Busy
  <2> QED
    BY <1>0, <2>1, <2>2 DEF Assigned
<1>5. CASE ReaderFails
  <2>1. PICK k \in todo : /\ todo' = {b \in todo : b < k}
                          /\ outcome' = [b \in Block |-> IF b \in todo /\ b >= k
                                           THEN [what |-> "unread", on |-> NoConn] ELSE outcome[b]]
    BY <1>5 DEF ReaderFails
  <2>2. worker' = worker /\ \A v \in Workers : Busy(v)' = Busy(v)
    BY <1>5 DEF ReaderFails, Busy
  <2>3. /\ todo' \subseteq todo
        /\ \A b \in Block : b \notin todo \/ b \in todo' => outcome'[b] = outcome[b]
        /\ \A b \in todo : b \in todo' \/ outcome'[b].what = "unread"
    <3>1. todo \subseteq Nat
      BY <1>0, Sizes
    <3> QED
      BY <1>0, <2>1, <3>1
  <2>4. \A v \in Workers : Busy(v)' => outcome'[worker'[v].blk].what = "none"
                                       /\ worker'[v].blk \notin todo'
    BY <1>0, <2>2, <2>3 DEF Assigned
  <2>5. ASSUME NEW b \in Block, b >= ClientSkip, b <= LastSrc, outcome'[b].what = "none"
        PROVE  b \in todo' \/ \E v \in Workers : Busy(v)' /\ worker'[v].blk = b
    BY <2>2, <2>3, <2>5 DEF Assigned
  <2> QED
    BY <1>0, <2>2, <2>3, <2>4, <2>5 DEF Assigned
<1> QED
  BY <1>1, <1>2, <1>3, <1>4, <1>5, BooksStill

---------------------------------------------------------------------------
(* DONE as a barrier.                                                      *)

\* Block b went out on connection c.
Sent(b, c) == outcome[b].what = "sent" /\ outcome[b].on = c

\* DONE is on its way to the server on connection d.
DoneOn(d) == \/ handler[d].msg.kind = "done"
             \/ \E i \in 1 .. Len(c2s[d]) : c2s[d][i].kind = "done"

\* The server's side of the connection still handles what comes.
Alive == {"queued", "offered", "serving"}

\* Before it sends DONE the main goroutine has no connection, and nobody has seen a DONE.
DoneUnsent ==
  main = "waiting" => link[Main] = NoConn /\ ~doneReceived /\ \A d \in Conn : ~DoneOn(d)

\* It sends DONE after all workers ended.
DoneLast == main # "waiting" => \A w \in Workers : worker[w].pc = "ended"

\* Blocks are sent on connections that exist.
SentUsed ==
  \A b \in Block :
    outcome[b].what = "sent" => outcome[b].on \in Conn /\ stage[outcome[b].on] # "unused"

\* DONE travels on a later connection than any block,
DoneBehind == \A d \in Conn : DoneOn(d) => \A b \in Block, c \in Conn : Sent(b, c) => c < d

\* and the server that knows of it has come to that connection.
DoneServed ==
  doneReceived => \E d \in Conn : /\ stage[d] \in Served
                                  /\ \A b \in Block, c \in Conn : Sent(b, c) => c < d

\* What the shutdown takes: DONE.
DoneKnown ==
  timer["shutdown"] = "armed" \/ server = "doneExit" \/ (\E c \in Conn : stage[c] = "arming")
    => doneReceived

Barrier == DoneUnsent /\ DoneLast /\ SentUsed /\ DoneBehind /\ DoneServed /\ DoneKnown

\* Nothing stops a handler half way through its stream but a broken connection.
Intact ==
  /\ \A c \in Conn : stage[c] \in Alive /\ handler[c].pc = "end" => c \in broken
  /\ \A c \in Conn : \A i \in 1 .. Len(c2s[c]) : c2s[c][i].kind = "header" => c \in broken
  /\ \A w \in Workers : link[w] # NoConn /\ stage[link[w]] \notin Alive => link[w] \in broken

\* A block that was sent and has not come over a connection that holds: the stream or the handler
\* has it.
Coming(b, c) ==
  /\ stage[c] \in Alive
  /\ \/ handler[c].msg.blk = b /\ handler[c].pc \in {"write", "waitZero", "writeZero"}
     \/ \E i \in 1 .. Len(c2s[c]) : c2s[c][i].blk = b /\ c2s[c][i].kind \in {"zero", "data"}

Delivered ==
  server = "running" =>
    \A b \in Block, c \in Conn : Sent(b, c) => c \in broken \/ InSync(b) \/ Coming(b, c)

\* A block that comes, or is in a handler's hand, was sent there.
Carries(b, c) ==
  \/ handler[c].msg.blk = b /\ handler[c].msg.kind \in {"zero", "data"}
  \/ \E i \in 1 .. Len(c2s[c]) : c2s[c][i].blk = b /\ c2s[c][i].kind \in {"zero", "data"}

Announced == \A b \in Block, c \in Conn : Carries(b, c) => Sent(b, c)

---------------------------------------------------------------------------
LEMMA InitBooks == Init => Assigned /\ EndedIdle /\ Barrier /\ Intact /\ Delivered /\ Announced
<1> SUFFICES ASSUME Init
             PROVE  Assigned /\ EndedIdle /\ Barrier /\ Intact /\ Delivered /\ Announced
  OBVIOUS
<1>1. /\ \A b \in Block : outcome[b].what = "none" /\ \A c \in Conn : ~Sent(b, c)
      /\ \A w \in Workers : worker[w].pc = "idle" /\ ~Busy(w)
      /\ todo = ClientSkip .. LastSrc /\ todo \subseteq Block /\ Block \subseteq Nat
  BY InitType, Sizes DEF Init, Sent, Busy, TypeOK
<1>2. \A c \in Conn : ~DoneOn(c) /\ c2s[c] = <<>> /\ handler[c].pc = "read" /\ stage[c] = "unused"
  BY DEF Init, LoopInit, DoneOn, NoMsg
<1>3. Assigned
  <2>1. ClientSkip \in Nat /\ LastSrc \in Nat
    BY UploadAssumption, InitType, SourceFacts, Sizes
  <2>2. \A b \in Block : b >= ClientSkip /\ b <= LastSrc => b \in todo
    BY <1>1, <2>1
  <2> QED
    BY <1>1, <2>2 DEF Assigned
<1>4. EndedIdle /\ Delivered
  BY <1>1 DEF EndedIdle, Delivered
<1>5. Intact
  <2>1. \A w \in Workers : link[w] = NoConn
    BY DEF Init, Agent
  <2> QED
    BY <1>2, <2>1 DEF Intact, Alive
<1>6. Barrier
  <2>1. /\ main = "waiting" /\ link[Main] = NoConn /\ ~doneReceived /\ server = "running"
        /\ timer["shutdown"] = "stopped"
    BY DEF Init, LoopInit, Agent, Timer
  <2> QED
    BY <1>1, <1>2, <2>1 DEF Barrier, DoneUnsent, DoneLast, SentUsed, DoneBehind, DoneServed,
                            DoneKnown
<1>7. Announced
  <2>1. \A c \in Conn : handler[c].msg.kind = "none"
    BY DEF Init, NoMsg
  <2> QED
    BY <1>2, <2>1 DEF Announced, Carries
<1> QED
  BY <1>3, <1>4, <1>5, <1>6, <1>7

\* A connection the server still handles leaves only when its handler ends or meets DONE.
LEMMA AliveStays ==
  ASSUME TypeOK, [Next]_vars, NEW c \in Conn, stage[c] \in Alive
  PROVE  \/ stage'[c] \in Alive
         \/ End(c)
         \/ Reply(c) /\ handler[c].msg.kind = "done"
<1>0. stage \in [Conn -> Stage]
  BY Typed
<1>1. CASE UNCHANGED stage
  BY <1>1
<1>2. ASSUME NEW d \in Conn, Connect(d)
      PROVE  stage'[c] \in Alive
  BY <1>0, <1>2 DEF Connect, Goto, Alive
<1>3. CASE LoopStep
  <2>1. CASE Accept
    <3>1. \E d : stage' = [stage EXCEPT ![d] = "offered"]
      BY <2>1 DEF Accept, Goto
    <3> QED
      BY <1>0, <3>1 DEF Alive
  <2>2. CASE \E d \in Conn : Receive(d)
    BY <1>0, <2>2 DEF Receive, Goto, Alive
  <2>3. CASE \E d \in Conn : Epilogue(d)
    BY <1>0, <2>3 DEF Epilogue, ArmShutdown, CheckDone, CheckIdle, Leave, Goto, Alive
  <2>4. CASE \E t \in Timer : Fire(t)
    BY <2>4 DEF Fire
  <2> QED
    BY <1>3, <2>1, <2>2, <2>3, <2>4 DEF LoopStep
<1>4. ASSUME NEW d \in Conn, End(d), d # c
      PROVE  stage'[c] \in Alive
  BY <1>0, <1>4 DEF End, Return, Goto
<1>5. ASSUME NEW d \in Conn, Reply(d)
      PROVE  stage'[c] \in Alive \/ (d = c /\ handler[c].msg.kind = "done")
  <2>1. CASE StoreDone(d) /\ handler[d].msg.kind = "done"
    BY <1>0, <2>1 DEF StoreDone, Goto
  <2>2. CASE UNCHANGED loopVars
    BY <2>2 DEF loopVars
  <2> QED
    BY <1>5, <2>1, <2>2 DEF Reply
<1>6. CASE \/ \E w \in Workers : Ask(w)
           \/ SendDone
  <2>1. (\E d \in Conn : Connect(d)) \/ UNCHANGED loopVars
    BY <1>6 DEF Ask, SendDone, Transmit
  <2> QED
    BY <1>2, <2>1 DEF loopVars
<1>7. CASE /\ ~LoopStep /\ ~SendDone /\ \A w \in Workers : ~Ask(w)
           /\ \A d \in Conn : ~End(d) /\ ~Reply(d)
  <2>1. UNCHANGED stage
    BY <1>7, DeathOnly DEF Next, HandlerStep, Read, Zero, Write, Set, HasherStep, TakeJob,
           HashBlock, Publish, WorkerStep, Take, Compare, EndWorker, MainStep, EndClient, AskFails,
           ReplyFails, Break, Abort, HashFails, SendDoneFails, ReaderFails, vars, loopVars
  <2> QED
    BY <2>1
<1> QED
  BY <1>3, <1>4, <1>5, <1>6, <1>7

\* The server learns of DONE from a handler that has it in hand.
LEMMA DoneSource ==
  ASSUME TypeOK, [Next]_vars, doneReceived' # doneReceived
  PROVE  \E d \in Conn : DoneOn(d) /\ stage'[d] = "arming" /\ UNCHANGED outcome
<1>0. stage \in [Conn -> Stage]
  BY Typed
<1>1. ASSUME NEW d \in Conn, Reply(d)
      PROVE  DoneOn(d) /\ stage'[d] = "arming" /\ UNCHANGED outcome
  <2>1. CASE UNCHANGED loopVars
    BY <2>1 DEF loopVars
  <2>2. CASE StoreDone(d) /\ handler[d].msg.kind = "done"
    BY <1>0, <1>1, <2>2 DEF StoreDone, Goto, DoneOn, Reply, clientVars
  <2> QED
    BY <1>1, <2>1, <2>2 DEF Reply
<1>2. CASE \A d \in Conn : ~Reply(d)
  BY <1>2, DeathOnly DEF Next, LoopStep, Accept, Receive, Epilogue, ArmShutdown, CheckDone,
         CheckIdle, Leave, Fire, HandlerStep, Read, Zero, Write, Set, End, Return, HasherStep,
         TakeJob, HashBlock, Publish, WorkerStep, Take, Ask, Transmit, Connect, Compare, EndWorker,
         MainStep, SendDone, EndClient, AskFails, ReplyFails, Break, Abort, HashFails,
         SendDoneFails, ReaderFails, vars, loopVars
<1> QED
  BY <1>1, <1>2

\* A block is sent when a worker has compared it.
LEMMA SentSource ==
  ASSUME TypeOK, [Next]_vars, NEW b \in Block, NEW c, Sent(b, c)'
  PROVE  \/ Sent(b, c)
         \/ \E w \in Workers : Compare(w) /\ link[w] = c /\ worker[w].blk = b
<1>0. outcome \in [Block -> Result]
  BY DEF TypeOK
<1>1. ASSUME NEW w \in Workers, Ask(w) \/ Compare(w) \/ AskFails(w) \/ ReplyFails(w)
      PROVE  Sent(b, c) \/ (Compare(w) /\ link[w] = c /\ worker[w].blk = b)
  <2>1. CASE outcome' = outcome
    BY <2>1 DEF Sent
  <2>2. ASSUME NEW r \in Result, r.what = "sent" => Compare(w) /\ r.on = link[w],
               outcome' = [outcome EXCEPT ![worker[w].blk] = r]
        PROVE  Sent(b, c) \/ (Compare(w) /\ link[w] = c /\ worker[w].blk = b)
    BY <1>0, <2>2 DEF Sent
  <2> QED
    BY <1>1, <2>1, <2>2, BusyMoves
<1>2. CASE ReaderFails
  BY <1>0, <1>2 DEF ReaderFails, Sent
<1>3. ASSUME NEW w \in Workers, Take(w) \/ EndWorker(w)
      PROVE  Sent(b, c)
  BY <1>3 DEF Take, EndWorker, Sent
<1>4. CASE UNCHANGED outcome
  BY <1>4 DEF Sent
<1> QED
  BY <1>1, <1>2, <1>3, <1>4, BooksStill

\* Once the main goroutine is past the workers, they are all over.
LEMMA AllEnded ==
  ASSUME TypeOK, DoneLast, [Next]_vars, main # "waiting", NEW w \in Workers
  PROVE  /\ worker[w].pc = "ended" /\ worker'[w].pc = "ended"
         /\ ~WorkerStep(w) /\ ~AskFails(w) /\ ~ReplyFails(w)
<1>1. worker[w].pc = "ended"
  BY DEF DoneLast
<1>2. \A v \in Workers : ~WorkerStep(v) /\ ~AskFails(v) /\ ~ReplyFails(v)
  BY DEF DoneLast, WorkerStep, Take, Ask, Compare, EndWorker, AskFails, ReplyFails
<1>3. worker' = worker
  <2>1. CASE ReaderFails
    BY <2>1 DEF ReaderFails
  <2> QED
    BY <1>2, <2>1, BooksStill DEF WorkerStep
<1> QED
  BY <1>1, <1>2, <1>3

\* After that nothing is sent any more.
LEMMA NothingSent ==
  ASSUME TypeOK, DoneLast, [Next]_vars, main # "waiting",
         NEW b \in Block, NEW c \in Conn, Sent(b, c)'
  PROVE  Sent(b, c)
<1>1. \A w \in Workers : ~Compare(w)
  BY AllEnded DEF WorkerStep
<1> QED
  BY <1>1, SentSource

\* A DONE on a connection was there before, or leaves now on a new one.
LEMMA DoneComes ==
  ASSUME TypeOK, DoneUnsent, [Next]_vars, NEW d \in Conn, DoneOn(d)'
  PROVE  DoneOn(d) \/ (SendDone /\ Connect(d))
<1>1. CASE handler'[d].msg.kind = "done"
  <2>1. \/ handler'[d].msg \in {handler[d].msg, NoMsg}
        \/ 1 \in 1 .. Len(c2s[d]) /\ handler'[d].msg = c2s[d][1]
    BY HandSource
  <2>2. NoMsg.kind = "none"
    BY DEF NoMsg
  <2> QED
    BY <1>1, <2>1, <2>2 DEF DoneOn
<1>2. ASSUME NEW i \in 1 .. Len(c2s'[d]), c2s'[d][i].kind = "done"
      PROVE  DoneOn(d) \/ (SendDone /\ Connect(d))
  <2>1. Comes(d, c2s'[d][i])
    BY StreamSource
  <2>2. \A k, b : Msg(k, b).kind = k
    BY DEF Msg
  <2>3. SendDone => link[Main] = NoConn
    BY DEF SendDone, DoneUnsent
  <2> QED
    BY <1>2, <2>1, <2>2, <2>3 DEF Comes, DoneOn
<1> QED
  BY <1>1, <1>2 DEF DoneOn

\* Only the main goroutine's own steps change its connection and its state.
LEMMA MainStill ==
  ASSUME TypeOK, [Next]_vars, main' = "waiting"
  PROVE  main = "waiting" /\ link'[Main] = link[Main] /\ ~SendDone
<1>0. link \in [Agent -> Conn \cup {NoConn}] /\ Main \in Agent /\ Main \notin Workers
  BY Typed
<1>1. ASSUME NEW v \in Workers, WorkerStep(v) \/ AskFails(v) \/ ReplyFails(v)
      PROVE  main' = main /\ link'[Main] = link[Main]
  <2>0. v # Main /\ v \in Agent
    BY <1>0, Typed
  <2>1. CASE Ask(v)
    BY <1>0, <2>0, <2>1 DEF Ask, Transmit
  <2>2. CASE Compare(v)
    BY <1>0, <2>0, <2>2, RetryFacts DEF Compare
  <2>3. CASE AskFails(v) \/ ReplyFails(v)
    BY <1>0, <2>0, <2>3, RetryFacts DEF AskFails, ReplyFails
  <2>4. CASE Take(v) \/ EndWorker(v)
    BY <1>0, <2>0, <2>4 DEF Take, EndWorker, netVars
  <2> QED
    BY <1>1, <2>1, <2>2, <2>3, <2>4 DEF WorkerStep
<1>2. CASE MainStep \/ SendDoneFails
  BY <1>2 DEF MainStep, SendDone, EndClient, SendDoneFails
<1>3. CASE ~MainStep /\ ~SendDoneFails
           /\ \A v \in Workers : ~WorkerStep(v) /\ ~AskFails(v) /\ ~ReplyFails(v)
  <2>1. UNCHANGED <<link, main>>
    BY <1>3, DeathOnly DEF Next, LoopStep, HandlerStep, Read, Reply, Zero, Write, Set, End, HasherStep,
       TakeJob, HashBlock, Publish, Break, Abort, HashFails, ReaderFails, vars, netVars,
       clientVars
  <2> QED
    BY <1>3, <2>1 DEF MainStep
<1>4. ~SendDone
  BY DEF SendDone
<1> QED
  BY <1>1, <1>2, <1>3, <1>4

\* A connection that has reached its handler stays served.
LEMMA ServedStays ==
  ASSUME LoopInv, [LoopNext]_loopVars, NEW d \in Conn, stage[d] \in Served
  PROVE  stage'[d] \in Served
<1>0. /\ stage \in [Conn -> Stage] /\ backlog \in Seq(Conn)
      /\ "queued" \notin Served /\ "offered" \notin Served /\ "unused" \notin Served
  BY DEF LoopInv, LoopTypeOK, Served, Counted
<1>1. CASE Accept
  <2> DEFINE e == Head(backlog)
  <2>1. backlog # <<>> /\ stage' = [stage EXCEPT ![e] = "offered"]
    BY <1>1 DEF Accept, Goto
  <2>2. Len(backlog) >= 1 /\ e = backlog[1] /\ 1 \in 1 .. Len(backlog)
    BY <1>0, <2>1, TailFacts
  <2>3. stage[e] = "queued"
    BY <2>2 DEF LoopInv, Queue
  <2> HIDE DEF e
  <2> QED
    BY <1>0, <2>1, <2>3
<1>2. ASSUME NEW c \in Conn, Connect(c) \/ Receive(c) \/ Return(c) \/ StoreDone(c)
      PROVE  stage'[d] \in Served
  BY <1>0, <1>2 DEF Connect, Receive, Return, StoreDone, Goto, Served, Counted
<1>3. ASSUME NEW c \in Conn, ArmShutdown(c) \/ CheckDone(c) \/ CheckIdle(c) \/ Leave(c)
      PROVE  stage'[d] \in Served
  BY <1>0, <1>3 DEF ArmShutdown, CheckDone, CheckIdle, Leave, Goto, Served, Counted
<1>4. CASE \/ (\E t \in Timer : Fire(t)) \/ AcceptError
           \/ (\E c \in Conn : TruncateError(c)) \/ UNCHANGED loopVars
  BY <1>4 DEF Fire, AcceptError, TruncateError, loopVars
<1> QED
  BY <1>1, <1>2, <1>3, <1>4 DEF LoopNext

\* The shutdown timer is armed by those who stored DONE.
LEMMA DoneKnownStep ==
  ASSUME TypeOK, DoneKnown, [LoopNext]_loopVars
  PROVE  DoneKnown'
<1>0. /\ stage \in [Conn -> Stage] /\ timer \in [Timer -> {"stopped", "armed"}]
      /\ doneReceived \in BOOLEAN /\ "shutdown" \in Timer
  BY Typed DEF TypeOK, LoopTypeOK, Timer
<1>1. CASE Accept
  <2>1. PICK d : stage' = [stage EXCEPT ![d] = "offered"]
    BY <1>1 DEF Accept, Goto
  <2>2. \A c \in Conn : stage'[c] = "arming" => stage[c] = "arming"
    BY <1>0, <2>1
  <2>3. UNCHANGED <<doneReceived, timer, server>>
    BY <1>1 DEF Accept
  <2> QED
    BY <2>2, <2>3 DEF DoneKnown
<1>2. ASSUME NEW c \in Conn, Connect(c) \/ Receive(c) \/ Return(c)
      PROVE  DoneKnown'
  <2>1. \A d \in Conn : stage'[d] = "arming" => stage[d] = "arming"
    BY <1>0, <1>2 DEF Connect, Receive, Return, Goto
  <2>2. timer'["shutdown"] \in {timer["shutdown"], "stopped"} /\ UNCHANGED <<doneReceived, server>>
    BY <1>0, <1>2 DEF Connect, Receive, Return
  <2> QED
    BY <2>1, <2>2 DEF DoneKnown
<1>3. ASSUME NEW c \in Conn, ArmShutdown(c) \/ CheckDone(c) \/ CheckIdle(c) \/ Leave(c)
      PROVE  DoneKnown'
  <2>1. \A d \in Conn : stage'[d] = "arming" => stage[d] = "arming"
    BY <1>0, <1>3 DEF ArmShutdown, CheckDone, CheckIdle, Leave, Goto
  <2>2. /\ timer'["shutdown"] = timer["shutdown"] \/ stage[c] = "arming"
        /\ UNCHANGED <<doneReceived, server>>
    BY <1>0, <1>3 DEF ArmShutdown, CheckDone, CheckIdle, Leave
  <2> QED
    BY <2>1, <2>2 DEF DoneKnown
<1>4. ASSUME NEW t \in Timer, Fire(t)
      PROVE  DoneKnown'
  <2>1. UNCHANGED <<stage, doneReceived>>
    BY <1>4 DEF Fire
  <2>2. CASE t = "idle"
    <3>1. timer'["shutdown"] = timer["shutdown"] /\ server' \in {server, "idleExit"}
      BY <1>0, <1>4, <2>2 DEF Fire
    <3> QED
      BY <2>1, <3>1 DEF DoneKnown
  <2>3. CASE t = "shutdown"
    <3>1. doneReceived
      BY <1>4, <2>3 DEF Fire, DoneKnown
    <3> QED
      BY <2>1, <3>1 DEF DoneKnown
  <2> QED
    BY <2>2, <2>3 DEF Timer
<1>5. ASSUME NEW c \in Conn, StoreDone(c)
      PROVE  DoneKnown'
  BY <1>5 DEF StoreDone, DoneKnown
<1>6. CASE AcceptError \/ (\E c \in Conn : TruncateError(c)) \/ UNCHANGED loopVars
  BY <1>6 DEF AcceptError, TruncateError, loopVars, DoneKnown
<1> QED
  BY <1>1, <1>2, <1>3, <1>4, <1>5, <1>6 DEF LoopNext

LEMMA BarrierStep ==
  ASSUME Shape, Framing, Barrier, [Next]_vars
  PROVE  Barrier'
<1>0. /\ TypeOK /\ LoopInv /\ [LoopNext]_loopVars /\ stage \in [Conn -> Stage]
      /\ DoneUnsent /\ DoneLast /\ SentUsed /\ DoneBehind /\ DoneServed /\ DoneKnown
  BY LoopSim, Typed DEF Shape, Barrier
<1>1. DoneUnsent'
  <2> SUFFICES ASSUME main' = "waiting"
               PROVE  link'[Main] = NoConn /\ ~doneReceived' /\ \A d \in Conn : ~DoneOn(d)'
    BY DEF DoneUnsent
  <2>1. main = "waiting" /\ link'[Main] = link[Main] /\ ~SendDone
    BY <1>0, MainStill
  <2>2. \A d \in Conn : ~DoneOn(d)'
    BY <1>0, <2>1, DoneComes DEF DoneUnsent
  <2>3. doneReceived' = doneReceived
    BY <1>0, <2>1, DoneSource DEF DoneUnsent
  <2> QED
    BY <1>0, <2>1, <2>2, <2>3 DEF DoneUnsent
<1>2. DoneLast'
  <2>1. CASE main # "waiting"
    BY <1>0, <2>1, AllEnded DEF DoneLast
  <2>2. CASE SendDone \/ SendDoneFails
    BY <2>2 DEF SendDone, SendDoneFails, DoneLast
  <2>3. CASE main = "waiting" /\ ~SendDone /\ ~SendDoneFails
    <3>1. main' = main
      BY <2>3, DeathOnly DEF Next, LoopStep, HandlerStep, Read, Reply, Zero, Write, Set, End,
             HasherStep, TakeJob, HashBlock, Publish, WorkerStep, Take, Ask, Compare, EndWorker,
             MainStep, EndClient, AskFails, ReplyFails, Break, Abort, HashFails, ReaderFails, vars,
             clientVars
    <3> QED
      BY <2>3, <3>1 DEF DoneLast
  <2> QED
    BY <2>1, <2>2, <2>3
<1>3. SentUsed'
  <2> SUFFICES ASSUME NEW b \in Block, NEW c, Sent(b, c)'
               PROVE  c \in Conn /\ stage'[c] # "unused"
    BY DEF SentUsed, Sent
  <2>1. c \in Conn /\ stage[c] # "unused"
    <3>1. CASE Sent(b, c)
      BY <1>0, <3>1 DEF SentUsed, Sent
    <3>2. ASSUME NEW w \in Workers, Compare(w), link[w] = c
          PROVE  c \in Conn /\ stage[c] # "unused"
      BY <1>0, <3>2, Typed DEF Framing, Links, Compare
    <3> QED
      BY <1>0, <3>1, <3>2, SentSource
  <2> QED
    BY <1>0, <2>1, UsedStays
<1>4. ASSUME NEW d \in Conn, DoneOn(d), NEW b \in Block, NEW c \in Conn, Sent(b, c)'
      PROVE  c < d
  <2>1. main # "waiting"
    BY <1>0, <1>4 DEF DoneUnsent
  <2>2. Sent(b, c)
    BY <1>0, <1>4, <2>1, NothingSent
  <2> QED
    BY <1>0, <1>4, <2>2 DEF DoneBehind
<1>5. DoneBehind'
  <2> SUFFICES ASSUME NEW d \in Conn, DoneOn(d)', NEW b \in Block, NEW c \in Conn, Sent(b, c)'
               PROVE  c < d
    BY DEF DoneBehind
  <2>1. CASE DoneOn(d)
    BY <1>4, <2>1
  <2>2. CASE SendDone /\ Connect(d)
    <3>1. Sent(b, c)
      BY <2>2 DEF SendDone, Sent
    <3>2. stage[c] # "unused" /\ stage[d] = "unused"
      BY <1>0, <2>2, <3>1 DEF SentUsed, Sent, Connect
    <3>3. ~(d < c)
      BY <1>0, <3>2 DEF LoopInv, Arrival
    <3> QED
      BY <3>2, <3>3 DEF Conn
  <2> QED
    BY <1>0, <2>1, <2>2, DoneComes
<1>6. DoneServed'
  <2> SUFFICES ASSUME doneReceived'
               PROVE  \E d \in Conn : /\ stage'[d] \in Served
                                      /\ \A b \in Block, c \in Conn : Sent(b, c)' => c < d
    BY DEF DoneServed
  <2>1. CASE doneReceived
    <3>1. PICK d \in Conn : /\ stage[d] \in Served
                            /\ \A b \in Block, c \in Conn : Sent(b, c) => c < d
      BY <1>0, <2>1 DEF DoneServed
    <3>2. main # "waiting"
      BY <1>0, <2>1 DEF DoneUnsent
    <3>3. stage'[d] \in Served
      BY <1>0, <3>1, ServedStays
    <3> QED
      BY <1>0, <3>1, <3>2, <3>3, NothingSent
  <2>2. CASE ~doneReceived
    <3>1. PICK d \in Conn : DoneOn(d) /\ stage'[d] = "arming"
      BY <1>0, <2>2, DoneSource
    <3> QED
      BY <1>4, <3>1 DEF Served, Counted
  <2> QED
    BY <2>1, <2>2
<1>7. DoneKnown'
  BY <1>0, DoneKnownStep
<1> QED
  BY <1>1, <1>2, <1>3, <1>5, <1>6, <1>7 DEF Barrier

---------------------------------------------------------------------------
(* What was sent arrives, or its connection is lost.                       *)

\* A handled connection was handled before, or is new.
LEMMA AliveSource ==
  ASSUME LoopInv, [LoopNext]_loopVars, NEW c \in Conn, stage'[c] \in Alive
  PROVE  stage[c] \in Alive \/ stage[c] = "unused"
<1>0. stage \in [Conn -> Stage] /\ backlog \in Seq(Conn)
  BY DEF LoopInv, LoopTypeOK
<1>1. CASE Accept
  <2> DEFINE e == Head(backlog)
  <2>1. backlog # <<>> /\ stage' = [stage EXCEPT ![e] = "offered"]
    BY <1>1 DEF Accept, Goto
  <2>2. Len(backlog) >= 1 /\ e = backlog[1] /\ 1 \in 1 .. Len(backlog)
    BY <1>0, <2>1, TailFacts
  <2>3. stage[e] = "queued"
    BY <2>2 DEF LoopInv, Queue
  <2> HIDE DEF e
  <2> QED
    BY <1>0, <2>1, <2>3 DEF Alive
<1>2. ASSUME NEW d \in Conn, Connect(d) \/ Receive(d) \/ Return(d) \/ StoreDone(d)
      PROVE  stage[c] \in Alive \/ stage[c] = "unused"
  BY <1>0, <1>2 DEF Connect, Receive, Return, StoreDone, Goto, Alive
<1>3. ASSUME NEW d \in Conn, ArmShutdown(d) \/ CheckDone(d) \/ CheckIdle(d) \/ Leave(d)
      PROVE  stage[c] \in Alive
  BY <1>0, <1>3 DEF ArmShutdown, CheckDone, CheckIdle, Leave, Goto, Alive
<1>4. CASE \/ (\E t \in Timer : Fire(t)) \/ AcceptError
           \/ (\E d \in Conn : TruncateError(d)) \/ UNCHANGED loopVars
  BY <1>4 DEF Fire, AcceptError, TruncateError, loopVars
<1> QED
  BY <1>1, <1>2, <1>3, <1>4 DEF LoopNext

\* Only a connection's own handler moves it.
LEMMA HandlerStill ==
  ASSUME TypeOK, [Next]_vars, NEW c \in Conn, ~HandlerStep(c), ~Abort(c)
  PROVE  handler'[c] = handler[c]
<1>0. handler \in [Conn -> [pc : HandlerPc, msg : Message, last : {0, LastSrc}]]
  BY Typed
<1>1. ASSUME NEW d \in Conn, d # c, HandlerStep(d) \/ Abort(d)
      PROVE  handler'[c] = handler[c]
  BY <1>0, <1>1 DEF HandlerStep, Read, Reply, Zero, Write, Set, End, Abort, NextMessage
<1>2. CASE \A d \in Conn : ~HandlerStep(d) /\ ~Abort(d)
  <2>1. UNCHANGED handler
    BY <1>2, DeathOnly DEF Next, LoopStep, HasherStep, TakeJob, HashBlock, Publish, WorkerStep,
           Take, Ask, Compare, EndWorker, MainStep, SendDone, EndClient, AskFails, ReplyFails,
           Break, HashFails, SendDoneFails, ReaderFails, vars
  <2> QED
    BY <2>1
<1> QED
  BY <1>1, <1>2

\* Connections that broke stay broken.
LEMMA BrokenGrows == [Next]_vars => broken \subseteq broken'
BY DeathOnly DEF Next, LoopStep, HandlerStep, Read, Reply, Zero, Write, Set, End, HasherStep,
       TakeJob, HashBlock, Publish, WorkerStep, Take, Ask, Compare, EndWorker, MainStep, SendDone,
       EndClient, AskFails, ReplyFails, Break, Abort, HashFails, SendDoneFails, ReaderFails, vars,
       netVars

\* A handler comes to its end with the connection, or the connection is broken.
LEMMA EndSource ==
  ASSUME TypeOK, Intact, [Next]_vars, NEW c \in Conn, handler'[c].pc = "end"
  PROVE  handler[c].pc = "end" \/ End(c) \/ c \in broken'
<1>0. /\ handler \in [Conn -> [pc : HandlerPc, msg : Message, last : {0, LastSrc}]]
      /\ c2s \in [Conn -> Seq(Message)] /\ broken \subseteq broken'
  BY Typed, BrokenGrows
<1>1. CASE Read(c)
  <2>1. c2s[c] # <<>> /\ Head(c2s[c]).kind = "header"
    BY <1>0, <1>1 DEF Read
  <2>2. 1 \in 1 .. Len(c2s[c]) /\ c2s[c][1].kind = "header"
    BY <1>0, <2>1, TailFacts
  <2> QED
    BY <1>0, <2>2 DEF Intact
<1>2. CASE Reply(c)
  BY <1>0, <1>2 DEF Reply, NextMessage
<1>3. CASE Zero(c) \/ Write(c) \/ Set(c)
  BY <1>0, <1>3 DEF Zero, Write, Set, NextMessage
<1>4. CASE Abort(c)
  BY <1>4 DEF Abort
<1>5. CASE ~HandlerStep(c) /\ ~Abort(c)
  BY <1>5, HandlerStill
<1> QED
  BY <1>1, <1>2, <1>3, <1>4, <1>5 DEF HandlerStep

\* A worker gets a connection by dialling.
LEMMA LinkSource ==
  ASSUME TypeOK, [Next]_vars, NEW w \in Workers
  PROVE  link'[w] \in {link[w], NoConn} \/ (link'[w] \in Conn /\ Connect(link'[w]))
<1>0. link \in [Agent -> Conn \cup {NoConn}] /\ w \in Agent
  BY Typed
<1>1. CASE Ask(w)
  BY <1>0, <1>1 DEF Ask, Transmit
<1>2. CASE Compare(w)
  BY <1>0, <1>2, RetryFacts DEF Compare
<1>3. CASE AskFails(w) \/ ReplyFails(w)
  BY <1>0, <1>3, RetryFacts DEF AskFails, ReplyFails
<1>4. CASE Take(w) \/ EndWorker(w)
  BY <1>0, <1>4 DEF Take, EndWorker, netVars
<1>5. CASE ~WorkerStep(w) /\ ~AskFails(w) /\ ~ReplyFails(w)
  BY <1>5, LinkStill
<1> QED
  BY <1>1, <1>2, <1>3, <1>4, <1>5 DEF WorkerStep

LEMMA IntactStep ==
  ASSUME Shape, Framing, EndedIdle, Barrier, Intact, [Next]_vars
  PROVE  Intact'
<1>0. /\ TypeOK /\ LoopInv /\ [LoopNext]_loopVars /\ broken \subseteq broken'
      /\ stage \in [Conn -> Stage] /\ NoConn \notin Conn
      /\ link \in [Agent -> Conn \cup {NoConn}] /\ Workers \subseteq Agent
  BY LoopSim, Typed, BrokenGrows DEF Shape
<1>1. ASSUME NEW c \in Conn, stage'[c] \in Alive, handler'[c].pc = "end"
      PROVE  c \in broken'
  <2>1. CASE handler[c].pc = "end"
    <3>1. stage[c] # "unused"
      BY <2>1 DEF Framing, Links
    <3>2. stage[c] \in Alive
      BY <1>0, <1>1, <3>1, AliveSource
    <3> QED
      BY <1>0, <2>1, <3>2 DEF Intact
  <2>2. CASE End(c)
    <3>1. stage'[c] = "checkDone"
      BY <1>0, <2>2 DEF End, Return, Goto
    <3> QED
      BY <1>1, <3>1 DEF Alive
  <2> QED
    BY <1>0, <1>1, <2>1, <2>2, EndSource
<1>2. ASSUME NEW c \in Conn, NEW i \in 1 .. Len(c2s'[c]), c2s'[c][i].kind = "header"
      PROVE  c \in broken'
  <2>1. Comes(c, c2s'[c][i])
    BY <1>0, StreamSource
  <2>2. \A k, b : Msg(k, b).kind = k
    BY DEF Msg
  <2>3. Break(c) => c \in broken'
    BY DEF Break
  <2> QED
    BY <1>0, <1>2, <2>1, <2>2, <2>3 DEF Comes, Intact
<1>3. ASSUME NEW w \in Workers, NEW c \in Conn, link'[w] = c, stage'[c] \notin Alive
      PROVE  c \in broken'
  <2>0. c # NoConn
    BY <1>0
  <2>1. ~Connect(c)
    BY <1>0, <1>3 DEF Connect, Goto, Alive
  <2>2. link[w] = c
    BY <1>0, <1>3, <2>0, <2>1, LinkSource
  <2>3. CASE stage[c] \notin Alive
    BY <1>0, <2>0, <2>2, <2>3 DEF Intact
  <2>4. CASE End(c) /\ stage[c] \in Alive
    <3>1. ~Closed(c)
      BY <1>0, <2>2 DEF Closed
    <3>2. handler[c].pc = "end" \/ c \in broken
      BY <2>4, <3>1 DEF End, Running
    <3> QED
      BY <1>0, <2>4, <3>2 DEF Intact
  <2>5. handler[c].msg.kind # "done"
    <3>1. SUFFICES ASSUME handler[c].msg.kind = "done" PROVE FALSE
      OBVIOUS
    <3>2. main # "waiting"
      BY <3>1 DEF Barrier, DoneUnsent, DoneOn
    <3>3. link[w] = NoConn
      BY <3>2 DEF Barrier, DoneLast, EndedIdle
    <3> QED
      BY <2>0, <2>2, <3>3
  <2> QED
    BY <1>0, <1>3, <2>3, <2>4, <2>5, AliveStays
<1>4. \A w \in Workers : link'[w] # NoConn => link'[w] \in Conn
  BY <1>0, LinkSource
<1> QED
  BY <1>1, <1>2, <1>3, <1>4 DEF Intact

\* What is in a stream stays in it until it is read, cut off with the connection, or dropped at
\* the handler's end.
LEMMA StreamKept ==
  ASSUME TypeOK, [Next]_vars, NEW c \in Conn, stage[c] # "unused", NEW i \in 1 .. Len(c2s[c])
  PROVE  \/ \E j \in 1 .. Len(c2s'[c]) : c2s'[c][j] = c2s[c][i]
         \/ Break(c) \/ End(c)
         \/ Read(c) /\ i = 1
<1>0. c2s \in [Conn -> Seq(Message)] /\ c2s[c] \in Seq(Message)
      /\ link \in [Agent -> Conn \cup {NoConn}] /\ Workers \subseteq Agent /\ Main \in Agent
  BY Typed
<1> DEFINE Kept == \E j \in 1 .. Len(c2s'[c]) : c2s'[c][j] = c2s[c][i]
<1>1. c2s'[c] = c2s[c] => Kept
  OBVIOUS
<1>2. ASSUME NEW d \in Conn, NEW m \in Message, c2s' = Send(c2s, d, m)
      PROVE  Kept
  <2>1. CASE d = c /\ ~Dead(d)
    <3>1. c2s'[c] = Append(c2s[c], m)
      BY <1>0, <1>2, <2>1 DEF Send
    <3>2. i \in 1 .. Len(Append(c2s[c], m)) /\ Append(c2s[c], m)[i] = c2s[c][i]
      BY <1>0, AppendFacts
    <3> QED
      BY <3>1, <3>2
  <2>2. CASE d # c \/ Dead(d)
    BY <1>0, <1>1, <1>2, <2>2 DEF Send
  <2> QED
    BY <2>1, <2>2
<1>3. ASSUME NEW a \in Agent, NEW m \in Message, Transmit(a, m)
      PROVE  Kept
  <2>1. CASE link[a] = NoConn
    <3>1. PICK d \in Conn : Connect(d) /\ c2s' = [c2s EXCEPT ![d] = <<m>>]
      BY <1>3, <2>1 DEF Transmit
    <3>2. d # c
      BY <3>1 DEF Connect
    <3> QED
      BY <1>0, <1>1, <3>1, <3>2
  <2>2. CASE link[a] # NoConn
    BY <1>0, <1>2, <1>3, <2>2 DEF Transmit
  <2> QED
    BY <2>1, <2>2
<1>4. ASSUME NEW w \in Workers, Ask(w) \/ Compare(w)
      PROVE  Kept
  <2>1. \A k \in {"ask", "zero", "data"} : Msg(k, worker[w].blk) \in Message
    BY MsgType, Typed DEF MsgKind
  <2>2. CASE Ask(w)
    BY <1>0, <1>3, <2>1, <2>2 DEF Ask
  <2>3. CASE Compare(w)
    <3>1. c2s' = c2s \/ \E k \in {"zero", "data"} : c2s' = Send(c2s, link[w], Msg(k, worker[w].blk))
      BY <2>3 DEF Compare
    <3>2. link[w] \in Conn
      BY <1>0, <2>3 DEF Compare
    <3> QED
      BY <1>1, <1>2, <2>1, <3>1, <3>2
  <2> QED
    BY <1>4, <2>2, <2>3
<1>5. CASE SendDone
  <2>1. Msg("done", 0) \in Message
    BY MsgType, Sizes DEF MsgKind
  <2> QED
    BY <1>0, <1>3, <1>5, <2>1 DEF SendDone
<1>6. ASSUME NEW d \in Conn, Read(d)
      PROVE  Kept \/ (Read(c) /\ i = 1)
  <2>1. c2s[d] # <<>> /\ c2s' = [c2s EXCEPT ![d] = Tail(@)]
    BY <1>6 DEF Read
  <2>2. CASE d = c /\ i # 1
    <3>1. c2s'[c] = Tail(c2s[c])
      BY <1>0, <2>1, <2>2
    <3>2. /\ Len(c2s[c]) \in Nat /\ Len(Tail(c2s[c])) = Len(c2s[c]) - 1
          /\ \A j \in 1 .. Len(Tail(c2s[c])) : Tail(c2s[c])[j] = c2s[c][j + 1]
      BY <1>0, <2>1, <2>2, TailFacts
    <3>3. i - 1 \in 1 .. Len(Tail(c2s[c])) /\ (i - 1) + 1 = i
      BY <2>2, <3>2
    <3>4. Tail(c2s[c])[i - 1] = c2s[c][i]
      BY <3>2, <3>3
    <3> QED
      BY <3>1, <3>3, <3>4
  <2>3. CASE d # c
    BY <1>0, <1>1, <2>1, <2>3
  <2> QED
    BY <1>6, <2>2, <2>3
<1>7. ASSUME NEW d \in Conn, d # c, Break(d) \/ End(d)
      PROVE  Kept
  <2>1. c2s'[c] = c2s[c]
    BY <1>0, <1>7 DEF Break, End
  <2> QED
    BY <1>1, <2>1
<1>8. CASE /\ \A w \in Workers : ~Ask(w) /\ ~Compare(w)
           /\ \A d \in Conn : ~Read(d) /\ ~Break(d) /\ ~End(d)
           /\ ~SendDone
  <2>1. UNCHANGED c2s
    BY <1>8, DeathOnly DEF Next, LoopStep, HandlerStep, Reply, Zero, Write, Set, HasherStep,
           TakeJob, HashBlock, Publish, WorkerStep, Take, EndWorker, MainStep, EndClient, AskFails,
           ReplyFails, Abort, HashFails, SendDoneFails, ReaderFails, vars, netVars
  <2> QED
    BY <1>1, <2>1
<1> QED
  BY <1>4, <1>5, <1>6, <1>7, <1>8

\* A block under way is read, then written, or its connection breaks; what the handler leaves
\* unwritten was right.
LEMMA ComingStep ==
  ASSUME SkipInv, EofInv, Intact, [Next]_vars, NEW b \in Block, NEW c \in Conn, Coming(b, c),
         handler[c].msg.kind # "done"
  PROVE  c \in broken' \/ InSync(b)' \/ Coming(b, c)'
<1>0. /\ TypeOK /\ Carried /\ LoopInv /\ CacheTrue /\ BeyondTrue /\ broken \subseteq broken'
      /\ handler \in [Conn -> [pc : HandlerPc, msg : Message, last : {0, LastSrc}]]
      /\ c2s[c] \in Seq(Message) /\ stage[c] \in Alive /\ stage[c] # "unused"
  BY Typed, BrokenGrows DEF SkipInv, Shape, Truthful, Coming, Alive
<1> DEFINE InHand == handler[c].msg.blk = b /\ handler[c].pc \in {"write", "waitZero", "writeZero"}
           InStream == \E i \in 1 .. Len(c2s[c]) :
                         c2s[c][i].blk = b /\ c2s[c][i].kind \in {"zero", "data"}
<1>1. InHand \/ InStream
  BY DEF Coming
<1>2. CASE End(c)
  <2>1. ~(handler[c].pc = "read" /\ c2s[c] = <<>>)
    BY <1>1
  <2>2. handler[c].pc = "end" \/ (handler[c].pc = "read" /\ c2s[c] = <<>>)
    BY <1>2 DEF End, Running
  <2> QED
    BY <1>0, <2>1, <2>2 DEF Intact
<1>3. CASE Break(c) \/ Abort(c)
  BY <1>3 DEF Break, Abort
<1>4. ~End(c) => stage'[c] \in Alive
  BY <1>0, AliveStays
<1>5. CASE InHand /\ ~End(c) /\ ~Abort(c)
  <2>1. CASE Zero(c)
    <3>1. /\ handler[c].pc = "waitZero" /\ Answered(b)
          /\ handler' = [handler EXCEPT ![c].pc = "writeZero"] \/ Answer(b) \in {ZeroHash, EofMark}
      BY <1>5, <2>1 DEF Zero, Running
    <3>2. CASE handler' = [handler EXCEPT ![c].pc = "writeZero"]
      <4>1. handler'[c].pc = "writeZero" /\ handler'[c].msg = handler[c].msg
        BY <1>0, <3>2
      <4> QED
        BY <1>4, <1>5, <4>1 DEF Coming
    <3>3. CASE Answer(b) = ZeroHash
      <4>1. SrcHash(b) = ZeroHash
        BY <1>0, <1>5, <3>1 DEF Carried, Fitting, Honest
      <4>2. InSync(b)
        BY <1>0, <3>3, <4>1, AnswerTrue
      <4> QED
        BY <1>0, <4>2, SyncStays
    <3>4. Answer(b) # EofMark
      <4>1. b <= LastSrc /\ LastSrc \in Nat /\ b \in Nat
        BY <1>0, <1>5, SourceFacts, Sizes DEF EofInv, Asked
      <4>2. cache[b] # EofMark
        BY <4>1 DEF EofInv, EofPast
      <4> QED
        BY <4>2 DEF Answer, ZeroHash, EofMark
    <3> QED
      BY <3>1, <3>2, <3>3, <3>4
  <2>2. CASE Write(c)
    <3>1. \A i \in Span(b) : i < src.size => dst'.data[i] = src.data[i]
      BY <1>0, <1>5, <2>2, WriteTowards
    <3>2. UNCHANGED src
      BY <2>2 DEF Write, inputVars
    <3> QED
      BY <3>1, <3>2 DEF InSync
  <2>3. ~Read(c) /\ ~Reply(c) /\ ~Set(c)
    BY <1>5 DEF Read, Reply, Set, Running
  <2>4. CASE ~Zero(c) /\ ~Write(c)
    <3>1. handler'[c] = handler[c]
      BY <1>0, <1>5, <2>3, <2>4, HandlerStill DEF HandlerStep
    <3> QED
      BY <1>4, <1>5, <3>1 DEF Coming
  <2> QED
    BY <2>1, <2>2, <2>4
<1>6. CASE InStream /\ ~End(c) /\ ~Break(c)
  <2>1. PICK i \in 1 .. Len(c2s[c]) : c2s[c][i].blk = b /\ c2s[c][i].kind \in {"zero", "data"}
    BY <1>6
  <2>2. CASE \E j \in 1 .. Len(c2s'[c]) : c2s'[c][j] = c2s[c][i]
    BY <1>4, <1>6, <2>1, <2>2 DEF Coming
  <2>3. CASE Read(c) /\ i = 1
    <3>1. Head(c2s[c]) = c2s[c][i]
      BY <1>0, <2>1, <2>3, TailFacts DEF Read
    <3>2. handler'[c].msg = c2s[c][i] /\ handler'[c].pc \in {"waitZero", "write"}
      BY <1>0, <2>1, <2>3, <3>1 DEF Read
    <3> QED
      BY <1>4, <1>6, <2>1, <3>2 DEF Coming
  <2> QED
    BY <1>0, <1>6, <2>2, <2>3, StreamKept
<1> QED
  BY <1>1, <1>2, <1>3, <1>5, <1>6

\* The server never starts again.
LEMMA StillRunning ==
  ASSUME [Next]_vars, server' = "running"
  PROVE  server = "running"
<1>1. [LoopNext]_loopVars
  BY LoopSim
<1> QED
  BY <1>1 DEF LoopNext, Connect, Accept, Receive, Return, StoreDone, ArmShutdown, CheckDone,
         CheckIdle, Leave, Fire, AcceptError, TruncateError, loopVars

\* What is settled stays so.
LEMMA SettledStays ==
  ASSUME TypeOK, Assigned, [Next]_vars, NEW b \in Block, outcome[b].what # "none"
  PROVE  outcome'[b] = outcome[b]
<1>0. /\ outcome \in [Block -> Result]
      /\ worker \in [Workers -> [pc : {"idle", "ask", "reply", "ended"}, blk : Block,
                                try : 0 .. MaxRetries - 1]]
  BY Typed DEF TypeOK
<1>1. ASSUME NEW w \in Workers, Ask(w) \/ Compare(w) \/ AskFails(w) \/ ReplyFails(w)
      PROVE  outcome'[b] = outcome[b]
  <2>1. Busy(w)
    BY <1>1, BusyMoves
  <2>2. worker[w].blk # b
    BY <2>1 DEF Assigned
  <2>3. outcome' = outcome \/ \E r \in Result : outcome' = [outcome EXCEPT ![worker[w].blk] = r]
    BY <1>1, BusyMoves
  <2> QED
    BY <1>0, <2>2, <2>3
<1>2. CASE ReaderFails
  <2>1. b \notin todo
    BY DEF Assigned
  <2> QED
    BY <1>2, <2>1 DEF ReaderFails
<1>3. ASSUME NEW w \in Workers, Take(w) \/ EndWorker(w)
      PROVE  outcome' = outcome
  BY <1>3 DEF Take, EndWorker
<1> QED
  BY <1>1, <1>2, <1>3, BooksStill

LEMMA AnnouncedStep ==
  ASSUME TypeOK, Assigned, Announced, [Next]_vars
  PROVE  Announced'
<1> SUFFICES ASSUME NEW b \in Block, NEW c \in Conn, Carries(b, c)'
             PROVE  Sent(b, c)'
  BY DEF Announced
<1>1. \A k, a : Msg(k, a).kind = k /\ Msg(k, a).blk = a
  BY DEF Msg
<1>2. CASE Carries(b, c)
  <2>1. Sent(b, c)
    BY <1>2 DEF Announced
  <2>2. outcome'[b] = outcome[b]
    BY <2>1, SettledStays DEF Sent
  <2> QED
    BY <2>1, <2>2 DEF Sent
<1>3. CASE handler'[c].msg.blk = b /\ handler'[c].msg.kind \in {"zero", "data"}
  <2>1. NoMsg.kind = "none"
    BY DEF NoMsg
  <2>2. \/ handler'[c].msg \in {handler[c].msg, NoMsg}
        \/ 1 \in 1 .. Len(c2s[c]) /\ handler'[c].msg = c2s[c][1]
    BY HandSource
  <2>3. Carries(b, c)
    BY <1>3, <2>1, <2>2 DEF Carries
  <2> QED
    BY <1>2, <2>3
<1>4. ASSUME NEW i \in 1 .. Len(c2s'[c]), c2s'[c][i].blk = b,
             c2s'[c][i].kind \in {"zero", "data"}
      PROVE  Sent(b, c)'
  <2>1. Comes(c, c2s'[c][i])
    BY StreamSource
  <2>2. \/ Carries(b, c)
        \/ \E w \in Workers : Settle(w, "sent") /\ link[w] = c /\ worker[w].blk = b
    BY <1>1, <1>4, <2>1 DEF Comes, Carries
  <2>3. ASSUME NEW w \in Workers, Settle(w, "sent"), link[w] = c, worker[w].blk = b
        PROVE  Sent(b, c)'
    <3>1. outcome \in [Block -> Result]
      BY DEF TypeOK
    <3> QED
      BY <2>3, <3>1 DEF Settle, Sent
  <2> QED
    BY <1>2, <2>2, <2>3
<1> QED
  BY <1>3, <1>4 DEF Carries

LEMMA DeliveredStep ==
  ASSUME SkipInv, EofInv, Barrier, Intact, Delivered, [Next]_vars
  PROVE  Delivered'
<1>0. TypeOK /\ Carried /\ LoopInv /\ broken \subseteq broken'
  BY BrokenGrows DEF SkipInv, Shape
<1> SUFFICES ASSUME NEW b \in Block, NEW c \in Conn, Sent(b, c)', server' = "running"
             PROVE  c \in broken' \/ InSync(b)' \/ Coming(b, c)'
  BY DEF Delivered
<1>3. server = "running"
  BY StillRunning
<1>1. CASE Sent(b, c)
  <2>1. c \in broken \/ InSync(b) \/ Coming(b, c)
    BY <1>1, <1>3 DEF Delivered
  <2>2. CASE InSync(b)
    BY <1>0, <2>2, SyncStays
  <2>3. CASE Coming(b, c)
    <3>1. handler[c].msg.kind # "done"
      <4>1. DoneOn(c) => c < c
        BY <1>1 DEF Barrier, DoneBehind
      <4> QED
        BY <4>1 DEF DoneOn, Conn
    <3> QED
      BY <2>3, <3>1, ComingStep
  <2> QED
    BY <1>0, <2>1, <2>2, <2>3
<1>2. ASSUME NEW w \in Workers, Compare(w), link[w] = c, worker[w].blk = b, ~Sent(b, c)
      PROVE  c \in broken' \/ Coming(b, c)'
  <2>1. PICK k \in {"zero", "data"} : c2s' = Send(c2s, c, Msg(k, b))
    <3>0. outcome \in [Block -> Result]
      BY <1>0 DEF TypeOK
    <3>1. ASSUME NEW closed \in BOOLEAN, Retry(w, closed)
          PROVE  FALSE
      <4>1. \/ outcome' = outcome
            \/ outcome' = [outcome EXCEPT ![b] = [what |-> "failed", on |-> NoConn]]
        BY <1>2, <3>1 DEF Retry
      <4> QED
        BY <1>2, <3>0, <4>1 DEF Sent
    <3>2. ~Settle(w, "insync")
      <4>1. Settle(w, "insync") => outcome' = [outcome EXCEPT ![b] = [what |-> "insync", on |-> NoConn]]
        BY <1>2 DEF Settle
      <4> QED
        BY <3>0, <4>1 DEF Sent
    <3> QED
      BY <1>2, <3>1, <3>2 DEF Compare
  <2>2. CASE Dead(c)
    <3>1. stage[c] # "unused" /\ link[w] # NoConn
      BY <1>0, <1>2, Typed DEF SkipInv, Framing, Links
    <3>2. c \in broken
      BY <1>2, <1>3, <2>2, <3>1 DEF Dead, Intact, Alive
    <3> QED
      BY <1>0, <3>2
  <2>3. CASE ~Dead(c)
    <3>0. c2s \in [Conn -> Seq(Message)] /\ Msg(k, b) \in Message
      BY <1>0, Typed, MsgType DEF MsgKind
    <3>1. c2s'[c] = Append(c2s[c], Msg(k, b))
      BY <2>1, <2>3, <3>0 DEF Send
    <3>2. Len(c2s[c]) + 1 \in 1 .. Len(c2s'[c]) /\ c2s'[c][Len(c2s[c]) + 1] = Msg(k, b)
      BY <3>0, <3>1, AppendFacts
    <3>3. stage[c] # "unused"
      BY <1>0, <1>2, Typed DEF SkipInv, Framing, Links
    <3>4. stage'[c] \in Alive
      BY <1>2, <2>3, <3>3 DEF Dead, Alive, Compare, loopVars
    <3>5. Msg(k, b).blk = b /\ Msg(k, b).kind = k
      BY DEF Msg
    <3> QED
      BY <3>2, <3>4, <3>5 DEF Coming
  <2> QED
    BY <2>2, <2>3
<1> QED
  BY <1>0, <1>1, <1>2, SentSource

---------------------------------------------------------------------------
(* An upload implements Mirror.                                            *)

MirrorInv ==
  /\ SkipInv /\ EofInv /\ Assigned /\ EndedIdle /\ Barrier /\ Intact
  /\ Delivered /\ Announced

LEMMA MirrorInvStep == MirrorInv /\ [Next]_vars => MirrorInv'
<1> SUFFICES ASSUME MirrorInv, [Next]_vars PROVE MirrorInv'
  OBVIOUS
<1>1. Shape /\ Framing /\ TypeOK
  BY DEF MirrorInv, SkipInv, Shape
<1>2. SkipInv' /\ EofInv'
  BY <1>1, SkipInvStep, EofInvStep DEF MirrorInv
<1>3. Assigned' /\ EndedIdle'
  BY <1>1, AssignedStep, EndedStep DEF MirrorInv
<1>4. Barrier' /\ Intact' /\ Delivered' /\ Announced'
  BY <1>1, BarrierStep, IntactStep, DeliveredStep, AnnouncedStep DEF MirrorInv
<1> QED
  BY <1>2, <1>3, <1>4 DEF MirrorInv

Differ  == {b \in Block : b >= ClientSkip /\ ~InSync(b)}
Excused == {b \in Block : Given(b)}

\* The server leaves after DONE only when every block that differs was given up, unread or lost:
\* all workers have ended, so each block is settled; DONE came behind the blocks sent, whose
\* handlers have returned.
LEMMA DoneMeansDone ==
  ASSUME MirrorInv, Workers # {}, Fire("shutdown"), activeConns = 0
  PROVE  Differ \subseteq Excused
<1>0. /\ TypeOK /\ LoopInv /\ LastSrc \in Nat /\ Block \subseteq Nat /\ ClientSkip \in Nat
      /\ outcome \in [Block -> Result] /\ "shutdown" \in Timer
      /\ src \in File /\ src.size > 0
  BY SourceFacts, Sizes, UploadAssumption DEF MirrorInv, SkipInv, Shape, TypeOK, Timer
<1>1. doneReceived
  BY DEF Fire, MirrorInv, Barrier, DoneKnown
<1>2. todo = {} /\ \A w \in Workers : ~Busy(w)
  <2>1. \A w \in Workers : worker[w].pc = "ended"
    BY <1>1 DEF MirrorInv, Barrier, DoneUnsent, DoneLast
  <2> QED
    BY <2>1 DEF Busy, MirrorInv, EndedIdle
<1>3. \A c \in Conn : stage[c] \notin Counted
  <2>1. Cardinality(Active) = 0 /\ IsFiniteSet(Active)
    BY <1>0, ActiveFinite DEF LoopInv, ActiveExact, Active
  <2>2. Active = {}
    BY <2>1, FS_EmptySet
  <2> QED
    BY <2>2 DEF Active
<1> SUFFICES ASSUME NEW b \in Block, b >= ClientSkip, ~InSync(b)
             PROVE  Given(b)
  BY DEF Differ, Excused
<1>4. b <= LastSrc
  <2>1. SUFFICES ASSUME b > LastSrc PROVE InSync(b)
    BY <1>0
  <2>2. Start(LastSrc + 1) \in Nat /\ Start(LastSrc + 1) <= Start(b)
    BY <1>0, <2>1, StartMono
  <2>3. src.size <= Start(LastSrc + 1) /\ src.size \in Nat
    BY <1>0, LastBlockBounds, SourceFacts DEF LastSrc
  <2>4. Start(b) \in Nat /\ \A i \in Span(b) : i >= Start(b) /\ i \in Int
    BY StartBounds DEF Span
  <2> QED
    BY <2>2, <2>3, <2>4 DEF InSync
<1>5. outcome[b].what \in {"sent", "failed", "unread"}
  <2>1. outcome[b].what # "none"
    BY <1>2, <1>4 DEF MirrorInv, Assigned
  <2>2. outcome[b].what # "insync"
    BY DEF MirrorInv, SkipInv, SkipSound
  <2>3. outcome[b].what \in {"none", "insync", "sent", "failed", "unread"}
    BY <1>0 DEF Result
  <2> QED
    BY <2>1, <2>2, <2>3
<1>6. ASSUME NEW c \in Conn, Sent(b, c)
      PROVE  c \in broken
  <2>1. PICK d \in Conn : stage[d] \in Served /\ c < d
    BY <1>1, <1>6 DEF MirrorInv, Barrier, DoneServed
  <2>2. stage[c] \in Served
    BY <1>0, <2>1 DEF LoopInv, InOrder
  <2>3. stage[c] \notin Alive
    BY <1>3, <2>2 DEF Served, Counted, Alive
  <2> QED
    BY <1>6, <2>3 DEF MirrorInv, Delivered, Coming, Fire
<1>7. CASE outcome[b].what = "sent"
  <2>1. outcome[b].on \in Conn
    BY <1>7 DEF MirrorInv, Barrier, SentUsed
  <2> QED
    BY <1>6, <1>7, <2>1 DEF Given, Sent
<1> QED
  BY <1>5, <1>7 DEF Given

Over == server = "doneExit"

\* The steps of Mirror, in an upload's terms: nothing, a block copied, blocks excused, the end.
LEMMA MirrorSteps ==
  ASSUME \/ Differ' = Differ /\ Excused' = Excused /\ Over' = Over
         \/ ~Over /\ ~Over' /\ Excused' = Excused /\ \E b \in Differ : Differ' = Differ \ {b}
         \/ /\ ~Over /\ ~Over' /\ Excused \subseteq Excused'
            /\ \E T \in SUBSET Excused' : Differ' = Differ \ T
         \/ /\ ~Over /\ Over' /\ Differ \subseteq Excused
            /\ Differ' = Differ /\ Excused' = Excused
  PROVE  [Abstract!MirrorNext]_(Abstract!mirrorVars)
<1>1. Differ \subseteq Block /\ Excused' \subseteq Block
  BY DEF Differ, Excused
<1>2. CASE Differ' = Differ /\ Excused' = Excused /\ Over' = Over
  BY <1>2 DEF Abstract!mirrorVars, Differ, Excused, Over
<1>3. CASE ~Over /\ ~Over' /\ Excused' = Excused /\ \E b \in Differ : Differ' = Differ \ {b}
  <2>1. PICK b \in Differ : Differ' = Differ \ {b}
    BY <1>3
  <2>2. Abstract!Copy(b)
    BY <1>3, <2>1 DEF Abstract!Copy, Differ, Excused, Over
  <2> QED
    BY <1>1, <2>2 DEF Abstract!MirrorNext
<1>4. CASE /\ ~Over /\ ~Over' /\ Excused \subseteq Excused'
           /\ \E T \in SUBSET Excused' : Differ' = Differ \ T
  <2>1. Excused' = Excused \cup Excused'
    BY <1>4
  <2>2. Abstract!Excuse
    BY <1>1, <1>4, <2>1 DEF Abstract!Excuse, Differ, Excused, Over
  <2> QED
    BY <2>2 DEF Abstract!MirrorNext
<1>5. CASE /\ ~Over /\ Over' /\ Differ \subseteq Excused
           /\ Differ' = Differ /\ Excused' = Excused
  <2>1. Abstract!Leave
    BY <1>5 DEF Abstract!Leave, Differ, Excused, Over
  <2> QED
    BY <2>1 DEF Abstract!MirrorNext
<1> QED
  BY <1>2, <1>3, <1>4, <1>5

\* Truncation to the source's size changes no block's state, and a write only its own block's, even
\* when it fails: that block was sent on a connection that is lost with it.
LEMMA DifferStep ==
  ASSUME TypeOK, Carried, Announced, [Next]_vars
  PROVE  \/ Differ' = Differ
         \/ /\ \E b \in Differ : Differ' = Differ \ {b}
            /\ UNCHANGED <<outcome, broken, server>> /\ server = "running"
         \/ \E T \in SUBSET Excused' : Differ' = Differ \ T
<1>1. UNCHANGED src /\ ClientSkip' = ClientSkip
  BY StepTowards DEF inputVars
<1>2. CASE UNCHANGED dst
  BY <1>1, <1>2 DEF Differ, InSync
<1>3. ASSUME NEW c \in Conn, Read(c)
      PROVE  Differ' = Differ
  <2>1. \A i \in Pos : i < src.size => dst'.data[i] = dst.data[i]
    BY <1>3 DEF Read, Resize
  <2>2. \A b \in Block : Span(b) \subseteq Pos
    BY StartBounds
  <2>3. \A b \in Block : InSync(b)' <=> InSync(b)
    BY <1>1, <2>1, <2>2 DEF InSync
  <2> QED
    BY <1>1, <2>3 DEF Differ
<1>4. ASSUME NEW c \in Conn, Write(c), NEW a \in Block, a = handler[c].msg.blk
      PROVE  \/ Differ' = Differ
             \/ /\ \E b \in Differ : Differ' = Differ \ {b}
                /\ UNCHANGED <<outcome, broken, server>> /\ server = "running"
  <2>0. handler[c].msg \in Honest
    BY DEF Carried
  <2>1. InSync(a)'
    BY <1>1, <1>4, WriteTowards DEF InSync
  <2>2. \A i \in Pos : i \notin Span(a) => dst'.data[i] = dst.data[i]
    <3>1. CASE Running(c, "write")
      <4>1. handler[c].msg.data = SrcBlock(a)
        BY <1>4, <2>0, <3>1 DEF Carried, Fitting, Honest, Running
      <4>2. DOMAIN SrcBlock(a) \subseteq Span(a)
        BY DEF SrcBlock, ReadBlock
      <4>3. dst' = WriteBlock(dst, SrcBlock(a), SrcEnd(a))
        BY <1>4, <3>1, <4>1 DEF Write, Running
      <4> QED
        BY <4>2, <4>3 DEF WriteBlock
    <3>2. CASE Running(c, "writeZero")
      <4>1. dst' = WriteBlock(dst, Zeros(a), Start(a + 1))
        BY <1>4, <3>2 DEF Write, Running
      <4> QED
        BY <4>1 DEF WriteBlock, Zeros
    <3> QED
      BY <1>4, <3>1, <3>2 DEF Write
  <2>3. ASSUME NEW b \in Block, b # a
        PROVE  InSync(b)' <=> InSync(b)
    <3>1. \A i \in Span(b) : i \in Pos /\ i \notin Span(a)
      BY <2>0, <2>3, SpansApart
    <3> QED
      BY <1>1, <2>2, <3>1 DEF InSync
  <2>4. UNCHANGED <<outcome, broken, server>> /\ server = "running"
    BY <1>4 DEF Write, Running, loopVars, netVars, clientVars
  <2>5. CASE InSync(a)
    <3>1. \A b \in Block : InSync(b)' <=> InSync(b)
      BY <2>1, <2>3, <2>5
    <3> QED
      BY <1>1, <3>1 DEF Differ
  <2>6. CASE ~InSync(a)
    <3>1. \A b \in Block : InSync(b)' <=> InSync(b) \/ b = a
      BY <2>1, <2>3
    <3>2. Differ' = Differ \ {a}
      BY <1>1, <3>1 DEF Differ
    <3>3. a \notin Differ => Differ' = Differ
      BY <3>2
    <3> QED
      BY <2>4, <3>2, <3>3
  <2> QED
    BY <2>5, <2>6
<1>7. ASSUME NEW c \in Conn, Abort(c), NEW a, a = handler[c].msg.blk
      PROVE  Differ' = Differ \/ \E T \in SUBSET Excused' : Differ' = Differ \ T
  <2>1. /\ a \in Block
        /\ \A i \in Pos : \/ dst'.data[i] = dst.data[i]
                          \/ i \in Span(a) /\ dst'.data[i] = src.data[i]
        /\ dst' = dst \/ handler[c].msg.kind \in {"data", "zero"}
    BY <1>7, AbortPart
  <2>2. CASE dst' = dst
    BY <1>1, <2>2 DEF Differ, InSync
  <2>3. CASE handler[c].msg.kind \in {"data", "zero"}
    <3>1. Given(a)'
      <4>1. Sent(a, c)
        BY <1>7, <2>1, <2>3 DEF Announced, Carries
      <4>2. outcome' = outcome /\ c \in broken'
        BY <1>7 DEF Abort, clientVars
      <4> QED
        BY <4>1, <4>2 DEF Given, Sent
    <3>2. ASSUME NEW b \in Block, b # a
          PROVE  InSync(b)' <=> InSync(b)
      <4>1. \A i \in Span(b) : i \in Pos /\ i \notin Span(a)
        BY <2>1, <3>2, SpansApart
      <4> QED
        BY <1>1, <2>1, <4>1 DEF InSync
    <3>3. InSync(a) => InSync(a)'
      <4>1. Span(a) \subseteq Pos
        BY <2>1, StartBounds
      <4> QED
        BY <1>1, <2>1, <4>1 DEF InSync
    <3>4. Differ' = Differ \/ Differ' = Differ \ {a}
      BY <1>1, <3>2, <3>3 DEF Differ
    <3>5. {a} \in SUBSET Excused'
      BY <2>1, <3>1 DEF Excused
    <3> QED
      BY <3>4, <3>5
  <2> QED
    BY <2>1, <2>2, <2>3
<1>5. CASE \A c \in Conn : ~Read(c) /\ ~Write(c) /\ ~Abort(c)
  <2>1. UNCHANGED dst
    BY <1>5, DeathOnly DEF Next, LoopStep, HandlerStep, Reply, Zero, Set, End, HasherStep, TakeJob,
           HashBlock, Publish, WorkerStep, Take, Ask, Compare, EndWorker, MainStep, SendDone,
           EndClient, AskFails, ReplyFails, Break, HashFails, SendDoneFails, ReaderFails, vars,
           fileVars
  <2> QED
    BY <1>2, <2>1
<1>6. \A c \in Conn : handler[c].msg.blk \in Block
  BY TruthTyped
<1> QED
  BY <1>3, <1>4, <1>5, <1>6, <1>7

\* What is settled stays settled: blocks given up, unread or lost remain so.
LEMMA ExcusedGrow ==
  ASSUME TypeOK, Assigned, [Next]_vars
  PROVE  Excused \subseteq Excused'
<1>1. broken \subseteq broken'
  BY BrokenGrows
<1>2. \A b \in Block : outcome[b].what # "none" => outcome'[b] = outcome[b]
  BY SettledStays
<1> QED
  BY <1>1, <1>2 DEF Excused, Given

\* Only the shutdown timer makes the server leave for DONE, and it leaves for good.
LEMMA OverStep ==
  ASSUME TypeOK, [Next]_vars
  PROVE  /\ ~Over /\ Over' => /\ Fire("shutdown") /\ activeConns = 0
                              /\ UNCHANGED <<src, dst, outcome, broken>>
         /\ Over => Over' /\ UNCHANGED dst
<1>0. timer \in [Timer -> {"stopped", "armed"}]
  BY DEF TypeOK, LoopTypeOK
<1>1. ASSUME NEW t \in Timer, LoopStep, Fire(t)
      PROVE  /\ ~Over
             /\ Over' => /\ Fire("shutdown") /\ activeConns = 0
                         /\ UNCHANGED <<src, dst, outcome, broken>>
  <2>1. ~Over /\ (t = "idle" => ~Over')
    BY <1>1 DEF Fire, Over
  <2>2. t = "shutdown" /\ Over' => activeConns = 0
    BY <1>1 DEF Fire, Over
  <2>3. UNCHANGED <<src, dst, outcome, broken>>
    BY <1>1 DEF LoopStep, fileVars, inputVars, clientVars, netVars
  <2> QED
    BY <1>1, <2>1, <2>2, <2>3 DEF Timer
<1>2. CASE ~LoopStep \/ \A t \in Timer : ~Fire(t)
  <2>1. server' = server \/ (server = "running" /\ server' \in {"acceptError", "truncateError"})
    BY <1>2, DeathOnly DEF Next, LoopStep, Accept, Receive, Epilogue, ArmShutdown, CheckDone,
           CheckIdle, Leave, HandlerStep, Read, Reply, StoreDone, Zero, Write, Set, End, Return,
           HasherStep, TakeJob, HashBlock, Publish, WorkerStep, Take, Ask, Transmit, Connect,
           Compare, EndWorker, MainStep, SendDone, EndClient, AskFails, ReplyFails, Break, Abort,
           HashFails, SendDoneFails, ReaderFails, vars, loopVars
  <2>2. server = "doneExit" => UNCHANGED dst
    <3>1. CASE \A c \in Conn : ~Read(c) /\ ~Write(c) /\ ~Abort(c)
      BY <3>1, DeathOnly DEF Next, LoopStep, HandlerStep, Reply, Zero, Set, End, HasherStep,
             TakeJob, HashBlock, Publish, WorkerStep, Take, Ask, Compare, EndWorker, MainStep,
             SendDone, EndClient, AskFails, ReplyFails, Break, HashFails, SendDoneFails,
             ReaderFails, vars, fileVars
    <3>2. ASSUME NEW c \in Conn, Read(c) \/ Write(c) \/ Abort(c)
          PROVE  server = "running"
      BY <3>2 DEF Read, Write, Abort, Running
    <3> QED
      BY <3>1, <3>2
  <2> QED
    BY <2>1, <2>2 DEF Over
<1> QED
  BY <1>1, <1>2

\* Once it has left nothing moves: the workers had ended and the blocks were all taken.
LEMMA OverStill ==
  ASSUME MirrorInv, Workers # {}, Over, [Next]_vars
  PROVE  UNCHANGED <<outcome, broken>>
<1>0. TypeOK
  BY DEF MirrorInv, SkipInv, Shape
<1>1. main # "waiting" /\ DoneLast
  BY DEF Over, MirrorInv, Barrier, DoneKnown, DoneUnsent
<1>2. todo = {}
  BY <1>1 DEF MirrorInv, EndedIdle, DoneLast
<1>3. \A w \in Workers : ~WorkerStep(w) /\ ~AskFails(w) /\ ~ReplyFails(w)
  BY <1>0, <1>1, AllEnded
<1>4. UNCHANGED outcome
  <2>1. ~ReaderFails
    BY <1>2 DEF ReaderFails
  <2> QED
    BY <1>3, <2>1, BooksStill DEF WorkerStep
<1>5. UNCHANGED broken
  <2>1. \A c \in Conn : ~Break(c) /\ ~Abort(c)
    BY DEF Break, Abort, Running, Over
  <2> QED
    BY <1>3, <2>1, DeathOnly DEF Next, LoopStep, HandlerStep, Read, Reply, Zero, Write, Set, End,
           HasherStep, TakeJob, HashBlock, Publish, MainStep, SendDone, EndClient, HashFails,
           SendDoneFails, ReaderFails, vars, netVars
<1> QED
  BY <1>4, <1>5

\* An upload keeps Mirror's promise, whatever the interleaving and the faults: no step of a handler
\* undoes a block that is right, and the server leaves after DONE only when every block is right,
\* or was given up, unread, or lost with its connection. It takes a worker to keep it: without one
\* (-w 0) the client sends DONE and no block.
THEOREM UploadImplementsMirror ==
  ASSUME Workers # {}
  PROVE  Spec => Mirrors
<1>1. Init => MirrorInv
  BY InitShape, InitFraming, InitTruthful, InitEof, InitBooks DEF MirrorInv, SkipInv
<1>2. Init => Abstract!MirrorInit
  <2> SUFFICES ASSUME Init PROVE Abstract!MirrorInit
    OBVIOUS
  <2>1. server = "running"
    BY DEF Init, LoopInit
  <2>2. \A b \in Block : ~Given(b)
    BY DEF Init, Given
  <2> QED
    BY <2>1, <2>2 DEF Abstract!MirrorInit
<1>3. MirrorInv /\ [Next]_vars => [Abstract!MirrorNext]_(Abstract!mirrorVars)
  <2> SUFFICES ASSUME MirrorInv, [Next]_vars
               PROVE  [Abstract!MirrorNext]_(Abstract!mirrorVars)
    OBVIOUS
  <2>0. TypeOK /\ Carried /\ Assigned /\ Announced
    BY DEF MirrorInv, SkipInv, Shape
  <2>1. CASE Over
    <3>1. UNCHANGED <<src, dst, outcome, broken>> /\ Over'
      BY <2>0, <2>1, OverStill, OverStep, StepTowards DEF inputVars
    <3>2. Differ' = Differ /\ Excused' = Excused
      BY <3>1 DEF Differ, InSync, Excused, Given
    <3> QED
      BY <2>1, <3>1, <3>2, MirrorSteps
  <2>2. CASE ~Over /\ Over'
    <3>1. /\ Fire("shutdown") /\ activeConns = 0
          /\ UNCHANGED <<src, dst, outcome, broken>>
      BY <2>0, <2>2, OverStep
    <3>2. Differ \subseteq Excused
      BY <3>1, DoneMeansDone
    <3>3. Differ' = Differ /\ Excused' = Excused
      BY <3>1 DEF Differ, InSync, Excused, Given
    <3> QED
      BY <2>2, <3>2, <3>3, MirrorSteps
  <2>3. CASE ~Over /\ ~Over'
    <3>1. CASE \E T \in SUBSET Excused' : Differ' = Differ \ T
      BY <2>0, <2>3, <3>1, ExcusedGrow, MirrorSteps
    <3>3. CASE Differ' = Differ
      <4>1. Differ' = Differ \ {} /\ {} \in SUBSET Excused'
        BY <3>3
      <4> QED
        BY <3>1, <4>1
    <3>2. CASE /\ \E b \in Differ : Differ' = Differ \ {b}
               /\ UNCHANGED <<outcome, broken>>
      <4>1. Excused' = Excused
        BY <3>2 DEF Excused, Given
      <4> QED
        BY <2>3, <3>2, <4>1, MirrorSteps
    <3> QED
      BY <2>0, <3>1, <3>2, <3>3, DifferStep
  <2> QED
    BY <2>1, <2>2, <2>3
<1> QED
  BY <1>1, <1>2, <1>3, MirrorInvStep, PTL DEF Spec, Mirrors, Abstract!MirrorSpec

---------------------------------------------------------------------------
(* The size of the destination.                                            *)

\* A handler has not read its first message before it is served.
LastFresh == \A c \in Conn : stage[c] \notin Served => handler[c].last = 0

\* DONE is the first and only message on its connection, so its handler truncates.
DoneAlone ==
  \A d \in Conn : (\E i \in 1 .. Len(c2s[d]) : c2s[d][i].kind = "done")
                    => Len(c2s[d]) = 1 /\ handler[d].last = 0

\* The size is the source's, or that of whole blocks where the last one is zeros, or between the
\* two where the write of those zeros failed.
SizeOK ==
  \/ dst.size = src.size
  \/ /\ SrcHash(LastSrc) = ZeroHash
     /\ dst.size \in src.size .. Start(LastSrc + 1)
     /\ faults > 0 \/ dst.size = Start(LastSrc + 1)

\* Behind the source's end there are only zeros.
TailZero == \A i \in Pos : i >= src.size => dst.data[i] = 0

\* Once a handler has read DONE it stays so, whatever is still written or truncated.
SizeKept ==
  doneReceived \/ (\E c \in Conn : handler[c].msg.kind = "done") => SizeOK /\ TailZero

SizeInv == LastFresh /\ DoneAlone /\ SizeKept

LEMMA InitSize == Init => SizeInv
<1> SUFFICES ASSUME Init PROVE SizeInv
  OBVIOUS
<1>1. /\ ~doneReceived
      /\ \A c \in Conn : handler[c].last = 0 /\ handler[c].msg.kind = "none" /\ c2s[c] = <<>>
  BY DEF Init, LoopInit, NoMsg
<1> QED
  BY <1>1 DEF SizeInv, LastFresh, DoneAlone, SizeKept

\* Where the last block of the source starts and the block after it would.
LEMMA TailBounds ==
  ASSUME TypeOK
  PROVE  /\ src.size \in Nat /\ LastSrc \in Nat /\ Start(LastSrc + 1) \in Nat
         /\ src.size <= Start(LastSrc + 1)
         /\ \A b \in Block : b < LastSrc => Start(b + 1) \in Nat /\ Start(b + 1) <= src.size
<1>1. src \in File /\ src.size > 0 /\ src.size \in Nat /\ LastSrc \in Block
  BY SourceFacts
<1>2. LastSrc \in Nat /\ src.size <= Start(LastSrc + 1) /\ Start(LastSrc + 1) \in Nat
  <2>1. LastSrc \in Nat /\ Start(LastSrc + 1) \in 0 .. BlockCount * BlockSize
    BY <1>1, StartBounds, Sizes
  <2>2. src.size <= Start(LastSrc + 1)
    BY <1>1, LastBlockBounds DEF LastSrc
  <2> QED
    BY <2>1, <2>2, Sizes
<1>3. Start(LastSrc) \in Nat /\ Start(LastSrc) <= src.size
  <2>1. src.size - 1 \in Nat
    BY <1>1
  <2>2. ((src.size - 1) \div BlockSize) * BlockSize <= src.size - 1
    BY <2>1, Sizes, DivMod
  <2>3. Start(LastSrc) <= src.size - 1
    BY <2>2 DEF Start, LastSrc, LastBlock
  <2> QED
    BY <1>1, <2>3, StartBounds
<1>4. ASSUME NEW b \in Block, b < LastSrc
      PROVE  Start(b + 1) \in Nat /\ Start(b + 1) <= src.size
  <2>1. b + 1 \in Nat /\ b + 1 <= LastSrc
    BY <1>2, <1>4, Sizes
  <2>2. Start(b + 1) \in Nat /\ Start(b + 1) <= Start(LastSrc)
    BY <1>2, <2>1, StartMono
  <2> QED
    BY <1>1, <1>3, <2>2
<1> QED
  BY <1>1, <1>2, <1>4

LEMMA FaultsGrow ==
  ASSUME TypeOK, [Next]_vars
  PROVE  faults > 0 => faults' > 0
<1>1. faults \in Nat
  BY DEF TypeOK
<1>2. faults' = faults \/ Fault
  BY DeathOnly DEF Next, LoopStep, HandlerStep, Read, Reply, Zero, Write, Set, End, HasherStep,
         TakeJob, HashBlock, Publish, WorkerStep, Take, Ask, Compare, EndWorker, MainStep,
         SendDone, EndClient, AskFails, ReplyFails, Break, Abort, HashFails, SendDoneFails,
         ReaderFails, vars
<1> QED
  BY <1>1, <1>2 DEF Fault

\* A write keeps the size, or makes whole blocks of it for the zeros at the end.
LEMMA WriteSize ==
  ASSUME TypeOK, Carried, Asked, SizeOK, NEW c \in Conn, Write(c)
  PROVE  SizeOK'
<1> DEFINE b == handler[c].msg.blk
<1>0. /\ b \in Block /\ b <= LastSrc /\ handler[c].msg \in Honest
      /\ Fitting(handler[c].pc, handler[c].msg.kind)
  BY TruthTyped DEF Asked, Carried
<1>1. /\ src.size \in Nat /\ Start(LastSrc + 1) \in Nat /\ src.size <= Start(LastSrc + 1)
      /\ b < LastSrc => Start(b + 1) \in Nat /\ Start(b + 1) <= src.size
      /\ LastSrc \in Nat /\ b \in Nat
  BY <1>0, TailBounds, Sizes
<1>2. UNCHANGED <<src, faults>>
  BY DEF Write, inputVars
<1>3. SUFFICES \/ dst'.size = dst.size
               \/ dst'.size = Start(LastSrc + 1) /\ SrcHash(LastSrc) = ZeroHash
  BY <1>1, <1>2 DEF SizeOK, LastSrc, SrcHash, SrcBlock
<1>4. dst.size \in Nat /\ dst.size >= src.size
  BY <1>1 DEF SizeOK
<1>5. CASE Running(c, "write")
  <2>1. SrcEnd(b) \in Nat /\ SrcEnd(b) <= src.size
    <3>1. Start(b + 1) \in Nat
      BY <1>0, StartBounds
    <3> QED
      BY <1>1, <3>1 DEF SrcEnd
  <2>2. \E d : dst' = WriteBlock(dst, d, SrcEnd(b))
    BY <1>5 DEF Write, Running
  <2> QED
    BY <1>1, <1>4, <2>1, <2>2 DEF WriteBlock
<1>6. CASE Running(c, "writeZero")
  <2>1. dst' = WriteBlock(dst, Zeros(b), Start(b + 1))
    BY <1>6 DEF Write, Running
  <2>2. dst'.size = IF Start(b + 1) > dst.size THEN Start(b + 1) ELSE dst.size
    BY <2>1 DEF WriteBlock
  <2>3. CASE b < LastSrc
    BY <1>1, <1>4, <2>2, <2>3
  <2>4. CASE b = LastSrc
    <3>1. SrcHash(b) = ZeroHash
      BY <1>0, <1>6 DEF Fitting, Honest, Running
    <3> QED
      BY <2>2, <2>4, <3>1
  <2> QED
    BY <1>0, <1>1, <2>3, <2>4
<1> QED
  BY <1>5, <1>6 DEF Write

\* So does one that fails, though the zeros at the end may then be a part only.
LEMMA AbortSize ==
  ASSUME TypeOK, Carried, Asked, SizeOK, NEW c \in Conn, Abort(c)
  PROVE  SizeOK'
<1> DEFINE b == handler[c].msg.blk
<1>a. b = handler[c].msg.blk
  OBVIOUS
<1>0. b \in Block /\ b <= LastSrc
  <2>1. handler[c].pc \in {"read", "wait", "write", "writeZero"}
    BY DEF Abort, Running
  <2> QED
    BY TruthTyped DEF Asked
<1> HIDE DEF b
<1>1. /\ src.size \in Nat /\ Start(LastSrc + 1) \in Nat /\ src.size <= Start(LastSrc + 1)
      /\ b < LastSrc => Start(b + 1) \in Nat /\ Start(b + 1) <= src.size
      /\ LastSrc \in Nat /\ b \in Nat
  BY <1>0, TailBounds, Sizes
<1>2. UNCHANGED src /\ faults' > 0
  BY DEF Abort, inputVars, Fault, TypeOK
<1>3. /\ dst' \in File /\ dst \in File
      /\ \/ dst'.size = dst.size
         \/ dst'.size > dst.size /\ dst'.size <= SrcEnd(b)
         \/ SrcHash(b) = ZeroHash /\ dst'.size > dst.size /\ dst'.size <= Start(b + 1)
  BY <1>a, AbortPart
<1>4. dst.size \in Nat /\ dst'.size \in Nat /\ dst.size >= src.size
  <2>1. dst.size \in Nat /\ dst'.size \in Nat
    BY <1>3, FileElim, Sizes
  <2> QED
    BY <1>1, <2>1 DEF SizeOK
<1>5. SrcEnd(b) \in Nat /\ SrcEnd(b) <= src.size
  <2>1. Start(b + 1) \in Nat
    BY <1>0, StartBounds
  <2> QED
    BY <1>1, <2>1 DEF SrcEnd
<1>6. CASE dst'.size = dst.size
  BY <1>1, <1>2, <1>6 DEF SizeOK, LastSrc, SrcHash, SrcBlock
<1>7. CASE SrcHash(b) = ZeroHash /\ dst'.size > dst.size /\ dst'.size <= Start(b + 1)
  <2>1. b = LastSrc
    BY <1>0, <1>1, <1>4, <1>7
  <2>2. SrcHash(LastSrc) = ZeroHash /\ dst'.size \in src.size .. Start(LastSrc + 1)
    BY <1>1, <1>4, <1>7, <2>1
  <2> QED
    BY <1>2, <2>2 DEF SizeOK, LastSrc, SrcHash, SrcBlock
<1> QED
  BY <1>1, <1>3, <1>4, <1>5, <1>6, <1>7

\* No step spoils the size.
LEMMA SizeOKStep ==
  ASSUME TypeOK, Carried, Asked, SizeOK, [Next]_vars
  PROVE  SizeOK'
<1>1. UNCHANGED src /\ (faults > 0 => faults' > 0)
  BY StepTowards, FaultsGrow DEF inputVars
<1>2. ASSUME NEW c \in Conn, Read(c)
      PROVE  SizeOK'
  <2>1. dst' = dst \/ dst'.size = src.size
    BY <1>2 DEF Read, Resize
  <2> QED
    BY <1>1, <2>1 DEF SizeOK, LastSrc, SrcHash, SrcBlock
<1>3. CASE \A c \in Conn : ~Read(c) /\ ~Write(c) /\ ~Abort(c)
  <2>1. UNCHANGED dst
    BY <1>3, DeathOnly DEF Next, LoopStep, HandlerStep, Reply, Zero, Set, End, HasherStep, TakeJob,
           HashBlock, Publish, WorkerStep, Take, Ask, Compare, EndWorker, MainStep, SendDone,
           EndClient, AskFails, ReplyFails, Break, HashFails, SendDoneFails, ReaderFails,
           vars, fileVars
  <2> QED
    BY <1>1, <2>1 DEF SizeOK, LastSrc, SrcHash, SrcBlock
<1> QED
  BY <1>2, <1>3, WriteSize, AbortSize

LEMMA TailZeroStep ==
  ASSUME TypeOK, Carried, TailZero, [Next]_vars
  PROVE  TailZero'
<1>1. UNCHANGED src
  BY StepTowards DEF inputVars
<1>2. ASSUME NEW c \in Conn, Read(c)
      PROVE  TailZero'
  <2>1. dst' = dst \/ dst' = Resize(dst, src.size)
    BY <1>2 DEF Read
  <2>2. src.size \in Nat /\ Pos \subseteq Nat
    BY SourceFacts, Sizes
  <2> QED
    BY <1>1, <2>1, <2>2 DEF TailZero, Resize
<1>3. ASSUME NEW c \in Conn, Write(c)
      PROVE  TailZero'
  <2> DEFINE b == handler[c].msg.blk
  <2>0. /\ b \in Block /\ handler[c].msg \in Honest
        /\ Fitting(handler[c].pc, handler[c].msg.kind)
        /\ src \in File /\ src.size \in Nat /\ Pos \subseteq Nat
    BY TruthTyped, SourceFacts, Sizes DEF Carried
  <2>1. CASE Running(c, "write")
    <3>1. handler[c].msg.data = SrcBlock(b)
      BY <2>0, <2>1 DEF Fitting, Honest, Running
    <3>2. \A i \in DOMAIN SrcBlock(b) : i < src.size
      BY <2>0, ReadBlockType DEF SrcBlock
    <3>3. dst' = WriteBlock(dst, SrcBlock(b), SrcEnd(b))
      BY <1>3, <2>1, <3>1 DEF Write, Running
    <3>4. \A i \in Pos : dst'.data[i] = IF i \in DOMAIN SrcBlock(b) THEN SrcBlock(b)[i]
                                        ELSE dst.data[i]
      BY <3>3 DEF WriteBlock
    <3>5. \A i \in Pos : i >= src.size => i \notin DOMAIN SrcBlock(b)
      BY <2>0, <3>2
    <3> QED
      BY <1>1, <3>4, <3>5 DEF TailZero
  <2>2. CASE Running(c, "writeZero")
    <3>1. dst' = WriteBlock(dst, Zeros(b), Start(b + 1))
      BY <1>3, <2>2 DEF Write, Running
    <3>2. \A i \in Pos : dst'.data[i] = 0 \/ dst'.data[i] = dst.data[i]
      BY <3>1 DEF WriteBlock, Zeros
    <3> QED
      BY <1>1, <3>2 DEF TailZero
  <2> QED
    BY <1>3, <2>1, <2>2 DEF Write
<1>5. ASSUME NEW c \in Conn, Abort(c), NEW b, b = handler[c].msg.blk
      PROVE  TailZero'
  <2>1. \A i \in Pos : dst'.data[i] = dst.data[i] \/ dst'.data[i] = src.data[i]
    BY <1>5, AbortPart
  <2>2. \A i \in Pos : i >= src.size => src.data[i] = 0
    BY SourceFacts, FileElim
  <2> QED
    BY <1>1, <2>1, <2>2 DEF TailZero
<1>4. CASE \A c \in Conn : ~Read(c) /\ ~Write(c) /\ ~Abort(c)
  <2>1. UNCHANGED dst
    BY <1>4, DeathOnly DEF Next, LoopStep, HandlerStep, Reply, Zero, Set, End, HasherStep, TakeJob,
           HashBlock, Publish, WorkerStep, Take, Ask, Compare, EndWorker, MainStep, SendDone,
           EndClient, AskFails, ReplyFails, Break, HashFails, SendDoneFails, ReaderFails, vars,
           fileVars
  <2> QED
    BY <1>1, <2>1 DEF TailZero
<1> QED
  BY <1>2, <1>3, <1>4, <1>5

\* lastBlockNum is set by reading a message, and forgotten at the handler's end.
LEMMA LastSource ==
  ASSUME TypeOK, [Next]_vars, NEW c \in Conn
  PROVE  handler'[c].last \in {0, handler[c].last} \/ Read(c)
<1>0. handler \in [Conn -> [pc : HandlerPc, msg : Message, last : {0, LastSrc}]]
  BY Typed
<1>1. ASSUME NEW d \in Conn, Read(d)
      PROVE  handler'[c].last = handler[c].last \/ Read(c)
  BY <1>0, <1>1 DEF Read
<1>2. ASSUME NEW d \in Conn, Reply(d) \/ Zero(d) \/ Write(d) \/ Set(d) \/ Abort(d) \/ End(d)
      PROVE  handler'[c].last \in {0, handler[c].last}
  <2>1. CASE NextMessage(d)
    BY <1>0, <2>1 DEF NextMessage
  <2>2. ASSUME NEW pc, handler' = [handler EXCEPT ![d].pc = pc]
        PROVE  handler'[c].last = handler[c].last
    BY <1>0, <2>2
  <2>3. CASE End(d)
    BY <1>0, <2>3 DEF End
  <2> QED
    BY <1>2, <2>1, <2>2, <2>3 DEF Reply, Zero, Write, Set, Abort
<1>3. CASE \A d \in Conn : ~HandlerStep(d) /\ ~Abort(d)
  <2>1. UNCHANGED handler
    BY <1>3, DeathOnly DEF Next, LoopStep, HasherStep, TakeJob, HashBlock, Publish, WorkerStep,
           Take, Ask, Compare, EndWorker, MainStep, SendDone, EndClient, AskFails, ReplyFails,
           Break, HashFails, SendDoneFails, ReaderFails, vars
  <2> QED
    BY <2>1
<1> QED
  BY <1>1, <1>2, <1>3 DEF HandlerStep

LEMMA LastFreshStep ==
  ASSUME Shape, LastFresh, [Next]_vars
  PROVE  LastFresh'
<1> SUFFICES ASSUME NEW c \in Conn, stage'[c] \notin Served PROVE handler'[c].last = 0
  BY DEF LastFresh
<1>1. stage[c] \notin Served
  BY LoopSim, ServedStays DEF Shape
<1>2. handler[c].last = 0 /\ ~Read(c)
  BY <1>1 DEF LastFresh, Read, Running, Served, Counted
<1> QED
  BY <1>2, LastSource DEF Shape

LEMMA DoneAloneStep ==
  ASSUME Shape, DoneUnsent, DoneLast, LastFresh, DoneAlone, [Next]_vars
  PROVE  DoneAlone'
<1> SUFFICES ASSUME NEW d \in Conn, NEW i \in 1 .. Len(c2s'[d]), c2s'[d][i].kind = "done"
             PROVE  Len(c2s'[d]) = 1 /\ handler'[d].last = 0
  BY DEF DoneAlone
<1>0. /\ TypeOK /\ c2s \in [Conn -> Seq(Message)] /\ c2s[d] \in Seq(Message)
      /\ stage \in [Conn -> Stage]
  BY Typed DEF Shape
<1>1. \/ \E j \in 1 .. Len(c2s[d]) : c2s[d][j].kind = "done"
      \/ SendDone /\ Connect(d)
  <2>1. Comes(d, c2s'[d][i])
    BY <1>0, StreamSource
  <2>2. \A k, b : Msg(k, b).kind = k
    BY DEF Msg
  <2>3. SendDone => link[Main] = NoConn
    BY DEF SendDone, DoneUnsent
  <2> QED
    BY <2>1, <2>2, <2>3 DEF Comes
<1>2. CASE SendDone /\ Connect(d)
  <2>1. handler[d].last = 0 /\ UNCHANGED handler
    BY <1>2 DEF SendDone, Connect, LastFresh, Served, Counted
  <2>2. \E e \in Conn : Connect(e) /\ c2s' = [c2s EXCEPT ![e] = <<Msg("done", 0)>>]
    BY <1>2 DEF SendDone, Transmit, DoneUnsent
  <2>3. \A e \in Conn : Connect(e) => e = d
    BY <1>0, <1>2 DEF Connect, Goto
  <2>4. c2s'[d] = <<Msg("done", 0)>>
    BY <1>0, <2>2, <2>3
  <2> QED
    BY <2>1, <2>4
<1>3. ASSUME NEW j \in 1 .. Len(c2s[d]), c2s[d][j].kind = "done"
      PROVE  Len(c2s'[d]) = 1 /\ handler'[d].last = 0
  <2>1. Len(c2s[d]) = 1 /\ handler[d].last = 0 /\ main # "waiting"
    BY <1>3 DEF DoneAlone, DoneUnsent, DoneOn
  <2>2. /\ \A w \in Workers : ~WorkerStep(w) /\ ~AskFails(w) /\ ~ReplyFails(w)
        /\ ~SendDone
    BY <1>0, <2>1, AllEnded DEF SendDone
  <2>3. ~Read(d)
    <3>1. ASSUME Read(d)
          PROVE  FALSE
      <4>1. c2s'[d] = Tail(c2s[d]) /\ c2s[d] # <<>>
        BY <1>0, <3>1 DEF Read
      <4>2. Len(c2s'[d]) = 0
        BY <1>0, <2>1, <4>1, TailFacts
      <4> QED
        BY <4>2
    <3> QED
      BY <3>1
  <2>4. handler'[d].last = 0
    BY <1>0, <2>1, <2>3, LastSource
  <2>5. Len(c2s'[d]) \in {0, 1}
    <3>1. ASSUME NEW e \in Conn, Break(e)
          PROVE  Len(c2s'[d]) \in {0, 1}
      <4>1. e # d => c2s'[d] = c2s[d]
        BY <1>0, <3>1 DEF Break
      <4>2. ASSUME e = d
            PROVE  Len(c2s'[d]) \in {0, 1}
        <5>1. PICK k \in 0 .. Len(c2s[d]) : DOMAIN c2s'[d] = 1 .. k
          BY <1>0, <3>1, <4>2 DEF Break
        <5>2. c2s'[d] \in Seq(Message)
          <6>1. \A m \in Message : Msg("header", m.blk) \in Message
            BY <1>0, MsgType DEF Message, MsgKind
          <6> QED
            BY <1>0, <3>1, <6>1, BreakType
        <5>3. Len(c2s'[d]) = k
          BY <2>1, <5>1, <5>2
        <5> QED
          BY <2>1, <5>3
      <4> QED
        BY <2>1, <4>1, <4>2
    <3>2. ASSUME NEW e \in Conn, Read(e)
          PROVE  c2s'[d] = c2s[d]
      BY <1>0, <2>3, <3>2 DEF Read
    <3>3. ASSUME NEW e \in Conn, End(e)
          PROVE  c2s'[d] \in {<<>>, c2s[d]}
      BY <1>0, <3>3 DEF End
    <3>4. CASE \A e \in Conn : ~Break(e) /\ ~Read(e) /\ ~End(e)
      <4>1. UNCHANGED c2s
        BY <2>2, <3>4, DeathOnly DEF Next, LoopStep, HandlerStep, Reply, Zero, Write, Set,
           HasherStep, TakeJob, HashBlock, Publish, MainStep, EndClient, Abort, HashFails,
           SendDoneFails, ReaderFails, vars, netVars
      <4> QED
        BY <2>1, <4>1
    <3> QED
      BY <2>1, <3>1, <3>2, <3>3, <3>4
  <2> QED
    BY <2>4, <2>5
<1> QED
  BY <1>1, <1>2, <1>3

LEMMA SizeKeptStep ==
  ASSUME TypeOK, Carried, Asked, DoneAlone, SizeKept, [Next]_vars
  PROVE  SizeKept'
<1>1. CASE doneReceived \/ (\E c \in Conn : handler[c].msg.kind = "done")
  BY <1>1, SizeOKStep, TailZeroStep DEF SizeKept
<1>2. ASSUME NEW c \in Conn, handler'[c].msg.kind = "done", handler[c].msg.kind # "done"
      PROVE  SizeOK' /\ TailZero'
  <2>1. Read(c) /\ 1 \in 1 .. Len(c2s[c]) /\ c2s[c][1].kind = "done"
    BY <1>2, HandSource DEF NoMsg
  <2>2. handler[c].last = 0
    BY <2>1 DEF DoneAlone
  <2>3. dst' = Resize(dst, src.size) /\ UNCHANGED src
    BY <2>1, <2>2 DEF Read, inputVars
  <2>4. src.size \in Nat /\ Pos \subseteq Nat
    BY SourceFacts, Sizes
  <2>5. dst'.size = src.size /\ \A i \in Pos : i >= src.size => dst'.data[i] = 0
    BY <2>3, <2>4 DEF Resize
  <2> QED
    BY <2>3, <2>5 DEF SizeOK, TailZero
<1>3. doneReceived' => doneReceived \/ \E d \in Conn : handler[d].msg.kind = "done"
  <2>1. ASSUME NEW d \in Conn, Reply(d)
        PROVE  doneReceived' = doneReceived \/ handler[d].msg.kind = "done"
    BY <2>1 DEF Reply, loopVars
  <2>2. CASE \A d \in Conn : ~Reply(d)
    <3>1. UNCHANGED doneReceived
      BY <2>2, DeathOnly DEF Next, LoopStep, Accept, Receive, Epilogue, ArmShutdown, CheckDone,
             CheckIdle, Leave, Fire, HandlerStep, Read, Zero, Write, Set, End, Return, HasherStep,
             TakeJob, HashBlock, Publish, WorkerStep, Take, Ask, Transmit, Connect, Compare,
             EndWorker, MainStep, SendDone, EndClient, AskFails, ReplyFails, Break, Abort,
             HashFails, SendDoneFails, ReaderFails, vars, loopVars
    <3> QED
      BY <3>1
  <2> QED
    BY <2>1, <2>2
<1> QED
  BY <1>1, <1>2, <1>3 DEF SizeKept

LEMMA SizeInvStep ==
  ASSUME Shape, Asked, DoneUnsent, DoneLast, SizeInv, [Next]_vars
  PROVE  SizeInv'
BY LastFreshStep, DoneAloneStep, SizeKeptStep DEF SizeInv, Shape

\* The size of an upload's destination is the source's when the server has left after DONE, or,
\* where the source ends in a short block of zeros, that of whole blocks (server.go:160), or what
\* lies between where the write of those zeros failed part way: with any faults, retries and late
\* writes, as DONE's handler truncates and nothing written reaches past.
THEOREM UploadTailSize == Spec => []TailSize
<1>1. Init => MirrorInv /\ SizeInv
  BY InitShape, InitFraming, InitTruthful, InitEof, InitBooks, InitSize DEF MirrorInv, SkipInv
<1>2. MirrorInv /\ SizeInv /\ [Next]_vars => (MirrorInv /\ SizeInv)'
  BY MirrorInvStep, SizeInvStep DEF MirrorInv, SkipInv, EofInv, Barrier
<1>3. MirrorInv /\ SizeInv => TailSize
  BY DEF MirrorInv, Barrier, DoneKnown, SizeInv, SizeKept, SizeOK, TailSize
<1> QED
  BY <1>1, <1>2, <1>3, PTL DEF Spec

---------------------------------------------------------------------------
(* An undisturbed upload is a copy.                                        *)

\* A hash that an undisturbed server makes: none of a failed read, and one mark for the end.
Sane(h) == h.kind # "ERR" /\ (h.kind = "EOF" => h = EofMark)

\* Without faults no connection breaks, nothing is unread, and no read of the server's has failed.
Calm ==
  faults = 0 =>
    /\ broken = {}
    /\ \A b \in Block : outcome[b].what # "unread" /\ Sane(cache[b])
    /\ \A p \in Hashers : Sane(hasher[p].got)
    /\ \A c \in Conn : \A i \in 1 .. Len(s2c[c]) : Sane(s2c[c][i].hash)

\* Every block handed out to precomputation has a hash, or a worker that makes one.
Computed ==
  /\ \A p \in Hashers : hasher[p].pc = "set" => hasher[p].got # None
  /\ \A b \in Block : ServerSkip <= b /\ b < nextJob /\ b <= maxId =>
       cache[b] # None \/ \E p \in Hashers : hasher[p].pc # "idle" /\ hasher[p].blk = b

\* The client asks for no block below its -s.
FromSkip ==
  /\ todo \subseteq {b \in Block : b >= ClientSkip}
  /\ \A w \in Workers : Busy(w) => worker[w].blk >= ClientSkip

\* A block to send has data, or is zeros, which need none.
Sendable(b) == HasData(b) \/ SrcHash(b) = ZeroHash

\* Without faults only blocks without data are given up.
Kept == faults = 0 => \A b \in Block : Sendable(b) => ~Given(b)

\* The process ends on the shutdown timer, or by a fault.
Stops == NoIdleTimer /\ (faults = 0 => server \in {"running", "doneExit"})

CalmInv == Calm /\ Computed /\ FromSkip /\ Kept /\ Stops

\* The premises of Copies on how the two sides are started: the server has a file to hash, and
\* hashes all the blocks the client asks for.
Prepared == ServerSkip <= ClientSkip /\ \A f \in Targets : f.size > 0

LEMMA SaneHashes ==
  /\ Sane(None) /\ Sane(ZeroHash) /\ Sane(EofMark)
  /\ \A d : Sane(Sum(d)) /\ Sane(BlockHash(d)) /\ Sum(d) # None /\ BlockHash(d) # None
  /\ ZeroHash # None /\ EofMark # None /\ ErrMark # None
BY DEF Sane, None, ZeroHash, EofMark, ErrMark, Sum, BlockHash

LEMMA InitCalm == Prepared /\ Init => CalmInv
<1> SUFFICES ASSUME Prepared, Init PROVE CalmInv
  OBVIOUS
<1>1. Calm
  BY SaneHashes DEF Init, Calm
<1>2. Computed
  <2>1. nextJob = ServerSkip /\ \A p \in Hashers : hasher[p].pc = "idle"
    BY DEF Init, Prepared
  <2>2. \A b \in Block : ~(ServerSkip <= b /\ b < nextJob)
    BY <2>1, UploadAssumption, Sizes
  <2> QED
    BY <2>1, <2>2 DEF Computed
<1>3. FromSkip
  <2>1. todo = ClientSkip .. LastSrc /\ todo \subseteq Block /\ \A w \in Workers : ~Busy(w)
    BY InitType DEF Init, TypeOK, Busy
  <2> QED
    BY <2>1, UploadAssumption DEF FromSkip
<1>4. Kept
  BY DEF Init, Kept, Given
<1>5. Stops
  BY DEF Init, LoopInit, Stops, NoIdleTimer, Timer
<1> QED
  BY <1>1, <1>2, <1>3, <1>4, <1>5 DEF CalmInv

\* A step after which there has been no fault.
LEMMA CalmSteps ==
  ASSUME TypeOK, [Next]_vars, faults' = 0
  PROVE  /\ faults = 0 /\ ~ServerDies /\ ~ReaderFails
         /\ \A c \in Conn : ~Break(c) /\ ~Abort(c)
         /\ \A p \in Hashers : ~HashFails(p)
         /\ SendDoneFails => Refused(Main)
         /\ \A w \in Workers : AskFails(w) => Refused(w)
         /\ \A w \in Workers : ReplyFails(w) => NoReply(link[w])
<1>1. faults \in Nat
  BY UploadAssumption DEF TypeOK
<1>2. ~Fault
  BY <1>1 DEF Fault
<1>3. faults' = faults
  BY <1>2, DeathOnly DEF Next, LoopStep, HandlerStep, Read, Reply, Zero, Write, Set, End,
         HasherStep, TakeJob, HashBlock, Publish, WorkerStep, Take, Ask, Compare, EndWorker,
         MainStep, SendDone, EndClient, AskFails, ReplyFails, Break, Abort, HashFails,
         SendDoneFails, ReaderFails, vars
<1> QED
  BY <1>2, <1>3, DeathOnly DEF SendDoneFails, ReaderFails, Break, Abort, HashFails, AskFails,
         ReplyFails

LEMMA StopsStep ==
  ASSUME Shape, Stops, [Next]_vars
  PROVE  Stops'
<1>0. TypeOK /\ LoopInv /\ [LoopNext]_loopVars
  BY LoopSim DEF Shape
<1>1. NoIdleTimer'
  BY <1>0, NoIdleStep DEF Stops
<1>2. ASSUME faults' = 0 PROVE server' \in {"running", "doneExit"}
  <2>1. faults = 0 /\ ~ServerDies
    BY <1>0, <1>2, CalmSteps
  <2>2. ASSUME NEW t \in Timer, Fire(t) PROVE server' \in {"running", "doneExit", "idleExit"}
    BY <2>2 DEF Fire
  <2>3. ASSUME \A t \in Timer : ~Fire(t) PROVE server' = server
    BY <2>1, <2>3 DEF Next, LoopStep, Accept, Receive, Epilogue, ArmShutdown, CheckDone,
           CheckIdle, Leave, HandlerStep, Read, Reply, StoreDone, Zero, Write, Set, End, Return,
           HasherStep, TakeJob, HashBlock, Publish, WorkerStep, Take, Ask, Transmit, Connect,
           Compare, EndWorker, MainStep, SendDone, EndClient, AskFails, ReplyFails, Break, Abort,
           HashFails, SendDoneFails, ReaderFails, vars, loopVars
  <2> QED
    BY <1>1, <2>1, <2>2, <2>3 DEF Stops, NoIdleTimer
<1> QED
  BY <1>1, <1>2 DEF Stops

LEMMA SaneCache ==
  ASSUME TypeOK, [Next]_vars, faults' = 0, Calm, NEW b \in Block
  PROVE  Sane(cache'[b])
<1>0. /\ cache \in [Block -> Hash] /\ faults = 0 /\ Sane(cache[b])
      /\ \A p \in Hashers : Sane(hasher[p].got)
  BY TruthTyped, CalmSteps DEF Calm
<1>1. ASSUME NEW p \in Hashers, Publish(p)
      PROVE  Sane(cache'[b])
  <2>1. cache'[b] \in {cache[b], hasher[p].got}
    BY <1>0, <1>1 DEF Publish
  <2> QED
    BY <1>0, <2>1
<1>2. ASSUME NEW c \in Conn, Set(c)
      PROVE  Sane(cache'[b])
  <2>1. \E d : cache'[b] \in {cache[b], ZeroHash, Sum(d)}
    BY <1>0, <1>2 DEF Set
  <2> QED
    BY <1>0, <2>1, SaneHashes
<1>3. CASE (\A p \in Hashers : ~Publish(p)) /\ (\A c \in Conn : ~Set(c))
  <2>1. UNCHANGED cache
    BY <1>3, DeathOnly DEF Next, LoopStep, HandlerStep, Read, Reply, Zero, Write, End, HasherStep,
           TakeJob, HashBlock, WorkerStep, Take, Ask, Compare, EndWorker, MainStep, SendDone,
           EndClient, AskFails, ReplyFails, Break, Abort, HashFails, SendDoneFails, ReaderFails,
           vars, cacheVars
  <2> QED
    BY <1>0, <2>1
<1> QED
  BY <1>1, <1>2, <1>3

LEMMA SaneHashers ==
  ASSUME TypeOK, [Next]_vars, faults' = 0, Calm, NEW p \in Hashers
  PROVE  Sane(hasher'[p].got)
<1>0. /\ hasher \in [Hashers -> [pc : {"idle", "read", "set"}, blk : Block, got : Hash]]
      /\ Sane(hasher[p].got) /\ \A q \in Hashers : ~HashFails(q)
  BY TruthTyped, CalmSteps DEF Calm
<1>1. ASSUME NEW q \in Hashers, TakeJob(q) \/ HashBlock(q) \/ Publish(q)
      PROVE  Sane(hasher'[p].got)
  <2>1. CASE HashBlock(q)
    <3>1. \E d : hasher'[p].got \in {hasher[p].got, EofMark, BlockHash(d)}
      BY <1>0, <2>1 DEF HashBlock
    <3> QED
      BY <1>0, <3>1, SaneHashes
  <2>2. CASE TakeJob(q) \/ Publish(q)
    <3>1. hasher'[p].got \in {hasher[p].got, None}
      BY <1>0, <2>2 DEF TakeJob, Publish
    <3> QED
      BY <1>0, <3>1, SaneHashes
  <2> QED
    BY <1>1, <2>1, <2>2
<1>2. CASE \A q \in Hashers : ~TakeJob(q) /\ ~HashBlock(q) /\ ~Publish(q)
  <2>1. UNCHANGED hasher
    BY <1>0, <1>2, DeathOnly DEF Next, LoopStep, HandlerStep, Read, Reply, Zero, Write, Set, End,
           HasherStep, WorkerStep, Take, Ask, Compare, EndWorker, MainStep, SendDone, EndClient,
           AskFails, ReplyFails, Break, Abort, SendDoneFails, ReaderFails, vars, cacheVars
  <2> QED
    BY <1>0, <2>1
<1> QED
  BY <1>1, <1>2

LEMMA CalmStep ==
  ASSUME TypeOK, Calm, [Next]_vars
  PROVE  Calm'
<1> SUFFICES ASSUME faults' = 0
             PROVE  /\ broken' = {}
                    /\ \A b \in Block : outcome'[b].what # "unread" /\ Sane(cache'[b])
                    /\ \A p \in Hashers : Sane(hasher'[p].got)
                    /\ \A c \in Conn : \A i \in 1 .. Len(s2c'[c]) : Sane(s2c'[c][i].hash)
  BY DEF Calm, Sane
<1>0. /\ faults = 0 /\ broken = {} /\ ~ReaderFails
      /\ \A c \in Conn : ~Break(c) /\ ~Abort(c)
      /\ \A b \in Block : outcome[b].what # "unread" /\ Sane(cache[b])
      /\ \A c \in Conn : \A i \in 1 .. Len(s2c[c]) : Sane(s2c[c][i].hash)
  BY CalmSteps DEF Calm
<1>1. broken' = {}
  <2>1. UNCHANGED broken
    BY <1>0, DeathOnly DEF Next, LoopStep, HandlerStep, Read, Reply, Zero, Write, Set, End,
           HasherStep, TakeJob, HashBlock, Publish, WorkerStep, Take, Ask, Compare, EndWorker,
           MainStep, SendDone, EndClient, AskFails, ReplyFails, HashFails, SendDoneFails, vars,
           netVars
  <2> QED
    BY <1>0, <2>1
<1>2. ASSUME NEW b \in Block
      PROVE  outcome'[b].what # "unread"
  <2>0. outcome \in [Block -> Result]
    BY DEF TypeOK
  <2>1. ASSUME NEW w \in Workers, Ask(w) \/ Compare(w) \/ AskFails(w) \/ ReplyFails(w)
        PROVE  outcome'[b].what # "unread"
    <3>1. CASE Ask(w)
      BY <1>0, <3>1 DEF Ask
    <3>2. ASSUME NEW what \in {"insync", "sent"}, Settle(w, what)
          PROVE  outcome'[b].what # "unread"
      BY <1>0, <2>0, <3>2 DEF Settle
    <3>3. ASSUME NEW closed \in BOOLEAN, Retry(w, closed)
          PROVE  outcome'[b].what # "unread"
      BY <1>0, <2>0, <3>3 DEF Retry
    <3> QED
      BY <2>1, <3>1, <3>2, <3>3 DEF Compare, AskFails, ReplyFails
  <2>2. ASSUME NEW w \in Workers, Take(w) \/ EndWorker(w)
        PROVE  outcome'[b].what # "unread"
    BY <1>0, <2>2 DEF Take, EndWorker
  <2> QED
    BY <1>0, <2>1, <2>2, BooksStill
<1>3. ASSUME NEW c \in Conn, NEW i \in 1 .. Len(s2c'[c])
      PROVE  Sane(s2c'[c][i].hash)
  <2>1. \A b : Answer(b) = ZeroHash \/ Answer(b) = cache[b]
    BY DEF Answer
  <2>2. handler[c].msg.blk \in Block
    BY TruthTyped
  <2> QED
    BY <1>0, <2>1, <2>2, ReplySource, SaneHashes
<1> QED
  BY <1>1, <1>2, <1>3, SaneCache, SaneHashers

LEMMA ComputedStep ==
  ASSUME TypeOK, Computed, [Next]_vars
  PROVE  Computed'
<1>0. /\ cache \in [Block -> Hash] /\ UNCHANGED maxId /\ nextJob \in Nat
      /\ hasher \in [Hashers -> [pc : {"idle", "read", "set"}, blk : Block, got : Hash]]
  <2>1. UNCHANGED maxId
    BY DeathOnly DEF Next, LoopStep, HandlerStep, Read, Reply, Zero, Write, Set, End, HasherStep,
           TakeJob, HashBlock, Publish, WorkerStep, Take, Ask, Compare, EndWorker, MainStep,
           SendDone, EndClient, AskFails, ReplyFails, Break, Abort, HashFails, SendDoneFails,
           ReaderFails, vars, fileVars, inputVars
  <2> QED
    BY <2>1, TruthTyped DEF TypeOK
<1> DEFINE Made(b) == cache[b] # None \/ \E p \in Hashers : hasher[p].pc # "idle" /\ hasher[p].blk = b
           Got(p)  == hasher[p].pc = "set" => hasher[p].got # None
<1>1. /\ \A p \in Hashers : Got(p)
      /\ \A b \in Block : ServerSkip <= b /\ b < nextJob /\ b <= maxId => Made(b)
  BY DEF Computed
<1> SUFFICES /\ \A p \in Hashers : Got(p)'
             /\ \A b \in Block : ServerSkip <= b /\ b < nextJob' /\ b <= maxId => Made(b)'
  BY <1>0 DEF Computed
<1>2. ASSUME NEW q \in Hashers, TakeJob(q)
      PROVE  /\ \A p \in Hashers : Got(p)'
             /\ \A b \in Block : ServerSkip <= b /\ b < nextJob' /\ b <= maxId => Made(b)'
  <2>1. /\ hasher[q].pc = "idle" /\ nextJob' = nextJob + 1 /\ cache' = cache
        /\ hasher'[q].pc = "read" /\ hasher'[q].blk = nextJob
        /\ \A p \in Hashers : p # q => hasher'[p] = hasher[p]
    BY <1>0, <1>2 DEF TakeJob
  <2>2. ASSUME NEW b \in Block, ServerSkip <= b, b < nextJob', b <= maxId
        PROVE  Made(b)'
    <3>1. b < nextJob \/ b = nextJob
      BY <1>0, <2>1, <2>2, Sizes
    <3> QED
      BY <1>1, <2>1, <2>2, <3>1
  <2> QED
    BY <1>1, <2>1, <2>2
<1>3. ASSUME NEW q \in Hashers, HashBlock(q) \/ HashFails(q)
      PROVE  /\ \A p \in Hashers : Got(p)'
             /\ \A b \in Block : ServerSkip <= b /\ b < nextJob' /\ b <= maxId => Made(b)'
  <2>1. /\ cache' = cache /\ nextJob' = nextJob /\ hasher[q].pc = "read"
        /\ hasher'[q].pc = "set" /\ hasher'[q].blk = hasher[q].blk
        /\ \E d : hasher'[q].got \in {EofMark, ErrMark, BlockHash(d)}
        /\ \A p \in Hashers : p # q => hasher'[p] = hasher[p]
    BY <1>0, <1>3 DEF HashBlock, HashFails
  <2> QED
    BY <1>1, <2>1, SaneHashes
<1>4. ASSUME NEW q \in Hashers, Publish(q)
      PROVE  /\ \A p \in Hashers : Got(p)'
             /\ \A b \in Block : ServerSkip <= b /\ b < nextJob' /\ b <= maxId => Made(b)'
  <2>1. /\ nextJob' = nextJob /\ hasher[q].pc = "set" /\ hasher[q].blk \in Block
        /\ hasher'[q].pc = "idle" /\ cache'[hasher[q].blk] = hasher[q].got
        /\ \A b \in Block : b # hasher[q].blk => cache'[b] = cache[b]
        /\ \A p \in Hashers : p # q => hasher'[p] = hasher[p]
    BY <1>0, <1>4 DEF Publish
  <2>2. \A p \in Hashers : Got(p)'
    BY <1>1, <2>1
  <2>3. ASSUME NEW b \in Block, Made(b)
        PROVE  Made(b)'
    BY <1>1, <2>1, <2>3
  <2> QED
    BY <1>1, <2>1, <2>2, <2>3
<1>5. ASSUME NEW c \in Conn, Set(c)
      PROVE  /\ \A p \in Hashers : Got(p)'
             /\ \A b \in Block : ServerSkip <= b /\ b < nextJob' /\ b <= maxId => Made(b)'
  <2>1. hasher' = hasher /\ nextJob' = nextJob
    BY <1>5 DEF Set
  <2>2. \A b \in Block : \E d : cache'[b] \in {cache[b], ZeroHash, Sum(d)}
    BY <1>0, <1>5 DEF Set
  <2>3. \A b \in Block : cache[b] # None => cache'[b] # None
    BY <2>2, SaneHashes
  <2> QED
    BY <1>1, <2>1, <2>3
<1>6. CASE /\ \A q \in Hashers : ~HasherStep(q) /\ ~HashFails(q)
           /\ \A c \in Conn : ~Set(c)
  <2>1. UNCHANGED cacheVars
    BY <1>6, DeathOnly DEF Next, LoopStep, HandlerStep, Read, Reply, Zero, Write, End, WorkerStep,
           Take, Ask, Compare, EndWorker, MainStep, SendDone, EndClient, AskFails, ReplyFails,
           Break, Abort, SendDoneFails, ReaderFails, vars, cacheVars
  <2> QED
    BY <1>1, <2>1 DEF cacheVars
<1> QED
  BY <1>2, <1>3, <1>4, <1>5, <1>6 DEF HasherStep

LEMMA FromSkipStep ==
  ASSUME TypeOK, FromSkip, [Next]_vars
  PROVE  FromSkip'
<1>0. worker \in [Workers -> [pc : {"idle", "ask", "reply", "ended"}, blk : Block,
                              try : 0 .. MaxRetries - 1]]
  BY Typed
<1>1. ASSUME NEW w \in Workers, Ask(w) \/ Compare(w) \/ AskFails(w) \/ ReplyFails(w)
      PROVE  FromSkip'
  <2>1. /\ Busy(w) /\ todo' = todo
        /\ \A v \in Workers : v # w => worker'[v] = worker[v]
        /\ Busy(w)' => worker'[w].blk = worker[w].blk
    BY <1>1, BusyMoves
  <2> QED
    BY <2>1 DEF FromSkip, Busy
<1>2. ASSUME NEW w \in Workers, Take(w)
      PROVE  FromSkip'
  <2>1. PICK b \in todo : /\ todo' = todo \ {b}
                          /\ worker' = [worker EXCEPT ![w] = [pc |-> "ask", blk |-> b, try |-> 0]]
    BY <1>2 DEF Take
  <2>2. worker'[w].blk = b /\ \A v \in Workers : v # w => worker'[v] = worker[v]
    BY <1>0, <2>1
  <2> QED
    BY <2>1, <2>2 DEF FromSkip, Busy
<1>3. ASSUME NEW w \in Workers, EndWorker(w)
      PROVE  FromSkip'
  BY <1>0, <1>3 DEF EndWorker, FromSkip, Busy
<1>4. CASE ReaderFails
  BY <1>4 DEF ReaderFails, FromSkip, Busy
<1>5. CASE UNCHANGED <<todo, worker, outcome>>
  BY <1>5 DEF FromSkip, Busy
<1> QED
  BY <1>1, <1>2, <1>3, <1>4, <1>5, BooksStill

\* Without faults a worker with a block or a connection finds the server running,
LEMMA ServerThere ==
  ASSUME MirrorInv, Stops, faults = 0, NEW w \in Workers, Busy(w) \/ link[w] # NoConn
  PROVE  server = "running"
<1>1. worker[w].pc # "ended"
  BY DEF MirrorInv, EndedIdle, Busy
<1>2. main = "waiting"
  BY <1>1 DEF MirrorInv, Barrier, DoneLast
<1> QED
  BY <1>2 DEF Stops, MirrorInv, Barrier, DoneUnsent, DoneKnown

\* and nobody waits in vain: a worker's connection is alive, and the reply it waits for is
\* neither a mark nor one that nobody computes.
LEMMA NobodyWaits ==
  ASSUME Prepared, MirrorInv, Calm, Computed, FromSkip, Stops, faults = 0,
         NEW w \in Workers, link[w] # NoConn
  PROVE  ~Dead(link[w]) /\ (Busy(w) => ~NoReply(link[w]))
<1> DEFINE c == link[w]
<1>0. /\ TypeOK /\ c \in Conn /\ broken = {} /\ Framed(w, c) /\ w \in Agent
      /\ s2c \in [Conn -> Seq([blk : Block, hash : Hash])]
      /\ worker[w].blk \in Block /\ nextJob \in Nat /\ maxId \in Block
      /\ server = "running"
  <2>1. TypeOK
    BY DEF MirrorInv, SkipInv, Shape
  <2>2. Framing
    BY DEF MirrorInv, SkipInv
  <2> QED
    BY <2>1, <2>2, Typed, ServerThere DEF Calm, Framing, TypeOK
<1> HIDE DEF c
<1>1. ~Dead(c)
  BY <1>0 DEF MirrorInv, Intact, Dead, Alive, c
<1>2. ~(s2c[c] # <<>> /\ Head(s2c[c]).hash.kind \in {"EOF", "ERR"})
  <2> SUFFICES ASSUME s2c[c] # <<>>, Head(s2c[c]).hash.kind \in {"EOF", "ERR"} PROVE FALSE
    OBVIOUS
  <2>1. 1 \in 1 .. Len(s2c[c]) /\ Head(s2c[c]) = s2c[c][1]
    BY <1>0, TailFacts
  <2>2. Sane(s2c[c][1].hash) /\ s2c[c][1].hash # EofMark
    BY <1>0, <2>1 DEF Calm, MirrorInv, EofInv, NoEof
  <2> QED
    BY <2>1, <2>2 DEF Sane
<1>3. ASSUME Busy(w), handler[c].pc = "wait", handler[c].msg.blk <= maxId,
             cache[handler[c].msg.blk] = None, PrecomputeOver
      PROVE  FALSE
  <2> DEFINE b == worker[w].blk
  <2>1. handler[c].msg.blk = b
    BY <1>0, <1>3 DEF Framed
  <2>2. b >= ClientSkip /\ b \in Nat /\ b <= maxId /\ maxId \in Nat
    BY <1>0, <1>3, <2>1, Sizes DEF FromSkip
  <2>3. ServerSkip <= b /\ b < nextJob
    BY <1>0, <1>3, <2>2, UploadAssumption DEF Prepared, PrecomputeOver
  <2> QED
    BY <1>0, <1>3, <2>1, <2>2, <2>3 DEF Computed, PrecomputeOver
<1> QED
  BY <1>0, <1>1, <1>2, <1>3 DEF NoReply, c

LEMMA KeptStep ==
  ASSUME Prepared, MirrorInv, CalmInv, [Next]_vars
  PROVE  Kept'
<1>0. /\ TypeOK /\ Carried /\ outcome \in [Block -> Result]
  BY DEF MirrorInv, SkipInv, Shape, TypeOK
<1>1. UNCHANGED inputVars /\ \A b \in Block : Sendable(b)' = Sendable(b)
  BY <1>0, StepTowards DEF inputVars, Sendable, HasData, SrcHash, SrcBlock
<1> SUFFICES ASSUME faults' = 0, NEW b \in Block, Sendable(b), Given(b)'
             PROVE  FALSE
  BY <1>1 DEF Kept
<1>2. faults = 0 /\ broken = {} /\ broken' = {} /\ outcome'[b].what # "unread"
  BY <1>0, CalmSteps, CalmStep DEF CalmInv, Calm
<1>3. outcome'[b].what = "failed" /\ outcome[b].what # "failed"
  BY <1>2 DEF Given, CalmInv, Kept
<1>4. ASSUME NEW w \in Workers, Ask(w) \/ Compare(w) \/ AskFails(w) \/ ReplyFails(w)
      PROVE  FALSE
  <2>1. Busy(w) /\ worker[w].blk = b
    BY <1>0, <1>3, <1>4, BusyMoves
  <2>2. /\ link[w] # NoConn => ~Dead(link[w]) /\ ~NoReply(link[w])
        /\ server = "running"
    BY <1>2, <2>1, NobodyWaits, ServerThere DEF CalmInv
  <2>3. ~AskFails(w) /\ ~ReplyFails(w) /\ ~Ask(w)
    BY <1>0, <1>3, <2>2, CalmSteps DEF Ask, ReplyFails, Refused
  <2>4. Compare(w) /\ link[w] # NoConn
    BY <1>4, <2>3 DEF Compare
  <2>5. ASSUME NEW what \in {"insync", "sent"}, Settle(w, what)
        PROVE  FALSE
    BY <1>0, <1>3, <2>5 DEF Settle
  <2>6. SrcHash(b) # ZeroHash /\ ~HasData(b)
    BY <2>1, <2>2, <2>4, <2>5 DEF Compare
  <2> QED
    BY <2>6 DEF Sendable
<1>5. ASSUME NEW w \in Workers, Take(w) \/ EndWorker(w)
      PROVE  FALSE
  BY <1>3, <1>5 DEF Take, EndWorker
<1>6. ~ReaderFails
  BY <1>0, CalmSteps
<1> QED
  BY <1>3, <1>4, <1>5, <1>6, BooksStill

\* When the server has left after DONE, what differs is excused.
Arrived == Over => Differ \subseteq Excused

LEMMA ArrivedStep ==
  ASSUME Workers # {}, MirrorInv, Arrived, [Next]_vars
  PROVE  Arrived'
<1>0. TypeOK /\ Carried /\ Assigned
  BY DEF MirrorInv, SkipInv, Shape
<1>1. CASE Over
  <2>1. UNCHANGED <<src, dst, outcome, broken>>
    BY <1>0, <1>1, OverStill, OverStep, StepTowards DEF inputVars
  <2> QED
    BY <1>1, <2>1 DEF Arrived, Differ, InSync, Excused, Given
<1>2. CASE ~Over /\ Over'
  <2>1. Differ \subseteq Excused /\ UNCHANGED <<src, dst, outcome, broken>>
    BY <1>0, <1>2, OverStep, DoneMeansDone
  <2> QED
    BY <2>1 DEF Arrived, Differ, InSync, Excused, Given
<1> QED
  BY <1>1, <1>2 DEF Arrived

\* What holds of an undisturbed upload, all together.
CopyInv == MirrorInv /\ SizeInv /\ CalmInv /\ Arrived

LEMMA CopyInvHolds ==
  ASSUME Workers # {}, Prepared
  PROVE  Spec => []CopyInv
<1>1. Init => CopyInv
  <2>1. Init => Arrived
    BY DEF Init, LoopInit, Arrived, Over
  <2> QED
    BY <2>1, InitShape, InitFraming, InitTruthful, InitEof, InitBooks, InitCalm, InitSize
       DEF CopyInv, MirrorInv, SkipInv
<1>2. CopyInv /\ [Next]_vars => CopyInv'
  <2> SUFFICES ASSUME MirrorInv, SizeInv, CalmInv, Arrived, [Next]_vars PROVE CopyInv'
    BY DEF CopyInv
  <2>1. TypeOK /\ Shape
    BY DEF MirrorInv, SkipInv, Shape
  <2>2. CalmInv'
    BY <2>1, CalmStep, ComputedStep, FromSkipStep, KeptStep, StopsStep DEF CalmInv
  <2>3. SizeInv'
    BY SizeInvStep DEF MirrorInv, SkipInv, EofInv, Barrier
  <2> QED
    BY <2>2, <2>3, MirrorInvStep, ArrivedStep DEF CopyInv
<1> QED
  BY <1>1, <1>2, PTL DEF Spec

\* An undisturbed upload copies: without faults no block is given up but one that -n leaves
\* without data, and when the server leaves after DONE each of the others is right. It takes a
\* worker, and a server that has a file to hash and hashes what the client asks for.
THEOREM UploadCopies ==
  ASSUME Workers # {}, Prepared
  PROVE  Spec => []Copies
<1>1. CopyInv => Copies
  BY DEF CopyInv, Copies, CalmInv, Kept, Sendable, Arrived, Over, Differ, Excused
<1> QED
  BY <1>1, CopyInvHolds, PTL

\* The whole of it, from the first byte and without -n: every byte of the destination is the
\* source's, those behind the source's end are zeros, and the size is the source's or, behind a
\* short last block of zeros, that of whole blocks.
IsCopy ==
  server = "doneExit" /\ faults = 0 /\ ~noCompress =>
    /\ dst.data = src.data
    /\ \/ dst.size = src.size
       \/ dst.size = Start(LastSrc + 1) /\ SrcHash(LastSrc) = ZeroHash

\* An undisturbed upload without -s and -n leaves a copy of the source on the server.
THEOREM UploadIsCopy ==
  ASSUME Workers # {}, Prepared, ClientSkip = 0
  PROVE  Spec => []IsCopy
<1>1. CopyInv => IsCopy
  <2> SUFFICES ASSUME CopyInv, server = "doneExit", faults = 0, ~noCompress
               PROVE  dst.data = src.data /\ SizeOK
    BY DEF IsCopy, SizeOK
  <2>0. /\ TypeOK /\ src \in File /\ dst \in File /\ src.size \in Nat
        /\ src.size \in 0 .. BlockCount * BlockSize
    BY SourceFacts DEF CopyInv, MirrorInv, SkipInv, Shape, TypeOK
  <2>1. SizeOK /\ TailZero
    BY DEF CopyInv, SizeInv, SizeKept, MirrorInv, Barrier, DoneKnown
  <2>2. \A b \in Block : InSync(b)
    <3>1. \A b \in Block : b >= 0 /\ HasData(b)
      BY Sizes DEF HasData
    <3> QED
      BY <3>1 DEF CopyInv, CalmInv, Kept, Sendable, Arrived, Over, Differ, Excused
  <2>3. ASSUME NEW i \in Pos
        PROVE  dst.data[i] = src.data[i]
    <3>1. CASE i < src.size
      <4>1. PICK b \in Block : i \in Span(b)
        BY PosInSpan
      <4> QED
        BY <2>2, <3>1, <4>1 DEF InSync
    <3>2. CASE i >= src.size
      BY <2>0, <2>1, <3>2, FileElim DEF TailZero
    <3> QED
      BY <2>0, <3>1, <3>2, Sizes
  <2>4. src.data \in [Pos -> Byte] /\ dst.data \in [Pos -> Byte]
    BY <2>0, FileElim
  <2> QED
    BY <2>1, <2>3, <2>4
<1> QED
  BY <1>1, CopyInvHolds, PTL

---------------------------------------------------------------------------
(* Nobody waits for good: what a waiting worker waits for is on its way,   *)
(* or can be made, until the connection dies.                              *)

\* No hash made of a block is the one of no block.
GotSome == \A p \in Hashers : hasher[p].pc = "set" => hasher[p].got # None

\* Where a hash has been handed out it stays: the block of a reply can be answered, and so can that
\* of a zero block, which the client sends only when it has had the block's hash.
AnswerKnown ==
  /\ GotSome
  /\ \A c \in Conn : \A i \in 1 .. Len(s2c[c]) : s2c[c][i].hash # None /\ Answered(s2c[c][i].blk)
  /\ \A c \in Conn : \A i \in 1 .. Len(c2s[c]) : c2s[c][i].kind = "zero" => Answered(c2s[c][i].blk)
  /\ \A c \in Conn : handler[c].msg.kind = "zero" => Answered(handler[c].msg.blk)

LEMMA GotSomeStep ==
  ASSUME TypeOK, GotSome, [Next]_vars
  PROVE  GotSome'
<1>0. hasher \in [Hashers -> [pc : {"idle", "read", "set"}, blk : Block, got : Hash]]
  BY TruthTyped
<1>1. ASSUME NEW q \in Hashers, HasherStep(q) \/ HashFails(q)
      PROVE  GotSome'
  <2>1. CASE HashBlock(q) \/ HashFails(q)
    <3>1. /\ \E d : hasher'[q].got \in {EofMark, ErrMark, BlockHash(d)}
          /\ \A p \in Hashers : p # q => hasher'[p] = hasher[p]
      BY <1>0, <2>1 DEF HashBlock, HashFails
    <3> QED
      BY <3>1, SaneHashes DEF GotSome
  <2>2. CASE TakeJob(q) \/ Publish(q)
    <3>1. /\ hasher'[q].pc # "set"
          /\ \A p \in Hashers : p # q => hasher'[p] = hasher[p]
      BY <1>0, <2>2 DEF TakeJob, Publish
    <3> QED
      BY <3>1 DEF GotSome
  <2> QED
    BY <1>1, <2>1, <2>2 DEF HasherStep
<1>2. CASE \A q \in Hashers : ~HasherStep(q) /\ ~HashFails(q)
  <2>1. UNCHANGED hasher
    BY <1>2, DeathOnly DEF Next, LoopStep, HandlerStep, Read, Reply, Zero, Write, Set, End,
           WorkerStep, Take, Ask, Compare, EndWorker, MainStep, SendDone, EndClient, AskFails,
           ReplyFails, Break, Abort, SendDoneFails, ReaderFails, vars, cacheVars
  <2> QED
    BY <2>1 DEF GotSome
<1> QED
  BY <1>1, <1>2

\* What has been answered once always will be.
LEMMA AnsweredStays ==
  ASSUME TypeOK, GotSome, [Next]_vars, NEW b \in Block, Answered(b)
  PROVE  Answered(b)'
<1>0. /\ cache \in [Block -> Hash]
      /\ hasher \in [Hashers -> [pc : {"idle", "read", "set"}, blk : Block, got : Hash]]
  BY TruthTyped
<1>1. UNCHANGED maxId
  BY DeathOnly DEF Next, LoopStep, HandlerStep, Read, Reply, Zero, Write, Set, End, HasherStep,
         TakeJob, HashBlock, Publish, WorkerStep, Take, Ask, Compare, EndWorker, MainStep,
         SendDone, EndClient, AskFails, ReplyFails, Break, Abort, HashFails, SendDoneFails,
         ReaderFails, vars, fileVars, inputVars
<1>2. ASSUME NEW p \in Hashers, Publish(p)
      PROVE  cache'[b] = cache[b] \/ cache'[b] # None
  <2>1. cache'[b] \in {cache[b], hasher[p].got} /\ hasher[p].got # None
    BY <1>0, <1>2 DEF Publish, GotSome
  <2> QED
    BY <2>1
<1>3. ASSUME NEW c \in Conn, Set(c)
      PROVE  cache'[b] = cache[b] \/ cache'[b] # None
  <2>1. \E d : cache'[b] \in {cache[b], ZeroHash, Sum(d)}
    BY <1>0, <1>3 DEF Set
  <2> QED
    BY <2>1, SaneHashes
<1>4. ASSUME (\A p \in Hashers : ~Publish(p)) /\ (\A c \in Conn : ~Set(c))
      PROVE  cache' = cache
  BY <1>4, DeathOnly DEF Next, LoopStep, HandlerStep, Read, Reply, Zero, Write, End, HasherStep,
         TakeJob, HashBlock, WorkerStep, Take, Ask, Compare, EndWorker, MainStep, SendDone,
         EndClient, AskFails, ReplyFails, Break, Abort, HashFails, SendDoneFails, ReaderFails,
         vars, cacheVars
<1>5. cache'[b] = cache[b] \/ cache'[b] # None
  BY <1>2, <1>3, <1>4
<1> QED
  BY <1>1, <1>5 DEF Answered

LEMMA InitAnswers == Init => AnswerKnown
BY DEF Init, AnswerKnown, GotSome, NoMsg

LEMMA AnswerKnownStep ==
  ASSUME TypeOK, Framing, AnswerKnown, [Next]_vars
  PROVE  AnswerKnown'
<1>0. /\ GotSome /\ GotSome'
      /\ \A c \in Conn : handler[c].msg.blk \in Block
      /\ s2c \in [Conn -> Seq([blk : Block, hash : Hash])]
      /\ c2s \in [Conn -> Seq(Message)]
      /\ Workers \subseteq Agent /\ link \in [Agent -> Conn \cup {NoConn}]
      /\ \A w \in Workers : worker[w].blk \in Block
  BY GotSomeStep, TruthTyped, Typed DEF AnswerKnown
<1>1. ASSUME NEW b \in Block, Answered(b) PROVE Answered(b)'
  BY <1>0, <1>1, AnsweredStays
<1>2. ASSUME NEW c \in Conn, NEW i \in 1 .. Len(s2c'[c]), NEW b, b = s2c'[c][i].blk
      PROVE  s2c'[c][i].hash # None /\ Answered(b)'
  <2>1. ASSUME NEW j \in 1 .. Len(s2c[c]), s2c'[c][i] = s2c[c][j]
        PROVE  s2c'[c][i].hash # None /\ b \in Block /\ Answered(b)
    <3>1. s2c[c][j] \in [blk : Block, hash : Hash]
      BY <1>0, ElementOfSeq
    <3> QED
      BY <1>2, <2>1, <3>1 DEF AnswerKnown
  <2>2. \A a \in Block : Answered(a) => Answer(a) # None
    BY SaneHashes DEF Answer, Answered
  <2>3. s2c'[c][i].hash # None /\ b \in Block /\ Answered(b)
    BY <1>0, <1>2, <2>1, <2>2, ReplySource
  <2> QED
    BY <1>1, <2>3
<1>3. ASSUME NEW w \in Workers, Compare(w)
      PROVE  Answered(worker[w].blk)
  <2>1. link[w] \in Conn /\ s2c[link[w]] # <<>> /\ Framed(w, link[w]) /\ w \in Agent
    BY <1>0, <1>3 DEF Compare, Framing
  <2>2. Len(s2c[link[w]]) = 1 /\ s2c[link[w]][1].blk = worker[w].blk
    BY <2>1 DEF Framed
  <2> QED
    BY <2>1, <2>2 DEF AnswerKnown
<1>4. ASSUME NEW c \in Conn, NEW i \in 1 .. Len(c2s'[c]), c2s'[c][i].kind = "zero",
             NEW b, b = c2s'[c][i].blk
      PROVE  Answered(b)'
  <2>1. ASSUME NEW j \in 1 .. Len(c2s[c]), c2s'[c][i] = c2s[c][j]
        PROVE  b \in Block /\ Answered(b)
    <3>1. c2s[c][j] \in Message
      BY <1>0, ElementOfSeq
    <3> QED
      BY <1>4, <2>1, <3>1 DEF AnswerKnown, Message
  <2>2. ASSUME NEW w \in Workers, Compare(w), b = worker[w].blk
        PROVE  b \in Block /\ Answered(b)
    BY <1>0, <1>3, <2>2
  <2>3. \A k, a : Msg(k, a).kind = k /\ Msg(k, a).blk = a
    BY DEF Msg
  <2>4. b \in Block /\ Answered(b)
    <3>1. Comes(c, c2s'[c][i])
      BY StreamSource
    <3> QED
      BY <1>4, <2>1, <2>2, <2>3, <3>1 DEF Comes
  <2> QED
    BY <1>1, <2>4
<1>5. ASSUME NEW c \in Conn, handler'[c].msg.kind = "zero", NEW b, b = handler'[c].msg.blk
      PROVE  Answered(b)'
  <2>1. CASE handler'[c].msg = handler[c].msg
    BY <1>0, <1>1, <1>5, <2>1 DEF AnswerKnown
  <2>2. CASE 1 \in 1 .. Len(c2s[c]) /\ handler'[c].msg = c2s[c][1]
    <3>1. c2s[c][1] \in Message
      BY <1>0, <2>2, ElementOfSeq
    <3>2. b \in Block /\ Answered(b)
      BY <1>5, <2>2, <3>1 DEF AnswerKnown, Message
    <3> QED
      BY <1>1, <3>2
  <2> QED
    BY <1>5, <2>1, <2>2, HandSource DEF NoMsg
<1> DEFINE Held == \A c \in Conn : \A i \in 1 .. Len(s2c[c]) :
                     s2c[c][i].hash # None /\ \A b \in {s2c[c][i].blk} : Answered(b)
           Zeros1 == \A c \in Conn : \A i \in 1 .. Len(c2s[c]) : c2s[c][i].kind = "zero" =>
                     \A b \in {c2s[c][i].blk} : Answered(b)
           Hands == \A c \in Conn : handler[c].msg.kind = "zero" =>
                     \A b \in {handler[c].msg.blk} : Answered(b)
<1>6. Held' /\ Zeros1' /\ Hands'
  BY <1>2, <1>4, <1>5
<1>7. AnswerKnown' <=> GotSome' /\ Held' /\ Zeros1' /\ Hands'
  BY DEF AnswerKnown
<1> QED
  BY <1>0, <1>6, <1>7

\* A question is on its way on connection c, or with the handler, or its answer is.
Pending(c) ==
  \/ s2c[c] # <<>> \/ handler[c].pc = "wait"
  \/ \E i \in 1 .. Len(c2s[c]) : c2s[c][i].kind = "ask"

\* A worker that waits for a reply waits for something: until the connection dies, its question or
\* the answer is there.
Asking ==
  \A w \in Workers : worker[w].pc = "reply" =>
    link[w] # NoConn /\ (Dead(link[w]) \/ Pending(link[w]))

\* What is dead stays so.
LEMMA DeadStays ==
  ASSUME Shape, [Next]_vars, NEW c \in Conn, Dead(c)
  PROVE  Dead(c)'
<1>1. /\ TypeOK /\ LoopInv /\ [LoopNext]_loopVars /\ broken \subseteq broken'
      /\ stage \in [Conn -> Stage]
  BY LoopSim, Typed, BrokenGrows DEF Shape
<1>2. CASE c \in broken
  BY <1>1, <1>2 DEF Dead
<1>3. CASE stage[c] \notin {"unused", "queued", "offered", "serving"}
  <2>1. stage'[c] # "unused" /\ stage'[c] \notin Alive
    BY <1>1, <1>3, UsedStays, AliveSource DEF Alive
  <2> QED
    BY <2>1 DEF Dead, Alive
<1>4. CASE server # "running"
  BY <1>4, StillRunning DEF Dead
<1> QED
  BY <1>2, <1>3, <1>4 DEF Dead

\* A worker begins to wait with a question sent, and then does nothing but wait.
LEMMA AskingSource ==
  ASSUME TypeOK, [Next]_vars, NEW w \in Workers, worker'[w].pc = "reply", ~Ask(w)
  PROVE  worker[w].pc = "reply" /\ ~WorkerStep(w) /\ ~AskFails(w) /\ ~ReplyFails(w)
<1>0. worker \in [Workers -> [pc : {"idle", "ask", "reply", "ended"}, blk : Block,
                              try : 0 .. MaxRetries - 1]]
  BY Typed
<1>1. \A closed \in BOOLEAN : Retry(w, closed) => worker'[w].pc # "reply"
  BY <1>0 DEF Retry
<1>2. \A what : Settle(w, what) => worker'[w].pc # "reply"
  BY <1>0 DEF Settle
<1>3. ~Compare(w) /\ ~AskFails(w) /\ ~ReplyFails(w)
  BY <1>1, <1>2 DEF Compare, AskFails, ReplyFails
<1>4. ~Take(w) /\ ~EndWorker(w)
  BY <1>0 DEF Take, EndWorker
<1>5. worker'[w] = worker[w]
  <2>1. ASSUME NEW v \in Workers, v # w, Ask(v) \/ Compare(v) \/ AskFails(v) \/ ReplyFails(v)
        PROVE  worker'[w] = worker[w]
    BY <2>1, BusyMoves
  <2>2. ASSUME NEW v \in Workers, v # w, Take(v) \/ EndWorker(v)
        PROVE  worker'[w] = worker[w]
    BY <1>0, <2>2 DEF Take, EndWorker
  <2>3. CASE \A v \in Workers : /\ ~Ask(v) /\ ~Compare(v) /\ ~AskFails(v) /\ ~ReplyFails(v)
                                /\ ~Take(v) /\ ~EndWorker(v)
    <3>1. worker' = worker
      <4>1. CASE ReaderFails
        BY <4>1 DEF ReaderFails
      <4>2. CASE ~ReaderFails
        BY <2>3, <4>2, BooksStill
      <4> QED
        BY <4>1, <4>2
    <3> QED
      BY <3>1
  <2> QED
    BY <1>3, <1>4, <2>1, <2>2, <2>3
<1> QED
  BY <1>3, <1>4, <1>5 DEF WorkerStep

\* What a waiting worker waits for stays on its connection until that one dies.
LEMMA PendingStays ==
  ASSUME Shape, Framing, [Next]_vars, NEW w \in Workers, NEW c \in Conn, link[w] = c, ~Dead(c),
         Pending(c), ~Compare(w)
  PROVE  Dead(c)' \/ Pending(c)'
<1>0. /\ TypeOK /\ w \in Agent /\ c # NoConn /\ stage[c] # "unused" /\ broken \subseteq broken'
      /\ link \in [Agent -> Conn \cup {NoConn}] /\ Workers \subseteq Agent
      /\ handler \in [Conn -> [pc : HandlerPc, msg : Message, last : {0, LastSrc}]]
      /\ s2c \in [Conn -> Seq([blk : Block, hash : Hash])] /\ stage \in [Conn -> Stage]
      /\ \A d \in Conn : handler[d].msg.blk \in Block
      /\ \A v \in Workers : link[v] = c => v = w
  <2>1. TypeOK /\ w \in Agent /\ c # NoConn
    BY Typed DEF Shape
  <2> QED
    BY <2>1, Typed, TruthTyped, BrokenGrows DEF Framing, Links
<1>1. c \notin broken /\ ~Closed(c)
  BY <1>0 DEF Dead, Closed
<1>2. Break(c) \/ Abort(c) => Dead(c)'
  BY DEF Break, Abort, Dead
<1>3. End(c) => Dead(c)'
  BY <1>0 DEF End, Return, Goto, Dead
<1>4. ASSUME Reply(c) PROVE s2c'[c] # <<>>
  BY <1>0, <1>1, <1>4 DEF Reply
<1>5. CASE s2c[c] # <<>>
  <2>1. ASSUME NEW v \in Workers, Compare(v) PROVE s2c'[c] = s2c[c]
    BY <1>0, <2>1 DEF Compare
  <2>2. ASSUME NEW d \in Conn, d # c, Break(d) \/ Reply(d) PROVE s2c'[c] = s2c[c]
    BY <1>0, <2>2 DEF Break, Reply
  <2>3. ASSUME (\A v \in Workers : ~Compare(v)) /\ (\A d \in Conn : ~Break(d) /\ ~Reply(d))
        PROVE  s2c' = s2c
    BY <2>3, DeathOnly DEF Next, LoopStep, HandlerStep, Read, Zero, Write, Set, End, HasherStep,
           TakeJob, HashBlock, Publish, WorkerStep, Take, Ask, EndWorker, MainStep, SendDone,
           EndClient, AskFails, ReplyFails, Abort, HashFails, SendDoneFails, ReaderFails, vars,
           netVars
  <2> QED
    BY <1>2, <1>4, <1>5, <2>1, <2>2, <2>3 DEF Pending
<1>6. CASE handler[c].pc = "wait"
  <2>1. CASE ~HandlerStep(c) /\ ~Abort(c)
    BY <1>0, <1>6, <2>1, HandlerStill DEF Pending
  <2>2. CASE HandlerStep(c)
    <3>1. Reply(c)
      BY <1>6, <2>2 DEF HandlerStep, Read, Zero, Write, Set, End, Running
    <3> QED
      BY <1>4, <3>1 DEF Pending
  <2> QED
    BY <1>2, <2>1, <2>2
<1>7. ASSUME NEW i \in 1 .. Len(c2s[c]), c2s[c][i].kind = "ask"
      PROVE  Dead(c)' \/ Pending(c)'
  <2>1. CASE Read(c) /\ i = 1
    <3>1. Head(c2s[c]) = c2s[c][1]
      BY <1>0, <2>1, Typed, TailFacts DEF Read
    <3>2. handler'[c].pc = "wait"
      BY <1>0, <1>7, <2>1, <3>1 DEF Read
    <3> QED
      BY <3>2 DEF Pending
  <2>2. ASSUME NEW j \in 1 .. Len(c2s'[c]), c2s'[c][j] = c2s[c][i]
        PROVE  Pending(c)'
    BY <1>7, <2>2 DEF Pending
  <2>3. \/ \E j \in 1 .. Len(c2s'[c]) : c2s'[c][j] = c2s[c][i]
        \/ Break(c) \/ End(c)
        \/ Read(c) /\ i = 1
    BY <1>0, StreamKept
  <2> QED
    BY <1>2, <1>3, <2>1, <2>2, <2>3
<1> QED
  BY <1>5, <1>6, <1>7 DEF Pending

LEMMA AskingStep ==
  ASSUME Shape, Framing, Asking, [Next]_vars
  PROVE  Asking'
<1>0. /\ TypeOK /\ link \in [Agent -> Conn \cup {NoConn}] /\ Workers \subseteq Agent
      /\ NoConn \notin Conn /\ c2s \in [Conn -> Seq(Message)] /\ stage \in [Conn -> Stage]
      /\ \A w \in Workers : worker[w].blk \in Block
  BY Typed DEF Shape
<1> SUFFICES ASSUME NEW w \in Workers, worker'[w].pc = "reply"
             PROVE  link'[w] # NoConn /\ \E c \in Conn : c = link'[w] /\ (Dead(c)' \/ Pending(c)')
  BY DEF Asking
<1>1. CASE Ask(w)
  <2> DEFINE m == Msg("ask", worker[w].blk)
  <2>1. m \in Message /\ m.kind = "ask" /\ Transmit(w, m)
    BY <1>0, <1>1, MsgType DEF Ask, Msg, MsgKind
  <2> HIDE DEF m
  <2>2. CASE link[w] = NoConn
    <3>1. PICK c \in Conn : link' = [link EXCEPT ![w] = c] /\ c2s' = [c2s EXCEPT ![c] = <<m>>]
      BY <2>1, <2>2 DEF Transmit
    <3>2. link'[w] = c /\ c2s'[c] = <<m>>
      BY <1>0, <3>1
    <3>3. 1 \in 1 .. Len(c2s'[c]) /\ c2s'[c][1].kind = "ask"
      BY <2>1, <3>2
    <3> QED
      BY <1>0, <3>2, <3>3 DEF Pending
  <2>3. CASE link[w] # NoConn
    <3> DEFINE c == link[w]
    <3>1. c \in Conn /\ link'[w] = c /\ c2s' = Send(c2s, c, m) /\ UNCHANGED <<stage, broken, server>>
      BY <1>0, <1>1, <2>1, <2>3 DEF Transmit, loopVars, Ask
    <3> HIDE DEF c
    <3>2. CASE Dead(c)
      BY <1>0, <3>1, <3>2 DEF Dead
    <3>3. CASE ~Dead(c)
      <4>1. c2s'[c] = Append(c2s[c], m) /\ c2s[c] \in Seq(Message)
        BY <1>0, <3>1, <3>3 DEF Send
      <4>2. /\ Len(c2s[c]) \in Nat /\ Len(c2s'[c]) = Len(c2s[c]) + 1
            /\ c2s'[c][Len(c2s[c]) + 1] = m
        BY <2>1, <4>1, AppendFacts
      <4>3. Len(c2s[c]) + 1 \in 1 .. Len(c2s'[c])
        BY <4>2
      <4> QED
        BY <1>0, <2>1, <3>1, <4>2, <4>3 DEF Pending
    <3> QED
      BY <3>2, <3>3
  <2> QED
    BY <2>2, <2>3
<1>2. CASE ~Ask(w)
  <2>1. worker[w].pc = "reply" /\ ~Compare(w) /\ link'[w] = link[w]
    BY <1>0, <1>2, AskingSource, LinkStill DEF WorkerStep
  <2>2. PICK c \in Conn : c = link[w] /\ (Dead(c) \/ Pending(c))
    BY <1>0, <2>1 DEF Asking
  <2>3. Dead(c)' \/ Pending(c)'
    BY <2>1, <2>2, DeadStays, PendingStays
  <2> QED
    BY <1>0, <2>1, <2>2, <2>3
<1> QED
  BY <1>1, <1>2

---------------------------------------------------------------------------
(* The client's goroutines go on, through any faults.                      *)

\* What a goroutine of the server, or of the client, can do now.
HandlerCan(c) ==
  /\ server = "running" /\ stage[c] = "serving"
  /\ \/ handler[c].pc \in {"write", "writeZero", "set", "end"}
     \/ handler[c].pc \in {"wait", "waitZero"} /\ Answered(handler[c].msg.blk)
     \/ handler[c].pc = "read" /\ (c2s[c] # <<>> \/ Closed(c) \/ c \in broken)

\* The shutdown timer goes on to wait as long as a connection counts.
LoopCan ==
  /\ server = "running"
  /\ \/ backlog # <<>> /\ \A c \in Conn : stage[c] # "offered"
     \/ \E c \in Conn : stage[c] \in {"offered", "arming", "checkDone", "checkIdle", "leaving"}
     \/ timer["shutdown"] = "armed" /\ activeConns = 0

HasherCan(p) == server = "running" /\ (hasher[p].pc # "idle" \/ nextJob <= maxId)

ServerCan == LoopCan \/ (\E c \in Conn : HandlerCan(c)) \/ \E p \in Hashers : HasherCan(p)

\* The model has a number left for a new connection.
Room == \E c \in Conn : stage[c] = "unused"

WorkerCan(w) ==
  \/ worker[w].pc = "idle"
  \/ worker[w].pc = "ask" /\ (link[w] # NoConn \/ Refused(w) \/ Room)
  \/ /\ worker[w].pc = "reply" /\ link[w] # NoConn
     /\ \/ s2c[link[w]] # <<>> /\ Head(s2c[link[w]]).hash # None
        \/ NoReply(link[w])

MainCan ==
  \/ /\ main = "waiting" /\ \A w \in Workers : worker[w].pc = "ended"
     /\ link[Main] # NoConn \/ Refused(Main) \/ Room
  \/ main = "sent"

\* Every worker has a step, or waits for what the server is about to do; main waits only for the
\* workers. (Where the model has no number left for a connection nobody can come.)
ClientGoesOn ==
  /\ \A w \in Workers : \/ worker[w].pc = "ended" \/ WorkerCan(w) \/ ServerCan
                        \/ worker[w].pc = "ask" /\ ~Room
  /\ main # "over" => MainCan \/ (\E w \in Workers : worker[w].pc # "ended") \/ ~Room

\* The client's side of the invariant.
GoOnInv == Shape /\ Framing /\ EndedIdle /\ Barrier /\ Intact /\ AnswerKnown /\ Asking /\ Stops

LEMMA InitGoOn == Init => GoOnInv
<1> SUFFICES ASSUME Init PROVE GoOnInv
  OBVIOUS
<1>1. Asking /\ Stops
  BY DEF Init, LoopInit, Asking, Stops, NoIdleTimer, Timer
<1> QED
  BY <1>1, InitShape, InitFraming, InitBooks, InitAnswers DEF GoOnInv

LEMMA GoOnStep == GoOnInv /\ [Next]_vars => GoOnInv'
<1> SUFFICES ASSUME GoOnInv, [Next]_vars PROVE GoOnInv'
  OBVIOUS
<1>1. Shape /\ TypeOK
  BY DEF GoOnInv, Shape
<1> QED
  BY <1>1, ShapeStep, FramingStep, EndedStep, BarrierStep, IntactStep, AnswerKnownStep,
     AskingStep, StopsStep DEF GoOnInv

\* A handler with something to do does it, or waits for a hash that is not there.
LEMMA HandlerGoes ==
  ASSUME GoOnInv, NEW c \in Conn, server = "running", stage[c] = "serving",
         handler[c].pc # "read" \/ c2s[c] # <<>>
  PROVE  HandlerCan(c) \/ (handler[c].pc = "wait" /\ ~Answered(handler[c].msg.blk))
<1>1. handler[c].pc \in HandlerPc /\ Fitting(handler[c].pc, handler[c].msg.kind)
  BY Typed DEF GoOnInv, Shape, Carried
<1>2. handler[c].pc = "waitZero" => Answered(handler[c].msg.blk)
  BY <1>1 DEF Fitting, GoOnInv, AnswerKnown
<1> QED
  BY <1>1, <1>2 DEF HandlerCan, HandlerPc

\* Precomputation still makes the hash, or some other one, or is over.
LEMMA HashGoes ==
  ASSUME TypeOK, Hashers # {}, server = "running"
  PROVE  PrecomputeOver \/ \E p \in Hashers : HasherCan(p)
<1>1. PICK p \in Hashers : TRUE
  OBVIOUS
<1>2. CASE nextJob <= maxId
  BY <1>1, <1>2 DEF HasherCan
<1>3. CASE ~(nextJob <= maxId) /\ \E q \in Hashers : hasher[q].pc # "idle"
  BY <1>3 DEF HasherCan
<1>4. CASE ~(nextJob <= maxId) /\ \A q \in Hashers : hasher[q].pc = "idle"
  <2>1. nextJob \in Nat /\ maxId \in Nat
    BY Sizes DEF TypeOK, Block
  <2> QED
    BY <1>4, <2>1 DEF PrecomputeOver
<1> QED
  BY <1>2, <1>3, <1>4

\* A connection that came is accepted and received.
LEMMA ConnectionGoes ==
  ASSUME LoopInv, server = "running", NEW c \in Conn, stage[c] \in {"queued", "offered"}
  PROVE  LoopCan
<1>1. CASE \E d \in Conn : stage[d] = "offered"
  BY <1>1 DEF LoopCan
<1>2. CASE \A d \in Conn : stage[d] # "offered"
  <2>1. PICK i \in 1 .. Len(backlog) : backlog[i] = c
    BY <1>2 DEF LoopInv, Queue
  <2>2. backlog # <<>>
    BY <2>1
  <2> QED
    BY <1>2, <2>2 DEF LoopCan
<1> QED
  BY <1>1, <1>2

\* A waiting worker's reply can be read, or can never come, or the server is about to go on.
LEMMA ReplyGoes ==
  ASSUME GoOnInv, Hashers # {}, server = "running", NEW w \in Workers, worker[w].pc = "reply"
  PROVE  WorkerCan(w) \/ ServerCan
<1> DEFINE c == link[w]
<1>0. /\ c \in Conn /\ c # NoConn /\ LoopInv /\ (Dead(c) \/ Pending(c))
      /\ s2c[c] \in Seq([blk : Block, hash : Hash]) /\ stage[c] \in Stage /\ stage[c] # "unused"
      /\ handler[c].msg.blk \in Block
  <2>1. TypeOK /\ w \in Agent
    BY Typed DEF GoOnInv, Shape
  <2>2. c \in Conn /\ c # NoConn /\ (Dead(c) \/ Pending(c))
    BY <2>1, Typed DEF GoOnInv, Asking
  <2> QED
    BY <2>1, <2>2, Typed, TruthTyped DEF GoOnInv, Shape, Framing, Links
<1> HIDE DEF c
<1>1. CASE s2c[c] # <<>>
  <2>1. Len(s2c[c]) \in Nat /\ Len(s2c[c]) >= 1 /\ Head(s2c[c]) = s2c[c][1]
    BY <1>0, <1>1, TailFacts
  <2>2. s2c[c][1].hash # None
    BY <1>0, <2>1 DEF GoOnInv, AnswerKnown
  <2> QED
    BY <1>0, <1>1, <2>1, <2>2 DEF WorkerCan, c
<1>2. CASE s2c[c] = <<>> /\ Dead(c)
  BY <1>0, <1>2 DEF WorkerCan, NoReply, c
<1>3. CASE s2c[c] = <<>> /\ ~Dead(c)
  <2>0. stage[c] \in {"queued", "offered", "serving"}
    BY <1>0, <1>3 DEF Dead
  <2>1. CASE stage[c] \in {"queued", "offered"}
    BY <1>0, <2>1, ConnectionGoes DEF ServerCan
  <2>2. CASE stage[c] = "serving"
    <3>1. handler[c].pc # "read" \/ c2s[c] # <<>>
      BY <1>0, <1>3 DEF Pending
    <3>2. CASE HandlerCan(c)
      BY <1>0, <3>2 DEF ServerCan
    <3>3. CASE handler[c].pc = "wait" /\ ~Answered(handler[c].msg.blk)
      <4>1. handler[c].msg.blk <= maxId /\ cache[handler[c].msg.blk] = None
        <5>1. handler[c].msg.blk \in Nat /\ maxId \in Nat
          BY <1>0, Sizes DEF GoOnInv, Shape, TypeOK, Block
        <5> QED
          BY <3>3, <5>1 DEF Answered
      <4>2. CASE PrecomputeOver
        BY <1>0, <1>3, <3>3, <4>1, <4>2 DEF NoReply, WorkerCan, c
      <4> QED
        BY <4>2, HashGoes DEF ServerCan, GoOnInv, Shape
    <3> QED
      BY <1>0, <2>2, <3>1, <3>2, <3>3, HandlerGoes
  <2> QED
    BY <2>0, <2>1, <2>2
<1> QED
  BY <1>1, <1>2, <1>3

\* No goroutine of the client waits for good, through any faults: a worker that waits for a reply
\* gets it, or its deadline, as soon as the handlers, the accept loop and precomputation
\* can do no more, and fails when the server has ended; and main waits for the workers only. It takes a precompute worker.
THEOREM UploadClientGoesOn ==
  ASSUME Hashers # {}
  PROVE  Spec => []ClientGoesOn
<1>1. ASSUME GoOnInv PROVE ClientGoesOn
  <2>1. ASSUME NEW w \in Workers
        PROVE  \/ worker[w].pc = "ended" \/ WorkerCan(w) \/ ServerCan
               \/ worker[w].pc = "ask" /\ ~Room
    <3>1. worker[w].pc \in {"idle", "ask", "reply", "ended"}
      BY <1>1, Typed DEF GoOnInv, Shape
    <3>2. worker[w].pc = "reply" => link[w] # NoConn
      BY <1>1 DEF GoOnInv, Asking
    <3>3. server # "running" => NoReply(link[w])
      BY DEF NoReply
    <3> QED
      BY <1>1, <3>1, <3>2, <3>3, ReplyGoes DEF WorkerCan
  <2>2. ASSUME main # "over" PROVE MainCan \/ (\E w \in Workers : worker[w].pc # "ended") \/ ~Room
    <3>1. main \in {"waiting", "sent"}
      BY <1>1, <2>2 DEF GoOnInv, Shape, TypeOK
    <3> QED
      BY <3>1 DEF MainCan
  <2> QED
    BY <2>1, <2>2 DEF ClientGoesOn
<1> QED
  BY <1>1, InitGoOn, GoOnStep, PTL DEF Spec

---------------------------------------------------------------------------
(* Once DONE is sent the server goes on, without faults, until it leaves.  *)

\* Without faults DONE, once sent, is on the last connection there is: on its stream, in its
\* handler's hand, stored, or its timer runs.
Leading(d) ==
  \/ stage[d] = "arming"
  \/ stage[d] \in {"checkDone", "checkIdle", "leaving", "gone"} /\ timer["shutdown"] = "armed"

DoneAt(d) ==
  /\ stage[d] # "unused" /\ \A c \in Conn : c > d => stage[c] = "unused"
  /\ link[Main] \in {NoConn, d}
  /\ \/ stage[d] \in Alive /\ c2s[d] = <<Msg("done", 0)>> /\ handler[d].pc = "read"
     \/ stage[d] \in Alive /\ handler[d].pc = "wait" /\ handler[d].msg = Msg("done", 0)
     \/ Leading(d)

DoneLeads == faults = 0 /\ main # "waiting" /\ server = "running" => \E d \in Conn : DoneAt(d)

\* After DONE has been sent no connection comes.
LEMMA NoneComes ==
  ASSUME Shape, DoneLast, [Next]_vars, main # "waiting", NEW c \in Conn, stage[c] = "unused"
  PROVE  stage'[c] = "unused"
<1>0. /\ TypeOK /\ stage \in [Conn -> Stage] /\ backlog \in Seq(Conn)
      /\ \A w \in Workers : ~WorkerStep(w) /\ ~AskFails(w) /\ ~ReplyFails(w)
  BY AllEnded DEF Shape, TypeOK, LoopTypeOK
<1>1. CASE Accept
  <2> DEFINE e == Head(backlog)
  <2>1. backlog # <<>> /\ stage' = [stage EXCEPT ![e] = "offered"]
    BY <1>1 DEF Accept, Goto
  <2>2. Len(backlog) >= 1 /\ e = backlog[1] /\ 1 \in 1 .. Len(backlog)
    BY <1>0, <2>1, TailFacts
  <2>3. stage[e] = "queued"
    BY <2>2 DEF Shape, LoopInv, Queue
  <2> HIDE DEF e
  <2> QED
    BY <1>0, <2>1, <2>3
<1>2. ASSUME NEW d \in Conn, Receive(d) \/ Return(d) \/ StoreDone(d)
      PROVE  stage'[c] = "unused"
  BY <1>0, <1>2 DEF Receive, Return, StoreDone, Goto
<1>3. ASSUME NEW d \in Conn, Epilogue(d)
      PROVE  stage'[c] = "unused"
  BY <1>0, <1>3 DEF Epilogue, ArmShutdown, CheckDone, CheckIdle, Leave, Goto
<1>4. CASE UNCHANGED stage
  BY <1>4
<1>5. CASE LoopStep
  <2>1. (\E t \in Timer : Fire(t)) => UNCHANGED stage
    BY DEF Fire
  <2> QED
    BY <1>1, <1>2, <1>3, <1>4, <1>5, <2>1 DEF LoopStep
<1>6. ASSUME NEW d \in Conn, HandlerStep(d)
      PROVE  stage'[c] = "unused"
  <2>1. \/ Return(d) \/ StoreDone(d)
        \/ UNCHANGED stage
    BY <1>6 DEF HandlerStep, Read, Reply, Zero, Write, Set, End, loopVars
  <2> QED
    BY <1>2, <1>4, <2>1
<1>7. CASE ~LoopStep /\ \A d \in Conn : ~HandlerStep(d)
  <2>1. UNCHANGED stage
    BY <1>0, <1>7, DeathOnly DEF Next, HasherStep, TakeJob, HashBlock, Publish, MainStep, SendDone,
           EndClient, Break, Abort, HashFails, SendDoneFails, ReaderFails, vars, loopVars
  <2> QED
    BY <1>4, <2>1
<1> QED
  BY <1>5, <1>6, <1>7

\* The timer that DONE on the last connection starts is not stopped.
LEMMA LeadingStays ==
  ASSUME LoopInv, [LoopNext]_loopVars, server = "running", server' = "running",
         NEW d \in Conn, Leading(d), \A c \in Conn : c > d => stage[c] = "unused"
  PROVE  Leading(d)'
<1> USE DEF Leading
<1>0. timer \in [Timer -> {"stopped", "armed"}] /\ stage \in [Conn -> Stage]
  BY DEF LoopInv, LoopTypeOK
<1>1. ASSUME NEW c \in Conn, Receive(c) PROVE FALSE
  <2>1. c > d \/ c = d \/ c < d
    BY DEF Conn
  <2>2. c < d => stage[c] \in Served
    BY DEF LoopInv, InOrder, Served, Counted
  <2> QED
    BY <1>1, <2>1, <2>2 DEF Receive, Served, Counted
<1>2. CASE Accept
  <2> DEFINE e == Head(backlog)
  <2>1. backlog # <<>> /\ stage' = [stage EXCEPT ![e] = "offered"] /\ timer' = timer
    BY <1>2 DEF Accept, Goto
  <2>2. backlog \in Seq(Conn)
    BY DEF LoopInv, LoopTypeOK
  <2>3. Len(backlog) >= 1 /\ e = backlog[1] /\ 1 \in 1 .. Len(backlog)
    BY <2>1, <2>2, TailFacts
  <2>4. stage[e] = "queued"
    BY <2>3 DEF LoopInv, Queue
  <2> HIDE DEF e
  <2> QED
    BY <1>0, <2>1, <2>4
<1>3. ASSUME NEW c \in Conn, ArmShutdown(c) PROVE Leading(d)'
  BY <1>0, <1>3 DEF ArmShutdown, Goto, Timer
<1>4. ASSUME NEW c \in Conn, CheckIdle(c) PROVE Leading(d)'
  BY <1>0, <1>4 DEF CheckIdle, Goto, Timer
<1>5. ASSUME NEW c \in Conn,
             Connect(c) \/ Return(c) \/ StoreDone(c) \/ CheckDone(c) \/ Leave(c)
      PROVE  Leading(d)'
  BY <1>0, <1>5 DEF Connect, Return, StoreDone, CheckDone, Leave, Goto
<1>6. ASSUME NEW t \in Timer, Fire(t) PROVE Leading(d)'
  BY <1>0, <1>6 DEF Fire, Timer
<1>7. UNCHANGED loopVars => Leading(d)'
  BY DEF loopVars
<1> QED
  BY <1>1, <1>2, <1>3, <1>4, <1>5, <1>6, <1>7 DEF LoopNext, AcceptError, TruncateError

\* SendDone puts DONE on the last connection there is.
LEMMA DoneStarts ==
  ASSUME GoOnInv, SendDone
  PROVE  \E d \in Conn : DoneAt(d)'
<1>0. /\ TypeOK /\ LoopInv /\ stage \in [Conn -> Stage] /\ c2s \in [Conn -> Seq(Message)]
      /\ link \in [Agent -> Conn \cup {NoConn}] /\ Main \in Agent /\ handler' = handler
      /\ link[Main] = NoConn
  BY Typed DEF GoOnInv, Shape, SendDone, Barrier, DoneUnsent
<1>1. PICK d \in Conn : /\ Connect(d) /\ link' = [link EXCEPT ![Main] = d]
                        /\ c2s' = [c2s EXCEPT ![d] = <<Msg("done", 0)>>]
  BY <1>0 DEF SendDone, Transmit
<1>2. link'[Main] = d /\ c2s'[d] = <<Msg("done", 0)>> /\ stage'[d] = "queued"
      /\ handler'[d].pc = "read" /\ Msg("done", 0)' = Msg("done", 0)
  BY <1>0, <1>1 DEF Connect, Goto, GoOnInv, Framing, Links, Msg
<1>3. ASSUME NEW c \in Conn, c > d PROVE stage'[c] = "unused"
  <2>1. stage[c] = "unused"
    BY <1>0, <1>1, <1>3 DEF Connect, LoopInv, Arrival, Conn
  <2> QED
    BY <1>0, <1>1, <1>3, <2>1 DEF Connect, Goto, Conn
<1> QED
  BY <1>2, <1>3 DEF DoneAt, Alive

LEMMA DoneAtStep ==
  ASSUME GoOnInv, Calm, [Next]_vars, faults' = 0, main # "waiting", server = "running",
         server' = "running", NEW d \in Conn, DoneAt(d)
  PROVE  DoneAt(d)'
<1>0. /\ TypeOK /\ LoopInv /\ Shape /\ DoneLast /\ [LoopNext]_loopVars /\ stage \in [Conn -> Stage]
      /\ c2s \in [Conn -> Seq(Message)] /\ s2c \in [Conn -> Seq([blk : Block, hash : Hash])]
      /\ handler \in [Conn -> [pc : HandlerPc, msg : Message, last : {0, LastSrc}]]
      /\ broken = {} /\ (\A c \in Conn : ~Break(c) /\ ~Abort(c)) /\ ~SendDone
      /\ \A w \in Workers : ~WorkerStep(w) /\ ~AskFails(w) /\ ~ReplyFails(w)
      /\ link \in [Agent -> Conn \cup {NoConn}] /\ Main \in Agent
      /\ Msg("done", 0)' = Msg("done", 0)
  <2>1. Shape /\ TypeOK /\ LoopInv /\ DoneLast
    BY DEF GoOnInv, Shape, Barrier
  <2>2. broken = {}
    BY <2>1, CalmSteps DEF Calm
  <2>3. ~SendDone
    BY DEF SendDone
  <2>4. Msg("done", 0)' = Msg("done", 0)
    BY DEF Msg
  <2> QED
    BY <2>1, <2>2, <2>3, <2>4, LoopSim, Typed, CalmSteps, AllEnded
<1>1. stage'[d] # "unused" /\ \A c \in Conn : c > d => stage'[c] = "unused"
  BY <1>0, UsedStays, NoneComes DEF DoneAt
<1>2. link'[Main] \in {NoConn, d}
  <2>1. link' = link \/ EndClient
    BY <1>0, DeathOnly DEF Next, LoopStep, HandlerStep, Read, Reply, Zero, Write, Set, End,
           HasherStep, TakeJob, HashBlock, Publish, MainStep, HashFails, SendDoneFails,
           ReaderFails, vars, netVars
  <2>2. EndClient => link'[Main] = NoConn
    BY <1>0 DEF EndClient
  <2> QED
    BY <2>1, <2>2 DEF DoneAt
<1>3. ~End(d) /\ ~Reply(d) /\ stage[d] \in Alive => stage'[d] \in Alive
  BY <1>0, AliveStays
<1>4. CASE stage[d] \in Alive /\ c2s[d] = <<Msg("done", 0)>> /\ handler[d].pc = "read"
  <2>1. ~End(d) /\ ~Reply(d)
    BY <1>4 DEF End, Reply, Running
  <2>2. CASE Read(d)
    <3>1. Head(c2s[d]) = Msg("done", 0) /\ Msg("done", 0).kind = "done"
      BY <1>4 DEF Msg
    <3>2. handler'[d].pc = "wait" /\ handler'[d].msg = Msg("done", 0)
      BY <1>0, <2>2, <3>1 DEF Read
    <3> QED
      BY <1>0, <1>1, <1>2, <1>3, <1>4, <2>1, <3>2 DEF DoneAt, Alive
  <2>3. CASE ~Read(d)
    <3>1. ~HandlerStep(d)
      BY <1>4, <2>1, <2>3 DEF HandlerStep, Zero, Write, Set, Running
    <3>2. handler'[d] = handler[d]
      BY <1>0, <3>1, HandlerStill
    <3>3. c2s'[d] = c2s[d]
      <4>1. ASSUME NEW c \in Conn, c # d, Read(c) \/ End(c) PROVE c2s'[d] = c2s[d]
        BY <1>0, <4>1 DEF Read, End
      <4>2. ASSUME \A c \in Conn : ~Read(c) /\ ~End(c) PROVE c2s' = c2s
        BY <1>0, <4>2, DeathOnly DEF Next, LoopStep, HandlerStep, Reply, Zero, Write, Set,
               HasherStep, TakeJob, HashBlock, Publish, MainStep, EndClient, HashFails,
               SendDoneFails, ReaderFails, vars, netVars
      <4> QED
        BY <2>1, <2>3, <4>1, <4>2
    <3> QED
      BY <1>0, <1>1, <1>2, <1>3, <1>4, <2>1, <3>2, <3>3 DEF DoneAt, Alive
  <2> QED
    BY <2>2, <2>3
<1>5. CASE stage[d] \in Alive /\ handler[d].pc = "wait" /\ handler[d].msg = Msg("done", 0)
  <2>1. CASE Reply(d)
    <3>1. StoreDone(d)
      BY <1>0, <1>5, <2>1 DEF Reply, Msg
    <3>2. stage'[d] = "arming"
      BY <1>0, <3>1 DEF StoreDone, Goto
    <3> QED
      BY <1>1, <1>2, <3>2 DEF DoneAt, Leading
  <2>2. CASE ~Reply(d)
    <3>1. ~HandlerStep(d) /\ ~End(d)
      BY <1>5, <2>2 DEF HandlerStep, Read, Zero, Write, Set, End, Running
    <3>2. handler'[d] = handler[d]
      BY <1>0, <3>1, HandlerStill
    <3> QED
      BY <1>0, <1>1, <1>2, <1>3, <1>5, <2>2, <3>1, <3>2 DEF DoneAt, Alive
  <2> QED
    BY <2>1, <2>2
<1>6. CASE Leading(d)
  <2>1. Leading(d)'
    BY <1>0, <1>6, LeadingStays DEF DoneAt
  <2> QED
    BY <1>1, <1>2, <2>1 DEF DoneAt
<1> QED
  BY <1>4, <1>5, <1>6 DEF DoneAt

LEMMA DoneLeadsStep ==
  ASSUME GoOnInv, Calm, DoneLeads, [Next]_vars
  PROVE  DoneLeads'
<1> SUFFICES ASSUME faults' = 0, main' # "waiting", server' = "running"
             PROVE  \E d \in Conn : DoneAt(d)'
  BY DEF DoneLeads
<1>0. TypeOK /\ faults = 0 /\ ~ServerDies
  BY CalmSteps DEF GoOnInv, Shape
<1>1. server = "running"
  BY StillRunning
<1>2. CASE main # "waiting"
  BY <1>0, <1>1, <1>2, DoneAtStep DEF DoneLeads
<1>3. CASE main = "waiting"
  <2>0. ~SendDoneFails
    BY <1>0, <1>1, <1>3, CalmSteps DEF GoOnInv, Barrier, DoneUnsent, Refused
  <2>1. SendDone
    BY <1>0, <1>3, <2>0 DEF Next, LoopStep, HandlerStep, Read, Reply, Zero, Write, Set, End, HasherStep,
           TakeJob, HashBlock, Publish, WorkerStep, Take, Ask, Compare, EndWorker, MainStep,
           EndClient, AskFails, ReplyFails, Break, Abort, HashFails, ReaderFails, vars, clientVars
  <2> QED
    BY <2>1, DoneStarts
<1> QED
  BY <1>2, <1>3

\* A server that hashes the whole of its file leaves no handler without an answer.
LEMMA AllAnswered ==
  ASSUME TypeOK, Computed, ServerSkip = 0, NEW b \in Block, PrecomputeOver
  PROVE  Answered(b)
<1>1. b \in Nat /\ maxId \in Nat /\ nextJob \in Nat
  BY Sizes DEF TypeOK, Block
<1>2. CASE b > maxId
  BY <1>2 DEF Answered
<1>3. CASE b <= maxId
  <2>1. ServerSkip <= b /\ b < nextJob
    BY <1>1, <1>3 DEF PrecomputeOver
  <2>2. cache[b] # None
    BY <1>3, <2>1 DEF Computed, PrecomputeOver
  <2> QED
    BY <2>2 DEF Answered
<1> QED
  BY <1>1, <1>2, <1>3

\* A connection at its handler goes on once the client's workers are gone.
LEMMA ServingGoes ==
  ASSUME GoOnInv, Computed, ServerSkip = 0, Hashers # {}, server = "running", NEW c \in Conn,
         stage[c] = "serving", main # "waiting",
         link[Main] # c \/ c2s[c] # <<>> \/ handler[c].pc = "wait"
  PROVE  ServerCan
<1>0. /\ TypeOK /\ handler[c].msg.blk \in Block /\ Workers \subseteq Agent
      /\ \A w \in Workers : link[w] = NoConn
      /\ c # NoConn
  BY Typed, TruthTyped DEF GoOnInv, Shape, EndedIdle, Barrier, DoneLast
<1>1. CASE handler[c].pc = "read" /\ c2s[c] = <<>>
  <2>1. Closed(c)
    BY <1>0, <1>1 DEF Closed, Agent
  <2> QED
    BY <1>1, <2>1 DEF HandlerCan, ServerCan
<1>2. CASE handler[c].pc # "read" \/ c2s[c] # <<>>
  <2>1. CASE PrecomputeOver
    <3>1. Answered(handler[c].msg.blk)
      BY <1>0, <2>1, AllAnswered
    <3> QED
      BY <1>2, <3>1, HandlerGoes DEF ServerCan
  <2>2. CASE ~PrecomputeOver
    BY <1>0, <2>2, HashGoes DEF ServerCan
  <2> QED
    BY <2>1, <2>2
<1> QED
  BY <1>1, <1>2

\* When the client has sent its DONE the server goes on until it leaves.
ServerGoesOn == faults = 0 /\ main # "waiting" /\ server = "running" => ServerCan

\* An undisturbed server that hashes the whole of a file with something in it never waits for
\* good once DONE is sent: the handlers see their connections closed, DONE is answered, and nothing
\* stops the timer that it starts. (An empty destination and -s are the findings about this.)
THEOREM UploadServerGoesOn ==
  ASSUME Hashers # {}, ServerSkip = 0, \A f \in Targets : f.size > 0
  PROVE  Spec => []ServerGoesOn
<1> DEFINE DoneInv == GoOnInv /\ Calm /\ Computed /\ DoneLeads
<1>1. Init => DoneInv
  <2>1. Prepared
    BY UploadAssumption DEF Prepared
  <2>2. Init => DoneLeads
    BY DEF Init, DoneLeads
  <2> QED
    BY <2>1, <2>2, InitCalm, InitGoOn DEF CalmInv
<1>2. DoneInv /\ [Next]_vars => DoneInv'
  BY GoOnStep, CalmStep, ComputedStep, DoneLeadsStep DEF GoOnInv, Shape
<1>3. ASSUME DoneInv PROVE ServerGoesOn
  <2> SUFFICES ASSUME faults = 0, main # "waiting", server = "running" PROVE ServerCan
    BY DEF ServerGoesOn
  <2>a. GoOnInv /\ Computed /\ TypeOK /\ LoopInv
    BY <1>3 DEF GoOnInv, Shape
  <2>0. GoOnInv /\ Computed /\ TypeOK /\ LoopInv /\ stage \in [Conn -> Stage]
    BY <2>a, Typed
  <2>1. PICK d \in Conn : DoneAt(d)
    BY <1>3 DEF DoneLeads
  <2>2. CASE stage[d] \in {"queued", "offered"}
    BY <2>0, <2>2, ConnectionGoes DEF ServerCan
  <2>3. CASE stage[d] = "serving"
    <3>1. c2s[d] # <<>> \/ handler[d].pc = "wait"
      BY <2>1, <2>3 DEF DoneAt, Leading
    <3> QED
      BY <2>0, <2>3, <3>1, ServingGoes
  <2>4. CASE stage[d] \in {"arming", "checkDone", "checkIdle", "leaving"}
    BY <2>4 DEF LoopCan, ServerCan
  <2>5. CASE stage[d] = "gone"
    <3>1. timer["shutdown"] = "armed"
      BY <2>1, <2>5 DEF DoneAt, Leading, Alive
    <3>2. CASE Active = {}
      <4>1. activeConns = 0
        BY <2>0, <3>2, FS_EmptySet DEF LoopInv, ActiveExact, Active
      <4> QED
        BY <3>1, <4>1 DEF LoopCan, ServerCan
    <3>3. ASSUME NEW c \in Conn, stage[c] \in Counted PROVE ServerCan
      <4>1. CASE stage[c] = "serving"
        <5>1. link[Main] # c
          BY <2>1, <2>5, <4>1, Typed, <2>0 DEF DoneAt
        <5> QED
          BY <2>0, <4>1, <5>1, ServingGoes
      <4>2. CASE stage[c] \in {"arming", "checkDone", "checkIdle", "leaving"}
        BY <4>2 DEF LoopCan, ServerCan
      <4> QED
        BY <3>3, <4>1, <4>2 DEF Counted
    <3> QED
      BY <3>2, <3>3 DEF Active
  <2> QED
    BY <2>0, <2>1, <2>2, <2>3, <2>4, <2>5 DEF DoneAt, Stage
<1> QED
  BY <1>1, <1>2, <1>3, PTL DEF Spec
=============================================================================
