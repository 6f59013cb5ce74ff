--------------------------- MODULE ClientPipeline ---------------------------
(***************************************************************************)
(* How a client feeds its transfer workers: SequentialReader (reader.go)   *)
(* reads the blocks in order into one buffered channel, the goroutines of  *)
(* precomputeChecksumsParallel (checksum.go) hash and compress them into a *)
(* second one, and the workers of startClient (client.go) take them from   *)
(* there. Each stage closes its channel when it ends, and DONE goes out    *)
(* when all workers have seen theirs closed and empty. Hashing and what a  *)
(* worker does with a block are left to Upload.                            *)
(***************************************************************************)
EXTENDS Integers, Sequences, FiniteSets

CONSTANTS
  Compressors, Workers,   \* goroutines of the second and the third stage
  Ahead,                  \* capacity of each channel: workers * 2
  LastBlock,              \* (fileSize - 1) / blockSize, before it is cut to an index
  SkipIdx,                \* -s
  IdxMod                  \* block indices are unsigned: 2^32 of them, fewer in a model

ASSUME PipelineAssumption ==
  /\ Ahead \in Nat \ {0} /\ LastBlock \in Nat /\ SkipIdx \in Nat
  /\ IdxMod \in Nat \ {0} /\ SkipIdx < IdxMod

VARIABLES
  next,         \* the reader's blockIdx
  reader,       \* "reading"; "ended" or "failed", and its channel is closed
  blocks,       \* blockChan
  compressor,   \* each compressor: "idle", "ended", or the block in hand
  compressed,   \* precompressedChan
  closed,       \* precompressedChan is closed
  worker,       \* each transfer worker: "idle", "ended", or the block in hand
  taken,        \* how often workers took each block; a third time counts as the second
  main          \* "waiting" for the workers, or "done"

pipeVars == <<next, reader, blocks, compressor, compressed, closed, worker, taken, main>>

Index   == 0 .. IdxMod - 1
Busy(i) == <<"busy", i>>
Idle    == <<"idle">>
Ended   == <<"ended">>

\* lastBlockNum, a uint32.
lastBlockNum == LastBlock % IdxMod

PipeInit ==
  /\ next = SkipIdx
  /\ reader = "reading"
  /\ blocks = <<>> /\ compressed = <<>>
  /\ compressor = [p \in Compressors |-> Idle]
  /\ closed = FALSE
  /\ worker = [w \in Workers |-> Idle]
  /\ taken = [i \in Index |-> 0]
  /\ main = "waiting"

\* The reader reads a block and sends it on.
ReadBlock ==
  /\ reader = "reading" /\ next <= lastBlockNum
  /\ Len(blocks) < Ahead
  /\ blocks' = Append(blocks, next)
  /\ next' = (next + 1) % IdxMod
  /\ UNCHANGED <<reader, compressor, compressed, closed, worker, taken, main>>

\* The reader stops before the last block.
MEndReaderShort ==
  /\ reader = "reading" /\ next >= lastBlockNum
  /\ reader' = "ended"
  /\ UNCHANGED <<next, blocks, compressor, compressed, closed, worker, taken, main>>

\* The reader is through: it closes blockChan.
EndReader ==
  /\ reader = "reading" /\ next > lastBlockNum
  /\ reader' = "ended"
  /\ UNCHANGED <<next, blocks, compressor, compressed, closed, worker, taken, main>>

\* Reading fails: the reader closes blockChan as if it were through. Nobody else hears of it.
FailReader ==
  /\ reader = "reading" /\ next <= lastBlockNum
  /\ reader' = "failed"
  /\ UNCHANGED <<next, blocks, compressor, compressed, closed, worker, taken, main>>

\* A compressor receives a block.
Receive(p) ==
  /\ compressor[p] = Idle /\ blocks # <<>>
  /\ compressor' = [compressor EXCEPT ![p] = Busy(Head(blocks))]
  /\ blocks' = Tail(blocks)
  /\ UNCHANGED <<next, reader, compressed, closed, worker, taken, main>>

\* Forward into a channel without a limit.
MForwardUnlimited(p) ==
  /\ compressor[p] \notin {Idle, Ended}
  /\ compressed' = Append(compressed, compressor[p][2])
  /\ compressor' = [compressor EXCEPT ![p] = Idle]
  /\ UNCHANGED <<next, reader, blocks, closed, worker, taken, main>>

\* Forward that does not wait for room: a block that finds the channel full is dropped.
MForwardDrops(p) ==
  /\ compressor[p] \notin {Idle, Ended}
  /\ compressed' = IF Len(compressed) < Ahead THEN Append(compressed, compressor[p][2])
                   ELSE compressed
  /\ compressor' = [compressor EXCEPT ![p] = Idle]
  /\ UNCHANGED <<next, reader, blocks, closed, worker, taken, main>>

\* ... and, hashed and compressed, sends it on.
Forward(p) ==
  /\ compressor[p] \notin {Idle, Ended}
  /\ Len(compressed) < Ahead
  /\ compressed' = Append(compressed, compressor[p][2])
  /\ compressor' = [compressor EXCEPT ![p] = Idle]
  /\ UNCHANGED <<next, reader, blocks, closed, worker, taken, main>>

\* blockChan is closed and empty.
EndCompressor(p) ==
  /\ compressor[p] = Idle /\ blocks = <<>> /\ reader # "reading"
  /\ compressor' = [compressor EXCEPT ![p] = Ended]
  /\ UNCHANGED <<next, reader, blocks, compressed, closed, worker, taken, main>>

\* The channel closed as soon as the reader is through and its channel empty.
MCloseEarly ==
  /\ ~closed /\ reader # "reading" /\ blocks = <<>>
  /\ closed' = TRUE
  /\ UNCHANGED <<next, reader, blocks, compressor, compressed, worker, taken, main>>

\* The channel closed only when the workers are through, as by a deferred close in startClient.
MCloseLate ==
  /\ ~closed /\ main = "done"
  /\ closed' = TRUE
  /\ UNCHANGED <<next, reader, blocks, compressor, compressed, worker, taken, main>>

\* The goroutine that waits for the compressors closes precompressedChan.
Close ==
  /\ ~closed /\ \A p \in Compressors : compressor[p] = Ended
  /\ closed' = TRUE
  /\ UNCHANGED <<next, reader, blocks, compressor, compressed, worker, taken, main>>

\* A transfer worker receives a block.
Take(w) ==
  /\ worker[w] = Idle /\ compressed # <<>>
  /\ worker' = [worker EXCEPT ![w] = Busy(Head(compressed))]
  /\ taken' = [taken EXCEPT ![Head(compressed)] = IF @ < 2 THEN @ + 1 ELSE @]
  /\ compressed' = Tail(compressed)
  /\ UNCHANGED <<next, reader, blocks, compressor, closed, main>>

\* A worker that ends with the block it gives up.
MFinishQuits(w) ==
  /\ worker[w] \notin {Idle, Ended}
  /\ \E end \in {Idle, Ended} : worker' = [worker EXCEPT ![w] = end]
  /\ UNCHANGED <<next, reader, blocks, compressor, compressed, closed, taken, main>>

\* It is through with the block: delivered, or given up.
Finish(w) ==
  /\ worker[w] \notin {Idle, Ended}
  /\ worker' = [worker EXCEPT ![w] = Idle]
  /\ UNCHANGED <<next, reader, blocks, compressor, compressed, closed, taken, main>>

\* precompressedChan is closed and empty.
EndWorker(w) ==
  /\ worker[w] = Idle /\ compressed = <<>> /\ closed
  /\ worker' = [worker EXCEPT ![w] = Ended]
  /\ UNCHANGED <<next, reader, blocks, compressor, compressed, closed, taken, main>>

\* wg.Wait returns and DONE is sent.
SendDone ==
  /\ main = "waiting" /\ \A w \in Workers : worker[w] = Ended
  /\ main' = "done"
  /\ UNCHANGED <<next, reader, blocks, compressor, compressed, closed, worker, taken>>

PipeNext ==
  \/ ReadBlock
  \/ EndReader
  \/ FailReader
  \/ \E p \in Compressors : Receive(p)
  \/ \E p \in Compressors : Forward(p)
  \/ \E p \in Compressors : EndCompressor(p)
  \/ Close
  \/ \E w \in Workers : Take(w)
  \/ \E w \in Workers : Finish(w)
  \/ \E w \in Workers : EndWorker(w)
  \/ SendDone

(***************************************************************************)
(* Fairness: every goroutine that can go on does. A worker's turn with a   *)
(* block ends, since all its reads and writes have deadlines and its       *)
(* attempts are counted.                                                   *)
(***************************************************************************)
PipeFairness ==
  /\ WF_pipeVars(ReadBlock \/ EndReader)
  /\ \A p \in Compressors : WF_pipeVars(Receive(p) \/ Forward(p) \/ EndCompressor(p))
  /\ WF_pipeVars(Close)
  /\ \A w \in Workers : WF_pipeVars(Take(w) \/ Finish(w) \/ EndWorker(w))
  /\ WF_pipeVars(SendDone)

PipeSpec == PipeInit /\ [][PipeNext]_pipeVars /\ PipeFairness

---------------------------------------------------------------------------
Image(s) == {s[i] : i \in DOMAIN s}

PipeTypeOK ==
  /\ next \in Index /\ reader \in {"reading", "ended", "failed"}
  /\ blocks \in Seq(Index) /\ compressed \in Seq(Index) /\ taken \in [Index -> 0 .. 2]
  /\ Len(blocks) <= Ahead /\ Len(compressed) <= Ahead
  /\ compressor \in [Compressors -> {Idle, Ended} \cup {Busy(i) : i \in Index}]
  /\ worker \in [Workers -> {Idle, Ended} \cup {Busy(i) : i \in Index}]
  /\ closed \in BOOLEAN /\ main \in {"waiting", "done"}

\* What the compressors have in hand, and what the reader has yet to read.
InHand == {compressor[p][2] : p \in {q \in Compressors : compressor[q] \notin {Idle, Ended}}}
Unread == IF reader = "reading" THEN next .. lastBlockNum ELSE {}

\* Nobody sends on a closed channel, which would panic: a block in hand keeps precompressedChan
\* open, and precompressedChan is not closed while blocks may still enter blockChan.
NoSendOnClosed == closed => InHand = {} /\ blocks = <<>> /\ reader # "reading"

\* DONE tells the server that every block of the file was sent or given up: when it goes out,
\* every index from the first to the file's last block went through a worker, each once,
\* unless reading failed.
AllBlocksTaken ==
  main = "done" /\ reader # "failed" => \A i \in SkipIdx .. LastBlock : i \in Index /\ taken[i] = 1

\* Somebody is not blocked: the reader has room or is through, a compressor or a worker has
\* something to do, or whoever waits for the others' end has it.
CanGoOn ==
  \/ reader = "reading" /\ (Len(blocks) < Ahead \/ next > lastBlockNum)
  \/ \E p \in Compressors : \/ compressor[p] = Idle /\ (blocks # <<>> \/ reader # "reading")
                            \/ compressor[p] \notin {Idle, Ended} /\ Len(compressed) < Ahead
  \/ ~closed /\ \A p \in Compressors : compressor[p] = Ended
  \/ \E w \in Workers : \/ worker[w] = Idle /\ (compressed # <<>> \/ closed)
                        \/ worker[w] \notin {Idle, Ended}
  \/ \A w \in Workers : worker[w] = Ended

\* The stages that wait for room in the next one's channel and for the end of the one before
\* never all wait; and the client does not go on to DONE with a goroutine still blocked or a block
\* still in a channel, after a failed read neither.
NeverStuck ==
  /\ main = "waiting" => CanGoOn
  /\ main = "done" => /\ reader # "reading" /\ blocks = <<>> /\ compressed = <<>> /\ closed
                      /\ \A p \in Compressors : compressor[p] = Ended

\* The three stages are a feed: no block that was read is lost, repeated or left behind in a
\* channel, and a failed read costs only the blocks from the failed one on.
Feed == INSTANCE BlockFeed WITH
  Blocks <- SkipIdx .. lastBlockNum,
  unread <- Unread,
  coming <- Image(blocks) \cup InHand \cup Image(compressed),
  given  <- {i \in Index : taken[i] > 0},
  ended  <- {w \in Workers : worker[w] = Ended}
ImplementsFeed == Feed!FeedSpec

\* The stages never wait for each other in a circle: the client gets to its DONE.
ClientEnds == <>(main = "done")
=============================================================================
