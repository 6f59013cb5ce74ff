------------------------------- MODULE Upload -------------------------------
(***************************************************************************)
(* One upload: a bsync client (startClient and its transfer workers) and a *)
(* bsync server (startServer, its connection handlers, its precompute      *)
(* workers and the checksum cache they share) joined by TCP connections.   *)
(*                                                                         *)
(* The life of connections, timers and the server process is ServerLoop,   *)
(* whose actions are composed here with the handler's. The client's reader *)
(* and compression stages are reduced to the set of blocks still to come,  *)
(* in any order. The server cuts its file into blocks of its own -b before *)
(* it knows the client's; from there on all is in the client's blocks.     *)
(***************************************************************************)
EXTENDS ServerLoop, BlockFile

CONSTANTS
  Workers,        \* the client's transfer workers
  Main,           \* the client's main goroutine, which sends DONE
  Hashers,        \* the server's precompute workers
  Sources,        \* the source files, none of them empty
  Targets,        \* the destination files at the server's start
  Shrinks,        \* the blocks' contents that compression makes shorter
  NoCompress,     \* whether the client runs with -n: the values to consider
  ClientSkip,     \* -s on the client
  ServerSkip,     \* -s on the server
  ServerBlockSize, \* -b on the server; BlockSize is the client's
  MaxFaults       \* bound: faults in one behaviour

ASSUME UploadAssumption ==
  /\ Main \notin Workers
  /\ Sources \subseteq {f \in File : f.size > 0}
  /\ Targets \subseteq File
  /\ NoCompress \subseteq BOOLEAN
  /\ ClientSkip \in Nat /\ ServerSkip \in Nat /\ MaxFaults \in Nat
  /\ ServerBlockSize \in Nat \ {0}

VARIABLES
  src,        \* the source file; nothing writes it
  dst,        \* the destination file
  noCompress, \* the client's -n
  maxId,      \* the cache's bound: the last block the destination had at the start
  cache,      \* ChecksumCache: data and ready in one, None where not ready
  nextJob,    \* the next block precomputeChecksums hands out
  hasher,     \* each precompute worker: pc, block, and the hash of what it read
  handler,    \* each connection's serverHandleReq: pc, message in hand, lastBlockNum
  c2s, s2c,   \* the bytes under way on each connection, a message or a hash at a time
  broken,     \* connections lost to a fault
  link,       \* the connection each client goroutine holds, or NoConn
  todo,       \* blocks the transfer workers have not been given yet
  worker,     \* each transfer worker: pc, block, failed attempts
  outcome,    \* what became of each block at the client, and on which connection
  main,       \* the main goroutine: "waiting" for the workers, "sent" DONE, or "over"
  faults      \* faults so far

inputVars   == <<src, noCompress, maxId>>
fileVars    == <<dst, inputVars>>
cacheVars   == <<cache, nextJob, hasher>>
netVars     == <<link, c2s, s2c, broken>>
clientVars  == <<todo, worker, outcome, main>>
vars == <<loopVars, fileVars, cacheVars, handler, netVars, clientVars, faults>>

MaxRetries == 3
NoConn == 0
Agent  == Workers \cup {Main}

LastSrc == LastBlock(src.size)
SrcBlock(b) == ReadBlock(src, b)
SrcHash(b)  == BlockHash(SrcBlock(b))

\* The end of block b in the source file.
SrcEnd(b) == IF src.size < Start(b + 1) THEN src.size ELSE Start(b + 1)

\* Messages: a request for a block's hash, a zero block, a data block (or only its header, when
\* the connection broke before the payload), and DONE, which is a request for block 0.
Msg(k, b) == [kind |-> k, blk |-> b, data |-> IF k = "data" THEN SrcBlock(b) ELSE NoBytes]
NoMsg     == [kind |-> "none", blk |-> 0, data |-> NoBytes]
MsgKind   == {"ask", "zero", "data", "header", "done", "none"}

\* CacheBound that forgets a last block that is not full.
MCacheBoundFull(f) == f.size \div ServerBlockSize - 1

\* The bound the cache is made with: the last of the server's blocks.
CacheBound(f) == IF f.size > 0 THEN (f.size - 1) \div ServerBlockSize ELSE 0

\* The bytes of the server's block b, as they would lie in the client's.
ReadServed(f, b) ==
  [i \in {j \in Start(b) .. Start(b) + ServerBlockSize - 1 :
            b * ServerBlockSize + j - Start(b) < f.size} |->
     f.data[b * ServerBlockSize + i - Start(b)]]

Init ==
  /\ LoopInit
  /\ src \in Sources /\ dst \in Targets /\ noCompress \in NoCompress
  /\ maxId = CacheBound(dst)
  /\ cache = [b \in Block |-> None]
  /\ nextJob = IF dst.size > 0 THEN ServerSkip ELSE 1
  /\ hasher = [p \in Hashers |-> [pc |-> "idle", blk |-> 0, got |-> None]]
  /\ handler = [c \in Conn |-> [pc |-> "read", msg |-> NoMsg, last |-> 0]]
  /\ c2s = [c \in Conn |-> <<>>] /\ s2c = [c \in Conn |-> <<>>]
  /\ broken = {}
  /\ link = [a \in Agent |-> NoConn]
  /\ todo = ClientSkip .. LastSrc
  /\ worker = [w \in Workers |-> [pc |-> "idle", blk |-> 0, try |-> 0]]
  /\ outcome = [b \in Block |-> [what |-> "none", on |-> NoConn]]
  /\ main = "waiting"
  /\ faults = 0

Fault == faults < MaxFaults /\ faults' = faults + 1

---------------------------------------------------------------------------
(* Connections.                                                            *)

\* Nobody on the client's side holds the connection any more.
Closed(c) == stage[c] # "unused" /\ \A a \in Agent : link[a] # c

\* The server's side of the connection is gone.
Dead(c) ==
  \/ server # "running"
  \/ c \in broken
  \/ stage[c] \notin {"unused", "queued", "offered", "serving"}

\* What a goroutine wants to send has nowhere to go.
Refused(a) == IF link[a] = NoConn THEN server # "running" ELSE Dead(link[a])

\* Append to a connection's stream; what is written to a dead one goes nowhere.
Send(chan, c, m) == IF Dead(c) THEN chan ELSE [chan EXCEPT ![c] = Append(@, m)]

\* A connection breaks: of what was under way in each direction a prefix still arrives.
Break(c) ==
  /\ Fault
  /\ server = "running" /\ stage[c] \in {"queued", "offered", "serving"} /\ c \notin broken
  /\ broken' = broken \cup {c}
  /\ \E k \in 0 .. Len(c2s[c]), n \in 0 .. Len(s2c[c]), whole \in BOOLEAN :
       /\ c2s' = [c2s EXCEPT ![c] =
                    [i \in 1 .. k |-> IF ~whole /\ i = k /\ @[i].kind = "data"
                                      THEN Msg("header", @[i].blk) ELSE @[i]]]
       /\ s2c' = [s2c EXCEPT ![c] = SubSeq(@, 1, n)]
  /\ UNCHANGED <<loopVars, fileVars, cacheVars, handler, link, clientVars>>

---------------------------------------------------------------------------
(* The client: startClient and processPrecomputedBlock.                    *)

\* A worker takes a block from precompressedChan.
Take(w) ==
  /\ worker[w].pc = "idle"
  /\ \E b \in todo :
       /\ todo' = todo \ {b}
       /\ worker' = [worker EXCEPT ![w] = [pc |-> "ask", blk |-> b, try |-> 0]]
  /\ UNCHANGED <<loopVars, fileVars, cacheVars, handler, netVars, outcome, main, faults>>

\* Reading the source fails: that block and those after it never come, and nobody is told.
ReaderFails ==
  /\ Fault
  /\ \E k \in todo :
       /\ todo' = {b \in todo : b < k}
       /\ outcome' = [b \in Block |-> IF b \in todo /\ b >= k
                                      THEN [what |-> "unread", on |-> NoConn] ELSE outcome[b]]
  /\ UNCHANGED <<loopVars, fileVars, cacheVars, handler, netVars, worker, main>>

\* Write on the goroutine's connection, dialling first if it has none.
Transmit(a, m) ==
  IF link[a] = NoConn
  THEN \E c \in Conn : /\ Connect(c)
                       /\ link' = [link EXCEPT ![a] = c]
                       /\ c2s' = [c2s EXCEPT ![c] = <<m>>]
  ELSE /\ c2s' = Send(c2s, link[a], m)
       /\ UNCHANGED <<loopVars, link>>

\* The request for the block's hash.
Ask(w) ==
  /\ worker[w].pc = "ask"
  /\ Transmit(w, Msg("ask", worker[w].blk))
  /\ worker' = [worker EXCEPT ![w].pc = "reply"]
  /\ UNCHANGED <<fileVars, cacheVars, handler, s2c, broken, todo, outcome, main, faults>>

\* Retry that counts one attempt too many, Retry that asks again on the connection it has, and
\* Retry that does not close the connection before the next attempt.
MRetryOnce(w, closed) ==
  LET b == worker[w].blk
      last == worker[w].try = MaxRetries
  IN /\ worker' = [worker EXCEPT ![w] = IF last THEN [pc |-> "idle", blk |-> 0, try |-> 0]
                                        ELSE [pc |-> "ask", blk |-> b, try |-> @.try + 1]]
     /\ outcome' = IF last THEN [outcome EXCEPT ![b] = [what |-> "failed", on |-> NoConn]]
                   ELSE outcome
     /\ link' = IF last /\ ~closed THEN link ELSE [link EXCEPT ![w] = NoConn]
MRetryOpen(w, closed) ==
  /\ worker' = [worker EXCEPT ![w].pc = "ask"]
  /\ UNCHANGED <<outcome, link>>
MRetryKeeps(w, closed) ==
  LET b == worker[w].blk
      last == worker[w].try + 1 = MaxRetries
  IN /\ worker' = [worker EXCEPT ![w] = IF last THEN [pc |-> "idle", blk |-> 0, try |-> 0]
                                        ELSE [pc |-> "ask", blk |-> b, try |-> @.try + 1]]
     /\ outcome' = IF last THEN [outcome EXCEPT ![b] = [what |-> "failed", on |-> NoConn]]
                   ELSE outcome
     /\ link' = link

\* processPrecomputedBlock returned an error: close and try again, or give the block up. A
\* network error has closed the connection already, the error of a block without data has not.
Retry(w, closed) ==
  LET b == worker[w].blk
      last == worker[w].try + 1 = MaxRetries
  IN /\ worker' = [worker EXCEPT ![w] = IF last THEN [pc |-> "idle", blk |-> 0, try |-> 0]
                                        ELSE [pc |-> "ask", blk |-> b, try |-> @.try + 1]]
     /\ outcome' = IF last THEN [outcome EXCEPT ![b] = [what |-> "failed", on |-> NoConn]]
                   ELSE outcome
     /\ link' = IF last /\ ~closed THEN link ELSE [link EXCEPT ![w] = NoConn]

\* The dial fails, or the write on a connection whose other end is gone.
AskFails(w) ==
  /\ worker[w].pc = "ask"
  /\ IF Refused(w) THEN UNCHANGED faults ELSE link[w] = NoConn /\ Fault
  /\ Retry(w, TRUE)
  /\ UNCHANGED <<loopVars, fileVars, cacheVars, handler, c2s, s2c, broken, todo, main>>

\* The block is settled as far as the client is concerned.
Settle(w, what) ==
  /\ outcome' = [outcome EXCEPT ![worker[w].blk] =
                   [what |-> what, on |-> IF what = "sent" THEN link[w] ELSE NoConn]]
  /\ worker' = [worker EXCEPT ![w] = [pc |-> "idle", blk |-> 0, try |-> 0]]

\* With -n, a block that compression shortens comes without its data.
HasData(b) == ~(noCompress /\ SrcBlock(b) \in Shrinks)

\* The server's hash arrives: the block is in sync, or is sent, or has nothing to send.
Compare(w) ==
  /\ worker[w].pc = "reply" /\ link[w] # NoConn
  /\ s2c[link[w]] # <<>> /\ Head(s2c[link[w]]).hash.kind \in {"zero", "sum"}
  /\ s2c' = [s2c EXCEPT ![link[w]] = Tail(@)]
  /\ LET b == worker[w].blk
         theirs == Head(s2c[link[w]]).hash
         kind == IF SrcHash(b) = ZeroHash THEN "zero" ELSE "data"
     IN \/ /\ theirs = SrcHash(b)
           /\ Settle(w, "insync")
           /\ UNCHANGED <<c2s, link>>
        \/ /\ theirs # SrcHash(b) /\ (kind = "zero" \/ HasData(b))
           /\ c2s' = Send(c2s, link[w], Msg(kind, b))
           /\ Settle(w, "sent")
           /\ UNCHANGED link
        \/ /\ theirs # SrcHash(b) /\ kind = "data" /\ ~HasData(b)
           /\ Retry(w, FALSE)
           /\ UNCHANGED c2s
        \/ /\ theirs # SrcHash(b) /\ Dead(link[w])
           /\ Retry(w, TRUE)
           /\ UNCHANGED c2s
  /\ UNCHANGED <<loopVars, fileVars, cacheVars, handler, broken, todo, main, faults>>

\* No block of the cache can still become ready by precomputation.
PrecomputeOver == nextJob > maxId /\ \A p \in Hashers : hasher[p].pc = "idle"

\* The reply never comes: the connection is dead, or reset with the server (which may take a reply
\* along), the reply is a mark shorter than a hash, or the handler waits for a hash nobody
\* computes. The read's deadline then ends the wait.
NoReply(c) ==
  \/ server # "running"
  \/ s2c[c] = <<>> /\ Dead(c)
  \/ s2c[c] # <<>> /\ Head(s2c[c]).hash.kind \in {"EOF", "ERR"}
  \/ s2c[c] = <<>> /\ handler[c].pc = "wait" /\ handler[c].msg.blk <= maxId
       /\ cache[handler[c].msg.blk] = None /\ PrecomputeOver

\* The read fails; for a reply that is merely late the deadline counts as a fault.
ReplyFails(w) ==
  /\ worker[w].pc = "reply" /\ link[w] # NoConn
  /\ IF NoReply(link[w]) THEN UNCHANGED faults ELSE s2c[link[w]] = <<>> /\ Fault
  /\ Retry(w, TRUE)
  /\ UNCHANGED <<loopVars, fileVars, cacheVars, handler, c2s, s2c, broken, todo, main>>

\* precompressedChan is closed and drained: the worker closes its connection and ends.
EndWorker(w) ==
  /\ worker[w].pc = "idle" /\ todo = {}
  /\ worker' = [worker EXCEPT ![w].pc = "ended"]
  /\ link' = [link EXCEPT ![w] = NoConn]
  /\ UNCHANGED <<loopVars, fileVars, cacheVars, handler, c2s, s2c, broken, todo, outcome, main,
                 faults>>

\* SendDone without waiting for the workers.
MSendDoneEarly ==
  /\ main = "waiting"
  /\ Transmit(Main, Msg("done", 0))
  /\ main' = "sent"
  /\ UNCHANGED <<fileVars, cacheVars, handler, s2c, broken, todo, worker, outcome, faults>>

\* All workers ended: DONE goes out on a connection of its own.
SendDone ==
  /\ main = "waiting" /\ \A w \in Workers : worker[w].pc = "ended"
  /\ Transmit(Main, Msg("done", 0))
  /\ main' = "sent"
  /\ UNCHANGED <<fileVars, cacheVars, handler, s2c, broken, todo, worker, outcome, faults>>

\* DONE could not be sent: the client ends without a second attempt.
SendDoneFails ==
  /\ main = "waiting" /\ \A w \in Workers : worker[w].pc = "ended"
  /\ IF Refused(Main) THEN UNCHANGED faults ELSE Fault
  /\ main' = "over"
  /\ UNCHANGED <<loopVars, fileVars, cacheVars, handler, netVars, todo, worker, outcome>>

\* Two seconds later the client closes that connection and exits.
EndClient ==
  /\ main = "sent"
  /\ main' = "over"
  /\ link' = [link EXCEPT ![Main] = NoConn]
  /\ UNCHANGED <<loopVars, fileVars, cacheVars, handler, c2s, s2c, broken, todo, worker, outcome,
                 faults>>

---------------------------------------------------------------------------
(* The server: precomputeChecksums.                                        *)

\* A precompute worker takes the next index from the jobs channel.
TakeJob(p) ==
  /\ server = "running"
  /\ hasher[p].pc = "idle" /\ nextJob <= maxId
  /\ hasher' = [hasher EXCEPT ![p] = [pc |-> "read", blk |-> nextJob, got |-> None]]
  /\ nextJob' = nextJob + 1
  /\ UNCHANGED <<loopVars, fileVars, cache, handler, netVars, clientVars, faults>>

\* It reads the block and hashes what it got.
HashBlock(p) ==
  /\ server = "running"
  /\ hasher[p].pc = "read"
  /\ LET d == ReadServed(dst, hasher[p].blk)
     IN hasher' = [hasher EXCEPT ![p] =
                    [pc |-> "set", blk |-> @.blk,
                     got |-> IF DOMAIN d = {} THEN EofMark ELSE BlockHash(d)]]
  /\ UNCHANGED <<loopVars, fileVars, cache, nextJob, handler, netVars, clientVars, faults>>

\* The read fails.
HashFails(p) ==
  /\ Fault
  /\ server = "running"
  /\ hasher[p].pc = "read"
  /\ hasher' = [hasher EXCEPT ![p] = [pc |-> "set", blk |-> @.blk, got |-> ErrMark]]
  /\ UNCHANGED <<loopVars, fileVars, cache, nextJob, handler, netVars, clientVars>>

\* Publish that leaves zero blocks to the answer for what is not there.
MPublishNonzero(p) ==
  /\ server = "running"
  /\ hasher[p].pc = "set"
  /\ cache' = IF hasher[p].got = ZeroHash THEN cache
              ELSE [cache EXCEPT ![hasher[p].blk] = hasher[p].got]
  /\ hasher' = [hasher EXCEPT ![p] = [pc |-> "idle", blk |-> 0, got |-> None]]
  /\ UNCHANGED <<loopVars, fileVars, nextJob, handler, netVars, clientVars, faults>>

\* cache.Set of what it made of the block.
Publish(p) ==
  /\ server = "running"
  /\ hasher[p].pc = "set"
  /\ cache' = [cache EXCEPT ![hasher[p].blk] = hasher[p].got]
  /\ hasher' = [hasher EXCEPT ![p] = [pc |-> "idle", blk |-> 0, got |-> None]]
  /\ UNCHANGED <<loopVars, fileVars, nextJob, handler, netVars, clientVars, faults>>

---------------------------------------------------------------------------
(* The server: serverHandleReq.                                            *)

\* Answered without the test against the bound.
MAnsweredReady(b) == cache[b] # None

\* WaitFor returns: at once past the bound, otherwise when the hash is ready.
Answered(b) == b > maxId \/ cache[b] # None
Answer(b)   == IF b > maxId THEN ZeroHash ELSE cache[b]

Running(c, pc) == server = "running" /\ stage[c] = "serving" /\ handler[c].pc = pc

\* Back to the top of the handler's loop.
NextMessage(c) ==
  handler' = [handler EXCEPT ![c] = [pc |-> "read", msg |-> NoMsg, last |-> @.last]]

\* The handler reads a message with its payload, sets its lastBlockNum and truncates the
\* destination if that is still zero, and branches.
Read(c) ==
  /\ Running(c, "read") /\ c2s[c] # <<>>
  /\ LET m == Head(c2s[c])
     IN /\ c2s' = [c2s EXCEPT ![c] = Tail(@)]
        /\ dst' = IF handler[c].last = 0 THEN Resize(dst, src.size) ELSE dst
        /\ handler' = [handler EXCEPT ![c] =
             [pc |-> CASE m.kind = "zero" -> "waitZero"
                       [] m.kind = "data" -> "write"
                       [] m.kind = "header" -> "end"
                       [] OTHER -> "wait",
              msg |-> m,
              last |-> IF @.last = 0 THEN LastSrc ELSE @.last]]
  /\ UNCHANGED <<loopVars, inputVars, cacheVars, link, s2c, broken, clientVars, faults>>

\* The answer to a request: the hash, and for DONE the store that starts the shutdown. On a
\* connection that broke the write may fail, which ends the handler.
Reply(c) ==
  /\ Running(c, "wait") /\ Answered(handler[c].msg.blk)
  /\ LET b == handler[c].msg.blk
     IN \/ /\ s2c' = IF Closed(c) \/ c \in broken THEN s2c
                     ELSE [s2c EXCEPT ![c] = Append(@, [blk |-> b, hash |-> Answer(b)])]
           /\ NextMessage(c)
           /\ IF handler[c].msg.kind = "done" THEN StoreDone(c) ELSE UNCHANGED loopVars
        \/ /\ c \in broken
           /\ handler' = [handler EXCEPT ![c].pc = "end"]
           /\ UNCHANGED <<loopVars, s2c>>
  /\ UNCHANGED <<fileVars, cacheVars, link, c2s, broken, clientVars, faults>>

\* A zero block: nothing to do where the destination is zero or ends before.
Zero(c) ==
  /\ Running(c, "waitZero") /\ Answered(handler[c].msg.blk)
  /\ IF Answer(handler[c].msg.blk) \in {ZeroHash, EofMark}
     THEN NextMessage(c)
     ELSE handler' = [handler EXCEPT ![c].pc = "writeZero"]
  /\ UNCHANGED <<loopVars, fileVars, cacheVars, netVars, clientVars, faults>>

\* WriteAt: a zero block is written in full, a data block as long as it came.
Write(c) ==
  /\ \/ /\ Running(c, "write")
        /\ dst' = WriteBlock(dst, handler[c].msg.data, SrcEnd(handler[c].msg.blk))
     \/ /\ Running(c, "writeZero")
        /\ dst' = WriteBlock(dst, Zeros(handler[c].msg.blk), Start(handler[c].msg.blk + 1))
  /\ handler' = [handler EXCEPT ![c].pc = "set"]
  /\ UNCHANGED <<loopVars, inputVars, cacheVars, netVars, clientVars, faults>>

\* Set without the continue that ends a zero block's turn: the request branch follows.
MSetFallsThrough(c) ==
  /\ Running(c, "set")
  /\ LET m == handler[c].msg
     IN /\ cache' = [cache EXCEPT ![m.blk] = IF m.kind = "zero" THEN ZeroHash ELSE Sum(m.data)]
        /\ handler' = [handler EXCEPT ![c].pc = IF m.kind = "zero" THEN "wait" ELSE "read"]
  /\ UNCHANGED <<loopVars, fileVars, nextJob, hasher, netVars, clientVars, faults>>

\* checksumCache.Set after the write.
Set(c) ==
  /\ Running(c, "set")
  /\ LET m == handler[c].msg
     IN cache' = [cache EXCEPT ![m.blk] = IF m.kind = "zero" THEN ZeroHash ELSE Sum(m.data)]
  /\ NextMessage(c)
  /\ UNCHANGED <<loopVars, fileVars, nextJob, hasher, netVars, clientVars, faults>>

\* WriteAt of the bytes d of block b that gets as far as byte n.
WritePart(f, d, b, n) ==
  WriteBlock(f, [i \in {j \in DOMAIN d : j < n} |-> d[i]], IF n > Start(b) THEN n ELSE 0)

\* A file error or a deadline: the handler breaks out of its loop and closes the connection. Of a
\* block whose write failed any first part is written.
Abort(c) ==
  /\ Fault
  /\ LET m == handler[c].msg
     IN \/ (Running(c, "read") \/ Running(c, "wait")) /\ UNCHANGED dst
        \/ /\ Running(c, "write")
           /\ \E n \in Start(m.blk) .. SrcEnd(m.blk) : dst' = WritePart(dst, m.data, m.blk, n)
        \/ /\ Running(c, "writeZero")
           /\ \E n \in Start(m.blk) .. Start(m.blk + 1) :
                dst' = WritePart(dst, Zeros(m.blk), m.blk, n)
  /\ handler' = [handler EXCEPT ![c].pc = "end"]
  /\ broken' = broken \cup {c}
  /\ UNCHANGED <<loopVars, inputVars, cacheVars, link, c2s, s2c, clientVars>>

\* serverHandleReq returns: nothing more will come on the connection, or it failed. What it held
\* and what was left unread on the connection is gone.
End(c) ==
  /\ \/ Running(c, "end")
     \/ Running(c, "read") /\ c2s[c] = <<>> /\ (Closed(c) \/ c \in broken)
  /\ Return(c)
  /\ handler' = [handler EXCEPT ![c] = [pc |-> "end", msg |-> NoMsg, last |-> 0]]
  /\ c2s' = [c2s EXCEPT ![c] = <<>>]
  /\ UNCHANGED <<fileVars, cacheVars, link, s2c, broken, clientVars, faults>>

\* Steps of the server's main loop, its timers and its goroutines' last lines.
LoopStep ==
  /\ \/ Accept
     \/ \E c \in Conn : Receive(c)
     \/ \E c \in Conn : Epilogue(c)
     \/ \E t \in Timer : Fire(t)
  /\ UNCHANGED <<fileVars, cacheVars, handler, netVars, clientVars, faults>>

\* The server's process ends early: its listener fails, or the handler of a first message cannot
\* stat or truncate the destination. All its connections end with it.
ServerDies ==
  /\ Fault
  /\ \/ AcceptError
     \/ \E c \in Conn : /\ Running(c, "read") /\ c2s[c] # <<>> /\ handler[c].last = 0
                        /\ TruncateError(c)
  /\ UNCHANGED <<fileVars, cacheVars, handler, netVars, clientVars>>

---------------------------------------------------------------------------
HandlerStep(c) == Read(c) \/ Reply(c) \/ Zero(c) \/ Write(c) \/ Set(c) \/ End(c)
HasherStep(p)  == TakeJob(p) \/ HashBlock(p) \/ Publish(p)
WorkerStep(w)  == Take(w) \/ Ask(w) \/ Compare(w) \/ EndWorker(w)
MainStep       == SendDone \/ EndClient

Next ==
  \/ LoopStep
  \/ \E c \in Conn : HandlerStep(c)
  \/ \E p \in Hashers : HasherStep(p)
  \/ \E w \in Workers : WorkerStep(w)
  \/ MainStep
  \/ \E w \in Workers : AskFails(w)
  \/ \E w \in Workers : ReplyFails(w)
  \/ \E c \in Conn : Break(c)
  \/ \E c \in Conn : Abort(c)
  \/ \E p \in Hashers : HashFails(p)
  \/ ServerDies
  \/ SendDoneFails
  \/ ReaderFails

Spec == Init /\ [][Next]_vars

(***************************************************************************)
(* Fairness: every goroutine that can take a step takes one, an armed      *)
(* timer fires, a dial that is refused and a read that can only time out   *)
(* fail. Faults are never due.                                             *)
(***************************************************************************)
Fairness ==
  /\ WF_vars(LoopStep)
  /\ \A c \in Conn : WF_vars(HandlerStep(c))
  /\ \A p \in Hashers : WF_vars(HasherStep(p))
  /\ \A w \in Workers :
       WF_vars(WorkerStep(w) \/ ((AskFails(w) \/ ReplyFails(w)) /\ UNCHANGED faults))
  /\ WF_vars(MainStep \/ (SendDoneFails /\ UNCHANGED faults))

FairSpec == Spec /\ Fairness

---------------------------------------------------------------------------
\* Block b of the destination holds the source's bytes (a short destination reads as zeros).
InSync(b) == \A i \in Span(b) : i < src.size => dst.data[i] = src.data[i]

Message == [kind : MsgKind, blk : Block, data : Reads]
Result  == [what : {"none", "insync", "sent", "failed", "unread"}, on : Conn \cup {NoConn}]
HandlerPc == {"read", "wait", "waitZero", "write", "writeZero", "set", "end"}

TypeOK ==
  /\ LoopTypeOK
  /\ src \in Sources /\ noCompress \in NoCompress /\ maxId \in Block
  /\ dst \in File
  /\ cache \in [Block -> Hash]
  /\ nextJob \in Nat
  /\ hasher \in [Hashers -> [pc : {"idle", "read", "set"}, blk : Block, got : Hash]]
  /\ handler \in [Conn -> [pc : HandlerPc, msg : Message, last : {0, LastSrc}]]
  /\ c2s \in [Conn -> Seq(Message)]
  /\ s2c \in [Conn -> Seq([blk : Block, hash : Hash])]
  /\ broken \subseteq Conn
  /\ link \in [Agent -> Conn \cup {NoConn}]
  /\ todo \subseteq Block
  /\ worker \in [Workers -> [pc : {"idle", "ask", "reply", "ended"}, blk : Block,
                             try : 0 .. MaxRetries - 1]]
  /\ outcome \in [Block -> Result]
  /\ main \in {"waiting", "sent", "over"}
  /\ faults \in 0 .. MaxFaults

\* A block the client skips is right: it took the server's hash for its own, whichever of the
\* precomputed hash, a write's hash and the zero hash past the bound that was, and the bytes on
\* the server's disk are the source's, then and ever after.
SkipSound == \A b \in Block : outcome[b].what = "insync" => InSync(b)

\* No hash answers the wrong question: with several messages on a connection, the hash a worker
\* is about to read is the one of the block it asked for, and nothing follows it. (The block in
\* a reply is not on the wire; it is kept to state this.)
RepliesMatch ==
  \A w \in Workers : link[w] # NoConn /\ s2c[link[w]] # <<>> =>
     /\ worker[w].pc = "reply"
     /\ Len(s2c[link[w]]) = 1 /\ Head(s2c[link[w]]).blk = worker[w].blk

\* The three-byte mark of a block past the end never reaches a client, which reads 16 bytes: the
\* blocks it asks for lie within the destination from the start or past the cache's bound, and
\* truncation, which races with precomputation, leaves them there.
NoEofReply == \A c \in Conn : \A i \in DOMAIN s2c[c] : s2c[c][i].hash # EofMark

(***************************************************************************)
(* Upload implements Mirror: no step of any handler, write or truncation   *)
(* undoes a block that is right, and the server leaves after DONE only     *)
(* when every block is right, or was given up, unread, or lost on its way. *)
(***************************************************************************)
Given(b) == \/ outcome[b].what \in {"failed", "unread"}
            \/ outcome[b].what = "sent" /\ outcome[b].on \in broken

Abstract == INSTANCE Mirror WITH
  Blocks  <- Block,
  differ  <- {b \in Block : b >= ClientSkip /\ ~InSync(b)},
  excused <- {b \in Block : Given(b)},
  over    <- server = "doneExit"

Mirrors == Abstract!MirrorSpec

\* An undisturbed upload copies. Without a fault no block is given up, through whatever retries,
\* waits and truncations, but one that -n leaves without data; and when the server leaves after
\* DONE, each of the others from -s on is right.
Copies ==
  faults = 0 =>
    \A b \in Block : b >= ClientSkip /\ (HasData(b) \/ SrcHash(b) = ZeroHash)
                      => ~Given(b) /\ (server = "doneExit" => InSync(b))

\* The upload ends: the last block is compared, DONE is answered, and the server leaves.
Finishes == <>(server = "doneExit")

\* All the server can get wrong about the size: a last block of zeros that is short in the source is
\* written in full, or in part if its late write fails.
TailSize ==
  server = "doneExit" =>
    \/ dst.size = src.size
    \/ /\ SrcHash(LastSrc) = ZeroHash
       /\ dst.size \in src.size .. Start(LastSrc + 1)
       /\ faults > 0 \/ dst.size = Start(LastSrc + 1)

\* No hash of the block will ever be served: its read failed, or nobody is left to compute it.
NeverHashed(b) == /\ b <= maxId
                  /\ \/ cache[b] = ErrMark
                     \/ cache[b] = None /\ PrecomputeOver

\* The attempts a client makes for a block are good for as many faults: it gives a block up only
\* after a fault for each of them, or where no attempt can succeed, as the server ended, never
\* had a hash of the block, or -n leaves it without data. No single broken connection costs a
\* block more than one attempt, whatever other blocks went over it.
RetriesSuffice ==
  \A b \in Block : outcome[b].what = "failed" =>
     \/ faults >= MaxRetries
     \/ server # "running"
     \/ NeverHashed(b)
     \/ ~HasData(b)
=============================================================================
