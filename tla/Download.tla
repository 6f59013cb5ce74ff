------------------------------ MODULE Download ------------------------------
(***************************************************************************)
(* Download mode: a server that sends its file (startServerUpload,         *)
(* serverHandleUpload and its precompute workers) and any number of        *)
(* clients that fetch it (startClientDownload), each over one connection,  *)
(* in lockstep: one request, one answer. Nothing is retried. The source    *)
(* never changes, so a message need not carry the bytes of its block.      *)
(* The two sides' block sizes may differ: neither looks at the other's.    *)
(***************************************************************************)
EXTENDS BlockFile, Sequences

CONSTANTS
  Clients,
  Hashers,            \* the server's precompute workers
  Sources,            \* the server's files, none of them empty
  Targets,            \* the clients' files before the download, and whether they are block devices
  Settings,           \* the server's -b and the -s of both sides; BlockSize is the clients' -b
  MaxFaults           \* bound: faults in one behaviour

Setting == [serverSize : Nat \ {0}, clientSkip : Nat, serverSkip : Nat]

ASSUME DownloadAssumption ==
  /\ Sources \subseteq {f \in File : f.size > 0}
  /\ Targets \subseteq [file : File, device : BOOLEAN]
  /\ Settings \subseteq Setting
  /\ MaxFaults \in Nat

\* Bound: what a server with larger blocks sends still fits the model's files.
ASSUME RoomAssumption ==
  \A f \in Sources, s \in Settings :
    Start(LastBlock(f.size)) + s.serverSize <= BlockCount * BlockSize

VARIABLES
  src,         \* the server's file
  old,         \* each client's file before the download
  setting,     \* the options both sides were started with
  dst,         \* each client's file
  cache,       \* blocks whose hash is ready: "none", "zero", or "other" (a checksum or ERR)
  nextJob,     \* the next block precomputeChecksums hands out
  job,         \* each precompute worker's block, or NoJob
  client,      \* each startClientDownload: pc, blockIdx, and how it ended
  handler,     \* each connection's serverHandleUpload: pc, and the block asked for
  c2s, s2c,    \* requests and answers under way on each connection
  broken,      \* connections lost to a fault
  server,      \* "serving", or "ended"
  faults       \* faults so far

inputs     == <<src, old, setting>>
cacheVars  == <<cache, nextJob, job>>
netVars    == <<c2s, s2c, broken>>
downVars   == <<inputs, dst, cacheVars, client, handler, netVars, server, faults>>

NoJob == -1
serverSize == setting.serverSize
clientSkip == setting.clientSkip
serverSkip == setting.serverSkip

\* lastBlockNum on either side.
LastAsked  == LastBlock(src.size)
LastServed == (src.size - 1) \div serverSize

\* The whole filebuf, for the bytes that were read.
MServedWhole(b) == (b + 1) * serverSize

\* The server's block b: ReadAt into its own filebuf.
ServedEnd(b) == IF src.size < (b + 1) * serverSize THEN src.size ELSE (b + 1) * serverSize

\* The server takes block b for a block of zeros.
ZeroServed(b) == \A i \in b * serverSize .. ServedEnd(b) - 1 : src.data[i] = 0

\* Messages: a request for the file's size or for a block; the size; for a block, its header
\* (with or without a payload to follow, or Done) and its payload.
Msg(k, b) == [kind |-> k, blk |-> b]

DownInit ==
  /\ src \in Sources /\ old \in [Clients -> Targets] /\ setting \in Settings
  /\ dst = [q \in Clients |-> old[q].file]
  /\ cache = [b \in 0 .. LastServed |-> "none"]
  /\ nextJob = serverSkip
  /\ job = [p \in Hashers |-> NoJob]
  /\ client = [q \in Clients |-> [pc |-> "dial", idx |-> clientSkip, end |-> "none"]]
  /\ handler = [q \in Clients |-> [pc |-> "unused", blk |-> 0]]
  /\ c2s = [q \in Clients |-> <<>>] /\ s2c = [q \in Clients |-> <<>>]
  /\ broken = {}
  /\ server = "serving"
  /\ faults = 0

Fault == faults < MaxFaults /\ faults' = faults + 1

\* The server's end of a connection, and the client's, is gone.
Hung(q) == q \in broken \/ server = "ended" \/ handler[q].pc = "end"
Left(q) == client[q].pc = "over"

At(q, pc) == client[q].pc = pc
Goto(q, pc) == client' = [client EXCEPT ![q].pc = pc]
Stop(q, how) == client' = [client EXCEPT ![q].pc = "over", ![q].end = how]

---------------------------------------------------------------------------
(* The client: startClientDownload.                                        *)

\* Dial, and ask for the size; the server's kernel queues the connection.
Dial(q) ==
  /\ At(q, "dial") /\ server = "serving"
  /\ Goto(q, "size")
  /\ handler' = [handler EXCEPT ![q].pc = "queued"]
  /\ c2s' = [c2s EXCEPT ![q] = <<Msg("size", 0)>>]
  /\ UNCHANGED <<inputs, dst, cacheVars, s2c, broken, server, faults>>

\* Nobody listens, or the dial fails for another reason.
Refused(q) ==
  /\ At(q, "dial") /\ server = "ended"
  /\ Stop(q, "failed")
  /\ UNCHANGED <<inputs, dst, cacheVars, handler, netVars, server, faults>>

DialFails(q) ==
  /\ At(q, "dial")
  /\ Fault
  /\ Stop(q, "failed")
  /\ UNCHANGED <<inputs, dst, cacheVars, handler, netVars, server>>

\* The size arrives: a regular file is cut or extended to it.
ReadSize(q) ==
  /\ At(q, "size") /\ s2c[q] # <<>>
  /\ s2c' = [s2c EXCEPT ![q] = Tail(@)]
  /\ dst' = IF old[q].device THEN dst ELSE [dst EXCEPT ![q] = Resize(@, src.size)]
  /\ Goto(q, "loop")
  /\ UNCHANGED <<inputs, cacheVars, handler, c2s, broken, server, faults>>

\* The loop's next block is asked for; on a lost connection the write may fail.
Ask(q) ==
  /\ At(q, "loop") /\ client[q].idx <= LastAsked
  /\ \/ /\ c2s' = IF Hung(q) THEN c2s ELSE [c2s EXCEPT ![q] = Append(@, Msg("ask", client[q].idx))]
        /\ Goto(q, "header")
     \/ /\ Hung(q)
        /\ Stop(q, "failed")
        /\ UNCHANGED c2s
  /\ UNCHANGED <<inputs, dst, cacheVars, handler, s2c, broken, server, faults>>

\* Complete one block early.
MCompleteEarly(q) ==
  /\ At(q, "break") \/ (At(q, "loop") /\ client[q].idx >= LastAsked)
  /\ Stop(q, IF At(q, "break") THEN "cut" ELSE "complete")
  /\ UNCHANGED <<inputs, dst, cacheVars, handler, netVars, server, faults>>

\* Past the last block, or cut short by a failed write: either says "download complete".
Complete(q) ==
  /\ At(q, "break") \/ (At(q, "loop") /\ client[q].idx > LastAsked)
  /\ Stop(q, IF At(q, "break") THEN "cut" ELSE "complete")
  /\ UNCHANGED <<inputs, dst, cacheVars, handler, netVars, server, faults>>

\* A header. Nothing is written for a zero block. A payload longer than the client's buffer
\* panics, unless compression made it fit.
ReadHeader(q) ==
  /\ At(q, "header") /\ s2c[q] # <<>>
  /\ LET m == Head(s2c[q])
     IN \/ m.kind = "done" /\ Stop(q, "complete")
        \/ m.kind = "zero" /\ client' = [client EXCEPT ![q].pc = "loop", ![q].idx = @ + 1]
        \/ m.kind = "data" /\ Goto(q, "payload")
        \/ /\ m.kind = "data" /\ ServedEnd(m.blk) - m.blk * serverSize > BlockSize
           /\ Stop(q, "panic")
  /\ s2c' = [s2c EXCEPT ![q] = Tail(@)]
  /\ UNCHANGED <<inputs, dst, cacheVars, handler, c2s, broken, server, faults>>

\* Where the payload of the server's block b ends in the client's file, written at its block i.
PasteEnd(b, i) == Start(i) + ServedEnd(b) - b * serverSize

\* WriteAt of that payload to file f, as far as byte n.
Paste(f, b, i, n) ==
  WriteBlock(f, [k \in {j \in Start(i) .. PasteEnd(b, i) - 1 : j < n} |->
                   src.data[b * serverSize + k - Start(i)]],
             IF n > Start(i) THEN n ELSE 0)

\* The payload arrives and is written; past the end of a block device the write breaks off.
ReadPayload(q) ==
  /\ At(q, "payload") /\ s2c[q] # <<>>
  /\ LET b == Head(s2c[q]).blk
         i == client[q].idx
         f == dst[q]
     IN \/ /\ old[q].device => PasteEnd(b, i) <= f.size
           /\ dst' = [dst EXCEPT ![q] = Paste(f, b, i, PasteEnd(b, i))]
           /\ client' = [client EXCEPT ![q].pc = "loop", ![q].idx = @ + 1]
        \/ /\ old[q].device /\ PasteEnd(b, i) > f.size
           /\ dst' = [dst EXCEPT ![q] = Paste(f, b, i, f.size)]
           /\ Goto(q, "break")
  /\ s2c' = [s2c EXCEPT ![q] = Tail(@)]
  /\ UNCHANGED <<inputs, cacheVars, handler, c2s, broken, server, faults>>

\* WriteFails with continue for break.
MWriteFailsOn(q) ==
  /\ At(q, "payload") /\ s2c[q] # <<>>
  /\ Fault
  /\ LET b == Head(s2c[q]).blk
         i == client[q].idx
     IN \E n \in Start(i) .. PasteEnd(b, i) :
          /\ old[q].device => n <= dst[q].size
          /\ dst' = [dst EXCEPT ![q] = Paste(@, b, i, n)]
  /\ client' = [client EXCEPT ![q].pc = "loop", ![q].idx = @ + 1]
  /\ s2c' = [s2c EXCEPT ![q] = Tail(@)]
  /\ UNCHANGED <<inputs, cacheVars, handler, c2s, broken, server>>

\* Decompression or the write fails, with any part written: the client leaves its loop.
WriteFails(q) ==
  /\ At(q, "payload") /\ s2c[q] # <<>>
  /\ Fault
  /\ LET b == Head(s2c[q]).blk
         i == client[q].idx
     IN \E n \in Start(i) .. PasteEnd(b, i) :
          /\ old[q].device => n <= dst[q].size
          /\ dst' = [dst EXCEPT ![q] = Paste(@, b, i, n)]
  /\ Goto(q, "break")
  /\ s2c' = [s2c EXCEPT ![q] = Tail(@)]
  /\ UNCHANGED <<inputs, cacheVars, handler, c2s, broken, server>>

\* No answer will come: the server waits for a hash that -s keeps it from computing.
NoAnswer(q) == handler[q].pc = "answer" /\ handler[q].blk < serverSkip

\* A read ends with the connection, or at its deadline when nothing can come. The download ends
\* where it is: nothing is retried.
Waits(q) == (At(q, "size") \/ At(q, "header") \/ At(q, "payload")) /\ s2c[q] = <<>>

ReadEnds(q) ==
  /\ Waits(q) /\ (Hung(q) \/ NoAnswer(q))
  /\ Stop(q, "failed")
  /\ UNCHANGED <<inputs, dst, cacheVars, handler, netVars, server, faults>>

\* The deadline passes although an answer would have come, or the file cannot be cut to the size
\* that did come.
ReadFails(q) ==
  /\ Waits(q) \/ At(q, "size")
  /\ Fault
  /\ Stop(q, "failed")
  /\ UNCHANGED <<inputs, dst, cacheVars, handler, netVars, server>>

---------------------------------------------------------------------------
(* The server: precomputeChecksums.                                        *)

\* TakeJob up to one block too many, and one too few.
MTakeJobPast(p) ==
  /\ server = "serving"
  /\ job[p] = NoJob /\ nextJob <= LastServed + 1
  /\ job' = [job EXCEPT ![p] = nextJob]
  /\ nextJob' = nextJob + 1
  /\ UNCHANGED <<inputs, dst, cache, client, handler, netVars, server, faults>>
MTakeJobShort(p) ==
  /\ server = "serving"
  /\ job[p] = NoJob /\ nextJob < LastServed
  /\ job' = [job EXCEPT ![p] = nextJob]
  /\ nextJob' = nextJob + 1
  /\ UNCHANGED <<inputs, dst, cache, client, handler, netVars, server, faults>>

TakeJob(p) ==
  /\ server = "serving"
  /\ job[p] = NoJob /\ nextJob <= LastServed
  /\ job' = [job EXCEPT ![p] = nextJob]
  /\ nextJob' = nextJob + 1
  /\ UNCHANGED <<inputs, dst, cache, client, handler, netVars, server, faults>>

\* It reads the block and sets its hash, or a mark if the read failed.
SetHash(p) ==
  /\ server = "serving" /\ job[p] # NoJob
  /\ cache' = [cache EXCEPT ![job[p]] = IF ZeroServed(job[p]) THEN "zero" ELSE "other"]
  /\ job' = [job EXCEPT ![p] = NoJob]
  /\ UNCHANGED <<inputs, dst, nextJob, client, handler, netVars, server, faults>>

HashFails(p) ==
  /\ server = "serving" /\ job[p] # NoJob
  /\ Fault
  /\ cache' = [cache EXCEPT ![job[p]] = "other"]
  /\ job' = [job EXCEPT ![p] = NoJob]
  /\ UNCHANGED <<inputs, dst, nextJob, client, handler, netVars, server>>

---------------------------------------------------------------------------
(* The server: startServerUpload and serverHandleUpload.                   *)

Running(q, pc) == server = "serving" /\ handler[q].pc = pc
Serve(q, pc)   == handler' = [handler EXCEPT ![q].pc = pc]

\* Append to the answers under way; what is written to a lost or closed connection goes nowhere.
Answer(q, m) == s2c' = IF q \in broken \/ Left(q) THEN s2c ELSE [s2c EXCEPT ![q] = Append(@, m)]

Accept(q) ==
  /\ Running(q, "queued")
  /\ Serve(q, "read")
  /\ UNCHANGED <<inputs, dst, cacheVars, client, netVars, server, faults>>

\* The accept loop ends at its first error, and with it the process.
AcceptFails ==
  /\ server = "serving"
  /\ Fault
  /\ server' = "ended"
  /\ UNCHANGED <<inputs, dst, cacheVars, client, handler, netVars>>

\* Read without the continue behind the size.
MReadFallsThrough(q) ==
  /\ Running(q, "read") /\ c2s[q] # <<>>
  /\ LET m == Head(c2s[q])
     IN IF m.blk > LastServed THEN Answer(q, Msg("done", m.blk)) /\ Serve(q, "end")
        ELSE /\ handler' = [handler EXCEPT ![q] = [pc |-> "answer", blk |-> m.blk]]
             /\ IF m.kind = "size" THEN Answer(q, m) ELSE UNCHANGED s2c
  /\ c2s' = [c2s EXCEPT ![q] = Tail(@)]
  /\ UNCHANGED <<inputs, dst, cacheVars, client, broken, server, faults>>

\* A request is read: the size is answered at once, a block past the last one with Done, which
\* ends the handler.
Read(q) ==
  /\ Running(q, "read") /\ c2s[q] # <<>>
  /\ LET m == Head(c2s[q])
     IN \/ m.kind = "size" /\ Answer(q, m) /\ UNCHANGED handler
        \/ m.kind = "ask" /\ m.blk > LastServed /\ Answer(q, Msg("done", m.blk)) /\ Serve(q, "end")
        \/ /\ m.kind = "ask" /\ m.blk <= LastServed
           /\ handler' = [handler EXCEPT ![q] = [pc |-> "answer", blk |-> m.blk]]
           /\ UNCHANGED s2c
  /\ c2s' = [c2s EXCEPT ![q] = Tail(@)]
  /\ UNCHANGED <<inputs, dst, cacheVars, client, broken, server, faults>>

\* The hash is there: a zero block has a header only, another one a payload too.
Header(q) ==
  /\ Running(q, "answer") /\ cache[handler[q].blk] # "none"
  /\ LET b == handler[q].blk
     IN IF cache[b] = "zero" THEN Answer(q, Msg("zero", b)) /\ Serve(q, "read")
        ELSE Answer(q, Msg("data", b)) /\ Serve(q, "payload")
  /\ UNCHANGED <<inputs, dst, cacheVars, client, c2s, broken, server, faults>>

\* A failed write of the header goes unnoticed, and so does one of the payload.
Payload(q) ==
  /\ Running(q, "payload")
  /\ Answer(q, Msg("payload", handler[q].blk))
  /\ Serve(q, "read")
  /\ UNCHANGED <<inputs, dst, cacheVars, client, c2s, broken, server, faults>>

\* End that leaves the handler of a client that closed its connection in peace.
MEndBroken(q) ==
  /\ Running(q, "read") /\ c2s[q] = <<>> /\ q \in broken
  /\ Serve(q, "end")
  /\ UNCHANGED <<inputs, dst, cacheVars, client, netVars, server, faults>>

\* The connection ends, and with it the handler.
End(q) ==
  /\ Running(q, "read") /\ c2s[q] = <<>> /\ (Left(q) \/ q \in broken)
  /\ Serve(q, "end")
  /\ UNCHANGED <<inputs, dst, cacheVars, client, netVars, server, faults>>

\* Reading the file fails, or a deadline passes: the handler returns and closes its connection.
HandlerFails(q) ==
  /\ Running(q, "read") \/ Running(q, "answer")
  /\ Fault
  /\ Serve(q, "end")
  /\ UNCHANGED <<inputs, dst, cacheVars, client, netVars, server>>

\* A connection breaks: of what was under way in each direction a prefix still arrives.
Break(q) ==
  /\ Fault
  /\ server = "serving" /\ handler[q].pc \notin {"unused", "end"} /\ q \notin broken
  /\ broken' = broken \cup {q}
  /\ \E k \in 0 .. Len(c2s[q]), n \in 0 .. Len(s2c[q]) :
       /\ c2s' = [c2s EXCEPT ![q] = SubSeq(@, 1, k)]
       /\ s2c' = [s2c EXCEPT ![q] = SubSeq(@, 1, n)]
  /\ UNCHANGED <<inputs, dst, cacheVars, client, handler, server>>

---------------------------------------------------------------------------
ClientStep(q) ==
  \/ Dial(q) \/ Refused(q) \/ ReadSize(q) \/ Ask(q) \/ Complete(q)
  \/ ReadHeader(q) \/ ReadPayload(q) \/ ReadEnds(q)
HandlerStep(q) == Accept(q) \/ Read(q) \/ Header(q) \/ Payload(q) \/ End(q)
HasherStep(p)  == TakeJob(p) \/ SetHash(p)
FaultStep(q)   == DialFails(q) \/ ReadFails(q) \/ WriteFails(q) \/ HandlerFails(q) \/ Break(q)

DownNext ==
  \/ \E q \in Clients : ClientStep(q) \/ HandlerStep(q) \/ FaultStep(q)
  \/ \E p \in Hashers : HasherStep(p) \/ HashFails(p)
  \/ AcceptFails

DownSpec == DownInit /\ [][DownNext]_downVars

(***************************************************************************)
(* Fairness: processes and goroutines that can go on do, and a read that   *)
(* can only fail or time out does. Faults are never due.                   *)
(***************************************************************************)
DownFairness ==
  /\ \A q \in Clients : WF_downVars(ClientStep(q)) /\ WF_downVars(HandlerStep(q))
  /\ \A p \in Hashers : WF_downVars(HasherStep(p))

FairDownSpec == DownSpec /\ DownFairness

---------------------------------------------------------------------------
DownTypeOK ==
  /\ src \in Sources /\ old \in [Clients -> Targets] /\ setting \in Settings
  /\ dst \in [Clients -> File]
  /\ cache \in [0 .. LastServed -> {"none", "zero", "other"}]
  /\ nextJob \in Nat
  /\ job \in [Hashers -> {NoJob} \cup 0 .. LastServed]
  /\ client \in [Clients -> [pc : {"dial", "size", "loop", "header", "payload", "break", "over"},
                             idx : Nat, end : {"none", "complete", "cut", "failed", "panic"}]]
  /\ handler \in [Clients -> [pc : {"unused", "queued", "read", "answer", "payload", "end"},
                              blk : 0 .. LastServed]]
  /\ c2s \in [Clients -> Seq([kind : {"size", "ask"}, blk : Nat])]
  /\ s2c \in [Clients -> Seq([kind : {"size", "zero", "data", "payload", "done"}, blk : Nat])]
  /\ broken \subseteq Clients
  /\ server \in {"serving", "ended"}
  /\ faults \in 0 .. MaxFaults

\* Both sides run with the same -b, and the server computes the hashes of what is asked for.
Agreed == serverSize = BlockSize /\ serverSkip <= clientSkip

\* What a client reads next is the answer to its last question, although it looks at no index:
\* the size, the header of the block it asked for, or that block's payload behind its header.
AnswersFit ==
  \A q \in Clients : s2c[q] # <<>> /\ ~Left(q) =>
    LET m == Head(s2c[q])
        rest == Tail(s2c[q])
    IN \/ At(q, "size") /\ m = Msg("size", 0) /\ rest = <<>>
       \/ /\ At(q, "header") /\ m.kind \in {"zero", "data", "done"} /\ m.blk = client[q].idx
          /\ rest = <<>> \/ (m.kind = "data" /\ rest = <<Msg("payload", m.blk)>>)
       \/ At(q, "payload") /\ m = Msg("payload", client[q].idx) /\ rest = <<>>

\* The client's block b holds the source's bytes.
InSync(q, b) == \A i \in Span(b) : i < src.size => dst[q].data[i] = src.data[i]

\* A download that ended early can go on with -s at the block it had come to: up to there every
\* block is the source's (or of zeros that were not written), and behind it the file is
\* as it was. No fault leaves a block half written, save in the block whose write failed.
Resumable ==
  Agreed => \A q \in Clients : ~(At(q, "dial") \/ At(q, "size")) => \A b \in Block :
    /\ clientSkip <= b /\ b < client[q].idx => InSync(q, b) \/ ZeroServed(b)
    /\ b < clientSkip \/ b > client[q].idx =>
         \A i \in Span(b) : \/ dst[q].data[i] = old[q].file.data[i]
                            \/ (~old[q].device /\ i >= src.size /\ dst[q].data[i] = 0)

\* A regular file has the source's size from the truncation on, whatever writes, reads and
\* connections fail behind it; a client that failed before it left its file as it was.
SizeKept ==
  Agreed => \A q \in Clients : ~old[q].device =>
    \/ dst[q].size = src.size
    \/ /\ dst[q] = old[q].file
       /\ At(q, "dial") \/ At(q, "size") \/ client[q].end = "failed"

(***************************************************************************)
(* A download implements Mirror: no step undoes a block that is right, and *)
(* "download complete" leaves no block different save zero blocks, which   *)
(* are not written, and those from a failed write on.                      *)
(***************************************************************************)
Differ(q)  == {b \in Block : Agreed /\ b >= clientSkip /\ ~InSync(q, b)}
Excused(q) == {b \in Block :
  \/ clientSkip <= b /\ b < client[q].idx /\ ZeroServed(b)
  \/ b >= client[q].idx /\ (At(q, "break") \/ client[q].end = "cut")}

Promise(q) == INSTANCE Mirror WITH
  Blocks  <- Block,
  differ  <- Differ(q),
  excused <- Excused(q),
  over    <- client[q].end \in {"complete", "cut"}

DownloadMirrors ==
  /\ \A q \in Clients : Promise(q)!MirrorInit
  /\ [][\A q \in Clients : [Promise(q)!MirrorNext]_(Promise(q)!mirrorVars)]_downVars

\* Every download ends, and completes unless there was a fault, the sides disagree on -b or -s,
\* or the file does not fit on the block device.
Fits(q) == old[q].device => src.size <= old[q].file.size
DownloadEnds == \A q \in Clients :
  <>(Left(q) /\ (client[q].end = "complete" \/ faults > 0 \/ ~Agreed \/ ~Fits(q)))

\* The server keeps no handler for a client that has gone, unless it waits for a hash for good.
HandlersEnd == \A q \in Clients :
  Left(q) ~> (handler[q].pc \in {"unused", "end"} \/ server = "ended" \/ NoAnswer(q))

\* README.md:194 verifies a transfer by comparing md5sums: "download complete" means the same bytes.
DownloadIsCopy ==
  Agreed => \A q \in Clients : client[q].end = "complete" =>
    \A b \in Block : b >= clientSkip => InSync(q, b)
=============================================================================
