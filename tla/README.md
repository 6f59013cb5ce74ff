# bsync in TLA+

bsync copies a file or a block device to another host block by block: a client reads its source
in blocks, asks the server for the hash of each of its blocks, and sends those that differ. This
directory holds TLA+ modules that model the program, TLC configurations that check them on small
instances, and proofs that the TLA+ proof system checks for every value of the constants.
`PROJECT.json` names the source lines every definition stands for.

Run `tlc -config MCUpload.cfg MCUpload.tla` (and likewise for the other `.cfg` files, whose names
begin with their module's) and `tlapm UploadMirrorProofs.tla` (and the other `*Proofs` modules).

## 1. Inventory

| Component | Source | State | Operations | Modelled by |
|---|---|---|---|---|
| server loop | `server.go` `startServer` | listener queue, `connChan`, `activeConns`, `doneReceived`, `idleTimer`, `shutdownTimer` | accept, receive, a goroutine per connection, timers, exit | `ServerLoop` |
| request handler | `server.go` `serverHandleReq` | message in hand, `lastBlockNum`, the destination file | hash request, zero block, data block, DONE, truncation, errors | `Upload` |
| server precomputation | `checksum.go` `precomputeChecksums`, `main.go` | jobs channel, `nextJob`, blocks in hand | take a job, read and hash, publish | `Upload` |
| checksum cache | `checksum.go` `ChecksumCache` | `data`, `ready`, mutex, condition | `Set`, `WaitFor` (`Delete` has no caller) | `ChecksumCache`, as a board in `Upload` |
| client transfer workers | `client.go` `startClient`, `processPrecomputedBlock` | connection, block, attempts | ask, compare, send, retry, give up, DONE | `Upload` |
| client pipeline | `reader.go`, `checksum.go` `precomputeChecksumsParallel` | `blockChan`, `precompressedChan`, `blockIdx` | read, hash and compress, forward, close | `ClientPipeline`, as a feed in `Upload` |
| connections | `connection.go` | socket, deadlines | dial, read, write, close | `Upload`, `ServerLoop`, `Download`, `RemoteLaunch` (partly) |
| files and blocks | `util.go`, `util_unix.go` | size and bytes | read, write, truncate, zero test, last block | `BlockFile`, devices in `Download` (partly) |
| wire messages | `msg.go` | - | pack, unpack | kinds and fields only |
| block sizes | `server.go` `serverHandleReq` | the global `blockSize`, each handler's `filebuf` | adopt a message's block size | `BlockSizes` |
| download server | `server.go` `startServerUpload`, `serverHandleUpload` | one handler per connection, the cache | send the size, zero and data blocks, Done | `Download` |
| download client | `client.go` `startClientDownload` | `blockIdx`, the destination file | ask, truncate, write, end | `Download` |
| remote launch | `ssh.go`, `main.go` | the process started, its output | parse `-t`, start, wait for READY, transfer, kill, wait | `RemoteLaunch`, `Target` |
| main | `main.go` | flags | set each mode up | the set-up in `Upload`, `Download`, `RemoteLaunch` |
| compression, encryption | `compress.go`, `crypto.go` | - | library calls and their inverses | assumed inverse |
| log, Windows drives and files | `log.go`, `drives_*.go`, `util_windows.go` | - | output, platform calls | not modelled |

**How they interact.** The client's three stages are goroutines joined by two bounded channels.
A transfer worker owns one TCP connection at a time, and closes it on any error. It writes a
request and waits for sixteen bytes; zero and data messages get no answer. The server's accept
goroutine hands connections one at a time to the main loop, which starts a goroutine for each. All
handlers share the destination file, the checksum cache and the loop's counter and timers. The
precompute workers share the file and the cache with them. DONE is a request for block 0 with a
mark, sent on a connection of its own when all workers have ended; the handler that meets it arms
the shutdown timer.

A download is another protocol on the same messages. The client has one connection, asks for the
size, cuts its file, and then asks for one block after the other; the server answers each with a
header, and with a payload unless the block is zeros. Neither side checks an index or the other's
block size, and nothing is retried.

With `-t`, main starts a server first: as a child if the target is a local path, otherwise over
ssh with a copy of the binary. It waits for the line READY, runs a client against the port, and
then waits for the process it started. A server that takes uploads ends after DONE; one that
serves downloads has no reason to end.

**What is hard.** The counter that decides the server's end is updated by two kinds of goroutines.
DONE is on another connection than the data. Truncation happens once per connection, at its first
message, while other handlers write and precompute workers read. A retry asks again on a new
connection while the old handler may still be answering or writing. Hashes in the cache may
describe bytes that have been overwritten or cut since. Waits for a hash end only if
somebody computes it. A download that breaks off must leave a file that `-s` can go on with.
Launchers share one port of their host, so one launch's connections and DONE reach the timers of
another's server, and READY says nothing about whose it is. `PROJECT.json` lists these hazards at
their lines, with the properties that would catch each.

**What makes each component correct.**

- Server loop: the counter is exact; a graceful exit kills no handler; connections are served in
  order; DONE on the last connection ends the server; an idle server ends.
- Request handler, with precomputation and workers: a skipped block is identical; an answer
  belongs to its question; no step undoes a block that is right; at the end every block is
  right unless given up or lost; a block is given up only when its attempts are used up; the
  destination's size; the upload ends.
- Cache: no lost wakeup; a waiter returns once its hash is set; callers see one board.
- Pipeline: every block reaches one worker, once; nobody sends on a closed channel; DONE follows
  all of them; no circular wait.
- Download: an answer belongs to its question; what has been written when it breaks off is right
  and the rest untouched; the size is the source's; blocks that are right stay so; both sides end.
- Launch: a target is read as it was meant; a client talks to the server its own launcher started;
  no server is left behind; every launch ends, if its server can answer DONE.

## 2. Plan

| Step | Modules | State |
|---|---|---|
| 1 | `ServerLoop`, `ServerLoopProofs` | done |
| 2 | `BlockFile`, `BlockFileProofs` | done |
| 3 | `Upload` = `ServerLoop` + `BlockFile` + client, handlers, precomputation; abstract `Mirror` | done |
| 4 | `UploadProofs` (types, exit, replies), `UploadMirrorProofs` (skips) | done |
| 5 | `ChecksumCache` implements `HashBoard`, with proofs | done |
| 6 | `ClientPipeline` implements `BlockFeed`, with `ClientPipelineProofs` | done |
| 7 | `Download` implements `Mirror`, with `DownloadProofs` | done |
| 8 | `isZeroBlock` by words and rest, with its proof | done |
| 9 | `Target`, `RemoteLaunch`, with `RemoteLaunchProofs` | done |
| 10 | `BlockSizes`: a client with another block size against the global `blockSize` | done |
| 11 | proofs of `NoEofReply` (`UploadProofs`) and of `Mirrors` for `Upload` (`UploadMirrorProofs`) | done |
| 12 | `Copies`, `NeverStuck`; proofs of `TailSize` with faults, of what an undisturbed upload and a download over a blank file leave, and that pipeline, upload and download are never stuck | done |
| 13 | that downloads and the pipeline take boundedly many steps (`DownloadStepsLeft`, `PipeStepsLeft`) | done |
| 14 | the same of an upload's steps; that launchers and the cache are never stuck | open |

Abstract specifications: `Mirror` (what an upload and what a download promises), `HashBoard`
(what the cache promises `Upload`), `BlockFeed` (what the pipeline promises `Upload`). `Upload` uses
the last two in their abstract form, which keeps it small enough to check; that the detailed modules
implement them is checked in runs of their own, and proved.

## 3. Modules

**`ServerLoop`** - `startServer`. `stage[c]` is where connection `c` is: in the kernel's queue
(`backlog`), offered on the unbuffered `connChan`, inside `serverHandleReq`, between the store to
`doneReceived` and `Reset`, at each of the two tests after the handler, and before the deferred
decrement. `Accept`, `Receive`, `ArmShutdown`, `CheckDone`, `CheckIdle`, `Leave`, `Fire` are the
pieces of code between two points at which another goroutine can intervene; `Return` and
`StoreDone` stand for the handler. Timers have no clock: an armed timer may fire at any later
time. After `Stop` or `Reset` no stale expiry is received, as in Go 1.23 and later (`go.mod` asks
for 1.25). `AcceptError` ends the process as `errChan` does, and `TruncateError` as a handler does
that cannot cut or stat the destination.

**`BlockFile`** - files as a size and bytes, and the operations on them: `ReadBlock` (short at the
end of the file, empty past it), `WriteBlock`, `Resize`, `IsZero`, `LastBlock`, `BlockHash`. A
checksum is modelled by the bytes it is of, that is, free of collisions. `IsZero` says what a zero
block is, `isZeroBlock` how the code looks for one, eight bytes at a time; `ZeroBlockExact`
proves that they agree for every length.

**`Upload`** - composes both with the rest of an upload. Each handler is at one of the places where
it reads the socket, waits for a hash, writes the file or publishes a hash. Actions, with the code
they stand for:

| Action | Code |
|---|---|
| `Take`, `Ask`, `Compare`, `Retry`, `EndWorker` | the worker's loop and `processPrecomputedBlock` |
| `AskFails`, `ReplyFails` | failed dial or write, failed read or passed deadline |
| `SendDone`, `SendDoneFails`, `EndClient` | the end of `startClient` |
| `ReaderFails` | `SequentialReader` stops at a read error, and nobody is told |
| `TakeJob`, `HashBlock`, `HashFails`, `Publish` | `precomputeChecksums` |
| `Read` | reading header and payload, `lastBlockNum`, `truncateIfRegularFile`, the branches |
| `Reply`, `Zero`, `Write`, `Set` | request and DONE branch, zero branch, `WriteAt`, `cache.Set` |
| `Abort`, `End`, `Break` | an error in the handler, its return, a lost connection |
| `ServerDies` | `Accept` fails, or the truncation of a first message |

`Break` loses any suffix of what is under way in either direction, and may cut a data message after
its header. A worker that writes on a dead connection either notices (`AskFails`) or does not.
`NoReply` names the replies that can never come; any other passed deadline is a late answer and
counts as a fault. A write that fails leaves any first part of its block (`WritePart`), and `Abort`
ends its handler there. When the server dies its clients' connections are dead and their dials are
refused (`Refused`).

**`SameBlockSize`** - `Upload` with the assumption that both sides run with the same `-b`. The
proofs about `Upload` use it, but for that of the exit. **`BlockSizes`** adds the two variables
that a difference touches, the global `blockSize` and the length of each handler's `filebuf`, to
`Upload` with its steps unchanged.

**`Mirror`** - what a transfer promises: the set of blocks that differ only shrinks, and the side
that leaves because the transfer is complete leaves no block different but those excused. `Upload` maps `differ` to the
blocks from `-s` on whose bytes differ, `excused` to the blocks given up, never read, or
sent on a connection that broke, and `over` to the exit after DONE.

**`ChecksumCache`**, **`HashBoard`** - `Set` and `WaitFor` over the mutex and the condition
variable. `Sleep` joins the list of waiters and unlocks at once, which `sync.Cond` guarantees
(`Wait` takes its ticket before it unlocks). The board shows a hash from one moment on, to all.

**`ClientPipeline`**, **`BlockFeed`** - the reader, the compressors, the goroutine that closes
`precompressedChan`, and the workers. Block indices are unsigned and wrap at `IdxMod` (2^32 in the
program). The feed reads the blocks in order and hands out each that was read, once, in any order;
a reader that fails loses the unread ones and no others.

**`Download`** - a server in upload mode and any number of clients, each with its own file. A
message names the block it is about but carries no bytes: the source never changes, so what
arrives is what the source holds there. The options of both sides are a state variable
(`setting`), so one run covers several.

| Action | Code |
|---|---|
| `Dial`, `Refused`, `DialFails` | the dial and the request for the size; `Err` on failure |
| `ReadSize` | the size arrives, `truncateIfRegularFile` |
| `Ask`, `ReadHeader`, `ReadPayload`, `Complete` | the loop of `startClientDownload` |
| `WriteFails` | decompression or `WriteAt` fails, and the loop is left |
| `ReadEnds`, `ReadFails` | the connection ends, a deadline passes, or the file cannot be cut |
| `TakeJob`, `SetHash`, `HashFails` | `precomputeChecksums` |
| `Accept`, `AcceptFails` | `startServerUpload` |
| `Read`, `Header`, `Payload`, `End`, `HandlerFails` | `serverHandleUpload` |
| `Break` | a lost connection; a prefix of what was under way arrives |

`end` tells how a client left: `complete`, `cut` (after a failed write, which the code reports as
complete too), `failed`, or `panic` (a payload longer than its buffer). `Download` implements
`Mirror` with `over` at either of the first two, and excuses zero blocks, which
are not written, and the blocks from a failed write on.

**`Target`** - `parseSSHTarget` and `isPortNumber` on texts as sequences of character codes, the
forms the documentation gives for `-t` (`Written`), and `Plain`, which of them are read as meant.

**`RemoteLaunch`** - any number of launchers, each with the server it starts. A transfer is
reduced to whether it holds a connection, and to whose server: that is what reaches the timers.
`alone` are the launchers that went on without READY, or lost their ssh or their server; `out` tells
an exit that does not see to the server it started ("left") from the others.

| Action | Code |
|---|---|
| `BadTarget`, `Start`, `StartFails` | `parseSSHTarget`, `copyBinaryToRemote`, starting the process |
| `Ready`, `ReadyFails` | `waitForReady`, where the end of the output counts as READY |
| `Open`, `OpenFails` | main opens its file, or kills what it started |
| `Quits` | `Err` in the client: the file's size, the address, a download's truncation; no Kill |
| `Dial`, `Refused`, `Finish`, `Cut` | the client's connections |
| `SendDone`, `DoneFails`, `Leave`, `Wait` | DONE, and `sshCmd.Wait` |
| `Listen`, `Fails`, `Announce` | the server's start, READY on its output |
| `Shutdown`, `DiesOfPipe` | the shutdown timer; a write to an output nobody reads |
| `ServerDies` | the size of its file, `Accept` or a truncation fails |
| `SshLost` | ssh ends, the server does not |

## 4. Abstractions

- In `Upload` the destination is a regular file and there is one client at a time. `Download` has
  block devices and several clients, `RemoteLaunch` several launches.
- What disagreeing block sizes do to an upload is modelled as far as the buffers (`BlockSizes`);
  what is then skipped wrongly is a finding. In `Download` both are part of the model, and
  `Resumable`, `SizeKept` and `DownloadMirrors` speak of sides that agree (`Agreed`).
- In `RemoteLaunch` a client has one connection besides DONE's; workers come and go as one.
  Files have three kinds: usable, empty, not to be opened. `DiesOfPipe` is a choice: whether
  a process that has lost its output dies depends on ssh and on what it prints.
- What a handler holds and what is left unread on its connection is dropped as it returns.
- A read or a write of one block of the file is one step, and so is the transfer of a message.
- Compression and encryption are undone by their inverses. Which blocks shrink is a constant: it
  matters for `-n`, which drops the data of those.
- `blk` in a reply and `on` in an outcome are kept for the properties and are not in the program;
  so is the outcome "unread".
- The number of bytes a mark (`EOF`, `ERR`) has is modelled by its effect: a client that
  waits for sixteen bytes never gets a reply from three.
- Statistics, progress and logging are left out.

## 5. Runs

| Run | Configuration | Shows |
|---|---|---|
| `server_loop` | 4 connections | `ActiveExact`, `GracefulExitIsQuiet`, `ServedInOrder`; `DoneOnLastConnEnds` |
| `server_idle` | 2 connections | violation of `IdleServerExits` |
| `upload` | 2 workers, 2 precompute workers, 4 sources by 4 destinations, `-n`, no faults | `SkipSound`, `RepliesMatch`, `NoEofReply`, `TailSize`, `Copies`; `Finishes`; `Mirrors` |
| `upload_faults` | 2 workers, 1 precompute worker, blocks of 3 bytes, 1 fault | `SkipSound`, `RepliesMatch`, `NoEofReply`, `TailSize`, `RetriesSuffice`; `Mirrors` |
| `upload_empty` | 1 worker, empty destination, 5 connections | violation of `Finishes` |
| `upload_blocksize` | 2 workers, blocks of 2 bytes against the server's of 1 | violation of `BufferHolds` |
| `download` | 2 clients, 1 precompute worker, a file and a device as targets, 4 settings of `-b` and `-s`, 1 fault | `AnswersFit`, `Resumable`, `SizeKept`; `DownloadEnds`, `HandlersEnd`; `DownloadMirrors` |
| `download_stale` | 1 client, an existing file | violation of `DownloadIsCopy` |
| `remote_launch` | 3 launchers, 9 cases of what they are asked to do, 1 fault | `OwnServer`, `LeavesNothing`; `LaunchesEnd` |
| `launch_download` | 1 launcher, 1 download | violation of `EveryLaunchEnds` |
| `checksum_cache` | 2 callers each of `Set` and `WaitFor`, 3 blocks, bound 1 | `NoLostWakeup`, `WaiterReturns`; implements `HashBoard` |
| `client_pipeline` | 2 compressors, 2 workers, channels of 2, blocks 1 to 6, indices modulo 8 | `NoSendOnClosed`, `NeverStuck`, `AllBlocksTaken`; `ClientEnds`; implements `BlockFeed` |

Each passing run checks its module's type invariant too, but for `upload_faults`.

**Bounds and why they are enough.**

- `MaxConn` 4 in `server_loop`: one connection serving, one offered, one queued and one between its
  tests are four different places at once. In `upload` without faults, two workers
  and DONE use three connections, with one to spare for a retry; in `upload_faults` a worker that
  lost its connection gets another. `TypeOK`'s and `ServerLoop`'s theorems hold for any number.
  When the connections are used up a retry cannot dial, so liveness is checked only without
  faults, where four are enough: the one source with a block that `-n` leaves without data has
  no other block, and its three attempts, each on a new connection, and DONE make four.
- `MaxConn` 5 in `upload_empty`: three attempts for block 0, one for a second block's request if the
  source has one, and DONE; so the trace ends with DONE sent, the client gone and the server waiting
  for the hash of block 0, and not for want of a connection.
- `BlockCount` 2, `BlockSize` 2, `Byte` {0, 1}: a full block, a short one, a zero one, and a
  destination equal, shorter, longer within the last block, and a block longer. Block 0 (which DONE
  also names) and a last block differ. With faults, one source and one destination in blocks of
  three bytes: data that differs, then zeros over a last block that truncation cuts short,
  which puts every kind of message and every race with truncation in one behaviour.
- `download`: the source is a zero block and a short one; a third block gives room to what a
  server with larger blocks sends. One target is longer than the source and has data where it has
  zeros, the other a device it does not fit on. The settings are: alike; alike, going on behind
  block 0; the server's blocks larger; the server skipping a block that is asked for. Two clients
  share the precomputation and the accept loop, and nothing else: a third would add nothing.
- `remote_launch`: with three launchers, a server can be left by its own client while a second
  client is connected to it and a third launcher's server waits for the port. The cases put
  uploads and downloads on one host, a missing or empty file on either side, local and remote
  targets, `-s`, and each way in which `-t` is read, misread or names no place (`MCRemoteLaunch`
  names them). How it is read is decided for all texts by `ReadExactlyPlain`.
- `MaxFaults` 1: any one fault at any place. One fault in a race of two workers already reaches
  a retry beside the first handler still at work. `RetriesSuffice` allows a block to be given up
  after three faults: with one it says that no single fault costs a block all its attempts, which is
  where attempts that share a connection would.
- `upload_faults` uses symmetry in the workers and precompute workers: nothing tells them apart,
  and its only temporal property is a safety property.
- `MaxSets` 2 with two setters: two sets at once, the same block twice, or one each.
- `Ahead` 2 with six blocks: both channels fill and drain. `LastBlock` 6 of indices modulo 8 is the
  largest block index but one; at 7 the reader never ends and past it blocks are missed (see the
  findings).
- `taken` counts to 2, which is enough to see a block taken twice.

**Fairness.** Goroutines that can run do, and armed timers fire. A handler or a worker never
waits on the network for good: `connRead` and `connWrite` set deadlines of five minutes, so a read
that can only time out does (`ReplyFails` without a fault is fair). Faults, and new connections of
clients, are never due. The mutex is granted strongly fairly: `sync.Mutex` hands itself
to a waiter that has waited for a millisecond. In `ClientPipeline` a worker's turn with a block
ends, as its attempts are counted and each has deadlines. In `Download` each client, each handler
and each precompute worker goes on if it can; in a state where a client can do nothing but run
into its deadline, `ReadEnds` is fair. In `RemoteLaunch` each launcher and each server goes on,
which includes the timer; errors, a lost ssh and the death of a server without its output are never
due. `LaunchesEnd` leaves out launches whose server cannot answer DONE: one of an empty file or with
`-s` (findings 2 and 6).

## 6. Proofs

All assume only the named assumptions on the constants, so they hold for any number of
connections, workers, clients, launchers and faults, any files and any block size.
`MaxConnAssumption`, `FileAssumption`, `UploadAssumption`, `CacheAssumption`,
`DownloadAssumption` and `LaunchAssumption` only type the constants. Two say more:
`SameSizeAssumption`, that both sides of an upload run with the same `-b`, and `RoomAssumption`,
that what a download server with larger blocks sends still fits the model's files.

- `ServerLoopProofs`: `LoopActiveExact`, `LoopTypeCorrect`, `LoopExitIsQuiet`,
  `LoopServesInOrder`, from the invariant `LoopInv`. `ActiveExact` alone gives the quiet exit: `Fire`
  leaves only at counter 0, and an exact counter at 0 means no connection is counted.
  `ServedInOrder` is not inductive: it needs that connections are numbered in arrival order
  (`Arrival`), that the queue is sorted and holds the queued ones (`Queue`), and that an offered
  connection comes after all served ones and before all queued ones (`InOrder`). `LoopNeverIdles`
  is finding 1 for any number of connections: a connection that tests the counter is counted in it.
  `LoopDoneLeads` is the safety half of `DoneOnLastConnEnds`: once the last connection's DONE has
  been read, every other connection has been received, so none is left to stop the timer again.
- `UploadProofs`: every step of `Upload` is a step of `ServerLoop` or leaves its variables alone
  (`LoopSim`), so `LoopInv` carries over and `UploadExitIsQuiet` follows. `UploadTypeCorrect` needs
  `Shape`: besides the types, that the messages on the wire and in a handler's hand are
  ones the client made of its source (`Carried`), or a write could not be bounded.
- `UploadProofs`, replies: `UploadRepliesMatch`. The invariant `Framing` says, for a worker
  that holds a connection, what request, message in the handler's hand and reply there can be: at
  most one of the three, belonging to the worker's block, and none unless the worker waits for a
  reply. `Links` says that no two client goroutines hold the same connection and that a held one
  has been dialled.
- `UploadProofs`, the mark: `UploadNoEofReply`. The client asks only for blocks its source has
  (`Asked`), and the mark is made only of blocks past the source (`EofPast`): while any block is
  still to be read by precomputation, those the source has and the destination had from the start
  lie within the destination (`ReadsWithin`), as it shrinks to the source's size at most.
- `UploadMirrorProofs`, skips: `UploadSkipSound`. Two facts carry it. `Towards`: a step leaves each
  byte of the destination as it is or makes it the source's, so a block in sync stays so.
  `Truthful`: a hash that equals the source's is of a block in sync by now, wherever it is: with a
  precompute worker, in the cache, in a reply, or about to be published by a handler (`Written`);
  and past the cache's bound, where the answer is always the zero hash, there are only zeros and
  bytes of the source (`BeyondTrue`). With `RepliesMatch` the hash compared is of the block asked for.
- `UploadMirrorProofs`, refinement: `UploadImplementsMirror`. That no step undoes a block and that
  a settled block stays settled is quickly had; the work is the step in which the server leaves
  (`DoneMeansDone`). `Assigned` and `EndedIdle`: each block is waiting, one worker's, or settled, so
  that all blocks are settled when all workers have ended. `Barrier`: DONE is sent after that, on a
  connection later than any a block was sent on, and the server knows of DONE only when it has
  come to that connection. `Intact`: a handler stops half way through its stream only when the
  connection broke. `Delivered`: a block sent on a connection that holds is right, or still in its
  stream or in its handler's hand. When the shutdown timer finds the counter at 0, all earlier
  connections have been served and are over (`InOrder`, `ActiveExact`), so nothing is still on its
  way. The theorem's one premise is that there is a worker: with `-w 0` DONE is sent and no block
  (finding 19).
- `UploadMirrorProofs`, the size: `UploadTailSize`, through any faults. DONE comes on a connection of
  its own (`DoneAlone`), so its handler has seen no block and truncates to the size DONE brings; a
  write that comes later, by a handler whose client has given up, ends where the source ends or where
  the last block does (`PosInSpan` of `BlockFileProofs`), or before if it fails part way
  (`WritePart`), and never cuts anything off. What such a late and partial write of zeros leaves is a
  size between the source's and that of whole blocks; without faults it is one of the two.
- `UploadMirrorProofs`, the copy: `UploadCopies` and `UploadIsCopy`. Without faults no connection
  breaks and no read fails (`Calm`), and no worker runs into its deadline, as precomputation makes
  every hash asked for (`Computed`, `NobodyWaits`); so a block is given up only where `-n` leaves it
  without data, and when the server has left after DONE each other block is right. Without `-s` and
  `-n` that is the source, byte for byte. The premise `Prepared` rules out findings 2 and 6: no
  destination is empty, and the server hashes what the client asks for.
- `UploadMirrorProofs`, waiting: `UploadClientGoesOn` and `UploadServerGoesOn`. For each goroutine a
  predicate says when it has a step (`HandlerCan`, `WorkerCan`, ...). `Asking`: what a worker
  waits for is on its connection, or with its handler, until the connection dies, after which the
  read can end. `AnswerKnown`: a handler never waits for a hash the client has already had. So,
  through any faults, server deaths among them, a worker goes on unless the server is about to, or the model has no number left
  for a new connection; and main waits only for workers. The one premise is a precompute worker.
  Once DONE is sent, without faults, the server goes on until it leaves: `DoneLeads` says where DONE
  is, on the last connection there will be. Its premises rule out findings 2 and 6.
- `ChecksumCacheProofs`: `CacheTypeCorrect`, `CacheLosesNoWakeup`, and `CacheImplementsBoard`: each
  step of the cache is a `Post`, a `Get` or a stutter. `CacheInv` adds that a goroutine in a call has
  arguments (`Args`).
- `ClientPipelineProofs`: `PipeTypeCorrect`, `PipeNoSendOnClosed`, `PipeAllBlocksTaken` and
  `PipeImplementsFeed`: each step is a `Fetch`, a `Give`, a `Lose`, an `End` or a stutter. `Order` says that a stage has ended only behind the one before it, with
  nothing left in between; `Placement` that a block the reader has passed is in exactly one place
  (a channel, a compressor's hand, or taken, once) and that a block it has not passed is in none. Two
  premises are stated where they are needed: `Staffed`, that there is a compressor and a worker, as
  `-w 0` starts none of either, and that the source has fewer blocks than the index can count
  (`Indexed`, `LastBlock + 1 < IdxMod`). `PipeNeverStuck`: until main has ended some goroutine
  has a step, and when main has nothing is left in a channel or a hand. `PipeStepsLeft` gives a number
  that every step lowers: a block to be read weighs more than one that has been, and so on down the
  pipeline. Together: the pipeline ends, in whatever order its goroutines run.
- `DownloadProofs`: `DownTypeCorrect` and `DownAnswersFit` from the invariant `DownIInv`. Its core
  is `Frame`: for each place the client can be at, which places the handler can be at and what is
  under way in either direction, all of it about the block in the client's hand; on a connection
  that has broken, any prefix of that. `Placed` bounds the block asked for, so that what is pasted
  fits. `DownResumable` and `DownSizeKept` add `Progress`: the file is untouched before the size
  has come, has the source's size afterwards, and each of its blocks is as `Resumable` says.
  `DownImplementsMirror` splits each step by what it does to `differ`, `excused` and `over`:
  a written block is a `Copy`, a skipped zero block or a failed write an `Excuse`, and at the end
  `Progress` shows that what still differs is excused (`MirrorDone`).
- `DownloadProofs`, the end: `DownBlankIsCopy` is the converse of finding 4: over a new destination,
  or one of zeros only, and with the same `-b`, "download complete" does mean the source's bytes, as
  every block passed over was zero on both sides. `DownCompletes` is the safety half of
  `DownloadEnds`: without faults, without disagreement and with room on the device, a client that
  has left is complete (`Smooth`: no step on the way gives up). `DownloadNeverStuck`: a
  client goes on, or its handler, or precomputation; the only wait without an end is a handler's for a
  block that `-s` skips, and there the client gives up at its deadline. `DownloadStepsLeft` gives each
  download, and precomputation, a number of steps left (`StepsOf`, `HashSteps`): no step raises any,
  and every step but the end of the server lowers one.
- `RemoteLaunchProofs`: `ReadExactlyPlain` is about `parseSSHTarget` itself, for texts of any
  length, from lemmas on the first separator of a concatenation. `LaunchTypeCorrect` is inductive as
  it stands. `LaunchLeavesNothing` needs that only an ssh can be cut off (`CutRemote`), and that how a
  launcher exited and what was cut stays (`LeftAlone`). `LaunchOwnServer` needs that a host's port has one server
  at a time (`OnePort`), that READY comes from one that has listened (`Heard`), and that until some
  launcher goes on without READY, or loses its ssh or its server, each server outlives its own
  launcher's client, as only that launcher's DONE arms its timer (`KeptServer`). It holds through
  all other faults: exits that leave servers behind, failed starts, DONE that is lost.
- `BlockFileProofs`: `ZeroBlockExact`, and lemmas on files: bounds of blocks, types of what is
  read, written and resized, and that equal hashes of a block mean equal bytes.

**Only model-checked.** `RetriesSuffice`, and the liveness properties (`Finishes`, `DoneOnLastConnEnds`,
`WaiterReturns`, `ClientEnds`, `DownloadEnds`, `HandlersEnd`, `LaunchesEnd`): neither fairness nor
ENABLED is within the prover's reach. What of them is safety is proved: that what was begun is not
undone (`LoopDoneLeads`, `DownCompletes`, `UploadCopies`), that somebody has a step as long
as something is left to do, and, for downloads and the pipeline, that there are only so many steps.
The predicates which say that a goroutine has a step repeat the guards of its actions; that they
agree with ENABLED was seen by TLC for every reachable state of the runs `upload`,
`upload_faults`, `upload_empty`, `download` and `client_pipeline`, and is not part of a run.

## 7. Findings

1. **The idle timer is never started** (`server_idle`). The test for 0 connections runs before the
   deferred decrement (`server.go:318`, `:332`): the last connection still counts itself.
   `LoopNeverIdles` proves it for any number of connections.
2. **An empty destination is never filled** (`upload_empty`). The cache's bound is 0 although
   nothing is precomputed, so `WaitFor(0)` waits for good: block 0 is given up, DONE is sent and never
   answered, and the server stays.
3. **A client with larger blocks can take the server down** (`upload_blocksize`). A handler that
   runs while another adopts the new block size keeps its shorter buffer (`server.go:125`, `:201`).
4. **A download over an existing file keeps old bytes** (`download_stale`). Zero blocks are not
   written, and truncation does not clear (`client.go:382`).
5. **A download with `-t` never ends** (`launch_download`). main waits for a server that serves on
   (`main.go:116`, `server.go:376`).

Seen while modelling, without a run of their own:

6. **A resumed upload never ends**: DONE asks for block 0, whose hash `-s` skips (`checksum.go:190`).
7. **The destination can end up too long**: a short last block of zeros is written a whole
   block long, after the truncation (`server.go:160`). `TailSize` shows that nothing else goes wrong
   with the size, with faults or without, but that a part of those zeros is left if their late
   write fails.
8. **`-n` loses blocks that compress well**: the compression stage drops their data (`client.go:229`).
9. **A lost write counts as delivered** (`client.go:256`): nothing acknowledges data. `Mirrors`
   shows that this, giving a block up, and a source that cannot be read are the only ways in which
   a block stays different.
10. **Precomputation uses the server's `-b`** (`main.go:209`): with another one on the client a
    hash answers for a different piece of the file. `SameSizeAssumption` rules that out.
11. **A download client ignores the server's `-b`** (`client.go:326`), although it is told.
12. **A download whose write failed says that it is complete** (`client.go:405`, `:420`).
13. **Targets are cut at colons, and an "@" in a path makes a user** (`ssh.go:60`). `Plain` says when.
14. **The end of the output counts as READY** (`ssh.go:81`).
15. **A server is left behind**: a remote one when the launcher cannot use its own file
    (`main.go:103`), as only ssh is killed; any one when the size of the file, a download's truncation
    or the output of the server fails (`main.go:148`, `util_unix.go:14`, `:33`, `ssh.go:245`), as
    `Err` exits without the Kill. `LeavesNothing` shows that these are all the cases.
16. **`-b 200M`, as the README writes it, is refused** (`main.go:34`).
17. **Block indices wrap** (`reader.go:46`): a source of exactly 2^32 blocks is read for ever, a
    longer one modulo 2^32. `AllBlocksTaken` and `ClientEnds` hold below that.
18. **DONE does not end a server that gets another connection afterwards** (`server.go:315`): the
    timer stops, and only another DONE restarts it.
19. **`-w 0` sends nothing and reports success** (`main.go:42`): no compressor and no worker is
    started, so nobody is waited for and DONE goes out at once (`client.go`, `checksum.go`).
20. **A retry can reach another launch's server** (`client.go:113`): after its own server's death by
    an error, a client dials the port again, and the server that has it by then takes its blocks.
    `OwnServer` leaves out launches whose server died.

## 8. Not modelled

- Several clients at once at an upload server, beyond what `RemoteLaunch` says of its timers: no
  block of one is told from a block of the other, and they would share one file.
- Block devices as the destination of an upload: truncation does nothing there and their size
  is fixed.
- The bytes of a message, and the loop over partial writes (`connWrite`): a TCP stream has no
  borders, and both sides read exact lengths.
- Compression, encryption and the hash's arithmetic: library code or data only.
- The name and lifetime of the binary copied to `/tmp` (`ssh.go:92`).
- Flags, usage, logging, statistics, Windows drives and file calls: no protocol state.
