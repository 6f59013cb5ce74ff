----------------------------- MODULE BlockSizes -----------------------------
(***************************************************************************)
(* The handlers' buffers in an upload whose client runs with another -b    *)
(* than the server. The block size is one global variable: a handler makes *)
(* its buffer of that size, and the handler that reads a message with      *)
(* another size sets the variable and makes its own buffer anew.           *)
(***************************************************************************)
EXTENDS Upload

VARIABLES
  blockSize, \* the server's global blockSize
  filebuf    \* the length of each handler's buffer

sizesVars == <<vars, blockSize, filebuf>>

SizesInit ==
  /\ Init
  /\ blockSize = ServerBlockSize
  /\ filebuf = [c \in Conn |-> 0]

\* A handler starts.
StartHandler(c) ==
  /\ stage[c] = "offered" /\ stage'[c] = "serving"
  /\ filebuf' = [filebuf EXCEPT ![c] = blockSize]
  /\ UNCHANGED blockSize

\* A handler reads a message, which carries the client's block size.
ReadSize(c) ==
  /\ Read(c)
  /\ blockSize' = BlockSize
  /\ filebuf' = [filebuf EXCEPT ![c] = IF blockSize # BlockSize THEN BlockSize ELSE @]

SizesNext ==
  \/ \E c \in Conn : ReadSize(c)
  \/ \E c \in Conn : LoopStep /\ StartHandler(c)
  \/ /\ Next
     /\ \A c \in Conn : ~Read(c) /\ ~(stage[c] = "offered" /\ stage'[c] = "serving")
     /\ UNCHANGED <<blockSize, filebuf>>

SizesSpec == SizesInit /\ [][SizesNext]_sizesVars

\* The bytes of a block as they travel fit the handler's buffer, so that slicing the buffer
\* (server.go:201) cannot panic and take the server down with all its handlers.
BufferHolds ==
  \A c \in Conn : LET d == handler[c].msg.data
                  IN handler[c].pc = "write" /\ d \notin Shrinks
                       => \A i \in DOMAIN d : i - Start(handler[c].msg.blk) < filebuf[c]
=============================================================================
