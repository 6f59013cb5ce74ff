----------------------------- MODULE BlockFile -----------------------------
(***************************************************************************)
(* Files as bsync sees them: a size, and the bytes read, hashed and        *)
(* written one block at a time at offset index * blockSize. The bytes past *)
(* the end are kept as zero, which is what extending a file makes of them. *)
(* The checksum (FNV-1a, 128 bits) is assumed free of collisions.          *)
(***************************************************************************)
EXTENDS Integers

CONSTANTS Byte,        \* byte values; 0 is the byte isZeroBlock looks for
          BlockSize,   \* -b of the client, in bytes
          BlockCount   \* bound: no file of the model reaches past this many blocks

ASSUME FileAssumption ==
  /\ Byte \subseteq Nat /\ 0 \in Byte
  /\ BlockSize \in Nat \ {0}
  /\ BlockCount \in Nat \ {0}

Block == 0 .. BlockCount - 1
Pos   == 0 .. BlockCount * BlockSize - 1

Start(b) == b * BlockSize
Span(b)  == Start(b) .. Start(b + 1) - 1

File == {f \in [size : 0 .. BlockCount * BlockSize, data : [Pos -> Byte]] :
           \A i \in Pos : i >= f.size => f.data[i] = 0}

\* The index of the last block of a file that is not empty.
LastBlock(size) == (size - 1) \div BlockSize

\* ReadAt of one block: the bytes there are, fewer than a block at the end, none past it.
ReadBlock(f, b) == [i \in {j \in Span(b) : j < f.size} |-> f.data[i]]

\* WriteAt of the bytes d, which lie in block b: a write past the end extends the file.
WriteBlock(f, d, end) ==
  [size |-> IF end > f.size THEN end ELSE f.size,
   data |-> [i \in Pos |-> IF i \in DOMAIN d THEN d[i] ELSE f.data[i]]]

Zeros(b) == [i \in Span(b) |-> 0]

\* Resize to whole blocks, and Resize that never cuts.
MResizeDown(f, n) ==
  LET m == (n \div BlockSize) * BlockSize
  IN [size |-> m, data |-> [i \in Pos |-> IF i < m THEN f.data[i] ELSE 0]]
MResizeUp(f, n) == [f EXCEPT !.size = IF n > @ THEN n ELSE @]

\* truncateIfRegularFile: cut or extend to n bytes.
Resize(f, n) ==
  [size |-> n, data |-> [i \in Pos |-> IF i < n THEN f.data[i] ELSE 0]]

\* What isZeroBlock is asked: whether bytes are all zero.
IsZero(d) == \A i \in DOMAIN d : d[i] = 0

\* isZeroBlock of the n bytes d: by words of eight bytes, then the rest one by one.
isZeroBlock(d, n) ==
  IF n < 8 THEN \A i \in 0 .. n - 1 : d[i] = 0
  ELSE /\ \A i \in {j \in 0 .. n - 8 : j % 8 = 0} : \A k \in 0 .. 7 : d[i + k] = 0
       /\ \A i \in n - (n % 8) .. n - 1 : d[i] = 0

\* The cache's values: the all-zero hash, a checksum, and two marks of three bytes each.
NoBytes  == [i \in {} |-> 0]
ZeroHash == [kind |-> "zero", of |-> NoBytes]
Sum(d)   == [kind |-> "sum",  of |-> d]
EofMark  == [kind |-> "EOF",  of |-> NoBytes]
ErrMark  == [kind |-> "ERR",  of |-> NoBytes]
None     == [kind |-> "none", of |-> NoBytes]    \* no entry

Reads == UNION {[S -> Byte] : S \in SUBSET Pos}
Hash  == [kind : {"none", "zero", "sum", "EOF", "ERR"}, of : Reads]

\* What either side publishes for a block it read: zero blocks have a hash of their own.
BlockHash(d) == IF IsZero(d) THEN ZeroHash ELSE Sum(d)
=============================================================================
