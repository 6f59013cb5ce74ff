-------------------------- MODULE BlockFileProofs --------------------------
(***************************************************************************)
(* What the operators of BlockFile return, for any block size and any      *)
(* number of blocks: results are files, blocks lie within a file, and a    *)
(* hash equal to another's is one of equal bytes.                          *)
(***************************************************************************)
EXTENDS BlockFile, TLAPS

LEMMA DivMod ==
  ASSUME NEW n \in Nat, NEW d \in Nat \ {0}
  PROVE  /\ n \div d \in Nat
         /\ (n \div d) * d <= n /\ n < (n \div d + 1) * d
OBVIOUS

LEMMA MulMono ==
  ASSUME NEW a \in Nat, NEW b \in Nat, a <= b, NEW d \in Nat
  PROVE  a * d <= b * d
OBVIOUS

LEMMA Sizes == /\ BlockSize \in Nat \ {0} /\ BlockCount \in Nat \ {0}
               /\ BlockCount * BlockSize \in Nat
               /\ Pos \subseteq Nat /\ Block \subseteq Nat
               /\ 0 \in Block /\ 0 \in Byte
BY FileAssumption DEF Pos, Block

\* A block lies within the model's bound, and later blocks start later.
LEMMA StartBounds ==
  ASSUME NEW b \in Block
  PROVE  /\ Start(b) \in Nat /\ Start(b + 1) \in 0 .. BlockCount * BlockSize
         /\ Span(b) \subseteq Pos
<1>1. b \in Nat /\ b + 1 \in Nat /\ b + 1 <= BlockCount
  BY Sizes DEF Block
<1>2. (b + 1) * BlockSize <= BlockCount * BlockSize
  BY <1>1, MulMono, Sizes
<1>3. b * BlockSize \in Nat /\ (b + 1) * BlockSize \in Nat
  BY <1>1, Sizes
<1> QED
  BY <1>2, <1>3, Sizes DEF Start, Span, Pos

LEMMA StartMono ==
  ASSUME NEW a \in Nat, NEW b \in Nat, a <= b
  PROVE  Start(a) \in Nat /\ Start(a) <= Start(b)
BY MulMono, Sizes DEF Start

\* Two blocks share no byte.
LEMMA SpansApart ==
  ASSUME NEW a \in Block, NEW b \in Block, a # b, NEW k \in Span(a)
  PROVE  k \notin Span(b) /\ k \in Pos
<1>1. a \in Nat /\ b \in Nat /\ (a + 1 <= b \/ b + 1 <= a)
  BY Sizes
<1>2. /\ a + 1 <= b => Start(a + 1) <= Start(b) /\ Start(a + 1) \in Nat
      /\ b + 1 <= a => Start(b + 1) <= Start(a) /\ Start(b + 1) \in Nat
  BY <1>1, StartMono
<1>3. Start(a) \in Nat /\ Start(b) \in Nat /\ Start(a + 1) \in Nat /\ Start(b + 1) \in Nat
  BY <1>1, StartMono
<1>4. k \in Pos
  BY StartBounds
<1> QED
  BY <1>1, <1>2, <1>3, <1>4 DEF Span

\* Every byte lies in a block.
LEMMA PosInSpan ==
  ASSUME NEW i \in Pos
  PROVE  \E b \in Block : i \in Span(b)
<1> DEFINE q == i \div BlockSize
<1>1. i \in Nat /\ i < BlockCount * BlockSize
  BY Sizes DEF Pos
<1>2. q \in Nat /\ q * BlockSize <= i /\ i < (q + 1) * BlockSize
  BY <1>1, Sizes, DivMod
<1>3. q < BlockCount
  <2>1. q >= BlockCount => BlockCount * BlockSize <= q * BlockSize
    BY <1>2, Sizes, MulMono
  <2>2. q * BlockSize \in Nat
    BY <1>2, Sizes
  <2> QED
    BY <2>1, <2>2, <1>1, <1>2, Sizes
<1>4. q * BlockSize \in Nat /\ (q + 1) * BlockSize \in Nat
  BY <1>2, Sizes
<1> HIDE DEF q
<1>5. q \in Block
  BY <1>2, <1>3, Sizes DEF Block
<1>6. i \in Span(q)
  BY <1>1, <1>2, <1>4 DEF Span, Start
<1> QED
  BY <1>5, <1>6

\* The last block of a file is one of the model's, and the file ends within it.
LEMMA LastBlockBounds ==
  ASSUME NEW f \in File, f.size > 0
  PROVE  LastBlock(f.size) \in Block /\ f.size <= Start(LastBlock(f.size) + 1)
<1>1. f.size - 1 \in Nat /\ f.size - 1 < BlockCount * BlockSize /\ f.size \in Nat
  BY Sizes DEF File
<1> DEFINE q == (f.size - 1) \div BlockSize
<1>2. q \in Nat /\ q * BlockSize <= f.size - 1 /\ f.size - 1 < (q + 1) * BlockSize
  BY <1>1, Sizes, DivMod
<1>3. q < BlockCount
  <2>1. q >= BlockCount => BlockCount * BlockSize <= q * BlockSize
    BY <1>2, Sizes, MulMono
  <2>2. q * BlockSize \in Nat
    BY <1>2, Sizes
  <2> QED
    BY <2>1, <2>2, <1>1, <1>2, Sizes
<1>4. (q + 1) * BlockSize \in Nat
  BY <1>2, Sizes
<1> QED
  BY <1>1, <1>2, <1>3, <1>4, Sizes DEF LastBlock, Start, Block

LEMMA ReadsIntro ==
  ASSUME NEW S \in SUBSET Pos, NEW g \in [S -> Byte]
  PROVE  g \in Reads
BY DEF Reads

LEMMA FileElim ==
  ASSUME NEW f \in File
  PROVE  /\ f.size \in 0 .. BlockCount * BlockSize /\ f.data \in [Pos -> Byte]
         /\ \A i \in Pos : i >= f.size => f.data[i] = 0
BY DEF File

LEMMA ReadBlockType ==
  ASSUME NEW f \in File, NEW b \in Block
  PROVE  /\ ReadBlock(f, b) \in Reads
         /\ DOMAIN ReadBlock(f, b) = {i \in Span(b) : i < f.size}
         /\ \A i \in Span(b) : i < f.size => ReadBlock(f, b)[i] = f.data[i]
<1>1. {i \in Span(b) : i < f.size} \in SUBSET Pos
  BY StartBounds
<1>2. ReadBlock(f, b) \in [{i \in Span(b) : i < f.size} -> Byte]
  BY <1>1, FileElim DEF ReadBlock
<1> QED
  BY <1>1, <1>2, ReadsIntro DEF ReadBlock

LEMMA ZerosType ==
  ASSUME NEW b \in Block
  PROVE  /\ Zeros(b) \in Reads /\ DOMAIN Zeros(b) = Span(b)
         /\ \A i \in Span(b) : Zeros(b)[i] = 0
<1>1. Zeros(b) \in [Span(b) -> Byte]
  BY Sizes DEF Zeros
<1> QED
  BY <1>1, StartBounds, ReadsIntro DEF Zeros

LEMMA NoBytesType == NoBytes \in Reads
<1>1. NoBytes \in [{} -> Byte]
  BY DEF NoBytes
<1> QED
  BY <1>1, ReadsIntro

LEMMA HashTypes ==
  /\ ZeroHash \in Hash /\ EofMark \in Hash /\ None \in Hash /\ ErrMark \in Hash
  /\ \A d \in Reads : Sum(d) \in Hash /\ BlockHash(d) \in Hash
BY NoBytesType DEF Hash, None, ZeroHash, EofMark, ErrMark, Sum, BlockHash

\* truncateIfRegularFile makes a file of the size asked for.
LEMMA ResizeType ==
  ASSUME NEW f \in File, NEW n \in 0 .. BlockCount * BlockSize
  PROVE  Resize(f, n) \in File
<1>1. Resize(f, n) \in [size : 0 .. BlockCount * BlockSize, data : [Pos -> Byte]]
  BY FileElim, Sizes DEF Resize
<1>2. \A i \in Pos : i >= n => Resize(f, n).data[i] = 0
  BY Sizes DEF Resize
<1>3. Resize(f, n).size = n
  BY DEF Resize
<1> QED
  BY <1>1, <1>2, <1>3 DEF File

\* WriteAt makes a file, if the bytes lie before the end it is given.
LEMMA WriteType ==
  ASSUME NEW f \in File, NEW d \in Reads, NEW end \in 0 .. BlockCount * BlockSize,
         \A i \in DOMAIN d : i < end
  PROVE  WriteBlock(f, d, end) \in File
<1>0. PICK S \in SUBSET Pos : d \in [S -> Byte]
  BY DEF Reads
<1>1. WriteBlock(f, d, end) \in [size : 0 .. BlockCount * BlockSize, data : [Pos -> Byte]]
  BY <1>0, FileElim DEF WriteBlock
<1>2. ASSUME NEW i \in Pos, i >= WriteBlock(f, d, end).size
      PROVE  WriteBlock(f, d, end).data[i] = 0
  <2>1. i \in Int /\ f.size \in Int /\ end \in Int
    BY FileElim, Sizes
  <2>2. i >= end /\ i >= f.size
    BY <1>2, <2>1 DEF WriteBlock
  <2>3. i \notin DOMAIN d
    BY <2>1, <2>2
  <2> QED
    BY <2>2, <2>3, FileElim DEF WriteBlock
<1> QED
  BY <1>1, <1>2 DEF File

\* Two blocks read at the same place with the same hash hold the same bytes, as far as both
\* files reach, and zeros from there on: checksums do not collide, zero blocks share one hash.
LEMMA SameHash ==
  ASSUME NEW f \in File, NEW g \in File, NEW b \in Block,
         BlockHash(ReadBlock(f, b)) = BlockHash(ReadBlock(g, b))
  PROVE  \A i \in Span(b) : i < g.size => f.data[i] = g.data[i]
<1> DEFINE df == ReadBlock(f, b)
           dg == ReadBlock(g, b)
<1>1. IsZero(df) <=> IsZero(dg)
  BY DEF BlockHash, ZeroHash, Sum
<1>2. ASSUME ~IsZero(df), NEW i \in Span(b), i < g.size
      PROVE  f.data[i] = g.data[i]
  <2>1. df = dg
    BY <1>1, <1>2 DEF BlockHash, Sum
  <2>2. i \in DOMAIN dg /\ dg[i] = g.data[i]
    BY <1>2, ReadBlockType
  <2>3. i < f.size /\ df[i] = f.data[i]
    <3>1. DOMAIN df = {j \in Span(b) : j < f.size}
      BY ReadBlockType
    <3>2. i < f.size
      BY <2>1, <2>2, <3>1
    <3> QED
      BY <3>2, <1>2, ReadBlockType
  <2> QED
    BY <2>1, <2>2, <2>3
<1>3. ASSUME IsZero(df), NEW i \in Span(b), i < g.size
      PROVE  f.data[i] = g.data[i]
  <2>1. i \in Pos /\ i \in Int
    <3>1. Span(b) \subseteq Pos
      BY StartBounds
    <3>2. i \in Pos
      BY <3>1, <1>3
    <3> QED
      BY <3>2, Sizes
  <2>2. f.size \in Int
    BY FileElim, Sizes
  <2>3. g.data[i] = 0
    BY <1>1, <1>3, ReadBlockType DEF IsZero
  <2>4. CASE i < f.size
    <3>1. i \in DOMAIN df /\ df[i] = f.data[i]
      BY <2>4, ReadBlockType
    <3> QED
      BY <1>3, <2>3, <3>1 DEF IsZero
  <2>5. CASE i >= f.size
    BY <2>1, <2>3, <2>5, FileElim
  <2> QED
    BY <2>1, <2>2, <2>4, <2>5
<1> QED
  BY <1>2, <1>3

\* isZeroBlock's words and rest cover every byte and no other, whatever the length: a block is
\* taken for zero only if it is.
THEOREM ZeroBlockExact ==
  ASSUME NEW n \in Nat, NEW d \in [0 .. n - 1 -> Byte]
  PROVE  isZeroBlock(d, n) <=> IsZero(d)
<1>1. CASE n < 8
  BY <1>1 DEF isZeroBlock, IsZero
<1>2. CASE n >= 8
  <2> DEFINE m == n % 8
  <2>0. m \in 0 .. 7 /\ n = 8 * (n \div 8) + m /\ n \div 8 \in Nat
    OBVIOUS
  <2>7. isZeroBlock(d, n) <=>
          /\ \A i \in {j \in 0 .. n - 8 : j % 8 = 0} : \A k \in 0 .. 7 : d[i + k] = 0
          /\ \A i \in n - m .. n - 1 : d[i] = 0
    <3>1. ~(n < 8)
      BY <1>2
    <3> QED
      BY <3>1, Zenon DEF isZeroBlock
  <2>1. ASSUME IsZero(d) PROVE isZeroBlock(d, n)
    <3>1. ASSUME NEW i \in 0 .. n - 8, NEW k \in 0 .. 7 PROVE d[i + k] = 0
      <4>1. i + k \in 0 .. n - 1
        OBVIOUS
      <4> QED
        BY <2>1, <4>1 DEF IsZero
    <3>2. ASSUME NEW i \in n - m .. n - 1 PROVE d[i] = 0
      <4> HIDE DEF m
      <4>1. i \in 0 .. n - 1
        BY <1>2, <2>0
      <4> QED
        BY <2>1, <4>1 DEF IsZero
    <3> QED
      BY <2>7, <3>1, <3>2
  <2>2. ASSUME isZeroBlock(d, n), NEW i \in 0 .. n - 1 PROVE d[i] = 0
    <3>1. CASE i >= n - m
      <4>1. \A k \in n - m .. n - 1 : d[k] = 0
        BY <2>7, <2>2
      <4> HIDE DEF m
      <4> QED
        BY <2>0, <3>1, <4>1
    <3>2. CASE i < n - m
      <4> DEFINE r == i % 8
                 w == i \div 8
                 j == 8 * w
      <4>1. r \in 0 .. 7 /\ i = 8 * w + r /\ w \in Nat
        OBVIOUS
      <4>2. j % 8 = 0
        BY <4>1
      <4>3. j \in 0 .. n - 8
        <5> HIDE DEF m, r, w
        <5> QED
          BY <2>0, <3>2, <4>1
      <4>4. \A x \in {y \in 0 .. n - 8 : y % 8 = 0} : \A k \in 0 .. 7 : d[x + k] = 0
        BY <2>7, <2>2
      <4> HIDE DEF j, r
      <4>5. d[j + r] = 0
        BY <4>1, <4>2, <4>3, <4>4
      <4> QED
        BY <4>1, <4>5 DEF j
    <3> QED
      BY <3>1, <3>2, <2>0
  <2> QED
    BY <2>1, <2>2 DEF IsZero
<1> QED
  BY <1>1, <1>2
=============================================================================
