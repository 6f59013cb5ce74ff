------------------------------ MODULE MCUpload ------------------------------
(* Upload for TLC: files of at most two blocks of two bytes (three with    *)
(* faults), 0 or 1 each.                                                   *)
EXTENDS SameBlockSize, TLC

\* A file from its bytes.
FileOf(bytes) == [size |-> Len(bytes),
                  data |-> [i \in Pos |-> IF i < Len(bytes) THEN bytes[i + 1] ELSE 0]]

\* Two blocks of data; a zero block, then a short one; data, then a short zero block; and one
\* block that shrinks, which -n leaves without data.
MCSources == {FileOf(<<1, 0, 0, 1>>), FileOf(<<0, 0, 1>>), FileOf(<<1, 0, 0>>), FileOf(<<1, 1>>)}

\* Equal or not, shorter, longer within the block, and with a block to cut off.
MCTargets == {FileOf(<<1>>), FileOf(<<1, 0, 0>>), FileOf(<<1, 1, 1, 1>>), FileOf(<<0, 0, 1, 0>>)}

MCEmpty == {FileOf(<<>>)}

\* For the runs with faults, in blocks of three bytes: a block of data that differs, then zeros
\* over a block to be cut short by truncation.
MCSource       == {FileOf(<<1, 0, 1, 0>>)}
MCFaultTargets == {FileOf(<<1, 1, 1, 1, 1>>)}

\* Blocks of one value shrink.
MCShrinks == {d \in UNION {[D -> Byte] : D \in {Span(b) : b \in Block}} :
                \A i, j \in DOMAIN d : d[i] = d[j]}

\* Only for the runs without liveness.
Symmetry == Permutations(Workers) \cup Permutations(Hashers)
=============================================================================
