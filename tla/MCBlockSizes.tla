---------------------------- MODULE MCBlockSizes ----------------------------
(* A client with blocks of two bytes, a server with blocks of one, and a   *)
(* source of two blocks that compression does not shorten.                 *)
EXTENDS BlockSizes

FileOf(bytes) == [size |-> Len(bytes),
                  data |-> [i \in Pos |-> IF i < Len(bytes) THEN bytes[i + 1] ELSE 0]]

MCSources == {FileOf(<<1, 0, 0, 1>>)}
MCTargets == {FileOf(<<1, 1>>)}
=============================================================================
