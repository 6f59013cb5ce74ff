----------------------------- MODULE MCDownload -----------------------------
(* Download for TLC: sources of at most two blocks of two bytes, 0 or 1    *)
(* each, and room for a third block, which longer blocks of a server with  *)
(* another block size may reach.                                           *)
EXTENDS Download, TLC

FileOf(bytes) == [size |-> Len(bytes),
                  data |-> [i \in Pos |-> IF i < Len(bytes) THEN bytes[i + 1] ELSE 0]]

\* A zero block, then a short one.
MCSources == {FileOf(<<0, 0, 1>>)}

\* A longer file with data where the source has zeros, and a block device that is too short.
MCTargets == {[file |-> FileOf(<<1, 1, 0, 1, 1>>), device |-> FALSE],
              [file |-> FileOf(<<1>>), device |-> TRUE]}

\* Both sides alike; the same, going on behind a block that is there; the server with larger
\* blocks; the server skips a block the client asks for.
MCSettings == {[serverSize |-> 2, clientSkip |-> 0, serverSkip |-> 0],
               [serverSize |-> 2, clientSkip |-> 1, serverSkip |-> 1],
               [serverSize |-> 4, clientSkip |-> 0, serverSkip |-> 0],
               [serverSize |-> 2, clientSkip |-> 0, serverSkip |-> 1]}
=============================================================================
