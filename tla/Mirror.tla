------------------------------- MODULE Mirror -------------------------------
(***************************************************************************)
(* What a transfer promises, without messages, hashes or connections: the  *)
(* set of blocks that differ between source and destination only shrinks,  *)
(* and the side that leaves because the transfer is complete leaves no     *)
(* block different, save those excused: given up, or lost on the way.      *)
(***************************************************************************)
CONSTANT Blocks         \* the blocks of the source the client is to send

VARIABLES
  differ,    \* blocks in which the destination differs from the source
  excused,   \* blocks given up or lost
  over       \* one side has left: the server after DONE, the client of a download

mirrorVars == <<differ, excused, over>>

MirrorInit ==
  /\ differ \subseteq Blocks
  /\ excused = {}
  /\ over = FALSE

\* A block is copied.
Copy(b) ==
  /\ ~over
  /\ b \in differ
  /\ differ' = differ \ {b}
  /\ UNCHANGED <<excused, over>>

\* Blocks are given up, or the connection they were sent on is lost; some may be copied for all
\* that.
Excuse ==
  /\ ~over
  /\ \E S \in SUBSET Blocks :
       /\ excused' = excused \cup S
       /\ \E T \in SUBSET S : differ' = differ \ T
  /\ UNCHANGED over

\* The transfer is complete.
Leave ==
  /\ ~over
  /\ differ \subseteq excused
  /\ over' = TRUE
  /\ UNCHANGED <<differ, excused>>

MirrorNext == (\E b \in Blocks : Copy(b)) \/ Excuse \/ Leave

MirrorSpec == MirrorInit /\ [][MirrorNext]_mirrorVars
=============================================================================
