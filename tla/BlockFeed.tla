------------------------------ MODULE BlockFeed ------------------------------
(***************************************************************************)
(* What the client's reading and compressing stages promise its transfer   *)
(* workers: the blocks of a file, read in order, each handed to one worker *)
(* once, in any order, and an end when none is left. If the reader fails,  *)
(* the blocks it has not read never come, but those it has do. Upload      *)
(* feeds its workers this way.                                             *)
(***************************************************************************)
EXTENDS Integers

CONSTANTS Workers, Blocks

VARIABLES
  unread,   \* the blocks the reader has not read yet
  coming,   \* the blocks on their way to a worker
  given,    \* the blocks workers were given
  ended     \* the workers that were told there are no more

feedVars == <<unread, coming, given, ended>>

FeedInit == unread = Blocks /\ coming = {} /\ given = {} /\ ended = {}

Fetch(b) ==
  /\ \A c \in unread : b <= c
  /\ unread' = unread \ {b}
  /\ coming' = coming \cup {b}
  /\ UNCHANGED <<given, ended>>

Lose ==
  /\ unread' = {}
  /\ UNCHANGED <<coming, given, ended>>

Give(b) ==
  /\ b \notin given
  /\ coming' = coming \ {b}
  /\ given' = given \cup {b}
  /\ UNCHANGED <<unread, ended>>

End(w) ==
  /\ unread = {} /\ coming = {}
  /\ ended' = ended \cup {w}
  /\ UNCHANGED <<unread, coming, given>>

FeedNext ==
  \/ \E b \in unread : Fetch(b)
  \/ Lose
  \/ \E b \in coming : Give(b)
  \/ \E w \in Workers : End(w)

FeedSpec == FeedInit /\ [][FeedNext]_feedVars
=============================================================================
