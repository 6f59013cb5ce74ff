------------------------------ MODULE HashBoard ------------------------------
(***************************************************************************)
(* What ChecksumCache promises its callers, without mutex or condition: a  *)
(* board on which hashes are posted at once, and from which a reader gets  *)
(* the hash posted last for its block, waiting if there is none yet. Past  *)
(* the bound every reader gets the zero hash at once. Upload takes the     *)
(* cache for such a board.                                                 *)
(***************************************************************************)
EXTENDS Naturals

CONSTANTS Idx,      \* block indices
          MaxId,    \* the cache's bound
          Hash, ZeroHash, NoHash,
          Waiters

VARIABLES board,    \* the hash posted last for each block, or NoHash
          got       \* what each waiter's last call returned: a block and its hash

boardVars == <<board, got>>

BoardInit ==
  /\ board = [i \in Idx |-> NoHash]
  /\ got = [p \in Waiters |-> <<>>]

Post(i, h) ==
  /\ board' = [board EXCEPT ![i] = h]
  /\ UNCHANGED got

Get(p, i) ==
  /\ i > MaxId \/ board[i] # NoHash
  /\ got' = [got EXCEPT ![p] = <<i, IF i > MaxId THEN ZeroHash ELSE board[i]>>]
  /\ UNCHANGED board

BoardNext == \E i \in Idx : \/ \E h \in Hash : Post(i, h)
                            \/ \E p \in Waiters : Get(p, i)

BoardSpec == BoardInit /\ [][BoardNext]_boardVars
=============================================================================
