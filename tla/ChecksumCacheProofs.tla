------------------------- MODULE ChecksumCacheProofs -------------------------
(***************************************************************************)
(* Proofs about ChecksumCache: types and mutual exclusion, that no wakeup  *)
(* is lost, and that the cache implements the board.                       *)
(***************************************************************************)
EXTENDS ChecksumCache, TLAPS

Place == {"idle", "lock", "held", "unlock", "asleep"}
Frame == [pc : Place, idx : Nat, hash : Hash \cup {NoHash}]

\* What is needed to know that a step keeps the invariant: a goroutine in Set or WaitFor has a
\* block of the file in hand, and Set a hash.
Args ==
  \A p \in Caller : proc[p].pc # "idle" => proc[p].idx \in Idx /\ proc[p].hash \in Hash

CacheInv == CacheTypeOK /\ Args /\ NoLostWakeup

LEMMA CacheInitInv == CacheInit => CacheInv
<1> SUFFICES ASSUME CacheInit PROVE CacheInv
  OBVIOUS
<1>1. \A p \in Caller : proc[p] = Idle /\ Idle.pc = "idle"
  BY DEF CacheInit, Idle
<1>2. Idle \in Frame
  BY DEF Idle, Frame, Place
<1>3. \A p \in Waiters : p \in Caller /\ got[p] = <<>>
  BY DEF CacheInit, Caller
<1>4. \A p \in Caller : mu # p
  BY CacheAssumption DEF CacheInit, Caller
<1>5. CacheTypeOK
  BY <1>1, <1>2, <1>3, <1>4, CacheAssumption DEF CacheInit, CacheTypeOK, Frame, Place
<1> QED
  BY <1>1, <1>3, <1>5 DEF CacheInv, Args, NoLostWakeup, At

LEMMA CacheStep == CacheInv /\ [CacheNext]_cacheVars => CacheInv'
<1> SUFFICES ASSUME CacheInv, [CacheNext]_cacheVars PROVE CacheInv'
  OBVIOUS
<1> USE DEF At, Goto
<1>0. /\ data \in [Idx -> Hash \cup {NoHash}] /\ mu \in Caller \cup {Nobody}
      /\ proc \in [Caller -> Frame] /\ sets \in 0 .. MaxSets
      /\ \A p \in Waiters : got[p] = <<>> \/ got[p] \in Idx \X Hash
      /\ \A p \in Caller : mu = p <=> proc[p].pc \in {"held", "unlock"}
      /\ \A p \in Caller : proc[p].pc # "idle" => proc[p].idx \in Idx /\ proc[p].hash \in Hash
      /\ \A p \in Waiters : proc[p].pc = "asleep" =>
                              proc[p].idx <= MaxId /\ data[proc[p].idx] = NoHash
      /\ Waiters \subseteq Caller /\ Setters \subseteq Caller /\ Nobody \notin Caller
      /\ Setters \cap Waiters = {} /\ ZeroHash \in Hash /\ NoHash \notin Hash /\ Idx \subseteq Nat
      /\ MaxSets \in Nat
  BY CacheAssumption DEF CacheInv, CacheTypeOK, Args, NoLostWakeup, Caller, Frame, Place
<1> DEFINE Goal == /\ data' \in [Idx -> Hash \cup {NoHash}] /\ mu' \in Caller \cup {Nobody}
                   /\ proc' \in [Caller -> Frame] /\ sets' \in 0 .. MaxSets
                   /\ \A q \in Waiters : got'[q] = <<>> \/ got'[q] \in Idx \X Hash
                   /\ \A q \in Caller : mu' = q <=> proc'[q].pc \in {"held", "unlock"}
                   /\ \A q \in Caller : proc'[q].pc # "idle" =>
                                          proc'[q].idx \in Idx /\ proc'[q].hash \in Hash
                   /\ \A q \in Waiters : proc'[q].pc = "asleep" =>
                                           proc'[q].idx <= MaxId /\ data'[proc'[q].idx] = NoHash
<1>1. CASE UNCHANGED cacheVars
  BY <1>0, <1>1 DEF cacheVars, CacheInv, CacheTypeOK, Args, NoLostWakeup, Frame, Place
<1>2. ASSUME NEW p \in Caller, Call(p)
      PROVE  Goal
  <2>1. PICK i \in Idx, h \in Hash :
          proc' = [proc EXCEPT ![p] = [pc |-> "lock", idx |-> i, hash |-> h]]
    BY <1>2 DEF Call
  <2>2. proc[p].pc = "idle" /\ UNCHANGED <<data, mu, got>> /\ sets' \in 0 .. MaxSets
    BY <1>0, <1>2 DEF Call
  <2>3. [pc |-> "lock", idx |-> i, hash |-> h] \in Frame
    BY <1>0 DEF Frame, Place
  <2>4. proc' \in [Caller -> Frame]
    BY <1>0, <2>1, <2>3
  <2>5. /\ proc'[p].pc = "lock" /\ proc'[p].idx \in Idx /\ proc'[p].hash \in Hash
        /\ \A q \in Caller : q # p => proc'[q] = proc[q]
    BY <1>0, <2>1
  <2> QED
    BY <1>0, <2>2, <2>4, <2>5
<1>3. ASSUME NEW p \in Caller, Lock(p)
      PROVE  Goal
  <2>1. /\ proc' = [proc EXCEPT ![p].pc = "held"] /\ proc[p].pc = "lock" /\ mu = Nobody /\ mu' = p
        /\ UNCHANGED <<data, got, sets>>
    BY <1>3 DEF Lock
  <2>2. proc' \in [Caller -> Frame]
    BY <1>0, <2>1 DEF Frame, Place
  <2>3. /\ proc'[p].pc = "held" /\ proc'[p].idx = proc[p].idx /\ proc'[p].hash = proc[p].hash
        /\ \A q \in Caller : q # p => proc'[q] = proc[q]
    BY <1>0, <2>1 DEF Frame
  <2> QED
    BY <1>0, <2>1, <2>2, <2>3
<1>4. ASSUME NEW p \in Caller, Unlock(p)
      PROVE  Goal
  <2>1. /\ proc' = [proc EXCEPT ![p] = Idle] /\ proc[p].pc = "unlock" /\ mu' = Nobody
        /\ UNCHANGED <<data, got, sets>>
    BY <1>4 DEF Unlock
  <2>2. Idle \in Frame /\ Idle.pc = "idle"
    BY DEF Idle, Frame, Place
  <2>3. proc'[p].pc = "idle" /\ \A q \in Caller : q # p => proc'[q] = proc[q]
    BY <1>0, <2>1, <2>2
  <2>4. proc' \in [Caller -> Frame]
    BY <1>0, <2>1, <2>2
  <2> QED
    BY <1>0, <2>1, <2>3, <2>4
<1>5. ASSUME NEW p \in Caller, Store(p)
      PROVE  Goal
  <2>1. /\ data' = [data EXCEPT ![proc[p].idx] = proc[p].hash] /\ UNCHANGED <<mu, got, sets>>
        /\ proc' = [q \in Caller |-> IF q = p THEN [proc[p] EXCEPT !.pc = "unlock"]
                                     ELSE IF proc[q].pc = "asleep"
                                     THEN [proc[q] EXCEPT !.pc = "lock"] ELSE proc[q]]
        /\ p \in Setters /\ proc[p].pc = "held"
    BY <1>5 DEF Store
  <2>2. \A q \in Caller :
          /\ proc'[q] \in Frame /\ proc'[q].idx = proc[q].idx /\ proc'[q].hash = proc[q].hash
          /\ q = p => proc'[q].pc = "unlock"
          /\ q # p => proc'[q].pc = IF proc[q].pc = "asleep" THEN "lock" ELSE proc[q].pc
    BY <1>0, <2>1 DEF Frame, Place
  <2>3. proc' \in [Caller -> Frame]
    BY <2>1, <2>2
  <2>4. data' \in [Idx -> Hash \cup {NoHash}]
    BY <1>0, <2>1
  <2>5. \A q \in Caller : proc'[q].pc # "asleep"
    BY <1>0, <2>2
  <2> QED
    BY <1>0, <2>1, <2>2, <2>3, <2>4, <2>5
<1>6. ASSUME NEW p \in Caller, Return(p)
      PROVE  Goal
  <2>1. /\ proc' = [proc EXCEPT ![p].pc = "unlock"] /\ proc[p].pc = "held" /\ p \in Waiters
        /\ UNCHANGED <<data, mu, sets>>
        /\ proc[p].idx > MaxId \/ data[proc[p].idx] # NoHash
        /\ got' = [got EXCEPT ![p] =
                     <<proc[p].idx, IF proc[p].idx > MaxId THEN ZeroHash ELSE data[proc[p].idx]>>]
    BY <1>6 DEF Return
  <2>2. proc' \in [Caller -> Frame]
    BY <1>0, <2>1 DEF Frame, Place
  <2>3. /\ proc'[p].pc = "unlock" /\ proc'[p].idx = proc[p].idx /\ proc'[p].hash = proc[p].hash
        /\ \A q \in Caller : q # p => proc'[q] = proc[q]
    BY <1>0, <2>1 DEF Frame
  <2>4. \A q \in Waiters : got'[q] = <<>> \/ got'[q] \in Idx \X Hash
    <3>1. proc[p].idx \in Idx /\ data[proc[p].idx] \in Hash \cup {NoHash}
      BY <1>0, <2>1
    <3>2. <<proc[p].idx, IF proc[p].idx > MaxId THEN ZeroHash ELSE data[proc[p].idx]>> \in Idx \X Hash
      BY <1>0, <2>1, <3>1
    <3> QED
      BY <1>0, <2>1, <3>2
  <2> QED
    BY <1>0, <2>1, <2>2, <2>3, <2>4
<1>7. ASSUME NEW p \in Caller, Sleep(p)
      PROVE  Goal
  <2>1. /\ proc' = [proc EXCEPT ![p].pc = "asleep"] /\ proc[p].pc = "held" /\ p \in Waiters
        /\ proc[p].idx <= MaxId /\ data[proc[p].idx] = NoHash /\ mu' = Nobody
        /\ UNCHANGED <<data, got, sets>>
    BY <1>7 DEF Sleep
  <2>2. proc' \in [Caller -> Frame]
    <3>1. proc[p] \in Frame /\ [proc[p] EXCEPT !.pc = "asleep"] \in Frame
      BY <1>0 DEF Frame, Place
    <3> QED
      BY <1>0, <2>1, <3>1
  <2>3. /\ proc'[p].pc = "asleep" /\ proc'[p].idx = proc[p].idx /\ proc'[p].hash = proc[p].hash
        /\ \A q \in Caller : q # p => proc'[q] = proc[q]
    BY <1>0, <2>1 DEF Frame
  <2> QED
    BY <1>0, <2>1, <2>2, <2>3
<1>8. Goal => CacheInv'
  <2> SUFFICES ASSUME Goal PROVE CacheInv'
    OBVIOUS
  <2>1. CacheTypeOK'
    BY DEF CacheTypeOK, Frame, Place
  <2>2. Args'
    BY DEF Args
  <2>3. NoLostWakeup'
    BY DEF NoLostWakeup
  <2> QED
    BY <2>1, <2>2, <2>3 DEF CacheInv
<1> QED
  BY <1>1, <1>2, <1>3, <1>4, <1>5, <1>6, <1>7, <1>8 DEF CacheNext, Run

\* Types, and mutual exclusion: the mutex is held by the goroutine in the body and by no other.
THEOREM CacheTypeCorrect == CacheSpec => []CacheTypeOK
<1>1. CacheInv => CacheTypeOK
  BY DEF CacheInv
<1> QED
  BY CacheInitInv, CacheStep, <1>1, PTL DEF CacheSpec

\* No goroutine sleeps in WaitFor on a hash that is there, for any number of goroutines.
THEOREM CacheLosesNoWakeup == CacheSpec => []NoLostWakeup
<1>1. CacheInv => NoLostWakeup
  BY DEF CacheInv
<1> QED
  BY CacheInitInv, CacheStep, <1>1, PTL DEF CacheSpec

\* A Set is one posting and a WaitFor one reading, whatever runs between their steps.
THEOREM CacheImplementsBoard == CacheSpec => ImplementsBoard
<1>1. CacheInit => Board!BoardInit
  BY DEF CacheInit, Board!BoardInit
<1>2. CacheInv /\ [CacheNext]_cacheVars => [Board!BoardNext]_(Board!boardVars)
  <2> SUFFICES ASSUME CacheInv, [CacheNext]_cacheVars, ~UNCHANGED <<data, got>>
               PROVE  Board!BoardNext
    BY DEF Board!boardVars
  <2> USE DEF At
  <2>1. CASE \E p \in Caller : Store(p)
    <3>1. PICK p \in Caller : Store(p)
      BY <2>1
    <3>2. proc[p].idx \in Idx /\ proc[p].hash \in Hash
      BY <3>1 DEF Store, CacheInv, Args
    <3>3. Board!Post(proc[p].idx, proc[p].hash)
      BY <3>1 DEF Store, Board!Post
    <3> QED
      BY <3>2, <3>3 DEF Board!BoardNext
  <2>2. CASE \E p \in Caller : Return(p)
    <3>1. PICK p \in Caller : Return(p)
      BY <2>2
    <3>2. proc[p].idx \in Idx /\ p \in Waiters
      BY <3>1 DEF Return, CacheInv, Args
    <3>3. Board!Get(p, proc[p].idx)
      BY <3>1 DEF Return, Board!Get
    <3> QED
      BY <3>2, <3>3 DEF Board!BoardNext
  <2>3. CASE \E p \in Caller : Call(p) \/ Lock(p) \/ Unlock(p) \/ Sleep(p)
    BY <2>3 DEF Call, Lock, Unlock, Sleep
  <2> QED
    BY <2>1, <2>2, <2>3 DEF CacheNext, Run, cacheVars
<1> QED
  BY CacheInitInv, CacheStep, <1>1, <1>2, PTL DEF CacheSpec, ImplementsBoard, Board!BoardSpec
=============================================================================
