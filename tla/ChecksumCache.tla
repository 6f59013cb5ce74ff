---------------------------- MODULE ChecksumCache ----------------------------
(***************************************************************************)
(* ChecksumCache (checksum.go): Set and WaitFor, called by any number of   *)
(* goroutines at once, over a mutex and a condition variable. What runs    *)
(* between Lock and Unlock or Wait is one step, for nothing else of the    *)
(* cache runs meanwhile; the waits for the mutex are what interleaves.     *)
(***************************************************************************)
EXTENDS Naturals

CONSTANTS
  Idx,        \* block indices
  MaxId,      \* the cache's bound
  Hash, ZeroHash, NoHash,
  Setters,    \* goroutines that call Set
  Waiters,    \* goroutines that call WaitFor
  Nobody,     \* no goroutine
  MaxSets     \* bound: calls of Set

ASSUME CacheAssumption ==
  /\ Idx \subseteq Nat /\ MaxId \in Nat /\ MaxSets \in Nat
  /\ ZeroHash \in Hash /\ NoHash \notin Hash
  /\ Setters \cap Waiters = {} /\ Nobody \notin Setters \cup Waiters

VARIABLES
  data,   \* data and ready in one: NoHash where not ready
  mu,     \* the holder of the mutex, or Nobody
  proc,   \* each goroutine: where it is in its call, and the call's arguments
  got,    \* what each waiter's last call returned
  sets    \* calls of Set so far

cacheVars == <<data, mu, proc, got, sets>>

Caller == Setters \cup Waiters
Idle   == [pc |-> "idle", idx |-> 0, hash |-> NoHash]

CacheInit ==
  /\ data = [i \in Idx |-> NoHash]
  /\ mu = Nobody
  /\ proc = [p \in Caller |-> Idle]
  /\ got = [p \in Waiters |-> <<>>]
  /\ sets = 0

At(p, pc) == proc[p].pc = pc
Goto(p, pc) == proc' = [proc EXCEPT ![p].pc = pc]

\* A goroutine calls Set, or WaitFor, and wants the mutex.
Call(p) ==
  /\ At(p, "idle")
  /\ \E i \in Idx, h \in Hash :
       /\ p \in Waiters => h = ZeroHash
       /\ proc' = [proc EXCEPT ![p] = [pc |-> "lock", idx |-> i, hash |-> h]]
  /\ IF p \in Setters THEN sets < MaxSets /\ sets' = sets + 1 ELSE UNCHANGED sets
  /\ UNCHANGED <<data, mu, got>>

\* mu.Lock, at the start of a call or at the end of cond.Wait.
Lock(p) ==
  /\ At(p, "lock") /\ mu = Nobody
  /\ mu' = p
  /\ Goto(p, "held")
  /\ UNCHANGED <<data, got, sets>>

Unlock(p) ==
  /\ At(p, "unlock")
  /\ mu' = Nobody
  /\ proc' = [proc EXCEPT ![p] = Idle]
  /\ UNCHANGED <<data, got, sets>>

\* Set with Signal in place of Broadcast: one waiter wakes, whoever it is.
MStoreSignal(p) ==
  /\ p \in Setters /\ At(p, "held")
  /\ data' = [data EXCEPT ![proc[p].idx] = proc[p].hash]
  /\ LET asleep == {q \in Waiters : At(q, "asleep")}
     IN \/ asleep = {} /\ Goto(p, "unlock")
        \/ \E q \in asleep : proc' = [proc EXCEPT ![p].pc = "unlock", ![q].pc = "lock"]
  /\ UNCHANGED <<mu, got, sets>>

\* Set's body: the entry, the ready mark, and a Broadcast that wakes every waiter.
Store(p) ==
  /\ p \in Setters /\ At(p, "held")
  /\ data' = [data EXCEPT ![proc[p].idx] = proc[p].hash]
  /\ proc' = [q \in Caller |-> IF q = p THEN [proc[p] EXCEPT !.pc = "unlock"]
                               ELSE IF At(q, "asleep") THEN [proc[q] EXCEPT !.pc = "lock"]
                               ELSE proc[q]]
  /\ UNCHANGED <<mu, got, sets>>

\* WaitFor that returns what there is after one wait: an if in place of the for.
MReturnUnready(p) ==
  /\ p \in Waiters /\ At(p, "held")
  /\ LET i == proc[p].idx
     IN /\ i > MaxId \/ data[i] # NoHash \/ \E j \in Idx : data[j] # NoHash
        /\ got' = [got EXCEPT ![p] = <<i, IF i > MaxId THEN ZeroHash ELSE data[i]>>]
  /\ Goto(p, "unlock")
  /\ UNCHANGED <<data, mu, sets>>

\* WaitFor returns: past the bound, or once the entry is ready.
Return(p) ==
  /\ p \in Waiters /\ At(p, "held")
  /\ LET i == proc[p].idx
     IN /\ i > MaxId \/ data[i] # NoHash
        /\ got' = [got EXCEPT ![p] = <<i, IF i > MaxId THEN ZeroHash ELSE data[i]>>]
  /\ Goto(p, "unlock")
  /\ UNCHANGED <<data, mu, sets>>

\* WaitFor finds nothing: cond.Wait joins the list of the waiting and lets the mutex go.
Sleep(p) ==
  /\ p \in Waiters /\ At(p, "held")
  /\ proc[p].idx <= MaxId /\ data[proc[p].idx] = NoHash
  /\ mu' = Nobody
  /\ Goto(p, "asleep")
  /\ UNCHANGED <<data, got, sets>>

Run(p) == Unlock(p) \/ Store(p) \/ Return(p) \/ Sleep(p)

CacheNext == \E p \in Caller : Call(p) \/ Lock(p) \/ Run(p)

(***************************************************************************)
(* Fairness: a goroutine in a call goes on, and gets the mutex if it is    *)
(* free again and again (a waiter of sync.Mutex cannot starve: after a     *)
(* millisecond the mutex is handed to it). Nobody has to call.             *)
(***************************************************************************)
CacheFairness == \A p \in Caller : WF_cacheVars(Run(p)) /\ SF_cacheVars(Lock(p))

CacheSpec == CacheInit /\ [][CacheNext]_cacheVars /\ CacheFairness

---------------------------------------------------------------------------
CacheTypeOK ==
  /\ data \in [Idx -> Hash \cup {NoHash}]
  /\ mu \in Caller \cup {Nobody}
  /\ proc \in [Caller -> [pc : {"idle", "lock", "held", "unlock", "asleep"}, idx : Nat,
                          hash : Hash \cup {NoHash}]]
  /\ \A p \in Waiters : got[p] = <<>> \/ got[p] \in Idx \X Hash
  /\ sets \in 0 .. MaxSets
  /\ \A p \in Caller : mu = p <=> proc[p].pc \in {"held", "unlock"}

\* No wakeup is lost: a goroutine asleep in WaitFor waits for a hash that is not there. One that
\* came between the look at ready and the sleep would leave it asleep for good.
NoLostWakeup ==
  \A p \in Waiters : At(p, "asleep") => proc[p].idx <= MaxId /\ data[proc[p].idx] = NoHash

\* A handler that waits for a hash gets it once somebody has set it, however many others wait for
\* the same hash or other ones.
WaiterReturns ==
  \A p \in Waiters, i \in Idx :
    (proc[p].pc \in {"lock", "asleep"} /\ proc[p].idx = i /\ data[i] # NoHash) ~> At(p, "idle")

\* The cache is a board: a hash is on it from one moment on, for all at once.
Board == INSTANCE HashBoard WITH board <- data
ImplementsBoard == Board!BoardSpec
=============================================================================
