-------------------------- MODULE ServerLoopProofs --------------------------
(***************************************************************************)
(* Proofs about ServerLoop, for any number of connections. The lemmas are  *)
(* about steps ([LoopNext]_loopVars), so that Upload, whose steps are      *)
(* steps of ServerLoop, can use them too.                                  *)
(***************************************************************************)
EXTENDS ServerLoop, FiniteSetTheorems, TLAPS

Served == Counted \cup {"gone"}

\* No number is skipped.
Arrival == \A c, d \in Conn : c < d /\ stage[d] # "unused" => stage[c] # "unused"

\* The accept queue holds exactly the queued connections, in order.
Queue ==
  /\ \A i \in 1 .. Len(backlog) : stage[backlog[i]] = "queued"
  /\ \A c \in Conn : stage[c] = "queued" => \E i \in 1 .. Len(backlog) : backlog[i] = c
  /\ \A i, j \in 1 .. Len(backlog) : i < j => backlog[i] < backlog[j]

\* ServedInOrder, and the connection on offer is next.
InOrder ==
  \A c, d \in Conn : c < d /\ stage[d] \in {"offered"} \cup Served => stage[c] \in Served

\* The inductive invariant.
LoopInv ==
  /\ LoopTypeOK
  /\ Arrival /\ Queue /\ InOrder
  /\ ActiveExact
  /\ GracefulExitIsQuiet

Active == {c \in Conn : stage[c] \in Counted}

LEMMA ActiveFinite == Cardinality(Active) \in 0 .. MaxConn /\ IsFiniteSet(Active)
<1>1. IsFiniteSet(Conn) /\ Cardinality(Conn) = MaxConn
  BY FS_Interval, MaxConnAssumption DEF Conn
<1>2. Active \subseteq Conn
  BY DEF Active
<1>3. IsFiniteSet(Active) /\ Cardinality(Active) <= Cardinality(Conn)
  BY <1>1, <1>2, FS_Subset
<1> QED
  BY <1>1, <1>3, FS_CardinalityType, MaxConnAssumption

LEMMA InitLoopInv == LoopInit => LoopInv
<1> SUFFICES ASSUME LoopInit PROVE LoopInv
  OBVIOUS
<1> USE DEF LoopInit
<1>1. LoopTypeOK
  <2>1. stage \in [Conn -> Stage] /\ timer \in [Timer -> {"stopped", "armed"}]
    BY DEF Stage
  <2>2. backlog \in Seq(Conn)
    OBVIOUS
  <2>3. activeConns \in 0 .. MaxConn
    BY MaxConnAssumption
  <2> QED
    BY <2>1, <2>2, <2>3 DEF LoopTypeOK
<1>2. Arrival /\ Queue /\ InOrder /\ GracefulExitIsQuiet
  BY DEF Arrival, Queue, InOrder, GracefulExitIsQuiet, Served, Counted
<1>3. ActiveExact
  <2>1. {c \in Conn : stage[c] \in Counted} = {}
    BY DEF Counted
  <2> QED
    BY <2>1, FS_EmptySet DEF ActiveExact
<1> QED
  BY <1>1, <1>2, <1>3 DEF LoopInv

\* The counter follows the set of counted connections through every step.
LEMMA ActiveStep ==
  ASSUME LoopTypeOK, Queue, ActiveExact, [LoopNext]_loopVars
  PROVE  ActiveExact' /\ activeConns' \in 0 .. MaxConn
<1> USE DEF Goto
<1>0. SUFFICES ActiveExact'
  <2>1. Cardinality(Active') \in 0 .. MaxConn
    <3>1. IsFiniteSet(Conn) /\ Cardinality(Conn) = MaxConn
      BY FS_Interval, MaxConnAssumption DEF Conn
    <3>2. IsFiniteSet(Active') /\ Cardinality(Active') <= Cardinality(Conn)
      BY <3>1, FS_Subset DEF Active
    <3> QED
      BY <3>1, <3>2, FS_CardinalityType, MaxConnAssumption
  <2> QED
    BY <2>1 DEF ActiveExact, Active
<1>1. ASSUME UNCHANGED activeConns,
             \A c \in Conn : stage'[c] \in Counted <=> stage[c] \in Counted
      PROVE  ActiveExact'
  <2>1. Active' = Active
    BY <1>1 DEF Active
  <2> QED
    BY <1>1, <2>1 DEF ActiveExact, Active
<1>2. ASSUME NEW c \in Conn, Receive(c)
      PROVE  ActiveExact'
  <2>1. Active' = Active \cup {c} /\ c \notin Active
    BY <1>2 DEF Active, Receive, LoopTypeOK, Counted
  <2>2. Cardinality(Active') = Cardinality(Active) + 1
    BY <2>1, ActiveFinite, FS_AddElement
  <2> QED
    BY <1>2, <2>2 DEF ActiveExact, Active, Receive
<1>3. ASSUME NEW c \in Conn, Leave(c)
      PROVE  ActiveExact'
  <2>1. Active' = Active \ {c} /\ c \in Active
    BY <1>3 DEF Active, Leave, LoopTypeOK, Counted
  <2>2. Cardinality(Active') = Cardinality(Active) - 1
    BY <2>1, ActiveFinite, FS_RemoveElement
  <2> QED
    BY <1>3, <2>2 DEF ActiveExact, Active, Leave
<1>4. CASE UNCHANGED loopVars
  BY <1>4, <1>1 DEF loopVars
<1>5. ASSUME NEW c \in Conn,
             Connect(c) \/ Return(c) \/ StoreDone(c) \/ ArmShutdown(c) \/ CheckDone(c)
               \/ CheckIdle(c)
      PROVE  ActiveExact'
  BY <1>5, <1>1 DEF Connect, Return, StoreDone, ArmShutdown, CheckDone, CheckIdle, LoopTypeOK,
                    Counted
<1>6. CASE Accept
  <2>1. Head(backlog) \in Conn /\ stage[Head(backlog)] = "queued"
    BY <1>6 DEF Accept, LoopTypeOK, Queue
  <2> QED
    BY <1>6, <2>1, <1>1 DEF Accept, LoopTypeOK, Counted
<1>7. CASE AcceptError \/ \E c \in Conn : TruncateError(c)
  BY <1>7, <1>1 DEF AcceptError, TruncateError
<1>8. ASSUME NEW t \in Timer, Fire(t)
      PROVE  ActiveExact'
  BY <1>8, <1>1 DEF Fire
<1> QED
  BY <1>2, <1>3, <1>4, <1>5, <1>6, <1>7, <1>8 DEF LoopNext

LEMMA TypeStep ==
  ASSUME LoopTypeOK, Queue, ActiveExact, [LoopNext]_loopVars
  PROVE  LoopTypeOK'
<1> USE DEF LoopTypeOK, Goto
<1>1. activeConns' \in 0 .. MaxConn
  BY ActiveStep
<1>2. CASE UNCHANGED loopVars
  BY <1>2, <1>1 DEF loopVars
<1>3. ASSUME NEW c \in Conn, Connect(c)
      PROVE  LoopTypeOK'
  BY <1>3, <1>1 DEF Connect, Stage
<1>4. CASE Accept
  <2>1. Head(backlog) \in Conn /\ backlog' \in Seq(Conn)
    BY <1>4 DEF Accept
  <2> QED
    BY <1>4, <2>1, <1>1 DEF Accept, Stage
<1>5. ASSUME NEW c \in Conn, Receive(c) \/ Return(c) \/ StoreDone(c) \/ ArmShutdown(c)
      PROVE  LoopTypeOK'
  BY <1>5, <1>1 DEF Receive, Return, StoreDone, ArmShutdown, Stage, Timer
<1>6. ASSUME NEW c \in Conn, CheckDone(c) \/ CheckIdle(c) \/ Leave(c)
      PROVE  LoopTypeOK'
  BY <1>6, <1>1 DEF CheckDone, CheckIdle, Leave, Stage, Timer
<1>7. ASSUME NEW t \in Timer, Fire(t)
      PROVE  LoopTypeOK'
  BY <1>7, <1>1 DEF Fire
<1>8. CASE AcceptError \/ \E c \in Conn : TruncateError(c)
  BY <1>8, <1>1 DEF AcceptError, TruncateError
<1> QED
  BY <1>2, <1>3, <1>4, <1>5, <1>6, <1>7, <1>8 DEF LoopNext

\* A timer ends the process only when the counter, hence the set it counts, is empty.
LEMMA QuietStep ==
  ASSUME LoopTypeOK, ActiveExact, GracefulExitIsQuiet, [LoopNext]_loopVars
  PROVE  GracefulExitIsQuiet'
<1>1. activeConns = 0 => \A c \in Conn : stage[c] \notin Counted
  <2>1. activeConns = 0 => Active = {}
    BY ActiveFinite, FS_EmptySet DEF ActiveExact, Active
  <2> QED
    BY <2>1 DEF Active
<1>2. ASSUME NEW t \in Timer, Fire(t)
      PROVE  GracefulExitIsQuiet'
  BY <1>1, <1>2 DEF Fire, GracefulExitIsQuiet
<1>3. CASE UNCHANGED loopVars
  BY <1>3 DEF loopVars, GracefulExitIsQuiet
<1>4. CASE AcceptError \/ \E c \in Conn : TruncateError(c)
  BY <1>4 DEF AcceptError, TruncateError, GracefulExitIsQuiet
<1>5. CASE Accept \/ \E c \in Conn : Connect(c) \/ Receive(c) \/ Return(c) \/ StoreDone(c)
                                   \/ Epilogue(c)
  <2>1. server = "running" /\ server' = server
    BY <1>5 DEF Accept, Connect, Receive, Return, StoreDone, Epilogue, ArmShutdown, CheckDone,
                CheckIdle, Leave
  <2> QED
    BY <2>1 DEF GracefulExitIsQuiet
<1> QED
  BY <1>2, <1>3, <1>4, <1>5 DEF LoopNext, Epilogue

\* The order of arrival through every step.
LEMMA OrderStep ==
  ASSUME LoopTypeOK, Arrival, Queue, InOrder, [LoopNext]_loopVars
  PROVE  Arrival' /\ Queue' /\ InOrder'
<1> USE DEF LoopTypeOK, Goto
<1>1. ASSUME UNCHANGED <<stage, backlog>>
      PROVE  Arrival' /\ Queue' /\ InOrder'
  BY <1>1 DEF Arrival, Queue, InOrder
<1>2. ASSUME NEW c \in Conn, Connect(c)
      PROVE  Arrival' /\ Queue' /\ InOrder'
  <2> USE <1>2 DEF Connect
  <2>1. \A d \in Conn : d > c => stage[d] = "unused"
    BY DEF Arrival
  <2>2. Arrival' /\ InOrder'
    BY <2>1 DEF Arrival, InOrder, Served, Counted, Conn, Stage
  <2>3. Queue'
    <3>1. Len(backlog') = Len(backlog) + 1 /\ backlog'[Len(backlog) + 1] = c
          /\ \A i \in 1 .. Len(backlog) : backlog'[i] = backlog[i] /\ backlog[i] \in Conn
      OBVIOUS
    <3>2. \A i \in 1 .. Len(backlog) : backlog[i] < c
      BY <3>1, <2>1 DEF Queue, Conn
    <3> QED
      BY <3>1, <3>2, MaxConnAssumption DEF Queue, Conn
  <2> QED
    BY <2>2, <2>3
<1>3. CASE Accept
  <2> USE <1>3 DEF Accept
  <2>0. Head(backlog) \in Conn /\ Head(backlog) = backlog[1] /\ Len(backlog) >= 1
    OBVIOUS
  <2>1. \A c \in Conn : stage[c] = "queued" => Head(backlog) <= c
    BY <2>0 DEF Queue, Conn
  <2>2. stage[Head(backlog)] = "queued"
    BY <2>0 DEF Queue
  <2>3. ASSUME NEW c \in Conn, c < Head(backlog)
        PROVE  stage[c] \in Served
    <3>1. stage[c] # "unused"
      BY <2>0, <2>2, <2>3 DEF Arrival
    <3>2. stage[c] # "queued"
      BY <2>0, <2>1, <2>3 DEF Conn
    <3>3. stage[c] \in Stage /\ stage[c] # "offered"
      OBVIOUS
    <3> QED
      BY <3>1, <3>2, <3>3 DEF Stage, Served, Counted
  <2>4. Arrival' /\ InOrder'
    BY <2>0, <2>2, <2>3 DEF Arrival, InOrder, Served, Counted, Conn
  <2>5. Queue'
    <3>1. Len(backlog') = Len(backlog) - 1
          /\ \A i \in 1 .. Len(backlog') : backlog'[i] = backlog[i + 1]
      BY <2>0
    <3>2. \A i \in 1 .. Len(backlog) : backlog[i] \in Conn
      OBVIOUS
    <3>3. \A i \in 1 .. Len(backlog') : stage'[backlog'[i]] = "queued"
      BY <2>0, <3>1, <3>2 DEF Queue, Conn
    <3>4. ASSUME NEW c \in Conn, stage'[c] = "queued"
          PROVE  \E i \in 1 .. Len(backlog') : backlog'[i] = c
      <4>1. c # Head(backlog) /\ stage[c] = "queued"
        BY <2>0, <3>4
      <4>2. PICK k \in 1 .. Len(backlog) : backlog[k] = c
        BY <4>1 DEF Queue
      <4>3. k # 1
        BY <4>1, <4>2, <2>0
      <4>4. k - 1 \in 1 .. Len(backlog') /\ backlog'[k - 1] = c
        BY <4>2, <4>3, <3>1
      <4> QED
        BY <4>4
    <3>5. \A i, j \in 1 .. Len(backlog') : i < j => backlog'[i] < backlog'[j]
      BY <2>0, <3>1 DEF Queue
    <3> QED
      BY <3>3, <3>4, <3>5 DEF Queue
  <2> QED
    BY <2>4, <2>5
<1>4. ASSUME NEW c \in Conn,
             Receive(c) \/ Return(c) \/ StoreDone(c) \/ ArmShutdown(c) \/ CheckDone(c)
               \/ CheckIdle(c) \/ Leave(c)
      PROVE  Arrival' /\ Queue' /\ InOrder'
  <2>1. /\ stage[c] \in {"offered"} \cup Served /\ stage'[c] \in Served
        /\ backlog' = backlog /\ \A d \in Conn : d # c => stage'[d] = stage[d]
    BY <1>4 DEF Receive, Return, StoreDone, ArmShutdown, CheckDone, CheckIdle, Leave, Served,
                Counted
  <2>2. Arrival' /\ InOrder'
    BY <2>1 DEF Arrival, InOrder, Served, Counted, Conn
  <2>3. Queue'
    <3>1. \A i \in 1 .. Len(backlog) : backlog[i] \in Conn
      OBVIOUS
    <3> QED
      BY <2>1, <3>1 DEF Queue, Served, Counted
  <2> QED
    BY <2>2, <2>3
<1>5. CASE AcceptError \/ (\E c \in Conn : TruncateError(c)) \/ (\E t \in Timer : Fire(t))
           \/ UNCHANGED loopVars
  BY <1>1, <1>5 DEF AcceptError, TruncateError, Fire, loopVars
<1> QED
  BY <1>2, <1>3, <1>4, <1>5 DEF LoopNext

LEMMA LoopInvStep == LoopInv /\ [LoopNext]_loopVars => LoopInv'
BY ActiveStep, TypeStep, QuietStep, OrderStep DEF LoopInv

LEMMA LoopInvServesInOrder == LoopInv => ServedInOrder
BY DEF LoopInv, InOrder, ServedInOrder, Served

---------------------------------------------------------------------------
\* The counter that decides the exit equals the number of connections between the loop's receipt
\* and the end of their goroutines, at every moment (startServer).
THEOREM LoopActiveExact == LoopSpec => []ActiveExact
<1>1. LoopSpec => []LoopInv
  BY InitLoopInv, LoopInvStep, PTL DEF LoopSpec
<1>2. LoopInv => ActiveExact
  BY DEF LoopInv
<1> QED
  BY <1>1, <1>2, PTL

\* The state of startServer keeps its types; the counter never goes below zero or past the number
\* of connections.
THEOREM LoopTypeCorrect == LoopSpec => []LoopTypeOK
<1>1. LoopSpec => []LoopInv
  BY InitLoopInv, LoopInvStep, PTL DEF LoopSpec
<1>2. LoopInv => LoopTypeOK
  BY DEF LoopInv
<1> QED
  BY <1>1, <1>2, PTL

\* A server that leaves on a timer leaves no handler in the middle of a block.
THEOREM LoopExitIsQuiet == LoopSpec => []GracefulExitIsQuiet
<1>1. LoopSpec => []LoopInv
  BY InitLoopInv, LoopInvStep, PTL DEF LoopSpec
<1>2. LoopInv => GracefulExitIsQuiet
  BY DEF LoopInv
<1> QED
  BY <1>1, <1>2, PTL

\* Connections reach their handlers in the order in which they came.
THEOREM LoopServesInOrder == LoopSpec => []ServedInOrder
<1>1. LoopSpec => []LoopInv
  BY InitLoopInv, LoopInvStep, PTL DEF LoopSpec
<1> QED
  BY <1>1, LoopInvServesInOrder, PTL

---------------------------------------------------------------------------
(* Which timers run. Both tests of a connection's goroutine look at a      *)
(* counter that still counts the connection.                               *)

\* Of the two timers, only the shutdown timer ever runs.
NoIdleTimer == timer["idle"] = "stopped" /\ server # "idleExit"

LEMMA NoIdleStep ==
  ASSUME LoopInv, NoIdleTimer, [LoopNext]_loopVars
  PROVE  NoIdleTimer'
<1> USE DEF NoIdleTimer, Timer
<1>1. timer \in [Timer -> {"stopped", "armed"}]
  BY DEF LoopInv, LoopTypeOK
<1>2. ASSUME NEW c \in Conn, CheckIdle(c) PROVE NoIdleTimer'
  <2>1. c \in Active
    BY <1>2 DEF CheckIdle, Active, Counted
  <2>2. Active # {} /\ Cardinality(Active) = activeConns
    BY <2>1 DEF LoopInv, ActiveExact, Active
  <2>3. activeConns # 0
    BY <2>2, ActiveFinite, FS_EmptySet
  <2> QED
    BY <1>2, <2>3 DEF CheckIdle
<1>3. ASSUME NEW t \in Timer, Fire(t) PROVE NoIdleTimer'
  BY <1>1, <1>3 DEF Fire
<1>4. CASE ~(\E c \in Conn : CheckIdle(c)) /\ ~(\E t \in Timer : Fire(t))
  BY <1>1, <1>4 DEF LoopNext, Connect, Accept, Receive, Return, StoreDone, ArmShutdown, CheckDone,
     Leave, AcceptError, TruncateError, loopVars
<1> QED
  BY <1>2, <1>3, <1>4

\* The finding behind IdleServerExits, for any number of connections: whatever happens, the idle
\* timer is never started, so no server ever leaves for want of connections (server.go:272).
THEOREM LoopNeverIdles == LoopSpec => []NoIdleTimer
<1>1. LoopInit => NoIdleTimer
  BY DEF LoopInit, NoIdleTimer, Timer
<1> QED
  BY <1>1, InitLoopInv, LoopInvStep, NoIdleStep, PTL DEF LoopSpec

\* The last connection's handler has had its DONE, and the timer for it is to be started or runs.
LastDone ==
  \/ stage[MaxConn] = "arming"
  \/ /\ stage[MaxConn] \in {"checkDone", "checkIdle", "leaving", "gone"}
     /\ timer["shutdown"] = "armed"

\* Then every handler that goes on can end, and with the last of them the timer ends the server.
OnlyEnds ==
  LastDone /\ server = "running" =>
    /\ backlog = <<>> /\ \A c \in Conn : stage[c] \in Served
    /\ (\A c \in Conn : stage[c] = "gone") => activeConns = 0 /\ timer["shutdown"] = "armed"

\* The safety half of DoneOnLastConnEnds: nothing stops the shutdown timer again once the DONE on
\* the last connection has been read, as all earlier connections were received before; and when
\* the goroutines of all connections are gone, the timer's next expiry is the server's end.
THEOREM LoopDoneLeads ==
  LoopSpec => /\ []OnlyEnds
              /\ [][LastDone /\ server = "running" => LastDone' \/ server' # "running"]_loopVars
<1>0. MaxConn \in Conn
  BY MaxConnAssumption DEF Conn
<1>1. ASSUME LoopInv, LastDone PROVE \A c \in Conn : stage[c] \in Served
  <2>1. stage[MaxConn] \in Served
    BY <1>1 DEF LastDone, Served, Counted
  <2>2. \A c \in Conn : c = MaxConn \/ c < MaxConn
    BY <1>0, MaxConnAssumption DEF Conn
  <2> QED
    BY <1>0, <1>1, <2>1, <2>2 DEF LoopInv, InOrder
<1>2. ASSUME LoopInv PROVE OnlyEnds
  <2> SUFFICES ASSUME LastDone PROVE
        /\ backlog = <<>> /\ \A c \in Conn : stage[c] \in Served
        /\ (\A c \in Conn : stage[c] = "gone") => activeConns = 0 /\ timer["shutdown"] = "armed"
    BY DEF OnlyEnds
  <2>1. \A c \in Conn : stage[c] \in Served
    BY <1>1, <1>2
  <2>2. backlog = <<>>
    <3>1. backlog \in Seq(Conn)
      BY <1>2 DEF LoopInv, LoopTypeOK
    <3>2. SUFFICES ASSUME backlog # <<>> PROVE FALSE
      OBVIOUS
    <3>3. 1 \in 1 .. Len(backlog) /\ backlog[1] \in Conn
      BY <3>1, <3>2
    <3>4. stage[backlog[1]] = "queued"
      BY <1>2, <3>3 DEF LoopInv, Queue
    <3> QED
      BY <2>1, <3>3, <3>4 DEF Served, Counted
  <2>3. ASSUME \A c \in Conn : stage[c] = "gone"
        PROVE  activeConns = 0 /\ timer["shutdown"] = "armed"
    <3>1. Active = {}
      BY <2>3 DEF Active, Counted
    <3>2. activeConns = 0
      BY <1>2, <3>1, FS_EmptySet DEF LoopInv, ActiveExact, Active
    <3> QED
      BY <1>0, <2>3, <3>2 DEF LastDone
  <2> QED
    BY <2>1, <2>2, <2>3
<1>3. ASSUME LoopInv, [LoopNext]_loopVars, LastDone, server = "running"
      PROVE  LastDone' \/ server' # "running"
  <2> USE DEF LastDone
  <2>0. timer \in [Timer -> {"stopped", "armed"}] /\ stage \in [Conn -> Stage]
    BY <1>3 DEF LoopInv, LoopTypeOK
  <2>1. \A c \in Conn : ~Connect(c) /\ ~Receive(c)
    BY <1>1, <1>3 DEF Connect, Receive, Served, Counted
  <2>2. ~Accept
    BY <1>2, <1>3 DEF OnlyEnds, Accept
  <2>3. ASSUME NEW c \in Conn, ArmShutdown(c) PROVE LastDone'
    BY <1>0, <1>3, <2>0, <2>3 DEF ArmShutdown, Goto, Timer
  <2>4. ASSUME NEW c \in Conn, CheckIdle(c) PROVE LastDone'
    BY <1>0, <1>3, <2>0, <2>4 DEF CheckIdle, Goto, Timer
  <2>5. ASSUME NEW c \in Conn, Return(c) \/ StoreDone(c) \/ CheckDone(c) \/ Leave(c)
        PROVE  LastDone'
    BY <1>0, <1>3, <2>0, <2>5 DEF Return, StoreDone, CheckDone, Leave, Goto
  <2>6. ASSUME NEW t \in Timer, Fire(t) PROVE LastDone' \/ server' # "running"
    BY <1>0, <1>3, <2>0, <2>6 DEF Fire, Timer
  <2>7. AcceptError \/ (\E c \in Conn : TruncateError(c)) => server' # "running"
    BY DEF AcceptError, TruncateError
  <2>8. UNCHANGED loopVars => LastDone'
    BY <1>3 DEF loopVars
  <2> QED
    BY <1>3, <2>1, <2>2, <2>3, <2>4, <2>5, <2>6, <2>7, <2>8 DEF LoopNext
<1> QED
  BY <1>2, <1>3, InitLoopInv, LoopInvStep, PTL DEF LoopSpec
=============================================================================
