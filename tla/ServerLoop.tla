---------------------------- MODULE ServerLoop ----------------------------
(***************************************************************************)
(* The life of a bsync server in upload mode: startServer (server.go), its *)
(* accept goroutine, the goroutine that wraps each connection handler, the *)
(* idle timer, the shutdown timer, and the process's end.                  *)
(*                                                                         *)
(* What a handler does between its first message and its return is left to *)
(* the environment here: Upload composes these actions with the handler.   *)
(* Timers are untimed: an armed timer may fire at any later moment, and    *)
(* after Stop or Reset no earlier expiry is delivered, the semantics of Go *)
(* 1.23 and later (go.mod asks for 1.25).                                  *)
(***************************************************************************)
EXTENDS Integers, Sequences, FiniteSets

CONSTANT MaxConn       \* bound: connections are numbered 1..MaxConn as they arrive

ASSUME MaxConnAssumption == MaxConn \in Nat \ {0}

Conn  == 1 .. MaxConn
Timer == {"idle", "shutdown"}

VARIABLES
  stage,          \* where each connection is between connect and the end of its goroutine
  backlog,        \* the listener's accept queue, first in first out
  activeConns,    \* the atomic counter
  doneReceived,   \* the atomic flag
  timer,          \* idleTimer and shutdownTimer: "stopped" or "armed"
  server          \* "running", or the reason the process ended

loopVars == <<stage, backlog, activeConns, doneReceived, timer, server>>

(***************************************************************************)
(* A connection's stages: "offered" while the accept goroutine blocks on   *)
(* connChan <- conn; "serving" inside serverHandleReq; "arming" between    *)
(* the store to doneReceived and shutdownTimer.Reset; "checkDone" and      *)
(* "checkIdle" are the two tests after serverHandleReq returns; "leaving"  *)
(* when only the deferred decrement of activeConns is left.                *)
(***************************************************************************)
Stage == {"unused", "queued", "offered", "serving", "arming", "checkDone",
          "checkIdle", "leaving", "gone"}

\* The stages in which activeConns counts a connection.
Counted == {"serving", "arming", "checkDone", "checkIdle", "leaving"}

LoopInit ==
  /\ stage = [c \in Conn |-> "unused"]
  /\ backlog = <<>>
  /\ activeConns = 0
  /\ doneReceived = FALSE
  /\ timer = [t \in Timer |-> "stopped"]
  /\ server = "running"

Goto(c, s) == stage' = [stage EXCEPT ![c] = s]

\* A client connects; the kernel queues the connection. Numbers follow the order of arrival.
Connect(c) ==
  /\ server = "running"
  /\ stage[c] = "unused" /\ \A d \in Conn : d < c => stage[d] # "unused"
  /\ Goto(c, "queued")
  /\ backlog' = Append(backlog, c)
  /\ UNCHANGED <<activeConns, doneReceived, timer, server>>

\* Accept with a goroutine for each offer, so that several wait on connChan at once.
MAcceptRacing ==
  /\ server = "running"
  /\ backlog # <<>>
  /\ Goto(Head(backlog), "offered")
  /\ backlog' = Tail(backlog)
  /\ UNCHANGED <<activeConns, doneReceived, timer, server>>

\* The accept goroutine takes a connection and blocks on connChan until the loop receives it.
Accept ==
  /\ server = "running"
  /\ backlog # <<>> /\ \A d \in Conn : stage[d] # "offered"
  /\ Goto(Head(backlog), "offered")
  /\ backlog' = Tail(backlog)
  /\ UNCHANGED <<activeConns, doneReceived, timer, server>>

\* Receive that forgets to count the connection.
MReceiveUncounted(c) ==
  /\ server = "running" /\ stage[c] = "offered"
  /\ Goto(c, "serving")
  /\ timer' = [t \in Timer |-> "stopped"]
  /\ UNCHANGED <<backlog, activeConns, doneReceived, server>>

\* The main loop receives the connection: both timers stop, the counter goes up, and the
\* connection's goroutine starts.
Receive(c) ==
  /\ server = "running" /\ stage[c] = "offered"
  /\ Goto(c, "serving")
  /\ timer' = [t \in Timer |-> "stopped"]
  /\ activeConns' = activeConns + 1
  /\ UNCHANGED <<backlog, doneReceived, server>>

\* serverHandleReq returns without a DONE message: end of stream, deadline or error.
Return(c) ==
  /\ server = "running" /\ stage[c] = "serving"
  /\ Goto(c, "checkDone")
  /\ UNCHANGED <<backlog, activeConns, doneReceived, timer, server>>

\* serverHandleReq meets a DONE message and stores doneReceived.
StoreDone(c) ==
  /\ server = "running" /\ stage[c] = "serving"
  /\ Goto(c, "arming")
  /\ doneReceived' = TRUE
  /\ UNCHANGED <<backlog, activeConns, timer, server>>

\* DONE without restarting the timer the last Receive stopped.
MNoReset(c) ==
  /\ server = "running" /\ stage[c] = "arming"
  /\ Goto(c, "checkDone")
  /\ UNCHANGED <<backlog, activeConns, doneReceived, timer, server>>

\* ... then it resets the shutdown timer and returns.
ArmShutdown(c) ==
  /\ server = "running" /\ stage[c] = "arming"
  /\ Goto(c, "checkDone")
  /\ timer' = [timer EXCEPT !["shutdown"] = "armed"]
  /\ UNCHANGED <<backlog, activeConns, doneReceived, server>>

\* CheckDone that lowers the counter before it looks, and leaves the deferred decrement in place.
MCheckDoneLowers(c) ==
  /\ server = "running" /\ stage[c] = "checkDone"
  /\ Goto(c, IF doneReceived /\ activeConns = 1 THEN "leaving" ELSE "checkIdle")
  /\ activeConns' = activeConns - 1
  /\ UNCHANGED <<backlog, doneReceived, timer, server>>

\* The first test of the goroutine after its handler: once DONE is known and nothing is active
\* the goroutine is over, else it goes on to the idle test. Its own connection still counts.
CheckDone(c) ==
  /\ server = "running" /\ stage[c] = "checkDone"
  /\ Goto(c, IF doneReceived /\ activeConns = 0 THEN "leaving" ELSE "checkIdle")
  /\ UNCHANGED <<backlog, activeConns, doneReceived, timer, server>>

\* The second test: the idle timer starts if this was the last connection and DONE is not known.
\* (hadConnection is always true here: the loop set it before starting the goroutine.)
CheckIdle(c) ==
  /\ server = "running" /\ stage[c] = "checkIdle"
  /\ Goto(c, "leaving")
  /\ timer' = IF activeConns = 0 /\ ~doneReceived
              THEN [timer EXCEPT !["idle"] = "armed"] ELSE timer
  /\ UNCHANGED <<backlog, activeConns, doneReceived, server>>

\* The deferred atomic.AddInt64(&activeConns, -1) runs as the goroutine ends.
Leave(c) ==
  /\ server = "running" /\ stage[c] = "leaving"
  /\ Goto(c, "gone")
  /\ activeConns' = activeConns - 1
  /\ UNCHANGED <<backlog, doneReceived, timer, server>>

\* Fire that ends the process without looking at activeConns.
MFireUnchecked(t) ==
  /\ server = "running" /\ timer[t] = "armed"
  /\ timer' = [timer EXCEPT ![t] = "stopped"]
  /\ server' = IF t = "idle" THEN "idleExit" ELSE "doneExit"
  /\ UNCHANGED <<stage, backlog, activeConns, doneReceived>>

\* The main loop receives an expiry. Idle: exit if nothing is active and DONE is not known.
\* Shutdown: exit if nothing is active, otherwise wait another period.
Fire(t) ==
  /\ server = "running" /\ timer[t] = "armed"
  /\ IF t = "idle"
     THEN /\ timer' = [timer EXCEPT ![t] = "stopped"]
          /\ server' = IF activeConns = 0 /\ ~doneReceived THEN "idleExit" ELSE server
     ELSE /\ timer' = [timer EXCEPT ![t] = IF activeConns = 0 THEN "stopped" ELSE "armed"]
          /\ server' = IF activeConns = 0 THEN "doneExit" ELSE server
  /\ UNCHANGED <<stage, backlog, activeConns, doneReceived>>

\* listener.Accept fails: the error crosses errChan and startServer returns, whatever is active.
AcceptError ==
  /\ server = "running"
  /\ \A d \in Conn : stage[d] # "offered"
  /\ server' = "acceptError"
  /\ UNCHANGED <<stage, backlog, activeConns, doneReceived, timer>>

\* A handler cannot stat or truncate the destination: it ends the process, whatever is active.
TruncateError(c) ==
  /\ server = "running" /\ stage[c] = "serving"
  /\ server' = "truncateError"
  /\ UNCHANGED <<stage, backlog, activeConns, doneReceived, timer>>

\* What the connection's goroutine does once its handler has returned.
Epilogue(c) == ArmShutdown(c) \/ CheckDone(c) \/ CheckIdle(c) \/ Leave(c)

LoopNext ==
  \/ \E c \in Conn : Connect(c)
  \/ Accept
  \/ \E c \in Conn : Receive(c)
  \/ \E c \in Conn : Return(c)
  \/ \E c \in Conn : StoreDone(c)
  \/ \E c \in Conn : ArmShutdown(c)
  \/ \E c \in Conn : CheckDone(c)
  \/ \E c \in Conn : CheckIdle(c)
  \/ \E c \in Conn : Leave(c)
  \/ \E t \in Timer : Fire(t)
  \/ AcceptError
  \/ \E c \in Conn : TruncateError(c)

(***************************************************************************)
(* Fairness: goroutines that can run do, armed timers fire, and a handler  *)
(* returns: its reads and writes have a five-minute deadline, and its wait *)
(* for a hash ends with the precomputation, unless -s leaves the hash out. *)
(* Nobody is obliged to connect or to send DONE, and nothing need fail.    *)
(***************************************************************************)
LoopFairness ==
  /\ WF_loopVars(Accept)
  /\ \A c \in Conn : /\ WF_loopVars(Receive(c))
                     /\ WF_loopVars(Return(c) \/ StoreDone(c))
                     /\ WF_loopVars(Epilogue(c))
  /\ \A t \in Timer : WF_loopVars(Fire(t))

LoopSpec == LoopInit /\ [][LoopNext]_loopVars /\ LoopFairness

---------------------------------------------------------------------------
LoopTypeOK ==
  /\ stage \in [Conn -> Stage]
  /\ backlog \in Seq(Conn)
  /\ activeConns \in 0 .. MaxConn
  /\ doneReceived \in BOOLEAN
  /\ timer \in [Timer -> {"stopped", "armed"}]
  /\ server \in {"running", "idleExit", "doneExit", "acceptError", "truncateError"}

\* The counter that decides the exit is exact at every moment: it counts each connection from the
\* loop's receipt to its goroutine's end, across the loop's and every goroutine's updates.
ActiveExact == activeConns = Cardinality({c \in Conn : stage[c] \in Counted})

\* A graceful exit kills no handler: when the process ends on a timer, every connection accepted
\* before is through its goroutine, so no received block is left half written.
GracefulExitIsQuiet ==
  server \in {"idleExit", "doneExit"} => \A c \in Conn : stage[c] \notin Counted

\* Connections are served in the order they came: when one has reached its handler, all earlier
\* ones have. With GracefulExitIsQuiet it makes DONE on a later connection a barrier: the data
\* sent on earlier connections is handled before the server leaves.
ServedInOrder ==
  \A c, d \in Conn : c < d /\ stage[d] \in Counted \cup {"gone"}
                       => stage[c] \in Counted \cup {"gone"}

\* A server that got DONE on the last connection it will ever see ends: the timer armed for it
\* cannot be stopped again, and the handlers still running all return.
DoneOnLastConnEnds == (stage[MaxConn] = "arming") ~> (server # "running")

\* server.go:272 promises "Idle timeout: exit after 2 seconds of no connections": with every
\* connection over and no DONE, the server ends or somebody connects again.
Idle == /\ doneReceived = FALSE
        /\ \E c \in Conn : stage[c] = "gone"
        /\ \A c \in Conn : stage[c] \in {"unused", "gone"}
IdleServerExits == Idle ~> (~Idle \/ server # "running")
===========================================================================
