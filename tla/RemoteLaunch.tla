---------------------------- MODULE RemoteLaunch ----------------------------
(***************************************************************************)
(* bsync -t: each launcher starts a server of its own on the target host,  *)
(* over ssh or, for a local path, as a child; waits for READY; and then    *)
(* runs its client against whoever listens on the host's port (-p, one     *)
(* port for all). A transfer is reduced to the connections it holds; what  *)
(* starts and stops servers is kept: READY, the port, DONE, connections    *)
(* that stop the shutdown timer, Kill and Wait.                            *)
(***************************************************************************)
EXTENDS Target

CONSTANTS
  Launchers,
  Jobs,            \* what each launcher is asked to do, one function for each case to consider
  MaxFaults        \* bound: faults in one behaviour

\* A job: -d or not, what its user means by -t, whether the launcher's own file (-f) can be used,
\* the server's file: "good", "empty", or "bad" when it cannot be opened; and whether -s skips blocks.
Job == [mode : {"upload", "download"}, to : {t \in Parts : Meaning(t)}, source : BOOLEAN,
        served : {"good", "empty", "bad"}, skip : BOOLEAN]

ASSUME LaunchAssumption ==
  /\ Jobs \subseteq [Launchers -> Job]
  /\ MaxFaults \in Nat

VARIABLES
  job,
  target,    \* what parseSSHTarget makes of each job's -t
  pc,        \* each launcher's main: "start", "ready" (waiting for READY), "open", "dial",
             \* "transfer", "done", "leaving", "wait", or "exit"
  out,       \* how it exited: "none", "ok" (status 0), "error", or "left": an error that does
             \* not see to the server it started
  child,     \* the server it started: "none", "starting", "listening" or "exited"
  said,      \* READY has reached the launcher's pipe
  cut,       \* the ssh that carries the server was killed or lost
  at,        \* the server a launcher's client is connected to: that server's launcher, or nobody
  armed,     \* servers whose shutdown timer runs
  alone,     \* launchers that went on without READY, or lost their ssh or their server; kept
             \* for properties
  faults     \* faults so far

inputs     == <<job, target>>
mainVars   == <<pc, out>>
serverVars == <<child, said, cut>>
launchVars == <<inputs, mainVars, serverVars, at, armed, alone, faults>>

Nobody == <<>>
Server(l) == <<l>>

Host(l)     == target[l].host
Remote(l)   == Host(l) # <<>>
IsUpload(l) == job[l].mode = "upload"

\* The server that holds the port of l's host.
Holds(s, l)  == child[s] = "listening" /\ Host(s) = Host(l)
Vacant(l)    == \A s \in Launchers : ~Holds(s, l)
Visited(s)   == \E l \in Launchers : at[l] = Server(s)

LaunchInit ==
  /\ job \in Jobs
  /\ target = [l \in Launchers |-> parseSSHTarget(Written(job[l].to))]
  /\ pc = [l \in Launchers |-> "start"]
  /\ out = [l \in Launchers |-> "none"]
  /\ child = [l \in Launchers |-> "none"]
  /\ said = [l \in Launchers |-> FALSE]
  /\ cut = [l \in Launchers |-> FALSE]
  /\ at = [l \in Launchers |-> Nobody]
  /\ armed = {} /\ alone = {}
  /\ faults = 0

Fault == faults < MaxFaults /\ faults' = faults + 1
Goto(l, p) == pc' = [pc EXCEPT ![l] = p] /\ UNCHANGED out
Exit(l, how) == pc' = [pc EXCEPT ![l] = "exit"] /\ out' = [out EXCEPT ![l] = how]

---------------------------------------------------------------------------
(* The launcher: main, startRemoteSSH and startRemoteSSHDownload.          *)

\* A target that names no place ends the process before anything is started.
BadTarget(l) ==
  /\ pc[l] = "start" /\ NamesNoPlace(Written(job[l].to))
  /\ Exit(l, "error")
  /\ UNCHANGED <<inputs, serverVars, at, armed, alone, faults>>

\* The binary is copied, if the host is remote, and the server is started with -f, -p, -b, -s.
Start(l) ==
  /\ pc[l] = "start" /\ ~NamesNoPlace(Written(job[l].to))
  /\ Goto(l, "ready")
  /\ child' = [child EXCEPT ![l] = "starting"]
  /\ UNCHANGED <<inputs, said, cut, at, armed, alone, faults>>

\* Copying or starting fails.
StartFails(l) ==
  /\ pc[l] = "start"
  /\ Fault
  /\ Exit(l, "error")
  /\ UNCHANGED <<inputs, serverVars, at, armed, alone>>

\* The process that main started has ended.
Gone(l) == child[l] = "exited" \/ cut[l]

\* waitForReady: a line with READY, or the end of the output, which is no error either.
Ready(l) ==
  /\ pc[l] = "ready" /\ (said[l] \/ Gone(l))
  /\ Goto(l, "open")
  /\ alone' = IF said[l] THEN alone ELSE alone \cup {l}
  /\ UNCHANGED <<inputs, serverVars, at, armed, faults>>

\* Reading the output fails: main exits, and the server it started is left alone.
ReadyFails(l) ==
  /\ pc[l] = "ready"
  /\ Fault
  /\ Exit(l, "left")
  /\ UNCHANGED <<inputs, serverVars, at, armed, alone>>

Open(l) ==
  /\ pc[l] = "open" /\ job[l].source
  /\ Goto(l, "dial")
  /\ UNCHANGED <<inputs, serverVars, at, armed, alone, faults>>

\* OpenFails that kills nobody.
MOpenFailsAlive(l) ==
  /\ pc[l] = "open" /\ ~job[l].source
  /\ Exit(l, "error")
  /\ UNCHANGED <<inputs, serverVars, at, armed, alone, faults>>

\* The file cannot be opened, or is empty: main kills what it started, which is ssh, and not the
\* server, if that is remote.
OpenFails(l) ==
  /\ pc[l] = "open" /\ ~job[l].source
  /\ Exit(l, "error")
  /\ IF Remote(l) THEN cut' = [cut EXCEPT ![l] = TRUE] /\ UNCHANGED child
     ELSE child' = [child EXCEPT ![l] = "exited"] /\ UNCHANGED cut
  /\ armed' = IF Remote(l) THEN armed ELSE armed \ {l}
  /\ at' = [k \in Launchers |-> IF ~Remote(l) /\ at[k] = Server(l) THEN Nobody ELSE at[k]]
  /\ UNCHANGED <<inputs, said, alone, faults>>

\* The client's connection: whoever holds the port. A server stops its shutdown timer.
Dial(l) ==
  /\ pc[l] = "dial"
  /\ \E s \in Launchers :
       /\ Holds(s, l)
       /\ at' = [at EXCEPT ![l] = Server(s)]
       /\ armed' = armed \ {s}
  /\ Goto(l, "transfer")
  /\ UNCHANGED <<inputs, serverVars, alone, faults>>

\* An error that ends the client's process at once: the size of its file or the address cannot be
\* found, or a download cannot cut its file. The server it started is left alone.
Quits(l) ==
  /\ (pc[l] = "open" /\ job[l].source) \/ (pc[l] = "transfer" /\ ~IsUpload(l))
  /\ Fault
  /\ Exit(l, "left")
  /\ at' = [at EXCEPT ![l] = Nobody]
  /\ UNCHANGED <<inputs, serverVars, armed, alone>>

AfterTransfer(l) == IF IsUpload(l) THEN "done" ELSE "wait"

\* Nobody listens. An upload gives its blocks up and goes on to DONE, a download is over.
Refused(l) ==
  /\ pc[l] = "dial" /\ Vacant(l)
  /\ Goto(l, AfterTransfer(l))
  /\ UNCHANGED <<inputs, serverVars, at, armed, alone, faults>>

\* Finish that leaves the connection open.
MFinishOpen(l) ==
  /\ pc[l] = "transfer" /\ at[l] # Nobody
  /\ Goto(l, AfterTransfer(l))
  /\ UNCHANGED <<inputs, serverVars, at, armed, alone, faults>>

\* The blocks are done with, and their connections closed.
Finish(l) ==
  /\ pc[l] = "transfer" /\ at[l] # Nobody
  /\ Goto(l, AfterTransfer(l))
  /\ at' = [at EXCEPT ![l] = Nobody]
  /\ UNCHANGED <<inputs, serverVars, armed, alone, faults>>

\* The server has gone in the middle. An upload dials again for its next attempt or block, or
\* has given up the last one; a download ends.
Cut(l) ==
  /\ pc[l] = "transfer" /\ at[l] = Nobody
  /\ Goto(l, AfterTransfer(l)) \/ (IsUpload(l) /\ Goto(l, "dial"))
  /\ UNCHANGED <<inputs, serverVars, at, armed, alone, faults>>

\* SendDone that is not taken for DONE.
MSendDoneUnheard(l) ==
  /\ pc[l] = "done"
  /\ \E s \in Launchers :
       /\ Holds(s, l)
       /\ at' = [at EXCEPT ![l] = Server(s)]
       /\ armed' = armed \ {s}
  /\ Goto(l, "leaving")
  /\ UNCHANGED <<inputs, serverVars, alone, faults>>

\* A server answers DONE unless it waits for a hash of block 0 that it does not make, as its file is
\* empty or -s skips the block.
AnswersDone(s) == IsUpload(s) /\ job[s].served = "good" /\ ~job[s].skip

\* DONE goes out on a connection of its own, which stops the timer of a receiving server and,
\* answered, starts it again.
SendDone(l) ==
  /\ pc[l] = "done"
  /\ \E s \in Launchers :
       /\ Holds(s, l)
       /\ at' = [at EXCEPT ![l] = Server(s)]
       /\ armed' = IF AnswersDone(s) THEN armed \cup {s} ELSE armed \ {s}
  /\ Goto(l, "leaving")
  /\ UNCHANGED <<inputs, serverVars, alone, faults>>

\* DONE cannot be sent; nobody tries again.
DoneFails(l) ==
  /\ pc[l] = "done"
  /\ (Vacant(l) /\ UNCHANGED faults) \/ Fault
  /\ Goto(l, "wait")
  /\ UNCHANGED <<inputs, serverVars, at, armed, alone>>

\* The client closes DONE's connection after two seconds.
Leave(l) ==
  /\ pc[l] = "leaving"
  /\ Goto(l, "wait")
  /\ at' = [at EXCEPT ![l] = Nobody]
  /\ UNCHANGED <<inputs, serverVars, armed, alone, faults>>

\* sshCmd.Wait, whose result nobody looks at.
Wait(l) ==
  /\ pc[l] = "wait" /\ Gone(l)
  /\ Exit(l, "ok")
  /\ UNCHANGED <<inputs, serverVars, at, armed, alone, faults>>

---------------------------------------------------------------------------
(* The server a launcher started: main, startServer, startServerUpload.    *)

\* It cannot open its file, or has nothing to send.
Useless(l) == job[l].served = "bad" \/ (job[l].served = "empty" /\ ~IsUpload(l))

\* The port is its own.
Listen(l) ==
  /\ child[l] = "starting" /\ ~Useless(l) /\ Vacant(l)
  /\ child' = [child EXCEPT ![l] = "listening"]
  /\ UNCHANGED <<inputs, mainVars, said, cut, at, armed, alone, faults>>

\* An error before READY ends it.
Fails(l) ==
  /\ child[l] = "starting" /\ (Useless(l) \/ ~Vacant(l))
  /\ child' = [child EXCEPT ![l] = "exited"]
  /\ UNCHANGED <<inputs, mainVars, said, cut, at, armed, alone, faults>>

\* READY is printed before the server listens.
MAnnounceEarly(l) ==
  /\ child[l] \in {"starting", "listening"} /\ ~said[l] /\ ~cut[l]
  /\ said' = [said EXCEPT ![l] = TRUE]
  /\ UNCHANGED <<inputs, mainVars, child, cut, at, armed, alone, faults>>

Announce(l) ==
  /\ child[l] = "listening" /\ ~said[l] /\ ~cut[l]
  /\ said' = [said EXCEPT ![l] = TRUE]
  /\ UNCHANGED <<inputs, mainVars, child, cut, at, armed, alone, faults>>

Ends(s) ==
  /\ child' = [child EXCEPT ![s] = "exited"]
  /\ armed' = armed \ {s}
  /\ at' = [l \in Launchers |-> IF at[l] = Server(s) THEN Nobody ELSE at[l]]
  /\ UNCHANGED <<inputs, mainVars, said, cut>>

\* The shutdown timer fires, and nobody is connected.
Shutdown(s) ==
  /\ s \in armed /\ ~Visited(s)
  /\ Ends(s)
  /\ UNCHANGED <<alone, faults>>

\* A server whose output nobody reads may die of the next line it prints: READY, or one for a
\* connection.
DiesOfPipe(s) ==
  /\ child[s] = "listening" /\ (cut[s] \/ pc[s] = "exit") /\ (~said[s] \/ Visited(s))
  /\ Ends(s)
  /\ UNCHANGED <<alone, faults>>

\* An error ends the server's process: the size of its file before READY, or its listener, or a
\* client's file size it cannot cut its own to.
ServerDies(s) ==
  /\ child[s] \in {"starting", "listening"}
  /\ Fault
  /\ Ends(s)
  /\ alone' = alone \cup {s}

\* The ssh connection is lost; the server runs on.
SshLost(l) ==
  /\ Remote(l) /\ child[l] # "none" /\ pc[l] # "exit" /\ ~cut[l]
  /\ Fault
  /\ cut' = [cut EXCEPT ![l] = TRUE]
  /\ alone' = alone \cup {l}
  /\ UNCHANGED <<inputs, mainVars, child, said, at, armed>>

---------------------------------------------------------------------------
MainStep(l) ==
  \/ BadTarget(l) \/ Start(l) \/ Ready(l) \/ Open(l) \/ OpenFails(l) \/ Dial(l) \/ Refused(l)
  \/ Finish(l) \/ Cut(l) \/ SendDone(l) \/ (DoneFails(l) /\ UNCHANGED faults)
  \/ Leave(l) \/ Wait(l)
ServerStep(l) == Listen(l) \/ Fails(l) \/ Announce(l) \/ Shutdown(l)

LaunchNext ==
  \E l \in Launchers :
    \/ MainStep(l) \/ ServerStep(l) \/ DiesOfPipe(l)
    \/ StartFails(l) \/ ReadyFails(l) \/ Quits(l) \/ DoneFails(l) \/ SshLost(l) \/ ServerDies(l)

LaunchSpec == LaunchInit /\ [][LaunchNext]_launchVars

(***************************************************************************)
(* Fairness: processes that can go on do, and an armed timer fires. Faults *)
(* are never due, nor is the death of a server without its output.         *)
(***************************************************************************)
LaunchFairness == \A l \in Launchers : WF_launchVars(MainStep(l)) /\ WF_launchVars(ServerStep(l))

FairLaunchSpec == LaunchSpec /\ LaunchFairness

---------------------------------------------------------------------------
LaunchTypeOK ==
  /\ job \in Jobs
  /\ target \in [Launchers -> Parts]
  /\ pc \in [Launchers -> {"start", "ready", "open", "dial", "transfer", "done", "leaving", "wait",
                           "exit"}]
  /\ out \in [Launchers -> {"none", "ok", "error", "left"}]
  /\ child \in [Launchers -> {"none", "starting", "listening", "exited"}]
  /\ said \in [Launchers -> BOOLEAN] /\ cut \in [Launchers -> BOOLEAN]
  /\ at \in [Launchers -> {Nobody} \cup {Server(s) : s \in Launchers}]
  /\ \A l \in Launchers : /\ at[l] # Nobody => pc[l] \in {"transfer", "leaving"}
                          /\ pc[l] = "start" => child[l] = "none"
  /\ armed \subseteq {s \in Launchers : child[s] = "listening"}
  /\ alone \subseteq Launchers
  /\ faults \in 0 .. MaxFaults

\* Launchers share a port, and neither READY nor a connection says whose server it comes from.
\* As long as every launcher has waited for READY and kept its ssh and its server, each client
\* talks to its own server all the same, whatever the others start, finish, kill or leave behind.
OwnServer == alone = {} => \A l \in Launchers : at[l] \in {Nobody, Server(l)}

\* A launcher that has exited leaves a server behind only where its own exit skipped the Kill, or
\* where its ssh was killed or lost, which ends no server at the other end. On its own host every
\* other exit has waited for the server's end or killed it.
LeavesNothing ==
  \A l \in Launchers : pc[l] = "exit" /\ child[l] \notin {"none", "exited"} =>
    out[l] = "left" \/ (Remote(l) /\ cut[l])

\* Every upload ends, although its server takes DONE from anybody and any connection stops its
\* timer, unless its server cannot answer DONE, or a download that saw no READY came to its server.
LaunchesEnd ==
  \A l \in Launchers : IsUpload(l) /\ (job[l].served = "bad" \/ AnswersDone(l)) =>
    <>(pc[l] = "exit" \/ faults > 0 \/ \E k \in alone : ~IsUpload(k))

\* Every launch ends: main waits "for remote process to finish" and goes on to "DONE, exiting"
\* (main.go:115-117).
EveryLaunchEnds == \A l \in Launchers : <>(pc[l] = "exit")
=============================================================================
