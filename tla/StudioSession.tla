---------------------------- MODULE StudioSession ---------------------------
(***************************************************************************)
(* One Studio session for a repository root.  Every `archkeel studio` and  *)
(* `archkeel studio --stop` is a process of its own; the processes meet in *)
(* a state file, a file lock, and the HTTP answer of a server.             *)
(*                                                                         *)
(* A start holds the lock from its look at the state file until its server *)
(* serves; a stop holds it until the server it has stopped is gone, or for *)
(* 15 seconds.  The server that ends takes no lock to remove its file.     *)
(* Scopes, URLs and the malformed files that _read refuses are left out: a *)
(* process is known by its pid, and a refused file is no file.             *)
(*                                                                         *)
(* In a quiet session nobody presses Ctrl-C and no server is idle for      *)
(* long: servers end by `--stop`, by a failing start, or by a crash.       *)
(***************************************************************************)
EXTENDS Naturals

CONSTANTS Procs,      \* the invocations of the CLI, each with a pid of its own
          LoudProcs,  \* those made when it is not quiet: a bound of the runs
          Nobody      \* no process

ASSUME SessionAssumption == Nobody \notin Procs /\ LoudProcs \subseteq Procs

VARIABLES lock,     \* holder of .studio.lock
          file,     \* studio.json
          at,       \* where each process is
          read,     \* the state file as each process last read it
          signal,   \* whether a SIGTERM or SIGINT is on its way to it
          said,     \* what each invocation has told its user
          quiet     \* whether servers end only as they are told to

vars == <<lock, file, at, read, signal, said, quiet>>

NoState == [pid |-> Nobody, stopping |-> FALSE]
States == [pid : Procs, stopping : BOOLEAN] \cup {NoState}

Starting == {"start.read", "start.probe", "start.workspace", "start.write", "start.serve"}
Stopping == {"stop.read", "stop.probe", "stop.kill", "stop.wait"}
Ending == {"closing", "cleanup", "forget", "unlink"}
Places == Starting \cup Stopping \cup Ending
            \cup {"none", "start.lock", "stop.lock", "serving", "exited", "dead"}

SessionInit ==
  /\ lock = Nobody /\ file = NoState
  /\ at = [p \in Procs |-> "none"] /\ read = [p \in Procs |-> NoState]
  /\ signal = [p \in Procs |-> FALSE] /\ said = [p \in Procs |-> "none"]
  /\ quiet \in BOOLEAN

Go(p, place) == at' = [at EXCEPT ![p] = place]

\* is_process_alive, for a pid that no other program has taken over.
Alive(p) == p \in Procs /\ at[p] \notin {"none", "exited", "dead"}

\* is_studio: its serving loop answers the start URL.
Answers(p) == p \in Procs /\ at[p] = "serving"

\* The lock is released with the process that holds it, at the latest.
LockWithout(p) == IF lock = p THEN Nobody ELSE lock

\* The invocation ends and says what it did; what it has read goes with it.
Exit(p, what) ==
  /\ Go(p, "exited")
  /\ lock' = LockWithout(p)
  /\ read' = [read EXCEPT ![p] = NoState]
  /\ said' = [said EXCEPT ![p] = what]

\* Fault: the marker is left behind.
ForgetPid(pid) == file' = IF file.pid = pid THEN [file EXCEPT !.pid = Nobody] ELSE file

\* forget_state by a holder of the lock: nobody else writes the file then.
Forget(pid) == file' = IF file.pid = pid THEN NoState ELSE file

-----------------------------------------------------------------------------
(* archkeel studio *)

Call(p) ==
  /\ at[p] = "none" /\ (quiet \/ p \in LoudProcs)
  /\ Go(p, "start.lock") \/ Go(p, "stop.lock")
  /\ UNCHANGED <<lock, file, read, signal, said>>

TakesLock(p) ==
  /\ lock = Nobody /\ lock' = p
  /\ \/ at[p] = "start.lock" /\ Go(p, "start.read")
     \/ at[p] = "stop.lock" /\ Go(p, "stop.read")
  /\ UNCHANGED <<file, read, signal, said>>

\* Fault: a start that has waited long enough goes ahead without the lock.
GoesAhead(p) ==
  /\ at[p] = "start.lock" /\ lock # Nobody
  /\ Go(p, "start.read")
  /\ UNCHANGED <<lock, file, read, signal, said>>

\* Somebody has held the lock for 60 seconds.
LockTimesOut(p) ==
  /\ at[p] \in {"start.lock", "stop.lock"} /\ lock # Nobody
  /\ Exit(p, "lockHeld")
  /\ UNCHANGED <<file, signal>>

Reads(p) ==
  /\ \/ at[p] = "start.read" /\ Go(p, "start.probe")
     \/ at[p] = "stop.read" /\ Go(p, "stop.probe")
  /\ read' = [read EXCEPT ![p] = file]
  /\ UNCHANGED <<lock, file, signal, said>>

\* Fault: a stop in progress is not looked at.
AnswersOnly(p) == Answers(read[p].pid)

\* running_studio finds a server, or a stop that has not ended.
Found(p) == Answers(read[p].pid) \/ (read[p].stopping /\ Alive(read[p].pid))

\* "Already running", "a different scope", or "still cleaning up"; a pid that
\* another program has taken over looks like a stop that has not ended.
StartFinds(p) ==
  /\ at[p] = "start.probe"
  /\ IF read[p].stopping THEN Exit(p, "stillStopping")
     ELSE Found(p) /\ (Exit(p, "reused") \/ Exit(p, "otherScope"))
  /\ UNCHANGED <<file, signal>>

\* No server: a stale file is removed, and a server begins.
StartFindsNone(p) ==
  /\ at[p] = "start.probe" /\ ~Found(p)
  /\ Forget(read[p].pid)
  /\ Go(p, "start.workspace")
  /\ UNCHANGED <<lock, read, signal, said>>

\* workspace.start() spawns the explore child.
StartsWorkspace(p) ==
  /\ at[p] = "start.workspace"
  /\ Go(p, "start.write")
  /\ UNCHANGED <<lock, file, read, signal, said>>

WritesState(p) ==
  /\ at[p] = "start.write"
  /\ file' = [pid |-> p, stopping |-> FALSE]
  /\ Go(p, "start.serve")
  /\ UNCHANGED <<lock, read, signal, said>>

\* The first service_actions of the serving loop releases the lock.
Serves(p) ==
  /\ at[p] = "start.serve"
  /\ lock' = Nobody
  /\ Go(p, "serving")
  /\ UNCHANGED <<file, read, signal, said>>

\* An exception on the way, before the serving loop: the lock is still held.
StartRaises(p) ==
  /\ at[p] \in {"start.workspace", "start.write", "start.serve"}
  /\ Go(p, "closing")
  /\ UNCHANGED <<lock, file, read, signal, said>>

-----------------------------------------------------------------------------
(* The end of a server *)

\* A signal raises KeyboardInterrupt: out of the serving loop into the
\* cleanup, or out of the cleanup itself.
Interrupted(p) ==
  /\ signal[p]
  /\ signal' = [signal EXCEPT ![p] = FALSE]
  /\ \/ at[p] \in {"start.workspace", "start.write", "start.serve", "serving"} /\ Go(p, "closing")
     \/ at[p] \in {"closing", "cleanup"} /\ Go(p, "forget")
  /\ UNCHANGED <<lock, file, read, said>>

\* server_close() and agent.close(); the socket is gone.
Closes(p) ==
  /\ at[p] = "closing"
  /\ Go(p, "cleanup")
  /\ UNCHANGED <<lock, file, read, signal, said>>

\* workspace.close() ends the explore child; it may take its unwind time.
CleansUp(p) ==
  /\ at[p] = "cleanup"
  /\ Go(p, "forget")
  /\ UNCHANGED <<lock, file, read, signal, said>>

\* forget_state of the server itself: the read and the unlink are two steps.
ForgetReads(p) ==
  /\ at[p] = "forget"
  /\ read' = [read EXCEPT ![p] = file]
  /\ Go(p, "unlink")
  /\ UNCHANGED <<lock, file, signal, said>>

ForgetUnlinks(p) ==
  /\ at[p] = "unlink"
  /\ file' = IF read[p].pid = p THEN NoState ELSE file
  /\ Exit(p, "served")
  /\ UNCHANGED signal

\* SIGKILL, or a signal that nothing handles, at any moment.
Dies(p) ==
  /\ Alive(p)
  /\ Go(p, "dead")
  /\ lock' = LockWithout(p)
  /\ read' = [read EXCEPT ![p] = NoState] /\ signal' = [signal EXCEPT ![p] = FALSE]
  /\ UNCHANGED <<file, said>>

-----------------------------------------------------------------------------
(* archkeel studio --stop, under the lock *)

\* Faults: the server is stopped with no marker in its file; a stop waits for
\* as long as it takes.
StopUnmarked(p) == UNCHANGED file
NeverGivesUp(p) == FALSE

\* write_state with the marker.
Mark(p) == file' = [pid |-> read[p].pid, stopping |-> TRUE]

StopFinds(p) ==
  /\ at[p] = "stop.probe" /\ Answers(read[p].pid)
  /\ IF read[p].stopping THEN UNCHANGED file ELSE Mark(p)
  /\ Go(p, "stop.kill")
  /\ UNCHANGED <<lock, read, signal, said>>

\* Nobody answers: no server, or one that is being stopped and has died.
StopFindsNone(p) ==
  /\ at[p] = "stop.probe" /\ ~Found(p)
  /\ Forget(read[p].pid)
  /\ Exit(p, "notRunning")
  /\ UNCHANGED signal

\* An earlier stop has given up waiting, and its server lives on; or another
\* program has its pid.
StopFindsStop(p) ==
  /\ at[p] = "stop.probe" /\ read[p].stopping /\ ~Answers(read[p].pid)
  /\ Go(p, "stop.wait")
  /\ UNCHANGED <<lock, file, read, signal, said>>

\* SIGTERM, to a process that may have gone since it answered.
StopKills(p) ==
  /\ at[p] = "stop.kill"
  /\ signal' = [signal EXCEPT ![read[p].pid] = Alive(read[p].pid)]
  /\ Go(p, "stop.wait")
  /\ UNCHANGED <<lock, file, read, said>>

StopSeesEnd(p) ==
  /\ at[p] = "stop.wait"
  /\ file.pid # read[p].pid \/ ~Alive(read[p].pid)
  /\ Forget(read[p].pid)
  /\ Exit(p, "stopped")
  /\ UNCHANGED signal

StopGivesUp(p) ==
  /\ at[p] = "stop.wait"
  /\ Exit(p, "stillStopping")
  /\ UNCHANGED <<file, signal>>

-----------------------------------------------------------------------------
(* Ctrl-C, or a second one, and --idle-exit: the ends of a server that no   *)
(* `--stop` asked for.                                                      *)

CtrlC(p) ==
  /\ ~quiet
  /\ at[p] \in {"start.workspace", "start.write", "start.serve", "serving", "closing", "cleanup"}
  /\ ~signal[p]
  /\ signal' = [signal EXCEPT ![p] = TRUE]
  /\ UNCHANGED <<lock, file, at, read, said>>

IdleExit(p) ==
  /\ ~quiet
  /\ at[p] = "serving"
  /\ Go(p, "closing")
  /\ UNCHANGED <<lock, file, read, signal, said>>

-----------------------------------------------------------------------------

CommandStep(p) ==
  \/ TakesLock(p) \/ LockTimesOut(p) \/ Reads(p)
  \/ StartFinds(p) \/ StartFindsNone(p) \/ StartsWorkspace(p) \/ WritesState(p) \/ Serves(p)
  \/ StopFinds(p) \/ StopFindsNone(p) \/ StopFindsStop(p) \/ StopKills(p) \/ StopSeesEnd(p)
  \/ StopGivesUp(p)

EndStep(p) == Interrupted(p) \/ Closes(p) \/ CleansUp(p) \/ ForgetReads(p) \/ ForgetUnlinks(p)

SessionNext ==
  /\ UNCHANGED quiet
  /\ \E p \in Procs :
       Call(p) \/ CommandStep(p) \/ EndStep(p) \/ StartRaises(p) \/ Dies(p) \/ CtrlC(p) \/ IdleExit(p)

SessionSpec == SessionInit /\ [][SessionNext]_vars

\* An invocation goes on until it serves or ends.  Nothing is assumed of a
\* server's cleanup, which may hang.
LiveSessionSpec == SessionSpec /\ \A p \in Procs : WF_vars(UNCHANGED quiet /\ CommandStep(p))

-----------------------------------------------------------------------------
(* Properties *)

\* The types of the variables.
SessionTypeOK ==
  /\ lock \in Procs \cup {Nobody} /\ file \in States
  /\ at \in [Procs -> Places] /\ read \in [Procs -> States]
  /\ signal \in [Procs -> BOOLEAN]
  /\ said \in [Procs -> {"none", "lockHeld", "reused", "otherScope", "stillStopping", "served",
                         "notRunning", "stopped"}]
  /\ quiet \in BOOLEAN

\* A session lasts from the start of its workspace to the end of its cleanup.
Session(p) == at[p] \in {"start.workspace", "start.write", "start.serve", "serving", "closing",
                         "cleanup"}

\* AD-305: "Keep one Studio session per canonical root."
NoTwoSessions == \A p, q \in Procs : Session(p) /\ Session(q) => p = q

\* However starts and stops overlap, wait, give up or crash, no two sessions
\* exist at once while servers end only as they are told to.
OneSessionPerRoot == quiet => NoTwoSessions

\* Then a server that serves can be found, too: the state file names it, so it
\* is reused or stopped, and no other process has removed or replaced the file.
ServerIsFindable == quiet => \A p \in Procs : at[p] = "serving" => file.pid = p

\* And `--stop` that reports "stopped" or "not running" tells the truth: at that
\* moment there is no session, also none that is still cleaning up.
StopTellsTheTruth ==
  [][quiet => \A p \in Procs : said[p] = "none" /\ said'[p] \in {"stopped", "notRunning"}
                => \A q \in Procs : ~Session(q)]_vars

\* AD-305: "retain that marker and refuse new scans while the marked process
\* remains alive", also when Ctrl-C and idle exits are about.
MarkedSessionBlocksStart ==
  [][\A p \in Procs : at[p] = "start.probe" /\ at'[p] = "start.workspace"
        => ~(file.stopping /\ Alive(file.pid))]_vars

\* forget_state: "Remove the file of this process; a newer server may have
\* replaced it."  A server that ends leaves the file of a newer one alone.
ForgetsOnlyItsOwn ==
  [][\A p \in Procs : at[p] = "unlink" /\ at'[p] = "exited" /\ file' # file => file.pid = p]_vars

\* No start or stop waits for ever: it serves, or it ends and says so.
EveryCommandEnds ==
  \A p \in Procs :
    at[p] \in {"start.lock", "stop.lock"} ~> at[p] \in Ending \cup {"serving", "exited", "dead"}
=============================================================================
