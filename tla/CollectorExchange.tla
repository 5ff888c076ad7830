-------------------------- MODULE CollectorExchange -------------------------
(***************************************************************************)
(* ProcessCollector: one exchange with a collector process.  The main      *)
(* thread spawns it in a session of its own; one worker writes the request *)
(* to its stdin and two drain its stdout and stderr, each posting one      *)
(* result to a queue; the main thread takes three results, or the first    *)
(* error, or the deadline, and cleans up whatever came.                    *)
(*                                                                         *)
(* Bytes are counted in chunks.  The collector is external: it reads and   *)
(* writes in any order, may leave a child that keeps its pipes, in its     *)
(* process group or out of it, and may crash or hang.                      *)
(***************************************************************************)
EXTENDS Naturals, Sequences

CONSTANTS Request,      \* chunks of the request
          PipeSize,     \* chunks a pipe holds
          OutLimit,     \* output_limit_bytes
          MaxOut,       \* bound: chunks of stdout
          MaxErr,       \* bound: chunks of stderr
          KillMayFail,  \* whether the kill of the process group may fail
          Plans         \* what a collector may do if it is left alone

ASSUME ExchangeAssumption ==
  /\ Request \in Nat \ {0} /\ PipeSize \in Nat \ {0} /\ OutLimit \in Nat
  \* `reads` is how much of the request it reads; one more stands for the end.
  \* In a `calm` exchange the deadlines are far, the kill is not refused and the
  \* collector ends by itself.
  /\ MaxOut \in Nat /\ MaxErr \in Nat /\ KillMayFail \in BOOLEAN
  /\ Plans \subseteq [out : 0..MaxOut, err : 0..MaxErr, reads : 0..(Request + 1),
                     code : {"good", "bad"}, calm : BOOLEAN]

VARIABLES main,      \* where collect_response is
          queue,     \* completed
          results,   \* the streams main has the result of
          raised,    \* what _exchange raises
          failures,  \* whether a step of the cleanup failed
          outcome,   \* what collect_response returns or raises
          worker,    \* the three workers
          sent, inRead, closedIn,    \* stdin: written, read, closed by the writer
          outMade, outRead,          \* stdout: written by the collector, read
          errMade, errRead,          \* stderr
          pipesClosed,               \* _close_pipes
          plan,      \* what the collector does if it is left alone
          leader,    \* the collector process: none, running, or how it ended
          child      \* a child of it that keeps the pipes

mainVars == <<main, queue, results, raised, failures, outcome>>
pipeVars == <<sent, inRead, closedIn, outMade, outRead, errMade, errRead, pipesClosed>>
procVars == <<plan, leader, child>>
vars == <<mainVars, worker, pipeVars, procVars>>

Streams == {"stdin", "stdout", "stderr"}

Init ==
  /\ main = "spawn" /\ queue = <<>> /\ results = {} /\ raised = "none"
  /\ failures = FALSE /\ outcome = "none"
  /\ worker = [s \in Streams |-> "none"]
  /\ sent = 0 /\ inRead = 0 /\ closedIn = FALSE
  /\ outMade = 0 /\ outRead = 0 /\ errMade = 0 /\ errRead = 0 /\ pipesClosed = FALSE
  /\ plan \in Plans /\ leader = "none" /\ child = "none"

-----------------------------------------------------------------------------
(* The main thread *)

\* Popen raises OSError.
SpawnFails ==
  /\ main = "spawn"
  /\ main' = "returned" /\ outcome' = "MISSING_TOOL"
  /\ UNCHANGED <<queue, results, raised, failures, worker, pipeVars, procVars>>

Spawns ==
  /\ main = "spawn"
  /\ leader' = "running"
  /\ worker' = [s \in Streams |-> "running"]
  /\ main' = "exchange"
  /\ UNCHANGED <<queue, results, raised, failures, outcome, pipeVars, plan, child>>

\* The exchange ends with an exception.
Raise(what) == raised' = what /\ main' = "kill"

\* Fault: the stderr of a collector is not waited for.
TwoResults == {"stdin", "stdout"}

\* The results the main thread waits for.
Awaited == Streams

\* completed.get(): an error is raised, the last result ends the loop.
Receives ==
  /\ main = "exchange" /\ queue # <<>>
  /\ queue' = Tail(queue)
  /\ IF Head(queue).result = "ok"
       THEN /\ results' = results \cup {Head(queue).name}
            /\ main' = IF Awaited \subseteq results' THEN "wait" ELSE "exchange"
            /\ UNCHANGED raised
       ELSE Raise(Head(queue).result) /\ UNCHANGED results
  /\ UNCHANGED <<failures, outcome, worker, pipeVars, procVars>>

\* Fault: the deadline is only looked at between two results.
DeadlineWithResult == queue # <<>>

\* The deadline passes also while nothing comes.
DeadlinePasses == TRUE

\* The deadline, before a result or in process.wait.
TimesOut ==
  /\ main \in {"exchange", "wait"} /\ DeadlinePasses
  /\ Raise("TIMEOUT")
  /\ UNCHANGED <<queue, results, failures, outcome, worker, pipeVars, procVars>>

\* Ctrl-C.
Interrupted ==
  /\ main \in {"exchange", "wait"}
  /\ Raise("interrupted")
  /\ UNCHANGED <<queue, results, failures, outcome, worker, pipeVars, procVars>>

Waits ==
  /\ main = "wait" /\ leader # "running"
  /\ main' = "kill"
  /\ UNCHANGED <<queue, results, raised, failures, outcome, worker, pipeVars, procVars>>

\* Fault: the collector alone is killed.
KillsLeader ==
  /\ leader' = IF leader = "running" THEN "killed" ELSE leader
  /\ child' = child

\* killpg: what is left of the session's group dies; a child that has left
\* the group lives on.
KillsGroup ==
  /\ leader' = IF leader = "running" THEN "killed" ELSE leader
  /\ child' = IF child = "group" THEN "none" ELSE child

Terminates ==
  /\ main = "kill"
  /\ \/ KillsGroup /\ UNCHANGED failures
     \/ KillMayFail /\ ~plan.calm /\ failures' = TRUE /\ UNCHANGED <<leader, child>>
  /\ main' = "close"
  /\ UNCHANGED <<queue, results, raised, outcome, worker, pipeVars, plan>>

ClosesPipes ==
  /\ main = "close"
  /\ pipesClosed' = TRUE
  /\ main' = "join"
  /\ UNCHANGED <<queue, results, raised, failures, outcome, worker, sent, inRead, closedIn, outMade,
                 outRead, errMade, errRead, procVars>>

WorkersStopped == \A s \in Streams : worker[s] # "running"

Joins ==
  /\ main = "join" /\ WorkersStopped
  /\ main' = "exit"
  /\ UNCHANGED <<queue, results, raised, failures, outcome, worker, pipeVars, procVars>>

\* Fault: a worker that does not stop is forgotten.
ForgetsWorkers == failures

\* "Collector pipe workers did not stop" after two seconds.
Stuck == TRUE

JoinTimesOut ==
  /\ main = "join" /\ ~WorkersStopped
  /\ failures' = Stuck
  /\ main' = "exit"
  /\ UNCHANGED <<queue, results, raised, outcome, worker, pipeVars, procVars>>

\* The three sources of an outcome, in the order in which they prevail.  The
\* bytes of a good end decode, or they do not.
Verdicts ==
  IF failures THEN {"cleanupError"}
  ELSE IF raised # "none" THEN {raised}
  ELSE IF leader = "good" THEN {"response", "PROTOCOL_ERROR"} ELSE {"EXECUTION_ERROR"}

\* Popen.__exit__ waits for the process, with no bound.
Returns ==
  /\ main = "exit" /\ leader # "running"
  /\ outcome' \in Verdicts
  /\ main' = "returned"
  /\ UNCHANGED <<queue, results, raised, failures, worker, pipeVars, procVars>>

-----------------------------------------------------------------------------
(* The workers *)

Held == leader = "running" \/ child # "none"
Working(s) == worker[s] = "running" /\ ~pipesClosed

Posts(s, what) ==
  /\ worker' = [worker EXCEPT ![s] = "done"]
  /\ queue' = Append(queue, [name |-> s, result |-> what])
  /\ UNCHANGED <<main, results, raised, failures, outcome>>

Writes ==
  /\ Working("stdin") /\ sent < Request /\ sent - inRead < PipeSize /\ Held
  /\ sent' = sent + 1
  /\ UNCHANGED <<mainVars, worker, inRead, closedIn, outMade, outRead, errMade, errRead, pipesClosed,
                 procVars>>

WriteEnds ==
  /\ Working("stdin") /\ sent = Request
  /\ closedIn' = TRUE
  /\ Posts("stdin", "ok")
  /\ UNCHANGED <<sent, inRead, outMade, outRead, errMade, errRead, pipesClosed, procVars>>

\* Fault: a collector that does not read its request is an OSError.
BrokenPipeRaises == "MISSING_TOOL"

\* What a BrokenPipeError counts as.
BrokenPipe == "ok"

\* Nobody reads the request any more.
WriteBreaks ==
  /\ Working("stdin") /\ sent < Request /\ ~Held
  /\ Posts("stdin", BrokenPipe)
  /\ UNCHANGED <<pipeVars, procVars>>

\* Fault: the limit is checked after the chunk is kept.
LimitPassed == outRead > OutLimit

LimitReached == outRead = OutLimit

\* stdout: a chunk within the limit, the chunk that exceeds it, the end.
ReadsOut ==
  /\ Working("stdout") /\ outRead < outMade
  /\ IF LimitReached
       THEN Posts("stdout", "PROTOCOL_ERROR") /\ UNCHANGED outRead
       ELSE outRead' = outRead + 1 /\ UNCHANGED <<mainVars, worker>>
  /\ UNCHANGED <<sent, inRead, closedIn, outMade, errMade, errRead, pipesClosed, procVars>>

\* Fault: the readers take turns.
ErrAfterOut == worker["stdout"] = "done"

ReadOutEnds ==
  /\ Working("stdout") /\ outRead = outMade /\ ~Held
  /\ Posts("stdout", "ok")
  /\ UNCHANGED <<pipeVars, procVars>>

\* stderr is read whatever the other worker does.
ErrTurn == TRUE

\* stderr: only its tail is kept, so that it has no limit.
ReadsErr ==
  /\ Working("stderr") /\ errRead < errMade /\ ErrTurn
  /\ errRead' = errRead + 1
  /\ UNCHANGED <<mainVars, worker, sent, inRead, closedIn, outMade, outRead, errMade, pipesClosed,
                 procVars>>

ReadErrEnds ==
  /\ Working("stderr") /\ errRead = errMade /\ ~Held
  /\ Posts("stderr", "ok")
  /\ UNCHANGED <<pipeVars, procVars>>

\* A call that blocks in the pipe survives its close; any other ends there.
Blocked(s) ==
  /\ Held
  /\ CASE s = "stdin"  -> sent < Request /\ sent - inRead = PipeSize
       [] s = "stdout" -> outRead = outMade
       [] s = "stderr" -> errRead = errMade

StopsAtClose(s) ==
  /\ worker[s] = "running" /\ pipesClosed /\ ~Blocked(s)
  /\ main = "join"
  /\ worker' = [worker EXCEPT ![s] = "done"]
  /\ UNCHANGED <<mainVars, pipeVars, procVars>>

-----------------------------------------------------------------------------
(* The collector *)

CollectorReads ==
  /\ leader = "running" /\ inRead < sent /\ inRead < plan.reads
  /\ inRead' = inRead + 1
  /\ UNCHANGED <<mainVars, worker, sent, closedIn, outMade, outRead, errMade, errRead, pipesClosed,
                 procVars>>

CollectorWritesOut ==
  /\ leader = "running" /\ ~pipesClosed /\ outMade < plan.out /\ outMade - outRead < PipeSize
  /\ outMade' = outMade + 1
  /\ UNCHANGED <<mainVars, worker, sent, inRead, closedIn, outRead, errMade, errRead, pipesClosed,
                 procVars>>

CollectorWritesErr ==
  /\ leader = "running" /\ ~pipesClosed /\ errMade < plan.err /\ errMade - errRead < PipeSize
  /\ errMade' = errMade + 1
  /\ UNCHANGED <<mainVars, worker, sent, inRead, closedIn, outMade, outRead, errRead, pipesClosed,
                 procVars>>

\* It has done what it does.
CollectorExits ==
  /\ leader = "running" /\ outMade = plan.out /\ errMade = plan.err
  /\ IF plan.reads <= Request THEN inRead = plan.reads ELSE inRead = Request /\ closedIn
  /\ leader' = plan.code
  /\ UNCHANGED <<mainVars, worker, pipeVars, plan, child>>

CollectorCrashes ==
  /\ leader = "running"
  /\ leader' = "bad"
  /\ UNCHANGED <<mainVars, worker, pipeVars, plan, child>>

\* A child in the group, or one that has left it.
CollectorForks ==
  /\ leader = "running" /\ child = "none"
  /\ child' \in {"group", "escaped"}
  /\ UNCHANGED <<mainVars, worker, pipeVars, plan, leader>>

\* The child writes as well: it holds both pipes.
ChildWrites ==
  /\ child # "none" /\ ~pipesClosed /\ outMade < plan.out /\ outMade - outRead < PipeSize
  /\ outMade' = outMade + 1
  /\ UNCHANGED <<mainVars, worker, sent, inRead, closedIn, outRead, errMade, errRead, pipesClosed,
                 procVars>>

ChildEnds ==
  /\ child # "none"
  /\ child' = "none"
  /\ UNCHANGED <<mainVars, worker, pipeVars, plan, leader>>

-----------------------------------------------------------------------------

MainStep == Spawns \/ Receives \/ Waits \/ Terminates \/ ClosesPipes \/ Joins \/ Returns
WorkerStep ==
  \/ Writes \/ WriteEnds \/ WriteBreaks \/ ReadsOut \/ ReadOutEnds \/ ReadsErr \/ ReadErrEnds
  \/ \E s \in Streams : StopsAtClose(s)
CollectorStep == CollectorReads \/ CollectorWritesOut \/ CollectorWritesErr \/ CollectorExits

Next ==
  \/ MainStep \/ WorkerStep
  \/ CollectorStep \/ CollectorForks \/ ChildEnds
  \/ ~plan.calm /\ (SpawnFails \/ TimesOut \/ JoinTimesOut \/ Interrupted)
  \/ ~plan.calm /\ (CollectorCrashes \/ ChildWrites)

Spec == Init /\ [][Next]_vars

\* Host threads go on, and the deadline comes.  Of the collector and its child
\* something is asked in a calm exchange only: they do what they do, and end.
LiveSpec ==
  /\ Spec
  /\ WF_vars(MainStep) /\ WF_vars(WorkerStep)
  /\ WF_vars(~plan.calm /\ (TimesOut \/ JoinTimesOut))
  /\ WF_vars(plan.calm /\ CollectorStep) /\ SF_vars(plan.calm /\ ChildEnds)

-----------------------------------------------------------------------------
(* Properties *)

MainStates == {"spawn", "exchange", "wait", "kill", "close", "join", "exit", "returned"}
Outcomes == {"none", "response", "TIMEOUT", "MISSING_TOOL", "PROTOCOL_ERROR", "EXECUTION_ERROR",
             "cleanupError", "interrupted"}

\* The types of the variables.
TypeOK ==
  /\ main \in MainStates
  /\ queue \in Seq([name : Streams, result : {"ok", "MISSING_TOOL", "PROTOCOL_ERROR"}])
  /\ results \subseteq Streams
  /\ raised \in {"none", "TIMEOUT", "interrupted", "MISSING_TOOL", "PROTOCOL_ERROR"}
  /\ failures \in BOOLEAN /\ outcome \in Outcomes
  /\ worker \in [Streams -> {"none", "running", "done"}]
  /\ inRead \in 0..sent /\ sent \in 0..Request /\ closedIn \in BOOLEAN
  /\ outRead \in 0..outMade /\ outMade \in 0..MaxOut /\ outRead <= OutLimit
  /\ errRead \in 0..errMade /\ errMade \in 0..MaxErr /\ pipesClosed \in BOOLEAN
  /\ plan \in Plans /\ leader \in {"none", "running", "killed", "good", "bad"}
  /\ child \in {"none", "group", "escaped"}

\* A response is decoded only from the whole output: the collector ended with
\* 0, every chunk anybody wrote has been read, on both streams, and nobody is
\* left who could write more.
ResponseIsWhole ==
  outcome = "response" =>
    /\ leader = "good" /\ child = "none"
    /\ outRead = outMade /\ outMade = plan.out /\ errRead = errMade

\* However the exchange ends (a reply, a crash, the deadline, too much
\* output, Ctrl-C), no process of the collector's group and no worker outlives
\* it, unless it ends with the cleanup error that says so.
NothingLeftBehind ==
  main = "returned" /\ outcome # "cleanupError" =>
    /\ leader # "running" /\ child # "group"
    /\ \A s \in Streams : worker[s] # "running"

\* A collector that ends badly, even before it has read its request, is an
\* execution error: the broken pipe of the writer, which may come first,
\* never turns it into a missing tool or a protocol error.
BadEndIsNamed ==
  leader = "bad" /\ outMade <= OutLimit =>
    outcome \in {"none", "EXECUTION_ERROR", "TIMEOUT", "interrupted", "cleanupError"}

\* The exchange returns, whatever the collector does and whoever keeps pipes.
\* The one exception is a refused kill: the cleanup has reported it, and the
\* end of the `with Popen` block waits for a collector that still runs.
ExchangeReturns == <>(main = "returned" \/ (main = "exit" /\ failures /\ leader = "running"))

\* No deadlock between the four pipes' ends: a collector that ends by itself,
\* in whatever order it reads and writes, is never left to the deadline.
NoPipeDeadlock == plan.calm ~> (outcome \in {"response", "EXECUTION_ERROR", "PROTOCOL_ERROR"})
=============================================================================
