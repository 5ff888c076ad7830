----------------------------- MODULE StudioAgent ----------------------------
(***************************************************************************)
(* Agent of Studio: it runs a coding agent in the repository, one question *)
(* at a time, and promises that nothing the agent changed goes unnoticed.  *)
(*                                                                         *)
(* ask() runs in a handler thread under _run, and compares what git        *)
(* reports before and after.  The agent is a process group: a leader that  *)
(* Studio reaps, and helpers the leader may leave behind.  close() runs in *)
(* the main thread and may end the same group at the same time.            *)
(*                                                                         *)
(* A group is named by the thread that spawned it.  The guard lock makes   *)
(* each of its three short sections one step.                              *)
(***************************************************************************)
EXTENDS Naturals

CONSTANTS Threads,    \* handler threads
          Nobody,     \* no thread, no child
          MaxEdits    \* bound: how often a file under the root changes

ASSUME AgentAssumption == Nobody \notin Threads /\ MaxEdits \in Nat

VARIABLES runLock,   \* holder of _run
          selfChild, \* _child: the group that close() would end
          closed,    \* _closed
          closer,    \* where close() is
          ending,    \* the child close() has taken
          ask,       \* where ask() is in each thread
          before,    \* _tree_state before the run
          failure,   \* the failure _execute raised, if any
          outcome,   \* what the last ask() of each thread came to
          leader,    \* the agent process: none, running, ended with 0 (good) or not (bad)
          helpers,   \* whether other processes of its group are alive
          large,     \* whether its output is over the limit
          edited,    \* whether its group changed a file during this ask
          tree       \* what _tree_state reports: a new value with each edit

askVars == <<runLock, selfChild, ask, before, failure, outcome>>
closeVars == <<closed, closer, ending>>
groupVars == <<leader, helpers, large, edited>>
vars == <<askVars, closeVars, groupVars, tree>>

Failures == {"failed", "timeout", "tooLarge"}
Outcomes == Failures \cup {"none", "busy", "notInstalled", "gitFailed", "changed", "reply"}

Running(t) == leader[t] = "running"
Alive(t) == Running(t) \/ helpers[t]

AgentInit ==
  /\ runLock = Nobody /\ selfChild = Nobody
  /\ closed = FALSE /\ closer = "open" /\ ending = Nobody
  /\ ask = [t \in Threads |-> "idle"] /\ before = [t \in Threads |-> 0]
  /\ failure = [t \in Threads |-> "none"] /\ outcome = [t \in Threads |-> "none"]
  /\ leader = [t \in Threads |-> "none"] /\ helpers = [t \in Threads |-> FALSE]
  /\ large = [t \in Threads |-> FALSE] /\ edited = [t \in Threads |-> FALSE]
  /\ tree = 0

-----------------------------------------------------------------------------
(* ask() *)

\* Faults: a second question is let in; a run may begin after close().
LetsIn == TRUE
StartsAfterClose == TRUE

\* _run can be taken without waiting.
MayAsk == runLock = Nobody

AskBusy(t) ==
  /\ ask[t] = "idle" /\ ~MayAsk
  /\ outcome' = [outcome EXCEPT ![t] = "busy"]
  /\ UNCHANGED <<runLock, selfChild, ask, before, failure, closeVars, groupVars, tree>>

AskBegins(t) ==
  /\ ask[t] = "idle" /\ MayAsk
  /\ runLock' = t
  /\ ask' = [ask EXCEPT ![t] = "look"]
  /\ failure' = [failure EXCEPT ![t] = "none"]
  /\ outcome' = [outcome EXCEPT ![t] = "none"]
  /\ edited' = [edited EXCEPT ![t] = FALSE]
  /\ UNCHANGED <<selfChild, before, closeVars, leader, helpers, large, tree>>

\* ask() ends, whether it returns or raises, and gives _run back.
AskEnds(t, how) ==
  /\ outcome' = [outcome EXCEPT ![t] = how]
  /\ ask' = [ask EXCEPT ![t] = "idle"]
  /\ runLock' = Nobody
  /\ UNCHANGED <<selfChild, before, failure, closeVars, groupVars, tree>>

\* The program is not on the PATH, or git status fails.
AskCannotLook(t) ==
  /\ ask[t] = "look"
  /\ AskEnds(t, "notInstalled") \/ AskEnds(t, "gitFailed")

AskLooks(t) ==
  /\ ask[t] = "look"
  /\ before' = [before EXCEPT ![t] = tree]
  /\ ask' = [ask EXCEPT ![t] = "execute"]
  /\ UNCHANGED <<runLock, selfChild, failure, outcome, closeVars, groupVars, tree>>

\* Under the guard, close() has not been called.
MayExecute == ~closed

\* "Studio is stopping.", or Popen raises.
ExecuteFails(t) ==
  /\ ask[t] = "execute"
  /\ failure' = [failure EXCEPT ![t] = "failed"]
  /\ ask' = [ask EXCEPT ![t] = "compare"]
  /\ UNCHANGED <<runLock, selfChild, before, outcome, closeVars, groupVars, tree>>

ExecuteSpawns(t) ==
  /\ ask[t] = "execute" /\ MayExecute
  /\ leader' = [leader EXCEPT ![t] = "running"]
  /\ large' = [large EXCEPT ![t] = FALSE]
  /\ selfChild' = t
  /\ ask' = [ask EXCEPT ![t] = "wait"]
  /\ UNCHANGED <<runLock, before, failure, outcome, closeVars, helpers, edited, tree>>

\* _wait(): the leader has ended, or it has written too much.
WaitReturns(t) ==
  /\ ask[t] = "wait"
  /\ ~Running(t) \/ large[t]
  /\ ask' = [ask EXCEPT ![t] = "end"]
  /\ UNCHANGED <<runLock, selfChild, before, failure, outcome, closeVars, groupVars, tree>>

\* Fault: there is no deadline.
WaitsForEver(t) == FALSE

WaitTimesOut(t) ==
  /\ ask[t] = "wait" /\ Running(t)
  /\ failure' = [failure EXCEPT ![t] = "timeout"]
  /\ ask' = [ask EXCEPT ![t] = "end"]
  /\ UNCHANGED <<runLock, selfChild, before, outcome, closeVars, groupVars, tree>>

\* _end(): SIGINT to the group, a grace time in which the group goes on as
\* it likes, then this step: SIGKILL to the group, and the leader is reaped.
EndGroup(t) ==
  /\ leader' = [leader EXCEPT ![t] = IF Running(t) THEN "bad" ELSE @]
  /\ helpers' = [helpers EXCEPT ![t] = FALSE]

ExecuteEnds(t) ==
  /\ ask[t] = "end"
  /\ EndGroup(t)
  /\ ask' = [ask EXCEPT ![t] = "ended"]
  /\ UNCHANGED <<runLock, selfChild, before, failure, outcome, closeVars, large, edited, tree>>

\* What _execute raises once the group is gone, an earlier failure first.
Raised(t) ==
  IF failure[t] # "none" THEN failure[t]
  ELSE IF large[t] THEN "tooLarge"
  ELSE IF leader[t] # "good" THEN "failed" ELSE "none"

\* The end of _execute: nothing reads _child between, and the output is
\* settled, so the judgement is one step with the reset.
ExecuteJudges(t) ==
  /\ ask[t] = "ended"
  /\ selfChild' = Nobody
  /\ failure' = [failure EXCEPT ![t] = Raised(t)]
  /\ ask' = [ask EXCEPT ![t] = "compare"]
  /\ UNCHANGED <<runLock, before, outcome, closeVars, groupVars, tree>>

\* Fault: a failure of the run is reported before the tree is looked at.
FailureFirst(t) ==
  IF failure[t] # "none" THEN failure[t] ELSE IF tree # before[t] THEN "changed" ELSE "reply"

\* The second look at the tree decides first.
Verdict(t) ==
  IF tree # before[t] THEN "changed" ELSE IF failure[t] # "none" THEN failure[t] ELSE "reply"

AskCompares(t) ==
  /\ ask[t] = "compare"
  /\ AskEnds(t, "gitFailed") \/ AskEnds(t, Verdict(t))

AskStep(t) ==
  \/ AskCannotLook(t) \/ AskLooks(t) \/ ExecuteFails(t) \/ ExecuteSpawns(t) \/ WaitReturns(t)
  \/ WaitTimesOut(t) \/ ExecuteEnds(t) \/ ExecuteJudges(t) \/ AskCompares(t)

-----------------------------------------------------------------------------
(* close() *)

\* Under the guard: refuse later runs, and take the child.
CloseTakes ==
  /\ closer = "open"
  /\ closed' = TRUE
  /\ ending' = selfChild
  /\ closer' = "taken"
  /\ UNCHANGED <<askVars, groupVars, tree>>

\* Outside the guard: the thread that asked may be ending the child as well.
CloseEnds ==
  /\ closer = "taken"
  /\ IF ending = Nobody THEN UNCHANGED <<leader, helpers>> ELSE EndGroup(ending)
  /\ closer' = "done"
  /\ UNCHANGED <<askVars, closed, ending, large, edited, tree>>

CloseStep == CloseTakes \/ CloseEnds

-----------------------------------------------------------------------------
(* The agent's processes and the user *)

LeaderExits(t, end) ==
  /\ Running(t)
  /\ leader' = [leader EXCEPT ![t] = end]
  /\ UNCHANGED <<askVars, closeVars, helpers, large, edited, tree>>

LeaderWritesTooMuch(t) ==
  /\ Running(t) /\ ~large[t]
  /\ large' = [large EXCEPT ![t] = TRUE]
  /\ UNCHANGED <<askVars, closeVars, leader, helpers, edited, tree>>

HelperStarts(t) ==
  /\ Running(t) /\ ~helpers[t]
  /\ helpers' = [helpers EXCEPT ![t] = TRUE]
  /\ UNCHANGED <<askVars, closeVars, leader, large, edited, tree>>

HelpersEnd(t) ==
  /\ helpers[t]
  /\ helpers' = [helpers EXCEPT ![t] = FALSE]
  /\ UNCHANGED <<askVars, closeVars, leader, large, edited, tree>>

\* A change that _tree_state reports: not of an ignored path, and not one
\* that keeps size and mtime of a file that is listed already.
GroupEdits(t) ==
  /\ Alive(t) /\ tree < MaxEdits
  /\ tree' = tree + 1
  /\ edited' = [edited EXCEPT ![t] = TRUE]
  /\ UNCHANGED <<askVars, closeVars, leader, helpers, large>>

GroupStep(t) ==
  \/ \E end \in {"good", "bad"} : LeaderExits(t, end)
  \/ LeaderWritesTooMuch(t) \/ HelperStarts(t) \/ HelpersEnd(t) \/ GroupEdits(t)

\* The group commits its change, and what else there is: git status is clean
\* again, as it is at first.
GroupCommits(t) ==
  /\ Alive(t) /\ edited[t]
  /\ tree' = 0
  /\ UNCHANGED <<askVars, closeVars, groupVars>>

\* Somebody else works in the repository.
UserEdits ==
  /\ tree < MaxEdits
  /\ tree' = tree + 1
  /\ UNCHANGED <<askVars, closeVars, groupVars>>

-----------------------------------------------------------------------------

AgentNext ==
  \/ \E t \in Threads : AskBusy(t) \/ AskBegins(t) \/ AskStep(t) \/ GroupStep(t)
  \/ CloseStep
  \/ UserEdits

AgentSpec == AgentInit /\ [][AgentNext]_vars

\* A thread inside ask() goes on; nothing is assumed of the agent's processes,
\* of the user or of the thread in close().
LiveAgentSpec == AgentSpec /\ \A t \in Threads : WF_vars(AskStep(t))

\* The same, with an agent that may commit.
CommitSpec == AgentInit /\ [][AgentNext \/ \E t \in Threads : GroupCommits(t)]_vars

-----------------------------------------------------------------------------
(* Properties *)

\* The types of the variables.
AgentTypeOK ==
  /\ runLock \in Threads \cup {Nobody} /\ selfChild \in Threads \cup {Nobody}
  /\ closed \in BOOLEAN /\ closer \in {"open", "taken", "done"}
  /\ ending \in Threads \cup {Nobody}
  /\ ask \in [Threads -> {"idle", "look", "execute", "wait", "end", "ended", "compare"}]
  /\ before \in [Threads -> 0..MaxEdits] /\ tree \in 0..MaxEdits
  /\ failure \in [Threads -> Failures \cup {"none"}] /\ outcome \in [Threads -> Outcomes]
  /\ leader \in [Threads -> {"none", "running", "good", "bad"}]
  /\ helpers \in [Threads -> BOOLEAN] /\ large \in [Threads -> BOOLEAN]
  /\ edited \in [Threads -> BOOLEAN]

\* "One read-only child process at a time": no two groups are ever alive, and
\* a live one, helpers included, is that of the question that is running and
\* the one that close() would end.
OneAgentAtATime == \A t \in Threads : Alive(t) => runLock = t /\ selfChild = t

\* close(): "stop the running child, if any, and refuse each later run".  An
\* ask() that was let in before close() and spawns late must not slip past.
NoAgentAfterClose == closer = "done" => \A t \in Threads : ~Alive(t)

\* "The repository must stay unchanged": when the group of a question has
\* changed a file, the question is not answered, and no failure of the run
\* (a timeout, too much output, a bad exit) hides the change; only a git that
\* fails does, and says so.  It stays so after the answer: no helper that
\* outlives the leader can change a file once the tree was compared.
EditIsNeverHidden ==
  \A t \in Threads : edited[t] => outcome[t] \in {"none", "busy", "changed", "gitFailed"}

\* ask(): "Raise a `ChatFailure` for each break, also when the run changed a
\* file."  A run that changed a file gets no reply.
ChangeAlwaysRaises == \A t \in Threads : edited[t] => outcome[t] # "reply"

\* Every question comes to an end, whatever the agent does.
EveryAskEnds == \A t \in Threads : ask[t] # "idle" ~> ask[t] = "idle"
=============================================================================
