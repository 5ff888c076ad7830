--------------------------- MODULE SnapshotService --------------------------
(***************************************************************************)
(* What Workspace promises to the handler threads: there is one run at a   *)
(* time, a run ends once, and snapshot() answers with the snapshot of the  *)
(* run that is current when it answers, stamped as complete or incomplete  *)
(* as that run was, or with None.  It hides the files, the locks, the      *)
(* child process, the waiting thread and the cache.                        *)
(***************************************************************************)
EXTENDS Naturals

CONSTANTS Threads, NoSnapshot

VARIABLES run,      \* the current run
          state,    \* its explore state
          answer,   \* what snapshot() last answered to each thread
          open      \* close() has not removed the folder

serviceVars == <<run, state, answer, open>>

Ended == {"done", "incomplete", "failed"}

Init ==
  /\ run = 0 /\ state = "idle" /\ open = TRUE
  /\ answer = [t \in Threads |-> NoSnapshot]

Begin ==
  /\ open /\ state # "running"
  /\ run' = run + 1 /\ state' = "running"
  /\ UNCHANGED <<answer, open>>

End ==
  /\ state = "running" /\ state' \in Ended
  /\ UNCHANGED <<run, answer, open>>

\* The one snapshot that may be served now.
Current ==
  [of |-> run, completeness |-> IF state = "incomplete" THEN "incomplete" ELSE "complete"]

Answer(t) ==
  /\ state \in {"done", "incomplete"}
  /\ answer' = [answer EXCEPT ![t] = Current]
  /\ UNCHANGED <<run, state, open>>

\* None: no run has ended well, or the folder is gone.
AnswerNone(t) ==
  /\ state \in {"done", "incomplete"} => ~open
  /\ answer' = [answer EXCEPT ![t] = NoSnapshot]
  /\ UNCHANGED <<run, state, open>>

Close ==
  /\ open /\ open' = FALSE
  /\ UNCHANGED <<run, state, answer>>

Next == Begin \/ End \/ Close \/ \E t \in Threads : Answer(t) \/ AnswerNone(t)

Spec == Init /\ [][Next]_serviceVars
=============================================================================
