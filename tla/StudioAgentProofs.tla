-------------------------- MODULE StudioAgentProofs -------------------------
(***************************************************************************)
(* Proofs about StudioAgent, for any set of handler threads and any number *)
(* of edits.  GroupInv says whose group may be alive, EditInv what a       *)
(* change by a group leaves behind until the trees are compared.           *)
(***************************************************************************)
EXTENDS StudioAgent, TLAPS

\* A live group belongs to the one thread that holds _run, which is still
\* before the kill of _end(); and close() has taken it, once it is closing.
GroupInv ==
  /\ \A t \in Threads : ask[t] # "idle" <=> runLock = t
  /\ \A t \in Threads : Alive(t) => ask[t] \in {"wait", "end"}
  /\ \A t \in Threads : selfChild = t <=> ask[t] \in {"wait", "end", "ended"}
  /\ closed <=> closer # "open"
  /\ \A t \in Threads : closer = "taken" /\ Alive(t) => ending = t
  /\ closer = "done" => \A t \in Threads : ~Alive(t)

\* From the first edit of its group to the comparison, the tree of a question
\* is later than the one it has looked at; afterwards the outcome tells.
Marked(t) ==
  \/ /\ ask[t] \in {"wait", "end", "ended", "compare"}
     /\ before[t] < tree /\ outcome[t] = "none"
  \/ ask[t] = "idle" /\ outcome[t] \in {"busy", "changed", "gitFailed"}

EditInv ==
  /\ \A t \in Threads : ask[t] # "idle" => before[t] <= tree /\ outcome[t] = "none"
  /\ \A t \in Threads : before[t] <= tree
  /\ \A t \in Threads : edited[t] => Marked(t)

AgentInv == AgentTypeOK /\ GroupInv /\ EditInv

-----------------------------------------------------------------------------

LEMMA AgentTypeInit == AgentInit => AgentTypeOK
<1> SUFFICES ASSUME AgentInit PROVE AgentTypeOK
  OBVIOUS
<1>1. 0 \in 0..MaxEdits
  BY AgentAssumption
<1> QED
  BY <1>1 DEF AgentInit, AgentTypeOK, Outcomes, Failures

LEMMA AgentTypeStep == AgentTypeOK /\ [AgentNext]_vars => AgentTypeOK'
<1> SUFFICES ASSUME AgentTypeOK, [AgentNext]_vars PROVE AgentTypeOK'
  OBVIOUS
<1> USE AgentAssumption
    DEF AgentTypeOK, Outcomes, Failures, Running, Alive, askVars, closeVars, groupVars
<1>1. ASSUME NEW t \in Threads, AskBusy(t) PROVE AgentTypeOK'
  BY <1>1 DEF AskBusy, MayAsk
<1>2. ASSUME NEW t \in Threads, AskBegins(t) PROVE AgentTypeOK'
  BY <1>2 DEF AskBegins, MayAsk
<1>3. ASSUME NEW t \in Threads, AskCannotLook(t) PROVE AgentTypeOK'
  BY <1>3 DEF AskCannotLook, AskEnds
<1>4. ASSUME NEW t \in Threads, AskLooks(t) PROVE AgentTypeOK'
  BY <1>4 DEF AskLooks
<1>5. ASSUME NEW t \in Threads, ExecuteFails(t) PROVE AgentTypeOK'
  BY <1>5 DEF ExecuteFails
<1>6. ASSUME NEW t \in Threads, ExecuteSpawns(t) PROVE AgentTypeOK'
  BY <1>6 DEF ExecuteSpawns, MayExecute
<1>7. ASSUME NEW t \in Threads, WaitReturns(t) PROVE AgentTypeOK'
  BY <1>7 DEF WaitReturns
<1>8. ASSUME NEW t \in Threads, WaitTimesOut(t) PROVE AgentTypeOK'
  BY <1>8 DEF WaitTimesOut
<1>9. ASSUME NEW t \in Threads, ExecuteEnds(t) PROVE AgentTypeOK'
  BY <1>9 DEF ExecuteEnds, EndGroup
<1>10. ASSUME NEW t \in Threads, ExecuteJudges(t) PROVE AgentTypeOK'
  BY <1>10 DEF ExecuteJudges, Raised
<1>11. ASSUME NEW t \in Threads, AskCompares(t) PROVE AgentTypeOK'
  BY <1>11 DEF AskCompares, AskEnds, Verdict
<1>12. ASSUME NEW t \in Threads, NEW end \in {"good", "bad"}, LeaderExits(t, end) PROVE AgentTypeOK'
  BY <1>12 DEF LeaderExits
<1>13. ASSUME NEW t \in Threads, LeaderWritesTooMuch(t) PROVE AgentTypeOK'
  BY <1>13 DEF LeaderWritesTooMuch
<1>14. ASSUME NEW t \in Threads, HelperStarts(t) PROVE AgentTypeOK'
  BY <1>14 DEF HelperStarts
<1>15. ASSUME NEW t \in Threads, HelpersEnd(t) PROVE AgentTypeOK'
  BY <1>15 DEF HelpersEnd
<1>16. ASSUME NEW t \in Threads, GroupEdits(t) PROVE AgentTypeOK'
  BY <1>16 DEF GroupEdits
<1>17. CASE CloseTakes
  BY <1>17 DEF CloseTakes
<1>18. CASE CloseEnds
  <2>1. CASE ending = Nobody
    BY <1>18, <2>1 DEF CloseEnds
  <2>2. CASE ending # Nobody
    <3> DEFINE end == IF Running(ending) THEN "bad" ELSE leader[ending]
    <3>1. ending \in Threads /\ end \in {"none", "running", "good", "bad"}
      BY <2>2
    <3>2. /\ leader' = [leader EXCEPT ![ending] = end]
          /\ helpers' = [helpers EXCEPT ![ending] = FALSE]
      BY <1>18, <2>2 DEF CloseEnds, EndGroup
    <3> HIDE DEF end
    <3> QED
      BY <1>18, <3>1, <3>2 DEF CloseEnds
  <2> QED
    BY <2>1, <2>2
<1>19. CASE UserEdits
  BY <1>19 DEF UserEdits
<1>20. CASE UNCHANGED vars
  BY <1>20 DEF vars
<1> QED
  BY <1>1, <1>2, <1>3, <1>4, <1>5, <1>6, <1>7, <1>8, <1>9, <1>10, <1>11, 
     <1>12, <1>13, <1>14, <1>15, <1>16, <1>17, <1>18, <1>19, <1>20
  DEF AgentNext, AskStep, GroupStep, CloseStep

LEMMA GroupInit == AgentInit => GroupInv
  BY AgentAssumption DEF AgentInit, GroupInv, Alive, Running

LEMMA GroupInvStep == AgentTypeOK /\ GroupInv /\ [AgentNext]_vars => GroupInv'
<1> SUFFICES ASSUME AgentTypeOK, GroupInv, [AgentNext]_vars PROVE GroupInv'
  OBVIOUS
<1> USE AgentAssumption DEF AgentTypeOK, GroupInv, Running, Alive, askVars, closeVars, groupVars
<1>1. ASSUME NEW t \in Threads, AskBusy(t) PROVE GroupInv'
  BY <1>1 DEF AskBusy, MayAsk
<1>2. ASSUME NEW t \in Threads, AskBegins(t) PROVE GroupInv'
  BY <1>2 DEF AskBegins, MayAsk
<1>3. ASSUME NEW t \in Threads, AskCannotLook(t) PROVE GroupInv'
  BY <1>3 DEF AskCannotLook, AskEnds
<1>4. ASSUME NEW t \in Threads, AskLooks(t) PROVE GroupInv'
  BY <1>4 DEF AskLooks
<1>5. ASSUME NEW t \in Threads, ExecuteFails(t) PROVE GroupInv'
  BY <1>5 DEF ExecuteFails
<1>6. ASSUME NEW t \in Threads, ExecuteSpawns(t) PROVE GroupInv'
  BY <1>6 DEF ExecuteSpawns, MayExecute
<1>7. ASSUME NEW t \in Threads, WaitReturns(t) PROVE GroupInv'
  BY <1>7 DEF WaitReturns
<1>8. ASSUME NEW t \in Threads, WaitTimesOut(t) PROVE GroupInv'
  BY <1>8 DEF WaitTimesOut
<1>9. ASSUME NEW t \in Threads, ExecuteEnds(t) PROVE GroupInv'
  BY <1>9 DEF ExecuteEnds, EndGroup
<1>10. ASSUME NEW t \in Threads, ExecuteJudges(t) PROVE GroupInv'
  BY <1>10 DEF ExecuteJudges, Raised
<1>11. ASSUME NEW t \in Threads, AskCompares(t) PROVE GroupInv'
  BY <1>11 DEF AskCompares, AskEnds, Verdict
<1>12. ASSUME NEW t \in Threads, NEW end \in {"good", "bad"}, LeaderExits(t, end) PROVE GroupInv'
  BY <1>12 DEF LeaderExits
<1>13. ASSUME NEW t \in Threads, LeaderWritesTooMuch(t) PROVE GroupInv'
  BY <1>13 DEF LeaderWritesTooMuch
<1>14. ASSUME NEW t \in Threads, HelperStarts(t) PROVE GroupInv'
  BY <1>14 DEF HelperStarts
<1>15. ASSUME NEW t \in Threads, HelpersEnd(t) PROVE GroupInv'
  BY <1>15 DEF HelpersEnd
<1>16. ASSUME NEW t \in Threads, GroupEdits(t) PROVE GroupInv'
  BY <1>16 DEF GroupEdits
<1>17. CASE CloseTakes
  BY <1>17 DEF CloseTakes
<1>18. CASE CloseEnds
  BY <1>18 DEF CloseEnds, EndGroup
<1>19. CASE UserEdits
  BY <1>19 DEF UserEdits
<1>20. CASE UNCHANGED vars
  BY <1>20 DEF vars
<1> QED
  BY <1>1, <1>2, <1>3, <1>4, <1>5, <1>6, <1>7, <1>8, <1>9, <1>10, <1>11, 
     <1>12, <1>13, <1>14, <1>15, <1>16, <1>17, <1>18, <1>19, <1>20
  DEF AgentNext, AskStep, GroupStep, CloseStep

LEMMA EditInit == AgentInit => EditInv
  BY DEF AgentInit, EditInv

\* Only a group that is alive edits, and it is alive only while its question
\* waits or is being ended, so a question that looks or compares has no group.
LEMMA EditStep == AgentTypeOK /\ GroupInv /\ EditInv /\ [AgentNext]_vars => EditInv'
<1> SUFFICES ASSUME AgentTypeOK, GroupInv, EditInv, [AgentNext]_vars PROVE EditInv'
  OBVIOUS
<1> USE AgentAssumption
    DEF AgentTypeOK, GroupInv, EditInv, Marked, Running, Alive, askVars, closeVars, groupVars
<1>1. ASSUME NEW t \in Threads, AskBusy(t) PROVE EditInv'
  BY <1>1 DEF AskBusy, MayAsk
<1>2. ASSUME NEW t \in Threads, AskBegins(t) PROVE EditInv'
  BY <1>2 DEF AskBegins, MayAsk
<1>3. ASSUME NEW t \in Threads, AskCannotLook(t) PROVE EditInv'
  BY <1>3 DEF AskCannotLook, AskEnds
<1>4. ASSUME NEW t \in Threads, AskLooks(t) PROVE EditInv'
  BY <1>4 DEF AskLooks
<1>5. ASSUME NEW t \in Threads, ExecuteFails(t) PROVE EditInv'
  BY <1>5 DEF ExecuteFails
<1>6. ASSUME NEW t \in Threads, ExecuteSpawns(t) PROVE EditInv'
  BY <1>6 DEF ExecuteSpawns, MayExecute
<1>7. ASSUME NEW t \in Threads, WaitReturns(t) PROVE EditInv'
  BY <1>7 DEF WaitReturns
<1>8. ASSUME NEW t \in Threads, WaitTimesOut(t) PROVE EditInv'
  BY <1>8 DEF WaitTimesOut
<1>9. ASSUME NEW t \in Threads, ExecuteEnds(t) PROVE EditInv'
  BY <1>9 DEF ExecuteEnds, EndGroup
<1>10. ASSUME NEW t \in Threads, ExecuteJudges(t) PROVE EditInv'
  BY <1>10 DEF ExecuteJudges, Raised
<1>11. ASSUME NEW t \in Threads, AskCompares(t) PROVE EditInv'
  BY <1>11 DEF AskCompares, AskEnds, Verdict
<1>12. ASSUME NEW t \in Threads, NEW end \in {"good", "bad"}, LeaderExits(t, end) PROVE EditInv'
  BY <1>12 DEF LeaderExits
<1>13. ASSUME NEW t \in Threads, LeaderWritesTooMuch(t) PROVE EditInv'
  BY <1>13 DEF LeaderWritesTooMuch
<1>14. ASSUME NEW t \in Threads, HelperStarts(t) PROVE EditInv'
  BY <1>14 DEF HelperStarts
<1>15. ASSUME NEW t \in Threads, HelpersEnd(t) PROVE EditInv'
  BY <1>15 DEF HelpersEnd
<1>16. ASSUME NEW t \in Threads, GroupEdits(t) PROVE EditInv'
  BY <1>16 DEF GroupEdits
<1>17. CASE CloseTakes
  BY <1>17 DEF CloseTakes
<1>18. CASE CloseEnds
  BY <1>18 DEF CloseEnds, EndGroup
<1>19. CASE UserEdits
  BY <1>19 DEF UserEdits
<1>20. CASE UNCHANGED vars
  BY <1>20 DEF vars
<1> QED
  BY <1>1, <1>2, <1>3, <1>4, <1>5, <1>6, <1>7, <1>8, <1>9, <1>10, <1>11, 
     <1>12, <1>13, <1>14, <1>15, <1>16, <1>17, <1>18, <1>19, <1>20
  DEF AgentNext, AskStep, GroupStep, CloseStep

-----------------------------------------------------------------------------

LEMMA AgentInvariance == AgentSpec => []AgentInv
<1>1. AgentInit => AgentInv
  BY AgentTypeInit, GroupInit, EditInit DEF AgentInv
<1>2. AgentInv /\ [AgentNext]_vars => AgentInv'
  BY AgentTypeStep, GroupInvStep, EditStep DEF AgentInv
<1> QED
  BY <1>1, <1>2, PTL DEF AgentSpec

\* The variables of Agent keep their types.
(* The variables of Agent keep their types. *)
THEOREM AgentTypeCorrect == AgentSpec => []AgentTypeOK
<1>1. AgentInv => AgentTypeOK
  BY DEF AgentInv
<1> QED
  BY <1>1, AgentInvariance, PTL

\* Never two agents: every live group is that of the question that holds _run
\* and the one close() would end.
(* Agent.ask(): for any number of handler threads, a live agent group is   *)
(* that of the question holding _run and the one close() would end.        *)
THEOREM OneAgent == AgentSpec => []OneAgentAtATime
<1>1. AgentInv => OneAgentAtATime
  BY DEF AgentInv, GroupInv, OneAgentAtATime
<1> QED
  BY <1>1, AgentInvariance, PTL

\* After close() no process of an agent is alive, however its question and
\* close() were interleaved.
(* Agent.close(): no process of an agent survives it. *)
THEOREM NoAgentLeft == AgentSpec => []NoAgentAfterClose
<1>1. AgentInv => NoAgentAfterClose
  BY DEF AgentInv, GroupInv, NoAgentAfterClose
<1> QED
  BY <1>1, AgentInvariance, PTL

\* A change by the agent's group is never hidden by a reply or by another failure.
(* _tree_state() before and after: a change by the agent's group is never  *)
(* hidden by a reply or by another failure.                                *)
THEOREM NoHiddenEdit == AgentSpec => []EditIsNeverHidden
<1>1. AgentInv => EditIsNeverHidden
  BY DEF AgentInv, EditInv, Marked, EditIsNeverHidden
<1> QED
  BY <1>1, AgentInvariance, PTL
=============================================================================
