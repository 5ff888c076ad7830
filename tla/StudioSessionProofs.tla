------------------------- MODULE StudioSessionProofs ------------------------
(***************************************************************************)
(* Proofs about StudioSession, for any number of invocations.  What the    *)
(* lock protects holds also when servers end by Ctrl-C or by themselves;   *)
(* that there is one session needs that it is quiet.                       *)
(***************************************************************************)
EXTENDS StudioSession, TLAPS

\* Whoever holds the lock is on its way to serve, to stop or to give up; and
\* what it has read of the state file is still there, or has been removed.
LockInv ==
  /\ \A p \in Procs : at[p] \in Starting \cup Stopping => lock = p
  /\ \A p \in Procs : lock = p => at[p] \in Starting \cup Stopping \cup Ending
  /\ \A p \in Procs : at[p] \in {"start.probe", "stop.probe"} => file \in {read[p], NoState}
  /\ \A p \in Procs : at[p] \in {"stop.kill", "stop.wait"} =>
        file \in {[pid |-> read[p].pid, stopping |-> TRUE], NoState}

Lasting == Ending \cup {"serving"}

\* A server without the lock is named in the file, with the marker once it is
\* ending; a start that holds the lock has removed every other name.
ServerInv ==
  /\ \A p \in Procs : at[p] \in Lasting /\ lock # p =>
        file.pid = p /\ (at[p] = "serving" \/ file.stopping)
  /\ \A p \in Procs : at[p] \in {"start.workspace", "start.write"} => file = NoState
  /\ \A p \in Procs : at[p] = "start.serve" => file = [pid |-> p, stopping |-> FALSE]
  /\ \A p \in Procs : at[p] \in Ending /\ lock = p => file.pid \in {p, Nobody}
  /\ \A p \in Procs : at[p] = "stop.kill" => \E q \in Procs : 
        q = read[p].pid /\ at[q] \in Lasting \cup {"exited", "dead"}
  /\ \A p \in Procs : signal[p] => at[p] \in Lasting \cup {"exited"}
  /\ \A p \in Procs : signal[p] /\ at[p] = "serving" => file.stopping

-----------------------------------------------------------------------------

LEMMA QuietStays == [SessionNext]_vars => quiet' = quiet
  BY DEF SessionNext, vars

LEMMA SessionTypeInit == SessionInit => SessionTypeOK
  BY DEF SessionInit, SessionTypeOK, States, NoState, Places

LEMMA SessionTypeStep == SessionTypeOK /\ [SessionNext]_vars => SessionTypeOK'
<1> SUFFICES ASSUME SessionTypeOK, [SessionNext]_vars PROVE SessionTypeOK'
  OBVIOUS
<1>0. quiet' = quiet
  BY QuietStays
<1> USE <1>0
<1> USE SessionAssumption DEF SessionTypeOK, States, NoState, Places, Starting, Stopping, Ending, Go
<1>1. ASSUME NEW p \in Procs, Call(p) PROVE SessionTypeOK'
  BY <1>1 DEF Call
<1>2. ASSUME NEW p \in Procs, TakesLock(p) PROVE SessionTypeOK'
  BY <1>2 DEF TakesLock
<1>3. ASSUME NEW p \in Procs, LockTimesOut(p) PROVE SessionTypeOK'
  BY <1>3 DEF LockTimesOut, Exit, LockWithout
<1>4. ASSUME NEW p \in Procs, Reads(p) PROVE SessionTypeOK'
  BY <1>4 DEF Reads
<1>5. ASSUME NEW p \in Procs, StartFinds(p) PROVE SessionTypeOK'
  BY <1>5 DEF StartFinds, Exit, LockWithout, Found, Answers, Alive
<1>6. ASSUME NEW p \in Procs, StartFindsNone(p) PROVE SessionTypeOK'
  BY <1>6 DEF StartFindsNone, Forget, Found, Answers, Alive
<1>7. ASSUME NEW p \in Procs, StartsWorkspace(p) PROVE SessionTypeOK'
  BY <1>7 DEF StartsWorkspace
<1>8. ASSUME NEW p \in Procs, WritesState(p) PROVE SessionTypeOK'
  BY <1>8 DEF WritesState
<1>9. ASSUME NEW p \in Procs, Serves(p) PROVE SessionTypeOK'
  BY <1>9 DEF Serves
<1>10. ASSUME NEW p \in Procs, StartRaises(p) PROVE SessionTypeOK'
  BY <1>10 DEF StartRaises
<1>11. ASSUME NEW p \in Procs, Interrupted(p) PROVE SessionTypeOK'
  BY <1>11 DEF Interrupted
<1>12. ASSUME NEW p \in Procs, Closes(p) PROVE SessionTypeOK'
  BY <1>12 DEF Closes
<1>13. ASSUME NEW p \in Procs, CleansUp(p) PROVE SessionTypeOK'
  BY <1>13 DEF CleansUp
<1>14. ASSUME NEW p \in Procs, ForgetReads(p) PROVE SessionTypeOK'
  BY <1>14 DEF ForgetReads
<1>15. ASSUME NEW p \in Procs, ForgetUnlinks(p) PROVE SessionTypeOK'
  BY <1>15 DEF ForgetUnlinks, Exit, LockWithout
<1>16. ASSUME NEW p \in Procs, Dies(p) PROVE SessionTypeOK'
  BY <1>16 DEF Dies, LockWithout, Alive
<1>17. ASSUME NEW p \in Procs, StopFinds(p) PROVE SessionTypeOK'
  <2>1. CASE read[p].stopping
    BY <1>17, <2>1 DEF StopFinds
  <2>2. CASE ~read[p].stopping
    <3>1. read[p].pid \in Procs /\ file' = [pid |-> read[p].pid, stopping |-> TRUE]
      BY <1>17, <2>2 DEF StopFinds, Mark, Answers
    <3>2. file' \in States
      BY <3>1
    <3> QED
      BY <1>17, <3>2 DEF StopFinds
  <2> QED
    BY <2>1, <2>2
<1>18. ASSUME NEW p \in Procs, StopFindsNone(p) PROVE SessionTypeOK'
  BY <1>18 DEF StopFindsNone, Exit, LockWithout, Forget, Found, Answers, Alive
<1>19. ASSUME NEW p \in Procs, StopFindsStop(p) PROVE SessionTypeOK'
  BY <1>19 DEF StopFindsStop, Answers, Alive
<1>20. ASSUME NEW p \in Procs, StopKills(p) PROVE SessionTypeOK'
  BY <1>20 DEF StopKills, Alive
<1>21. ASSUME NEW p \in Procs, StopSeesEnd(p) PROVE SessionTypeOK'
  BY <1>21 DEF StopSeesEnd, Exit, LockWithout, Forget, Alive
<1>22. ASSUME NEW p \in Procs, StopGivesUp(p) PROVE SessionTypeOK'
  BY <1>22 DEF StopGivesUp, Exit, LockWithout
<1>23. ASSUME NEW p \in Procs, CtrlC(p) PROVE SessionTypeOK'
  BY <1>23 DEF CtrlC
<1>24. ASSUME NEW p \in Procs, IdleExit(p) PROVE SessionTypeOK'
  BY <1>24 DEF IdleExit
<1>25. CASE UNCHANGED vars
  BY <1>25 DEF vars
<1> QED
  BY <1>1, <1>2, <1>3, <1>4, <1>5, <1>6, <1>7, <1>8, <1>9, <1>10, <1>11, <1>12, <1>13, <1>14,
     <1>15, <1>16, <1>17, <1>18, <1>19, <1>20, <1>21, <1>22, <1>23, <1>24, <1>25
  DEF SessionNext, CommandStep, EndStep

LEMMA LockInit == SessionInit => LockInv
  BY SessionAssumption DEF SessionInit, LockInv, Starting, Stopping, Ending

LEMMA LockStep == SessionTypeOK /\ LockInv /\ [SessionNext]_vars => LockInv'
<1> SUFFICES ASSUME SessionTypeOK, LockInv, [SessionNext]_vars PROVE LockInv'
  OBVIOUS
<1> USE SessionAssumption
    DEF SessionTypeOK, LockInv, States, NoState, Places, Starting, Stopping, Ending, Go
<1>1. ASSUME NEW p \in Procs, Call(p) PROVE LockInv'
  BY <1>1 DEF Call
<1>2. ASSUME NEW p \in Procs, TakesLock(p) PROVE LockInv'
  BY <1>2 DEF TakesLock
<1>3. ASSUME NEW p \in Procs, LockTimesOut(p) PROVE LockInv'
  BY <1>3 DEF LockTimesOut, Exit, LockWithout
<1>4. ASSUME NEW p \in Procs, Reads(p) PROVE LockInv'
  BY <1>4 DEF Reads
<1>5. ASSUME NEW p \in Procs, StartFinds(p) PROVE LockInv'
  BY <1>5 DEF StartFinds, Exit, LockWithout, Found, Answers, Alive
<1>6. ASSUME NEW p \in Procs, StartFindsNone(p) PROVE LockInv'
  BY <1>6 DEF StartFindsNone, Forget, Found, Answers, Alive
<1>7. ASSUME NEW p \in Procs, StartsWorkspace(p) PROVE LockInv'
  BY <1>7 DEF StartsWorkspace
<1>8. ASSUME NEW p \in Procs, WritesState(p) PROVE LockInv'
  BY <1>8 DEF WritesState
<1>9. ASSUME NEW p \in Procs, Serves(p) PROVE LockInv'
  BY <1>9 DEF Serves
<1>10. ASSUME NEW p \in Procs, StartRaises(p) PROVE LockInv'
  BY <1>10 DEF StartRaises
<1>11. ASSUME NEW p \in Procs, Interrupted(p) PROVE LockInv'
  BY <1>11 DEF Interrupted
<1>12. ASSUME NEW p \in Procs, Closes(p) PROVE LockInv'
  BY <1>12 DEF Closes
<1>13. ASSUME NEW p \in Procs, CleansUp(p) PROVE LockInv'
  BY <1>13 DEF CleansUp
<1>14. ASSUME NEW p \in Procs, ForgetReads(p) PROVE LockInv'
  BY <1>14 DEF ForgetReads
<1>15. ASSUME NEW p \in Procs, ForgetUnlinks(p) PROVE LockInv'
  BY <1>15 DEF ForgetUnlinks, Exit, LockWithout
<1>16. ASSUME NEW p \in Procs, Dies(p) PROVE LockInv'
  BY <1>16 DEF Dies, LockWithout, Alive
<1>17. ASSUME NEW p \in Procs, StopFinds(p) PROVE LockInv'
  BY <1>17 DEF StopFinds, Mark, Answers, Alive
<1>18. ASSUME NEW p \in Procs, StopFindsNone(p) PROVE LockInv'
  BY <1>18 DEF StopFindsNone, Exit, LockWithout, Forget, Found, Answers, Alive
<1>19. ASSUME NEW p \in Procs, StopFindsStop(p) PROVE LockInv'
  BY <1>19 DEF StopFindsStop, Answers, Alive
<1>20. ASSUME NEW p \in Procs, StopKills(p) PROVE LockInv'
  BY <1>20 DEF StopKills, Alive
<1>21. ASSUME NEW p \in Procs, StopSeesEnd(p) PROVE LockInv'
  BY <1>21 DEF StopSeesEnd, Exit, LockWithout, Forget, Alive
<1>22. ASSUME NEW p \in Procs, StopGivesUp(p) PROVE LockInv'
  BY <1>22 DEF StopGivesUp, Exit, LockWithout
<1>23. ASSUME NEW p \in Procs, CtrlC(p) PROVE LockInv'
  BY <1>23 DEF CtrlC
<1>24. ASSUME NEW p \in Procs, IdleExit(p) PROVE LockInv'
  BY <1>24 DEF IdleExit
<1>25. CASE UNCHANGED vars
  BY <1>25 DEF vars
<1> QED
  BY <1>1, <1>2, <1>3, <1>4, <1>5, <1>6, <1>7, <1>8, <1>9, <1>10, <1>11, <1>12, <1>13, <1>14,
     <1>15, <1>16, <1>17, <1>18, <1>19, <1>20, <1>21, <1>22, <1>23, <1>24, <1>25
  DEF SessionNext, CommandStep, EndStep

LEMMA ServerInit == SessionInit => ServerInv
  BY SessionAssumption DEF SessionInit, ServerInv, Lasting, Ending

\* A stale file is removed only under the lock, and what names a server that
\* lives is not stale: it serves, or it carries the marker.
LEMMA ServerStep ==
  SessionTypeOK /\ LockInv /\ ServerInv /\ quiet /\ [SessionNext]_vars => ServerInv'
<1> SUFFICES ASSUME SessionTypeOK, LockInv, ServerInv, quiet, [SessionNext]_vars PROVE ServerInv'
  OBVIOUS
<1> USE SessionAssumption
    DEF SessionTypeOK, LockInv, ServerInv, Lasting, States, NoState, Places, Starting, Stopping,
        Ending, Go
<1>1. ASSUME NEW p \in Procs, Call(p) PROVE ServerInv'
  BY <1>1 DEF Call
<1>2. ASSUME NEW p \in Procs, TakesLock(p) PROVE ServerInv'
  BY <1>2 DEF TakesLock
<1>3. ASSUME NEW p \in Procs, LockTimesOut(p) PROVE ServerInv'
  BY <1>3 DEF LockTimesOut, Exit, LockWithout
<1>4. ASSUME NEW p \in Procs, Reads(p) PROVE ServerInv'
  BY <1>4 DEF Reads
<1>5. ASSUME NEW p \in Procs, StartFinds(p) PROVE ServerInv'
  BY <1>5 DEF StartFinds, Exit, LockWithout, Found, Answers, Alive
<1>6. ASSUME NEW p \in Procs, StartFindsNone(p) PROVE ServerInv'
  <2>1. lock = p /\ file \in {read[p], NoState} /\ ~Found(p)
    BY <1>6 DEF StartFindsNone
  <2>2. file' = NoState
    BY <1>6, <2>1 DEF StartFindsNone, Forget
  <2>3. \A q \in Procs : at[q] \notin Lasting
    <3> SUFFICES ASSUME NEW q \in Procs, at[q] \in Lasting PROVE FALSE
      OBVIOUS
    <3>1. file.pid = q /\ (at[q] = "serving" \/ file.stopping) /\ q # p
      BY <1>6, <2>1 DEF StartFindsNone
    <3>2. read[p] = file
      BY <2>1, <3>1
    <3> QED
      BY <2>1, <3>1, <3>2 DEF Found, Answers, Alive
  <2> QED
    BY <1>6, <2>1, <2>2, <2>3 DEF StartFindsNone
<1>7. ASSUME NEW p \in Procs, StartsWorkspace(p) PROVE ServerInv'
  BY <1>7 DEF StartsWorkspace
<1>8. ASSUME NEW p \in Procs, WritesState(p) PROVE ServerInv'
  <2>1. lock = p /\ file = NoState
    BY <1>8 DEF WritesState
  <2>2. \A q \in Procs : lock # q => at[q] \notin Lasting
    BY <2>1
  <2>3. \A q \in Procs : q # p => at[q] \notin Starting \cup Stopping
    BY <2>1
  <2>4. at[p] = "start.write" /\ file' = [pid |-> p, stopping |-> FALSE]
        /\ UNCHANGED <<lock, read, signal>>
    BY <1>8 DEF WritesState
  <2>5. at'[p] = "start.serve" /\ \A q \in Procs : q # p => at'[q] = at[q]
    BY <1>8 DEF WritesState
  <2>6. \A q \in Procs : lock = q => q = p
    BY <2>1
  <2>7. ~signal[p]
    BY <2>4
  <2> QED
    BY <2>1, <2>2, <2>3, <2>4, <2>5, <2>6, <2>7
<1>9. ASSUME NEW p \in Procs, Serves(p) PROVE ServerInv'
  BY <1>9 DEF Serves
<1>10. ASSUME NEW p \in Procs, StartRaises(p) PROVE ServerInv'
  BY <1>10 DEF StartRaises
<1>11. ASSUME NEW p \in Procs, Interrupted(p) PROVE ServerInv'
  BY <1>11 DEF Interrupted
<1>12. ASSUME NEW p \in Procs, Closes(p) PROVE ServerInv'
  BY <1>12 DEF Closes
<1>13. ASSUME NEW p \in Procs, CleansUp(p) PROVE ServerInv'
  BY <1>13 DEF CleansUp
<1>14. ASSUME NEW p \in Procs, ForgetReads(p) PROVE ServerInv'
  BY <1>14 DEF ForgetReads
<1>15. ASSUME NEW p \in Procs, ForgetUnlinks(p) PROVE ServerInv'
  BY <1>15 DEF ForgetUnlinks, Exit, LockWithout
<1>16. ASSUME NEW p \in Procs, Dies(p) PROVE ServerInv'
  BY <1>16 DEF Dies, LockWithout, Alive
<1>17. ASSUME NEW p \in Procs, StopFinds(p) PROVE ServerInv'
  BY <1>17 DEF StopFinds, Mark, Answers, Alive
<1>18. ASSUME NEW p \in Procs, StopFindsNone(p) PROVE ServerInv'
  BY <1>18 DEF StopFindsNone, Exit, LockWithout, Forget, Found, Answers, Alive
<1>19. ASSUME NEW p \in Procs, StopFindsStop(p) PROVE ServerInv'
  BY <1>19 DEF StopFindsStop, Answers, Alive
<1>20. ASSUME NEW p \in Procs, StopKills(p) PROVE ServerInv'
  BY <1>20 DEF StopKills, Alive
<1>21. ASSUME NEW p \in Procs, StopSeesEnd(p) PROVE ServerInv'
  BY <1>21 DEF StopSeesEnd, Exit, LockWithout, Forget, Alive
<1>22. ASSUME NEW p \in Procs, StopGivesUp(p) PROVE ServerInv'
  BY <1>22 DEF StopGivesUp, Exit, LockWithout
<1>23. ASSUME NEW p \in Procs PROVE ~CtrlC(p) /\ ~IdleExit(p)
  BY DEF CtrlC, IdleExit
<1>24. CASE UNCHANGED vars
  BY <1>24 DEF vars
<1> QED
  BY <1>1, <1>2, <1>3, <1>4, <1>5, <1>6, <1>7, <1>8, <1>9, <1>10, <1>11, <1>12, <1>13, <1>14,
     <1>15, <1>16, <1>17, <1>18, <1>19, <1>20, <1>21, <1>22, <1>23, <1>24
  DEF SessionNext, CommandStep, EndStep

-----------------------------------------------------------------------------

SessionInv == SessionTypeOK /\ LockInv /\ (quiet => ServerInv)

LEMMA SessionInvariance == SessionSpec => []SessionInv
<1>1. SessionInit => SessionInv
  BY SessionTypeInit, LockInit, ServerInit DEF SessionInv
<1>2. SessionInv /\ [SessionNext]_vars => SessionInv'
  BY QuietStays, SessionTypeStep, LockStep, ServerStep DEF SessionInv
<1> QED
  BY <1>1, <1>2, PTL DEF SessionSpec

(* The variables of the session protocol keep their types, also with       *)
(* servers that end by themselves.                                         *)
THEOREM SessionTypeCorrect == SessionSpec => []SessionTypeOK
<1>1. SessionInv => SessionTypeOK
  BY DEF SessionInv
<1> QED
  BY <1>1, SessionInvariance, PTL

(* start_studio(): for any number of invocations, sessions that end by     *)
(* --stop, a failing start or a crash never overlap.                       *)
THEOREM OneSession == SessionSpec => []OneSessionPerRoot
<1>1. SessionInv => OneSessionPerRoot
  BY SessionAssumption
  DEF SessionInv, SessionTypeOK, LockInv, ServerInv, OneSessionPerRoot, NoTwoSessions, Session, Lasting, Starting,
      Stopping, Ending, NoState
<1> QED
  BY <1>1, SessionInvariance, PTL

(* The state file names every server that serves, while it is quiet. *)
THEOREM Findable == SessionSpec => []ServerIsFindable
<1>1. SessionInv => ServerIsFindable
  BY DEF SessionInv, LockInv, ServerInv, ServerIsFindable, Lasting, Starting, Stopping, Ending
<1> QED
  BY <1>1, SessionInvariance, PTL

(* stop_studio(): a stop reports the end of a session only when there is   *)
(* none, while it is quiet.                                                *)
THEOREM StopIsTrue == SessionSpec => StopTellsTheTruth
<1>1. SessionInv /\ [SessionNext]_vars =>
        [quiet => \A p \in Procs : said[p] = "none" /\ said'[p] \in {"stopped", "notRunning"}
                    => \A q \in Procs : ~Session(q)]_vars
  <2> SUFFICES ASSUME SessionInv, SessionNext, quiet, NEW p \in Procs, said[p] = "none",
                      said'[p] \in {"stopped", "notRunning"}, NEW q \in Procs, Session(q)
               PROVE  FALSE
    BY DEF Session
  <2>1. PICK r \in Procs : Call(r) \/ CommandStep(r) \/ EndStep(r) \/ StartRaises(r) \/ Dies(r)
    BY DEF SessionNext, CtrlC, IdleExit
  <2> USE DEF SessionInv, SessionTypeOK
  <2>2. said' = said \/ \E what \in {"lockHeld", "reused", "otherScope", "stillStopping", "served",
                         "notRunning", "stopped"} : Exit(r, what)
    BY <2>1 DEF Call, CommandStep, EndStep, StartRaises, Dies, TakesLock, LockTimesOut, Reads,
      StartFinds, StartFindsNone, StartsWorkspace, WritesState, Serves, Interrupted, Closes,
      CleansUp, ForgetReads, ForgetUnlinks, StopFinds, StopFindsNone, StopFindsStop, StopKills,
      StopSeesEnd, StopGivesUp
  <2>3. r = p
    BY <2>2 DEF Exit
  <2>4. StopFindsNone(p) \/ StopSeesEnd(p)
    BY <2>1, <2>3 DEF Call, CommandStep, EndStep, StartRaises, Dies, TakesLock, LockTimesOut, Reads,
      StartFinds, StartFindsNone, StartsWorkspace, WritesState, Serves, Interrupted, Closes,
      CleansUp, ForgetReads, ForgetUnlinks, StopFinds, StopFindsNone, StopFindsStop, StopKills,
      StopSeesEnd, StopGivesUp, Exit
  <2>5. lock = p /\ q # p
    BY <2>4 DEF LockInv, StopFindsNone, StopSeesEnd, Stopping, Session
  <2>6. file.pid = q /\ (at[q] = "serving" \/ file.stopping) /\ Alive(q)
    BY <2>5 DEF LockInv, ServerInv, Session, Lasting, Starting, Ending, Alive
  <2>7. CASE StopFindsNone(p)
    BY <2>6, <2>7, SessionAssumption DEF StopFindsNone, LockInv, Found, Answers, NoState
  <2>8. CASE StopSeesEnd(p)
    BY <2>6, <2>8, SessionAssumption DEF StopSeesEnd, LockInv, NoState
  <2> QED
    BY <2>4, <2>7, <2>8
<1> QED
  BY <1>1, SessionInvariance, PTL DEF SessionSpec, StopTellsTheTruth

(* A marked session that lives blocks every start, also with Ctrl-C and    *)
(* idle exits.                                                             *)
THEOREM MarkerBlocks == SessionSpec => MarkedSessionBlocksStart
<1>1. SessionTypeOK /\ LockInv /\ [SessionNext]_vars =>
        [\A p \in Procs : at[p] = "start.probe" /\ at'[p] = "start.workspace"
           => ~(file.stopping /\ Alive(file.pid))]_vars
  <2> SUFFICES ASSUME SessionTypeOK, LockInv, SessionNext, NEW p \in Procs,
                      at[p] = "start.probe", at'[p] = "start.workspace"
               PROVE  ~(file.stopping /\ Alive(file.pid))
    OBVIOUS
  <2>1. StartFindsNone(p)
    BY DEF SessionNext, CommandStep, EndStep, Call, StartRaises, Dies, TakesLock,
      LockTimesOut, Reads, StartFinds, StartFindsNone, StartsWorkspace, WritesState, Serves,
      Interrupted, Closes, CleansUp, ForgetReads, ForgetUnlinks, StopFinds, StopFindsNone,
      StopFindsStop, StopKills, StopSeesEnd, StopGivesUp, CtrlC, IdleExit, Exit, Go, SessionTypeOK
  <2> QED
    BY <2>1 DEF StartFindsNone, LockInv, Found, NoState
<1>2. SessionInv => SessionTypeOK /\ LockInv
  BY DEF SessionInv
<1> QED
  BY <1>1, <1>2, SessionInvariance, PTL DEF SessionSpec, MarkedSessionBlocksStart
=============================================================================
