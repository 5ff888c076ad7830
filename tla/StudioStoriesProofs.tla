------------------------ MODULE StudioStoriesProofs ------------------------
(***************************************************************************)
(* Proofs about StudioWorkspace and about StudioStories, for any number of *)
(* threads, runs and requests.  The invariant of the workspace is built in *)
(* layers, each inductive relative to the ones before it: the types, who   *)
(* holds which lock, which run is under way, whose file and graph are      *)
(* visible, and what the checker caches.                                   *)
(*                                                                         *)
(* Every step of a request is a step of the workspace or leaves it alone,  *)
(* so that this invariant holds beside the requests.  To it comes one      *)
(* about time: the number of the run that wrote what a request has read    *)
(* never falls below that of the run the request began with, and never     *)
(* above that of the present run.                                          *)
(***************************************************************************)
EXTENDS StudioStories, TLAPS

-----------------------------------------------------------------------------
(* The workspace *)

\* The calls that hold _graph_lock, and those that also hold _lock.
HoldsGraph == {"start.graph", "start.begun", "start.unlinked", "snapshot.graph",
               "snapshot.read", "graph.graph"}
HoldsState == {"start.begun", "start.unlinked"}

LockInv ==
  /\ \A t \in Threads : call[t] \in HoldsGraph <=> graphLock = t
  /\ \A r \in Runs : waiter[r] = "locked" <=> graphLock = r
  /\ \A t \in Threads : call[t] \in HoldsState <=> stateLock = t
  /\ closer = "locked" <=> stateLock = Closer
  /\ \A t \in Threads : call[t] = "start.graph" => run < MaxRuns

Waiting(r) == waiter[r] \in {"waiting", "built", "locked"}

\* Only the current run has a child or a waiting thread, and only a start()
\* on its way stands between a spawned child and its waiting thread.
RunInv ==
  /\ child <= run /\ (explore = "running" => run \in Runs)
  /\ \A r \in Runs : r > run => proc[r] = "none" /\ waiter[r] = "none"
  /\ \A r \in Runs : Live(r) \/ Waiting(r) => r = run /\ r = child /\ explore = "running"
  /\ \A r \in Runs : waiter[r] \in {"built", "locked", "ended"} => proc[r] = "exited"
  /\ \A t \in Threads : call[t] \in HoldsState =>
        explore = "running" /\ proc[run] = "none" /\ waiter[run] = "none" /\ child # run
  /\ \A t \in Threads : call[t] = "start.spawned" =>
        explore = "running" /\ waiter[run] = "none" /\ child = run
  /\ \A t, u \in Threads : call[t] = "start.spawned" /\ call[u] = "start.spawned" => t = u
  /\ explore = "running" /\ child = run /\ (\A t \in Threads : call[t] # "start.spawned")
        => Waiting(run)
  /\ \A t \in Threads : closer # "open" => ~Starting(t)
  /\ closer \in {"reaped", "closed"} => \A r \in Runs : ~Live(r)

-----------------------------------------------------------------------------
(* Types *)

\* What a step of each kind leaves alone, for the leaves below.
LEMMA Disjoint == /\ Threads \cap Runs = {} /\ NoThread \notin Threads \cup Runs
                  /\ Closer \notin Threads \cup Runs \cup {NoThread}
                  /\ Runs \subseteq Nat /\ 0 \notin Runs /\ MaxRuns \in Nat
  BY ThreadsAssumption, MaxRunsAssumption DEF Runs

LEMMA TypeInit == Init => TypeOK
  BY Disjoint
  DEF Init, CheckInit, TypeOK, Files, NoFile, NoRun, NoSnapshot, Snapshots, ExploreStates, Calls, Runs

\* A file that decodes has been written by a run.
LEMMA ReadableHasWriter ==
  TypeOK /\ Readable => file.by \in Runs /\ file.by \in 0..MaxRuns /\ file.by # NoRun
<1> SUFFICES ASSUME TypeOK, Readable PROVE file.by \in Runs
  BY Disjoint DEF Runs, NoRun
<1> QED
  BY DEF TypeOK, Files, Readable, NoFile

\* What the steps write to the variables of a compound type.
LEMMA Written ==
  /\ NoRun \in 0..MaxRuns /\ Runs \subseteq 0..MaxRuns
  /\ NoFile \in Files /\ NoSnapshot \in Snapshots
  /\ \A r \in Runs, b \in BOOLEAN : [by |-> r, whole |-> b] \in Files
  /\ \A r \in Runs, c \in {"complete", "incomplete"} : [of |-> r, completeness |-> c] \in Snapshots
  /\ \A f \in Files : f.by \in 0..MaxRuns
  BY MaxRunsAssumption DEF Runs, NoRun, Files, NoFile, Snapshots, NoSnapshot

LEMMA TypeStep == TypeOK /\ LockInv /\ [Next]_vars => TypeOK'
<1> SUFFICES ASSUME TypeOK, LockInv, [Next]_vars PROVE TypeOK'
  OBVIOUS
<1>0. /\ Readable => file.by \in Runs /\ file.by \in 0..MaxRuns
      /\ \A t \in Threads : call[t] = "start.graph" => run < MaxRuns
  BY ReadableHasWriter DEF LockInv
<1> USE Written DEF TypeOK, Calls
<1>1. ASSUME NEW t \in Threads, CallStart(t) PROVE TypeOK'
  BY <1>1 DEF CallStart, runVars, procVars, waitVars, readVars
<1>2. ASSUME NEW t \in Threads, StartBusy(t) PROVE TypeOK'
  BY <1>2 DEF StartBusy, runVars, procVars, waitVars, readVars
<1>3. ASSUME NEW t \in Threads, StartBegin(t) PROVE TypeOK'
  <2>1. run' \in 0..MaxRuns
    BY <1>0, <1>3, MaxRunsAssumption DEF StartBegin
  <2>2. explore' \in ExploreStates /\ graph' \in 0..MaxRuns /\ stateLock' \in Threads
    BY <1>3 DEF StartBegin, GraphAtStart, ExploreStates
  <2>3. generation' \in Nat /\ cached' \in 0..MaxRuns /\ call' \in [Threads -> Calls]
    BY <1>3 DEF StartBegin, Clear
  <2> QED
    BY <1>3, <2>1, <2>2, <2>3 DEF StartBegin, procVars, waitVars, readVars
<1>4. ASSUME NEW t \in Threads, StartUnlink(t) PROVE TypeOK'
  BY <1>4 DEF StartUnlink, SnapshotAtStart, lockVars, procVars, waitVars, readVars
<1>5. ASSUME NEW t \in Threads, StartSpawn(t) PROVE TypeOK'
  BY <1>5 DEF StartSpawn, waitVars, readVars
<1>6. ASSUME NEW t \in Threads, StartPopenFails(t) PROVE TypeOK'
  BY <1>6 DEF StartPopenFails, runVars, procVars, waitVars, readVars
<1>7. ASSUME NEW t \in Threads, StartWaiter(t) PROVE TypeOK'
  BY <1>7 DEF StartWaiter, lockVars, runVars, procVars, readVars
<1>8. ASSUME NEW t \in Threads, CallSnapshot(t) PROVE TypeOK'
  BY <1>8 DEF CallSnapshot, runVars, procVars, waitVars, readVars
<1>9. ASSUME NEW t \in Threads, CallGraph(t) PROVE TypeOK'
  BY <1>9 DEF CallGraph, runVars, procVars, waitVars, readVars
<1>10. ASSUME NEW t \in Threads, SnapshotNotDone(t) PROVE TypeOK'
  BY <1>10 DEF SnapshotNotDone, runVars, procVars, waitVars
<1>11. ASSUME NEW t \in Threads, SnapshotDone(t) PROVE TypeOK'
  BY <1>11 DEF SnapshotDone, HoldWhileReading, runVars, procVars, waitVars
<1>12. ASSUME NEW t \in Threads, SnapshotRead(t) PROVE TypeOK'
  BY <1>0, <1>12 DEF SnapshotRead, Completeness, Readable, procVars, waitVars
<1>13. ASSUME NEW t \in Threads, GraphReturns(t) PROVE TypeOK'
  BY <1>0, <1>13 DEF GraphReturns, Readable, procVars, waitVars, readVars
<1>14. ASSUME NEW t \in Threads, CheckBegin(t),
           UNCHANGED <<lockVars, runVars, procVars, waitVars, readVars, closer>>
     PROVE  TypeOK'
  BY <1>14 DEF CheckBegin, lockVars, runVars, procVars, waitVars, readVars
<1>15. ASSUME NEW t \in Threads, CheckBuild(t),
           UNCHANGED <<lockVars, runVars, procVars, waitVars, readVars, closer>>
     PROVE  TypeOK'
  <2> HIDE Written DEF TypeOK
  <2>0. /\ session \in [Threads -> 0..MaxRuns] /\ call \in [Threads -> Calls]
        /\ Readable => file.by \in 0..MaxRuns
    BY <1>0 DEF TypeOK
  <2>1. session' \in [Threads -> 0..MaxRuns]
    <3> DEFINE by == file.by
    <3>1. \/ by \in 0..MaxRuns /\ session' = [session EXCEPT ![t] = by]
          \/ session' = session
      BY <1>15, <2>0 DEF CheckBuild
    <3> HIDE DEF by
    <3> QED
      BY <2>0, <3>1
  <2>2. call' \in [Threads -> Calls]
    BY <1>15, <2>0 DEF CheckBuild
  <2>3. UNCHANGED <<file, generation, cached, asked>>
    BY <1>15 DEF CheckBuild
  <2> QED
    BY <1>15, <2>1, <2>2, <2>3 DEF TypeOK, lockVars, runVars, procVars, waitVars, readVars
<1>16. ASSUME NEW t \in Threads, CheckInstall(t),
           UNCHANGED <<lockVars, runVars, procVars, waitVars, readVars, closer>>
     PROVE  TypeOK'
  <2>0. Installed(t) \in 0..MaxRuns
    BY DEF Installed
  <2>1. CASE generation = asked[t]
    <3>1. cached' = Installed(t) /\ session' = [session EXCEPT ![t] = Installed(t)]
      BY <1>16, <2>1 DEF CheckInstall
    <3> QED
      BY <1>16, <2>0, <3>1 DEF CheckInstall, lockVars, runVars, procVars, waitVars, readVars
  <2>2. CASE generation # asked[t]
    BY <1>16, <2>2 DEF CheckInstall, lockVars, runVars, procVars, waitVars, readVars
  <2> QED
    BY <2>1, <2>2
<1>17. ASSUME NEW t \in Threads, CheckReturn(t),
           UNCHANGED <<lockVars, runVars, procVars, waitVars, readVars, closer>>
     PROVE  TypeOK'
  BY <1>17 DEF CheckReturn, lockVars, runVars, procVars, waitVars, readVars
<1>18. ASSUME NEW r \in Runs, ExploreOpensFile(r) PROVE TypeOK'
  BY <1>18 DEF ExploreOpensFile, checkVars, lockVars, runVars, procVars, waitVars, readVars,
      Readable, Clear
<1>19. ASSUME NEW r \in Runs, ExploreWritesFile(r) PROVE TypeOK'
  BY <1>19 DEF ExploreWritesFile, checkVars, lockVars, runVars, procVars, waitVars, readVars,
      Readable, Clear
<1>20. ASSUME NEW r \in Runs, NEW code \in {0, 1, 2}, ExploreExits(r, code) PROVE TypeOK'
  BY <1>20 DEF ExploreExits, checkVars, lockVars, runVars, procVars, waitVars, readVars
<1>21. ASSUME NEW r \in Runs, WaiterReads(r) PROVE TypeOK'
  <2>0. file.by \in 0..MaxRuns
    OBVIOUS
  <2> HIDE DEF TypeOK
  <2> DEFINE b == IF exit[r] \in {0, 2} /\ Readable THEN file.by ELSE NoRun
  <2>1. b \in 0..MaxRuns
    BY <2>0, <1>0
  <2>2. built' = [built EXCEPT ![r] = b]
    BY <1>21 DEF WaiterReads
  <2> HIDE DEF b
  <2>3. /\ built \in [Runs -> 0..MaxRuns]
        /\ waiter \in [Runs -> {"none", "waiting", "built", "locked", "ended"}]
    BY DEF TypeOK
  <2>4. built' \in [Runs -> 0..MaxRuns]
    BY <2>1, <2>2, <2>3
  <2>5. waiter' \in [Runs -> {"none", "waiting", "built", "locked", "ended"}]
    BY <1>21, <2>3 DEF WaiterReads
  <2>6. UNCHANGED <<checkVars, lockVars, runVars, procVars, readVars, closer>>
    BY <1>21 DEF WaiterReads
  <2> QED
    BY <2>4, <2>5, <2>6 DEF TypeOK, checkVars, lockVars, runVars, procVars, readVars
<1>22. ASSUME NEW r \in Runs, WaiterLocks(r) PROVE TypeOK'
  BY <1>22 DEF WaiterLocks, checkVars, lockVars, runVars, procVars, waitVars, readVars,
      Readable, Clear
<1>23. ASSUME NEW r \in Runs, WaiterPublishes(r) PROVE TypeOK'
  <2>1. explore' \in ExploreStates /\ graph' \in 0..MaxRuns
    BY <1>23 DEF WaiterPublishes, ExploreStates
  <2>2. generation' \in Nat /\ cached' \in 0..MaxRuns
    BY <1>23 DEF WaiterPublishes, Clear
  <2>3. waiter' \in [Runs -> {"none", "waiting", "built", "locked", "ended"}]
    BY <1>23 DEF WaiterPublishes
  <2> QED
    BY <1>23, <2>1, <2>2, <2>3 DEF WaiterPublishes, procVars, readVars
<1>24. CASE CloseLocks
  BY <1>24 DEF CloseLocks, checkVars, lockVars, runVars, procVars, waitVars, readVars
<1>25. CASE CloseEndsChild
  BY <1>25 DEF CloseEndsChild, checkVars, lockVars, runVars, procVars, waitVars, readVars
<1>26. CASE CloseRemoves
  BY <1>26 DEF CloseRemoves, checkVars, lockVars, runVars, procVars, waitVars, readVars
<1>27. CASE UNCHANGED vars
  BY <1>27 DEF vars, checkVars, lockVars, runVars, procVars, waitVars, readVars
<1> HIDE Written DEF TypeOK
<1> QED
  BY <1>1, <1>2, <1>3, <1>4, <1>5, <1>6, <1>7, <1>8, <1>9, <1>10, <1>11, <1>12, <1>13, <1>14,
      <1>15, <1>16, <1>17, <1>18, <1>19, <1>20, <1>21, <1>22, <1>23, <1>24, <1>25, <1>26, <1>27
  DEF Next, StartStep, ReadStep, CheckCall, CheckStep, ExploreStep, WaiterStep, CloseStep


LEMMA LockInit == Init => LockInv
  BY Disjoint
  DEF Init, CheckInit, LockInv, HoldsGraph, HoldsState, Free

LEMMA LockStep == TypeOK /\ LockInv /\ RunInv /\ [Next]_vars => LockInv'
<1> SUFFICES ASSUME TypeOK, LockInv, RunInv, [Next]_vars PROVE LockInv'
  OBVIOUS
<1>0. /\ call \in [Threads -> Calls]
      /\ waiter \in [Runs -> {"none", "waiting", "built", "locked", "ended"}]
      /\ run \in 0..MaxRuns /\ child \in 0..MaxRuns
  BY DEF TypeOK
<1> USE <1>0, Disjoint DEF LockInv, HoldsGraph, HoldsState, Free
<1>1. ASSUME NEW t \in Threads, CallStart(t) PROVE LockInv'
  BY <1>1
  DEF CallStart, runVars, procVars, waitVars, readVars
<1>2. ASSUME NEW t \in Threads, StartBusy(t) PROVE LockInv'
  BY <1>2
  DEF StartBusy, runVars, procVars, waitVars, readVars
<1>3. ASSUME NEW t \in Threads, StartBegin(t) PROVE LockInv'
  BY <1>3
  DEF StartBegin, MayStart, GraphAtStart, Clear, procVars, waitVars, readVars
<1>4. ASSUME NEW t \in Threads, StartUnlink(t) PROVE LockInv'
  BY <1>4
  DEF StartUnlink, SnapshotAtStart, lockVars, procVars, waitVars, readVars
<1>5. ASSUME NEW t \in Threads, StartSpawn(t) PROVE LockInv'
  BY <1>5
  DEF StartSpawn, waitVars, readVars
<1>6. ASSUME NEW t \in Threads, StartPopenFails(t) PROVE LockInv'
  BY <1>6
  DEF StartPopenFails, runVars, procVars, waitVars, readVars
<1>7. ASSUME NEW t \in Threads, StartWaiter(t) PROVE LockInv'
  BY <1>7
  DEF StartWaiter, lockVars, runVars, procVars, readVars, RunInv
<1>8. ASSUME NEW t \in Threads, CallSnapshot(t) PROVE LockInv'
  BY <1>8
  DEF CallSnapshot, runVars, procVars, waitVars, readVars
<1>9. ASSUME NEW t \in Threads, CallGraph(t) PROVE LockInv'
  BY <1>9
  DEF CallGraph, runVars, procVars, waitVars, readVars
<1>10. ASSUME NEW t \in Threads, SnapshotNotDone(t) PROVE LockInv'
  BY <1>10
  DEF SnapshotNotDone, runVars, procVars, waitVars
<1>11. ASSUME NEW t \in Threads, SnapshotDone(t) PROVE LockInv'
  BY <1>11
  DEF SnapshotDone, HoldWhileReading, runVars, procVars, waitVars
<1>12. ASSUME NEW t \in Threads, SnapshotRead(t) PROVE LockInv'
  BY <1>12
  DEF SnapshotRead, procVars, waitVars
<1>13. ASSUME NEW t \in Threads, GraphReturns(t) PROVE LockInv'
  BY <1>13
  DEF GraphReturns, procVars, waitVars, readVars
<1>14. ASSUME NEW t \in Threads, CheckBegin(t),
           UNCHANGED <<lockVars, runVars, procVars, waitVars, readVars, closer>>
     PROVE  LockInv'
  BY <1>14
  DEF CheckBegin, lockVars, runVars, procVars, waitVars, readVars
<1>15. ASSUME NEW t \in Threads, CheckBuild(t),
           UNCHANGED <<lockVars, runVars, procVars, waitVars, readVars, closer>>
     PROVE  LockInv'
  BY <1>15
  DEF CheckBuild, lockVars, runVars, procVars, waitVars, readVars
<1>16. ASSUME NEW t \in Threads, CheckInstall(t),
           UNCHANGED <<lockVars, runVars, procVars, waitVars, readVars, closer>>
     PROVE  LockInv'
  BY <1>16
  DEF CheckInstall, lockVars, runVars, procVars, waitVars, readVars
<1>17. ASSUME NEW t \in Threads, CheckReturn(t),
           UNCHANGED <<lockVars, runVars, procVars, waitVars, readVars, closer>>
     PROVE  LockInv'
  BY <1>17
  DEF CheckReturn, lockVars, runVars, procVars, waitVars, readVars
<1>18. ASSUME NEW r \in Runs, ExploreOpensFile(r) PROVE LockInv'
  BY <1>18
  DEF ExploreOpensFile, lockVars, runVars, waitVars, readVars
<1>19. ASSUME NEW r \in Runs, ExploreWritesFile(r) PROVE LockInv'
  BY <1>19
  DEF ExploreWritesFile, lockVars, runVars, waitVars, readVars
<1>20. ASSUME NEW r \in Runs, NEW code \in {0, 1, 2}, ExploreExits(r, code) PROVE LockInv'
  BY <1>20
  DEF ExploreExits, checkVars, lockVars, runVars, waitVars, readVars
<1>21. ASSUME NEW r \in Runs, WaiterReads(r) PROVE LockInv'
  BY <1>21
  DEF WaiterReads, checkVars, lockVars, runVars, procVars, readVars
<1>22. ASSUME NEW r \in Runs, WaiterLocks(r) PROVE LockInv'
  BY <1>22
  DEF WaiterLocks, checkVars, runVars, procVars, readVars
<1>23. ASSUME NEW r \in Runs, WaiterPublishes(r) PROVE LockInv'
  BY <1>23
  DEF WaiterPublishes, Clear, procVars, readVars
<1>24. CASE CloseLocks
  BY <1>24
  DEF CloseLocks, checkVars, runVars, procVars, waitVars, readVars
<1>25. CASE CloseEndsChild
  BY <1>25
  DEF CloseEndsChild, checkVars, runVars, procVars, waitVars, readVars
<1>26. CASE CloseRemoves
  BY <1>26
  DEF CloseRemoves, lockVars, runVars, procVars, waitVars, readVars
<1>27. CASE UNCHANGED vars
  BY <1>27
  DEF vars, checkVars, lockVars, runVars, procVars, waitVars, readVars
<1> HIDE <1>0, Disjoint DEF LockInv, HoldsGraph, HoldsState, Free
<1> QED
  BY <1>1, <1>2, <1>3, <1>4, <1>5, <1>6, <1>7, <1>8, <1>9, <1>10, <1>11, <1>12, <1>13,
     <1>14, <1>15, <1>16, <1>17, <1>18, <1>19, <1>20, <1>21, <1>22, <1>23, <1>24, <1>25, <1>26,
        <1>27
  DEF Next, StartStep, ReadStep, CheckCall, CheckStep, ExploreStep, WaiterStep, CloseStep

LEMMA RunInit == Init => RunInv
  BY Disjoint
  DEF Init, CheckInit, RunInv, HoldsState, Live, Waiting, Starting, NoRun

LEMMA RunInvStep == TypeOK /\ LockInv /\ RunInv /\ [Next]_vars => RunInv'
<1> SUFFICES ASSUME TypeOK, LockInv, RunInv, [Next]_vars PROVE RunInv'
  OBVIOUS
<1>0. /\ call \in [Threads -> Calls]
      /\ proc \in [Runs -> {"none", "scanning", "writing", "wrote", "exited"}]
      /\ waiter \in [Runs -> {"none", "waiting", "built", "locked", "ended"}]
      /\ run \in 0..MaxRuns /\ child \in 0..MaxRuns
  BY DEF TypeOK
<1> USE <1>0, Disjoint DEF LockInv, HoldsGraph, HoldsState, Free, RunInv, Live, Waiting,
   Starting, Runs
<1>1. ASSUME NEW t \in Threads, CallStart(t) PROVE RunInv'
  BY <1>1
  DEF CallStart, runVars, procVars, waitVars, readVars
<1>2. ASSUME NEW t \in Threads, StartBusy(t) PROVE RunInv'
  BY <1>2
  DEF StartBusy, runVars, procVars, waitVars, readVars
<1>3. ASSUME NEW t \in Threads, StartBegin(t) PROVE RunInv'
  BY <1>3
  DEF StartBegin, MayStart, GraphAtStart, Clear, procVars, waitVars, readVars
<1>4. ASSUME NEW t \in Threads, StartUnlink(t) PROVE RunInv'
  BY <1>4
  DEF StartUnlink, SnapshotAtStart, lockVars, procVars, waitVars, readVars
<1>5. ASSUME NEW t \in Threads, StartSpawn(t) PROVE RunInv'
  BY <1>5
  DEF StartSpawn, waitVars, readVars
<1>6. ASSUME NEW t \in Threads, StartPopenFails(t) PROVE RunInv'
  BY <1>6
  DEF StartPopenFails, runVars, procVars, waitVars, readVars
<1>7. ASSUME NEW t \in Threads, StartWaiter(t) PROVE RunInv'
  BY <1>7
  DEF StartWaiter, lockVars, runVars, procVars, readVars
<1>8. ASSUME NEW t \in Threads, CallSnapshot(t) PROVE RunInv'
  BY <1>8
  DEF CallSnapshot, runVars, procVars, waitVars, readVars
<1>9. ASSUME NEW t \in Threads, CallGraph(t) PROVE RunInv'
  BY <1>9
  DEF CallGraph, runVars, procVars, waitVars, readVars
<1>10. ASSUME NEW t \in Threads, SnapshotNotDone(t) PROVE RunInv'
  BY <1>10
  DEF SnapshotNotDone, runVars, procVars, waitVars
<1>11. ASSUME NEW t \in Threads, SnapshotDone(t) PROVE RunInv'
  BY <1>11
  DEF SnapshotDone, HoldWhileReading, runVars, procVars, waitVars
<1>12. ASSUME NEW t \in Threads, SnapshotRead(t) PROVE RunInv'
  BY <1>12
  DEF SnapshotRead, procVars, waitVars
<1>13. ASSUME NEW t \in Threads, GraphReturns(t) PROVE RunInv'
  BY <1>13
  DEF GraphReturns, procVars, waitVars, readVars
<1>14. ASSUME NEW t \in Threads, CheckBegin(t),
           UNCHANGED <<lockVars, runVars, procVars, waitVars, readVars, closer>>
     PROVE  RunInv'
  BY <1>14
  DEF CheckBegin, lockVars, runVars, procVars, waitVars, readVars
<1>15. ASSUME NEW t \in Threads, CheckBuild(t),
           UNCHANGED <<lockVars, runVars, procVars, waitVars, readVars, closer>>
     PROVE  RunInv'
  BY <1>15
  DEF CheckBuild, lockVars, runVars, procVars, waitVars, readVars
<1>16. ASSUME NEW t \in Threads, CheckInstall(t),
           UNCHANGED <<lockVars, runVars, procVars, waitVars, readVars, closer>>
     PROVE  RunInv'
  BY <1>16
  DEF CheckInstall, lockVars, runVars, procVars, waitVars, readVars
<1>17. ASSUME NEW t \in Threads, CheckReturn(t),
           UNCHANGED <<lockVars, runVars, procVars, waitVars, readVars, closer>>
     PROVE  RunInv'
  BY <1>17
  DEF CheckReturn, lockVars, runVars, procVars, waitVars, readVars
<1>18. ASSUME NEW r \in Runs, ExploreOpensFile(r) PROVE RunInv'
  BY <1>18
  DEF ExploreOpensFile, lockVars, runVars, waitVars, readVars
<1>19. ASSUME NEW r \in Runs, ExploreWritesFile(r) PROVE RunInv'
  BY <1>19
  DEF ExploreWritesFile, lockVars, runVars, waitVars, readVars
<1>20. ASSUME NEW r \in Runs, NEW code \in {0, 1, 2}, ExploreExits(r, code) PROVE RunInv'
  BY <1>20
  DEF ExploreExits, checkVars, lockVars, runVars, waitVars, readVars
<1>21. ASSUME NEW r \in Runs, WaiterReads(r) PROVE RunInv'
  BY <1>21
  DEF WaiterReads, checkVars, lockVars, runVars, procVars, readVars, ChildEnded
<1>22. ASSUME NEW r \in Runs, WaiterLocks(r) PROVE RunInv'
  BY <1>22
  DEF WaiterLocks, checkVars, runVars, procVars, readVars
<1>23. ASSUME NEW r \in Runs, WaiterPublishes(r) PROVE RunInv'
  BY <1>23
  DEF WaiterPublishes, Clear, procVars, readVars
<1>24. CASE CloseLocks
  BY <1>24
  DEF CloseLocks, checkVars, runVars, procVars, waitVars, readVars
<1>25. CASE CloseEndsChild
  BY <1>25
  DEF CloseEndsChild, checkVars, runVars, procVars, waitVars, readVars, NoRun
<1>26. CASE CloseRemoves
  BY <1>26
  DEF CloseRemoves, lockVars, runVars, procVars, waitVars, readVars
<1>27. CASE UNCHANGED vars
  BY <1>27
  DEF vars, checkVars, lockVars, runVars, procVars, waitVars, readVars
<1> HIDE <1>0, Disjoint DEF LockInv, HoldsGraph, HoldsState, Free, RunInv, Live, Waiting,
        Starting, Runs
<1> QED
  BY <1>1, <1>2, <1>3, <1>4, <1>5, <1>6, <1>7, <1>8, <1>9, <1>10, <1>11, <1>12, <1>13,
     <1>14, <1>15, <1>16, <1>17, <1>18, <1>19, <1>20, <1>21, <1>22, <1>23, <1>24, <1>25, <1>26,
        <1>27
  DEF Next, StartStep, ReadStep, CheckCall, CheckStep, ExploreStep, WaiterStep, CloseStep


\* start() has replaced the run and not yet unlinked the file of the last one.
Replacing == stateLock \in Threads /\ call[stateLock] = "start.begun"

FileOf(r) == file = [by |-> r, whole |-> TRUE] \/ closer = "closed"

\* A Snapshot says of a finished run what its exit code says.
Honest(s) ==
  s # NoSnapshot =>
    s.of \in Runs /\ proc[s.of] = "exited" /\ (s.completeness = "incomplete" <=> exit[s.of] = 2)

\* The file, the graph and the Snapshot are those of the current run, except
\* while start() replaces it under both locks.
FileInv ==
  /\ file.by \in {NoRun, run} \/ (Replacing /\ file.by = run - 1)
  /\ \A r \in Runs : waiter[r] \in {"built", "locked"} =>
        built[r] = NoRun \/ (built[r] = r /\ exit[r] \in {0, 2} /\ FileOf(r))
  /\ explore \in Done =>
        /\ run \in Runs /\ graph = run /\ FileOf(run)
        /\ proc[run] = "exited" /\ exit[run] \in {0, 2}
        /\ explore = "incomplete" <=> exit[run] = 2
  /\ explore \notin Done => graph = NoRun
  /\ snapshot # NoSnapshot =>
        \/ explore \in Done /\ snapshot.of = run
        \/ Replacing /\ snapshot.of = run - 1
  /\ Honest(snapshot) /\ \A t \in Threads : Honest(result[t])
  /\ \A t \in Threads : call[t] = "snapshot.read" => explore \in Done /\ seen[t] = explore

LEMMA FileInit == Init => FileInv
  BY Disjoint
  DEF Init, CheckInit, FileInv, Honest, Done, NoFile, NoRun

LEMMA FileStep == TypeOK /\ LockInv /\ RunInv /\ FileInv /\ [Next]_vars => FileInv'
<1> SUFFICES ASSUME TypeOK, LockInv, RunInv, FileInv, [Next]_vars PROVE FileInv'
  OBVIOUS
<1>0. /\ call \in [Threads -> Calls]
      /\ proc \in [Runs -> {"none", "scanning", "writing", "wrote", "exited"}]
      /\ waiter \in [Runs -> {"none", "waiting", "built", "locked", "ended"}]
      /\ exit \in [Runs -> {0, 1, 2}] /\ built \in [Runs -> 0..MaxRuns]
      /\ seen \in [Threads -> ExploreStates] /\ result \in [Threads -> Snapshots]
      /\ run \in 0..MaxRuns /\ child \in 0..MaxRuns
      /\ Readable => file.by \in Runs
  BY ReadableHasWriter DEF TypeOK
<1> USE <1>0, Disjoint DEF LockInv, HoldsGraph, HoldsState, Free, RunInv, Live, Waiting, Runs,
   NoRun,
        FileInv, FileOf, Honest, Replacing, Done
<1>1. ASSUME NEW t \in Threads, CallStart(t) PROVE FileInv'
  BY <1>1
  DEF CallStart, runVars, procVars, waitVars, readVars
<1>2. ASSUME NEW t \in Threads, StartBusy(t) PROVE FileInv'
  BY <1>2
  DEF StartBusy, runVars, procVars, waitVars, readVars
<1>3. ASSUME NEW t \in Threads, StartBegin(t) PROVE FileInv'
  BY <1>3
  DEF StartBegin, MayStart, GraphAtStart, Clear, procVars, waitVars, readVars
<1>4. ASSUME NEW t \in Threads, StartUnlink(t) PROVE FileInv'
  BY <1>4
  DEF StartUnlink, SnapshotAtStart, lockVars, procVars, waitVars, readVars, NoFile
<1>5. ASSUME NEW t \in Threads, StartSpawn(t) PROVE FileInv'
  BY <1>5
  DEF StartSpawn, waitVars, readVars
<1>6. ASSUME NEW t \in Threads, StartPopenFails(t) PROVE FileInv'
  BY <1>6
  DEF StartPopenFails, runVars, procVars, waitVars, readVars
<1>7. ASSUME NEW t \in Threads, StartWaiter(t) PROVE FileInv'
  BY <1>7
  DEF StartWaiter, lockVars, runVars, procVars, readVars
<1>8. ASSUME NEW t \in Threads, CallSnapshot(t) PROVE FileInv'
  BY <1>8
  DEF CallSnapshot, runVars, procVars, waitVars, readVars
<1>9. ASSUME NEW t \in Threads, CallGraph(t) PROVE FileInv'
  BY <1>9
  DEF CallGraph, runVars, procVars, waitVars, readVars
<1>10. ASSUME NEW t \in Threads, SnapshotNotDone(t) PROVE FileInv'
  BY <1>10
  DEF SnapshotNotDone, runVars, procVars, waitVars
<1>11. ASSUME NEW t \in Threads, SnapshotDone(t) PROVE FileInv'
  BY <1>11
  DEF SnapshotDone, HoldWhileReading, runVars, procVars, waitVars
<1>12. ASSUME NEW t \in Threads, SnapshotRead(t) PROVE FileInv'
  BY <1>12
  DEF SnapshotRead, procVars, waitVars, Completeness, Readable, NoSnapshot
<1>13. ASSUME NEW t \in Threads, GraphReturns(t) PROVE FileInv'
  BY <1>13
  DEF GraphReturns, procVars, waitVars, readVars
<1>14. ASSUME NEW t \in Threads, CheckBegin(t),
           UNCHANGED <<lockVars, runVars, procVars, waitVars, readVars, closer>>
     PROVE  FileInv'
  BY <1>14
  DEF CheckBegin, lockVars, runVars, procVars, waitVars, readVars
<1>15. ASSUME NEW t \in Threads, CheckBuild(t),
           UNCHANGED <<lockVars, runVars, procVars, waitVars, readVars, closer>>
     PROVE  FileInv'
  BY <1>15
  DEF CheckBuild, lockVars, runVars, procVars, waitVars, readVars
<1>16. ASSUME NEW t \in Threads, CheckInstall(t),
           UNCHANGED <<lockVars, runVars, procVars, waitVars, readVars, closer>>
     PROVE  FileInv'
  BY <1>16
  DEF CheckInstall, lockVars, runVars, procVars, waitVars, readVars
<1>17. ASSUME NEW t \in Threads, CheckReturn(t),
           UNCHANGED <<lockVars, runVars, procVars, waitVars, readVars, closer>>
     PROVE  FileInv'
  BY <1>17
  DEF CheckReturn, lockVars, runVars, procVars, waitVars, readVars
<1>18. ASSUME NEW r \in Runs, ExploreOpensFile(r) PROVE FileInv'
  BY <1>18
  DEF ExploreOpensFile, lockVars, runVars, waitVars, readVars
<1>19. ASSUME NEW r \in Runs, ExploreWritesFile(r) PROVE FileInv'
  BY <1>19
  DEF ExploreWritesFile, lockVars, runVars, waitVars, readVars
<1>20. ASSUME NEW r \in Runs, NEW code \in {0, 1, 2}, ExploreExits(r, code) PROVE FileInv'
  BY <1>20
  DEF ExploreExits, checkVars, lockVars, runVars, waitVars, readVars
<1>21. ASSUME NEW r \in Runs, WaiterReads(r) PROVE FileInv'
  <2>1. waiter[r] = "waiting" /\ r = run /\ ~Replacing
    BY <1>21 DEF WaiterReads
  <2>2. Readable => file.by = r /\ file = [by |-> r, whole |-> TRUE]
    <3>1. Readable => file \in [by : Runs, whole : BOOLEAN] /\ file.whole
      BY DEF TypeOK, Files, NoFile, Readable
    <3> QED
      BY <2>1, <3>1
  <2>3. CASE exit[r] \in {0, 2} /\ Readable
    <3>1. built' = [built EXCEPT ![r] = r]
      BY <1>21, <2>2, <2>3 DEF WaiterReads
    <3> QED
      BY <1>21, <2>2, <2>3, <3>1 DEF WaiterReads, checkVars, lockVars, runVars, procVars,
          readVars
  <2>4. CASE ~(exit[r] \in {0, 2} /\ Readable)
    <3>1. built' = [built EXCEPT ![r] = NoRun]
      BY <1>21, <2>4 DEF WaiterReads
    <3> QED
      BY <1>21, <3>1 DEF WaiterReads, checkVars, lockVars, runVars, procVars, readVars
  <2> QED
    BY <2>3, <2>4
<1>22. ASSUME NEW r \in Runs, WaiterLocks(r) PROVE FileInv'
  BY <1>22
  DEF WaiterLocks, checkVars, runVars, procVars, readVars
<1>23. ASSUME NEW r \in Runs, WaiterPublishes(r) PROVE FileInv'
  BY <1>23
  DEF WaiterPublishes, Clear, procVars, readVars
<1>24. CASE CloseLocks
  BY <1>24
  DEF CloseLocks, checkVars, runVars, procVars, waitVars, readVars
<1>25. CASE CloseEndsChild
  BY <1>25
  DEF CloseEndsChild, checkVars, runVars, procVars, waitVars, readVars
<1>26. CASE CloseRemoves
  BY <1>26
  DEF CloseRemoves, lockVars, runVars, procVars, waitVars, readVars, NoFile
<1>27. CASE UNCHANGED vars
  BY <1>27
  DEF vars, checkVars, lockVars, runVars, procVars, waitVars, readVars
<1> HIDE <1>0, Disjoint DEF LockInv, HoldsGraph, HoldsState, Free, RunInv, Live, Waiting, Runs,
        NoRun, FileInv, FileOf, Honest, Replacing, Done
<1> QED
  BY <1>1, <1>2, <1>3, <1>4, <1>5, <1>6, <1>7, <1>8, <1>9, <1>10, <1>11, <1>12, <1>13,
     <1>14, <1>15, <1>16, <1>17, <1>18, <1>19, <1>20, <1>21, <1>22, <1>23, <1>24, <1>25, <1>26,
        <1>27
  DEF Next, StartStep, ReadStep, CheckCall, CheckStep, ExploreStep, WaiterStep, CloseStep

\* A build that no invalidation has overtaken is a build of the current run,
\* once that run has ended; so is what is cached.
CacheInv ==
  /\ \A t \in Threads : asked[t] <= generation
  /\ explore # "running" => cached \in {NoRun, run}
  /\ \A t \in Threads :
        call[t] = "check.install" /\ asked[t] = generation /\ explore # "running" => session[t] = run

LEMMA CacheInit == Init => CacheInv
  BY DEF Init, CheckInit, CacheInv

LEMMA CacheStep == TypeOK /\ RunInv /\ LockInv /\ FileInv /\ CacheInv /\ [Next]_vars => CacheInv'
<1> SUFFICES ASSUME TypeOK, LockInv, RunInv, FileInv, CacheInv, [Next]_vars PROVE CacheInv'
  OBVIOUS
<1>0. /\ call \in [Threads -> Calls]
      /\ session \in [Threads -> 0..MaxRuns] /\ asked \in [Threads -> Nat]
      /\ generation \in Nat /\ run \in 0..MaxRuns
      /\ Readable => file.by \in Runs
      /\ explore # "running" => file.by \in {NoRun, run}
      /\ \A r \in Runs : Waiting(r) => explore = "running"
      /\ \A t \in Threads : call[t] \in {"start.begun", "start.unlinked",
         "start.spawned"} => explore = "running"
  BY ReadableHasWriter, Disjoint DEF TypeOK, LockInv, RunInv, FileInv, Replacing, HoldsState
<1> USE <1>0, Disjoint DEF Waiting, NoRun, CacheInv
<1>1. ASSUME NEW t \in Threads, CallStart(t) PROVE CacheInv'
  BY <1>1
  DEF CallStart, runVars, procVars, waitVars, readVars
<1>2. ASSUME NEW t \in Threads, StartBusy(t) PROVE CacheInv'
  BY <1>2
  DEF StartBusy, runVars, procVars, waitVars, readVars
<1>3. ASSUME NEW t \in Threads, StartBegin(t) PROVE CacheInv'
  BY <1>3
  DEF StartBegin, MayStart, GraphAtStart, Clear, procVars, waitVars, readVars
<1>4. ASSUME NEW t \in Threads, StartUnlink(t) PROVE CacheInv'
  BY <1>4
  DEF StartUnlink, SnapshotAtStart, lockVars, procVars, waitVars, readVars
<1>5. ASSUME NEW t \in Threads, StartSpawn(t) PROVE CacheInv'
  BY <1>5
  DEF StartSpawn, waitVars, readVars
<1>6. ASSUME NEW t \in Threads, StartPopenFails(t) PROVE CacheInv'
  BY <1>6
  DEF StartPopenFails, runVars, procVars, waitVars, readVars
<1>7. ASSUME NEW t \in Threads, StartWaiter(t) PROVE CacheInv'
  BY <1>7
  DEF StartWaiter, lockVars, runVars, procVars, readVars
<1>8. ASSUME NEW t \in Threads, CallSnapshot(t) PROVE CacheInv'
  BY <1>8
  DEF CallSnapshot, runVars, procVars, waitVars, readVars
<1>9. ASSUME NEW t \in Threads, CallGraph(t) PROVE CacheInv'
  BY <1>9
  DEF CallGraph, runVars, procVars, waitVars, readVars
<1>10. ASSUME NEW t \in Threads, SnapshotNotDone(t) PROVE CacheInv'
  BY <1>10
  DEF SnapshotNotDone, runVars, procVars, waitVars
<1>11. ASSUME NEW t \in Threads, SnapshotDone(t) PROVE CacheInv'
  BY <1>11
  DEF SnapshotDone, HoldWhileReading, runVars, procVars, waitVars
<1>12. ASSUME NEW t \in Threads, SnapshotRead(t) PROVE CacheInv'
  BY <1>12
  DEF SnapshotRead, procVars, waitVars
<1>13. ASSUME NEW t \in Threads, GraphReturns(t) PROVE CacheInv'
  BY <1>13
  DEF GraphReturns, procVars, waitVars, readVars
<1>14. ASSUME NEW t \in Threads, CheckBegin(t),
           UNCHANGED <<lockVars, runVars, procVars, waitVars, readVars, closer>>
     PROVE  CacheInv'
  BY <1>14
  DEF CheckBegin, lockVars, runVars, procVars, waitVars, readVars
<1>15. ASSUME NEW t \in Threads, CheckBuild(t),
           UNCHANGED <<lockVars, runVars, procVars, waitVars, readVars, closer>>
     PROVE  CacheInv'
  BY <1>15
  DEF CheckBuild, lockVars, runVars, procVars, waitVars, readVars
<1>16. ASSUME NEW t \in Threads, CheckInstall(t),
           UNCHANGED <<lockVars, runVars, procVars, waitVars, readVars, closer>>
     PROVE  CacheInv'
  BY <1>16
  DEF CheckInstall, lockVars, runVars, procVars, waitVars, readVars, Installed
<1>17. ASSUME NEW t \in Threads, CheckReturn(t),
           UNCHANGED <<lockVars, runVars, procVars, waitVars, readVars, closer>>
     PROVE  CacheInv'
  BY <1>17
  DEF CheckReturn, lockVars, runVars, procVars, waitVars, readVars
<1>18. ASSUME NEW r \in Runs, ExploreOpensFile(r) PROVE CacheInv'
  BY <1>18
  DEF ExploreOpensFile, lockVars, runVars, waitVars, readVars
<1>19. ASSUME NEW r \in Runs, ExploreWritesFile(r) PROVE CacheInv'
  BY <1>19
  DEF ExploreWritesFile, lockVars, runVars, waitVars, readVars
<1>20. ASSUME NEW r \in Runs, NEW code \in {0, 1, 2}, ExploreExits(r, code) PROVE CacheInv'
  BY <1>20
  DEF ExploreExits, checkVars, lockVars, runVars, waitVars, readVars
<1>21. ASSUME NEW r \in Runs, WaiterReads(r) PROVE CacheInv'
  BY <1>21
  DEF WaiterReads, checkVars, lockVars, runVars, procVars, readVars
<1>22. ASSUME NEW r \in Runs, WaiterLocks(r) PROVE CacheInv'
  BY <1>22
  DEF WaiterLocks, checkVars, runVars, procVars, readVars
<1>23. ASSUME NEW r \in Runs, WaiterPublishes(r) PROVE CacheInv'
  BY <1>23
  DEF WaiterPublishes, Clear, procVars, readVars
<1>24. CASE CloseLocks
  BY <1>24
  DEF CloseLocks, checkVars, runVars, procVars, waitVars, readVars
<1>25. CASE CloseEndsChild
  BY <1>25
  DEF CloseEndsChild, checkVars, runVars, procVars, waitVars, readVars
<1>26. CASE CloseRemoves
  BY <1>26
  DEF CloseRemoves, lockVars, runVars, procVars, waitVars, readVars
<1>27. CASE UNCHANGED vars
  BY <1>27
  DEF vars, checkVars, lockVars, runVars, procVars, waitVars, readVars
<1> HIDE <1>0, Disjoint DEF Waiting, NoRun, CacheInv
<1> QED
  BY <1>1, <1>2, <1>3, <1>4, <1>5, <1>6, <1>7, <1>8, <1>9, <1>10, <1>11, <1>12, <1>13,
     <1>14, <1>15, <1>16, <1>17, <1>18, <1>19, <1>20, <1>21, <1>22, <1>23, <1>24, <1>25, <1>26,
        <1>27
  DEF Next, StartStep, ReadStep, CheckCall, CheckStep, ExploreStep, WaiterStep, CloseStep

-----------------------------------------------------------------------------
(* The theorems *)

IInv == TypeOK /\ LockInv /\ RunInv /\ FileInv /\ CacheInv

\* The inductive invariant: start(), _wait, the readers, the checker and
\* close() keep the five layers, in every order of their steps.
(* The layers together hold in every state of the workspace. *)
THEOREM Invariance == Spec => []IInv
<1>1. Init => IInv
  BY TypeInit, LockInit, RunInit, FileInit, CacheInit DEF IInv
<1>2. IInv /\ [Next]_vars => IInv'
  BY TypeStep, LockStep, RunInvStep, FileStep, CacheStep DEF IInv
<1> QED
  BY <1>1, <1>2, PTL DEF Spec

\* Every variable of Workspace and of the checker keeps its type.
(* The variables of Workspace keep their types. *)
THEOREM TypeCorrect == Spec => []TypeOK
<1>1. IInv => TypeOK
  BY DEF IInv
<1> QED
  BY <1>1, Invariance, PTL

\* Workspace never has two explore children, nor a child of a run that its
\* state calls ended.
(* start(): for any number of threads and runs, a live explore child is    *)
(* that of the current, running run.                                       *)
THEOREM OneExplore == Spec => []OneExploreAtATime
<1>1. IInv => OneExploreAtATime
  BY DEF IInv, RunInv, OneExploreAtATime
<1> QED
  BY <1>1, Invariance, PTL

\* A spawned child has its _wait thread, and no earlier run still has one.
(* start(): a spawned child always has its waiting thread. *)
THEOREM WaitedFor == Spec => []RunningIsWaitedFor
<1>1. IInv => RunningIsWaitedFor
  BY DEF IInv, RunInv, RunningIsWaitedFor, Waiting, Starting
<1> QED
  BY <1>1, Invariance, PTL

\* What an ended run serves - graph, Snapshot and file - is its own.
(* _wait(): file, graph and Snapshot of an ended run are all its own. *)
THEOREM ServedWhole == Spec => []EndedRunIsServedWhole
<1>1. IInv => EndedRunIsServedWhole
  <2> SUFFICES ASSUME IInv PROVE EndedRunIsServedWhole
    OBVIOUS
  <2>1. explore \in Done => ~Replacing
    BY DEF IInv, RunInv, LockInv, Replacing, HoldsState, Done
  <2> QED
    BY <2>1 DEF IInv, FileInv, EndedRunIsServedWhole, FileOf, NoSnapshot
<1> QED
  BY <1>1, Invariance, PTL

\* No Snapshot, cached or answered, is called complete when its run was not.
(* snapshot(): the completeness of a Snapshot is that of the run it was    *)
(* read from.                                                              *)
THEOREM HonestCompleteness == Spec => []CompletenessIsHonest
<1>1. IInv => CompletenessIsHonest
  BY DEF IInv, FileInv, Honest, CompletenessIsHonest
<1> QED
  BY <1>1, Invariance, PTL

\* The story checker's cache outlives no run.
(* _story_checker(): a session of an earlier run is never cached. *)
THEOREM CacheCurrent == Spec => []CachedSessionIsCurrent
<1>1. IInv => CachedSessionIsCurrent
  BY DEF IInv, CacheInv, CachedSessionIsCurrent
<1> QED
  BY <1>1, Invariance, PTL

\* close() leaves no explore child behind.
(* close(): no explore child is left behind. *)
THEOREM NoOrphan == Spec => []NoChildAfterClose
<1>1. IInv => NoChildAfterClose
  BY DEF IInv, RunInv, NoChildAfterClose
<1> QED
  BY <1>1, Invariance, PTL

-----------------------------------------------------------------------------
(* Refinement *)

Served == [Service!Next]_Service!serviceVars

LEMMA ServiceStep == IInv /\ [Next]_vars => Served
<1> SUFFICES ASSUME IInv, [Next]_vars PROVE Served
  OBVIOUS
<1> USE DEF Served, Service!serviceVars
<1>1. ASSUME NEW t \in Threads, CallStart(t) PROVE Served
  BY <1>1
  DEF CallStart, runVars, procVars, waitVars, readVars
<1>2. ASSUME NEW t \in Threads, StartBusy(t) PROVE Served
  BY <1>2
  DEF StartBusy, runVars, procVars, waitVars, readVars
<1>3. ASSUME NEW t \in Threads, StartBegin(t) PROVE Served
  <2>1. closer = "open"
    BY <1>3 DEF IInv, RunInv, StartBegin, Starting
  <2> QED
    BY <1>3, <2>1 DEF StartBegin, MayStart, readVars, Service!Next, Service!Begin
<1>4. ASSUME NEW t \in Threads, StartUnlink(t) PROVE Served
  BY <1>4
  DEF StartUnlink, SnapshotAtStart, lockVars, procVars, waitVars, readVars
<1>5. ASSUME NEW t \in Threads, StartSpawn(t) PROVE Served
  BY <1>5
  DEF StartSpawn, waitVars, readVars
<1>6. ASSUME NEW t \in Threads, StartPopenFails(t) PROVE Served
  BY <1>6
  DEF StartPopenFails, runVars, procVars, waitVars, readVars
<1>7. ASSUME NEW t \in Threads, StartWaiter(t) PROVE Served
  BY <1>7
  DEF StartWaiter, lockVars, runVars, procVars, readVars
<1>8. ASSUME NEW t \in Threads, CallSnapshot(t) PROVE Served
  BY <1>8
  DEF CallSnapshot, runVars, procVars, waitVars, readVars
<1>9. ASSUME NEW t \in Threads, CallGraph(t) PROVE Served
  BY <1>9
  DEF CallGraph, runVars, procVars, waitVars, readVars
<1>10. ASSUME NEW t \in Threads, SnapshotNotDone(t) PROVE Served
  BY <1>10
  DEF SnapshotNotDone, runVars, procVars, waitVars, Done, Service!Next, Service!AnswerNone
<1>11. ASSUME NEW t \in Threads, SnapshotDone(t) PROVE Served
  BY <1>11
  DEF SnapshotDone, HoldWhileReading, runVars, procVars, waitVars
<1>12. ASSUME NEW t \in Threads, SnapshotRead(t) PROVE Served
  <2>1. explore \in Done /\ seen[t] = explore /\ call[t] = "snapshot.read" /\ ~Replacing
    BY <1>12, Disjoint DEF SnapshotRead, IInv, FileInv, RunInv, LockInv, HoldsState, Replacing,
        Done
  <2>2. UNCHANGED <<run, explore, closer>> /\ result' = [result EXCEPT ![t] = snapshot']
    BY <1>12 DEF SnapshotRead
  <2>3. CASE snapshot # NoSnapshot
    <3>1. snapshot' = snapshot
      BY <1>12, <2>3 DEF SnapshotRead
    <3>2. snapshot \in [of : Runs, completeness : {"complete", "incomplete"}]
      BY <2>3 DEF IInv, TypeOK, Snapshots
    <3>3. snapshot.of = run /\ (snapshot.completeness = "incomplete" <=> explore = "incomplete")
      BY <2>1, <2>3 DEF IInv, FileInv, Honest
    <3>4. snapshot = Service!Current
      BY <3>2, <3>3 DEF Service!Current
    <3> QED
      BY <2>1, <2>2, <3>1, <3>4 DEF Service!Next, Service!Answer, Done
  <2>4. CASE snapshot = NoSnapshot /\ Readable
    <3>1. file.by = run
      BY <2>1, <2>4, ReadableHasWriter DEF IInv, FileInv
    <3>2. snapshot' = Service!Current
      BY <1>12, <2>1, <2>4, <3>1 DEF SnapshotRead, Completeness, Service!Current, Done
    <3> QED
      BY <2>1, <2>2, <3>2 DEF Service!Next, Service!Answer, Done
  <2>5. CASE snapshot = NoSnapshot /\ ~Readable
    <3>1. closer = "closed"
      BY <2>1, <2>5 DEF IInv, FileInv, FileOf, Readable
    <3>2. snapshot' = NoSnapshot
      BY <1>12, <2>5 DEF SnapshotRead
    <3> QED
      BY <2>2, <3>1, <3>2 DEF Service!Next, Service!AnswerNone
  <2> QED
    BY <2>3, <2>4, <2>5
<1>13. ASSUME NEW t \in Threads, GraphReturns(t) PROVE Served
  BY <1>13
  DEF GraphReturns, procVars, waitVars, readVars
<1>14. ASSUME NEW t \in Threads, CheckBegin(t),
           UNCHANGED <<lockVars, runVars, procVars, waitVars, readVars, closer>>
     PROVE  Served
  BY <1>14
  DEF CheckBegin, lockVars, runVars, procVars, waitVars, readVars
<1>15. ASSUME NEW t \in Threads, CheckBuild(t),
           UNCHANGED <<lockVars, runVars, procVars, waitVars, readVars, closer>>
     PROVE  Served
  BY <1>15
  DEF CheckBuild, lockVars, runVars, procVars, waitVars, readVars
<1>16. ASSUME NEW t \in Threads, CheckInstall(t),
           UNCHANGED <<lockVars, runVars, procVars, waitVars, readVars, closer>>
     PROVE  Served
  BY <1>16
  DEF CheckInstall, lockVars, runVars, procVars, waitVars, readVars
<1>17. ASSUME NEW t \in Threads, CheckReturn(t),
           UNCHANGED <<lockVars, runVars, procVars, waitVars, readVars, closer>>
     PROVE  Served
  BY <1>17
  DEF CheckReturn, lockVars, runVars, procVars, waitVars, readVars
<1>18. ASSUME NEW r \in Runs, ExploreOpensFile(r) PROVE Served
  BY <1>18
  DEF ExploreOpensFile, lockVars, runVars, waitVars, readVars
<1>19. ASSUME NEW r \in Runs, ExploreWritesFile(r) PROVE Served
  BY <1>19
  DEF ExploreWritesFile, lockVars, runVars, waitVars, readVars
<1>20. ASSUME NEW r \in Runs, NEW code \in {0, 1, 2}, ExploreExits(r, code) PROVE Served
  BY <1>20
  DEF ExploreExits, checkVars, lockVars, runVars, waitVars, readVars
<1>21. ASSUME NEW r \in Runs, WaiterReads(r) PROVE Served
  BY <1>21
  DEF WaiterReads, checkVars, lockVars, runVars, procVars, readVars
<1>22. ASSUME NEW r \in Runs, WaiterLocks(r) PROVE Served
  BY <1>22
  DEF WaiterLocks, checkVars, runVars, procVars, readVars
<1>23. ASSUME NEW r \in Runs, WaiterPublishes(r) PROVE Served
  <2>1. explore = "running"
    BY <1>23 DEF IInv, RunInv, Waiting, WaiterPublishes
  <2> QED
    BY <1>23, <2>1 DEF WaiterPublishes, readVars, Service!Next, Service!End, Service!Ended
<1>24. CASE CloseLocks
  BY <1>24
  DEF CloseLocks, checkVars, runVars, procVars, waitVars, readVars
<1>25. CASE CloseEndsChild
  BY <1>25
  DEF CloseEndsChild, checkVars, runVars, procVars, waitVars, readVars
<1>26. CASE CloseRemoves
  BY <1>26
  DEF CloseRemoves, lockVars, runVars, procVars, waitVars, readVars, Service!Next, Service!Close
<1>27. CASE UNCHANGED vars
  BY <1>27
  DEF vars, checkVars, lockVars, runVars, procVars, waitVars, readVars
<1> HIDE DEF Served, Service!serviceVars
<1> QED
  BY <1>1, <1>2, <1>3, <1>4, <1>5, <1>6, <1>7, <1>8, <1>9, <1>10, <1>11, <1>12, <1>13,
     <1>14, <1>15, <1>16, <1>17, <1>18, <1>19, <1>20, <1>21, <1>22, <1>23, <1>24, <1>25, <1>26,
        <1>27
  DEF Next, StartStep, ReadStep, CheckCall, CheckStep, ExploreStep, WaiterStep, CloseStep

\* Workspace keeps the promise of the snapshot service, for any number of
\* threads and runs: every step is a step of the service or leaves it alone.
(* Workspace implements the abstract snapshot service. *)
THEOREM Implements == Spec => ServiceSpec
<1>1. Init => Service!Init
  BY DEF Init, Service!Init
<1>2. Spec => [][Served]_vars
  <2>1. IInv /\ [Next]_vars => [Served]_vars
    BY ServiceStep
  <2> QED
    BY <2>1, Invariance, PTL DEF Spec
<1>3. [Served]_vars => Served
  BY DEF Served, Service!serviceVars, vars, runVars, readVars
<1> QED
  BY <1>1, <1>2, <1>3, PTL DEF Spec, ServiceSpec, Service!Spec, Served


-----------------------------------------------------------------------------
(* Requests make the calls of Workspace, and no other *)

LEMMA StoriesInitIsInit == StoriesInit => Init
  BY DEF StoriesInit

LEMMA StepIsStep == [StoriesNext]_allVars => [Next]_vars
<1> SUFFICES ASSUME [StoriesNext]_allVars PROVE [Next]_vars
  OBVIOUS
<1> USE DEF Handlers
<1>1. ASSUME NEW h \in Handlers, HandlerStep(h) PROVE [Next]_vars
  <2>1. CASE \/ GetFile(h) \/ GetRefused(h) \/ GetAccepted(h) \/ GetDraft(h) \/ GetGraphSent(h)
             \/ ChatGot(h) \/ ChatAnswered(h) \/ ChatStory(h) \/ ChatCompare(h) \/ ChatDraft(h)
             \/ ChatConfirm(h) \/ ChatDropped(h)
    <3>1. UNCHANGED vars
      BY <2>1 DEF GetFile, GetRefused, GetAccepted, GetDraft, GetGraphSent, ChatGot,
                  ChatAnswered, ChatStory, ChatCompare, ChatDraft, ChatConfirm, ChatDropped
    <3> QED
      BY <3>1
  <2>2. CASE GetCheck(h) \/ GetChecked(h) \/ ChatCheck(h) \/ ChatChecked(h)
    <3>1. CheckCall(h)
      BY <2>2 DEF GetCheck, GetChecked, ChatCheck, ChatChecked, CheckCall, CheckStep
    <3> QED
      BY <3>1 DEF Next
  <2>3. CASE GetGraph(h) \/ ChatSnapshot(h)
    BY <2>3 DEF GetGraph, ChatSnapshot, Next
  <2>4. CASE InCall(h)
    BY <2>4 DEF InCall, CheckCall, CheckStep, Next
  <2> QED
    BY <1>1, <2>1, <2>2, <2>3, <2>4 DEF HandlerStep
<1>2. ASSUME NEW h \in Handlers, NEW point, Arrive(h, point) PROVE [Next]_vars
  BY <1>2 DEF Arrive
<1>3. CASE MainStep
  BY <1>3, MainAssumption DEF MainStep, Next
<1>4. ASSUME NEW r \in Runs, RunStep(r) PROVE [Next]_vars
  BY <1>4 DEF RunStep, Next
<1>5. CASE CloseStep
  BY <1>5 DEF Next
<1>6. CASE UNCHANGED allVars
  BY <1>6 DEF allVars
<1> QED
  BY <1>1, <1>2, <1>3, <1>4, <1>5, <1>6 DEF StoriesNext, Stopped

\* What is proved of Workspace holds while requests are answered.
(* The requests of the server use Workspace as its specification says. *)
THEOREM StoriesKeepWorkspace == StoriesSpec => Spec
  BY StoriesInitIsInit, StepIsStep, PTL DEF StoriesSpec, Spec

LEMMA StoriesInvariance == StoriesSpec => []IInv
  BY StoriesKeepWorkspace, Invariance, PTL

-----------------------------------------------------------------------------
(* The present, and what is not older than a run *)

Bounded == cached <= run /\ \A t \in Threads : session[t] <= run

\* Nothing that can still be read, cached or installed was written before r.
Fresh(r) ==
  /\ r <= run
  /\ file # NoFile => file.by >= r
  /\ cached # NoRun => cached >= r
  /\ \A t \in Threads : call[t] = "check.install" /\ asked[t] = generation => session[t] >= r

\* A step outside the checker: nothing is checked or installed, a cleared
\* cache has a new generation, and only the child of the present run writes.
Quiet ==
  /\ run' \in {run, run + 1} /\ run' \in Nat
  /\ file' = file \/ file' = NoFile \/ file'.by = run
  /\ UNCHANGED <<asked, session>>
  /\ \/ UNCHANGED <<cached, generation>>
     \/ cached' = NoRun /\ generation' = generation + 1
  /\ \A t \in Threads : call'[t] = "check.install" => call[t] = "check.install"

Checks(t) == CheckStep(t) /\ UNCHANGED <<file, run>>

LEMMA Rely ==
  ASSUME IInv, [Next]_vars
  PROVE  Quiet \/ \E t \in Threads : Checks(t)
<1>0. /\ run \in Nat /\ call \in [Threads -> Calls]
      /\ \A r \in Runs : Live(r) => r = run
  BY MaxRunsAssumption DEF IInv, TypeOK, RunInv
<1>1. ASSUME NEW t \in Threads, CallStart(t) PROVE Quiet
  BY <1>0, <1>1 DEF CallStart, Quiet, runVars
<1>2. ASSUME NEW t \in Threads, StartBusy(t) PROVE Quiet
  BY <1>0, <1>2 DEF StartBusy, Quiet, runVars
<1>3. ASSUME NEW t \in Threads, StartBegin(t) PROVE Quiet
  BY <1>0, <1>3 DEF StartBegin, Clear, Quiet
<1>4. ASSUME NEW t \in Threads, StartUnlink(t) PROVE Quiet
  BY <1>0, <1>4 DEF StartUnlink, Quiet
<1>5. ASSUME NEW t \in Threads, StartSpawn(t) PROVE Quiet
  BY <1>0, <1>5 DEF StartSpawn, Quiet
<1>6. ASSUME NEW t \in Threads, StartPopenFails(t) PROVE Quiet
  BY <1>0, <1>6 DEF StartPopenFails, Quiet, runVars
<1>7. ASSUME NEW t \in Threads, StartWaiter(t) PROVE Quiet
  BY <1>0, <1>7 DEF StartWaiter, Quiet, runVars
<1>8. ASSUME NEW t \in Threads, CallSnapshot(t) \/ CallGraph(t) PROVE Quiet
  BY <1>0, <1>8 DEF CallSnapshot, CallGraph, Quiet, runVars
<1>9. ASSUME NEW t \in Threads, ReadStep(t) PROVE Quiet
  BY <1>0, <1>9
  DEF ReadStep, SnapshotNotDone, SnapshotDone, SnapshotRead, GraphReturns, Quiet, runVars
<1>10. ASSUME NEW t \in Threads, CheckCall(t) PROVE Checks(t)
  BY <1>10
  DEF CheckCall, Checks, CheckStep, CheckBegin, CheckBuild, CheckInstall, CheckReturn, runVars
<1>11. ASSUME NEW r \in Runs, ExploreOpensFile(r) \/ ExploreWritesFile(r) PROVE Quiet
  <2>1. r = run
    BY <1>0, <1>11 DEF ExploreOpensFile, ExploreWritesFile, Live
  <2> QED
    BY <1>0, <1>11, <2>1 DEF ExploreOpensFile, ExploreWritesFile, Quiet, runVars
<1>12. ASSUME NEW r \in Runs, NEW code \in {0, 1, 2}, ExploreExits(r, code) PROVE Quiet
  BY <1>0, <1>12 DEF ExploreExits, Quiet, runVars, checkVars
<1>13. ASSUME NEW r \in Runs, WaiterStep(r) PROVE Quiet
  BY <1>0, <1>13
  DEF WaiterStep, WaiterReads, WaiterLocks, WaiterPublishes, Clear, Quiet, runVars, checkVars
<1>14. CASE CloseStep
  BY <1>0, <1>14
  DEF CloseStep, CloseLocks, CloseEndsChild, CloseRemoves, Quiet, runVars, checkVars
<1>15. CASE UNCHANGED vars
  BY <1>0, <1>15 DEF vars, Quiet, runVars, checkVars
<1> QED
  BY <1>1, <1>2, <1>3, <1>4, <1>5, <1>6, <1>7, <1>8, <1>9, <1>10, <1>11, <1>12, <1>13, <1>14,
     <1>15
  DEF Next, StartStep, ExploreStep

\* The file is of this run, or of the one that start() replaces.
LEMMA FileBound ==
  ASSUME IInv
  PROVE  /\ file.by \in Nat /\ file.by <= run /\ run \in Nat /\ (Readable => file # NoFile)
         /\ cached \in Nat /\ session \in [Threads -> Nat]
         /\ asked \in [Threads -> Nat] /\ generation \in Nat /\ call \in [Threads -> Calls]
<1>1. /\ file \in Files /\ run \in 0..MaxRuns /\ cached \in 0..MaxRuns
      /\ session \in [Threads -> 0..MaxRuns]
      /\ asked \in [Threads -> Nat] /\ generation \in Nat /\ call \in [Threads -> Calls]
  BY DEF IInv, TypeOK
<1>2. file.by \in 0..MaxRuns
  BY <1>1, Written
<1>3. file.by \in {NoRun, run} \/ file.by = run - 1
  BY DEF IInv, FileInv
<1>4. Readable => file # NoFile
  BY DEF Readable, NoFile
<1>5. session \in [Threads -> Nat]
  BY <1>1, MaxRunsAssumption
<1> QED
  BY <1>1, <1>2, <1>3, <1>4, <1>5, MaxRunsAssumption DEF NoRun

LEMMA BoundedStep == IInv /\ Bounded /\ [Next]_vars => Bounded'
<1> SUFFICES ASSUME IInv, Bounded, [Next]_vars PROVE Bounded'
  OBVIOUS
<1>1. CASE Quiet
  BY <1>1, FileBound DEF Quiet, Bounded, NoRun
<1>2. ASSUME NEW t \in Threads, Checks(t) PROVE Bounded'
  <2>1. CASE CheckBegin(t)
    BY <1>2, <2>1, FileBound DEF Checks, CheckBegin, Bounded
  <2>2. CASE CheckBuild(t)
    BY <1>2, <2>2, FileBound DEF Checks, CheckBuild, Bounded
  <2>3. CASE CheckInstall(t)
    BY <1>2, <2>3, FileBound DEF Checks, CheckInstall, Installed, Bounded
  <2>4. CASE CheckReturn(t)
    BY <1>2, <2>4 DEF Checks, CheckReturn, Bounded
  <2> QED
    BY <1>2, <2>1, <2>2, <2>3, <2>4 DEF Checks, CheckStep
<1> QED
  BY <1>1, <1>2, Rely

\* Time goes on: what was not older than r stays so.
LEMMA FreshStep == ASSUME IInv, [Next]_vars, NEW r \in Nat, Fresh(r)
                   PROVE  Fresh(r)'
<1>0. \A t \in Threads : asked[t] <= generation
  BY DEF IInv, CacheInv
<1>1. CASE Quiet
  <2>1. r <= run' /\ (file' # NoFile => file'.by >= r) /\ (cached' # NoRun => cached' >= r)
    BY <1>1, FileBound DEF Quiet, Fresh
  <2>2. ASSUME NEW t \in Threads, call'[t] = "check.install", asked'[t] = generation'
        PROVE  session'[t] >= r
    BY <1>0, <1>1, <2>2, FileBound DEF Quiet, Fresh
  <2> QED
    BY <2>1, <2>2 DEF Fresh
<1>2. ASSUME NEW t \in Threads, Checks(t) PROVE Fresh(r)'
  <2>1. CASE CheckBegin(t)
    BY <1>2, <2>1, FileBound DEF Checks, CheckBegin, Fresh
  <2>2. CASE CheckBuild(t)
    BY <1>2, <2>2, FileBound DEF Checks, CheckBuild, Fresh
  <2>3. CASE CheckInstall(t)
    BY <1>2, <2>3, FileBound DEF Checks, CheckInstall, Installed, Fresh
  <2>4. CASE CheckReturn(t)
    BY <1>2, <2>4, FileBound DEF Checks, CheckReturn, Fresh
  <2> QED
    BY <1>2, <2>1, <2>2, <2>3, <2>4 DEF Checks, CheckStep
<1> QED
  BY <1>1, <1>2, Rely

\* A run that has ended well has written all there is.
LEMMA DoneIsFresh == ASSUME IInv, explore \in Done PROVE Fresh(run)
<1>1. explore # "running" /\ ~Replacing
  BY DEF IInv, RunInv, LockInv, Replacing, HoldsState, Done
<1>2. file.by \in {NoRun, run} /\ cached \in {NoRun, run}
  BY <1>1 DEF IInv, FileInv, CacheInv
<1>3. file # NoFile => file.by = run
  BY <1>2, Disjoint DEF IInv, TypeOK, Files, NoRun
<1> QED
  BY <1>1, <1>2, <1>3, FileBound DEF Fresh, IInv, CacheInv

-----------------------------------------------------------------------------
(* The requests *)

Points == {"idle", "story.file", "story.state", "story.check", "story.checking", "draft.file",
           "draft.state", "draft.read", "graph.call", "graph.got", "chat.begin", "chat.got",
           "chat.ask", "chat.seed", "chat.compare", "chat.draft", "chat.check", "chat.checking",
           "chat.again", "chat.confirm"}

Replies == [kind : {"none", "refused", "dropped", "story", "draft", "answer", "chat"},
            of : 0..MaxRuns, drafted : 0..MaxRuns, checked : 0..MaxRuns]

StoryTypeOK ==
  /\ request \in [Handlers -> Points]
  /\ stateRun \in [Handlers -> 0..MaxRuns] /\ drafted \in [Handlers -> 0..MaxRuns]
  /\ held \in [Handlers -> Snapshots] /\ reply \in [Handlers -> Replies]

Holding == {"chat.ask", "chat.seed", "chat.compare", "chat.draft", "chat.check", "chat.checking",
            "chat.again", "chat.confirm"}
Drafted == {"chat.check", "chat.checking", "chat.again", "chat.confirm"}
HasSession == {"check.install", "checked"}

\* Which call belongs to which point of a request.
Calling(h) ==
  /\ call[h] \in {"check.build", "check.install", "checked", "check.raised", "check.missing"} =>
       request[h] \in {"story.checking", "chat.checking"}
  /\ call[h] = "graph.graph" => request[h] = "graph.got"

\* What a handler has read is not older than where its request began; and when
\* snapshot() has just returned the object it holds, it is not newer either.
Timely(h) ==
  /\ Fresh(result[h].of) /\ Fresh(held[h].of) /\ Fresh(stateRun[h])
  /\ drafted[h] <= run
  /\ request[h] \in Holding => held[h].of # NoRun
  /\ request[h] \in Drafted => drafted[h] >= held[h].of
  /\ request[h] = "story.checking" /\ call[h] \in HasSession => session[h] >= stateRun[h]
  /\ request[h] = "chat.checking" /\ call[h] \in HasSession => session[h] >= held[h].of
  /\ request[h] \in {"chat.again", "chat.confirm"} => session[h] >= held[h].of
  /\ request[h] = "chat.confirm" /\ call[h] = "none" /\ result[h] = held[h] =>
       drafted[h] <= held[h].of /\ session[h] <= held[h].of

Sent(h) ==
  /\ reply[h].kind = "chat" => reply[h].drafted = reply[h].of /\ reply[h].checked = reply[h].of
  /\ reply[h].kind = "story" => reply[h].checked >= reply[h].of

StoryInv ==
  /\ IInv /\ Bounded /\ StoryTypeOK
  /\ \A h \in Handlers : Calling(h) /\ Timely(h) /\ Sent(h)


LEMMA StoryInit == StoriesInit => StoryInv
<1> SUFFICES ASSUME StoriesInit PROVE StoryInv
  OBVIOUS
<1>1. IInv
  BY StoriesInitIsInit, TypeInit, LockInit, RunInit, FileInit, CacheInit DEF IInv
<1>2. NoReply \in Replies /\ NoReply.kind = "none"
  BY MaxRunsAssumption DEF NoReply, Replies, NoRun
<1>3. StoryTypeOK
  BY <1>2, Written DEF StoriesInit, StoryTypeOK, Points
<1>4. Bounded /\ Fresh(NoRun)
  BY MaxRunsAssumption DEF StoriesInit, Init, CheckInit, Bounded, Fresh, NoRun
<1>5. ASSUME NEW h \in Handlers PROVE Calling(h) /\ Timely(h) /\ Sent(h)
  <2>0. h \in Threads /\ NoSnapshot.of = NoRun
    BY DEF Handlers, NoSnapshot
  <2>1. Calling(h)
    BY <2>0 DEF StoriesInit, Init, CheckInit, Calling
  <2>2. result[h].of = NoRun /\ held[h].of = NoRun /\ stateRun[h] = NoRun /\ drafted[h] = NoRun
        /\ request[h] = "idle" /\ run = NoRun
    BY <2>0 DEF StoriesInit, Init, NoRun
  <2>3. Timely(h)
    BY <1>4, <2>2 DEF Timely, Holding, Drafted, NoRun
  <2> QED
    BY <1>2, <2>1, <2>3 DEF StoriesInit, Sent
<1> QED
  BY <1>1, <1>3, <1>4, <1>5 DEF StoryInv

\* What a handler keeps while others step.
Frame(h) ==
  /\ request'[h] = request[h] /\ held'[h] = held[h] /\ stateRun'[h] = stateRun[h]
  /\ drafted'[h] = drafted[h] /\ reply'[h] = reply[h]
  /\ call'[h] = call[h] /\ session'[h] = session[h] /\ result'[h] = result[h]

LEMMA Nats == ASSUME StoryInv, NEW h \in Handlers
              PROVE  /\ result[h].of \in Nat /\ held[h].of \in Nat /\ stateRun[h] \in Nat
                     /\ drafted[h] \in Nat /\ session[h] \in Nat /\ run \in Nat
                     /\ h \in Threads /\ h # Main
<1>1. h \in Threads /\ h # Main
  BY DEF Handlers
<1>2. \A x \in Snapshots : x.of \in 0..MaxRuns
  BY MaxRunsAssumption DEF Snapshots, NoSnapshot, NoRun, Runs
<1>3. result[h] \in Snapshots /\ held[h] \in Snapshots /\ stateRun[h] \in 0..MaxRuns
      /\ drafted[h] \in 0..MaxRuns
  BY <1>1 DEF StoryInv, IInv, TypeOK, StoryTypeOK
<1>4. session[h] \in Nat /\ run \in Nat
  BY <1>1, FileBound DEF StoryInv
<1> QED
  BY <1>1, <1>2, <1>3, <1>4, MaxRunsAssumption

\* What was not older than what a handler holds is not older in the next state.
LEMMA HandlerFresh ==
  ASSUME StoryInv, [Next]_vars, NEW h \in Handlers
  PROVE  /\ result'[h] = result[h] => Fresh(result[h].of)'
         /\ held'[h] = held[h] => Fresh(held[h].of)'
         /\ stateRun'[h] = stateRun[h] => Fresh(stateRun[h])'
         /\ result'[h] = result[h] /\ held'[h] = result[h] => Fresh(held[h].of)'
         /\ run' \in Nat /\ run' >= run
<1>1. ASSUME NEW r \in Nat, Fresh(r) PROVE Fresh(r)'
  BY <1>1, FreshStep DEF StoryInv
<1>2. PICK x \in Nat : x = result[h].of
  BY Nats
<1>3. PICK y \in Nat : y = held[h].of
  BY Nats
<1>4. PICK z \in Nat : z = stateRun[h]
  BY Nats
<1>5. Fresh(x) /\ Fresh(y) /\ Fresh(z)
  BY <1>2, <1>3, <1>4 DEF StoryInv, Timely
<1>6. Fresh(x)' /\ Fresh(y)' /\ Fresh(z)'
  BY <1>1, <1>5
<1>7. run' \in Nat /\ run' >= run
  BY Rely, FileBound DEF StoryInv, Quiet, Checks
<1> QED
  BY <1>2, <1>3, <1>4, <1>6, <1>7 DEF Fresh

LEMMA FramedKeeps ==
  ASSUME StoryInv, [Next]_vars, NEW h \in Handlers, Frame(h)
  PROVE  Calling(h)' /\ Timely(h)' /\ Sent(h)'
<1>1. Calling(h) /\ Timely(h) /\ Sent(h)
  BY DEF StoryInv
<1>2. Fresh(result[h].of)' /\ Fresh(held[h].of)' /\ Fresh(stateRun[h])' /\ drafted'[h] <= run'
  BY <1>1, HandlerFresh, Nats DEF Frame, Timely
<1>3. Timely(h)'
  BY <1>1, <1>2 DEF Frame, Timely
<1>4. Calling(h)'
  BY <1>1 DEF Frame, Calling
<1>5. Sent(h)'
  BY <1>1 DEF Frame, Sent
<1> QED
  BY <1>3, <1>4, <1>5

-----------------------------------------------------------------------------
(* The steps of others *)

LEMMA OthersFrame ==
  ASSUME StoryInv, NEW h \in Handlers,
         \/ MainStep \/ (\E r \in Runs : RunStep(r)) \/ (CloseStep /\ UNCHANGED storyVars)
         \/ UNCHANGED allVars
  PROVE  Frame(h) /\ UNCHANGED <<request, held, stateRun, drafted, reply>>
<1> USE Nats DEF Frame, storyVars
<1>0. call \in [Threads -> Calls] /\ Main \in Threads
  BY MainAssumption DEF StoryInv, IInv, TypeOK
<1>1. CASE MainStep
  BY <1>0, <1>1
  DEF MainStep, CallStart, StartStep, StartBusy, StartBegin, StartUnlink, StartSpawn,
      StartPopenFails, StartWaiter, Clear, readVars
<1>2. ASSUME NEW r \in Runs, RunStep(r)
      PROVE  Frame(h) /\ UNCHANGED <<request, held, stateRun, drafted, reply>>
  BY <1>2
  DEF RunStep, ExploreStep, ExploreOpensFile, ExploreWritesFile, ExploreExits, WaiterStep,
      WaiterReads, WaiterLocks, WaiterPublishes, Clear, readVars, checkVars
<1>3. CASE CloseStep /\ UNCHANGED storyVars
  BY <1>3 DEF CloseStep, CloseLocks, CloseEndsChild, CloseRemoves, readVars, checkVars
<1>4. CASE UNCHANGED allVars
  BY <1>4 DEF allVars, vars, readVars, checkVars
<1> QED
  BY <1>1, <1>2, <1>3, <1>4

\* What a request's step changes, it changes of the handler that takes it.
LEMMA OtherHandler ==
  ASSUME StoryInv, NEW g \in Handlers, NEW h \in Handlers, h # g,
         HandlerStep(g) \/ \E point \in Points : Arrive(g, point)
  PROVE  Frame(h)
<1>0. /\ call \in [Threads -> Calls] /\ session \in [Threads -> 0..MaxRuns]
      /\ result \in [Threads -> Snapshots] /\ request \in [Handlers -> Points]
      /\ stateRun \in [Handlers -> 0..MaxRuns] /\ drafted \in [Handlers -> 0..MaxRuns]
      /\ held \in [Handlers -> Snapshots] /\ reply \in [Handlers -> Replies]
      /\ g \in Threads /\ h \in Threads
  BY DEF StoryInv, IInv, TypeOK, StoryTypeOK, Handlers
<1> USE <1>0
    DEF Frame, Send, GoTo, vars, checkVars, readVars, localVars, storyVars
<1>1. CASE GetFile(g)
  BY <1>1 DEF GetFile
<1>2. CASE GetRefused(g)
  BY <1>2 DEF GetRefused, NotReady
<1>3. CASE GetAccepted(g)
  BY <1>3 DEF GetAccepted
<1>4. CASE GetCheck(g)
  BY <1>4 DEF GetCheck, CheckBegin
<1>5. CASE GetChecked(g)
  BY <1>5 DEF GetChecked, CheckReturn
<1>6. CASE GetDraft(g)
  BY <1>6 DEF GetDraft
<1>7. CASE GetGraph(g)
  BY <1>7 DEF GetGraph, CallGraph
<1>8. CASE GetGraphSent(g)
  BY <1>8 DEF GetGraphSent
<1>9. CASE ChatSnapshot(g)
  BY <1>9 DEF ChatSnapshot, CallSnapshot
<1>10. CASE ChatGot(g)
  BY <1>10 DEF ChatGot
<1>11. CASE ChatAnswered(g)
  BY <1>11 DEF ChatAnswered
<1>12. CASE ChatStory(g)
  BY <1>12 DEF ChatStory
<1>13. CASE ChatCompare(g)
  BY <1>13 DEF ChatCompare
<1>14. CASE ChatDraft(g)
  BY <1>14 DEF ChatDraft
<1>15. CASE ChatCheck(g)
  BY <1>15 DEF ChatCheck, CheckBegin
<1>16. CASE ChatChecked(g)
  BY <1>16 DEF ChatChecked, CheckReturn
<1>17. CASE ChatConfirm(g)
  BY <1>17 DEF ChatConfirm
<1>18. CASE ChatDropped(g)
  BY <1>18 DEF ChatDropped
<1>19. CASE InCall(g)
  BY <1>19
  DEF InCall, ReadStep, SnapshotNotDone, SnapshotDone, SnapshotRead, GraphReturns, CheckBuild,
      CheckInstall
<1>20. ASSUME NEW point \in Points, Arrive(g, point) PROVE Frame(h)
  BY <1>20 DEF Arrive
<1> QED
  BY <1>1, <1>2, <1>3, <1>4, <1>5, <1>6, <1>7, <1>8, <1>9, <1>10, <1>11, <1>12, <1>13, <1>14,
     <1>15, <1>16, <1>17, <1>18, <1>19, <1>20
  DEF HandlerStep

-----------------------------------------------------------------------------
(* Types of the requests *)

LEMMA SentTypes ==
  ASSUME StoryInv, NEW h \in Handlers
  PROVE  /\ NoReply \in Replies /\ Refused \in Replies
         /\ [NoReply EXCEPT !.kind = "story", !.of = stateRun[h], !.checked = session[h]] \in Replies
         /\ Readable =>
              [NoReply EXCEPT !.kind = "draft", !.of = stateRun[h], !.drafted = file.by] \in Replies
         /\ [NoReply EXCEPT !.kind = "answer", !.of = held[h].of, !.checked = held[h].of] \in Replies
         /\ [kind |-> "chat", of |-> held[h].of, drafted |-> drafted[h], checked |-> session[h]]
              \in Replies
<1>1. /\ stateRun[h] \in 0..MaxRuns /\ session[h] \in 0..MaxRuns /\ drafted[h] \in 0..MaxRuns
      /\ held[h] \in Snapshots /\ (Readable => file.by \in 0..MaxRuns) /\ NoRun \in 0..MaxRuns
  BY ReadableHasWriter, Written DEF StoryInv, IInv, TypeOK, StoryTypeOK, Handlers
<1>2. held[h].of \in 0..MaxRuns
  BY <1>1, MaxRunsAssumption DEF Snapshots, NoSnapshot, NoRun, Runs
<1> QED
  BY <1>1, <1>2 DEF NoReply, Refused, Replies

LEMMA DroppedTypes ==
  ASSUME StoryInv, NEW h \in Handlers
  PROVE  Dropped(stateRun[h]) \in Replies /\ Dropped(run) \in Replies
<1>1. stateRun[h] \in 0..MaxRuns /\ run \in 0..MaxRuns
  BY DEF StoryInv, IInv, TypeOK, StoryTypeOK
<1> QED
  BY <1>1, Written DEF NoReply, Dropped, Replies

\* The points around the calls of snapshot().
LEMMA CallPoints ==
  ASSUME NEW c \in SnapshotCalls
  PROVE  /\ c[1] \in {"chat.begin", "chat.seed", "chat.again"}
         /\ c[2] \in {"chat.got", "chat.compare", "chat.confirm"}
         /\ c[2] = "chat.confirm" => c[1] = "chat.again"
         /\ c[2] = "chat.compare" => c[1] = "chat.seed"
<1>1. CASE c = <<"chat.begin", "chat.got">>
  BY <1>1
<1>2. CASE c = <<"chat.seed", "chat.compare">>
  BY <1>2
<1>3. CASE c = <<"chat.again", "chat.confirm">>
  BY <1>3
<1> QED
  BY <1>1, <1>2, <1>3 DEF SnapshotCalls

LEMMA StoryTypeStep == StoryInv /\ [StoriesNext]_allVars => StoryTypeOK'
<1> SUFFICES ASSUME StoryInv, [StoriesNext]_allVars PROVE StoryTypeOK'
  OBVIOUS
<1>1. ASSUME NEW h \in Handlers, HandlerStep(h) \/ \E point \in Points : Arrive(h, point)
      PROVE  StoryTypeOK'
  <2>0. /\ result[h] \in Snapshots /\ run \in 0..MaxRuns /\ NoRun \in 0..MaxRuns
        /\ (Readable => file.by \in 0..MaxRuns)
    BY ReadableHasWriter, Written DEF StoryInv, IInv, TypeOK, Handlers
  <2> DEFINE Changes ==
        /\ request' = request \/ \E point \in Points : request' = [request EXCEPT ![h] = point]
        /\ stateRun' = stateRun \/ \E r \in 0..MaxRuns : stateRun' = [stateRun EXCEPT ![h] = r]
        /\ drafted' = drafted \/ \E r \in 0..MaxRuns : drafted' = [drafted EXCEPT ![h] = r]
        /\ held' = held \/ \E x \in Snapshots : held' = [held EXCEPT ![h] = x]
        /\ reply' = reply \/ \E x \in Replies : reply' = [reply EXCEPT ![h] = x]
  <2>3. Dropped(stateRun[h]) \in Replies /\ Dropped(run) \in Replies
    BY DroppedTypes
  <2>1. Changes
    <3> USE <2>0, SentTypes DEF Send, GoTo, localVars, storyVars, Points
    <3>1. CASE GetFile(h)
      BY <3>1 DEF GetFile
    <3>2. CASE GetRefused(h)
      BY <3>2 DEF GetRefused, NotReady
    <3>3. CASE GetAccepted(h)
      BY <3>3 DEF GetAccepted
    <3>4. CASE GetCheck(h)
      BY <3>4 DEF GetCheck
    <3>5. CASE GetChecked(h)
      <4>1. \E x \in Replies : Send(h, x)
        <5> HIDE DEF Send, GoTo, localVars, storyVars, Points
        <5> QED
          BY <2>3, <3>5 DEF GetChecked
      <4> QED
        BY <3>5, <4>1 DEF GetChecked
    <3>6. CASE GetDraft(h)
      <4>1. \E x \in Replies : Send(h, x)
        <5> HIDE DEF Send, GoTo, localVars, storyVars, Points
        <5> QED
          BY <2>3, <3>6 DEF GetDraft
      <4> QED
        BY <3>6, <4>1 DEF GetDraft
    <3>7. CASE GetGraph(h)
      BY <3>7 DEF GetGraph
    <3>8. CASE GetGraphSent(h)
      BY <3>8 DEF GetGraphSent
    <3>9. CASE ChatSnapshot(h)
      <4>1. PICK c \in SnapshotCalls : GoTo(h, c[2])
        BY <3>9 DEF ChatSnapshot
      <4>2. c[2] \in {"chat.got", "chat.compare", "chat.confirm"}
        BY CallPoints
      <4> QED
        BY <3>9, <4>1, <4>2 DEF ChatSnapshot
    <3>10. CASE ChatGot(h)
      BY <3>10 DEF ChatGot
    <3>11. CASE ChatAnswered(h)
      BY <3>11 DEF ChatAnswered
    <3>12. CASE ChatStory(h)
      BY <3>12 DEF ChatStory
    <3>13. CASE ChatCompare(h)
      BY <3>13 DEF ChatCompare
    <3>14. CASE ChatDraft(h)
      BY <3>14 DEF ChatDraft
    <3>15. CASE ChatCheck(h)
      BY <3>15 DEF ChatCheck
    <3>16. CASE ChatChecked(h)
      BY <3>16 DEF ChatChecked
    <3>17. CASE ChatConfirm(h)
      BY <3>17 DEF ChatConfirm
    <3>18. CASE ChatDropped(h)
      <4>1. \E x \in Replies : Send(h, x)
        <5> HIDE DEF Send, GoTo, localVars, storyVars, Points
        <5> QED
          BY <2>3, <3>18 DEF ChatDropped
      <4> QED
        BY <3>18, <4>1 DEF ChatDropped
    <3>19. CASE InCall(h)
      BY <3>19 DEF InCall
    <3>20. CASE \E point \in Points : Arrive(h, point)
      BY <3>20 DEF Arrive
    <3> QED
      BY <1>1, <3>1, <3>2, <3>3, <3>4, <3>5, <3>6, <3>7, <3>8, <3>9, <3>10, <3>11, <3>12, <3>13,
         <3>14, <3>15, <3>16, <3>17, <3>18, <3>19, <3>20
      DEF HandlerStep
  <2>2. StoryTypeOK
    BY DEF StoryInv
  <2> QED
    BY <2>1, <2>2 DEF StoryTypeOK
<1>2. CASE \/ MainStep \/ (\E r \in Runs : RunStep(r)) \/ (CloseStep /\ UNCHANGED storyVars)
           \/ UNCHANGED allVars
  <2>1. UNCHANGED storyVars
    BY <1>2 DEF MainStep, RunStep, allVars
  <2> QED
    BY <2>1 DEF StoryInv, StoryTypeOK, storyVars
<1> QED
  BY <1>1, <1>2 DEF StoriesNext, Stopped, Points

-----------------------------------------------------------------------------
(* A handler's own steps *)

Quietly(h) ==
  \/ GetFile(h) \/ GetRefused(h) \/ GetDraft(h) \/ GetGraphSent(h) \/ ChatAnswered(h)
  \/ ChatStory(h) \/ ChatCompare(h) \/ ChatDraft(h) \/ ChatConfirm(h) \/ ChatDropped(h)
  \/ (ChatGot(h) /\ result[h] = NoSnapshot)
  \/ \E point \in {"story.file", "draft.file", "graph.call", "chat.begin"} : Arrive(h, point)

LEMMA OwnStep ==
  ASSUME StoryInv, [Next]_vars, NEW h \in Handlers,
         HandlerStep(h) \/ \E point \in {"story.file", "draft.file", "graph.call", "chat.begin"} :
                             Arrive(h, point)
  PROVE  Calling(h)' /\ Timely(h)' /\ Sent(h)'
<1>0. /\ call \in [Threads -> Calls] /\ session \in [Threads -> Nat]
      /\ result \in [Threads -> Snapshots] /\ request \in [Handlers -> Points]
      /\ stateRun \in [Handlers -> 0..MaxRuns] /\ drafted \in [Handlers -> 0..MaxRuns]
      /\ held \in [Handlers -> Snapshots] /\ reply \in [Handlers -> Replies]
      /\ h \in Threads /\ file.by \in Nat /\ file.by <= run /\ cached \in Nat
      /\ (Readable => file # NoFile /\ file.by # NoRun)
  BY FileBound, ReadableHasWriter DEF StoryInv, IInv, TypeOK, StoryTypeOK, Handlers
<1>1. Calling(h) /\ Timely(h) /\ Sent(h) /\ Bounded
  BY DEF StoryInv
<1>2. CASE Quietly(h)
  <2>0. UNCHANGED vars /\ UNCHANGED <<stateRun, held>>
    BY <1>2
    DEF Quietly, GetFile, GetRefused, GetDraft, GetGraphSent, ChatAnswered, ChatStory, ChatCompare,
        ChatDraft, ChatConfirm, ChatDropped, ChatGot, Arrive, localVars
  <2>1. /\ \A r \in Nat : Fresh(r) => Fresh(r)'
        /\ UNCHANGED <<call, session, result, file, run>>
    BY <2>0 DEF vars, checkVars, lockVars, runVars, readVars, Fresh
  <2>2. Fresh(result[h].of)' /\ Fresh(held[h].of)' /\ Fresh(stateRun[h])'
    BY <2>0, <2>1, HandlerFresh
  <2> USE <1>0, <1>1, <2>1, <2>2, Nats
      DEF Send, GoTo, At, localVars, Calling, Timely, Sent, Holding, Drafted, HasSession
  <2>3. CASE GetFile(h)
    BY <2>3 DEF GetFile
  <2>4. CASE GetRefused(h)
    BY <2>4 DEF GetRefused, NotReady, Refused, NoReply
  <2>5. CASE GetDraft(h)
    BY <2>5 DEF GetDraft, Refused, Dropped, NoReply
  <2>6. CASE GetGraphSent(h)
    BY <2>6 DEF GetGraphSent
  <2>7. CASE ChatAnswered(h)
    <3>1. request' = [request EXCEPT ![h] = "idle"] /\ UNCHANGED <<stateRun, held, drafted>>
      BY <2>7 DEF ChatAnswered
    <3>2. reply'[h].kind \in {"refused", "answer"}
      <4> HIDE DEF Calling, Timely, Sent
      <4> QED
        BY <2>7 DEF ChatAnswered, Refused, NoReply
    <3>3. Calling(h)' /\ Timely(h)'
      <4> HIDE DEF Calling, Timely, Sent
      <4>1. Calling(h)'
        BY <2>7, <3>1 DEF ChatAnswered, Calling
      <4>2. Timely(h)'
        BY <3>1 DEF Timely
      <4> QED
        BY <4>1, <4>2
    <3>4. Sent(h)'
      <4> HIDE DEF Calling, Timely
      <4> QED
        BY <3>2 DEF Sent
    <3> QED
      BY <3>3, <3>4
  <2>8. CASE ChatStory(h)
    BY <2>8 DEF ChatStory, Refused, NoReply
  <2>9. CASE ChatCompare(h)
    BY <2>9 DEF ChatCompare, Refused, NoReply
  <2>10. CASE ChatDraft(h)
    BY <2>10 DEF ChatDraft, Refused, NoReply, Fresh
  <2>11. CASE ChatConfirm(h)
    <3>1. request' = [request EXCEPT ![h] = "idle"] /\ UNCHANGED <<stateRun, held, drafted>>
      BY <2>11 DEF ChatConfirm
    <3>2. Calling(h)' /\ Timely(h)'
      <4> HIDE DEF Calling, Timely
      <4>1. Calling(h)'
        BY <2>11, <3>1 DEF ChatConfirm, Calling
      <4>2. Timely(h)'
        BY <3>1 DEF Timely
      <4> QED
        BY <4>1, <4>2
    <3>3. CASE Replaced(h)
      <4>1. reply' = [reply EXCEPT ![h] = Refused]
        BY <2>11, <3>3 DEF ChatConfirm
      <4>2. reply'[h].kind = "refused"
        BY <4>1 DEF Refused, NoReply
      <4>3. Sent(h)'
        BY <4>2 DEF Sent
      <4> HIDE DEF Calling, Timely, Sent
      <4> QED
        BY <3>2, <4>3
    <3>4. CASE ~Replaced(h)
      <4>1. drafted[h] = held[h].of /\ session[h] = held[h].of
        <5> HIDE <1>0, <1>1, <2>1, <2>2, Nats DEF Calling, Timely, Sent
        <5>1. request[h] = "chat.confirm" /\ call[h] = "none" /\ result[h] = held[h]
          BY <2>11, <3>4 DEF ChatConfirm, Replaced
        <5>2. /\ drafted[h] >= held[h].of /\ session[h] >= held[h].of
              /\ drafted[h] <= held[h].of /\ session[h] <= held[h].of
          BY <1>1, <5>1 DEF Timely
        <5> QED
          BY <5>2, Nats
      <4>2. reply' = [reply EXCEPT ![h] = [kind |-> "chat", of |-> held[h].of,
                                          drafted |-> drafted[h], checked |-> session[h]]]
        BY <2>11, <3>4 DEF ChatConfirm
      <4>3. /\ reply'[h].kind = "chat" /\ reply'[h].of = held[h].of
            /\ reply'[h].drafted = drafted[h] /\ reply'[h].checked = session[h]
        BY <4>2
      <4>4. Sent(h)'
        BY <4>1, <4>3 DEF Sent
      <4> QED
        BY <3>2, <4>4
    <3> QED
      BY <3>3, <3>4
  <2>12. ASSUME NEW point \in {"story.file", "draft.file", "graph.call", "chat.begin"},
                Arrive(h, point)
         PROVE  Calling(h)' /\ Timely(h)' /\ Sent(h)'
    BY <2>12 DEF Arrive, NoReply, NoRun
  <2>13. CASE ChatGot(h) /\ result[h] = NoSnapshot
    BY <2>13 DEF ChatGot, Refused, NoReply
  <2>14. CASE ChatDropped(h)
    BY <2>14 DEF ChatDropped, Dropped, NoReply
  <2> HIDE <1>0, <1>1, <2>1, <2>2, Nats
      DEF Send, GoTo, At, localVars, Calling, Timely, Sent, Holding, Drafted, HasSession
  <2> QED
    BY <1>2, <2>3, <2>4, <2>5, <2>6, <2>7, <2>8, <2>9, <2>10, <2>11, <2>12, <2>13,
       <2>14
    DEF Quietly
<1>3. CASE GetAccepted(h)
  <2>1. explore \in Done /\ stateRun' = [stateRun EXCEPT ![h] = run] /\ UNCHANGED vars
        /\ UNCHANGED <<held, drafted, reply>>
        /\ \/ request' = [request EXCEPT ![h] = "story.check"]
           \/ request' = [request EXCEPT ![h] = "draft.read"]
    BY <1>3 DEF GetAccepted, GoTo, Ended, Done
  <2>2. Fresh(run) /\ UNCHANGED <<call, session, result, file, run, cached, asked, generation>>
    BY <2>1, DoneIsFresh DEF StoryInv, vars, checkVars, runVars, readVars
  <2>3. Fresh(stateRun[h])'
    BY <1>0, <2>1, <2>2 DEF Fresh
  <2>4. Fresh(result[h].of)' /\ Fresh(held[h].of)'
    BY <1>1, <2>1, <2>2, HandlerFresh
  <2>5. call[h] = "none"
    BY <1>3 DEF GetAccepted, At
  <2> QED
    BY <1>0, <1>1, <2>1, <2>2, <2>3, <2>4, <2>5
    DEF Calling, Timely, Sent, Holding, Drafted, HasSession
<1>4. CASE ChatGot(h) /\ result[h] # NoSnapshot
  <2>1. /\ result[h] # NoSnapshot /\ held' = [held EXCEPT ![h] = result[h]] /\ UNCHANGED vars
        /\ UNCHANGED <<stateRun, drafted, reply>> /\ request' = [request EXCEPT ![h] = "chat.ask"]
        /\ call[h] = "none"
    BY <1>4 DEF ChatGot, GoTo, At, Send
  <2>2. UNCHANGED <<call, session, result, run>> /\ result[h].of # NoRun
    BY <1>0, <2>1 DEF vars, checkVars, runVars, readVars, Snapshots, Runs, NoRun
  <2>3. Fresh(result[h].of)' /\ Fresh(held[h].of)' /\ Fresh(stateRun[h])'
    BY <1>0, <2>1, <2>2, HandlerFresh
  <2> QED
    BY <1>0, <1>1, <2>1, <2>2, <2>3
    DEF Calling, Timely, Sent, Holding, Drafted, HasSession
<1>5. CASE GetCheck(h) \/ ChatCheck(h)
  <2>1. /\ CheckBegin(h) /\ UNCHANGED <<held, stateRun, drafted, reply, result, run>>
        /\ request' = [request EXCEPT ![h] = IF GetCheck(h) THEN "story.checking"
                                             ELSE "chat.checking"]
        /\ request[h] = IF GetCheck(h) THEN "story.check" ELSE "chat.check"
    BY <1>5 DEF GetCheck, ChatCheck, GoTo, At, localVars, readVars, runVars
  <2>2. Fresh(result[h].of)' /\ Fresh(held[h].of)' /\ Fresh(stateRun[h])'
    BY <2>1, HandlerFresh
  <2>3. session'[h] = cached /\ call'[h] \in {"check.build", "checked"}
        /\ (call'[h] = "checked" => cached # NoRun)
    BY <1>0, <2>1 DEF CheckBegin
  <2>4. call'[h] = "checked" => cached >= held[h].of /\ cached >= stateRun[h]
    BY <1>1, <2>3 DEF Timely, Fresh
  <2> QED
    BY <1>0, <1>1, <2>1, <2>2, <2>3, <2>4
    DEF Calling, Timely, Sent, Holding, Drafted, HasSession
<1>6. CASE GetChecked(h)
  <2>1. /\ UNCHANGED <<held, stateRun, drafted, result, run, session>> /\ CheckReturn(h)
        /\ request' = [request EXCEPT ![h] = "idle"] /\ request[h] = "story.checking"
        /\ \/ call[h] = "checked" /\ reply' = [reply EXCEPT ![h] =
                [NoReply EXCEPT !.kind = "story", !.of = stateRun[h], !.checked = session[h]]]
           \/ call[h] = "check.raised" /\ reply' = [reply EXCEPT ![h] = Refused]
           \/ call[h] = "check.missing" /\ reply' = [reply EXCEPT ![h] = Dropped(stateRun[h])]
    BY <1>6 DEF GetChecked, CheckReturn, Send, GoTo, localVars, readVars, runVars
  <2>2. Fresh(result[h].of)' /\ Fresh(held[h].of)' /\ Fresh(stateRun[h])'
    BY <2>1, HandlerFresh
  <2>3. call'[h] = "none"
    BY <1>0, <2>1 DEF CheckReturn
  <2>4. Calling(h)' /\ Timely(h)'
    BY <1>0, <1>1, <2>1, <2>2, <2>3 DEF Calling, Timely, Holding, Drafted
  <2>5. Sent(h)'
    <3>1. CASE call[h] = "checked"
      <4>1. session[h] >= stateRun[h]
        BY <1>1, <2>1, <3>1 DEF Timely, HasSession
      <4>2. reply'[h].kind = "story" /\ reply'[h].of = stateRun[h] /\ reply'[h].checked = session[h]
        BY <1>0, <2>1, <3>1 DEF NoReply
      <4> QED
        BY <4>1, <4>2 DEF Sent
    <3>2. CASE call[h] # "checked"
      <4>1. reply'[h].kind \in {"refused", "dropped"}
        BY <1>0, <2>1, <3>2 DEF CheckReturn, Refused, Dropped, NoReply
      <4> QED
        BY <4>1 DEF Sent
    <3> QED
      BY <3>1, <3>2
  <2> QED
    BY <2>4, <2>5
<1>7. CASE ChatChecked(h)
  <2>1. /\ UNCHANGED <<held, stateRun, drafted, result, run, session>> /\ CheckReturn(h)
        /\ request[h] = "chat.checking"
        /\ \/ call[h] = "checked" /\ reply' = reply
              /\ request' = [request EXCEPT ![h] = "chat.again"]
           \/ reply' = [reply EXCEPT ![h] = Refused] /\ request' = [request EXCEPT ![h] = "idle"]
    BY <1>7 DEF ChatChecked, CheckReturn, Send, GoTo, localVars, readVars, runVars
  <2>2. Fresh(result[h].of)' /\ Fresh(held[h].of)' /\ Fresh(stateRun[h])'
    BY <2>1, HandlerFresh
  <2>3. call'[h] = "none"
    BY <1>0, <2>1 DEF CheckReturn
  <2> QED
    BY <1>0, <1>1, <2>1, <2>2, <2>3
    DEF Calling, Timely, Sent, Holding, Drafted, HasSession, Refused, NoReply
<1>8. CASE GetGraph(h)
  <2>1. /\ UNCHANGED <<held, stateRun, drafted, reply, result, run, session>> /\ CallGraph(h)
        /\ request' = [request EXCEPT ![h] = "graph.got"]
    BY <1>8 DEF GetGraph, CallGraph, GoTo, localVars, readVars, runVars
  <2>2. Fresh(result[h].of)' /\ Fresh(held[h].of)' /\ Fresh(stateRun[h])'
    BY <2>1, HandlerFresh
  <2>3. call'[h] = "graph.graph"
    BY <1>0, <2>1 DEF CallGraph
  <2> QED
    BY <1>0, <1>1, <2>1, <2>2, <2>3
    DEF Calling, Timely, Sent, Holding, Drafted, HasSession
<1>9. CASE ChatSnapshot(h)
  <2>1. PICK c \in SnapshotCalls : request[h] = c[1] /\ request' = [request EXCEPT ![h] = c[2]]
    BY <1>9 DEF ChatSnapshot, At, GoTo
  <2>2. UNCHANGED <<held, stateRun, drafted, reply, result, run, session>> /\ CallSnapshot(h)
    BY <1>9 DEF ChatSnapshot, CallSnapshot, localVars, readVars, runVars
  <2>3. Fresh(result[h].of)' /\ Fresh(held[h].of)' /\ Fresh(stateRun[h])'
    BY <2>2, HandlerFresh
  <2>4. call'[h] = "snapshot.graph"
    BY <1>0, <2>2 DEF CallSnapshot
  <2>5. request'[h] = c[2]
    BY <1>0, <2>1
  <2> QED
    BY <1>0, <1>1, <2>1, <2>2, <2>3, <2>4, <2>5, CallPoints
    DEF Calling, Timely, Sent, Holding, Drafted, HasSession
<1>10. CASE InCall(h)
  <2>0. UNCHANGED <<request, held, stateRun, drafted, reply>>
    BY <1>10 DEF InCall, storyVars
  <2>1. Fresh(held[h].of)' /\ Fresh(stateRun[h])' /\ run' >= run
    BY <2>0, HandlerFresh
  <2>2. CASE SnapshotNotDone(h) \/ SnapshotRead(h)
    <3>1. /\ call'[h] = "none" /\ UNCHANGED <<run, session, file, cached, asked, generation>>
          /\ call[h] \in {"snapshot.graph", "snapshot.read"}
          /\ \A t \in Threads : call'[t] = "check.install" => call[t] = "check.install"
      BY <1>0, <2>2 DEF SnapshotNotDone, SnapshotRead, runVars
    <3>2. result'[h].of \in {NoRun, run} /\ Fresh(result[h].of)'
      <4>1. CASE SnapshotNotDone(h)
        <5>1. result'[h].of = NoRun
          BY <1>0, <4>1 DEF SnapshotNotDone, NoSnapshot
        <5> QED
          BY <1>0, <2>1, <3>1, <5>1, Nats, FileBound DEF Fresh, NoRun, StoryInv
      <4>2. CASE SnapshotRead(h)
        <5>1. explore \in Done /\ ~Replacing
          BY <1>0, <4>2
          DEF SnapshotRead, StoryInv, IInv, FileInv, LockInv, RunInv, HoldsState, Replacing, Done
        <5>2. snapshot'.of \in {NoRun, run}
          BY <1>0, <4>2, <5>1
          DEF SnapshotRead, StoryInv, IInv, FileInv, NoSnapshot
        <5>3. Fresh(run) /\ result'[h] = snapshot'
          BY <1>0, <4>2, <5>1, DoneIsFresh DEF StoryInv, SnapshotRead
        <5> QED
          BY <1>0, <3>1, <5>2, <5>3, FileBound DEF Fresh, NoRun, StoryInv
      <4> QED
        BY <2>2, <4>1, <4>2
    <3> QED
      BY <1>0, <1>1, <2>0, <2>1, <3>1, <3>2, Nats
      DEF Calling, Timely, Sent, Holding, Drafted, HasSession, Bounded
  <2>3. CASE SnapshotDone(h) \/ GraphReturns(h)
    <3>1. /\ UNCHANGED <<run, session, result>>
          /\ \/ call[h] = "snapshot.graph" /\ call'[h] = "snapshot.read"
             \/ call[h] = "graph.graph" /\ call'[h] = "none"
      BY <1>0, <2>3 DEF SnapshotDone, GraphReturns, runVars, readVars
    <3>2. Fresh(result[h].of)'
      BY <3>1, HandlerFresh
    <3> QED
      BY <1>0, <1>1, <2>0, <2>1, <3>1, <3>2
      DEF Calling, Timely, Sent, Holding, Drafted, HasSession
  <2>4. CASE CheckBuild(h) /\ UNCHANGED <<run, result>>
    <3>1. /\ call[h] = "check.build" /\ call'[h] \in {"check.install", "check.raised", "check.missing"}
          /\ call'[h] = "check.install" => session'[h] = file.by /\ file # NoFile
      BY <1>0, <2>4 DEF CheckBuild
    <3>2. Fresh(result[h].of)'
      BY <2>4, HandlerFresh
    <3>3. file # NoFile => file.by >= held[h].of /\ file.by >= stateRun[h]
      BY <1>1 DEF Timely, Fresh
    <3> QED
      BY <1>0, <1>1, <2>0, <2>1, <2>4, <3>1, <3>2, <3>3
      DEF Calling, Timely, Sent, Holding, Drafted, HasSession
  <2>5. CASE CheckInstall(h) /\ UNCHANGED <<run, result>>
    <3>1. /\ call[h] = "check.install" /\ call'[h] = "checked"
          /\ session'[h] = session[h] \/ (session'[h] = cached /\ cached # NoRun)
      BY <1>0, <2>5 DEF CheckInstall, Installed
    <3>2. Fresh(result[h].of)'
      BY <2>5, HandlerFresh
    <3>3. cached # NoRun => cached >= held[h].of /\ cached >= stateRun[h]
      BY <1>1 DEF Timely, Fresh
    <3> QED
      BY <1>0, <1>1, <2>0, <2>1, <2>5, <3>1, <3>2, <3>3
      DEF Calling, Timely, Sent, Holding, Drafted, HasSession
  <2> QED
    BY <1>10, <2>2, <2>3, <2>4, <2>5 DEF InCall, ReadStep, runVars, readVars
<1> QED
  BY <1>2, <1>3, <1>4, <1>5, <1>6, <1>7, <1>8, <1>9, <1>10 DEF HandlerStep, Quietly

-----------------------------------------------------------------------------
(* Dropped requests *)

Overtaken(r) == run > r \/ closer = "closed"

\* A request that the state of a run has let in finds that run's file, until
\* the run is replaced or the folder is removed.
LetIn(h) ==
  /\ request[h] \in {"story.check", "story.checking", "draft.read"} =>
       Overtaken(stateRun[h]) \/ (stateRun[h] = run /\ explore \in Done)
  /\ request[h] = "story.checking" /\ call[h] = "check.missing" => Overtaken(stateRun[h])
  /\ reply[h].kind = "dropped" => Overtaken(reply[h].of)

LEMMA RepliesOf == ASSUME StoryInv, NEW h \in Handlers PROVE reply[h].of \in Nat
<1>1. reply[h] \in Replies
  BY DEF StoryInv, StoryTypeOK
<1> QED
  BY <1>1, MaxRunsAssumption DEF Replies

\* The file of a run that has ended well is there until close() removes it.
LEMMA MissingIsOvertaken ==
  ASSUME StoryInv, explore \in Done, file = NoFile PROVE closer = "closed"
<1>1. explore # "running" /\ ~Replacing
  BY DEF StoryInv, IInv, RunInv, LockInv, Replacing, HoldsState, Done
<1> QED
  BY <1>1 DEF StoryInv, IInv, FileInv, FileOf, NoFile, NoRun, Runs, Done

\* A run is replaced for good, the folder is removed for good, and a run that
\* has ended stays ended until it is replaced.
LEMMA Persists ==
  ASSUME StoryInv, [Next]_vars, NEW r \in Nat
  PROVE  /\ Overtaken(r) => Overtaken(r)'
         /\ r = run /\ explore \in Done => Overtaken(r)' \/ (r = run' /\ explore' \in Done)
<1>0. /\ run \in Nat /\ run' \in Nat /\ run' >= run
      /\ call \in [Threads -> Calls]
      /\ \A q \in Runs : Waiting(q) => explore = "running"
  BY Rely, FileBound DEF StoryInv, IInv, RunInv, Quiet, Checks
<1>1. closer = "closed" => closer' = "closed"
  BY DEF Next, CallStart, StartStep, StartBusy, StartBegin, StartUnlink, StartSpawn, StartPopenFails,
         StartWaiter, CallSnapshot, CallGraph, ReadStep, SnapshotNotDone, SnapshotDone, SnapshotRead,
         GraphReturns, CheckCall, ExploreStep, ExploreOpensFile, ExploreWritesFile, ExploreExits,
         WaiterStep, WaiterReads, WaiterLocks, WaiterPublishes, CloseStep, CloseLocks,
         CloseEndsChild, CloseRemoves, vars
<1>2. explore \in Done => (run' = run /\ explore' = explore) \/ run' = run + 1
  BY <1>0
  DEF Next, CallStart, StartStep, StartBusy, StartBegin, StartUnlink, StartSpawn, StartPopenFails,
      StartWaiter, CallSnapshot, CallGraph, ReadStep, SnapshotNotDone, SnapshotDone, SnapshotRead,
      GraphReturns, CheckCall, ExploreStep, ExploreOpensFile, ExploreWritesFile, ExploreExits,
      WaiterStep, WaiterReads, WaiterLocks, WaiterPublishes, CloseStep, CloseLocks,
      CloseEndsChild, CloseRemoves, vars, runVars, Waiting, Done
<1> QED
  BY <1>0, <1>1, <1>2 DEF Overtaken

LEMMA LetInFramed ==
  ASSUME StoryInv, [Next]_vars, NEW h \in Handlers, LetIn(h), Frame(h)
  PROVE  LetIn(h)'
<1>1. PICK r \in Nat : r = stateRun[h]
  BY Nats
<1>2. PICK q \in Nat : q = reply[h].of
  BY RepliesOf
<1>3. Overtaken(r) => Overtaken(r)'
  BY Persists
<1>4. Overtaken(q) => Overtaken(q)'
  BY Persists
<1>5. r = run /\ explore \in Done => Overtaken(r)' \/ (r = run' /\ explore' \in Done)
  BY Persists
<1> QED
  BY <1>1, <1>2, <1>3, <1>4, <1>5 DEF LetIn, Frame, Overtaken

LEMMA LetInStep ==
  ASSUME StoryInv, [Next]_vars, NEW h \in Handlers, LetIn(h),
         HandlerStep(h) \/ \E point \in {"story.file", "draft.file", "graph.call", "chat.begin"} :
                             Arrive(h, point)
  PROVE  LetIn(h)'
<1>0. /\ call \in [Threads -> Calls] /\ request \in [Handlers -> Points]
      /\ stateRun \in [Handlers -> 0..MaxRuns] /\ reply \in [Handlers -> Replies]
      /\ h \in Threads /\ Calling(h) /\ stateRun[h] \in Nat /\ reply[h].of \in Nat
      /\ run \in Nat
  BY Nats, RepliesOf DEF StoryInv, IInv, TypeOK, StoryTypeOK
\* A step that ends in none of the three points, with no missing file to report.
<1>1. ASSUME UNCHANGED <<run, closer>>, request'[h] \notin {"story.check", "story.checking", "draft.read"},
             \/ reply'[h] = reply[h] \/ reply'[h].kind # "dropped" \/ Overtaken(reply'[h].of)
      PROVE  LetIn(h)'
  BY <1>1 DEF LetIn, Overtaken
<1>2. CASE \/ GetFile(h) \/ GetRefused(h) \/ GetGraphSent(h) \/ ChatAnswered(h) \/ ChatStory(h)
           \/ ChatCompare(h) \/ ChatDraft(h) \/ ChatConfirm(h) \/ ChatGot(h)
           \/ \E point \in {"story.file", "draft.file", "graph.call", "chat.begin"} : Arrive(h, point)
  <2>1. UNCHANGED <<run, closer>>
    BY <1>2
    DEF GetFile, GetRefused, GetGraphSent, ChatAnswered, ChatStory, ChatCompare, ChatDraft,
        ChatConfirm, ChatGot, Arrive, vars, runVars
  <2>2. request'[h] \notin {"story.check", "story.checking", "draft.read"}
    BY <1>0, <1>2
    DEF GetFile, GetRefused, NotReady, GetGraphSent, ChatAnswered, ChatStory, ChatCompare, ChatDraft,
        ChatConfirm, ChatGot, Arrive, Send, GoTo
  <2>3. reply'[h] = reply[h] \/ reply'[h].kind # "dropped"
    <3>1. CASE GetFile(h) \/ GetRefused(h) \/ GetGraphSent(h) \/ ChatStory(h)
      BY <1>0, <3>1
      DEF GetFile, GetRefused, NotReady, GetGraphSent, ChatStory, Send, Refused, NoReply
    <3>2. CASE ChatCompare(h) \/ ChatDraft(h) \/ ChatGot(h)
      BY <1>0, <3>2 DEF ChatCompare, ChatDraft, ChatGot, Send, Refused, NoReply
    <3>3. CASE ChatAnswered(h)
      BY <1>0, <3>3 DEF ChatAnswered, Send, Refused, NoReply
    <3>4. CASE ChatConfirm(h)
      BY <1>0, <3>4 DEF ChatConfirm, Send, Refused, NoReply
    <3>5. CASE \E point \in {"story.file", "draft.file", "graph.call", "chat.begin"} : Arrive(h, point)
      BY <1>0, <3>5 DEF Arrive, NoReply
    <3> QED
      BY <1>2, <3>1, <3>2, <3>3, <3>4, <3>5
  <2> QED
    BY <1>1, <2>1, <2>2, <2>3
<1>3. CASE ChatDropped(h)
  <2>1. /\ UNCHANGED <<run, closer>> /\ closer = "closed"
        /\ request' = [request EXCEPT ![h] = "idle"]
    BY <1>3 DEF ChatDropped, Send, GoTo, vars, runVars
  <2> QED
    BY <1>0, <1>1, <2>1 DEF Overtaken
<1>4. CASE GetDraft(h)
  <2>1. UNCHANGED <<run, closer>> /\ request' = [request EXCEPT ![h] = "idle"]
    BY <1>4 DEF GetDraft, Send, GoTo, vars, runVars
  <2>2. CASE file = NoFile
    <3>1. Overtaken(stateRun[h])
      BY <1>4, <2>2, MissingIsOvertaken DEF GetDraft, At, LetIn, Overtaken
    <3>2. ~Readable
      BY <2>2 DEF Readable, NoFile
    <3>3. reply' = [reply EXCEPT ![h] = Dropped(stateRun[h])]
      BY <1>4, <2>2, <3>2 DEF GetDraft, Send
    <3>4. reply'[h].of = stateRun[h]
      BY <1>0, <3>3 DEF Dropped, NoReply
    <3> QED
      BY <1>0, <1>1, <2>1, <3>1, <3>4
  <2>3. CASE file # NoFile
    <3>1. reply'[h].kind # "dropped"
      BY <1>0, <1>4, <2>3 DEF GetDraft, Send, Refused, NoReply
    <3> QED
      BY <1>0, <1>1, <2>1, <3>1
  <2> QED
    BY <2>2, <2>3
<1>5. CASE GetAccepted(h)
  <2>1. /\ explore \in Done /\ stateRun' = [stateRun EXCEPT ![h] = run] /\ UNCHANGED reply
        /\ UNCHANGED <<run, explore, call, closer>> /\ call[h] = "none"
    BY <1>5 DEF GetAccepted, GoTo, At, Ended, Done, vars, runVars, checkVars
  <2> QED
    BY <1>0, <2>1 DEF LetIn, Overtaken
<1>6. CASE GetCheck(h)
  <2>1. /\ request[h] = "story.check" /\ request' = [request EXCEPT ![h] = "story.checking"]
        /\ UNCHANGED <<run, explore, closer, stateRun, reply>>
    BY <1>6 DEF GetCheck, GoTo, At, localVars, runVars
  <2>2. call'[h] # "check.missing"
    BY <1>0, <1>6 DEF GetCheck, CheckBegin
  <2> QED
    BY <1>0, <2>1, <2>2 DEF LetIn, Overtaken
<1>7. CASE GetChecked(h)
  <2>1. UNCHANGED <<run, closer>> /\ request' = [request EXCEPT ![h] = "idle"]
    BY <1>7 DEF GetChecked, Send, GoTo, runVars
  <2>2. CASE call[h] = "check.missing"
    <3>1. Overtaken(stateRun[h])
      BY <1>7, <2>2 DEF GetChecked, LetIn
    <3>2. reply' = [reply EXCEPT ![h] = Dropped(stateRun[h])]
      BY <1>7, <2>2 DEF GetChecked, Send
    <3>3. reply'[h].of = stateRun[h]
      BY <1>0, <3>2 DEF Dropped, NoReply
    <3> QED
      BY <1>0, <1>1, <2>1, <3>1, <3>3
  <2>3. CASE call[h] # "check.missing"
    <3>1. reply'[h].kind # "dropped"
      BY <1>0, <1>7, <2>3 DEF GetChecked, Send, Refused, NoReply
    <3> QED
      BY <1>0, <1>1, <2>1, <3>1
  <2> QED
    BY <2>2, <2>3
<1>8. CASE GetGraph(h) \/ ChatSnapshot(h) \/ ChatCheck(h) \/ ChatChecked(h)
  <2>1. UNCHANGED <<run, closer>>
    BY <1>8 DEF GetGraph, CallGraph, ChatSnapshot, CallSnapshot, ChatCheck, ChatChecked, runVars
  <2>2. reply'[h] = reply[h] \/ reply'[h].kind # "dropped"
    BY <1>0, <1>8 DEF GetGraph, ChatSnapshot, ChatCheck, ChatChecked, Send, Refused, NoReply
  <2>3. request'[h] \notin {"story.check", "story.checking", "draft.read"}
    <3>1. CASE ChatSnapshot(h)
      <4>1. PICK c \in SnapshotCalls : GoTo(h, c[2])
        BY <3>1 DEF ChatSnapshot
      <4> QED
        BY <1>0, <4>1, CallPoints DEF GoTo
    <3>2. CASE GetGraph(h) \/ ChatCheck(h) \/ ChatChecked(h)
      BY <1>0, <3>2 DEF GetGraph, ChatCheck, ChatChecked, Send, GoTo
    <3> QED
      BY <1>8, <3>1, <3>2
  <2> QED
    BY <1>1, <2>1, <2>2, <2>3
<1>9. CASE InCall(h)
  <2>1. UNCHANGED <<run, explore, closer, request, stateRun, reply>>
    BY <1>9
    DEF InCall, ReadStep, SnapshotNotDone, SnapshotDone, SnapshotRead, GraphReturns, runVars,
        storyVars
  <2>2. call'[h] = "check.missing" => file = NoFile
    BY <1>0, <1>9
    DEF InCall, ReadStep, SnapshotNotDone, SnapshotDone, SnapshotRead, GraphReturns, CheckBuild,
        CheckInstall
  <2> QED
    BY <2>1, <2>2, MissingIsOvertaken DEF LetIn, Overtaken
<1> QED
  BY <1>2, <1>3, <1>4, <1>5, <1>6, <1>7, <1>8, <1>9 DEF HandlerStep

-----------------------------------------------------------------------------
(* The theorems *)

LEMMA StoryStep == StoryInv /\ [StoriesNext]_allVars => StoryInv'
<1> SUFFICES ASSUME StoryInv, [StoriesNext]_allVars PROVE StoryInv'
  OBVIOUS
<1>1. [Next]_vars /\ IInv
  BY StepIsStep DEF StoryInv
<1>2. IInv' /\ Bounded' /\ StoryTypeOK'
  BY <1>1, TypeStep, LockStep, RunInvStep, FileStep, CacheStep, BoundedStep, StoryTypeStep
  DEF IInv, StoryInv
<1>3. ASSUME NEW h \in Handlers PROVE Calling(h)' /\ Timely(h)' /\ Sent(h)'
  <2>1. CASE HandlerStep(h) \/ \E point \in {"story.file", "draft.file", "graph.call", "chat.begin"} :
                                 Arrive(h, point)
    BY <1>1, <2>1, OwnStep
  <2>2. ASSUME NEW g \in Handlers, g # h,
               HandlerStep(g) \/ \E point \in Points : Arrive(g, point)
        PROVE  Calling(h)' /\ Timely(h)' /\ Sent(h)'
    BY <1>1, <2>2, OtherHandler, FramedKeeps
  <2>3. CASE \/ MainStep \/ (\E r \in Runs : RunStep(r)) \/ (CloseStep /\ UNCHANGED storyVars)
             \/ UNCHANGED allVars
    BY <1>1, <2>3, OthersFrame, FramedKeeps
  <2> QED
    BY <2>1, <2>2, <2>3 DEF StoriesNext, Stopped, Points
<1> QED
  BY <1>2, <1>3 DEF StoryInv

LEMMA StoryInvariance == StoriesSpec => []StoryInv
  BY StoryInit, StoryStep, PTL DEF StoriesSpec

\* Why a chat story is of one snapshot: what it was drafted from and checked
\* against is no older than the Snapshot the request began with, and when the
\* last look finds that Snapshot again, it is no newer either.
(* _answer_story(): a story that is sent was drafted from, and checked     *)
(* against, one Snapshot.                                                  *)
THEOREM ChatStoryOfOneSnapshot == StoriesSpec => []ChatStoryIsOfOneSnapshot
<1>1. StoryInv => ChatStoryIsOfOneSnapshot
  BY DEF StoryInv, Sent, ChatStoryIsOfOneSnapshot
<1> QED
  BY <1>1, StoryInvariance, PTL

\* The file, the cached session and a session about to be installed are no
\* older than a run that has been seen to end well.
(* _stories(): the check of a story is made against no run before the    *)
(* one whose state let the request in.                                     *)
THEOREM StoryCheckNotOlder == StoriesSpec => []StoryCheckIsNotOlder
<1>1. StoryInv => StoryCheckIsNotOlder
  BY DEF StoryInv, Sent, StoryCheckIsNotOlder
<1> QED
  BY <1>1, StoryInvariance, PTL

(* _stories(): a request that the state has let in is dropped for want of  *)
(* the file only when start() has gone on to a later run or close() has    *)
(* removed the folder; neither is undone.                                  *)
THEOREM DropsOnlyOvertaken == StoriesSpec => []DroppedOnlyWhenOvertaken
<1> DEFINE LetInv == StoryInv /\ \A h \in Handlers : LetIn(h)
<1>1. StoriesInit => LetInv
  BY StoryInit DEF StoriesInit, NoReply, LetIn
<1>2. LetInv /\ [StoriesNext]_allVars => LetInv'
  <2> SUFFICES ASSUME LetInv, [StoriesNext]_allVars PROVE LetInv'
    OBVIOUS
  <2>1. [Next]_vars /\ StoryInv'
    BY StepIsStep, StoryStep
  <2>2. ASSUME NEW h \in Handlers PROVE LetIn(h)'
    <3>1. CASE HandlerStep(h) \/ \E point \in {"story.file", "draft.file", "graph.call", "chat.begin"} :
                                   Arrive(h, point)
      BY <2>1, <3>1, LetInStep
    <3>2. ASSUME NEW g \in Handlers, g # h,
                 HandlerStep(g) \/ \E point \in Points : Arrive(g, point)
          PROVE  LetIn(h)'
      BY <2>1, <3>2, OtherHandler, LetInFramed
    <3>3. CASE \/ MainStep \/ (\E r \in Runs : RunStep(r)) \/ (CloseStep /\ UNCHANGED storyVars)
               \/ UNCHANGED allVars
      BY <2>1, <3>3, OthersFrame, LetInFramed
    <3> QED
      BY <3>1, <3>2, <3>3 DEF StoriesNext, Stopped, Points
  <2> QED
    BY <2>1, <2>2
<1>3. LetInv => DroppedOnlyWhenOvertaken
  BY DEF LetIn, Overtaken, DroppedOnlyWhenOvertaken
<1> QED
  BY <1>1, <1>2, <1>3, PTL DEF StoriesSpec
=============================================================================
