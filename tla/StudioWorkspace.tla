--------------------------- MODULE StudioWorkspace --------------------------
(***************************************************************************)
(* Workspace of Studio: one folder, one explore run at a time.             *)
(*                                                                         *)
(* start() spawns the explore child and a daemon thread that waits for it; *)
(* handler threads read the run's snapshot and graph while runs come and   *)
(* go; close() stops the child and removes the folder.  Two locks,         *)
(* _graph_lock and then _lock, guard the state, but architecture.json is   *)
(* written by the child and read by the waiter and by the story checker    *)
(* with no lock at all, so a run's file and a run's state change at        *)
(* different moments.                                                      *)
(***************************************************************************)
EXTENDS StoryCheck

CONSTANTS NoThread,    \* nobody holds a lock
          Closer       \* the main thread inside close()

\* A run number also names the thread that waits for that run.
ASSUME ThreadsAssumption ==
  /\ Threads \cap Runs = {}
  /\ NoThread \notin Threads \cup Runs
  /\ Closer \notin Threads \cup Runs \cup {NoThread}

VARIABLES graphLock, stateLock,  \* holders of _graph_lock and _lock
          run,        \* the number of runs started; names the current one
          explore,    \* _run.explore
          exit,       \* exit code of each explore child: 0, 2 or another (1)
          graph,      \* _graph: the run whose call graph is held
          snapshot,   \* _snapshot: the cached Snapshot
          child,      \* _child: the run whose process it is
          proc,       \* what the explore process of each run is doing
          waiter,     \* where the _wait thread of each run is
          built,      \* the graph that _wait thread has built
          seen,       \* the explore state a reader has read under _lock
          result,     \* what snapshot() last returned to each thread
          closer      \* where close() is

lockVars == <<graphLock, stateLock>>
runVars == <<run, explore, graph, snapshot, child>>
procVars == <<exit, proc>>
waitVars == <<waiter, built>>
readVars == <<seen, result>>
vars == <<checkVars, lockVars, runVars, procVars, waitVars, readVars, closer>>

ExploreStates == {"idle", "running", "done", "incomplete", "failed"}
Done == {"done", "incomplete"}

\* A Snapshot object is known by the run it was read from, and by the
\* completeness stamped on it; NoSnapshot is None.
NoSnapshot == [of |-> NoRun, completeness |-> "none"]
Files == [by : Runs, whole : BOOLEAN] \cup {NoFile}
Snapshots == [of : Runs, completeness : {"complete", "incomplete"}] \cup {NoSnapshot}
Completeness(state) == IF state = "incomplete" THEN "incomplete" ELSE "complete"

Free(lock) == lock = NoThread
Live(r) == proc[r] \in {"scanning", "writing", "wrote"}

Init ==
  /\ CheckInit
  /\ graphLock = NoThread /\ stateLock = NoThread
  /\ run = 0 /\ explore = "idle" /\ graph = NoRun /\ snapshot = NoSnapshot /\ child = NoRun
  /\ exit = [r \in Runs |-> 0] /\ proc = [r \in Runs |-> "none"]
  /\ waiter = [r \in Runs |-> "none"] /\ built = [r \in Runs |-> NoRun]
  /\ seen = [t \in Threads |-> "idle"] /\ result = [t \in Threads |-> NoSnapshot]
  /\ closer = "open"

-----------------------------------------------------------------------------
(* start() *)

\* Faults: start() does not look at the state; it keeps the graph, or the
\* Snapshot, of the run before.
StartsAnyway == TRUE
GraphKept == graph
SnapshotKept == snapshot

\* No explore run is under way.
MayStart == explore # "running"

\* What start() leaves of the last run.
GraphAtStart == NoRun
SnapshotAtStart == NoSnapshot

\* run_studio calls start() and close() from one thread, so no start()
\* begins once close() has.
CallStart(t) ==
  /\ call[t] = "none" /\ closer = "open" /\ run < MaxRuns
  /\ Free(graphLock)
  /\ graphLock' = t
  /\ call' = [call EXCEPT ![t] = "start.graph"]
  /\ UNCHANGED <<file, generation, cached, asked, session, stateLock, runVars, procVars,
                 waitVars, readVars, closer>>

\* A run is under way: start() has nothing to do.
StartBusy(t) ==
  /\ call[t] = "start.graph" /\ Free(stateLock)
  /\ explore = "running"
  /\ graphLock' = NoThread
  /\ call' = [call EXCEPT ![t] = "none"]
  /\ UNCHANGED <<file, generation, cached, asked, session, stateLock, runVars, procVars,
                 waitVars, readVars, closer>>

\* Both locks held: drop the checker's session and the graph of the last run.
StartBegin(t) ==
  /\ call[t] = "start.graph" /\ Free(stateLock)
  /\ MayStart
  /\ stateLock' = t
  /\ Clear
  /\ run' = run + 1
  /\ explore' = "running"
  /\ graph' = GraphAtStart
  /\ call' = [call EXCEPT ![t] = "start.begun"]
  /\ UNCHANGED <<file, asked, session, graphLock, snapshot, child, procVars, waitVars,
                 readVars, closer>>

\* The old file may still be read, by threads that hold no lock, until here.
StartUnlink(t) ==
  /\ call[t] = "start.begun"
  /\ file' = NoFile
  /\ snapshot' = SnapshotAtStart
  /\ call' = [call EXCEPT ![t] = "start.unlinked"]
  /\ UNCHANGED <<generation, cached, asked, session, lockVars, run, explore, graph, child,
                 procVars, waitVars, readVars, closer>>

StartSpawn(t) ==
  /\ call[t] = "start.unlinked"
  /\ child' = run
  /\ proc' = [proc EXCEPT ![run] = "scanning"]
  /\ graphLock' = NoThread /\ stateLock' = NoThread
  /\ call' = [call EXCEPT ![t] = "start.spawned"]
  /\ UNCHANGED <<file, generation, cached, asked, session, run, explore, graph, snapshot,
                 exit, waitVars, readVars, closer>>

\* Popen raises: the locks are released, and the state stays RUNNING.
StartPopenFails(t) ==
  /\ call[t] = "start.unlinked"
  /\ graphLock' = NoThread /\ stateLock' = NoThread
  /\ call' = [call EXCEPT ![t] = "none"]
  /\ UNCHANGED <<file, generation, cached, asked, session, runVars, procVars, waitVars,
                 readVars, closer>>

\* The argument self._child is read after both locks are released.
StartWaiter(t) ==
  /\ call[t] = "start.spawned"
  /\ waiter' = [waiter EXCEPT ![child] = "waiting"]
  /\ call' = [call EXCEPT ![t] = "none"]
  /\ UNCHANGED <<file, generation, cached, asked, session, lockVars, runVars, procVars,
                 built, readVars, closer>>

-----------------------------------------------------------------------------
(* The explore child: it scans, writes architecture.json, renders, exits.  *)

ExploreOpensFile(r) ==
  /\ proc[r] = "scanning"
  /\ proc' = [proc EXCEPT ![r] = "writing"]
  /\ file' = [by |-> r, whole |-> FALSE]
  /\ UNCHANGED <<generation, cached, call, asked, session, lockVars, runVars, exit, waitVars,
                 readVars, closer>>

ExploreWritesFile(r) ==
  /\ proc[r] = "writing"
  /\ proc' = [proc EXCEPT ![r] = "wrote"]
  /\ file' = [by |-> r, whole |-> TRUE]
  /\ UNCHANGED <<generation, cached, call, asked, session, lockVars, runVars, exit, waitVars,
                 readVars, closer>>

\* Exit 0 follows a whole file; exit 2 and a crash may come at any moment.
ExploreExits(r, code) ==
  /\ Live(r)
  /\ code = 0 => proc[r] = "wrote"
  /\ proc' = [proc EXCEPT ![r] = "exited"]
  /\ exit' = [exit EXCEPT ![r] = code]
  /\ UNCHANGED <<checkVars, lockVars, runVars, waitVars, readVars, closer>>

ExploreStep(r) ==
  \/ ExploreOpensFile(r) \/ ExploreWritesFile(r) \/ \E code \in {0, 1, 2} : ExploreExits(r, code)

-----------------------------------------------------------------------------
(* _wait(), the daemon thread of run r *)

\* Fault: only a run that ended by itself is waited for.
ChildEndedWell(r) == proc[r] = "exited" /\ exit[r] \in {0, 2}

ChildEnded(r) == proc[r] = "exited"

\* communicate() has returned: build the graph, outside the locks.
WaiterReads(r) ==
  /\ waiter[r] = "waiting" /\ ChildEnded(r)
  /\ built' = [built EXCEPT ![r] = IF exit[r] \in {0, 2} /\ Readable THEN file.by ELSE NoRun]
  /\ waiter' = [waiter EXCEPT ![r] = "built"]
  /\ UNCHANGED <<checkVars, lockVars, runVars, procVars, readVars, closer>>

WaiterLocks(r) ==
  /\ waiter[r] = "built" /\ Free(graphLock)
  /\ graphLock' = r
  /\ waiter' = [waiter EXCEPT ![r] = "locked"]
  /\ UNCHANGED <<checkVars, stateLock, runVars, procVars, built, readVars, closer>>

\* The end of the run under both locks; nothing that is read without a lock
\* changes in between, so the block is one step.
WaiterPublishes(r) ==
  /\ waiter[r] = "locked" /\ Free(stateLock)
  /\ Clear
  /\ graph' = built[r]
  /\ explore' = IF built[r] = NoRun THEN "failed"
                ELSE IF exit[r] = 2 THEN "incomplete" ELSE "done"
  /\ graphLock' = NoThread
  /\ waiter' = [waiter EXCEPT ![r] = "ended"]
  /\ UNCHANGED <<file, call, asked, session, stateLock, run, snapshot, child, procVars, built,
                 readVars, closer>>

WaiterStep(r) == WaiterReads(r) \/ WaiterLocks(r) \/ WaiterPublishes(r)

-----------------------------------------------------------------------------
(* snapshot() and graph(), called by the handler threads *)

\* Fault: the file is read without _graph_lock.
DropsGraphLock == graphLock' = NoThread

CallSnapshot(t) ==
  /\ call[t] = "none" /\ Free(graphLock)
  /\ graphLock' = t
  /\ call' = [call EXCEPT ![t] = "snapshot.graph"]
  /\ UNCHANGED <<file, generation, cached, asked, session, stateLock, runVars, procVars,
                 waitVars, readVars, closer>>

\* _graph_lock is held from the read of the state to the read of the file.
HoldWhileReading == UNCHANGED graphLock

\* Under _lock: no run has ended well, so there is no snapshot.
SnapshotNotDone(t) ==
  /\ call[t] = "snapshot.graph" /\ Free(stateLock)
  /\ explore \notin Done
  /\ result' = [result EXCEPT ![t] = NoSnapshot]
  /\ graphLock' = NoThread
  /\ call' = [call EXCEPT ![t] = "none"]
  /\ UNCHANGED <<file, generation, cached, asked, session, stateLock, runVars, procVars,
                 waitVars, seen, closer>>

SnapshotDone(t) ==
  /\ call[t] = "snapshot.graph" /\ Free(stateLock)
  /\ explore \in Done
  /\ seen' = [seen EXCEPT ![t] = explore]
  /\ call' = [call EXCEPT ![t] = "snapshot.read"]
  /\ HoldWhileReading
  /\ UNCHANGED <<file, generation, cached, asked, session, stateLock, runVars, procVars,
                 waitVars, result, closer>>

\* Decode the file unless a Snapshot is cached; the state seen before, under
\* the lock, says how complete it is.
SnapshotRead(t) ==
  /\ call[t] = "snapshot.read"
  /\ snapshot' = IF snapshot = NoSnapshot /\ Readable
                   THEN [of |-> file.by, completeness |-> Completeness(seen[t])]
                   ELSE snapshot
  /\ result' = [result EXCEPT ![t] = snapshot']
  /\ graphLock' = NoThread
  /\ call' = [call EXCEPT ![t] = "none"]
  /\ UNCHANGED <<file, generation, cached, asked, session, stateLock, run, explore, graph,
                 child, procVars, waitVars, seen, closer>>

CallGraph(t) ==
  /\ call[t] = "none" /\ Free(graphLock)
  /\ graphLock' = t
  /\ call' = [call EXCEPT ![t] = "graph.graph"]
  /\ UNCHANGED <<file, generation, cached, asked, session, stateLock, runVars, procVars,
                 waitVars, readVars, closer>>

\* graph() builds the graph itself when the run is done and nobody has.
GraphReturns(t) ==
  /\ call[t] = "graph.graph" /\ Free(stateLock)
  /\ graph' = IF graph = NoRun /\ explore \in Done /\ Readable THEN file.by ELSE graph
  /\ graphLock' = NoThread
  /\ call' = [call EXCEPT ![t] = "none"]
  /\ UNCHANGED <<file, generation, cached, asked, session, stateLock, run, explore, snapshot,
                 child, procVars, waitVars, readVars, closer>>

-----------------------------------------------------------------------------
(* close() *)

Starting(t) == call[t] \in {"start.graph", "start.begun", "start.unlinked", "start.spawned"}

CloseLocks ==
  /\ closer = "open" /\ Free(stateLock)
  /\ \A t \in Threads : ~Starting(t)
  /\ stateLock' = Closer
  /\ closer' = "locked"
  /\ UNCHANGED <<checkVars, graphLock, runVars, procVars, waitVars, readVars>>

\* Fault: close() signals the child and does not wait for its end.
CloseSignalsChild ==
  /\ closer = "locked"
  /\ stateLock' = NoThread
  /\ closer' = "reaped"
  /\ UNCHANGED <<checkVars, graphLock, runVars, procVars, waitVars, readVars>>

\* SIGINT, then SIGKILL after the unwind time: however the child ends, close()
\* reaps it before it goes on.  A child that has ended already is left alone.
CloseEndsChild ==
  /\ closer = "locked"
  /\ IF child # NoRun /\ Live(child)
       THEN /\ proc' = [proc EXCEPT ![child] = "exited"]
            /\ exit' = [exit EXCEPT ![child] = 1]
       ELSE UNCHANGED procVars
  /\ stateLock' = NoThread
  /\ closer' = "reaped"
  /\ UNCHANGED <<checkVars, graphLock, runVars, waitVars, readVars>>

\* rmtree, with no lock.
CloseRemoves ==
  /\ closer = "reaped"
  /\ file' = NoFile
  /\ closer' = "closed"
  /\ UNCHANGED <<generation, cached, call, asked, session, lockVars, runVars, procVars,
                 waitVars, readVars>>

-----------------------------------------------------------------------------

StartStep(t) ==
  \/ StartBusy(t) \/ StartBegin(t) \/ StartUnlink(t) \/ StartSpawn(t) \/ StartPopenFails(t)
  \/ StartWaiter(t)
ReadStep(t) == SnapshotNotDone(t) \/ SnapshotDone(t) \/ SnapshotRead(t) \/ GraphReturns(t)
CheckCall(t) ==
  CheckStep(t) /\ UNCHANGED <<lockVars, runVars, procVars, waitVars, readVars, closer>>
CloseStep == CloseLocks \/ CloseEndsChild \/ CloseRemoves

Next ==
  \/ \E t \in Threads :
       CallStart(t) \/ StartStep(t) \/ CallSnapshot(t) \/ CallGraph(t) \/ ReadStep(t) \/ CheckCall(t)
  \/ \E r \in Runs : ExploreStep(r) \/ WaiterStep(r)
  \/ CloseStep

Spec == Init /\ [][Next]_vars
-----------------------------------------------------------------------------
(* Properties *)

Calls == {"none", "check.build", "check.install", "checked", "check.raised", "check.missing",
          "start.graph", "start.begun", "start.unlinked", "start.spawned", "snapshot.graph",
          "snapshot.read", "graph.graph"}

\* The types of the variables.
TypeOK ==
  /\ file \in Files
  /\ generation \in Nat /\ asked \in [Threads -> Nat]
  /\ cached \in 0..MaxRuns /\ session \in [Threads -> 0..MaxRuns]
  /\ call \in [Threads -> Calls]
  /\ graphLock \in Threads \cup Runs \cup {NoThread}
  /\ stateLock \in Threads \cup {NoThread, Closer}
  /\ run \in 0..MaxRuns /\ explore \in ExploreStates
  /\ graph \in 0..MaxRuns /\ snapshot \in Snapshots /\ child \in 0..MaxRuns
  /\ exit \in [Runs -> {0, 1, 2}]
  /\ proc \in [Runs -> {"none", "scanning", "writing", "wrote", "exited"}]
  /\ waiter \in [Runs -> {"none", "waiting", "built", "locked", "ended"}]
  /\ built \in [Runs -> 0..MaxRuns]
  /\ seen \in [Threads -> ExploreStates] /\ result \in [Threads -> Snapshots]
  /\ closer \in {"open", "locked", "reaped", "closed"}

\* Workspace: "one explore run at a time; only the explore child writes, into
\* `folder`".  Whoever restarts and in whatever order, a live child is the
\* child of the current run and the state says RUNNING, so no two children
\* ever write the folder and no run is called ended while its child writes.
OneExploreAtATime == \A r \in Runs : Live(r) => r = run /\ r = child /\ explore = "running"

\* A spawned child is always waited for: start() has dropped both locks when
\* it reads self._child, and still no other start() can slip in between, so
\* the run that shows as RUNNING has its own _wait thread, and only that one.
RunningIsWaitedFor ==
  /\ explore = "running" /\ child = run /\ (\A t \in Threads : ~Starting(t))
       => waiter[run] \in {"waiting", "built", "locked"}
  /\ \A r \in Runs : waiter[r] \in {"waiting", "built", "locked"} => r = run /\ explore = "running"

\* "The graph of an earlier run must not outlive it", "an older valid snapshot
\* cannot prove this run": once a run has ended well, the graph, the cached
\* Snapshot and the file are all its own, and until then no graph is held.
EndedRunIsServedWhole ==
  IF explore \in Done
    THEN /\ graph = run
         /\ snapshot.of \in {NoRun, run}
         /\ file = [by |-> run, whole |-> TRUE] \/ closer = "closed"
    ELSE graph = NoRun

\* A Snapshot is called incomplete exactly when its run exited with 2: the
\* completeness a reader has seen is never paired with the file of the next
\* run, and an answer keeps what it was told.
CompletenessIsHonest ==
  \A s \in {snapshot} \cup {result[t] : t \in Threads} :
    s # NoSnapshot => (s.completeness = "incomplete" <=> exit[s.of] = 2)

\* "A new run reuses the snapshot path; discard any session built before it
\* replaced it": when no run is under way, the story checker's cached session
\* is that of the current run.
CachedSessionIsCurrent == explore # "running" => cached \in {NoRun, run}

\* close() leaves no explore child behind.
NoChildAfterClose == closer \in {"reaped", "closed"} => \A r \in Runs : ~Live(r)

\* Workspace implements the service it promises to the handlers.
Service == INSTANCE SnapshotService WITH state <- explore, answer <- result,
                                         open <- (closer # "closed")
ServiceSpec == Service!Spec
=============================================================================
