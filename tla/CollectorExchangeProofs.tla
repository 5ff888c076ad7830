----------------------- MODULE CollectorExchangeProofs ----------------------
(***************************************************************************)
(* Proofs about CollectorExchange, for any request, any size of the pipes, *)
(* any limit, any output, and any set of plans.  The invariant adds to the *)
(* types: in which order the main thread came where it is, what its        *)
(* cleanup has done, what a result in the queue stands for, and how much   *)
(* the collector has written when it ends well.                            *)
(***************************************************************************)
EXTENDS CollectorExchange, SequenceTheorems, TLAPS

Over == leader \in {"killed", "good", "bad"}

\* Nobody is left who could write to the stream, and all of it has been read.
Drained(s) ==
  s # "stdin" =>
    /\ Over /\ child = "none"
    /\ IF s = "stdout" THEN outRead = outMade ELSE errRead = errMade

OrderInv ==
  /\ main = "spawn" => leader = "none"
  /\ leader = "none" =>
       /\ main \in {"spawn", "returned"} /\ child = "none" /\ queue = <<>>
       /\ \A s \in Streams : worker[s] = "none"
       /\ main = "returned" => outcome = "MISSING_TOOL"
  /\ main \in {"spawn", "exchange", "wait"} => raised = "none"
  /\ raised = "none" /\ leader # "none" /\ main # "exchange" => results = Streams
  /\ raised = "none" /\ main \notin {"exchange", "wait"} => leader # "running"
  /\ main # "returned" => outcome = "none"

CleanupInv ==
  /\ main \in {"spawn", "exchange", "wait", "kill"} => ~failures
  /\ main \in {"close", "join", "exit", "returned"} /\ ~failures =>
       leader # "running" /\ child # "group"
  /\ main \in {"exit", "returned"} /\ ~failures => WorkersStopped
  /\ main = "returned" /\ leader # "none" => Over /\ outcome \in Verdicts

\* What a result stands for from the moment it is posted.
Meant(post) ==
  \/ post.result = "ok" /\ Drained(post.name)
  \/ post.result = "PROTOCOL_ERROR" /\ OutLimit < outMade

QueueInv ==
  /\ \A n \in 1 .. Len(queue) : Meant(queue[n])
  /\ \A s \in results : Drained(s)
  /\ raised # "MISSING_TOOL"
  /\ raised = "PROTOCOL_ERROR" => OutLimit < outMade

OutputInv == outMade <= plan.out /\ (leader = "good" => outMade = plan.out)

IInv == TypeOK /\ OrderInv /\ CleanupInv /\ QueueInv /\ OutputInv

-----------------------------------------------------------------------------
(* Types *)

Post == [name : Streams, result : {"ok", "MISSING_TOOL", "PROTOCOL_ERROR"}]

LEMMA Posted == ASSUME NEW s \in Streams, NEW what \in {"ok", "PROTOCOL_ERROR"}
                PROVE  [name |-> s, result |-> what] \in Post
  BY DEF Post

LEMMA Planned ==
  TypeOK => /\ plan.out \in 0..MaxOut /\ plan.err \in 0..MaxErr /\ plan.reads \in Nat
            /\ plan.code \in {"good", "bad"}
  BY ExchangeAssumption DEF TypeOK

LEMMA TypeInit == Init => TypeOK
<1> SUFFICES ASSUME Init PROVE TypeOK
  OBVIOUS
<1>1. queue \in Seq(Post)
  BY EmptySeq DEF Init
<1>2. worker \in [Streams -> {"none", "running", "done"}]
  BY DEF Init
<1>3. failures \in BOOLEAN /\ closedIn \in BOOLEAN /\ pipesClosed \in BOOLEAN
  BY DEF Init
<1> QED
  BY <1>1, <1>2, <1>3, ExchangeAssumption DEF Init, TypeOK, MainStates, Outcomes, Post

\* The result the main thread takes, and the ones it leaves.
LEMMA FirstPost ==
  TypeOK /\ queue # <<>> =>
    /\ Head(queue) \in Post /\ Tail(queue) \in Seq(Post) /\ Len(queue) \in Nat \ {0}
    /\ Head(queue) = queue[1] /\ Len(Tail(queue)) = Len(queue) - 1
    /\ \A n \in 1 .. Len(Tail(queue)) : Tail(queue)[n] = queue[n + 1]
<1> SUFFICES ASSUME TypeOK, queue # <<>>
             PROVE  /\ Head(queue) \in Post /\ Tail(queue) \in Seq(Post)
                    /\ Len(queue) \in Nat \ {0}
                    /\ Head(queue) = queue[1] /\ Len(Tail(queue)) = Len(queue) - 1
                    /\ \A n \in 1 .. Len(Tail(queue)) : Tail(queue)[n] = queue[n + 1]
  OBVIOUS
<1>1. queue \in Seq(Post)
  BY DEF TypeOK, Post
<1> QED
  BY <1>1, HeadTailProperties, EmptySeq, LenProperties

LEMMA MainTypes == TypeOK /\ MainStep => TypeOK'
<1> SUFFICES ASSUME TypeOK, MainStep PROVE TypeOK'
  OBVIOUS
<1> USE DEF TypeOK, MainStates, Outcomes, pipeVars, procVars
<1>1. CASE Spawns
  BY <1>1 DEF Spawns
<1>2. CASE Receives
  <2>1. Head(queue) \in Post /\ Tail(queue) \in Seq(Post)
    BY <1>2, FirstPost DEF Receives
  <2>2. main' \in MainStates /\ results' \subseteq Streams
        /\ raised' \in {"none", "TIMEOUT", "interrupted", "MISSING_TOOL", "PROTOCOL_ERROR"}
    BY <1>2, <2>1 DEF Receives, Raise, Post
  <2> QED
    BY <1>2, <2>1, <2>2 DEF Receives, Post
<1>3. CASE Waits
  BY <1>3 DEF Waits
<1>4. CASE Terminates
  <2>1. failures' \in BOOLEAN
    BY <1>4 DEF Terminates
  <2>2. /\ leader' \in {"none", "running", "killed", "good", "bad"}
        /\ child' \in {"none", "group", "escaped"}
    BY <1>4 DEF Terminates, KillsGroup
  <2> QED
    BY <1>4, <2>1, <2>2 DEF Terminates
<1>5. CASE ClosesPipes
  BY <1>5 DEF ClosesPipes
<1>6. CASE Joins
  BY <1>6 DEF Joins
<1>7. CASE Returns
  BY <1>7 DEF Returns, Verdicts
<1> QED
  BY <1>1, <1>2, <1>3, <1>4, <1>5, <1>6, <1>7 DEF MainStep

\* A worker that posts changes two variables.
LEMMA PostTypes ==
  ASSUME TypeOK, NEW s \in Streams, NEW what \in {"ok", "PROTOCOL_ERROR"}, Posts(s, what)
  PROVE  /\ queue' \in Seq(Post) /\ worker' \in [Streams -> {"none", "running", "done"}]
         /\ UNCHANGED <<main, results, raised, failures, outcome>>
<1>1. queue \in Seq(Post)
  BY DEF TypeOK, Post
<1>2. Append(queue, [name |-> s, result |-> what]) \in Seq(Post)
  BY <1>1, Posted, AppendProperties
<1> QED
  BY <1>2 DEF Posts, TypeOK

LEMMA WorkerTypes == TypeOK /\ WorkerStep => TypeOK'
<1> SUFFICES ASSUME TypeOK, WorkerStep PROVE TypeOK'
  OBVIOUS
<1> USE ExchangeAssumption DEF TypeOK, Post, pipeVars, procVars, mainVars
<1>1. CASE Writes
  BY <1>1 DEF Writes
<1>2. CASE WriteEnds
  BY <1>2, PostTypes DEF WriteEnds, Streams
<1>3. CASE WriteBreaks
  BY <1>3, PostTypes DEF WriteBreaks, BrokenPipe, Streams
<1>4. CASE ReadsOut
  <2>1. CASE LimitReached
    BY <1>4, <2>1, PostTypes DEF ReadsOut, Streams
  <2>2. CASE ~LimitReached
    BY <1>4, <2>2 DEF ReadsOut, LimitReached
  <2> QED
    BY <2>1, <2>2
<1>5. CASE ReadOutEnds
  BY <1>5, PostTypes DEF ReadOutEnds, Streams
<1>6. CASE ReadsErr
  BY <1>6 DEF ReadsErr
<1>7. CASE ReadErrEnds
  BY <1>7, PostTypes DEF ReadErrEnds, Streams
<1>8. ASSUME NEW s \in Streams, StopsAtClose(s) PROVE TypeOK'
  BY <1>8 DEF StopsAtClose
<1> QED
  BY <1>1, <1>2, <1>3, <1>4, <1>5, <1>6, <1>7, <1>8 DEF WorkerStep

\* What the collector, its child and the faults do.
OtherStep ==
  \/ CollectorStep \/ CollectorForks \/ ChildEnds
  \/ SpawnFails \/ TimesOut \/ JoinTimesOut \/ Interrupted
  \/ CollectorCrashes \/ ChildWrites

LEMMA OtherTypes == TypeOK /\ OtherStep => TypeOK'
<1> SUFFICES ASSUME TypeOK, OtherStep PROVE TypeOK'
  OBVIOUS
<1> USE ExchangeAssumption, Planned
    DEF TypeOK, MainStates, Outcomes, pipeVars, procVars, mainVars
<1>1. CASE CollectorReads
  BY <1>1 DEF CollectorReads
<1>2. CASE CollectorWritesOut
  BY <1>2 DEF CollectorWritesOut
<1>3. CASE CollectorWritesErr
  BY <1>3 DEF CollectorWritesErr
<1>4. CASE CollectorExits
  BY <1>4 DEF CollectorExits
<1>5. CASE CollectorForks
  BY <1>5 DEF CollectorForks
<1>6. CASE ChildEnds
  BY <1>6 DEF ChildEnds
<1>7. CASE CollectorCrashes
  BY <1>7 DEF CollectorCrashes
<1>8. CASE ChildWrites
  BY <1>8 DEF ChildWrites
<1>9. CASE SpawnFails
  BY <1>9 DEF SpawnFails
<1>10. CASE TimesOut
  BY <1>10 DEF TimesOut, Raise
<1>11. CASE JoinTimesOut
  BY <1>11 DEF JoinTimesOut, Stuck
<1>12. CASE Interrupted
  BY <1>12 DEF Interrupted, Raise
<1> QED
  BY <1>1, <1>2, <1>3, <1>4, <1>5, <1>6, <1>7, <1>8, <1>9, <1>10, <1>11, <1>12
  DEF OtherStep, CollectorStep

LEMMA Steps == [Next]_vars => MainStep \/ WorkerStep \/ OtherStep \/ UNCHANGED vars
  BY DEF Next, OtherStep

LEMMA TypeStep == TypeOK /\ [Next]_vars => TypeOK'
<1>1. TypeOK /\ UNCHANGED vars => TypeOK'
  BY DEF TypeOK, vars, mainVars, pipeVars, procVars
<1> QED
  BY <1>1, Steps, MainTypes, WorkerTypes, OtherTypes

-----------------------------------------------------------------------------
(* The order of the main thread, and what its cleanup has done *)

\* What the steps of the workers leave alone, whatever they post.
LEMMA WorkersOnly ==
  ASSUME TypeOK, OrderInv, WorkerStep
  PROVE  /\ UNCHANGED <<main, results, raised, failures, outcome, plan, leader, child, outMade>>
         /\ \A s \in Streams : worker'[s] = worker[s] \/ worker'[s] = "done"
         /\ leader # "none"
<1> USE DEF mainVars, pipeVars, procVars, Working, Posts, TypeOK, OrderInv, Streams
<1>1. CASE Writes
  BY <1>1 DEF Writes
<1>2. CASE WriteEnds
  BY <1>2 DEF WriteEnds
<1>3. CASE WriteBreaks
  BY <1>3 DEF WriteBreaks
<1>4. CASE ReadsOut
  BY <1>4 DEF ReadsOut
<1>5. CASE ReadOutEnds
  BY <1>5 DEF ReadOutEnds
<1>6. CASE ReadsErr
  BY <1>6 DEF ReadsErr
<1>7. CASE ReadErrEnds
  BY <1>7 DEF ReadErrEnds
<1>8. ASSUME NEW s \in Streams, StopsAtClose(s)
      PROVE  /\ UNCHANGED <<main, results, raised, failures, outcome, plan, leader, child, outMade>>
             /\ \A r \in Streams : worker'[r] = worker[r] \/ worker'[r] = "done"
             /\ leader # "none"
  BY <1>8 DEF StopsAtClose
<1> QED
  BY <1>1, <1>2, <1>3, <1>4, <1>5, <1>6, <1>7, <1>8 DEF WorkerStep

LEMMA OrderStep == TypeOK /\ OrderInv /\ [Next]_vars => OrderInv'
<1> SUFFICES ASSUME TypeOK, OrderInv, [Next]_vars PROVE OrderInv'
  OBVIOUS
<1>1. CASE MainStep
  <2> USE DEF OrderInv, TypeOK, mainVars, pipeVars, procVars
  <2>1. CASE Spawns
    BY <2>1 DEF Spawns
  <2>2. CASE Receives
    <3>1. Head(queue).name \in Streams /\ Head(queue).result # "none"
      BY <2>2, FirstPost DEF Receives, Post
    <3>2. leader # "none" /\ UNCHANGED <<leader, child, worker, outcome>> /\ main = "exchange"
      BY <2>2 DEF Receives
    <3>3. CASE Head(queue).result = "ok"
      <4>1. results' \subseteq Streams /\ main' \in {"wait", "exchange"} /\ raised' = raised
            /\ (main' = "wait" => Streams \subseteq results')
        BY <2>2, <3>1, <3>3 DEF Receives, Awaited
      <4> QED
        BY <3>2, <4>1
    <3>4. CASE Head(queue).result # "ok"
      BY <2>2, <3>1, <3>2, <3>4 DEF Receives, Raise
    <3> QED
      BY <3>3, <3>4
  <2>3. CASE Waits
    BY <2>3 DEF Waits
  <2>4. CASE Terminates
    <3>1. /\ main = "kill" /\ main' = "close"
          /\ UNCHANGED <<queue, results, raised, outcome, worker>>
          /\ leader' = leader \/ (leader = "running" /\ leader' = "killed")
      BY <2>4 DEF Terminates, KillsGroup
    <3> QED
      BY <3>1
  <2>5. CASE ClosesPipes
    BY <2>5 DEF ClosesPipes
  <2>6. CASE Joins
    BY <2>6 DEF Joins
  <2>7. CASE Returns
    BY <2>7 DEF Returns
  <2> QED
    BY <1>1, <2>1, <2>2, <2>3, <2>4, <2>5, <2>6, <2>7 DEF MainStep
<1>2. CASE WorkerStep
  BY <1>2, WorkersOnly DEF OrderInv
<1>3. CASE OtherStep
  <2> USE DEF OrderInv, mainVars, pipeVars, procVars
  <2>1. CASE CollectorStep \/ ChildWrites
    BY <2>1, Planned
    DEF CollectorStep, CollectorReads, CollectorWritesOut, CollectorWritesErr, CollectorExits,
        ChildWrites
  <2>2. CASE CollectorForks \/ ChildEnds \/ CollectorCrashes
    BY <2>2 DEF CollectorForks, ChildEnds, CollectorCrashes
  <2>3. CASE SpawnFails
    BY <2>3 DEF SpawnFails
  <2>4. CASE TimesOut \/ Interrupted
    BY <2>4 DEF TimesOut, Interrupted, Raise
  <2>5. CASE JoinTimesOut
    BY <2>5 DEF JoinTimesOut
  <2> QED
    BY <1>3, <2>1, <2>2, <2>3, <2>4, <2>5 DEF OtherStep
<1>4. CASE UNCHANGED vars
  BY <1>4 DEF OrderInv, vars, mainVars, procVars
<1> QED
  BY <1>1, <1>2, <1>3, <1>4, Steps

LEMMA CleanupStep == TypeOK /\ OrderInv /\ CleanupInv /\ [Next]_vars => CleanupInv'
<1> SUFFICES ASSUME TypeOK, OrderInv, CleanupInv, [Next]_vars PROVE CleanupInv'
  OBVIOUS
<1> USE DEF Over
<1>1. CASE MainStep
  <2> USE DEF CleanupInv, WorkersStopped, Verdicts, mainVars, pipeVars, procVars
  <2>1. CASE Spawns
    BY <2>1 DEF Spawns
  <2>2. CASE Receives
    BY <2>2 DEF Receives, Raise
  <2>3. CASE Waits
    BY <2>3 DEF Waits
  <2>4. CASE Terminates
    BY <2>4 DEF Terminates, KillsGroup
  <2>5. CASE ClosesPipes
    BY <2>5 DEF ClosesPipes
  <2>6. CASE Joins
    BY <2>6 DEF Joins
  <2>7. CASE Returns
    BY <2>7 DEF Returns, TypeOK
  <2> QED
    BY <1>1, <2>1, <2>2, <2>3, <2>4, <2>5, <2>6, <2>7 DEF MainStep
<1>2. CASE WorkerStep
  BY <1>2, WorkersOnly DEF CleanupInv, WorkersStopped, Verdicts
<1>3. CASE OtherStep
  <2> USE DEF CleanupInv, WorkersStopped, Verdicts, mainVars, pipeVars, procVars
  <2>1. CASE CollectorStep \/ ChildWrites
    BY <2>1, Planned
    DEF CollectorStep, CollectorReads, CollectorWritesOut, CollectorWritesErr, CollectorExits,
        ChildWrites
  <2>2. CASE CollectorForks \/ ChildEnds \/ CollectorCrashes
    BY <2>2 DEF CollectorForks, ChildEnds, CollectorCrashes
  <2>3. CASE SpawnFails
    BY <2>3 DEF SpawnFails, OrderInv
  <2>4. CASE TimesOut \/ Interrupted
    BY <2>4 DEF TimesOut, Interrupted, Raise
  <2>5. CASE JoinTimesOut
    BY <2>5 DEF JoinTimesOut, Stuck
  <2> QED
    BY <1>3, <2>1, <2>2, <2>3, <2>4, <2>5 DEF OtherStep
<1>4. CASE UNCHANGED vars
  BY <1>4 DEF CleanupInv, WorkersStopped, Verdicts, vars, mainVars, procVars
<1> QED
  BY <1>1, <1>2, <1>3, <1>4, Steps

-----------------------------------------------------------------------------
(* What a result in the queue stands for, and how much was written *)

LEMMA OutputStep == TypeOK /\ OutputInv /\ OrderInv /\ [Next]_vars => OutputInv'
<1> SUFFICES ASSUME TypeOK, OutputInv, OrderInv, [Next]_vars PROVE OutputInv'
  OBVIOUS
<1>1. CASE MainStep
  <2> USE DEF OutputInv, pipeVars, procVars
  <2>1. CASE Spawns
    BY <2>1 DEF Spawns
  <2>2. CASE Terminates
    BY <2>2 DEF Terminates, KillsGroup
  <2> QED
    BY <1>1, <2>1, <2>2 DEF MainStep, Receives, Waits, ClosesPipes, Joins, Returns
<1>2. CASE WorkerStep
  BY <1>2, WorkersOnly DEF OutputInv
<1>3. CASE OtherStep
  <2> USE DEF OutputInv, TypeOK, mainVars, pipeVars, procVars
  <2>1. CASE CollectorWritesOut
    BY <2>1, Planned DEF CollectorWritesOut
  <2>2. CASE ChildWrites
    BY <2>2, Planned DEF ChildWrites
  <2>3. CASE CollectorReads \/ CollectorWritesErr \/ CollectorExits
    BY <2>3 DEF CollectorReads, CollectorWritesErr, CollectorExits
  <2>4. CASE CollectorForks \/ ChildEnds \/ CollectorCrashes
    BY <2>4 DEF CollectorForks, ChildEnds, CollectorCrashes
  <2>5. CASE SpawnFails \/ TimesOut \/ JoinTimesOut \/ Interrupted
    BY <2>5 DEF SpawnFails, TimesOut, JoinTimesOut, Interrupted
  <2> QED
    BY <1>3, <2>1, <2>2, <2>3, <2>4, <2>5 DEF OtherStep, CollectorStep
<1>4. CASE UNCHANGED vars
  BY <1>4 DEF OutputInv, vars, pipeVars, procVars
<1> QED
  BY <1>1, <1>2, <1>3, <1>4, Steps

\* Nobody writes to a stream that has been drained, and more output than the
\* limit does not become less.
LEMMA MeantForEver ==
  ASSUME TypeOK, OrderInv, [Next]_vars
  PROVE  /\ \A s \in Streams : Drained(s) => Drained(s)'
         /\ OutLimit < outMade => OutLimit < outMade'
<1> USE DEF Drained, Over
<1>1. CASE MainStep
  <2> USE DEF pipeVars, procVars
  <2>1. CASE Spawns
    BY <2>1 DEF Spawns, OrderInv
  <2>2. CASE Terminates
    BY <2>2 DEF Terminates, KillsGroup
  <2>3. CASE ClosesPipes
    BY <2>3 DEF ClosesPipes
  <2> QED
    BY <1>1, <2>1, <2>2, <2>3 DEF MainStep, Receives, Waits, Joins, Returns
<1>2. CASE WorkerStep
  <2> USE DEF pipeVars, procVars, mainVars, TypeOK, Streams
  <2>1. CASE Writes
    BY <2>1 DEF Writes
  <2>2. CASE WriteEnds
    BY <2>2 DEF WriteEnds
  <2>3. CASE WriteBreaks
    BY <2>3 DEF WriteBreaks
  <2>4. CASE ReadsOut
    BY <2>4 DEF ReadsOut
  <2>5. CASE ReadOutEnds
    BY <2>5 DEF ReadOutEnds
  <2>6. CASE ReadsErr
    BY <2>6 DEF ReadsErr
  <2>7. CASE ReadErrEnds
    BY <2>7 DEF ReadErrEnds
  <2>8. CASE \E s \in Streams : StopsAtClose(s)
    BY <2>8 DEF StopsAtClose
  <2> QED
    BY <1>2, <2>1, <2>2, <2>3, <2>4, <2>5, <2>6, <2>7, <2>8 DEF WorkerStep
<1>3. CASE OtherStep
  <2> USE ExchangeAssumption DEF TypeOK, mainVars, pipeVars, procVars
  <2>1. CASE CollectorWritesOut
    BY <2>1 DEF CollectorWritesOut
  <2>2. CASE ChildWrites
    BY <2>2 DEF ChildWrites
  <2>3. CASE CollectorReads \/ CollectorWritesErr \/ CollectorExits
    BY <2>3 DEF CollectorReads, CollectorWritesErr, CollectorExits
  <2>4. CASE CollectorForks \/ ChildEnds \/ CollectorCrashes
    BY <2>4 DEF CollectorForks, ChildEnds, CollectorCrashes
  <2>5. CASE SpawnFails \/ TimesOut \/ JoinTimesOut \/ Interrupted
    BY <2>5 DEF SpawnFails, TimesOut, JoinTimesOut, Interrupted
  <2> QED
    BY <1>3, <2>1, <2>2, <2>3, <2>4, <2>5 DEF OtherStep, CollectorStep
<1>4. CASE UNCHANGED vars
  BY <1>4 DEF vars, pipeVars, procVars
<1> QED
  BY <1>1, <1>2, <1>3, <1>4, Steps

\* A worker posts what holds when it posts.
LEMMA PostStep ==
  ASSUME TypeOK, QueueInv, NEW s \in Streams, NEW what \in {"ok", "PROTOCOL_ERROR"},
         Posts(s, what), UNCHANGED <<outMade, leader, child, outRead, errMade, errRead>>,
         Meant([name |-> s, result |-> what])
  PROVE  QueueInv'
<1> DEFINE post == [name |-> s, result |-> what]
<1>1. post \in Post /\ queue \in Seq(Post) /\ queue' = Append(queue, post)
      /\ UNCHANGED <<results, raised>>
  BY Posted DEF TypeOK, Post, Posts
<1>2. \A r \in Streams : Drained(r) <=> Drained(r)'
  BY DEF Drained, Over
<1>3. \A p \in Post : Meant(p) => Meant(p)'
  BY <1>2 DEF Meant, Post
<1> HIDE DEF post
<1>4. Len(queue) \in Nat /\ \A n \in 1 .. Len(queue) : queue[n] \in Post
  BY <1>1, LenProperties, ElementOfSeq
<1>5. /\ Len(queue') = Len(queue) + 1 /\ queue'[Len(queue) + 1] = post
      /\ \A n \in 1 .. Len(queue) : queue'[n] = queue[n]
  BY <1>1, AppendProperties
<1>6. \A n \in 1 .. Len(queue) : Meant(queue[n])
  BY DEF QueueInv
<1>7. Meant(post)'
  BY <1>1, <1>3 DEF post
<1>8. ASSUME NEW n \in 1 .. Len(queue') PROVE Meant(queue[n])'
  <2>1. CASE n = Len(queue) + 1
    BY <1>5, <1>7, <2>1 DEF Meant, Drained, Over
  <2>2. CASE n # Len(queue) + 1
    <3>1. n \in 1 .. Len(queue) /\ queue'[n] = queue[n]
      BY <1>4, <1>5, <2>2
    <3>2. Meant(queue[n]) /\ queue[n] \in Post
      BY <1>4, <1>6, <3>1
    <3> QED
      BY <3>1, <3>2 DEF Meant, Drained, Over, Post
  <2> QED
    BY <2>1, <2>2
<1> QED
  BY <1>1, <1>2, <1>8 DEF QueueInv, TypeOK

\* Of what is in the queue nothing ceases to hold.
LEMMA QueueKept ==
  ASSUME TypeOK, OrderInv, QueueInv, [Next]_vars, UNCHANGED <<queue, results>>,
         raised' \in {raised, "TIMEOUT", "interrupted"}
  PROVE  QueueInv'
<1>1. queue \in Seq(Post)
  BY DEF TypeOK, Post
<1>2. \A n \in 1 .. Len(queue) : queue[n] \in Post /\ queue'[n] = queue[n]
  BY <1>1, ElementOfSeq
<1>3. /\ \A r \in Streams : Drained(r) => Drained(r)'
      /\ OutLimit < outMade => OutLimit < outMade'
  BY MeantForEver
<1>4. ASSUME NEW n \in 1 .. Len(queue) PROVE Meant(queue[n])'
  <2>1. queue[n].name \in Streams /\ Meant(queue[n])
    BY <1>2 DEF Post, QueueInv
  <2> QED
    BY <1>2, <1>3, <2>1 DEF Meant, Drained, Over
<1>5. \A r \in results : Drained(r)'
  BY <1>3 DEF QueueInv, TypeOK
<1> QED
  BY <1>3, <1>4, <1>5 DEF QueueInv

LEMMA QueueStep == TypeOK /\ OrderInv /\ QueueInv /\ [Next]_vars => QueueInv'
<1> SUFFICES ASSUME TypeOK, OrderInv, QueueInv, [Next]_vars PROVE QueueInv'
  OBVIOUS
<1>1. CASE MainStep
  <2>1. CASE Receives
    <3>1. /\ Head(queue) = queue[1] /\ queue[1] \in Post /\ Len(queue) \in Nat \ {0}
          /\ Len(queue') = Len(queue) - 1 /\ \A n \in 1 .. Len(queue') : queue'[n] = queue[n + 1]
      BY <2>1, FirstPost DEF Receives
    <3>2. Meant(queue[1]) /\ \A n \in 1 .. Len(queue') : Meant(queue'[n])
      BY <3>1 DEF QueueInv
    <3>3. UNCHANGED <<leader, child, outMade, outRead, errMade, errRead>>
      BY <2>1 DEF Receives, pipeVars, procVars
    <3>4. \A n \in 1 .. Len(queue') : Meant(queue[n])'
      BY <3>2, <3>3 DEF Meant, Drained, Over
    <3>5. CASE queue[1].result = "ok"
      <4>1. results' = results \cup {queue[1].name} /\ raised' = raised
        BY <2>1, <3>1, <3>5 DEF Receives
      <4>2. Drained(queue[1].name)
        BY <3>2, <3>5 DEF Meant
      <4>3. \A r \in results' : Drained(r)
        BY <4>1, <4>2 DEF QueueInv
      <4>4. \A r \in results' : Drained(r)'
        BY <3>3, <4>3 DEF Drained, Over
      <4> QED
        BY <3>3, <3>4, <4>1, <4>4 DEF QueueInv
    <3>6. CASE queue[1].result # "ok"
      <4>1. results' = results /\ raised' = "PROTOCOL_ERROR" /\ OutLimit < outMade
        BY <2>1, <3>1, <3>2, <3>6 DEF Receives, Raise, Meant
      <4>2. \A r \in results' : Drained(r)'
        BY <3>3, <4>1 DEF Drained, Over, QueueInv
      <4> QED
        BY <3>3, <3>4, <4>1, <4>2 DEF QueueInv
    <3> QED
      BY <3>5, <3>6
  <2>2. CASE ~Receives
    <3>1. UNCHANGED <<queue, results, raised>>
      BY <1>1, <2>2 DEF MainStep, Spawns, Waits, Terminates, ClosesPipes, Joins, Returns
    <3> QED
      BY <3>1, QueueKept
  <2> QED
    BY <2>1, <2>2
<1>2. CASE WorkerStep
  <2> USE DEF Working, pipeVars, procVars, mainVars
  <2>1. CASE WriteEnds
    BY <2>1, PostStep DEF WriteEnds, Meant, Drained, Streams
  <2>2. CASE WriteBreaks
    BY <2>2, PostStep DEF WriteBreaks, BrokenPipe, Meant, Drained, Streams
  <2>3. CASE ReadsOut /\ LimitReached
    <3>1. OutLimit < outMade
      BY <2>3 DEF ReadsOut, LimitReached
    <3> QED
      BY <2>3, <3>1, PostStep DEF ReadsOut, Meant, Streams
  <2>4. CASE ReadOutEnds
    <3>1. Drained("stdout")
      BY <2>4 DEF ReadOutEnds, Drained, Over, Held, OrderInv, TypeOK, Streams
    <3> QED
      BY <2>4, <3>1, PostStep DEF ReadOutEnds, Meant, Streams
  <2>5. CASE ReadErrEnds
    <3>1. Drained("stderr")
      BY <2>5 DEF ReadErrEnds, Drained, Over, Held, OrderInv, TypeOK, Streams
    <3> QED
      BY <2>5, <3>1, PostStep DEF ReadErrEnds, Meant, Streams
  <2>6. CASE Writes \/ ReadsErr \/ (ReadsOut /\ ~LimitReached) \/ \E s \in Streams : StopsAtClose(s)
    <3>1. UNCHANGED <<queue, results, raised>>
      BY <2>6 DEF Writes, ReadsErr, ReadsOut, StopsAtClose
    <3> QED
      BY <3>1, QueueKept
  <2> QED
    BY <1>2, <2>1, <2>2, <2>3, <2>4, <2>5, <2>6 DEF WorkerStep
<1>3. CASE OtherStep
  <2>1. UNCHANGED <<queue, results>> /\ raised' \in {raised, "TIMEOUT", "interrupted"}
    BY <1>3
    DEF OtherStep, CollectorStep, CollectorReads, CollectorWritesOut, CollectorWritesErr,
        CollectorExits, CollectorForks, ChildEnds, CollectorCrashes, ChildWrites, SpawnFails,
        TimesOut, JoinTimesOut, Interrupted, Raise, mainVars
  <2> QED
    BY <2>1, QueueKept
<1>4. CASE UNCHANGED vars
  BY <1>4, QueueKept DEF vars, mainVars
<1> QED
  BY <1>1, <1>2, <1>3, <1>4, Steps

-----------------------------------------------------------------------------
(* The invariant, and what it implies *)

LEMMA InitIInv == Init => IInv
<1> SUFFICES ASSUME Init PROVE IInv
  OBVIOUS
<1>1. OrderInv
  BY DEF Init, OrderInv
<1>2. CleanupInv
  BY DEF Init, CleanupInv
<1>3. QueueInv
  BY DEF Init, QueueInv
<1>4. OutputInv
  BY TypeInit, Planned DEF Init, OutputInv
<1> QED
  BY <1>1, <1>2, <1>3, <1>4, TypeInit DEF IInv

LEMMA NextIInv == IInv /\ [Next]_vars => IInv'
  BY TypeStep, OrderStep, CleanupStep, QueueStep, OutputStep DEF IInv

LEMMA SpecIInv == Spec => []IInv
  BY InitIInv, NextIInv, PTL DEF Spec

\* Every state of an exchange has the variables' types: the counters of each
\* pipe are ordered, and no more than the limit is ever kept of stdout.
(* The variables of an exchange keep their types, whatever the collector   *)
(* does and whenever the deadline or Ctrl-C comes.                         *)
THEOREM ExchangeTypeCorrect == Spec => []TypeOK
<1>1. IInv => TypeOK
  BY DEF IInv
<1> QED
  BY <1>1, SpecIInv, PTL

\* Why a response is of the whole output: without an exception the main
\* thread has a result of each stream, a result says that the stream is
\* drained, and then nobody is left to write.
(* collect_response() returns only all that the collector has written. *)
THEOREM ResponsesAreWhole == Spec => []ResponseIsWhole
<1>1. IInv => ResponseIsWhole
  <2> SUFFICES ASSUME IInv, outcome = "response" PROVE ResponseIsWhole!2
    BY DEF ResponseIsWhole
  <2>1. main = "returned" /\ leader # "none"
    BY DEF IInv, OrderInv
  <2>2. raised = "none" /\ leader = "good"
    BY <2>1 DEF IInv, CleanupInv, Verdicts, TypeOK
  <2>3. Drained("stdout") /\ Drained("stderr")
    BY <2>1, <2>2 DEF IInv, OrderInv, QueueInv, Streams
  <2> QED
    BY <2>2, <2>3 DEF Drained, IInv, OutputInv
<1> QED
  BY <1>1, SpecIInv, PTL

\* Why nothing is left behind: the cleanup comes on every way out, each of its
\* steps either ends what it is for or is reported, and neither a worker nor a
\* collector starts again.
(* collect_response() leaves no worker and no process of the collector's   *)
(* group behind, unless it reports a failed cleanup.                       *)
THEOREM NothingIsLeftBehind == Spec => []NothingLeftBehind
<1>1. IInv => NothingLeftBehind
  <2> SUFFICES ASSUME IInv, main = "returned", outcome # "cleanupError"
               PROVE  /\ leader # "running" /\ child # "group"
                      /\ \A s \in Streams : worker[s] # "running"
    BY DEF NothingLeftBehind
  <2>1. CASE leader = "none"
    BY <2>1 DEF IInv, OrderInv
  <2>2. CASE leader # "none"
    <3>1. ~failures
      BY <2>2 DEF IInv, CleanupInv, Verdicts
    <3> QED
      BY <3>1 DEF IInv, CleanupInv, WorkersStopped
  <2> QED
    BY <2>1, <2>2
<1> QED
  BY <1>1, SpecIInv, PTL

\* Why a bad end is named: a broken pipe is no error, a protocol error needs
\* more output than the limit, and a missing tool has no collector.
(* collect_response(): a collector that ends badly is an execution error,  *)
(* a timeout or an interruption, never a response or a protocol error.     *)
THEOREM BadEndsAreNamed == Spec => []BadEndIsNamed
<1>1. IInv => BadEndIsNamed
  <2> SUFFICES ASSUME IInv, leader = "bad", outMade <= OutLimit
               PROVE  outcome \in {"none", "EXECUTION_ERROR", "TIMEOUT", "interrupted",
                                  "cleanupError"}
    BY DEF BadEndIsNamed
  <2>1. raised \in {"none", "TIMEOUT", "interrupted"}
    BY ExchangeAssumption DEF IInv, TypeOK, QueueInv
  <2>2. CASE main # "returned"
    BY <2>2 DEF IInv, OrderInv
  <2>3. CASE main = "returned"
    BY <2>1, <2>3 DEF IInv, CleanupInv, Verdicts
  <2> QED
    BY <2>2, <2>3
<1> QED
  BY <1>1, SpecIInv, PTL
=============================================================================
