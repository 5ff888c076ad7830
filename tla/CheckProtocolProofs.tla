-------------------------- MODULE CheckProtocolProofs --------------------------
(***************************************************************************)
(* Proofs about CheckProtocol, for every set of repositories, contracts    *)
(* and codes, and any number of commits and pushes.  History says that the *)
(* repository only grows; the other parts of the invariant say, phase by   *)
(* phase, what the check has established of commits that never change.     *)
(***************************************************************************)
EXTENDS CheckProtocol, ArchitectureDeltaProofs, SequenceTheorems

History ==
  /\ \E S : commits \in Seq(S)
  /\ IsHistory(commits)
  /\ versions \in Seq(Version) /\ AreVersions(versions, Commits)
  /\ origin \in [main : Commits, branch : Commits]

Runs ==
  [phase : Phases, b : Nat \cup {None}, e : Nat \cup {None}, h : Nat \cup {None},
   ci : Nat \cup {None}, tip : Nat \cup {None}, failures : SUBSET Failures,
   exit : {None, 0, 1, 2}, declared : {None, "pass", "unknown", "fail"}]

Verdict == run.exit \in {0, 1}

(* Which verdict a phase may carry *)
RunTyped ==
  /\ run \in Runs
  /\ run.phase # "done" => run.exit = None /\ run.declared = None
  /\ run.phase = "done" => run.exit \in {0, 1, 2}
  /\ run.exit = 2 => run.declared = None

(* What authentication has read of commits; main may have moved on since. *)
Authentic(b, e, h) ==
  /\ {b, e, h} \subseteq Commits
  /\ Tree(b).lock # None
  /\ parents(b) = <<Tree(b).lock.accepted>>
  /\ changed_paths(Tree(b).lock.accepted, b) = {"lock"}
  /\ Bound(b, e) /\ PolicyKept(b, h)

GitPassed(b, e, h, failures) ==
  /\ "parent" \notin failures => parents(e) = <<b>>
  /\ "paths" \notin failures => changed_paths(b, e) = {"expected"}
  /\ "candidate" \notin failures => is_ancestor(e, h)
  /\ "changed" \notin failures => Tree(e).expected = Tree(h).expected

OrderPassed(e, h, failures) == "order" \notin failures => <<e, h>> \in SeenBefore

Concluded(b, h) ==
  /\ verify_observation(Tree(b).lock, Tree(b).policy)
  /\ run.declared = DeclaredOf[Tree(b).policy][Tree(h).code]
  /\ run.exit = ExitCode(run.failures, run.declared)

Meets(policy, accepted, code, selected) ==
  Fulfilled(DeltaOf[policy][accepted][code], MeasurementsOf[policy][accepted],
            MeasurementsOf[policy][code], selected)

(* What evaluation has compared, unless it reports the expectation broken *)
Compared(b, e, h, failures) ==
  "expectation" \notin failures =>
    Meets(Tree(b).policy, Tree(Tree(b).lock.accepted).code, Tree(h).code,
          Tree(e).expected.selected)

RunInv ==
  /\ RunTyped
  /\ run.phase \in {"git", "host", "evaluate"} \/ Verdict => Authentic(run.b, run.e, run.h)
  /\ run.phase = "git" => run.tip \in Commits
  /\ run.phase \in {"host", "evaluate"} \/ Verdict => GitPassed(run.b, run.e, run.h, run.failures)
  /\ run.phase = "evaluate" \/ Verdict => OrderPassed(run.e, run.h, run.failures)
  /\ Verdict => Concluded(run.b, run.h) /\ Compared(run.b, run.e, run.h, run.failures)

IInv == History /\ RunInv

-----------------------------------------------------------------------------
(* Nothing that was committed or pushed is lost. *)

Grows ==
  /\ Commits \subseteq Commits'
  /\ \A c \in Commits : commits'[c] = commits[c]
  /\ SeenBefore \subseteq SeenBefore'

LEMMA NatCommits == History => Commits = 1 .. Len(commits) /\ Len(commits) \in Nat /\ Commits \subseteq Nat
  BY DEF History, Commits

LEMMA AncestorKept ==
  ASSUME History, Grows, NEW x \in Commits, NEW y \in Commits, is_ancestor(x, y)
  PROVE  is_ancestor(x, y)'
<1> SUFFICES ASSUME NEW history \in SUBSET Commits', y \in history,
                    \A c \in history : ToSet(parents(c)') \subseteq history
             PROVE  x \in history
  BY DEF is_ancestor
<1> DEFINE known == history \cap Commits
<1>1. \A c \in known : ToSet(parents(c)) \subseteq known
  <2> SUFFICES ASSUME NEW c \in known PROVE ToSet(parents(c)) \subseteq known
    OBVIOUS
  <2>1. parents(c)' = parents(c)
    BY DEF parents, Grows
  <2>2. ToSet(parents(c)) \subseteq history
    BY <2>1
  <2>3. ToSet(parents(c)) \subseteq Commits
    BY DEF History, IsHistory, parents, Commits
  <2> QED BY <2>2, <2>3
<1>2. y \in known /\ known \in SUBSET Commits
  OBVIOUS
<1> QED BY <1>1, <1>2 DEF is_ancestor

LEMMA AcceptedExists ==
  ASSUME History, NEW b \in Commits, parents(b) = <<Tree(b).lock.accepted>>
  PROVE  Tree(b).lock.accepted \in Commits
<1>1. ToSet(parents(b)) \subseteq Commits
  BY DEF History, IsHistory, parents, Commits
<1>2. parents(b)[1] = Tree(b).lock.accepted /\ 1 \in DOMAIN parents(b)
  OBVIOUS
<1> QED BY <1>1, <1>2 DEF ToSet

LEMMA FactsKept ==
  ASSUME History, Grows
  PROVE  /\ \A b, e, h : Authentic(b, e, h) => Authentic(b, e, h)'
         /\ \A b, e, h \in Commits : \A failures :
              GitPassed(b, e, h, failures) => GitPassed(b, e, h, failures)'
         /\ \A e, h, failures : OrderPassed(e, h, failures) => OrderPassed(e, h, failures)'
<1>1. \A c \in Commits : Tree(c)' = Tree(c) /\ parents(c)' = parents(c) /\ c \in Commits'
  BY DEF Grows, Tree, parents
<1>3. ASSUME NEW b, NEW e, NEW h, Authentic(b, e, h)
      PROVE  Authentic(b, e, h)'
  <2>1. b \in Commits /\ e \in Commits /\ h \in Commits
    BY <1>3 DEF Authentic
  <2>2. Tree(b)' = Tree(b) /\ Tree(e)' = Tree(e) /\ Tree(h)' = Tree(h) /\ parents(b)' = parents(b)
    BY <1>1, <2>1
  <2>3. Tree(b).lock.accepted \in Commits
    BY <1>3, <2>1, AcceptedExists DEF Authentic
  <2>4. changed_paths(Tree(b).lock.accepted, b)' = changed_paths(Tree(b).lock.accepted, b)
    BY <1>1, <2>1, <2>2, <2>3 DEF changed_paths
  <2>5. (Bound(b, e) /\ PolicyKept(b, h))'
    BY <1>3, <2>2 DEF Authentic, Bound, PolicyKept
  <2> QED BY <1>1, <1>3, <2>1, <2>2, <2>4, <2>5 DEF Authentic
<1>4. ASSUME NEW b \in Commits, NEW e \in Commits, NEW h \in Commits, NEW failures,
             GitPassed(b, e, h, failures)
      PROVE  GitPassed(b, e, h, failures)'
  <2>1. is_ancestor(e, h) => is_ancestor(e, h)'
    BY AncestorKept
  <2>2. changed_paths(b, e)' = changed_paths(b, e)
    BY <1>1 DEF changed_paths
  <2> QED BY <1>1, <1>4, <2>1, <2>2 DEF GitPassed
<1>5. ASSUME NEW e, NEW h, NEW failures, OrderPassed(e, h, failures)
      PROVE  OrderPassed(e, h, failures)'
  BY <1>5 DEF OrderPassed, Grows
<1> QED BY <1>3, <1>4, <1>5

(* The comparison reads the trees and nothing else. *)
LEMMA ComparedAgain ==
  ASSUME NEW b, NEW e, NEW h, NEW failures, Compared(b, e, h, failures),
         Tree(b)' = Tree(b), Tree(e)' = Tree(e), Tree(h)' = Tree(h),
         Tree(Tree(b).lock.accepted)' = Tree(Tree(b).lock.accepted)
  PROVE  Compared(b, e, h, failures)'
<1>1. \A policy, accepted, code, selected :
        Meets(policy, accepted, code, selected)' <=> Meets(policy, accepted, code, selected)
  OBVIOUS
<1> QED BY <1>1 DEF Compared

LEMMA RunInvKept ==
  ASSUME IInv, Grows, run' = run
  PROVE  RunInv'
<1> USE DEF IInv
<1>1. \A c \in Commits : Tree(c)' = Tree(c)
  BY DEF Grows, Tree
<1>2. RunTyped'
  BY DEF RunInv, RunTyped
<1>3. ASSUME NEW b, NEW e, NEW h, Authentic(b, e, h), Concluded(b, h)
      PROVE  Concluded(b, h)'
  <2>1. b \in Commits /\ h \in Commits /\ Tree(b).lock.accepted \in Commits
    BY <1>3, AcceptedExists DEF Authentic
  <2>2. Tree(b)' = Tree(b) /\ Tree(h)' = Tree(h)
        /\ Tree(Tree(b).lock.accepted)' = Tree(Tree(b).lock.accepted)
    BY <1>1, <2>1
  <2>3. DeclaredOf' = DeclaredOf /\ run'.exit = run.exit /\ run'.failures = run.failures
        /\ run'.declared = run.declared
    BY DEF DeclaredOf
  <2> QED BY <1>3, <2>2, <2>3 DEF Concluded, verify_observation, ExitCode
<1>6. ASSUME NEW b, NEW e, NEW h, NEW failures, Authentic(b, e, h), Compared(b, e, h, failures)
      PROVE  Compared(b, e, h, failures)'
  <2>1. b \in Commits /\ e \in Commits /\ h \in Commits /\ Tree(b).lock.accepted \in Commits
    BY <1>6, AcceptedExists DEF Authentic
  <2>2. Tree(b)' = Tree(b) /\ Tree(e)' = Tree(e) /\ Tree(h)' = Tree(h)
        /\ Tree(Tree(b).lock.accepted)' = Tree(Tree(b).lock.accepted)
    BY <1>1, <2>1
  <2> QED BY <1>6, <2>2, ComparedAgain
<1>4. run.phase \in {"git", "host", "evaluate"} \/ Verdict =>
        run.b \in Commits /\ run.e \in Commits /\ run.h \in Commits
  BY DEF RunInv, Authentic
<1>5. run.tip \in Commits => run.tip \in Commits'
  BY DEF Grows
<1> QED
  BY <1>2, <1>3, <1>4, <1>5, <1>6, FactsKept DEF RunInv, Verdict

-----------------------------------------------------------------------------
(* People *)

LEMMA AddGrows ==
  ASSUME History, NEW c, Add(c), IsTree(c.tree), ToSet(c.parents) \subseteq Commits
  PROVE  History' /\ Grows
<1>1. PICK S : commits \in Seq(S)
  BY DEF History
<1>2. /\ commits \in Seq(S \cup {c}) /\ commits' = Append(commits, c)
      /\ versions' = versions /\ origin' = origin
  BY <1>1 DEF Add
<1>3. /\ commits' \in Seq(S \cup {c})
      /\ Commits' = 1 .. Len(commits) + 1 /\ Commits = 1 .. Len(commits) /\ Len(commits) \in Nat
      /\ commits'[Len(commits) + 1] = c
      /\ \A n \in Commits : commits'[n] = commits[n]
  BY <1>2 DEF Commits
<1>4. Commits \subseteq Commits' /\ Commits' = Commits \cup {Len(commits) + 1}
  BY <1>3
<1>5. IsHistory(commits')
  <2> SUFFICES ASSUME NEW n \in Commits'
               PROVE  IsTree(commits'[n].tree) /\ ToSet(commits'[n].parents) \subseteq Commits'
    BY DEF IsHistory, Commits
  <2>1. CASE n \in Commits
    BY <1>3, <1>4, <2>1 DEF History, IsHistory, Commits
  <2>2. CASE n = Len(commits) + 1
    BY <1>3, <1>4, <2>2
  <2> QED BY <1>4, <2>1, <2>2
<1>6. AreVersions(versions', Commits')
  BY <1>2, <1>4 DEF History, AreVersions
<1>7. origin' \in [main : Commits', branch : Commits']
  BY <1>2, <1>4 DEF History
<1>8. SeenBefore' = SeenBefore
  BY <1>2 DEF SeenBefore, Seen
<1> QED
  BY <1>2, <1>3, <1>4, <1>5, <1>6, <1>7, <1>8 DEF History, Grows

LEMMA EditsAreTrees ==
  ASSUME History, NEW parent \in Commits, NEW tree \in Edits(parent)
  PROVE  IsTree(tree)
<1> DEFINE old == Tree(parent)
<1>1. IsTree(old)
  BY DEF History, IsHistory, Tree, Commits
<1>0. old = Tree(parent)
  OBVIOUS
<1> HIDE DEF old
<1>2. \/ \E c \in EditCodes : \E x :
           tree = [policy |-> old.policy, lock |-> old.lock, expected |-> x, code |-> c]
      \/ \E p \in EditPolicies : tree = [old EXCEPT !.policy = p]
      \/ \E k : tree = [old EXCEPT !.lock = k]
  BY <1>0 DEF Edits
<1>3. PICK l, x : old \in [policy : Policies, lock : {l}, expected : {x}, code : Codes]
  BY <1>1 DEF IsTree
<1>4. ASSUME NEW c \in EditCodes, NEW y,
             tree = [policy |-> old.policy, lock |-> old.lock, expected |-> y, code |-> c]
      PROVE  IsTree(tree)
  BY <1>3, <1>4, EditsAssumption DEF IsTree
<1>5. ASSUME NEW p \in EditPolicies, tree = [old EXCEPT !.policy = p]
      PROVE  IsTree(tree)
  BY <1>3, <1>5, EditsAssumption DEF IsTree
<1>6. ASSUME NEW k, tree = [old EXCEPT !.lock = k]
      PROVE  IsTree(tree)
  BY <1>3, <1>6 DEF IsTree
<1> QED BY <1>2, <1>4, <1>5, <1>6

LEMMA CommitStep == History /\ (Commit \/ Merge) => History' /\ Grows /\ run' = run /\ run.phase # "done"
<1> SUFFICES ASSUME History, Commit \/ Merge PROVE History' /\ Grows /\ run' = run /\ run.phase # "done"
  OBVIOUS
<1>1. CASE Commit
  <2>0. PICK parent \in Commits :
          \E tree \in Edits(parent) : Add([parents |-> <<parent>>, tree |-> tree])
    BY <1>1 DEF Commit
  <2>1. PICK tree \in Edits(parent) : Add([parents |-> <<parent>>, tree |-> tree])
    BY <2>0
  <2> DEFINE c == [parents |-> <<parent>>, tree |-> tree]
  <2>2. c.tree = tree /\ ToSet(c.parents) \subseteq Commits
    BY DEF ToSet
  <2>3. IsTree(c.tree)
    BY <2>2, EditsAreTrees
  <2>4. Add(c)
    BY <2>1
  <2> HIDE DEF c
  <2> QED BY <2>2, <2>3, <2>4, AddGrows DEF Add
<1>2. CASE Merge
  <2>1. PICK x \in Commits, y \in Commits : Add([parents |-> <<x, y>>, tree |-> Tree(x)])
    BY <1>2 DEF Merge
  <2>2. PICK c : c = [parents |-> <<x, y>>, tree |-> Tree(x)]
    OBVIOUS
  <2>3. c.tree = Tree(x) /\ ToSet(c.parents) \subseteq Commits
    BY <2>2 DEF ToSet
  <2>4. IsTree(c.tree)
    BY <2>3 DEF History, IsHistory, Tree, Commits
  <2>5. Add(c)
    BY <2>1, <2>2
  <2> QED BY <2>3, <2>4, <2>5, AddGrows DEF Add
<1> QED BY <1>1, <1>2

(* A push is the newest version, and its time is none before. *)
LEMMA PushAppends ==
  ASSUME History, Push
  PROVE  \E v \in Version :
           /\ v.head \in Commits
           /\ \A n \in DOMAIN versions : versions[n].time <= v.time
           /\ versions' = Append(versions, v)
           /\ commits' = commits /\ run' = run /\ run.phase # "done"
           /\ origin' \in [main : Commits, branch : Commits]
<1>1. PICK head \in Commits \ {origin.branch}, pause \in {0, 1} :
        /\ origin' = [origin EXCEPT !.branch = head]
        /\ versions' = Append(versions,
             [head |-> head,
              time |-> IF versions = <<>> THEN 0 ELSE versions[Len(versions)].time + pause])
  BY DEF Push
<1> DEFINE time == IF versions = <<>> THEN 0 ELSE versions[Len(versions)].time + pause
<1>2. versions \in Seq(Version) /\ AreVersions(versions, Commits)
  BY DEF History
<1>3. head \in Nat
  BY NatCommits
<1>4. time \in Nat /\ \A n \in DOMAIN versions : versions[n].time <= time
  <2>1. CASE versions = <<>>
    BY <2>1
  <2>2. CASE versions # <<>>
    <3>1. Len(versions) \in DOMAIN versions /\ DOMAIN versions = 1 .. Len(versions)
      <4>1. Len(versions) \in Nat \ {0}
        BY <1>2, <2>2, EmptySeq, Zenon
      <4>2. DOMAIN versions = 1 .. Len(versions)
        BY <1>2
      <4> QED BY <4>1, <4>2
    <3>2. \A n \in DOMAIN versions : versions[n].time \in Nat
      <4> HIDE DEF time
      <4>1. \A n \in DOMAIN versions : versions[n] \in Version
        BY <1>2, <3>1, ElementOfSeq
      <4> QED BY <4>1 DEF Version
    <3>3. \A n \in DOMAIN versions : versions[n].time <= versions[Len(versions)].time
      BY <1>2, <3>1 DEF AreVersions
    <3>4. \E p \in Nat : p = pause
      OBVIOUS
    <3>5. time = versions[Len(versions)].time + pause
      BY <2>2
    <3> HIDE DEF time
    <3>6. \A n \in DOMAIN versions : versions[n].time <= time
      BY <3>1, <3>2, <3>3, <3>4, <3>5
    <3> QED BY <3>1, <3>2, <3>4, <3>5, <3>6
  <2> QED BY <2>1, <2>2
<1>5. PICK v : v = [head |-> head, time |-> time]
  OBVIOUS
<1> HIDE DEF time
<1>6. v \in Version /\ v.head = head /\ v.time = time
  BY <1>3, <1>4, <1>5 DEF Version
<1>7. versions' = Append(versions, v)
  BY <1>1, <1>5 DEF time
<1>8. origin' \in [main : Commits, branch : Commits]
  BY <1>1 DEF History
<1> QED BY <1>4, <1>6, <1>7, <1>8 DEF Push

LEMMA SeqAppend ==
  ASSUME NEW S, NEW s \in Seq(S), NEW v \in S, NEW t, t = Append(s, v)
  PROVE  /\ t \in Seq(S) /\ Len(s) \in Nat
         /\ DOMAIN t = 1 .. Len(s) + 1 /\ DOMAIN s = 1 .. Len(s)
         /\ t[Len(s) + 1] = v /\ \A n \in 1 .. Len(s) : t[n] = s[n]
  OBVIOUS

LEMMA PushStep == History /\ Push => History' /\ Grows /\ run' = run
<1> SUFFICES ASSUME History, Push PROVE History' /\ Grows /\ run' = run
  OBVIOUS
<1>1. PICK v \in Version :
        /\ v.head \in Commits
        /\ \A n \in DOMAIN versions : versions[n].time <= v.time
        /\ versions' = Append(versions, v)
        /\ commits' = commits /\ run' = run
        /\ origin' \in [main : Commits, branch : Commits]
  BY PushAppends
<1>2. versions \in Seq(Version) /\ AreVersions(versions, Commits)
  BY DEF History
<1> DEFINE n0 == Len(versions)
<1>3. /\ versions' \in Seq(Version) /\ n0 \in Nat
      /\ DOMAIN versions' = 1 .. n0 + 1 /\ DOMAIN versions = 1 .. n0
      /\ versions'[n0 + 1] = v /\ \A n \in 1 .. n0 : versions'[n] = versions[n]
  BY <1>1, <1>2, SeqAppend
<1>4. Commits' = Commits
  BY <1>1 DEF Commits
<1>5. AreVersions(versions', Commits')
  <2>1. \A n \in DOMAIN versions' : versions'[n].head \in Commits'
    BY <1>1, <1>2, <1>3, <1>4 DEF AreVersions
  <2>2. ASSUME NEW n \in DOMAIN versions', NEW m \in 1 .. n
        PROVE  versions'[m].time <= versions'[n].time
    <3>1. CASE n \in 1 .. n0
      BY <1>2, <1>3, <3>1 DEF AreVersions
    <3>2. CASE n = n0 + 1 /\ m \in 1 .. n0
      BY <1>1, <1>3, <3>2
    <3>3. CASE n = n0 + 1 /\ m = n0 + 1
      BY <1>3, <3>3 DEF Version
    <3> QED BY <1>3, <3>1, <3>2, <3>3
  <2> QED BY <2>1, <2>2 DEF AreVersions
<1>6. SeenBefore \subseteq SeenBefore'
  <2> SUFFICES ASSUME NEW pair \in SeenBefore PROVE pair \in SeenBefore'
    OBVIOUS
  <2>1. Seen \subseteq Seen'
    BY <1>3 DEF Seen, ToSet
  <2>2. PICK n \in DOMAIN versions :
          versions[n].head = pair[1] /\ \A m \in 1 .. n : versions[m].head # pair[2]
    BY DEF SeenBefore
  <2>3. n \in DOMAIN versions' /\ versions'[n].head = pair[1]
        /\ \A m \in 1 .. n : versions'[m].head # pair[2]
    BY <1>3, <2>2
  <2> QED BY <2>1, <2>3 DEF SeenBefore
<1> QED
  BY <1>1, <1>3, <1>4, <1>5, <1>6 DEF History, Grows, IsHistory

LEMMA MoveStep == History /\ MoveMain => History' /\ Grows /\ run' = run
<1> SUFFICES ASSUME History, MoveMain PROVE History' /\ Grows /\ run' = run
  OBVIOUS
<1>1. commits' = commits /\ versions' = versions /\ run' = run
      /\ \E c \in Commits : origin' = [origin EXCEPT !.main = c]
  BY DEF MoveMain
<1>2. Commits' = Commits /\ Seen' = Seen /\ SeenBefore' = SeenBefore
  BY <1>1 DEF Commits, Seen, SeenBefore
<1>3. origin' \in [main : Commits, branch : Commits]
  BY <1>1 DEF History
<1> QED BY <1>1, <1>2, <1>3 DEF History, Grows, IsHistory

-----------------------------------------------------------------------------
(* The check *)

LEMMA Untouched ==
  ASSUME History, UNCHANGED <<commits, origin, versions>>
  PROVE  History' /\ Grows
<1>1. Commits' = Commits /\ SeenBefore' = SeenBefore
  BY DEF Commits, SeenBefore, Seen
<1> QED BY <1>1 DEF History, Grows, IsHistory

LEMMA InitInv == Init => IInv
<1> SUFFICES ASSUME Init PROVE IInv
  OBVIOUS
<1>1. PICK r \in Repositories :
        commits = r.commits /\ origin = r.origin /\ versions = r.versions /\ run = Idle
  BY DEF Init
<1>2. History
  BY <1>1, RepositoriesAssumption DEF History, Commits
<1>3. RunTyped
  BY <1>1, NoneAssumption DEF RunTyped, Runs, Phases, Idle
<1>4. run.phase = "idle" /\ ~Verdict
  BY <1>1, NoneAssumption DEF Idle, Verdict
<1> QED BY <1>2, <1>3, <1>4 DEF IInv, RunInv

(* A run without a verdict is refused, or idle again. *)
LEMMA Ended ==
  ASSUME run' = Idle \/ run' = Refused
  PROVE  RunInv' /\ run'.exit # 0
<1>1. /\ Idle \in Runs /\ Idle.phase = "idle" /\ Idle.exit = None /\ Idle.declared = None
      /\ Refused \in Runs /\ Refused.phase = "done" /\ Refused.exit = 2 /\ Refused.declared = None
  BY DEF Idle, Refused, Runs, Phases
<1>2. None \notin {0, 1, 2}
  BY NoneAssumption
<1>3. RunTyped' /\ run'.phase \in {"idle", "done"} /\ run'.exit \notin {0, 1}
  <2>1. CASE run' = Idle
    BY <1>1, <1>2, <2>1 DEF RunTyped
  <2>2. CASE run' = Refused
    BY <1>1, <1>2, <2>2 DEF RunTyped
  <2> QED BY <2>1, <2>2
<1> QED BY <1>3 DEF RunInv, Verdict

LEMMA StartStep == IInv /\ Start => IInv'
<1> SUFFICES ASSUME IInv, Start PROVE IInv'
  OBVIOUS
<1>1. PICK b \in Commits, e \in Commits, h \in Commits, ci \in {v.head : v \in ToSet(versions)} :
        run' = IF _authenticate_inputs(b, e, h)
               THEN [Idle EXCEPT !.phase = "git", !.b = b, !.e = e, !.h = h, !.ci = ci,
                                 !.tip = origin.branch]
               ELSE Refused
  BY DEF Start
<1>2. History' /\ Grows
  BY Untouched DEF Start, IInv
<1>3. CASE ~_authenticate_inputs(b, e, h)
  <2>1. run' = Refused
    BY <1>1, <1>3
  <2>2. RunInv'
    BY <2>1, Ended
  <2> QED BY <1>2, <2>2 DEF IInv
<1>4. CASE _authenticate_inputs(b, e, h)
  <2>1. Authentic(b, e, h)
    BY <1>4 DEF _authenticate_inputs, Baseline, Authentic
  <2>2. Authentic(b, e, h)'
    BY <1>2, <2>1, FactsKept DEF IInv
  <2>3. origin.branch \in Commits /\ ci \in Commits /\ Commits \subseteq Nat
    <3>1. ci \in Commits
      BY DEF IInv, History, AreVersions, ToSet
    <3>2. Commits \subseteq Nat
      BY NatCommits DEF IInv
    <3> QED BY <3>1, <3>2 DEF IInv, History
  <2>4. origin.branch \in Commits'
    BY <1>2, <2>3 DEF Grows
  <2>5. PICK tip \in Commits : tip = origin.branch
    BY <2>3
  <2>6. run' = [Idle EXCEPT !.phase = "git", !.b = b, !.e = e, !.h = h, !.ci = ci, !.tip = tip]
    BY <1>1, <1>4, <2>5
  <2>7. /\ run'.phase = "git" /\ run'.b = b /\ run'.e = e /\ run'.h = h /\ run'.tip = tip
        /\ run'.exit = None /\ run'.declared = None
    BY <2>6 DEF Idle
  <2>8. run' \in Runs
    BY <2>3, <2>6 DEF Runs, Phases, Idle
  <2>9. RunTyped' /\ ~Verdict'
    BY <2>7, <2>8, NoneAssumption DEF RunTyped, Verdict
  <2> QED BY <1>2, <2>2, <2>4, <2>5, <2>7, <2>9 DEF IInv, RunInv
<1> QED BY <1>3, <1>4

LEMMA GitOrderStep == IInv /\ GitOrder => IInv'
<1> SUFFICES ASSUME IInv, GitOrder PROVE IInv'
  OBVIOUS
<1>1. History' /\ Grows
  BY Untouched DEF GitOrder, IInv
<1>2. CASE Tree(run.h).expected = None
  <2>1. run' = Refused
    BY <1>2 DEF GitOrder
  <2>2. RunInv'
    BY <2>1, Ended
  <2> QED BY <1>1, <2>2 DEF IInv
<1>3. CASE Tree(run.h).expected # None
  <2>1. PICK failures \in SUBSET Failures : failures = GitFailures
    BY DEF GitFailures, Failures
  <2>2. run' = [run EXCEPT !.phase = "host", !.failures = failures]
    BY <1>3, <2>1 DEF GitOrder
  <2>3. run.phase = "git" /\ run \in Runs /\ run.exit = None /\ run.declared = None
    BY DEF GitOrder, IInv, RunInv, RunTyped
  <2>4. PICK b, e, h : b = run.b /\ e = run.e /\ h = run.h
    OBVIOUS
  <2>5. /\ run'.phase = "host" /\ run'.b = b /\ run'.e = e /\ run'.h = h /\ run'.failures = failures
        /\ run'.exit = None /\ run'.declared = None
    BY <2>2, <2>3, <2>4 DEF Runs
  <2>6. run' \in Runs
    BY <2>2, <2>3 DEF Runs, Phases
  <2>7. Authentic(b, e, h) /\ b \in Commits /\ e \in Commits /\ h \in Commits
    BY <2>3, <2>4 DEF IInv, RunInv, Authentic
  <2>8. GitPassed(b, e, h, failures)
    BY <2>1, <2>4 DEF GitPassed, GitFailures
  <2>9. Authentic(b, e, h)' /\ GitPassed(b, e, h, failures)'
    BY <1>1, <2>7, <2>8, FactsKept DEF IInv
  <2>10. RunTyped' /\ ~Verdict'
    BY <2>5, <2>6, NoneAssumption DEF RunTyped, Verdict
  <2> QED BY <1>1, <2>5, <2>9, <2>10 DEF IInv, RunInv
<1> QED BY <1>2, <1>3

(* The forge lists versions by time, so the earliest is the first. *)
LEMMA FirstMeansSeen ==
  ASSUME History, NEW e, NEW h, HostRecords(e, h), PublishedFirst(e, h)
  PROVE  <<e, h>> \in SeenBefore
<1>1. PICK p \in Times(e) : \A s \in Times(h) : p < s
  BY DEF PublishedFirst
<1>2. PICK n \in DOMAIN versions : versions[n].head = e /\ versions[n].time = p
  BY DEF Times
<1>3. e \in Seen /\ h \in Seen
  BY DEF HostRecords, Times, Seen, ToSet
<1>4. /\ DOMAIN versions = 1 .. Len(versions) /\ Len(versions) \in Nat
      /\ \A m \in DOMAIN versions : versions[m] \in Version
  BY LenProperties, ElementOfSeq DEF History
<1>5. ASSUME NEW m \in 1 .. n, versions[m].head = h
      PROVE  FALSE
  <2>1. m \in DOMAIN versions
    BY <1>4
  <2>2. versions[m].time \in Times(h)
    BY <1>5, <2>1 DEF Times
  <2>3. versions[m].time <= versions[n].time
    BY DEF History, AreVersions
  <2>4. versions[m].time \in Nat /\ versions[n].time \in Nat
    BY <1>4, <2>1 DEF Version
  <2> QED BY <1>1, <1>2, <2>2, <2>3, <2>4
<1>6. <<e, h>> \in Seen \X Seen /\ <<e, h>>[1] = e /\ <<e, h>>[2] = h
  BY <1>3
<1>7. \E k \in DOMAIN versions :
        versions[k].head = <<e, h>>[1] /\ \A m \in 1 .. k : versions[m].head # <<e, h>>[2]
  BY <1>2, <1>5, <1>6
<1> QED BY <1>6, <1>7 DEF SeenBefore

LEMMA HostOrderStep == IInv /\ HostOrder => IInv'
<1> SUFFICES ASSUME IInv, HostOrder PROVE IInv'
  OBVIOUS
<1>1. History' /\ Grows
  BY Untouched DEF HostOrder, IInv
<1>2. CASE ~HostRecords(run.e, run.h)
  <2>1. run' = Refused
    BY <1>2 DEF HostOrder
  <2>2. RunInv'
    BY <2>1, Ended
  <2> QED BY <1>1, <2>2 DEF IInv
<1>3. CASE HostRecords(run.e, run.h)
  <2>1. run.phase = "host" /\ run \in Runs /\ run.exit = None /\ run.declared = None
    BY DEF HostOrder, IInv, RunInv, RunTyped
  <2>2. PICK b, e, h : b = run.b /\ e = run.e /\ h = run.h
    OBVIOUS
  <2>3. PICK failures : failures = IF PublishedFirst(e, h) THEN run.failures
                                   ELSE run.failures \cup {"order"}
    OBVIOUS
  <2>4. failures \in SUBSET Failures /\ run.failures \subseteq failures
    BY <2>1, <2>3 DEF Runs, Failures
  <2>5. run' = [run EXCEPT !.phase = "evaluate", !.failures = failures]
    BY <1>3, <2>2, <2>3 DEF HostOrder
  <2>6. /\ run'.phase = "evaluate" /\ run'.b = b /\ run'.e = e /\ run'.h = h
        /\ run'.failures = failures /\ run'.exit = None /\ run'.declared = None
    BY <2>1, <2>2, <2>5 DEF Runs
  <2>7. run' \in Runs
    BY <2>1, <2>4, <2>5 DEF Runs, Phases
  <2>8. Authentic(b, e, h) /\ b \in Commits /\ e \in Commits /\ h \in Commits
    BY <2>1, <2>2 DEF IInv, RunInv, Authentic
  <2>9. GitPassed(b, e, h, failures)
    BY <2>1, <2>2, <2>4 DEF IInv, RunInv, GitPassed
  <2>10. OrderPassed(e, h, failures)
    BY <1>3, <2>2, <2>3, FirstMeansSeen DEF IInv, OrderPassed
  <2>11. Authentic(b, e, h)' /\ GitPassed(b, e, h, failures)' /\ OrderPassed(e, h, failures)'
    BY <1>1, <2>8, <2>9, <2>10, FactsKept DEF IInv
  <2>12. RunTyped' /\ ~Verdict'
    BY <2>6, <2>7, NoneAssumption DEF RunTyped, Verdict
  <2> QED BY <1>1, <2>6, <2>11, <2>12 DEF IInv, RunInv
<1> QED BY <1>2, <1>3

LEMMA TablesByName ==
  ASSUME NEW p \in Policies, NEW c \in Codes
  PROVE  /\ DeclaredOf[p][c] = Declared(ContractOf[p], CodeOf[c])
         /\ ReadingsOf[p][c]
              = {Declared(ContractOf[p], found) :
                   found \in {r \in Readings : Resolution(CodeOf[c], r)}}
<1>1. DeclaredOf[p][c] = Declared(ContractOf[p], CodeOf[c])
  BY Zenon DEF DeclaredOf
<1>2. ReadingsOf[p][c]
        = {Declared(ContractOf[p], found) : found \in {r \in Readings : Resolution(CodeOf[c], r)}}
  BY Zenon DEF ReadingsOf
<1> QED BY <1>1, <1>2

LEMMA DeclaredTyped ==
  ASSUME History, NEW b \in Commits, NEW h \in Commits
  PROVE  /\ Tree(b).policy \in Policies /\ Tree(h).code \in Codes
         /\ DeclaredOf[Tree(b).policy][Tree(h).code]
              = Declared(ContractOf[Tree(b).policy], CodeOf[Tree(h).code])
         /\ DeclaredOf[Tree(b).policy][Tree(h).code] \in {"pass", "unknown", "fail"}
<1>1. IsTree(Tree(b)) /\ IsTree(Tree(h))
  BY DEF History, IsHistory, Tree, Commits
<1>2. Tree(b).policy \in Policies /\ Tree(h).code \in Codes
  BY <1>1 DEF IsTree
<1>3. DeclaredOf[Tree(b).policy][Tree(h).code]
        = Declared(ContractOf[Tree(b).policy], CodeOf[Tree(h).code])
  BY <1>2, TablesByName
<1>4. \A contract, code : Declared(contract, code) \in {"pass", "unknown", "fail"}
  BY DEF Declared
<1> QED BY <1>2, <1>3, <1>4

LEMMA EvaluateStep == IInv /\ Evaluate => IInv'
<1> SUFFICES ASSUME IInv, Evaluate PROVE IInv'
  OBVIOUS
<1>1. History' /\ Grows /\ commits' = commits
  BY Untouched DEF Evaluate, IInv
<1>2. run.phase = "evaluate" /\ run \in Runs
  BY DEF Evaluate, IInv, RunInv, RunTyped
<1>3. PICK b, e, h : b = run.b /\ e = run.e /\ h = run.h
  OBVIOUS
<1>4. Authentic(b, e, h) /\ b \in Commits /\ e \in Commits /\ h \in Commits
  BY <1>2, <1>3 DEF IInv, RunInv, Authentic
<1>5. CASE run' = Refused
  <2>2. RunInv'
    BY <1>5, Ended
  <2> QED BY <1>1, <2>2 DEF IInv
<1>6. CASE run' # Refused
  <2>0. verify_observation(Tree(b).lock, Tree(b).policy)
    BY <1>3, <1>6 DEF Evaluate
  <2>1. PICK declared : declared = DeclaredOf[Tree(b).policy][Tree(h).code]
    OBVIOUS
  <2>2. PICK broken \in {run.failures, run.failures \cup {"expectation"}} :
          /\ "expectation" \notin broken =>
               Fulfilled(DeltaOf[Tree(b).policy][Tree(Tree(b).lock.accepted).code][Tree(h).code],
                         MeasurementsOf[Tree(b).policy][Tree(Tree(b).lock.accepted).code],
                         MeasurementsOf[Tree(b).policy][Tree(h).code],
                         Tree(e).expected.selected)
          /\ run' = [run EXCEPT !.phase = "done", !.failures = broken, !.declared = declared,
                                !.exit = ExitCode(broken, declared)]
    BY <1>3, <1>6, <2>1 DEF Evaluate
  <2>3. PICK exit : exit = ExitCode(broken, declared)
    OBVIOUS
  <2>4. exit \in {0, 1} /\ declared \in {"pass", "unknown", "fail"}
    BY <1>4, <2>1, <2>3, DeclaredTyped DEF ExitCode, IInv
  <2>5. broken \in SUBSET Failures /\ run.failures \subseteq broken
    BY <1>2 DEF Runs, Failures
  <2>6. run' = [run EXCEPT !.phase = "done", !.failures = broken, !.declared = declared, !.exit = exit]
    BY <2>2, <2>3
  <2>7. /\ run'.phase = "done" /\ run'.b = b /\ run'.e = e /\ run'.h = h
        /\ run'.failures = broken /\ run'.exit = exit /\ run'.declared = declared
    BY <1>2, <1>3, <2>6 DEF Runs
  <2>8. run' \in Runs
    BY <1>2, <2>4, <2>5, <2>6 DEF Runs, Phases
  <2>9. RunTyped'
    BY <2>4, <2>7, <2>8 DEF RunTyped
  <2>10. GitPassed(b, e, h, broken)
    BY <1>2, <1>3, <2>5 DEF IInv, RunInv, GitPassed
  <2>11. OrderPassed(e, h, broken)
    BY <1>2, <1>3, <2>5 DEF IInv, RunInv, OrderPassed
  <2>12. Authentic(b, e, h)' /\ GitPassed(b, e, h, broken)' /\ OrderPassed(e, h, broken)'
    BY <1>1, <1>4, <2>10, <2>11, FactsKept DEF IInv
  <2>13. Concluded(b, h)'
    <3>1. \A c : Tree(c)' = Tree(c)
      BY <1>1 DEF Tree
    <3>2. verify_observation(Tree(b).lock, Tree(b).policy)'
      BY <2>0, <3>1 DEF verify_observation
    <3>3. DeclaredOf' = DeclaredOf /\ ExitCode(broken, declared)' = ExitCode(broken, declared)
      BY DEF DeclaredOf, ExitCode
    <3>4. (DeclaredOf[Tree(b).policy][Tree(h).code])' = declared
      BY <2>1, <3>1, <3>3
    <3>5. run'.declared = (DeclaredOf[Tree(b).policy][Tree(h).code])'
      BY <2>7, <3>4
    <3>6. run'.exit = ExitCode(run'.failures, run'.declared)
      BY <2>3, <2>7
    <3> QED BY <3>2, <3>5, <3>6 DEF Concluded, ExitCode
  <2>14. Compared(b, e, h, broken)'
    <3>1. \A c : Tree(c)' = Tree(c)
      BY <1>1 DEF Tree
    <3>2. "expectation" \notin broken =>
            Meets(Tree(b).policy, Tree(Tree(b).lock.accepted).code, Tree(h).code,
                  Tree(e).expected.selected)
      BY <1>3, <2>2 DEF Meets
    <3> QED BY <3>1, <3>2, ComparedAgain DEF Compared
  <2> QED BY <1>1, <2>7, <2>9, <2>12, <2>13, <2>14 DEF IInv, RunInv
<1> QED BY <1>5, <1>6

LEMMA IInvStep == IInv /\ [Next]_vars => IInv'
<1> SUFFICES ASSUME IInv, [Next]_vars PROVE IInv'
  OBVIOUS
<1>1. ASSUME History', Grows, run' = run PROVE IInv'
  BY <1>1, RunInvKept DEF IInv
<1>2. CASE Commit \/ Merge
  BY <1>1, <1>2, CommitStep DEF IInv
<1>3. CASE Push
  BY <1>1, <1>3, PushStep DEF IInv
<1>4. CASE MoveMain
  BY <1>1, <1>4, MoveStep DEF IInv
<1>5. CASE Start
  BY <1>5, StartStep
<1>6. CASE GitOrder
  BY <1>6, GitOrderStep
<1>7. CASE HostOrder
  BY <1>7, HostOrderStep
<1>8. CASE Evaluate
  BY <1>8, EvaluateStep
<1>9. CASE Report
  <2>1. run' = Idle /\ UNCHANGED <<commits, origin, versions>>
    BY <1>9 DEF Report
  <2>2. History'
    BY <2>1, Untouched DEF IInv
  <2>3. RunInv'
    BY <2>1, Ended
  <2> QED BY <2>2, <2>3 DEF IInv
<1>10. CASE UNCHANGED vars
  <2>1. UNCHANGED <<commits, origin, versions>> /\ run' = run
    BY <1>10 DEF vars
  <2>2. History' /\ Grows
    BY <2>1, Untouched DEF IInv
  <2> QED BY <1>1, <2>1, <2>2
<1> QED
  BY <1>2, <1>3, <1>4, <1>5, <1>6, <1>7, <1>8, <1>9, <1>10 DEF Next

LEMMA CheckInvariant == Spec => []IInv
  BY InitInv, IInvStep, PTL DEF Spec

-----------------------------------------------------------------------------
(* Theorems *)

(* The check works on commits that exist, and does not exit with 0 when an *)
(* expectation, an order predicate or a declared rule has failed.          *)
THEOREM CheckTypeCorrect == Spec => []TypeOK
<1>1. IInv => TypeOK
  <2> SUFFICES ASSUME IInv PROVE TypeOK
    OBVIOUS
  <2>1. /\ origin.main \in Commits /\ origin.branch \in Commits
        /\ \A n \in DOMAIN versions : versions[n].head \in Commits /\ versions[n].time \in Nat
    <3>1. \A n \in DOMAIN versions : versions[n] \in Version
      BY LenProperties, ElementOfSeq DEF IInv, History
    <3>2. \A n \in DOMAIN versions : versions[n].time \in Nat
      BY <3>1 DEF Version
    <3> QED BY <3>2 DEF IInv, History, AreVersions
  <2>2. run.phase \in Phases /\ run.failures \subseteq Failures
    BY DEF IInv, RunInv, RunTyped, Runs
  <2>3. run.phase \in {"git", "host", "evaluate"} \/ Verdict => {run.b, run.e, run.h} \subseteq Commits
    BY DEF IInv, RunInv, Authentic
  <2>4. ASSUME Verdict
        PROVE  run.exit = 0 => run.failures = {} /\ run.declared # "fail"
    <3>1. Concluded(run.b, run.h) /\ run.b \in Commits /\ run.h \in Commits
      BY <2>3, <2>4 DEF IInv, RunInv
    <3>2. run.declared \in {"pass", "unknown", "fail"} /\ run.exit = ExitCode(run.failures, run.declared)
      BY <3>1, DeclaredTyped DEF Concluded, IInv
    <3> QED BY <3>2 DEF ExitCode
  <2>5. run.exit \in {None, 0, 1, 2}
    BY DEF IInv, RunInv, RunTyped
  <2>6. run.declared \in {None, "pass", "unknown", "fail"}
    <3>1. CASE Verdict
      <4>1. Concluded(run.b, run.h) /\ run.b \in Commits /\ run.h \in Commits
        BY <2>3, <3>1 DEF IInv, RunInv
      <4> QED BY <4>1, DeclaredTyped DEF Concluded, IInv
    <3>2. CASE ~Verdict
      BY <3>2 DEF IInv, RunInv, RunTyped, Verdict
    <3> QED BY <3>1, <3>2
  <2> QED BY <2>1, <2>2, <2>3, <2>4, <2>5, <2>6 DEF TypeOK, Verdict
<1> QED BY <1>1, CheckInvariant, PTL

(* A verdict holds the candidate to the policy and the lock of the         *)
(* accepted code, and a pass has nothing but lock and expectation between  *)
(* them, wherever main and the branch have gone since.                     *)
THEOREM PolicyIsTheAcceptedOne == Spec => []AcceptedPolicyHolds
<1>1. IInv => AcceptedPolicyHolds
  <2> SUFFICES ASSUME IInv, Verdict PROVE AcceptedPolicyHolds
    BY DEF AcceptedPolicyHolds, Verdict
  <2> DEFINE b == run.b  e == run.e  h == run.h  lock == Tree(b).lock  a == lock.accepted
  <2>1. /\ Authentic(b, e, h) /\ GitPassed(b, e, h, run.failures) /\ Concluded(b, h)
    BY DEF IInv, RunInv
  <2>2. Tree(h).lock = lock /\ Tree(h).policy = Tree(b).policy
    BY <2>1 DEF Authentic, PolicyKept
  <2>3. Tree(a).policy = Tree(b).policy /\ Tree(a).code = Tree(b).code
    BY <2>1 DEF Authentic, changed_paths, Paths
  <2>4. lock.observed = <<Tree(h).policy, Tree(b).code>>
    BY <2>1, <2>2, <2>3 DEF Concluded, verify_observation
  <2>5. ASSUME run.exit = 0
        PROVE  /\ Tree(h).expected.baseline = b /\ Tree(h).expected.lock = lock
               /\ Tree(e).code = Tree(a).code /\ Tree(e).policy = Tree(a).policy
               /\ is_ancestor(b, h)
    <3>0. run.exit = ExitCode(run.failures, run.declared)
      BY <2>1 DEF Concluded
    <3>1. run.failures = {}
      BY <2>5, <3>0 DEF ExitCode
    <3>2. /\ parents(e) = <<b>> /\ changed_paths(b, e) = {"expected"}
          /\ is_ancestor(e, h) /\ Tree(e).expected = Tree(h).expected
      BY <2>1, <3>1 DEF GitPassed
    <3>3. Tree(e).expected.baseline = b /\ Tree(e).expected.lock = lock
      BY <2>1 DEF Authentic, Bound
    <3>4. Tree(e).code = Tree(b).code /\ Tree(e).policy = Tree(b).policy
      BY <3>2 DEF changed_paths, Paths
    <3>5. b \in ToSet(parents(e))
      BY <3>2 DEF ToSet
    <3>6. is_ancestor(b, h)
      BY <3>2, <3>5 DEF is_ancestor
    <3> QED BY <2>3, <3>2, <3>3, <3>4, <3>6
  <2> QED BY <2>2, <2>3, <2>4, <2>5 DEF AcceptedPolicyHolds
<1> QED BY <1>1, CheckInvariant, PTL

(* A declared FAIL is the verdict of every complete scan of the candidate, *)
(* and a declared PASS is, unless a rule decides a star import by its star *)
(* alone.                                                                  *)
THEOREM DeclaredVerdictIsFinal == Spec => []DeclaredVerdictHolds
<1>1. IInv => DeclaredVerdictHolds
  <2> SUFFICES ASSUME IInv, run.declared \in {"pass", "fail"},
                      run.declared = "pass" =>
                        ~Overlooks(ContractOf[Tree(run.h).policy], CodeOf[Tree(run.h).code])
               PROVE  CandidateReadings \subseteq {run.declared}
    BY DEF DeclaredVerdictHolds
  <2>1. Verdict
    BY NoneAssumption DEF IInv, RunInv, RunTyped, Verdict
  <2>2. Authentic(run.b, run.e, run.h) /\ Concluded(run.b, run.h)
    BY <2>1 DEF IInv, RunInv
  <2>3. PICK p, c : p = Tree(run.h).policy /\ c = Tree(run.h).code
    OBVIOUS
  <2>4. /\ p \in Policies /\ c \in Codes
        /\ run.declared = Declared(ContractOf[p], CodeOf[c])
    BY <2>2, <2>3, DeclaredTyped DEF IInv, Authentic, PolicyKept, Concluded
  <2>5. IsScan(CodeOf[c]) /\ (run.declared = "pass" => ~Overlooks(ContractOf[p], CodeOf[c]))
    BY <2>3, <2>4, EditsAssumption
  <2>6. ASSUME NEW found \in Readings, Resolution(CodeOf[c], found)
        PROVE  Declared(ContractOf[p], found) = run.declared
    BY <2>4, <2>5, <2>6, PassHolds, FailureHolds
  <2>7. ReadingsOf[p][c]
          = {Declared(ContractOf[p], found) : found \in {r \in Readings : Resolution(CodeOf[c], r)}}
    BY <2>4, TablesByName
  <2> QED BY <2>3, <2>6, <2>7 DEF CandidateReadings
<1> QED BY <1>1, CheckInvariant, PTL

-----------------------------------------------------------------------------
(* What a fulfilled expectation says of the candidate *)

LEMMA FactsByName ==
  ASSUME NEW p \in Policies, NEW c \in Codes, NEW d \in Codes
  PROVE  /\ FactsOf[p][c] = Facts(ContractOf[p], CodeOf[c])
         /\ DeltaOf[p][c][d] = build_architecture_delta(FactsOf[p][c], FactsOf[p][d])
<1>1. FactsOf[p][c] = Facts(ContractOf[p], CodeOf[c])
  BY Zenon DEF FactsOf
<1>2. DeltaOf[p][c][d] = build_architecture_delta(FactsOf[p][c], FactsOf[p][d])
  BY Zenon DEF DeltaOf
<1> QED BY <1>1, <1>2

LEMMA ScansObserved ==
  ASSUME NEW p \in Policies, NEW c \in Codes
  PROVE  Observed(FactsOf[p][c])
<1>1. Bounded(ContractOf[p], CodeOf[c])
  BY FiniteAssumption DEF Bounded
<1>2. FactsOf[p][c] = Facts(ContractOf[p], CodeOf[c])
  BY FactsByName
<1> QED BY <1>1, <1>2, FactsWellFormed DEF Observed

(* A verdict without a broken expectation compared these facts. *)
LEMMA FactsCompared ==
  ASSUME IInv, Fulfils
  PROVE  \E p \in Policies, a \in Codes, c \in Codes :
           /\ CandidateFacts = FactsOf[p][c] /\ AcceptedFacts = FactsOf[p][a]
           /\ Fulfilled(build_architecture_delta(FactsOf[p][a], FactsOf[p][c]),
                        MeasurementsOf[p][a], MeasurementsOf[p][c], Selected)
<1> DEFINE b == run.b  e == run.e  h == run.h  x == Tree(b).lock.accepted
           p == Tree(b).policy  a == Tree(x).code  c == Tree(h).code
<1>1. Authentic(b, e, h) /\ Compared(b, e, h, run.failures)
  BY DEF Fulfils, IInv, RunInv, Verdict
<1>2. b \in Commits /\ h \in Commits /\ x \in Commits
  BY <1>1, AcceptedExists DEF Authentic, IInv
<1>3. p \in Policies /\ a \in Codes /\ c \in Codes
  BY <1>2 DEF IInv, History, IsHistory, IsTree, Tree, Commits
<1>4. Tree(h).lock = Tree(b).lock /\ Tree(h).policy = p
  BY <1>1 DEF Authentic, PolicyKept
<1>5. CandidateFacts = FactsOf[p][c] /\ AcceptedFacts = FactsOf[p][a]
  BY <1>4 DEF CandidateFacts, AcceptedFacts
<1>6. Meets(p, a, c, Selected)
  BY <1>1 DEF Compared, Fulfils, Selected
<1>7. Fulfilled(DeltaOf[p][a][c], MeasurementsOf[p][a], MeasurementsOf[p][c], Selected)
  BY <1>6 DEF Meets
<1> HIDE DEF p, a, c
<1>8. DeltaOf[p][a][c] = build_architecture_delta(FactsOf[p][a], FactsOf[p][c])
  BY <1>3, FactsByName
<1> QED BY <1>3, <1>5, <1>7, <1>8

(* A candidate that fulfils an empty declaration has the facts of the      *)
(* accepted code in every dimension, as the delta keeps them: an edge or a *)
(* cycle with its first EvidenceLimit places, whatever contract, codes and *)
(* limit are.                                                              *)
THEOREM EmptyDeclarationIsUnchanged == Spec => []EmptyDeclarationMeansUnchanged
<1>1. IInv => EmptyDeclarationMeansUnchanged
  <2> SUFFICES ASSUME IInv, Fulfils, Selected = {} PROVE CandidateFacts = AcceptedFacts
    BY DEF EmptyDeclarationMeansUnchanged
  <2>1. PICK p \in Policies, a \in Codes, c \in Codes :
          /\ CandidateFacts = FactsOf[p][c] /\ AcceptedFacts = FactsOf[p][a]
          /\ Fulfilled(build_architecture_delta(FactsOf[p][a], FactsOf[p][c]),
                       MeasurementsOf[p][a], MeasurementsOf[p][c], Selected)
    BY FactsCompared
  <2>2. PICK B, A : B = FactsOf[p][a] /\ A = FactsOf[p][c]
    OBVIOUS
  <2>3. build_architecture_delta(B, A).changes = {}
    BY <2>1, <2>2 DEF Fulfilled, Undeclared
  <2>4. \A d \in Dimensions : B[d] = A[d]
    BY <2>2, <2>3, ScansObserved, EmptyDelta
  <2>5. B = Facts(ContractOf[p], CodeOf[a]) /\ A = Facts(ContractOf[p], CodeOf[c])
    BY <2>2, FactsByName
  <2> QED BY <2>1, <2>2, <2>4, <2>5, FactsByDimension
<1> QED BY <1>1, CheckInvariant, PTL

(* Whatever a fulfilled expectation declared, the candidate brings no      *)
(* violation, private import or unknown more than the accepted code had,   *)
(* no cycle outside one it had, and no edge it does not name.              *)
THEOREM NoDebtIsAdded == Spec => []NoNewDebt
<1>1. IInv => NoNewDebt
  <2> SUFFICES ASSUME IInv, Fulfils PROVE NoNewDebt
    BY DEF NoNewDebt
  <2>1. PICK p \in Policies, a \in Codes, c \in Codes :
          /\ CandidateFacts = FactsOf[p][c] /\ AcceptedFacts = FactsOf[p][a]
          /\ Fulfilled(build_architecture_delta(FactsOf[p][a], FactsOf[p][c]),
                       MeasurementsOf[p][a], MeasurementsOf[p][c], Selected)
    BY FactsCompared
  <2>2. PICK B, A, selected : B = AcceptedFacts /\ A = CandidateFacts /\ selected = Selected
    OBVIOUS
  <2>3. /\ Observed(B) /\ Observed(A)
        /\ Fulfilled(build_architecture_delta(B, A), MeasurementsOf[p][a], MeasurementsOf[p][c],
                     selected)
    BY <2>1, <2>2, ScansObserved
  <2>4. /\ \A d \in {"violations", "private_crossings", "unknowns"} : \A logical :
             Cardinality(Group(A[d], logical)) <= Cardinality(Group(B[d], logical))
        /\ \A f \in A["unknowns"] :
             Alike(A["unknowns"], f.semantic) <= Alike(B["unknowns"], f.semantic)
    BY <2>3, FulfilledAddsNothing
  <2>5. \A f \in A["cycles"] :
          \E g \in B["cycles"] :
            /\ g.logical.level = f.logical.level
            /\ f.logical.members \subseteq g.logical.members
    BY <2>3, FulfilledShrinksCycles
  <2>6. \A f \in A["dependency_edges"] :
          \/ \E g \in B["dependency_edges"] : g.logical = f.logical
          \/ \E s \in selected : s.change = "ADDED" /\ s.fingerprint = f.semantic
    BY <2>3, FulfilledNamesEdges
  <2>7. /\ A.unknowns = A["unknowns"] /\ B.unknowns = B["unknowns"]
        /\ A.cycles = A["cycles"] /\ B.cycles = B["cycles"]
        /\ A.dependency_edges = A["dependency_edges"]
        /\ B.dependency_edges = B["dependency_edges"]
    OBVIOUS
  <2>8. \A d \in {"violations", "private_crossings", "unknowns"} : \A f \in CandidateFacts[d] :
          Often(CandidateFacts[d], f.logical) <= Often(AcceptedFacts[d], f.logical)
    BY <2>2, <2>4 DEF Often
  <2>9. \A f \in CandidateFacts.unknowns :
          Alike(CandidateFacts.unknowns, f.semantic) <= Alike(AcceptedFacts.unknowns, f.semantic)
    BY <2>2, <2>4, <2>7
  <2> QED BY <2>2, <2>5, <2>6, <2>7, <2>8, <2>9 DEF NoNewDebt
<1> QED BY <1>1, CheckInvariant, PTL

-----------------------------------------------------------------------------
(* The check keeps the promise of PromisedOrder. *)

(* Of two heads the forge has seen, it saw one first. *)
LEMMA OneIsFirst ==
  ASSUME History, NEW x \in Seen, NEW y \in Seen, x # y
  PROVE  <<x, y>> \in SeenBefore <=> <<y, x>> \notin SeenBefore
<1> DEFINE First(a, b) ==
      \E n \in DOMAIN versions : versions[n].head = a /\ \A m \in 1 .. n : versions[m].head # b
<1>1. DOMAIN versions = 1 .. Len(versions) /\ Len(versions) \in Nat
  BY LenProperties DEF History
<1>2. (<<x, y>> \in SeenBefore <=> First(x, y)) /\ (<<y, x>> \in SeenBefore <=> First(y, x))
  BY DEF SeenBefore
<1>3. First(x, y) \/ First(y, x)
  <2> DEFINE T == {n \in DOMAIN versions : versions[n].head \in {x, y}}
  <2>1. T \subseteq Nat /\ T # {}
    BY <1>1 DEF Seen, ToSet
  <2>2. PICK n \in T : \A m \in T : ~(m < n)
    BY <2>1, LeastOf
  <2>3. ASSUME NEW m \in 1 .. n, m # n
        PROVE  versions[m].head \notin {x, y}
    BY <1>1, <2>2, <2>3
  <2>4. CASE versions[n].head = x
    BY <2>2, <2>3, <2>4
  <2>5. CASE versions[n].head = y
    BY <2>2, <2>3, <2>5
  <2> QED BY <2>2, <2>4, <2>5
<1>4. ~(First(x, y) /\ First(y, x))
  <2> SUFFICES ASSUME First(x, y), First(y, x) PROVE FALSE
    OBVIOUS
  <2>1. PICK n \in DOMAIN versions : versions[n].head = x /\ \A m \in 1 .. n : versions[m].head # y
    OBVIOUS
  <2>2. PICK k \in DOMAIN versions : versions[k].head = y /\ \A m \in 1 .. k : versions[m].head # x
    OBVIOUS
  <2>3. k \notin 1 .. n /\ n \notin 1 .. k
    BY <2>1, <2>2
  <2> QED BY <1>1, <2>3
<1> HIDE DEF First
<1> QED BY <1>2, <1>3, <1>4

Passing == IF run.exit = 0 THEN <<run.e, run.h>> ELSE None

LEMMA OrderInit == Init => Promise!Init
<1> SUFFICES ASSUME Init PROVE Promise!Init
  OBVIOUS
<1>1. History
  BY InitInv DEF IInv
<1>2. Seen \in SUBSET Nat
  BY <1>1, NatCommits DEF History, AreVersions, Seen, ToSet
<1>3. SeenBefore \subseteq Seen \X Seen
  BY DEF SeenBefore
<1>4. \A x, y \in Seen : x # y => (<<x, y>> \in SeenBefore <=> <<y, x>> \notin SeenBefore)
  BY <1>1, OneIsFirst
<1>5. run.exit # 0
  BY NoneAssumption DEF Init, Idle
<1> QED BY <1>2, <1>3, <1>4, <1>5 DEF Promise!Init

(* A head pushed for the first time comes after all the others. *)
LEMMA PushPublishes == History /\ Push => Promise!Publish \/ UNCHANGED <<Seen, SeenBefore>>
<1> SUFFICES ASSUME History, Push PROVE Promise!Publish \/ UNCHANGED <<Seen, SeenBefore>>
  OBVIOUS
<1>1. PICK v \in Version : versions' = Append(versions, v) /\ run' = run
  BY PushAppends
<1> DEFINE n0 == Len(versions)
<1>2. /\ n0 \in Nat
      /\ DOMAIN versions' = 1 .. n0 + 1 /\ DOMAIN versions = 1 .. n0
      /\ versions'[n0 + 1] = v /\ \A n \in 1 .. n0 : versions'[n] = versions[n]
  BY <1>1, SeqAppend DEF History
<1> HIDE DEF n0
<1>3. Seen' = Seen \cup {v.head}
  BY <1>2 DEF Seen, ToSet
<1>4. SeenBefore \subseteq SeenBefore'
  BY PushStep DEF Grows
<1>5. ASSUME NEW pair \in SeenBefore'
      PROVE  pair \in SeenBefore \/ (v.head \notin Seen /\ pair \in Seen \X {v.head})
  <2>1. pair \in Seen' \X Seen'
    BY DEF SeenBefore
  <2>2. PICK n \in DOMAIN versions' :
          versions'[n].head = pair[1] /\ \A m \in 1 .. n : versions'[m].head # pair[2]
    BY DEF SeenBefore
  <2>3. n # n0 + 1
    <3> SUFFICES ASSUME n = n0 + 1 PROVE FALSE
      OBVIOUS
    <3>1. pair[2] \in Seen'
      BY <2>1
    <3>2. \E m \in DOMAIN versions' : versions'[m].head = pair[2]
      BY <3>1 DEF Seen, ToSet
    <3> QED BY <1>2, <2>2, <3>2
  <2>4. n \in DOMAIN versions /\ versions[n].head = pair[1]
        /\ \A m \in 1 .. n : versions[m].head # pair[2]
    BY <1>2, <2>2, <2>3
  <2>5. pair[1] \in Seen
    BY <2>4 DEF Seen, ToSet
  <2>6. CASE pair[2] \in Seen
    BY <2>1, <2>4, <2>5, <2>6 DEF SeenBefore
  <2>7. CASE pair[2] \notin Seen
    BY <1>3, <2>1, <2>5, <2>7
  <2> QED BY <2>6, <2>7
<1>6. CASE v.head \in Seen
  BY <1>3, <1>4, <1>5, <1>6
<1>7. CASE v.head \notin Seen
  <2>1. ASSUME NEW x \in Seen
        PROVE  <<x, v.head>> \in SeenBefore'
    <3>1. PICK n \in DOMAIN versions : versions[n].head = x
      BY DEF Seen, ToSet
    <3>2. \A m \in DOMAIN versions : versions[m].head # v.head
      BY <1>7 DEF Seen, ToSet
    <3>3. n \in DOMAIN versions' /\ versions'[n].head = x
          /\ \A m \in 1 .. n : versions'[m].head # v.head
      BY <1>2, <3>1, <3>2
    <3>4. <<x, v.head>> \in Seen' \X Seen' /\ <<x, v.head>>[1] = x /\ <<x, v.head>>[2] = v.head
      BY <1>3
    <3>5. \E k \in DOMAIN versions' :
            versions'[k].head = <<x, v.head>>[1]
            /\ \A m \in 1 .. k : versions'[m].head # <<x, v.head>>[2]
      BY <3>3, <3>4
    <3> QED BY <3>4, <3>5 DEF SeenBefore
  <2>2. SeenBefore' = SeenBefore \cup (Seen \X {v.head})
    BY <1>4, <1>5, <2>1
  <2>3. v.head \in Seen' \ Seen /\ Seen' = Seen \cup {v.head}
    BY <1>3, <1>7
  <2>4. Passing' = Passing
    BY <1>1 DEF Passing
  <2> QED BY <2>2, <2>3, <2>4 DEF Promise!Publish, Passing
<1> QED BY <1>6, <1>7

LEMMA OrderStep == IInv /\ [Next]_vars => [Promise!Next]_(Promise!vars)
<1> SUFFICES ASSUME IInv, [Next]_vars PROVE [Promise!Next]_(Promise!vars)
  OBVIOUS
<1>1. ASSUME UNCHANGED <<Seen, SeenBefore>>, Passing' = Passing
      PROVE  UNCHANGED Promise!vars
  BY <1>1 DEF Promise!vars, Passing
<1>2. ASSUME UNCHANGED versions
      PROVE  UNCHANGED <<Seen, SeenBefore>>
  BY <1>2 DEF Seen, SeenBefore
<1>3. ASSUME run' = run PROVE Passing' = Passing
  BY <1>3 DEF Passing
<1>4. IInv' /\ (run.phase # "done" => run.exit # 0) /\ (run'.phase # "done" => run'.exit # 0)
  <2>1. IInv'
    BY IInvStep
  <2>2. run.phase # "done" => run.exit # 0
    BY NoneAssumption DEF IInv, RunInv, RunTyped
  <2>3. run'.phase # "done" => run'.exit # 0
    BY <2>1, NoneAssumption DEF IInv, RunInv, RunTyped
  <2> QED BY <2>1, <2>2, <2>3
<1>5. CASE Commit \/ Merge \/ MoveMain \/ UNCHANGED vars
  <2>1. UNCHANGED versions /\ run' = run
    BY <1>5 DEF Commit, Merge, Add, MoveMain, vars
  <2> QED BY <1>1, <1>2, <1>3, <2>1
<1>6. CASE Push
  <2>1. run' = run
    BY <1>6 DEF Push
  <2>2. Promise!Publish \/ UNCHANGED <<Seen, SeenBefore>>
    BY <1>6, PushPublishes DEF IInv
  <2> QED BY <1>1, <1>3, <2>1, <2>2 DEF Promise!Next
<1>7. ASSUME UNCHANGED versions, run.exit # 0, run'.exit # 0
      PROVE  UNCHANGED Promise!vars
  BY <1>1, <1>2, <1>7 DEF Passing
<1>8. CASE Start
  <2>1. UNCHANGED versions /\ run.exit # 0 /\ run'.exit # 0
    <3>1. run.exit # 0 /\ UNCHANGED versions
      BY <1>4, <1>8 DEF Start
    <3>2. run' = Refused \/ run'.phase = "git"
      BY <1>8 DEF Start, Idle
    <3>3. Refused.exit # 0
      BY DEF Refused, Idle
    <3> QED BY <1>4, <3>1, <3>2, <3>3
  <2> QED BY <1>7, <2>1
<1>9. CASE GitOrder \/ HostOrder
  <2>1. UNCHANGED versions /\ run.exit # 0
    BY <1>4, <1>9 DEF GitOrder, HostOrder
  <2>2. run \in Runs
    BY DEF IInv, RunInv, RunTyped
  <2>3. run' = Refused \/ run'.phase \in {"host", "evaluate"}
    BY <1>9, <2>2 DEF GitOrder, HostOrder, Runs
  <2>4. Refused.exit # 0
    BY DEF Refused, Idle
  <2> QED BY <1>4, <1>7, <2>1, <2>3, <2>4
<1>10. CASE Evaluate
  <2>1. UNCHANGED versions /\ run.exit # 0
    BY <1>4, <1>10 DEF Evaluate
  <2>2. CASE run'.exit # 0
    BY <1>7, <2>1, <2>2
  <2>3. CASE run'.exit = 0
    <3>1. Concluded(run.b, run.h)' /\ OrderPassed(run.e, run.h, run.failures)'
      BY <1>4, <2>3 DEF IInv, RunInv, Verdict
    <3>2. run'.exit = ExitCode(run'.failures, run'.declared)
      BY <3>1 DEF Concluded, ExitCode
    <3>3. run'.failures = {}
      BY <2>3, <3>2 DEF ExitCode
    <3>4. <<run'.e, run'.h>> \in SeenBefore'
      BY <3>1, <3>3 DEF OrderPassed
    <3>5. Passing' \in SeenBefore /\ UNCHANGED <<Seen, SeenBefore>>
      BY <1>2, <2>1, <2>3, <3>4 DEF Passing
    <3>6. Promise!Pass
      BY <3>5 DEF Promise!Pass, Passing
    <3> QED BY <3>6 DEF Promise!Next
  <2> QED BY <2>2, <2>3
<1>11. CASE Report
  <2>1. UNCHANGED versions /\ run'.exit # 0
    BY <1>11, NoneAssumption DEF Report, Idle
  <2>2. Passing' = None
    BY <2>1 DEF Passing
  <2>3. Promise!Forget
    BY <1>2, <2>1, <2>2 DEF Promise!Forget, Passing
  <2> QED BY <2>3 DEF Promise!Next
<1> QED
  BY <1>5, <1>6, <1>8, <1>9, <1>10, <1>11 DEF Next

(* A passing check promises that the forge saw the expectation first,      *)
(* whatever was pushed, in whatever order and however often.               *)
THEOREM PassKeepsOrder == Spec => OrderSpec
<1>1. Init => Promise!Init
  BY OrderInit
<1>2. IInv /\ [Next]_vars => [Promise!Next]_(Promise!vars)
  BY OrderStep
<1> QED BY <1>1, <1>2, CheckInvariant, PTL DEF Spec, OrderSpec, Promise!Spec
================================================================================
