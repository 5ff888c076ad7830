----------------------------- MODULE CheckProtocol -----------------------------
(***************************************************************************)
(* `archkeel check` in a merge-request pipeline, and the repository it     *)
(* judges while people go on working in it.                                *)
(*                                                                         *)
(* Main ends in a lock commit: the accepted code's observation, and        *)
(* nothing else.  A change first publishes an expectation on top of it,    *)
(* then its code.  The check authenticates lock, policy and expectation,   *)
(* asks Git and the forge whether the expectation came first, observes     *)
(* accepted code and candidate under the accepted policy, and compares.    *)
(* Git objects never change; branches and the forge's versions do.         *)
(***************************************************************************)
EXTENDS ArchitectureDelta

CONSTANTS
  Policies, ContractOf,  \* names of contracts, and the contract of each
  Codes, CodeOf,         \* names of trees, and what a scan sees in each
  Readings,              \* complete scans
  Repositories,          \* the repositories work starts in
  EditCodes, EditPolicies, EditSelections,  \* what people write
  MaxCommits, MaxVersions  \* bounds on commits and on pushes

ASSUME NoneAssumption ==
  None \notin Nat /\ None \notin {"pass", "unknown", "fail"}

ASSUME EditsAssumption ==
  /\ EditCodes \subseteq Codes /\ EditPolicies \subseteq Policies
  /\ \A c \in Codes : IsScan(CodeOf[c])

(* A scan reads finitely many files, and a contract is one. *)
ASSUME FiniteAssumption ==
  /\ IsFiniteSet(Components)
  /\ \A p \in Policies :
       IsFiniteSet(ContractOf[p].rules) /\ IsFiniteSet(DOMAIN ContractOf[p].owners)
  /\ \A c \in Codes : IsFiniteSet(CodeOf[c].imports) /\ IsFiniteSet(CodeOf[c].dynamic)

IsTree(tree) ==
  tree \in [policy : Policies, lock : {tree.lock}, expected : {tree.expected}, code : Codes]

IsHistory(history) ==
  \A c \in DOMAIN history :
    IsTree(history[c].tree) /\ ToSet(history[c].parents) \subseteq DOMAIN history

(* The forge lists the versions in the order of the pushes. *)
AreVersions(list, known) ==
  /\ \A n \in DOMAIN list : list[n].head \in known
  /\ \A n \in DOMAIN list : \A m \in 1 .. n : list[m].time <= list[n].time

Version == [head : Nat, time : Nat]

ASSUME RepositoriesAssumption ==
  \A r \in Repositories :
    /\ r.commits \in Seq(ToSet(r.commits)) /\ IsHistory(r.commits)
    /\ r.versions \in Seq(Version) /\ AreVersions(r.versions, DOMAIN r.commits)
    /\ r.origin \in [main : DOMAIN r.commits, branch : DOMAIN r.commits]

VARIABLES
  commits,   \* the Git objects: parents and tree of each commit
  origin,    \* tips of main and of the branch on the forge
  versions,  \* the forge's diff versions of the merge request: head and time
  run        \* the check: where it is, its arguments, what it fetched and found

vars == <<commits, origin, versions, run>>

Commits == DOMAIN commits
Tree(c) == commits[c].tree
parents(c) == commits[c].parents

(* x is in every history, a set of commits with their parents, y is in. *)
is_ancestor(x, y) ==
  \A history \in SUBSET Commits :
    (y \in history /\ \A c \in history : ToSet(parents(c)) \subseteq history) => x \in history

Paths == {"policy", "lock", "expected", "code"}
changed_paths(x, y) == {path \in Paths : Tree(x)[path] # Tree(y)[path]}

Idle == [phase |-> "idle", b |-> None, e |-> None, h |-> None, ci |-> None, tip |-> None,
         failures |-> {}, exit |-> None, declared |-> None]

Refused == [Idle EXCEPT !.phase = "done", !.exit = 2]

Init ==
  \E r \in Repositories :
    /\ commits = r.commits /\ origin = r.origin /\ versions = r.versions
    /\ run = Idle

-----------------------------------------------------------------------------
(* People: they commit on any commit, merge, push any commit over the      *)
(* branch, and move main on.  They do so at any time but between the end   *)
(* of a check and its report, where nothing reads what they change.        *)

Add(c) ==
  /\ run.phase # "done"
  /\ Len(commits) < MaxCommits
  /\ commits' = Append(commits, c)
  /\ UNCHANGED <<origin, versions, run>>

Locks(parent) ==
  {[accepted |-> parent, observed |-> <<Tree(parent).policy, c>>] : c \in EditCodes}

Expectations ==
  {[baseline |-> b, lock |-> Tree(b).lock, selected |-> s] :
     b \in {x \in Commits : Tree(x).lock # None}, s \in EditSelections}

Edits(parent) ==
  LET tree == Tree(parent)
  IN  {[policy |-> tree.policy, lock |-> tree.lock, expected |-> x, code |-> c] :
         c \in EditCodes, x \in Expectations \cup {tree.expected}}
      \cup {[tree EXCEPT !.policy = p] : p \in EditPolicies}
      \cup {[tree EXCEPT !.lock = k] : k \in Locks(parent)}

Commit ==
  \E parent \in Commits : \E tree \in Edits(parent) \ {Tree(parent)} :
    Add([parents |-> <<parent>>, tree |-> tree])

Merge ==
  \E x, y \in Commits :
    /\ ~is_ancestor(x, y) /\ ~is_ancestor(y, x)
    /\ Add([parents |-> <<x, y>>, tree |-> Tree(x)])

(* A push that leaves nothing to merge makes no version, and two pushes    *)
(* may carry the same host time.                                           *)
Push ==
  /\ run.phase # "done"
  /\ Len(versions) < MaxVersions
  /\ \E head \in Commits \ {origin.branch}, pause \in {0, 1} :
       /\ ~is_ancestor(head, origin.main)
       /\ origin' = [origin EXCEPT !.branch = head]
       /\ versions' = Append(versions,
            [head |-> head,
             time |-> IF versions = <<>> THEN 0 ELSE versions[Len(versions)].time + pause])
  /\ UNCHANGED <<commits, run>>

MoveMain ==
  /\ run.phase # "done"
  /\ \E c \in Commits \ {origin.main} :
       is_ancestor(origin.main, c) /\ origin' = [origin EXCEPT !.main = c]
  /\ UNCHANGED <<commits, versions, run>>

-----------------------------------------------------------------------------
(* The check: a pipeline fetches, and authenticates its arguments.         *)

\* Fault: the lock commit may change anything.
TipWithLock(b) ==
  /\ b = origin.main
  /\ Tree(b).lock # None
  /\ parents(b) = <<Tree(b).lock.accepted>>

Baseline(b) ==
  /\ b = origin.main
  /\ Tree(b).lock # None
  /\ parents(b) = <<Tree(b).lock.accepted>>
  /\ changed_paths(Tree(b).lock.accepted, b) = {"lock"}

Bound(b, e) ==
  /\ Tree(e).expected # None
  /\ Tree(e).expected.lock = Tree(b).lock
  /\ Tree(e).expected.baseline = b

PolicyKept(b, h) == Tree(h).lock = Tree(b).lock /\ Tree(h).policy = Tree(b).policy

_authenticate_inputs(b, e, h) == Baseline(b) /\ Bound(b, e) /\ PolicyKept(b, h)

Start ==
  /\ run.phase = "idle"
  /\ \E b, e, h \in Commits, ci \in {v.head : v \in ToSet(versions)} :
       run' = IF _authenticate_inputs(b, e, h)
              THEN [Idle EXCEPT !.phase = "git", !.b = b, !.e = e, !.h = h, !.ci = ci,
                                !.tip = origin.branch]
              ELSE Refused
  /\ UNCHANGED <<commits, origin, versions>>

(* The five failures of check_git_order; a candidate without the file ends *)
(* the check.                                                              *)
GitFailures ==
  {f \in {"parent", "paths", "candidate", "branch", "changed"} :
     \/ f = "parent" /\ parents(run.e) # <<run.b>>
     \/ f = "paths" /\ changed_paths(run.b, run.e) # {"expected"}
     \/ f = "candidate" /\ ~is_ancestor(run.e, run.h)
     \/ f = "branch" /\ ~is_ancestor(run.e, run.tip)
     \/ f = "changed" /\ Tree(run.e).expected # Tree(run.h).expected}

GitOrder ==
  /\ run.phase = "git"
  /\ run' = IF Tree(run.h).expected = None THEN Refused
            ELSE [run EXCEPT !.phase = "host", !.failures = GitFailures]
  /\ UNCHANGED <<commits, origin, versions>>

-----------------------------------------------------------------------------
(* The forge is asked for its versions as they are now.                    *)

Times(head) == {versions[n].time : n \in {k \in DOMAIN versions : versions[k].head = head}}

HostRecords(e, h) == run.ci = h /\ e # h /\ Times(e) # {} /\ Times(h) # {}

\* Fault: the last submission is compared, not the first.
LastSubmission(e, h) == \E p \in Times(e), s \in Times(h) : p < s

(* min(published) < min(submitted) *)
PublishedFirst(e, h) == \E p \in Times(e) : \A s \in Times(h) : p < s

HostOrder ==
  /\ run.phase = "host"
  /\ run' = IF ~HostRecords(run.e, run.h) THEN Refused
            ELSE [run EXCEPT !.phase = "evaluate",
                             !.failures = IF PublishedFirst(run.e, run.h) THEN @
                                          ELSE @ \cup {"order"}]
  /\ UNCHANGED <<commits, origin, versions>>

-----------------------------------------------------------------------------
(* Both codes are observed under the policy of the baseline.               *)

FactsOf == [p \in Policies |-> [c \in Codes |-> Facts(ContractOf[p], CodeOf[c])]]

MeasurementsOf == [p \in Policies |-> [c \in Codes |-> Measurements(ContractOf[p], CodeOf[c])]]

DeclaredOf == [p \in Policies |-> [c \in Codes |-> Declared(ContractOf[p], CodeOf[c])]]

DeltaOf ==
  [p \in Policies |-> [c \in Codes |-> [d \in Codes |->
     build_architecture_delta(FactsOf[p][c], FactsOf[p][d])]]]

verify_observation(lock, policy) == lock.observed = <<policy, Tree(lock.accepted).code>>

\* Fault: a failed declared rule does not count.
FailuresOnly(broken, declared) == IF broken # {} THEN 1 ELSE 0

ExitCode(broken, declared) == IF broken # {} \/ declared = "fail" THEN 1 ELSE 0

(* Two observations, each of which may be incomplete or have counts that   *)
(* do not add up, and their comparison.                                    *)
Evaluate ==
  LET lock     == Tree(run.b).lock
      policy   == Tree(run.b).policy
      accepted == Tree(lock.accepted).code
      code     == Tree(run.h).code
      broken   == IF Fulfilled(DeltaOf[policy][accepted][code], MeasurementsOf[policy][accepted],
                               MeasurementsOf[policy][code], Tree(run.e).expected.selected)
                  THEN run.failures ELSE run.failures \cup {"expectation"}
      declared == DeclaredOf[policy][code]
  IN  /\ run.phase = "evaluate"
      /\ \E complete \in BOOLEAN :
           run' = IF ~complete \/ ~verify_observation(lock, policy) THEN Refused
                  ELSE [run EXCEPT !.phase = "done", !.failures = broken, !.declared = declared,
                                   !.exit = ExitCode(broken, declared)]
      /\ UNCHANGED <<commits, origin, versions>>

Report ==
  /\ run.phase = "done"
  /\ run' = Idle
  /\ UNCHANGED <<commits, origin, versions>>

Next ==
  \/ Commit \/ Merge \/ Push \/ MoveMain
  \/ Start \/ GitOrder \/ HostOrder \/ Evaluate \/ Report

Spec == Init /\ [][Next]_vars

-----------------------------------------------------------------------------
(* Properties *)

Phases == {"idle", "git", "host", "evaluate", "done"}
Failures == {"parent", "paths", "candidate", "branch", "changed", "order", "expectation"}

(* The check works on commits that exist, in every phase has what the next *)
(* one reads, and never passes with a failure or a failed declared rule.   *)
TypeOK ==
  /\ origin.main \in Commits /\ origin.branch \in Commits
  /\ \A n \in DOMAIN versions : versions[n].head \in Commits /\ versions[n].time \in Nat
  /\ run.phase \in Phases /\ run.failures \subseteq Failures
  /\ run.phase \in {"git", "host", "evaluate"} \/ run.exit \in {0, 1} =>
       {run.b, run.e, run.h} \subseteq Commits
  /\ run.exit \in {None, 0, 1, 2} /\ run.declared \in {None, "pass", "unknown", "fail"}
  /\ run.exit = 0 => run.failures = {} /\ run.declared # "fail"

(* Every verdict of check is about a candidate that still carries the      *)
(* policy and the lock of the accepted code, the accepted code is what the *)
(* lock says was observed, and when check passes nothing but lock and      *)
(* expectation lay between the accepted code and the published             *)
(* expectation the candidate carries.                                      *)
AcceptedPolicyHolds ==
  run.exit \in {0, 1} =>
    LET lock == Tree(run.h).lock  a == lock.accepted
    IN  /\ lock = Tree(run.b).lock
        /\ lock.observed = <<Tree(run.h).policy, Tree(run.b).code>>
        /\ Tree(a).policy = Tree(run.h).policy /\ Tree(a).code = Tree(run.b).code
        /\ run.exit = 0 =>
             /\ Tree(run.h).expected.baseline = run.b /\ Tree(run.h).expected.lock = lock
             /\ Tree(run.e).code = Tree(a).code /\ Tree(run.e).policy = Tree(a).policy
             /\ is_ancestor(run.b, run.h)

Fulfils == run.exit \in {0, 1} /\ "expectation" \notin run.failures
Selected == Tree(run.e).expected.selected
CandidateFacts == FactsOf[Tree(run.h).policy][Tree(run.h).code]
AcceptedFacts == FactsOf[Tree(run.h).policy][Tree(Tree(run.h).lock.accepted).code]

(* A candidate that fulfils an empty declaration has the facts of the      *)
(* accepted code in every dimension, as the delta keeps them: all their    *)
(* data and places, but only the first EvidenceLimit places of a           *)
(* dependency edge or a cycle.                                             *)
EmptyDeclarationMeansUnchanged ==
  Fulfils /\ Selected = {} => CandidateFacts = AcceptedFacts

Often(facts, logical) == Cardinality(Group(facts, logical))

(* Whatever the fulfilled expectation declared, no rule is broken more     *)
(* often between the same two modules, no private name is imported more    *)
(* often, nothing is left more undecided, each cycle is a cycle of the     *)
(* accepted code or lies inside one, and each new edge is one it names.    *)
NoNewDebt ==
  Fulfils =>
    /\ \A d \in {"violations", "private_crossings", "unknowns"} :
         \A f \in CandidateFacts[d] :
           Often(CandidateFacts[d], f.logical) <= Often(AcceptedFacts[d], f.logical)
    /\ \A f \in CandidateFacts.unknowns :
         Alike(CandidateFacts.unknowns, f.semantic) <= Alike(AcceptedFacts.unknowns, f.semantic)
    /\ \A f \in CandidateFacts.cycles :
         \E g \in AcceptedFacts.cycles :
           /\ g.logical.level = f.logical.level
           /\ f.logical.members \subseteq g.logical.members
    /\ \A f \in CandidateFacts.dependency_edges :
         \/ \E g \in AcceptedFacts.dependency_edges : g.logical = f.logical
         \/ \E s \in Selected : s.change = "ADDED" /\ s.fingerprint = f.semantic

(* The verdicts complete scans of a code would have *)
ReadingsOf ==
  [p \in Policies |-> [c \in Codes |->
     {Declared(ContractOf[p], found) : found \in {r \in Readings : Resolution(CodeOf[c], r)}}]]

CandidateReadings == ReadingsOf[Tree(run.h).policy][Tree(run.h).code]

(* A declared FAIL is the verdict of every complete scan the candidate's   *)
(* incomplete one can stand for, and so is a PASS, but for a star import   *)
(* that some rule decides without its names.                               *)
DeclaredVerdictHolds ==
  /\ run.declared = "fail" => CandidateReadings \subseteq {"fail"}
  /\ run.declared = "pass" =>
       \/ Overlooks(ContractOf[Tree(run.h).policy], CodeOf[Tree(run.h).code])
       \/ CandidateReadings \subseteq {"pass"}

(* The docstring of _forbidden_dependency_verdicts: a rule with a target   *)
(* symbol "cannot decide one whose names the scan does not know".          *)
PassNeedsEveryName == run.declared = "pass" => CandidateReadings \subseteq {"pass"}

Seen == {v.head : v \in ToSet(versions)}
SeenBefore ==
  {pair \in Seen \X Seen :
     \E n \in DOMAIN versions :
       versions[n].head = pair[1] /\ \A m \in 1 .. n : versions[m].head # pair[2]}

Promise == INSTANCE PromisedOrder WITH
  Heads <- Nat, published <- Seen, before <- SeenBefore,
  passing <- IF run.exit = 0 THEN <<run.e, run.h>> ELSE None

(* A passing check is about an expectation the forge saw before it first   *)
(* saw the candidate, however often either was pushed, whatever the clock  *)
(* says of pushes close together, and whatever is pushed while it runs.    *)
OrderSpec == Promise!Spec
=============================================================================
