--------------------------- MODULE BaselineRatchet --------------------------
(***************************************************************************)
(* `archkeel validate` as a ratchet.  Known violations and accepted budget *)
(* values live in a baseline file beside the contract.  A change is merged *)
(* when validate passes with --baseline and --against the main revision:   *)
(* the baseline states exactly the debt of the code, and nothing was       *)
(* widened unless the change brings an amendment that binds it.            *)
(*                                                                         *)
(* The people are the environment: they edit code, contract and baseline   *)
(* as they like, by hand or with --write-baseline and --write-amendment.   *)
(* Violations have two kinds of fingerprint, plain ones and the member     *)
(* sets of component cycles; a fingerprint's roles are left out.           *)
(***************************************************************************)
EXTENDS Integers

CONSTANTS Plain,       \* fingerprints of plain violations
          Components,  \* components that may form cycles
          Budgets,     \* scalars a contract may declare a budget for
          MaxCount,    \* bound: the largest count or value
          MaxEdits     \* bound: edits in a behaviour

ASSUME RatchetAssumption == MaxCount \in Nat \ {0} /\ MaxEdits \in Nat

VARIABLES main,     \* the accepted revision
          work,     \* the working tree of the change
          decided,  \* the amendment the change brings, if any
          ref,      \* history: code and contract of the last decided merge
          edits     \* edits so far

vars == <<main, work, decided, ref, edits>>

Counts == 0..MaxCount
NotHeld == -1

\* Sets of components that form a cycle together, and what a code can have:
\* strongly connected components, which do not overlap.
Cycles == {c \in SUBSET Components : \E a, b \in c : a # b}
Disjoint(cs) == \A c, d \in cs : c = d \/ c \cap d = {}

Codes == [uses : [Plain -> Counts], cycles : {cs \in SUBSET Cycles : Disjoint(cs)},
          values : [Budgets -> Counts]]

\* A contract allows plain dependencies, and may hold the components acyclic
\* (a no_component_cycles rule) and declare measurement budgets.
Contracts == [allows : SUBSET Plain, acyclic : BOOLEAN, budgets : SUBSET Budgets]

Baselines == [exists : BOOLEAN, plain : [Plain -> Counts], cycles : [Cycles -> Counts],
              budgets : [Budgets -> Counts \cup {NotHeld}]]

NoBaseline == [exists |-> FALSE, plain |-> [f \in Plain |-> 0], cycles |-> [c \in Cycles |-> 0],
               budgets |-> [b \in Budgets |-> NotHeld]]

\* observed_violations() and selected_budgets(): what --write-baseline writes.
Debt(code, contract) ==
  [exists |-> TRUE,
   plain |-> [f \in Plain |-> IF f \in contract.allows THEN 0 ELSE code.uses[f]],
   cycles |-> [c \in Cycles |-> IF contract.acyclic /\ c \in code.cycles THEN 1 ELSE 0],
   budgets |-> [b \in Budgets |-> IF b \in contract.budgets THEN code.values[b] ELSE NotHeld]]

Observed(tree) == Debt(tree.code, tree.contract)

\* What an amendment binds: contract and baseline, by their digests.
Policy(tree) == [contract |-> tree.contract, baseline |-> tree.baseline]
NoAmendment == [binds |-> FALSE]

Init ==
  /\ \E code \in Codes, contract \in Contracts :
       \E baseline \in {NoBaseline, Debt(code, contract)} :
         main = [code |-> code, contract |-> contract, baseline |-> baseline]
  /\ work = main /\ decided = NoAmendment
  /\ ref = [code |-> main.code, contract |-> main.contract]
  /\ edits = 0

-----------------------------------------------------------------------------
(* Comparing two baselines *)

\* Fault: a cycle that shares components with one that is gone.
OverlapsOne(known, observed, c) ==
  \E d \in Cycles : observed.cycles[d] < known.cycles[d] /\ c \cap d # {} /\ c # d

\* cycle_contractions(): a cycle is the remains of a known cycle when it is a
\* strict subset of one whose own count fell, under a cycle rule.
Remains(known, observed, c) ==
  \E d \in Cycles : observed.cycles[d] < known.cycles[d] /\ c \subseteq d /\ c # d

Contracted(known, observed, contract, c) ==
  /\ contract.acyclic
  /\ observed.cycles[c] > known.cycles[c]
  /\ Remains(known, observed, c)

\* violation_drift_counts() counts something new.
NewDebt(known, observed, contract) ==
  \/ \E f \in Plain : observed.plain[f] > known.plain[f]
  \/ \E c \in Cycles :
       observed.cycles[c] > known.cycles[c] /\ ~Contracted(known, observed, contract, c)

\* Fault: a budget may rise.
NoRises(known, observed) == FALSE

\* budget_regressions(): a new declaration has no value to rise from.
BudgetRises(known, observed) ==
  \E b \in Budgets :
    /\ known.budgets[b] # NotHeld /\ observed.budgets[b] # NotHeld
    /\ observed.budgets[b] > known.budgets[b]

\* compare_violations() and compare_budgets() find nothing.
Matches(known, observed) ==
  known.plain = observed.plain /\ known.cycles = observed.cycles
    /\ known.budgets = observed.budgets

-----------------------------------------------------------------------------
(* Comparing with the main revision *)

\* contract_widening_changes(): a permission gained, a restriction lost.
ContractWidens(before, after) ==
  \/ ~(after.allows \subseteq before.allows)
  \/ before.acyclic /\ ~after.acyclic
  \/ ~(before.budgets \subseteq after.budgets)

\* measurement_budget_changes(): an accepted value lost or raised.
BudgetWidens(before, after) ==
  \E b \in Budgets :
    before.budgets[b] # NotHeld
      /\ (after.budgets[b] = NotHeld \/ after.budgets[b] > before.budgets[b])

\* Fault: the baseline is not part of the contract's surface.
ContractOnly(before, after) == ContractWidens(before.contract, after.contract)

\* _widening_failures(): the cycle rules are those of the new contract.
Widens(before, after) ==
  \/ ContractWidens(before.contract, after.contract)
  \/ NewDebt(before.baseline, after.baseline, after.contract)
  \/ BudgetWidens(before.baseline, after.baseline)

\* verify_amendment().
Binds(amendment, before, after) ==
  amendment.binds /\ amendment.before = before /\ amendment.after = after

\* run_validate() judges a tree only with a readable baseline that holds every
\* declared budget, at the compared revision too; else it exits with 2.
HoldsBudgets(tree) == \A b \in tree.contract.budgets : tree.baseline.budgets[b] # NotHeld
Judges(tree) == tree.baseline.exists /\ HoldsBudgets(tree)
Compares(revision) == HoldsBudgets(revision)

\* An amendment that is passed and does not bind is stale and fails also
\* where nothing was widened.
Amended == Binds(decided, Policy(main), Policy(work))
WideningPasses == Amended \/ (~decided.binds /\ ~Widens(Policy(main), Policy(work)))

\* validate --baseline --against main [--amendment], with the amendment the
\* change brings, exits with 0.
GatePasses ==
  /\ Judges(work) /\ Compares(main)
  /\ Matches(work.baseline, Observed(work))
  /\ WideningPasses

-----------------------------------------------------------------------------
(* The people *)

Edit(tree) ==
  /\ edits < MaxEdits /\ tree # work
  /\ edits' = edits + 1
  /\ work' = tree
  /\ UNCHANGED <<main, decided, ref>>

EditCode ==
  \/ \E f \in Plain, n \in Counts : Edit([work EXCEPT !.code.uses[f] = n])
  \/ \E cs \in {cs \in SUBSET Cycles : Disjoint(cs)} : Edit([work EXCEPT !.code.cycles = cs])
  \/ \E b \in Budgets, n \in Counts : Edit([work EXCEPT !.code.values[b] = n])

EditContract ==
  \/ \E a \in SUBSET Plain : Edit([work EXCEPT !.contract.allows = a])
  \/ Edit([work EXCEPT !.contract.acyclic = ~@])
  \/ \E bs \in SUBSET Budgets : Edit([work EXCEPT !.contract.budgets = bs])

\* By hand, which is how a baseline is padded.
EditBaseline ==
  \/ \E f \in Plain, n \in Counts :
       Edit([work EXCEPT !.baseline.plain[f] = n, !.baseline.exists = TRUE])
  \/ \E c \in Cycles, n \in Counts :
       Edit([work EXCEPT !.baseline.cycles[c] = n, !.baseline.exists = TRUE])
  \/ \E b \in Budgets, n \in Counts \cup {NotHeld} :
       Edit([work EXCEPT !.baseline.budgets[b] = n, !.baseline.exists = TRUE])
  \/ Edit([work EXCEPT !.baseline = NoBaseline])

\* The change is thrown away.
Abandon ==
  /\ work' = [code |-> main.code, contract |-> main.contract, baseline |-> main.baseline]
  /\ decided' = NoAmendment
  /\ UNCHANGED <<main, ref, edits>>

-----------------------------------------------------------------------------
(* The tool *)

\* --write-baseline refuses new debt in an existing baseline without
\* --accept-new.
Refused(acceptNew) ==
  /\ work.baseline.exists /\ ~acceptNew
  /\ \/ NewDebt(work.baseline, Observed(work), work.contract)
     \/ BudgetRises(work.baseline, Observed(work))

Rewritten == [work EXCEPT !.baseline = Observed(work)]

\* validate --baseline --write-baseline [--accept-new]
WriteBaseline(acceptNew) ==
  /\ ~Refused(acceptNew)
  /\ work' = Rewritten
  /\ UNCHANGED <<main, decided, ref, edits>>

\* validate --baseline --against main --amendment f --write-amendment: the
\* amendment binds the baseline that is there, right or wrong.
WriteAmendment ==
  /\ Judges(work) /\ Compares(main)
  /\ decided' = [binds |-> TRUE, before |-> Policy(main), after |-> Policy(work)]
  /\ UNCHANGED <<main, work, ref, edits>>

\* The same with --write-baseline [--accept-new]: one run writes both files.
WriteBoth(acceptNew) ==
  /\ Compares(main) /\ ~Refused(acceptNew)
  /\ work' = Rewritten
  /\ decided' = [binds |-> TRUE, before |-> Policy(main), after |-> Policy(work')]
  /\ UNCHANGED <<main, ref, edits>>

\* The gate passes, and the change becomes the main revision.  Its amendment
\* is none of the next change's.
Merge ==
  /\ GatePasses
  /\ main' = work
  /\ ref' = IF decided.binds THEN [code |-> work.code, contract |-> work.contract] ELSE ref
  /\ decided' = NoAmendment
  /\ UNCHANGED <<work, edits>>

Next ==
  \/ EditCode \/ EditContract \/ EditBaseline \/ Abandon
  \/ \E acceptNew \in BOOLEAN : WriteBaseline(acceptNew) \/ WriteBoth(acceptNew)
  \/ WriteAmendment
  \/ Merge

Spec == Init /\ [][Next]_vars

-----------------------------------------------------------------------------
(* Properties *)

Trees == [code : Codes, contract : Contracts, baseline : Baselines]
Policies == [contract : Contracts, baseline : Baselines]

\* The types of the variables.
TypeOK ==
  /\ main \in Trees /\ work \in Trees
  /\ decided \in {NoAmendment} \cup [binds : {TRUE}, before : Policies, after : Policies]
  /\ ref \in [code : Codes, contract : Contracts]
  /\ edits \in 0..MaxEdits

\* "The file states today's debt rather than an upper bound": the main
\* revision's baseline is exactly what its code owes its contract, however it
\* was written, so that a violation somebody removed cannot come back.
BaselineIsTheDebt == main.baseline.exists => main.baseline = Observed(main)

\* The ratchet: measured by the contract of the last merge that carried an
\* amendment (or of the start), the code of main owes no more than it did
\* then: no plain violation more often, no cycle outside a cycle of then, no
\* budgeted value higher.  No sequence of merges whose contract, baseline and
\* code all change gets around it.
NoUndecidedDebt ==
  /\ \A f \in Plain \ ref.contract.allows : main.code.uses[f] <= ref.code.uses[f]
  /\ ref.contract.acyclic =>
       \A c \in main.code.cycles : \E d \in ref.code.cycles : c \subseteq d
  /\ \A b \in ref.contract.budgets : main.code.values[b] <= ref.code.values[b]

\* "The budget only shrinks": between two amendments the contract of main
\* only narrows.
ContractOnlyNarrows == ~ContractWidens(ref.contract, main.contract)

\* "An existing one is compared before it is rewritten": without --accept-new
\* a rewrite never lets the debt of an existing baseline grow.
OnlyShrinks(before, after) ==
  /\ \A f \in Plain : after.plain[f] <= before.plain[f]
  /\ \A c \in Cycles :
       after.cycles[c] > 0 =>
         \E d \in Cycles : before.cycles[d] > 0 /\ c \subseteq d
  /\ \A b \in Budgets :
       before.budgets[b] # NotHeld => after.budgets[b] <= before.budgets[b]

RewriteOnlyShrinks ==
  [][WriteBaseline(FALSE) /\ work.baseline.exists =>
       OnlyShrinks(work.baseline, work'.baseline)]_vars
=============================================================================
