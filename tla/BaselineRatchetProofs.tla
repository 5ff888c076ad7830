------------------------ MODULE BaselineRatchetProofs -----------------------
(***************************************************************************)
(* The ratchet holds for every set of fingerprints, components and budgets *)
(* and however many edits a change has: type correctness, the exact        *)
(* baseline, and that no sequence of merges raises the debt.               *)
(*                                                                         *)
(* NoUndecidedDebt is not inductive: what keeps a merge from raising the   *)
(* debt is the baseline of main, so the invariant must say that this is    *)
(* the debt of main (or that there is none yet), and that the contract it  *)
(* was measured by is no wider than the decided one.                       *)
(***************************************************************************)
EXTENDS BaselineRatchet, TLAPS

\* The baseline of main is none, or what main owes.
MainIsMeasured == main.baseline = NoBaseline \/ main.baseline = Observed(main)

\* The inductive invariant.
Ratchet == TypeOK /\ MainIsMeasured /\ ContractOnlyNarrows /\ NoUndecidedDebt

-----------------------------------------------------------------------------
(* Typing *)

\* What observed_violations() and selected_budgets() return is a baseline.
LEMMA DebtType ==
  ASSUME NEW code \in Codes, NEW contract \in Contracts
  PROVE  Debt(code, contract) \in Baselines
<1>1. 0 \in Counts /\ 1 \in Counts
  BY RatchetAssumption DEF Counts
<1> QED
  BY <1>1 DEF Debt, Baselines, Codes, Contracts

LEMMA NoBaselineType == NoBaseline \in Baselines
<1>1. 0 \in Counts
  BY RatchetAssumption DEF Counts
<1> QED
  BY <1>1 DEF NoBaseline, Baselines

\* An edit keeps the tree a tree.
LEMMA EditType ==
  ASSUME TypeOK, EditCode \/ EditContract \/ EditBaseline
  PROVE  TypeOK'
<1>0. work \in Trees
  BY DEF TypeOK
<1>1. \E tree \in Trees : Edit(tree)
  <2>1. CASE EditCode
    <3>1. \A f \in Plain, n \in Counts : [work EXCEPT !.code.uses[f] = n] \in Trees
      BY <1>0 DEF Trees, Codes
    <3>2. \A cs \in {cs \in SUBSET Cycles : Disjoint(cs)} :
            [work EXCEPT !.code.cycles = cs] \in Trees
      BY <1>0 DEF Trees, Codes
    <3>3. \A b \in Budgets, n \in Counts : [work EXCEPT !.code.values[b] = n] \in Trees
      BY <1>0 DEF Trees, Codes
    <3> QED
      BY <2>1, <3>1, <3>2, <3>3 DEF EditCode
  <2>2. CASE EditContract
    <3>1. \A a \in SUBSET Plain : [work EXCEPT !.contract.allows = a] \in Trees
      BY <1>0 DEF Trees, Contracts
    <3>2. [work EXCEPT !.contract.acyclic = ~@] \in Trees
      BY <1>0 DEF Trees, Contracts
    <3>3. \A bs \in SUBSET Budgets : [work EXCEPT !.contract.budgets = bs] \in Trees
      BY <1>0 DEF Trees, Contracts
    <3> QED
      BY <2>2, <3>1, <3>2, <3>3 DEF EditContract
  <2>3. CASE EditBaseline
    <3>1. \A f \in Plain, n \in Counts :
            [work EXCEPT !.baseline.plain[f] = n, !.baseline.exists = TRUE] \in Trees
      BY <1>0 DEF Trees, Baselines
    <3>2. \A c \in Cycles, n \in Counts :
            [work EXCEPT !.baseline.cycles[c] = n, !.baseline.exists = TRUE] \in Trees
      BY <1>0 DEF Trees, Baselines
    <3>3. \A b \in Budgets, n \in Counts \cup {NotHeld} :
            [work EXCEPT !.baseline.budgets[b] = n, !.baseline.exists = TRUE] \in Trees
      BY <1>0 DEF Trees, Baselines
    <3>4. [work EXCEPT !.baseline = NoBaseline] \in Trees
      BY <1>0, NoBaselineType DEF Trees
    <3> QED
      BY <2>3, <3>1, <3>2, <3>3, <3>4 DEF EditBaseline
  <2> QED
    BY <2>1, <2>2, <2>3
<1>2. PICK tree \in Trees : Edit(tree)
  BY <1>1
<1>3. edits' \in 0..MaxEdits
  BY <1>2, RatchetAssumption DEF Edit, TypeOK
<1> QED
  BY <1>2, <1>3 DEF Edit, TypeOK

\* What --write-baseline leaves is a tree.
LEMMA RewrittenType ==
  ASSUME TypeOK
  PROVE  Rewritten \in Trees
<1>1. Observed(work) \in Baselines
  BY DebtType DEF TypeOK, Trees, Observed
<1> QED
  BY <1>1 DEF Rewritten, TypeOK, Trees

LEMMA PolicyType ==
  ASSUME NEW tree \in Trees
  PROVE  Policy(tree) \in Policies
BY DEF Policy, Policies, Trees

LEMMA TypeStep ==
  ASSUME TypeOK, [Next]_vars
  PROVE  TypeOK'
<1> USE DEF TypeOK
<1>1. CASE EditCode \/ EditContract \/ EditBaseline
  BY <1>1, EditType
<1>2. CASE Abandon
  <2>1. [code |-> main.code, contract |-> main.contract, baseline |-> main.baseline] \in Trees
    BY DEF Trees
  <2> QED
    BY <1>2, <2>1 DEF Abandon
<1>3. ASSUME NEW acceptNew \in BOOLEAN, WriteBaseline(acceptNew)
      PROVE  TypeOK'
  BY <1>3, RewrittenType DEF WriteBaseline
<1>4. ASSUME NEW acceptNew \in BOOLEAN, WriteBoth(acceptNew)
      PROVE  TypeOK'
  <2>1. work' \in Trees
    BY <1>4, RewrittenType DEF WriteBoth
  <2>2. Policy(main) \in Policies /\ Policy(work') \in Policies
    BY <2>1, PolicyType
  <2> QED
    BY <1>4, <2>1, <2>2 DEF WriteBoth
<1>5. CASE WriteAmendment
  <2>1. Policy(main) \in Policies /\ Policy(work) \in Policies
    BY PolicyType
  <2> QED
    BY <1>5, <2>1 DEF WriteAmendment
<1>6. CASE Merge
  BY <1>6 DEF Merge, Trees
<1>7. CASE UNCHANGED vars
  BY <1>7 DEF vars
<1> QED
  BY <1>1, <1>2, <1>3, <1>4, <1>5, <1>6, <1>7 DEF Next

-----------------------------------------------------------------------------
(* What a merge without an amendment may do *)

\* Not widening is transitive: no wider than the main revision is no wider
\* than the decided one.
LEMMA NarrowingIsTransitive ==
  ASSUME NEW x \in Contracts, NEW y \in Contracts, NEW z \in Contracts,
         ~ContractWidens(x, y), ~ContractWidens(y, z)
  PROVE  ~ContractWidens(x, z)
BY DEF ContractWidens, Contracts

\* A passing gate that leaves the contract alone or narrows it, between two
\* measured revisions: no plain violation of the new code exceeds the old.
LEMMA PlainShrinks ==
  ASSUME Ratchet, GatePasses, ~Widens(Policy(main), Policy(work)),
         NEW f \in Plain \ ref.contract.allows
  PROVE  work.code.uses[f] <= ref.code.uses[f]
<1>1. work.baseline.plain[f] = work.code.uses[f]
  <2>1. f \notin work.contract.allows
    BY DEF Ratchet, ContractOnlyNarrows, Widens, ContractWidens, Policy
  <2> QED
    BY <2>1 DEF GatePasses, Matches, Observed, Debt
<1>2. work.baseline.plain[f] \in Nat /\ ref.code.uses[f] \in Nat /\ main.code.uses[f] \in Nat
        /\ main.baseline.plain[f] \in Nat
  BY RatchetAssumption DEF Ratchet, TypeOK, Trees, Baselines, Codes, Counts
<1>3. work.baseline.plain[f] <= main.baseline.plain[f]
  BY <1>2 DEF Widens, NewDebt, Policy
<1>4. main.baseline.plain[f] = 0 \/ main.baseline.plain[f] = main.code.uses[f]
  BY DEF Ratchet, MainIsMeasured, NoBaseline, Observed, Debt, ContractOnlyNarrows, ContractWidens
<1>5. main.code.uses[f] <= ref.code.uses[f]
  BY DEF Ratchet, NoUndecidedDebt
<1> QED
  BY <1>1, <1>2, <1>3, <1>4, <1>5

\* The same for cycles: one that is new is what a known one left behind.
LEMMA CyclesShrink ==
  ASSUME Ratchet, GatePasses, ~Widens(Policy(main), Policy(work)),
         ref.contract.acyclic, NEW c \in work.code.cycles
  PROVE  \E d \in ref.code.cycles : c \subseteq d
<1>0. c \in Cycles
  BY DEF Ratchet, TypeOK, Trees, Codes
<1>1. main.contract.acyclic /\ work.contract.acyclic
  BY DEF Ratchet, ContractOnlyNarrows, Widens, ContractWidens, Policy
<1>2. work.baseline.cycles[c] = 1
  BY <1>0, <1>1 DEF GatePasses, Matches, Observed, Debt
<1>3. \A d \in Cycles : work.baseline.cycles[d] \in Nat /\ main.baseline.cycles[d] \in Nat
  BY RatchetAssumption DEF Ratchet, TypeOK, Trees, Baselines, Counts
<1>4. \A d \in Cycles : main.baseline.cycles[d] > 0 => d \in main.code.cycles
  BY <1>3 DEF Ratchet, MainIsMeasured, NoBaseline, Observed, Debt
<1>5. \E d \in Cycles : c \subseteq d /\ main.baseline.cycles[d] > 0
  <2>1. CASE main.baseline.cycles[c] > 0
    BY <1>0, <2>1
  <2>2. CASE ~(main.baseline.cycles[c] > 0)
    <3>1. work.baseline.cycles[c] > main.baseline.cycles[c]
      BY <1>0, <1>2, <1>3, <2>2
    <3>2. Contracted(main.baseline, work.baseline, work.contract, c)
      BY <1>0, <3>1 DEF Widens, NewDebt, Policy
    <3>3. PICK d \in Cycles :
            work.baseline.cycles[d] < main.baseline.cycles[d] /\ c \subseteq d
      BY <3>2 DEF Contracted, Remains
    <3> QED
      BY <1>3, <3>3
  <2> QED
    BY <2>1, <2>2
<1>6. PICK d \in main.code.cycles : c \subseteq d
  BY <1>4, <1>5
<1>7. \E e \in ref.code.cycles : d \subseteq e
  BY DEF Ratchet, NoUndecidedDebt
<1> QED
  BY <1>6, <1>7

\* The same for budgets: a held value is never lost, and never higher.
LEMMA BudgetsShrink ==
  ASSUME Ratchet, GatePasses, ~Widens(Policy(main), Policy(work)),
         NEW b \in ref.contract.budgets
  PROVE  work.code.values[b] <= ref.code.values[b]
<1>0. b \in Budgets
  BY DEF Ratchet, TypeOK, Contracts
<1>1. b \in main.contract.budgets /\ b \in work.contract.budgets
  BY DEF Ratchet, ContractOnlyNarrows, Widens, ContractWidens, Policy
<1>2. work.baseline.budgets[b] = work.code.values[b]
  BY <1>0, <1>1 DEF GatePasses, Matches, Observed, Debt
<1>3. main.baseline.budgets[b] # NotHeld
  BY <1>1 DEF GatePasses, Compares, HoldsBudgets
<1>4. main.baseline.budgets[b] = main.code.values[b]
  BY <1>0, <1>1, <1>3 DEF Ratchet, MainIsMeasured, NoBaseline, Observed, Debt
<1>5. work.code.values[b] \in Nat /\ main.code.values[b] \in Nat /\ ref.code.values[b] \in Nat
  BY <1>0, RatchetAssumption DEF Ratchet, TypeOK, Trees, Codes, Counts
<1>6. work.code.values[b] <= main.code.values[b]
  BY <1>0, <1>2, <1>3, <1>4, <1>5 DEF Widens, BudgetWidens, Policy
<1>7. main.code.values[b] <= ref.code.values[b]
  BY DEF Ratchet, NoUndecidedDebt
<1> QED
  BY <1>5, <1>6, <1>7

\* A decided merge is where the measure starts again.
LEMMA DecidedIsTheMeasure ==
  TypeOK /\ ref = [code |-> main.code, contract |-> main.contract]
    => ContractOnlyNarrows /\ NoUndecidedDebt
<1> SUFFICES ASSUME TypeOK, ref = [code |-> main.code, contract |-> main.contract]
             PROVE  ContractOnlyNarrows /\ NoUndecidedDebt
  OBVIOUS
<1>1. ref.code = main.code /\ ref.contract = main.contract
  OBVIOUS
<1>2. ContractOnlyNarrows
  BY <1>1 DEF ContractOnlyNarrows, ContractWidens
<1>3. \A f \in Plain : main.code.uses[f] \in Nat
  BY RatchetAssumption DEF TypeOK, Trees, Codes, Counts
<1>4. ref.contract.budgets \subseteq Budgets
  BY DEF TypeOK, Contracts
<1>5. \A b \in Budgets : main.code.values[b] \in Nat
  BY RatchetAssumption DEF TypeOK, Trees, Codes, Counts
<1> QED
  BY <1>1, <1>2, <1>3, <1>4, <1>5 DEF NoUndecidedDebt

-----------------------------------------------------------------------------
(* The invariant *)

LEMMA RatchetInit == Init => Ratchet
<1> SUFFICES ASSUME Init PROVE Ratchet
  OBVIOUS
<1>1. PICK code \in Codes, contract \in Contracts :
        \E baseline \in {NoBaseline, Debt(code, contract)} :
          main = [code |-> code, contract |-> contract, baseline |-> baseline]
  BY DEF Init
<1>2. main \in Trees
  BY <1>1, DebtType, NoBaselineType DEF Trees
<1>3. TypeOK
  <2>1. edits \in 0..MaxEdits
    BY RatchetAssumption DEF Init
  <2> QED
    BY <1>2, <2>1 DEF Init, TypeOK, Trees
<1>4. MainIsMeasured
  BY <1>1 DEF MainIsMeasured, Observed
<1>5. ContractOnlyNarrows /\ NoUndecidedDebt
  BY <1>3, DecidedIsTheMeasure DEF Init
<1> QED
  BY <1>3, <1>4, <1>5 DEF Ratchet

\* Only a merge touches what the invariant speaks of.
LEMMA RatchetStep == Ratchet /\ [Next]_vars => Ratchet'
<1> SUFFICES ASSUME Ratchet, [Next]_vars PROVE Ratchet'
  OBVIOUS
<1>1. TypeOK'
  BY TypeStep DEF Ratchet
<1>2. CASE Merge
  <2>1. MainIsMeasured'
    <3>1. main'.baseline = work.baseline /\ Observed(main)' = Observed(work)
      BY <1>2 DEF Merge, Observed
    <3>2. work.baseline.exists
      BY <1>2 DEF Merge, GatePasses, Judges
    <3>3. work.baseline \in Baselines
      BY DEF Ratchet, TypeOK, Trees
    <3>4. work.baseline = Observed(work)
      <4>1. Matches(work.baseline, Observed(work))
        BY <1>2 DEF Merge, GatePasses
      <4> QED
        BY <3>2, <3>3, <4>1 DEF Matches, Observed, Debt, Baselines
    <3> QED
      BY <3>1, <3>4 DEF MainIsMeasured
  <2>2. CASE decided.binds
    <3>1. (ref = [code |-> main.code, contract |-> main.contract])'
      BY <1>2, <2>2 DEF Merge
    <3>2. ContractOnlyNarrows' /\ NoUndecidedDebt'
      BY <1>1, <3>1, DecidedIsTheMeasure, PTL
    <3> QED
      BY <1>1, <2>1, <3>2 DEF Ratchet
  <2>3. CASE ~decided.binds
    <3>1. GatePasses /\ ~Widens(Policy(main), Policy(work))
      BY <1>2, <2>3 DEF Merge, GatePasses, WideningPasses, Amended, Binds
    <3>2. ref' = ref /\ main' = work
      BY <1>2, <2>3 DEF Merge
    <3>3. ContractOnlyNarrows'
      <4>1. ref.contract \in Contracts /\ main.contract \in Contracts
              /\ work.contract \in Contracts
        BY DEF Ratchet, TypeOK, Trees
      <4>2. ~ContractWidens(main.contract, work.contract)
        BY <3>1 DEF Widens, Policy
      <4>3. ~ContractWidens(ref.contract, work.contract)
        BY <4>1, <4>2, NarrowingIsTransitive DEF Ratchet, ContractOnlyNarrows
      <4> QED
        BY <3>2, <4>3 DEF ContractOnlyNarrows
    <3>4. NoUndecidedDebt'
      <4>1. \A f \in Plain \ ref.contract.allows : work.code.uses[f] <= ref.code.uses[f]
        BY <3>1, PlainShrinks
      <4>2. ref.contract.acyclic =>
              \A c \in work.code.cycles : \E d \in ref.code.cycles : c \subseteq d
        BY <3>1, CyclesShrink
      <4>3. \A b \in ref.contract.budgets : work.code.values[b] <= ref.code.values[b]
        BY <3>1, BudgetsShrink
      <4> QED
        BY <3>2, <4>1, <4>2, <4>3 DEF NoUndecidedDebt
    <3> QED
      BY <1>1, <2>1, <3>3, <3>4 DEF Ratchet
  <2> QED
    BY <2>2, <2>3
<1>3. CASE ~Merge
  <2>1. UNCHANGED <<main, ref>>
    BY <1>3 DEF Next, vars, EditCode, EditContract, EditBaseline, Edit, Abandon,
                WriteBaseline, WriteBoth, WriteAmendment
  <2>2. MainIsMeasured' /\ ContractOnlyNarrows' /\ NoUndecidedDebt'
    BY <2>1 DEF Ratchet, MainIsMeasured, Observed, ContractOnlyNarrows, NoUndecidedDebt
  <2> QED
    BY <1>1, <2>2 DEF Ratchet
<1> QED
  BY <1>2, <1>3

LEMMA RatchetInvariant == Spec => []Ratchet
BY RatchetInit, RatchetStep, PTL DEF Spec

-----------------------------------------------------------------------------
(* The results *)

\* run_validate(): trees, amendments and history keep their types.
(* Whatever is edited, rewritten and merged, the working tree and main     *)
(* hold code, contract and baseline of the kinds the constants describe.   *)
THEOREM RatchetTypeCorrect == Spec => []TypeOK
<1>1. Ratchet => TypeOK
  BY DEF Ratchet
<1> QED
  BY <1>1, RatchetInvariant, PTL

\* compare_violations() and compare_budgets(): the baseline of the main
\* revision states its debt exactly, for every way to write it.
(* The baseline of main is exactly what its code owes its contract,        *)
(* however it was written and merged.                                      *)
THEOREM BaselineIsExact == Spec => []BaselineIsTheDebt
<1>1. Ratchet => BaselineIsTheDebt
  BY DEF Ratchet, MainIsMeasured, BaselineIsTheDebt, NoBaseline
<1> QED
  BY <1>1, RatchetInvariant, PTL

\* The gate as a whole: between two amendments the debt of the main revision
\* only shrinks, however many changes are merged.
(* The gate: by the contract of the last merge that carried an amendment,  *)
(* the code of main owes no more than it did then.                         *)
THEOREM DebtOnlyShrinks == Spec => []NoUndecidedDebt
<1>1. Ratchet => NoUndecidedDebt
  BY DEF Ratchet
<1> QED
  BY <1>1, RatchetInvariant, PTL

\* --write-baseline without --accept-new: a rewrite hides no new debt.
(* Writing the baseline anew without --accept-new only shrinks it. *)
THEOREM RewritesShrink == Spec => RewriteOnlyShrinks
<1>1. ASSUME TypeOK, WriteBaseline(FALSE), work.baseline.exists
      PROVE  OnlyShrinks(work.baseline, work'.baseline)
  <2>1. work'.baseline = Observed(work)
    BY <1>1 DEF WriteBaseline, Rewritten, TypeOK, Trees
  <2>2. work.baseline \in Baselines /\ Observed(work) \in Baselines
    BY <1>1, DebtType DEF TypeOK, Trees, Observed
  <2>3. ~NewDebt(work.baseline, Observed(work), work.contract)
          /\ ~BudgetRises(work.baseline, Observed(work))
    BY <1>1 DEF WriteBaseline, Refused
  <2>4. ASSUME NEW f \in Plain
        PROVE  Observed(work).plain[f] <= work.baseline.plain[f]
    <3>1. Observed(work).plain[f] \in Nat /\ work.baseline.plain[f] \in Nat
      BY <2>2, RatchetAssumption DEF Baselines, Counts
    <3>2. ~(Observed(work).plain[f] > work.baseline.plain[f])
      BY <2>3 DEF NewDebt
    <3> QED
      BY <3>1, <3>2
  <2>5. ASSUME NEW c \in Cycles, Observed(work).cycles[c] > 0
        PROVE  \E d \in Cycles : work.baseline.cycles[d] > 0 /\ c \subseteq d
    <3>1. \A d \in Cycles :
            Observed(work).cycles[d] \in Nat /\ work.baseline.cycles[d] \in Nat
      BY <2>2, RatchetAssumption DEF Baselines, Counts
    <3>2. CASE Contracted(work.baseline, Observed(work), work.contract, c)
      <4>1. PICK d \in Cycles :
              Observed(work).cycles[d] < work.baseline.cycles[d] /\ c \subseteq d
        BY <3>2 DEF Contracted, Remains
      <4> QED
        BY <3>1, <4>1
    <3>3. CASE ~Contracted(work.baseline, Observed(work), work.contract, c)
      <4>1. ~(Observed(work).cycles[c] > work.baseline.cycles[c])
        BY <2>3, <3>3 DEF NewDebt
      <4> QED
        BY <2>5, <3>1, <4>1
    <3> QED
      BY <3>2, <3>3
  <2>6. ASSUME NEW b \in Budgets, work.baseline.budgets[b] # NotHeld
        PROVE  Observed(work).budgets[b] <= work.baseline.budgets[b]
    <3>1. work.baseline.budgets[b] \in Nat
      BY <2>2, <2>6, RatchetAssumption DEF Baselines, Counts
    <3>2. Observed(work).budgets[b] \in Nat \/ Observed(work).budgets[b] = NotHeld
      BY <2>2, RatchetAssumption DEF Baselines, Counts
    <3> QED
      BY <2>3, <2>6, <3>1, <3>2 DEF BudgetRises, NotHeld
  <2> QED
    BY <2>1, <2>4, <2>5, <2>6 DEF OnlyShrinks
<1>2. TypeOK => [WriteBaseline(FALSE) /\ work.baseline.exists =>
                   OnlyShrinks(work.baseline, work'.baseline)]_vars
  BY <1>1
<1> QED
  BY <1>2, RatchetTypeCorrect, PTL DEF RewriteOnlyShrinks
=============================================================================
