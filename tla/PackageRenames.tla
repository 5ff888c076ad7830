---------------------------- MODULE PackageRenames ---------------------------
(***************************************************************************)
(* A package rename between two revisions of a contract (AD-105).  What    *)
(* moved is guessed from the packages of the components; a guess is used   *)
(* when the names it renames hold each other as they did and nothing is    *)
(* left under an old name.  The old contract is then compared with the new *)
(* one under its new names, and what widened nothing needs no decision.    *)
(*                                                                         *)
(* A name is a sequence of segments.  The contract is one forbidden        *)
(* dependency, on a target outside the components, and who owns what.      *)
(***************************************************************************)
EXTENDS Integers, FiniteSetsExt, SequencesExt

CONSTANTS
  Segments,    \* what stands between the dots of a name
  Names,       \* dotted names a contract or the code can use
  Components,
  Packages,    \* what components can own: [Components -> sets of names]
  Rules,       \* a rule's source and allowed sources
  Absent       \* no module

ASSUME NameAssumption ==
  /\ Names \subseteq Seq(Segments) \ {<<>>}
  /\ Absent \notin Names \cup Segments

ASSUME ContractAssumption ==
  /\ Packages \subseteq [Components -> SUBSET Names]
  /\ Rules \subseteq [source : Names, allowed : SUBSET Names]

VARIABLES
  contract,  \* of the main revision: packages and at most one rule
  module     \* a module of the code, or Absent

vars == <<contract, module>>

in_scope(name, prefix) == \E n \in 1 .. Len(name) : prefix = SubSeq(name, 1, n)

last_name(name) == name[Len(name)]

-----------------------------------------------------------------------------
(* Substitutions: functions from old prefixes to new ones *)

NoRenames == [old \in {} |-> <<>>]

renamed(name, renames) ==
  LET holding == {old \in DOMAIN renames : in_scope(name, old)}
      old     == CHOOSE p \in holding : \A q \in holding : Len(q) <= Len(p)
  IN  IF holding = {} THEN name
      ELSE renames[old] \o SubSeq(name, Len(old) + 1, Len(name))

RenamedAll(names, renames) == {renamed(n, renames) : n \in names}

(* The segments at the end that a move kept, but never a whole name *)
_shortest(old, new) ==
  LET Kept(k) == /\ k < Len(old) /\ k < Len(new)
                 /\ \A j \in 0 .. k - 1 : old[Len(old) - j] = new[Len(new) - j]
      kept    == Max({k \in 0 .. Len(old) : Kept(k)})
  IN  <<SubSeq(old, 1, Len(old) - kept), SubSeq(new, 1, Len(new) - kept)>>

(* One substitution for all pairs, without those a shorter one implies, or *)
(* none when two old names or two new ones would clash.                    *)
_mapping(pairs) ==
  LET Longest(some) == CHOOSE p \in some : \A o \in some : Len(o[1]) <= Len(p[1])
      Clash(mapping, p) ==
        p[1] \in DOMAIN mapping \/ \E old \in DOMAIN mapping : mapping[old] = p[2]
      Extended(mapping, p) ==
        [old \in DOMAIN mapping \cup {p[1]} |-> IF old = p[1] THEN p[2] ELSE mapping[old]]
      Entered(p, found) ==
        IF ~found.clash /\ renamed(p[1], found.mapping) # p[2]
        THEN [clash   |-> Clash(found.mapping, p),
              mapping |-> Extended(found.mapping, p)]
        ELSE found
      all == MapThenFoldSet(Entered, [clash |-> FALSE, mapping |-> NoRenames],
                            LAMBDA p : p, Longest, pairs)
  IN  IF all.clash THEN NoRenames ELSE all.mapping

-----------------------------------------------------------------------------
(* Candidates *)

Alone(name, names) == {n \in names : last_name(n) = last_name(name)}

(* The packages of a component that went and came, paired by a last        *)
(* segment that is unique on both sides, or because no others are left.    *)
_moved(old, new) ==
  LET gone   == old \ new
      came   == new \ old
      byName == {p \in gone \X came : Alone(p[1], came) = {p[2]} /\ Alone(p[1], gone) = {p[1]}}
      left   == gone \ {p[1] : p \in byName}
      others == came \ {p[2] : p \in byName}
  IN  IF Cardinality(gone) # Cardinality(came) THEN {}
      ELSE byName \cup (IF Cardinality(left) = 1 /\ Cardinality(others) = 1
                        THEN left \X others ELSE {})

\* Fault: the packages themselves are not tried.
ShortestOnly(before, after) ==
  LET pairs == UNION {_moved(before[c], after[c]) : c \in Components}
      short == _mapping({_shortest(p[1], p[2]) : p \in pairs})
  IN  IF short = NoRenames THEN <<>> ELSE <<short>>

(* At most two, the one with the shortest prefixes first *)
rename_candidates(before, after) ==
  LET pairs == UNION {_moved(before[c], after[c]) : c \in Components}
      short == _mapping({_shortest(p[1], p[2]) : p \in pairs})
      long  == _mapping(pairs)
      Found(mapping) == IF mapping = NoRenames THEN <<>> ELSE <<mapping>>
  IN  Found(short) \o (IF long = short THEN <<>> ELSE Found(long))

-----------------------------------------------------------------------------
(* Does a candidate rename, and nothing else? *)

Holding(name, names) == {n \in names : in_scope(name, n)}

\* Fault: a name may come under one that did not hold it.
KeepsOwnHolders(olds, renames) ==
  \A old \in olds : \A n \in Holding(old, olds) :
    in_scope(renamed(old, renames), renamed(n, renames))

KeepsHolders(olds, renames) ==
  \A old \in olds :
    Holding(old, olds) =
      {n \in olds : in_scope(renamed(old, renames), renamed(n, renames))}

\* Fault: the modules that are scanned are not looked at.
MayStay(renames, observed) == TRUE

NothingLeft(renames, observed) ==
  \A m \in observed, old \in DOMAIN renames : ~in_scope(m, old)

rename_holds(renames, names, observed) ==
  /\ KeepsHolders(names \cup DOMAIN renames, renames)
  /\ NothingLeft(renames, observed)

module_references(policy) ==
  UNION ({policy.packages[c] : c \in Components}
           \cup {{r.source} \cup r.allowed : r \in policy.rules})

renamed_contract(policy, renames) ==
  [packages |-> [c \in Components |-> RenamedAll(policy.packages[c], renames)],
   rules |-> {[source  |-> renamed(r.source, renames),
               allowed |-> RenamedAll(r.allowed, renames)] : r \in policy.rules}]

(* The old contract as it is compared: under the first candidate that      *)
(* holds, or as it is.                                                     *)
Compared(policy, candidates, observed) ==
  LET holding == {n \in DOMAIN candidates :
                    rename_holds(candidates[n], module_references(policy), observed)}
  IN  IF holding = {} THEN policy ELSE renamed_contract(policy, candidates[Min(holding)])

(* contract_widening_changes(): a package or the rule's source that        *)
(* differs, a rule that is gone, an allowance that is new.                 *)
RuleWidens(before, after) ==
  \E old \in before : \A new \in after :
    new.source # old.source \/ ~(new.allowed \subseteq old.allowed)

Widens(before, after) ==
  before.packages # after.packages \/ RuleWidens(before.rules, after.rules)

-----------------------------------------------------------------------------
(* Merges that carry no amendment *)

RuleSets == {{}} \cup {{r} : r \in Rules}

Policies == [packages : Packages, rules : RuleSets]

Init ==
  /\ contract \in Policies
  /\ module \in Names

Accept ==
  \E packages \in Packages :
  \E candidates \in {rename_candidates(contract.packages, packages)}, stays \in BOOLEAN :
    /\ module' = IF stays THEN module ELSE Absent
    /\ \E before \in {Compared(contract, candidates, {module'} \ {Absent})}, rules \in RuleSets :
         /\ ~Widens(before, [packages |-> packages, rules |-> rules])
         /\ contract' = [packages |-> packages, rules |-> rules]

Arrive ==
  /\ module = Absent
  /\ module' \in Names
  /\ UNCHANGED contract

Next == Accept \/ Arrive

Spec == Init /\ [][Next]_vars

-----------------------------------------------------------------------------
(* Properties *)

Owners(policy, m) == {c \in Components : \E p \in policy.packages[c] : in_scope(m, p)}

Held(policy, m) == \E r \in policy.rules : in_scope(m, r.source)

Allowed(policy, m) == \E r \in policy.rules : in_scope(m, r.source) /\ m \in r.allowed

\* Names as the contract uses them, names below them, and one it knows nothing of
Modules == Names \cup {n \o <<last_name(m)>> : n, m \in Names} \cup {<<Absent>>}

Judged(policy) ==
  {[owners |-> Owners(policy, m), held |-> Held(policy, m), allowed |-> Allowed(policy, m)] :
     m \in Modules}

(* After a merge without a decision each name is judged as strictly as     *)
(* some name was before: packages move, permissions do not.                *)
RenameWidensNothing ==
  [][\A after \in Judged(contract)' : \E before \in Judged(contract) :
       /\ after.owners = before.owners
       /\ before.held => after.held
       /\ after.allowed => before.allowed \/ ~before.held]_vars

(* A module that stays where it is stays under the rule that held it.      *)
NothingIsLeftUngoverned ==
  [][module # Absent /\ module' = module /\ Held(contract, module) =>
       Held(contract', module)]_vars

(* A package that moves alone, to a name nothing stands above or below, is *)
(* recognised where every name that did not move still has its modules.    *)
Moves(p, q) == [old \in {p} |-> q]

Apart(q, names) == \A n \in names : ~in_scope(n, q) /\ ~in_scope(q, n)

MoveIsFound ==
  \A c \in Components, q \in Modules : \A p \in contract.packages[c] :
    LET names == module_references(contract)
        after == renamed_contract(contract, Moves(p, q))
        alone == \A d \in Components : \A n \in contract.packages[d] : in_scope(n, p) => n = p
    IN  Apart(q, names) /\ Holding(p, names) = {p} /\ alone =>
          Compared(contract, rename_candidates(contract.packages, after.packages),
                   module_references(after)) = after
=============================================================================
