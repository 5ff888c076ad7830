-------------------------- MODULE ArchitectureDelta --------------------------
(***************************************************************************)
(* How two observations are compared, and what an expectation lets the     *)
(* comparison show.  Facts of one dimension are paired first by all they   *)
(* hold, then by their data (they moved), then by their logical identity   *)
(* (they changed); what is left was removed or added.                      *)
(***************************************************************************)
EXTENDS ObservedFacts, SequencesExt

Least(a, b) == IF a < b THEN a ELSE b
Surplus(a, b) == IF a > b THEN a - b ELSE 0

-----------------------------------------------------------------------------
(* The pairing of one logical identity, side by side *)

Alike(facts, semantic) == Cardinality({f \in facts : f.semantic = semantic})

SemanticsOf(facts) == {f.semantic : f \in facts}

Moved(before, after, semantic) ==
  Least(Alike(before \ after, semantic), Alike(after \ before, semantic))

(* The facts of a list, told apart by their data and a number *)
Units(facts) ==
  UNION {{s} \X (1 .. Alike(facts, s)) : s \in SemanticsOf(facts)}

(* What neither matches a fact of the other side nor moved *)
Unpaired(mine, theirs) == Units(mine \ theirs) \ Units(theirs \ mine)

UnpairedOf(mine, theirs, semantics) ==
  Cardinality({u \in Unpaired(mine, theirs) : u[1] \in semantics})

Altered(before, after) ==
  Least(Cardinality(Unpaired(before, after)), Cardinality(Unpaired(after, before)))

(* The unpaired are used up in the order of their fingerprints, which is   *)
(* some fixed order; the first ones changed, the others are one-sided.     *)
OneSided(mine, theirs, semantic) ==
  LET order   == SetToSeq(SemanticsOf(mine))
      earlier == {order[n] : n \in {k \in DOMAIN order :
                    \E m \in DOMAIN order : k < m /\ order[m] = semantic}}
  IN  Surplus(UnpairedOf(mine, theirs, {semantic}),
              Surplus(Altered(mine, theirs), UnpairedOf(mine, theirs, earlier)))

Change(dimension, change, fingerprint, before, after) ==
  [dimension |-> dimension, change |-> change, fingerprint |-> fingerprint,
   before |-> before, after |-> after]

Group(facts, logical) == {f \in facts : f.logical = logical}

ChangesOf(dimension, logical, before, after) ==
  LET moved(s)   == Moved(before, after, s)
      removed(s) == OneSided(before, after, s)
      added(s)   == OneSided(after, before, s)
      altered    == Altered(before, after)
      all        == SemanticsOf(before \cup after)
  IN  {Change(dimension, "RELOCATED", s, moved(s), moved(s)) : s \in {t \in all : moved(t) > 0}}
      \cup {Change(dimension, "CHANGED", logical, altered, altered) : n \in 1 .. Least(altered, 1)}
      \cup {Change(dimension, "REMOVED", s, removed(s), 0) :
              s \in {t \in SemanticsOf(before) : removed(t) > 0}}
      \cup {Change(dimension, "ADDED", s, 0, added(s)) :
              s \in {t \in SemanticsOf(after) : added(t) > 0}}

Compare(dimension, before, after) ==
  UNION {ChangesOf(dimension, logical, Group(before, logical), Group(after, logical)) :
           logical \in {f.logical : f \in (before \ after) \cup (after \ before)}}

build_architecture_delta(before, after) ==
  [changes  |-> UNION {Compare(d, before[d], after[d]) : d \in Dimensions},
   counts   |-> [d \in Dimensions |-> <<Cardinality(before[d]), Cardinality(after[d])>>]]

-----------------------------------------------------------------------------
(* The expectation *)

Guarded == Dimensions \ {"api_crossings"}
GrowthGuarded == Guarded \ {"dependency_edges"}

MissingSelected(delta, selected) == selected \ delta.changes

Growth(delta) == {d \in GrowthGuarded : delta.counts[d][2] > delta.counts[d][1]}

(* A cycle that lies strictly inside one that went is that one, smaller. *)
IsContraction(change, delta) ==
  \E gone \in delta.changes :
    LET new == change.fingerprint.about  old == gone.fingerprint.about
    IN  /\ gone.dimension = "cycles" /\ gone.change = "REMOVED"
        /\ old.level = new.level
        /\ new.members \subseteq old.members /\ new.members # old.members

NamedEdge(change, selected) ==
  \E s \in selected :
    /\ s.dimension = "dependency_edges" /\ s.change = "ADDED"
    /\ s.fingerprint = change.fingerprint

\* Fault: beyond the counts only edges are looked at.
AddedEdges(delta, selected) ==
  {c \in delta.changes :
     /\ c.dimension = "dependency_edges" /\ c.change = "ADDED"
     /\ ~NamedEdge(c, selected)}

GuardedAdditions(delta, selected) ==
  {c \in delta.changes :
     /\ c.dimension \in Guarded /\ c.change = "ADDED"
     /\ c.dimension = "cycles" => ~IsContraction(c, delta)
     /\ c.dimension = "dependency_edges" => ~NamedEdge(c, selected)}

ChangedUnknowns(delta) ==
  {c \in delta.changes : c.dimension = "unknowns" /\ c.change = "CHANGED"}

\* Fault: a fact that only moved does not count.
Unmoved(delta) == {c \in delta.changes : c.change # "RELOCATED"}

Undeclared(delta) == delta.changes

(* An empty declaration asserts that nothing changed; any other is checked *)
(* against what it names, and the guardrails see the rest.                 *)
Fulfilled(delta, accepted, candidate, selected) ==
  /\ RatchetsHold(accepted, candidate)
  /\ IF selected = {} THEN Undeclared(delta) = {}
     ELSE /\ MissingSelected(delta, selected) = {}
          /\ Growth(delta) = {}
          /\ GuardedAdditions(delta, selected) = {}
          /\ ChangedUnknowns(delta) = {}
=============================================================================
