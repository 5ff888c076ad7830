------------------------ MODULE ArchitectureDeltaProofs ------------------------
(***************************************************************************)
(* Proofs about what check judges: the rules, and the comparison of two    *)
(* observations.                                                           *)
(*                                                                         *)
(* A declared verdict that is PASS or FAIL is the verdict of every         *)
(* complete scan the scan can stand for: for every contract, every number  *)
(* of components, modules and names, and every set of rules.               *)
(*                                                                         *)
(* A comparison that shows nothing is one of equal facts, and one that     *)
(* shows no addition is one where nothing became more frequent: for every  *)
(* two finite sets of facts, in whatever order their data is listed.       *)
(***************************************************************************)
EXTENDS ArchitectureDelta, FiniteSetTheorems, FunctionTheorems, TLAPS

(* An import of a complete scan has the ends of the one it comes from, so  *)
(* the rules that look at the ends alone select both.                      *)
LEMMA SameEnds ==
  ASSUME NEW contract, NEW code, NEW i, NEW j, Resolves(code, i, j) \/ Binds(code, i, j), NEW rule
  PROVE  /\ Crosses(contract, i) = Crosses(contract, j)
         /\ ForbiddenScope(rule, i) <=> ForbiddenScope(rule, j)
         /\ RequiresScope(contract, rule, i) <=> RequiresScope(contract, rule, j)
         /\ SiblingScope(rule, i) <=> SiblingScope(rule, j)
         /\ ExternalScope(rule, i) <=> ExternalScope(rule, j)
         /\ UndeclaredScope(contract, rule, i) <=> UndeclaredScope(contract, rule, j)
<1>1. j.source = i.source /\ j.target = i.target /\ j.typing = i.typing
  BY DEF Resolves, Binds, SameForm
<1>2. Crosses(contract, i) = Crosses(contract, j)
  BY <1>1 DEF Crosses
<1>3. TypingCounts(rule, i) <=> TypingCounts(rule, j)
  BY <1>1 DEF TypingCounts
<1> QED
  BY <1>1, <1>2, <1>3 DEF ForbiddenScope, RequiresScope, SiblingScope, ExternalScope,
    UndeclaredScope

-----------------------------------------------------------------------------
(* Forbidden dependency *)

(* Forbidden dependency: an import that is decided stays decided so. *)
LEMMA ForbiddenKept ==
  ASSUME NEW contract, NEW code, NEW rule, NEW i, NEW j, Resolves(code, i, j),
         ForbiddenVerdict(rule, i) # "unknown"
  PROVE  ForbiddenVerdict(rule, j) = ForbiddenVerdict(rule, i)
<1>1. CASE rule.symbol \in {None, i.symbol}
  BY <1>1 DEF ForbiddenVerdict, Resolves, SameForm
<1>2. CASE rule.symbol \notin {None, i.symbol}
  BY <1>2 DEF ForbiddenVerdict, Resolves, SameForm
<1> QED BY <1>1, <1>2

(* What is rejected stays rejected. *)
LEMMA RejectedKept ==
  ASSUME NEW contract, NEW code, NEW i, NEW j, Resolves(code, i, j), Rejected(contract, i)
  PROVE  Rejected(contract, j)
<1>1. PICK rule \in contract.rules :
        /\ rule.kind = "forbidden_dependency"
        /\ ForbiddenScope(rule, i) /\ ForbiddenVerdict(rule, i) = "fail"
  BY DEF Rejected
<1>2. ForbiddenVerdict(rule, j) = "fail"
  BY <1>1, ForbiddenKept
<1>3. ForbiddenScope(rule, j)
  BY <1>1, SameEnds
<1> QED BY <1>1, <1>2, <1>3 DEF Rejected

-----------------------------------------------------------------------------
(* Interface boundary *)

(* Interface boundary: a pass stays one when names become known. *)
LEMMA InterfacePassKept ==
  ASSUME NEW contract, NEW code, NEW found, NEW rule, NEW i, NEW j, Resolves(code, i, j),
         found.exports = code.exports,
         InterfaceVerdict(contract, code, rule, i) = "pass"
  PROVE  InterfaceVerdict(contract, found, rule, j) = "pass"
<1> DEFINE public == contract.public[component_for(contract, i.target)]
<1>1. j.source = i.source /\ j.target = i.target /\ j.known
  BY DEF Resolves, SameForm
<1>2. CASE Granted(rule, i)
  <2>1. j.symbol = i.symbol
    BY <1>2 DEF Granted, Resolves
  <2>2. Granted(rule, j)
    BY <1>1, <1>2, <2>1 DEF Granted
  <2> QED BY <2>2 DEF InterfaceVerdict
<1>3. CASE ~Granted(rule, i) /\ i.known
  <2>1. Reaches(public, code.exports, i)
    BY <1>3 DEF InterfaceVerdict
  <2>2. j.symbol = i.symbol /\ i.via \subseteq j.via
    BY <1>3 DEF Resolves
  <2>3. Reaches(public, found.exports, j)
    BY <1>1, <2>1, <2>2 DEF Reaches
  <2> QED BY <1>1, <2>3 DEF InterfaceVerdict
<1>4. CASE ~Granted(rule, i) /\ ~i.known
  <2>1. i.target \in public.modules
    BY <1>4 DEF InterfaceVerdict
  <2>2. /\ j.symbol \in code.exports[i.target] \ (Private \cup {Star, None})
        /\ <<i.target, j.symbol>> \in j.via
    BY <1>4 DEF Resolves, TakesName, Surface
  <2>3. Offers(public, found.exports, i.target, j.symbol)
    BY <2>1, <2>2 DEF Offers
  <2>4. Reaches(public, found.exports, j)
    <3> DEFINE route == <<i.target, j.symbol>>
    <3>1. route \in j.via /\ Offers(public, found.exports, route[1], route[2])
      BY <2>2, <2>3
    <3> HIDE DEF route
    <3> QED BY <2>2, <3>1 DEF Reaches
  <2> QED BY <1>1, <2>4 DEF InterfaceVerdict
<1> QED BY <1>2, <1>3, <1>4

(* Interface boundary: so does a failure. *)
LEMMA InterfaceFailKept ==
  ASSUME NEW contract, NEW code, NEW found, NEW rule, NEW i \in code.imports, NEW j,
         IsScan(code), Resolves(code, i, j), found.exports = code.exports,
         InterfaceVerdict(contract, code, rule, i) = "fail"
  PROVE  InterfaceVerdict(contract, found, rule, j) = "fail"
<1> DEFINE public == contract.public[component_for(contract, i.target)]
<1>1. j.source = i.source /\ j.target = i.target /\ j.known /\ ~j.candidate
  BY DEF Resolves, SameForm
<1>2. ~Granted(rule, i)
  BY DEF InterfaceVerdict
<1>3. CASE i.known
  <2>1. ~Reaches(public, code.exports, i) /\ ~OpenRoute(i)
    BY <1>2, <1>3 DEF InterfaceVerdict
  <2>2. j.symbol = i.symbol /\ (~i.candidate => j.via = i.via)
    BY <1>3 DEF Resolves
  <2>3. ~Granted(rule, j)
    BY <1>1, <1>2, <1>3, <2>2 DEF Granted
  <2>4. ~Reaches(public, found.exports, j)
    <3>1. CASE ~i.candidate
      BY <1>1, <2>1, <2>2, <3>1 DEF Reaches
    <3>2. CASE i.candidate
      <4>1. i.symbol = None \/ i.symbol \in Private
        BY <2>1, <3>2 DEF OpenRoute, IsScan
      <4> QED BY <1>1, <2>1, <2>2, <4>1 DEF Reaches
    <3> QED BY <3>1, <3>2
  <2> QED BY <1>1, <2>3, <2>4 DEF InterfaceVerdict, OpenRoute
<1>4. CASE ~i.known
  <2>1. /\ i.target \notin public.modules
        /\ i.target \notin Exporting(code)
        /\ \A n \in Names : <<i.target, n>> \notin public.names
    BY <1>2, <1>4 DEF InterfaceVerdict
  <2>2. /\ j.symbol \in code.exports[i.target] \ (Private \cup {Star, None})
        /\ j.via = {<<i.target, j.symbol>>}
    BY <1>4, <2>1 DEF Resolves, TakesName, Surface
  <2>3. j.symbol \in Names
    BY <1>4, <2>2 DEF IsScan
  <2>4. ~Offers(public, found.exports, i.target, j.symbol)
    BY <2>1, <2>3 DEF Offers
  <2>5. ~Reaches(public, found.exports, j)
    <3> SUFFICES ASSUME NEW route \in j.via
                 PROVE  ~Offers(public, found.exports, route[1], route[2])
      BY <2>2 DEF Reaches
    <3>1. route = <<i.target, j.symbol>>
      BY <2>2
    <3> QED BY <2>4, <3>1
  <2>6. ~Granted(rule, j)
    BY <2>2 DEF Granted
  <2> QED BY <1>1, <2>5, <2>6 DEF InterfaceVerdict, OpenRoute
<1> QED BY <1>3, <1>4

-----------------------------------------------------------------------------
(* Complete requires *)

(* Complete requires: what covers an import covers it for ever. *)
LEMMA RequiresKept ==
  ASSUME NEW contract, NEW code, NEW i, NEW j, Resolves(code, i, j),
         RequiresVerdict(contract, i) # "unknown"
  PROVE  RequiresVerdict(contract, j) = RequiresVerdict(contract, i)
<1>1. j.source = i.source /\ j.target = i.target /\ j.known
  BY DEF Resolves, SameForm
<1>2. CASE Named(i)
  <2>1. j.symbol = i.symbol /\ Named(j)
    BY <1>1, <1>2 DEF Named, Resolves, SameForm
  <2>2. requires_covers(contract, i) <=> requires_covers(contract, j)
    BY <1>1, <1>2, <2>1 DEF requires_covers
  <2> QED BY <1>2, <2>1, <2>2 DEF RequiresVerdict
<1>3. CASE ~Named(i) /\ requires_covers(contract, i)
  <2>1. requires_covers(contract, j)
    BY <1>1, <1>3 DEF requires_covers
  <2> QED BY <1>3, <2>1 DEF RequiresVerdict
<1>4. CASE ~Named(i) /\ ~requires_covers(contract, i)
  <2>1. ~SymbolPort(contract, i)
    BY <1>4 DEF RequiresVerdict
  <2>2. ~requires_covers(contract, j)
    BY <1>1, <1>4, <2>1 DEF requires_covers, SymbolPort
  <2>3. ~SymbolPort(contract, j)
    BY <1>1, <2>1 DEF SymbolPort
  <2> QED BY <1>4, <2>2, <2>3 DEF RequiresVerdict
<1> QED BY <1>2, <1>3, <1>4
-----------------------------------------------------------------------------
(* Cycles: more edges only make a cycle larger. *)

(* More edges keep what belongs to a cycle in a cycle. *)
LEMMA CycleKept ==
  ASSUME NEW nodes, NEW edges, NEW more, edges \subseteq more,
         NEW members \in CyclesOf(nodes, edges)
  PROVE  \E larger \in CyclesOf(nodes, more) : members \subseteq larger
<1>1. PICK a \in nodes : members = Component(nodes, edges, a)
  BY DEF CyclesOf
<1>2. \A x, y : Linked(nodes, edges, x, y) => Linked(nodes, more, x, y)
  BY DEF Linked
<1>3. members \subseteq Component(nodes, more, a)
  BY <1>1, <1>2 DEF Component
<1>4. Component(nodes, more, a) \in CyclesOf(nodes, more)
  BY <1>1, <1>3 DEF CyclesOf
<1> QED BY <1>3, <1>4

(* Each import keeps its edge, and without dynamic loads no edge is new. *)
LEMMA EdgesKept ==
  ASSUME NEW contract, NEW code, NEW found, NEW rule, Resolution(code, found)
  PROVE  /\ CycleEdges(contract, code, rule) \subseteq CycleEdges(contract, found, rule)
         /\ code.dynamic = {} =>
              CycleEdges(contract, found, rule) \subseteq CycleEdges(contract, code, rule)
<1>1. \A i \in code.imports : \E j \in found.imports : j.source = i.source /\ j.target = i.target
  BY DEF Resolution, Resolves, SameForm
<1>2. code.dynamic = {} =>
        \A j \in found.imports : \E i \in code.imports : j.source = i.source /\ j.target = i.target
  BY DEF Resolution, Resolves, Binds, SameForm
<1>3. \A i, j : j.source = i.source /\ j.target = i.target => Crosses(contract, i) = Crosses(contract, j)
  BY DEF Crosses
<1>4. /\ ModuleEdges(code) \subseteq ModuleEdges(found)
      /\ code.dynamic = {} => ModuleEdges(found) \subseteq ModuleEdges(code)
  BY <1>1, <1>2 DEF ModuleEdges
<1>5. ComponentEdges(contract, code) \subseteq ComponentEdges(contract, found)
  <2> SUFFICES ASSUME NEW i \in code.imports, Crosses(contract, i)
               PROVE  <<component_for(contract, i.source), component_for(contract, i.target)>>
                        \in ComponentEdges(contract, found)
    BY DEF ComponentEdges
  <2>1. PICK j \in found.imports : j.source = i.source /\ j.target = i.target
    BY <1>1
  <2>2. Crosses(contract, j)
    BY <1>3, <2>1
  <2> QED BY <2>1, <2>2 DEF ComponentEdges
<1>6. code.dynamic = {} => ComponentEdges(contract, found) \subseteq ComponentEdges(contract, code)
  <2> SUFFICES ASSUME code.dynamic = {}, NEW j \in found.imports, Crosses(contract, j)
               PROVE  <<component_for(contract, j.source), component_for(contract, j.target)>>
                        \in ComponentEdges(contract, code)
    BY DEF ComponentEdges
  <2>1. PICK i \in code.imports : j.source = i.source /\ j.target = i.target
    BY <1>2
  <2>2. Crosses(contract, i)
    BY <1>3, <2>1
  <2> QED BY <2>1, <2>2 DEF ComponentEdges
<1> QED BY <1>4, <1>5, <1>6 DEF CycleEdges

(* A cycle rule that fails still fails when more is known. *)
LEMMA FailingCycleKept ==
  ASSUME NEW contract, NEW code, NEW found, NEW rule, Resolution(code, found),
         FailingCycles(contract, code, rule) # {}
  PROVE  FailingCycles(contract, found, rule) # {}
<1> DEFINE nodes == CycleNodes(contract, rule)
<1>1. rule.kind = "no_component_cycles"
  BY DEF FailingCycles
<1>2. PICK members \in CyclesOf(nodes, CycleEdges(contract, code, rule)) :
        \E node \in members : InCycleScope(contract, rule, node)
  BY <1>1 DEF FailingCycles
<1>3. PICK larger \in CyclesOf(nodes, CycleEdges(contract, found, rule)) : members \subseteq larger
  BY <1>2, CycleKept, EdgesKept
<1>4. \E node \in larger : InCycleScope(contract, rule, node)
  BY <1>2, <1>3
<1> QED BY <1>1, <1>3, <1>4 DEF FailingCycles

-----------------------------------------------------------------------------
(* One rule *)

(* Each kind of rule has its verdict on an import. *)
LEMMA VerdictKinds ==
  ASSUME NEW contract, NEW code, NEW rule, NEW i
  PROVE  /\ rule.kind = "forbidden_dependency" =>
              VerdictOn(contract, code, rule, i) = ForbiddenVerdict(rule, i)
         /\ rule.kind = "interface_boundary" =>
              VerdictOn(contract, code, rule, i) = InterfaceVerdict(contract, code, rule, i)
         /\ rule.kind = "complete_requires" =>
              VerdictOn(contract, code, rule, i) = RequiresVerdict(contract, i)
         /\ rule.kind \notin {"forbidden_dependency", "interface_boundary", "complete_requires"} =>
              VerdictOn(contract, code, rule, i) = "fail"
BY DEF VerdictOn

(* There is no fourth verdict. *)
LEMMA ThreeVerdicts ==
  ASSUME NEW contract, NEW code, NEW rule, NEW i
  PROVE  VerdictOn(contract, code, rule, i) \in {"pass", "fail", "unknown"}
<1>1. /\ ForbiddenVerdict(rule, i) \in {"pass", "fail", "unknown"}
      /\ InterfaceVerdict(contract, code, rule, i) \in {"pass", "fail", "unknown"}
      /\ RequiresVerdict(contract, i) \in {"pass", "fail", "unknown"}
  BY DEF ForbiddenVerdict, InterfaceVerdict, RequiresVerdict
<1> QED BY <1>1, VerdictKinds

(* A rejected import is rejected in every complete scan, by the same rule  *)
(* or, where AD-18 takes it from the interface, by a forbidden one.        *)
LEMMA RejectionKept ==
  ASSUME NEW contract, NEW code, NEW found, IsScan(code), Resolution(code, found),
         NEW rule \in contract.rules, With(contract, code, rule, "fail") # {}
  PROVE  \E other \in contract.rules : With(contract, found, other, "fail") # {}
<1>1. PICK i \in code.imports :
        Judged(contract, rule, i) /\ VerdictOn(contract, code, rule, i) = "fail"
  BY DEF With, Positions
<1>2. PICK j \in found.imports : Resolves(code, i, j)
  BY DEF Resolution
<1>3. CASE rule.kind = "forbidden_dependency"
  <2>1. ForbiddenScope(rule, i) /\ ForbiddenVerdict(rule, i) = "fail"
    BY <1>1, <1>3, VerdictKinds DEF Judged
  <2>2. ForbiddenScope(rule, j)
    BY <1>2, <2>1, SameEnds
  <2>3. ForbiddenVerdict(rule, j) = "fail"
    BY <1>2, <2>1, ForbiddenKept
  <2> QED BY <1>3, <2>2, <2>3, VerdictKinds DEF With, Positions, Judged
<1>4. CASE rule.kind = "interface_boundary" /\ ~Rejected(contract, j)
  <2>1. InterfaceScope(contract, rule, i) /\ InterfaceVerdict(contract, code, rule, i) = "fail"
    BY <1>1, <1>4, VerdictKinds DEF Judged
  <2>2. InterfaceScope(contract, rule, j)
    BY <1>2, <1>4, <2>1, SameEnds DEF InterfaceScope, Resolves, SameForm, TypingCounts
  <2>3. InterfaceVerdict(contract, found, rule, j) = "fail"
    BY <1>2, <2>1, InterfaceFailKept DEF Resolution
  <2> QED BY <1>4, <2>2, <2>3, VerdictKinds DEF With, Positions, Judged
<1>5. CASE Rejected(contract, j)
  <2>1. PICK other \in contract.rules :
          /\ other.kind = "forbidden_dependency"
          /\ ForbiddenScope(other, j) /\ ForbiddenVerdict(other, j) = "fail"
    BY <1>5 DEF Rejected
  <2> QED BY <2>1, VerdictKinds DEF With, Positions, Judged
<1>6. CASE rule.kind = "complete_requires"
  <2>1. RequiresScope(contract, rule, i) /\ RequiresVerdict(contract, i) = "fail"
    BY <1>1, <1>6, VerdictKinds DEF Judged
  <2>2. RequiresScope(contract, rule, j) /\ RequiresVerdict(contract, j) = "fail"
    BY <1>2, <2>1, SameEnds, RequiresKept
  <2> QED BY <1>6, <2>2, VerdictKinds DEF With, Positions, Judged
<1>7. CASE rule.kind \notin {"forbidden_dependency", "interface_boundary", "complete_requires"}
  <2>1. Judged(contract, rule, j)
    BY <1>1, <1>2, <1>7, SameEnds DEF Judged
  <2> QED BY <1>7, <2>1, VerdictKinds DEF With, Positions
<1> QED BY <1>3, <1>4, <1>5, <1>6, <1>7

(* What the rules decide of a star import whose form passes holds for each *)
(* name it binds, unless a rule overlooks it.                              *)
LEMMA BoundForbidden ==
  ASSUME NEW contract, NEW code, NEW rule, NEW i, NEW j, Binds(code, i, j),
         rule.kind = "forbidden_dependency", ForbiddenScope(rule, i),
         ~Overlooked(contract, code, rule, i), ForbiddenVerdict(rule, i) = "pass"
  PROVE  ForbiddenVerdict(rule, j) = "pass"
<1>1. rule.symbol # None /\ j.known
  BY DEF ForbiddenVerdict, Binds, SameForm
<1>2. rule.symbol \notin Surface(code, i.target) /\ j.symbol \in Surface(code, i.target)
  BY DEF Overlooked, Binds, TakesName
<1> QED BY <1>1, <1>2 DEF ForbiddenVerdict

LEMMA BoundInterface ==
  ASSUME NEW contract, NEW code, NEW found, NEW rule, NEW i, NEW j, Binds(code, i, j),
         found.exports = code.exports,
         rule.kind = "interface_boundary", InterfaceScope(contract, rule, i),
         ~Overlooked(contract, code, rule, i)
  PROVE  InterfaceVerdict(contract, found, rule, j) = "pass"
<1> DEFINE public == contract.public[component_for(contract, i.target)]
           route == <<i.target, j.symbol>>
<1>1. j.target = i.target /\ j.known
  BY DEF Binds, SameForm
<1>2. i.target \in public.modules
  BY DEF Overlooked, Binds
<1>3. /\ j.symbol \in code.exports[i.target] \ (Private \cup {Star, None})
      /\ route \in j.via
  BY DEF Binds, TakesName, Surface
<1>4. Offers(public, found.exports, route[1], route[2])
  BY <1>2, <1>3 DEF Offers
<1>5. Reaches(public, found.exports, j)
  <2> HIDE DEF route
  <2> QED BY <1>3, <1>4 DEF Reaches
<1> QED BY <1>1, <1>5 DEF InterfaceVerdict

LEMMA BoundRequires ==
  ASSUME NEW contract, NEW code, NEW i, NEW j, Binds(code, i, j),
         RequiresVerdict(contract, i) = "pass"
  PROVE  RequiresVerdict(contract, j) = "pass"
<1>1. j.source = i.source /\ j.target = i.target
  BY DEF Binds, SameForm
<1>2. ~Named(i)
  BY DEF Binds, Named
<1>3. requires_covers(contract, i)
  BY DEF RequiresVerdict
<1>4. requires_covers(contract, j)
  BY <1>1, <1>2, <1>3 DEF requires_covers
<1> QED BY <1>4 DEF RequiresVerdict

(* When nothing is rejected, undecided or overlooked, an import of a       *)
(* complete scan passes each rule that judges it.                          *)
LEMMA AcceptanceKept ==
  ASSUME NEW contract, NEW code, NEW found, Resolution(code, found), code.dynamic = {},
         ~Overlooks(contract, code),
         \A rule \in contract.rules :
           With(contract, code, rule, "fail") = {} /\ With(contract, code, rule, "unknown") = {},
         NEW rule \in contract.rules, NEW j \in Positions(contract, found, rule)
  PROVE  VerdictOn(contract, found, rule, j) = "pass"
<1>1. j \in found.imports /\ Judged(contract, rule, j)
  BY DEF Positions
<1>2. PICK i \in code.imports : Resolves(code, i, j) \/ Binds(code, i, j)
  BY <1>1 DEF Resolution
<1>3. ASSUME NEW other \in contract.rules, Judged(contract, other, i)
      PROVE  VerdictOn(contract, code, other, i) = "pass"
  BY <1>3, ThreeVerdicts DEF With, Positions
<1>4. ~Overlooked(contract, code, rule, i)
  BY DEF Overlooks
<1>5. CASE rule.kind = "forbidden_dependency"
  <2>1. ForbiddenScope(rule, i)
    BY <1>1, <1>2, <1>5, SameEnds DEF Judged
  <2>2. ForbiddenVerdict(rule, i) = "pass"
    BY <1>3, <1>5, <2>1, VerdictKinds DEF Judged
  <2>3. ForbiddenVerdict(rule, j) = "pass"
    BY <1>2, <1>4, <1>5, <2>1, <2>2, ForbiddenKept, BoundForbidden
  <2> QED BY <1>5, <2>3, VerdictKinds
<1>6. CASE rule.kind = "interface_boundary"
  <2>1. ~Rejected(contract, i)
    <3> SUFFICES ASSUME Rejected(contract, i) PROVE FALSE
      OBVIOUS
    <3>1. PICK other \in contract.rules :
            /\ other.kind = "forbidden_dependency"
            /\ ForbiddenScope(other, i) /\ ForbiddenVerdict(other, i) = "fail"
      BY DEF Rejected
    <3>2. Judged(contract, other, i)
      BY <3>1 DEF Judged
    <3> QED BY <1>3, <3>1, <3>2, VerdictKinds
  <2>2. InterfaceScope(contract, rule, j)
    BY <1>1, <1>6 DEF Judged
  <2>3. j.target = i.target /\ j.typing = i.typing
    BY <1>2 DEF Resolves, Binds, SameForm
  <2>4. InterfaceScope(contract, rule, i)
    BY <1>2, <2>1, <2>2, <2>3, SameEnds DEF InterfaceScope, TypingCounts
  <2>5. InterfaceVerdict(contract, code, rule, i) = "pass"
    BY <1>3, <1>6, <2>4, VerdictKinds DEF Judged
  <2>6. InterfaceVerdict(contract, found, rule, j) = "pass"
    BY <1>2, <1>4, <1>6, <2>4, <2>5, InterfacePassKept, BoundInterface DEF Resolution
  <2> QED BY <1>6, <2>6, VerdictKinds
<1>7. CASE rule.kind = "complete_requires"
  <2>1. RequiresScope(contract, rule, i)
    BY <1>1, <1>2, <1>7, SameEnds DEF Judged
  <2>2. RequiresVerdict(contract, i) = "pass"
    BY <1>3, <1>7, <2>1, VerdictKinds DEF Judged
  <2>3. RequiresVerdict(contract, j) = "pass"
    BY <1>2, <2>2, RequiresKept, BoundRequires
  <2> QED BY <1>7, <2>3, VerdictKinds
<1>8. CASE rule.kind \notin {"forbidden_dependency", "interface_boundary", "complete_requires"}
  <2>1. Judged(contract, rule, i)
    BY <1>1, <1>2, <1>8, SameEnds DEF Judged
  <2>2. VerdictOn(contract, code, rule, i) = "fail"
    BY <1>8, VerdictKinds
  <2> QED BY <1>3, <2>1, <2>2
<1> QED BY <1>5, <1>6, <1>7, <1>8

-----------------------------------------------------------------------------
(* A rule that passes passes, when all do, and one that fails has a rule   *)
(* that fails, in every complete scan of the code.                         *)

(* A rule that fails on an incomplete scan, as the functions of            *)
(* check/evaluation judge it, fails on every complete scan the incomplete  *)
(* one can stand for.                                                      *)
THEOREM FailureHolds ==
  ASSUME NEW contract, NEW code, NEW found, IsScan(code), Resolution(code, found),
         Declared(contract, code) = "fail"
  PROVE  Declared(contract, found) = "fail"
<1>1. PICK rule \in contract.rules : RuleStatus(contract, code, rule) = "fail"
  BY DEF Declared
<1>2. \/ With(contract, code, rule, "fail") # {}
      \/ FailingCycles(contract, code, rule) # {}
  BY <1>1 DEF RuleStatus
<1>3. \E other \in contract.rules :
        \/ With(contract, found, other, "fail") # {}
        \/ FailingCycles(contract, found, other) # {}
  BY <1>2, RejectionKept, FailingCycleKept
<1>4. \E other \in contract.rules : RuleStatus(contract, found, other) = "fail"
  BY <1>3 DEF RuleStatus
<1> QED BY <1>4 DEF Declared

(* A PASS on an incomplete scan is a PASS on every complete scan it can    *)
(* stand for, of the names behind a star import too, unless the functions  *)
(* of check/evaluation decide such an import without them.                 *)
THEOREM PassHolds ==
  ASSUME NEW contract, NEW code, NEW found, Resolution(code, found),
         ~Overlooks(contract, code), Declared(contract, code) = "pass"
  PROVE  Declared(contract, found) = "pass"
<1>1. /\ code.dynamic = {}
      /\ \A rule \in contract.rules : RuleStatus(contract, code, rule) \notin {"fail", "unknown"}
  BY DEF Declared
<1>2. \A rule \in contract.rules :
        /\ With(contract, code, rule, "fail") = {} /\ With(contract, code, rule, "unknown") = {}
        /\ FailingCycles(contract, code, rule) = {}
  BY <1>1 DEF RuleStatus
<1>3. ASSUME NEW rule \in contract.rules
      PROVE  RuleStatus(contract, found, rule) = "pass"
  <2>1. /\ With(contract, found, rule, "fail") = {}
        /\ With(contract, found, rule, "unknown") = {}
    BY <1>1, <1>2, AcceptanceKept DEF With
  <2>2. CycleEdges(contract, found, rule) = CycleEdges(contract, code, rule)
    <3>1. CycleEdges(contract, code, rule) \subseteq CycleEdges(contract, found, rule)
      BY EdgesKept
    <3>2. CycleEdges(contract, found, rule) \subseteq CycleEdges(contract, code, rule)
      BY <1>1, EdgesKept
    <3> QED BY <3>1, <3>2
  <2>3. FailingCycles(contract, found, rule) = {}
    BY <1>2, <2>2 DEF FailingCycles
  <2>4. DynamicLimits(contract, found, rule) = {}
    BY DEF DynamicLimits, Resolution
  <2> QED BY <2>1, <2>3, <2>4 DEF RuleStatus
<1> QED BY <1>3 DEF Declared, Resolution

(* The exception is no more than it has to be: where a forbidden rule of   *)
(* _forbidden_dependency_verdicts passes a star import that can bind its   *)
(* symbol, there is a complete scan that fails.                            *)
THEOREM OverlookedMayFail ==
  ASSUME NEW contract, NEW code, NEW found, Resolution(code, found),
         NEW rule \in contract.rules, NEW i \in code.imports,
         rule.kind = "forbidden_dependency", Overlooked(contract, code, rule, i)
  PROVE  \E other : Resolution(code, other) /\ Declared(contract, other) = "fail"
<1>1. /\ i.known /\ i.symbol = Star /\ ForbiddenScope(rule, i)
      /\ rule.symbol \in Surface(code, i.target)
  BY DEF Overlooked
<1>2. PICK j : j = [source |-> i.source, target |-> i.target, symbol |-> rule.symbol, known |-> TRUE,
                    typing |-> i.typing, reexport |-> i.reexport, candidate |-> FALSE,
                    via |-> {<<i.target, rule.symbol>>}]
  OBVIOUS
<1>3. PICK other : other = [imports |-> found.imports \cup {j}, dynamic |-> {}, exports |-> code.exports]
  OBVIOUS
<1>4. Binds(code, i, j)
  BY <1>1, <1>2 DEF Binds, SameForm, TakesName
<1>5. Resolution(code, other)
  BY <1>3, <1>4 DEF Resolution
<1>6. ForbiddenScope(rule, j)
  BY <1>1, <1>4, SameEnds
<1>7. ForbiddenVerdict(rule, j) = "fail"
  BY <1>2 DEF ForbiddenVerdict
<1>8. j \in With(contract, other, rule, "fail")
  BY <1>3, <1>6, <1>7, VerdictKinds DEF With, Positions, Judged
<1>9. RuleStatus(contract, other, rule) = "fail"
  BY <1>8 DEF RuleStatus
<1> QED BY <1>5, <1>9 DEF Declared

-----------------------------------------------------------------------------
(* Numbers and finite sets *)

(* A nonempty set of numbers has a least one, and a bounded one a largest. *)
LEMMA LeastOf ==
  ASSUME NEW T, T \subseteq Nat, T # {}
  PROVE  \E n \in T : \A m \in T : ~(m < n)
<1>1. \E n \in T : \A m \in T : <<m, n>> \notin OpToRel(<, Nat)
  BY WFMin, NatLessThanWellFounded
<1>2. \A m, n \in Nat : <<m, n>> \in OpToRel(<, Nat) <=> m < n
  BY DEF OpToRel
<1> QED BY <1>1, <1>2

(* A nonempty bounded set of numbers has a largest one. *)
LEMMA LargestOf ==
  ASSUME NEW bound \in Nat, NEW T, T \subseteq 0 .. bound, T # {}
  PROVE  \E n \in T : \A m \in T : m <= n
<1> DEFINE rest == {bound - n : n \in T}
<1>1. rest \subseteq Nat /\ rest # {}
  <2>1. \A n \in T : bound - n \in Nat
    OBVIOUS
  <2> QED BY <2>1
<1>2. PICK r \in rest : \A m \in rest : ~(m < r)
  BY <1>1, LeastOf
<1>3. PICK n \in T : r = bound - n
  BY <1>2
<1>4. ASSUME NEW m \in T PROVE m <= n
  <2>1. bound - m \in rest
    BY <1>4
  <2>2. ~(bound - m < bound - n)
    BY <2>1, <1>2, <1>3
  <2> QED BY <2>2
<1> QED BY <1>4

(* A bijection is one to one and reaches all. *)
LEMMA BothWays ==
  ASSUME NEW S, NEW T, NEW b \in Bijection(S, T)
  PROVE  /\ b \in [S -> T]
         /\ \A x, y \in S : b[x] = b[y] => x = y
         /\ \A t \in T : \E x \in S : b[x] = t
  BY DEF Bijection, Injection, Surjection, IsInjective

(* A set whose elements a finite set names is finite. *)
LEMMA FiniteImage ==
  ASSUME NEW S, IsFiniteSet(S), NEW T, NEW g \in [S -> T], \A t \in T : \E x \in S : g[x] = t
  PROVE  IsFiniteSet(T)
<1>1. g \in Surjection(S, T)
  BY DEF Surjection
<1> QED BY <1>1, FS_Surjection

-----------------------------------------------------------------------------
(* Counting the unpaired *)

(* Finitely many facts have finitely many data. *)
LEMMA SemanticsFinite ==
  ASSUME NEW X, IsFiniteSet(X)
  PROVE  IsFiniteSet(SemanticsOf(X))
<1> DEFINE g == [f \in X |-> f.semantic]
<1>1. g \in [X -> SemanticsOf(X)] /\ \A s \in SemanticsOf(X) : \E f \in X : g[f] = s
  BY DEF SemanticsOf
<1> HIDE DEF g
<1> QED BY <1>1, FiniteImage

(* How often some data comes is a number, and zero if it does not. *)
LEMMA AlikeCounted ==
  ASSUME NEW X, IsFiniteSet(X), NEW s
  PROVE  /\ IsFiniteSet({f \in X : f.semantic = s})
         /\ Alike(X, s) \in Nat
         /\ ExistsBijection(1 .. Alike(X, s), {f \in X : f.semantic = s})
         /\ Alike(X, s) = 0 <=> ~\E f \in X : f.semantic = s
<1>1. IsFiniteSet({f \in X : f.semantic = s})
  BY FS_Subset
<1> QED BY <1>1, FS_CardinalityType, FS_EmptySet DEF Alike

(* There are as many numbered units as facts. *)
LEMMA UnitsCounted ==
  ASSUME NEW X, IsFiniteSet(X)
  PROVE  IsFiniteSet(Units(X)) /\ Cardinality(Units(X)) = Cardinality(X)
<1> DEFINE Of(s) == {f \in X : f.semantic = s}
           Numbering(s) == Bijection(Of(s), 1 .. Alike(X, s))
           number == [s \in SemanticsOf(X) |-> CHOOSE b : b \in Numbering(s)]
           g == [f \in X |-> <<f.semantic, number[f.semantic][f]>>]
<1>1. \A s \in SemanticsOf(X) : number[s] \in Numbering(s)
  <2> SUFFICES ASSUME NEW s \in SemanticsOf(X) PROVE \E b : b \in Numbering(s)
    OBVIOUS
  <2>1. PICK h : h \in Bijection(1 .. Alike(X, s), Of(s))
    BY AlikeCounted DEF ExistsBijection
  <2>2. Inverse(h, 1 .. Alike(X, s), Of(s)) \in Numbering(s)
    BY <2>1, Fun_BijInverse
  <2> QED BY <2>2
<1> HIDE DEF number
<1>0. \A s \in SemanticsOf(X) :
        /\ number[s] \in [Of(s) -> 1 .. Alike(X, s)]
        /\ \A f, h \in Of(s) : number[s][f] = number[s][h] => f = h
        /\ \A n \in 1 .. Alike(X, s) : \E f \in Of(s) : number[s][f] = n
  <2> SUFFICES ASSUME NEW s \in SemanticsOf(X)
               PROVE  /\ number[s] \in [Of(s) -> 1 .. Alike(X, s)]
                      /\ \A f, h \in Of(s) : number[s][f] = number[s][h] => f = h
                      /\ \A n \in 1 .. Alike(X, s) : \E f \in Of(s) : number[s][f] = n
    OBVIOUS
  <2>1. PICK b \in Bijection(Of(s), 1 .. Alike(X, s)) : b = number[s]
    BY <1>1
  <2>2. /\ b \in [Of(s) -> 1 .. Alike(X, s)]
        /\ \A f, h \in Of(s) : b[f] = b[h] => f = h
        /\ \A n \in 1 .. Alike(X, s) : \E f \in Of(s) : b[f] = n
    <3> DEFINE Mine == Of(s)  Numbers == 1 .. Alike(X, s)
    <3>1. b \in Bijection(Mine, Numbers)
      OBVIOUS
    <3> HIDE DEF Mine, Numbers
    <3>2. /\ b \in [Mine -> Numbers]
          /\ \A f, h \in Mine : b[f] = b[h] => f = h
          /\ \A n \in Numbers : \E f \in Mine : b[f] = n
      BY <3>1, BothWays
    <3> QED BY <3>2 DEF Mine, Numbers
  <2> HIDE DEF Of
  <2> QED BY <2>1, <2>2
<1>2. \A f \in X : f.semantic \in SemanticsOf(X) /\ f \in Of(f.semantic)
  BY DEF SemanticsOf
<1>3. g \in [X -> Units(X)]
  <2> SUFFICES ASSUME NEW f \in X PROVE g[f] \in Units(X)
    OBVIOUS
  <2>1. number[f.semantic][f] \in 1 .. Alike(X, f.semantic)
    <3> HIDE DEF Of
    <3> QED BY <1>0, <1>2
  <2> QED BY <1>2, <2>1 DEF Units
<1>4. ASSUME NEW f \in X, NEW h \in X, g[f] = g[h] PROVE f = h
  <2>1. f.semantic = h.semantic /\ number[f.semantic][f] = number[f.semantic][h]
    BY <1>4
  <2>2. f \in Of(f.semantic) /\ h \in Of(f.semantic)
    BY <2>1
  <2> HIDE DEF Of
  <2> QED BY <1>0, <1>2, <2>1, <2>2
<1>5. ASSUME NEW u \in Units(X) PROVE \E f \in X : g[f] = u
  <2>1. PICK s \in SemanticsOf(X) : u \in {s} \X (1 .. Alike(X, s))
    BY DEF Units
  <2>2. PICK n \in 1 .. Alike(X, s) : u = <<s, n>>
    BY <2>1
  <2>3. PICK f \in Of(s) : number[s][f] = n
    <3> HIDE DEF Of
    <3> QED BY <1>0
  <2> QED BY <2>2, <2>3
<1>6. g \in Bijection(X, Units(X))
  <2> HIDE DEF g
  <2> QED BY <1>3, <1>4, <1>5, Fun_IsBij
<1> QED BY <1>6, FS_Bijection DEF ExistsBijection

(* The unpaired can be counted, all of them and those of some data. *)
LEMMA UnpairedCounted ==
  ASSUME NEW mine, NEW theirs, IsFiniteSet(mine), IsFiniteSet(theirs)
  PROVE  /\ IsFiniteSet(Unpaired(mine, theirs))
         /\ Cardinality(Unpaired(mine, theirs)) \in Nat
         /\ \A T : IsFiniteSet({u \in Unpaired(mine, theirs) : u[1] \in T})
         /\ \A T : UnpairedOf(mine, theirs, T) \in Nat
         /\ Altered(mine, theirs) \in Nat
         /\ Altered(mine, theirs) <= Cardinality(Unpaired(theirs, mine))
<1>1. IsFiniteSet(mine \ theirs) /\ IsFiniteSet(theirs \ mine)
  BY FS_Difference
<1>2. IsFiniteSet(Unpaired(mine, theirs)) /\ IsFiniteSet(Unpaired(theirs, mine))
  BY <1>1, UnitsCounted, FS_Difference DEF Unpaired
<1>3. \A T : {u \in Unpaired(mine, theirs) : u[1] \in T} \in SUBSET Unpaired(mine, theirs)
  OBVIOUS
<1>4. \A T : IsFiniteSet({u \in Unpaired(mine, theirs) : u[1] \in T})
  BY <1>2, <1>3, FS_Subset
<1>5. \A T : UnpairedOf(mine, theirs, T) \in Nat
  BY <1>4, FS_CardinalityType DEF UnpairedOf
<1>6. Cardinality(Unpaired(mine, theirs)) \in Nat /\ Cardinality(Unpaired(theirs, mine)) \in Nat
  BY <1>2, FS_CardinalityType
<1>7. Altered(mine, theirs) \in Nat /\ Altered(mine, theirs) <= Cardinality(Unpaired(theirs, mine))
  BY <1>6 DEF Altered, Least
<1> QED BY <1>2, <1>4, <1>5, <1>6, <1>7

(* The sides differ in size by their unpaired facts. *)
LEMMA UnpairedBalance ==
  ASSUME NEW before, NEW after, IsFiniteSet(before), IsFiniteSet(after)
  PROVE  Cardinality(after) - Cardinality(before)
           = Cardinality(Unpaired(after, before)) - Cardinality(Unpaired(before, after))
<1> DEFINE gone == before \ after
           came == after \ before
<1>1. IsFiniteSet(gone) /\ IsFiniteSet(came)
  BY FS_Difference
<1>2. /\ Cardinality(gone) = Cardinality(before) - Cardinality(before \cap after)
      /\ Cardinality(came) = Cardinality(after) - Cardinality(before \cap after)
  <2>1. before \cap after = after \cap before
    OBVIOUS
  <2> QED BY <2>1, FS_Difference
<1>3. /\ IsFiniteSet(Units(gone)) /\ Cardinality(Units(gone)) = Cardinality(gone)
      /\ IsFiniteSet(Units(came)) /\ Cardinality(Units(came)) = Cardinality(came)
  BY <1>1, UnitsCounted
<1>4. /\ Cardinality(Unpaired(before, after))
           = Cardinality(gone) - Cardinality(Units(gone) \cap Units(came))
      /\ Cardinality(Unpaired(after, before))
           = Cardinality(came) - Cardinality(Units(gone) \cap Units(came))
  <2>1. Units(gone) \cap Units(came) = Units(came) \cap Units(gone)
    OBVIOUS
  <2>2. Cardinality(Units(gone) \ Units(came))
          = Cardinality(Units(gone)) - Cardinality(Units(gone) \cap Units(came))
    BY <1>3, FS_Difference
  <2>3. Cardinality(Units(came) \ Units(gone))
          = Cardinality(Units(came)) - Cardinality(Units(came) \cap Units(gone))
    BY <1>3, FS_Difference
  <2> QED BY <1>3, <2>1, <2>2, <2>3 DEF Unpaired
<1>5. /\ Cardinality(before) \in Nat /\ Cardinality(after) \in Nat
      /\ Cardinality(before \cap after) \in Nat
      /\ Cardinality(Units(gone) \cap Units(came)) \in Nat
  BY <1>3, FS_CardinalityType, FS_Intersection
<1> QED BY <1>2, <1>4, <1>5

(* A list of a finite set holds each element. *)
LEMMA ListOf ==
  ASSUME NEW S, IsFiniteSet(S)
  PROVE  /\ Cardinality(S) \in Nat
         /\ SetToSeq(S) \in [1 .. Cardinality(S) -> S]
         /\ \A s \in S : \E n \in 1 .. Cardinality(S) : SetToSeq(S)[n] = s
         /\ \A m, n \in 1 .. Cardinality(S) : SetToSeq(S)[m] = SetToSeq(S)[n] => m = n
<1> DEFINE D == 1 .. Cardinality(S)
<1>1. Cardinality(S) \in Nat /\ ExistsBijection(D, S)
  BY FS_CardinalityType
<1>2. \E f \in [D -> S] : IsInjective(f)
  BY <1>1 DEF ExistsBijection, Bijection, Injection
<1>3. SetToSeq(S) \in [D -> S] /\ IsInjective(SetToSeq(S))
  BY <1>2 DEF SetToSeq
<1>4. SetToSeq(S) \in Injection(D, S)
  BY <1>3 DEF Injection
<1>5. Cardinality(D) = Cardinality(S)
  BY <1>1, FS_Interval
<1>6. SetToSeq(S) \in Surjection(D, S)
  BY <1>4, <1>5, FS_Injection
<1> QED BY <1>1, <1>3, <1>6 DEF Surjection, IsInjective

(* If nothing of the last is left, what was given covers it too. *)
LEMMA Exhausted ==
  ASSUME NEW given \in Nat, NEW earlier \in Nat, NEW last \in Nat \ {0},
         Surplus(last, Surplus(given, earlier)) = 0
  PROVE  last + earlier <= given
  BY DEF Surplus

(* Where no data is left one-sided, the altered use up all unpaired.       *)
LEMMA AllUsedUp ==
  ASSUME NEW mine, NEW theirs, IsFiniteSet(mine), IsFiniteSet(theirs),
         \A s \in SemanticsOf(mine) : OneSided(mine, theirs, s) = 0
  PROVE  Cardinality(Unpaired(mine, theirs)) <= Altered(mine, theirs)
<1> DEFINE all == Unpaired(mine, theirs)
           S == SemanticsOf(mine)
           order == SetToSeq(S)
           D == 1 .. Cardinality(S)
           Fiber(T) == {u \in all : u[1] \in T}
           held == {n \in D : Fiber({order[n]}) # {}}
<1>0. IsFiniteSet(S)
  BY SemanticsFinite
<1>1. /\ Cardinality(S) \in Nat /\ order \in [D -> S]
      /\ \A s \in S : \E n \in D : order[n] = s
      /\ \A m, n \in D : order[m] = order[n] => m = n
  BY <1>0, ListOf
<1> HIDE DEF order
<1>2. /\ IsFiniteSet(all) /\ Cardinality(all) \in Nat /\ Altered(mine, theirs) \in Nat
      /\ \A T : IsFiniteSet(Fiber(T)) /\ Cardinality(Fiber(T)) \in Nat
  BY UnpairedCounted, FS_CardinalityType
<1>3. \A u \in all : u[1] \in S
  BY DEF Unpaired, Units, SemanticsOf
<1>4. CASE held = {}
  <2>1. all = {}
    BY <1>1, <1>3, <1>4
  <2> QED BY <1>2, <2>1, FS_EmptySet
<1>5. CASE held # {}
  <2>1. PICK k \in held : \A m \in held : m <= k
    <3>1. held \subseteq 0 .. Cardinality(S)
      BY <1>1
    <3> HIDE DEF held
    <3> QED BY <1>1, <1>5, <3>1, LargestOf
  <2>2. k \in D /\ order[k] \in S
    BY <1>1, <2>1
  <2> DEFINE earlier == {order[n] : n \in {i \in DOMAIN order :
                           \E m \in DOMAIN order : i < m /\ order[m] = order[k]}}
  <2>3. earlier = {order[n] : n \in {i \in D : i < k}}
    BY <1>1, <2>2
  <2>4. all = Fiber({order[k]}) \cup Fiber(earlier)
    <3> SUFFICES ASSUME NEW u \in all PROVE u[1] \in {order[k]} \cup earlier
      OBVIOUS
    <3>1. PICK n \in D : order[n] = u[1]
      BY <1>1, <1>3
    <3>2. n \in held
      BY <3>1
    <3>3. n <= k
      BY <2>1, <3>2
    <3> QED BY <2>2, <2>3, <3>1, <3>3
  <2>5. Fiber({order[k]}) \cap Fiber(earlier) = {}
    BY <1>1, <2>2, <2>3
  <2>6. Cardinality(all) = Cardinality(Fiber({order[k]})) + Cardinality(Fiber(earlier))
    <3> DEFINE last == Fiber({order[k]})  before == Fiber(earlier)
    <3>1. IsFiniteSet(last) /\ IsFiniteSet(before) /\ Cardinality(last) \in Nat
          /\ Cardinality(before) \in Nat
      BY <1>2
    <3>2. all = last \cup before /\ last \cap before = {}
      BY <2>4, <2>5
    <3> HIDE DEF last, before
    <3>3. Cardinality(last \cup before)
            = Cardinality(last) + Cardinality(before) - Cardinality(last \cap before)
      BY <3>1, FS_Union
    <3>4. Cardinality(last \cap before) = 0
      BY <3>2, FS_EmptySet
    <3>5. Cardinality(all) = Cardinality(last) + Cardinality(before)
      BY <3>1, <3>2, <3>3, <3>4
    <3> QED BY <3>5 DEF last, before
  <2>7. Cardinality(Fiber({order[k]})) # 0
    BY <1>2, <2>1, FS_EmptySet
  <2>8. Surplus(Cardinality(Fiber({order[k]})),
                Surplus(Altered(mine, theirs), Cardinality(Fiber(earlier)))) = 0
    <3>1. OneSided(mine, theirs, order[k]) = 0
      BY <2>2
    <3> QED BY <3>1 DEF OneSided, UnpairedOf, order
  <2> QED
    <3> DEFINE x == Cardinality(Fiber({order[k]}))  y == Cardinality(Fiber(earlier))
    <3>1. x \in Nat \ {0} /\ y \in Nat
      BY <1>2, <2>7
    <3>2. Surplus(x, Surplus(Altered(mine, theirs), y)) = 0 /\ Cardinality(all) = x + y
      BY <2>6, <2>8
    <3> HIDE DEF x, y
    <3> QED BY <1>2, <3>1, <3>2, Exhausted
<1> QED BY <1>4, <1>5

-----------------------------------------------------------------------------
(* The facts of one observation are finite, and a fact's data names what   *)
(* the fact is about.                                                      *)

(* Two things are finitely many. *)
LEMMA PairFinite ==
  ASSUME NEW a, NEW b
  PROVE  IsFiniteSet({a, b})
<1>1. IsFiniteSet({a})
  BY FS_Singleton
<1>2. IsFiniteSet({a} \cup {b})
  BY <1>1, FS_AddElement
<1>3. {a, b} = {a} \cup {b}
  OBVIOUS
<1> QED BY <1>2, <1>3

(* What finitely many finite sets cover is finite. *)
LEMMA FiniteCover ==
  ASSUME NEW S, IsFiniteSet(S), NEW g, \A x \in S : IsFiniteSet(g[x]),
         NEW T, \A t \in T : \E x \in S : t \in g[x]
  PROVE  IsFiniteSet(T)
<1> DEFINE U == {g[x] : x \in S}
           h == [x \in S |-> g[x]]
<1>1. h \in [S -> U] /\ \A u \in U : \E x \in S : h[x] = u
  OBVIOUS
<1>2. IsFiniteSet(U)
  <2> HIDE DEF h, U
  <2> QED BY <1>1, FiniteImage
<1>3. IsFiniteSet(UNION U)
  BY <1>2, FS_UNION
<1>4. T \in SUBSET UNION U
  OBVIOUS
<1> QED BY <1>3, <1>4, FS_Subset

WellFormed(facts) ==
  /\ IsFiniteSet(facts)
  /\ \A f \in facts : f.semantic.about = f.logical

(* The data of a fact holds its logical identity. *)
LEMMA FactsCarryTheirNames ==
  ASSUME NEW about, NEW data, NEW places
  PROVE  Fact(about, data, places).semantic.about = Fact(about, data, places).logical
  BY DEF Fact

Bounded(contract, code) ==
  /\ IsFiniteSet(Components) /\ IsFiniteSet(DOMAIN contract.owners)
  /\ IsFiniteSet(contract.rules)
  /\ IsFiniteSet(code.imports) /\ IsFiniteSet(code.dynamic)

(* A graph of finitely many nodes has finitely many cycles. *)
LEMMA CyclesFinite ==
  ASSUME NEW nodes, IsFiniteSet(nodes), NEW edges
  PROVE  IsFiniteSet(CyclesOf(nodes, edges))
<1> DEFINE g == [a \in nodes |-> Component(nodes, edges, a)]
           all == {Component(nodes, edges, a) : a \in nodes}
<1>1. g \in [nodes -> all] /\ \A c \in all : \E a \in nodes : g[a] = c
  OBVIOUS
<1>2. CyclesOf(nodes, edges) \in SUBSET all
  BY DEF CyclesOf
<1> HIDE DEF g, all
<1>3. IsFiniteSet(all)
  BY <1>1, FiniteImage
<1> QED BY <1>2, <1>3, FS_Subset

(* Each section of an observation of a bounded code is a finite set of     *)
(* facts whose data holds their identity: violations.                      *)
LEMMA ViolationsWellFormed ==
  ASSUME NEW contract, NEW code, Bounded(contract, code)
  PROVE  WellFormed(ImportViolations(contract, code) \cup CycleViolations(contract, code))
<1> DEFINE OfImport(rule, i) ==
             Fact([rule |-> rule.id, source |-> i.source, target |-> i.target],
                  [symbol |-> IF NamesSymbol(rule) THEN i.symbol ELSE None,
                   typing |-> rule.kind = "forbidden_dependency" /\ i.typing,
                   members |-> {}], {i.at})
           ImportsOf(rule) == {OfImport(rule, i) : i \in With(contract, code, rule, "fail")}
           OfCycle(rule, members) ==
             Fact([rule |-> rule.id, source |-> None, target |-> None],
                  [symbol |-> None, typing |-> FALSE, members |-> members],
                  PlacesOf(Closing(contract, code, rule, members)))
           CyclesBy(rule) == {OfCycle(rule, members) : members \in FailingCycles(contract, code, rule)}
<1>1. /\ ImportViolations(contract, code) = UNION {ImportsOf(rule) : rule \in contract.rules}
      /\ CycleViolations(contract, code) = UNION {CyclesBy(rule) : rule \in contract.rules}
  BY DEF ImportViolations, CycleViolations
<1>2. /\ \A rule, i : OfImport(rule, i).semantic.about = OfImport(rule, i).logical
      /\ \A rule, members : OfCycle(rule, members).semantic.about = OfCycle(rule, members).logical
  BY DEF Fact
<1> HIDE DEF OfImport, OfCycle
<1>3. ASSUME NEW rule \in contract.rules
      PROVE  IsFiniteSet(ImportsOf(rule))
  <2> DEFINE W == With(contract, code, rule, "fail")
             T == ImportsOf(rule)
             g == [i \in W |-> OfImport(rule, i)]
  <2>1. W \in SUBSET code.imports
    BY DEF With, Positions
  <2>2. g \in [W -> T] /\ \A t \in T : \E i \in W : g[i] = t
    OBVIOUS
  <2> HIDE DEF W, T, g
  <2>3. IsFiniteSet(W)
    BY <2>1, FS_Subset DEF Bounded
  <2>4. IsFiniteSet(T)
    BY <2>2, <2>3, FiniteImage
  <2> QED BY <2>4 DEF T
<1>4. ASSUME NEW rule \in contract.rules
      PROVE  IsFiniteSet(CyclesBy(rule))
  <2> DEFINE W == FailingCycles(contract, code, rule)
             T == CyclesBy(rule)
             g == [members \in W |-> OfCycle(rule, members)]
  <2>1. IsFiniteSet(CycleNodes(contract, rule))
    BY DEF Bounded, CycleNodes
  <2>2. IsFiniteSet(W)
    <3>1. IsFiniteSet(CyclesOf(CycleNodes(contract, rule), CycleEdges(contract, code, rule)))
      BY <2>1, CyclesFinite
    <3>2. W \in SUBSET CyclesOf(CycleNodes(contract, rule), CycleEdges(contract, code, rule))
      BY DEF FailingCycles
    <3> HIDE DEF W
    <3> QED BY <3>1, <3>2, FS_Subset
  <2>3. g \in [W -> T] /\ \A t \in T : \E i \in W : g[i] = t
    OBVIOUS
  <2> HIDE DEF W, T, g
  <2>4. IsFiniteSet(T)
    BY <2>2, <2>3, FiniteImage
  <2> QED BY <2>4 DEF T
<1> DEFINE all == ImportViolations(contract, code) \cup CycleViolations(contract, code)
<1>5. IsFiniteSet(all)
  <2> DEFINE g == [rule \in contract.rules |-> ImportsOf(rule) \cup CyclesBy(rule)]
  <2>1. \A rule \in contract.rules : IsFiniteSet(g[rule])
    <3> HIDE DEF ImportsOf, CyclesBy
    <3> QED BY <1>3, <1>4, FS_Union
  <2>2. \A f \in all : \E rule \in contract.rules : f \in g[rule]
    <3> HIDE DEF ImportsOf, CyclesBy
    <3> QED BY <1>1
  <2> HIDE DEF g, all
  <2> QED BY <2>1, <2>2, FiniteCover DEF Bounded
<1>6. \A f \in all : f.semantic.about = f.logical
  BY <1>1, <1>2
<1> QED BY <1>5, <1>6 DEF WellFormed

(* Finitely many imports have finitely many edges. *)
LEMMA EdgesFinite ==
  ASSUME NEW code, IsFiniteSet(code.imports), NEW level
  PROVE  IsFiniteSet(Edges(code, level))
<1> DEFINE W == {k \in code.imports : k.target \notin External}
           T == {Edge(level, i) : i \in W}
           g == [i \in W |-> Edge(level, i)]
<1>1. g \in [W -> T] /\ \A t \in T : \E i \in W : g[i] = t
  OBVIOUS
<1>2. W \in SUBSET code.imports
  OBVIOUS
<1>3. Edges(code, level) \in SUBSET T
  BY DEF Edges
<1> HIDE DEF W, T, g
<1>4. IsFiniteSet(W)
  BY <1>2, FS_Subset
<1>5. IsFiniteSet(T)
  BY <1>1, <1>4, FiniteImage
<1> QED BY <1>3, <1>5, FS_Subset

(* The same for the measured edges. *)
LEMMA DependencyEdgesWellFormed ==
  ASSUME NEW code, IsFiniteSet(code.imports)
  PROVE  WellFormed(DependencyEdges(code))
<1> DEFINE OfEdge(level, edge) ==
             Fact([level |-> level, source |-> edge[1], target |-> edge[2]],
                  [count |-> Cardinality(Bucket(code, level, edge)),
                   typing |-> Cardinality({i \in Bucket(code, level, edge) : i.typing}),
                   bidirectional |-> <<edge[2], edge[1]>> \in Edges(code, level)],
                  FirstPlaces(Bucket(code, level, edge)))
           At(level) == {OfEdge(level, edge) : edge \in Edges(code, level)}
<1>1. DependencyEdges(code) = At("module") \cup At("package")
  BY DEF DependencyEdges
<1>2. \A level, edge : OfEdge(level, edge).semantic.about = OfEdge(level, edge).logical
  BY DEF Fact
<1> HIDE DEF OfEdge
<1>3. ASSUME NEW level PROVE IsFiniteSet(At(level))
  <2> DEFINE W == Edges(code, level)  T == At(level)  g == [edge \in W |-> OfEdge(level, edge)]
  <2>1. g \in [W -> T] /\ \A t \in T : \E i \in W : g[i] = t
    OBVIOUS
  <2> HIDE DEF T, g
  <2>2. IsFiniteSet(T)
    BY <2>1, EdgesFinite, FiniteImage
  <2> QED BY <2>2 DEF T
<1>4. \A level : \A f \in At(level) : f.semantic.about = f.logical
  BY <1>2
<1> HIDE DEF At
<1> QED BY <1>1, <1>3, <1>4, FS_Union DEF WellFormed

(* The same for the measured cycles. *)
LEMMA CyclesWellFormed ==
  ASSUME NEW code, IsFiniteSet(code.imports)
  PROVE  WellFormed(Cycles(code))
<1> DEFINE OfCycle(level, members) ==
             Fact([level |-> level, members |-> members], [level |-> level],
                  FirstPlaces(UNION {Bucket(code, level, edge) :
                                    edge \in InternalEdges(code, level, members)}))
           At(level) == {OfCycle(level, members) : members \in MeasuredCycles(code, level)}
<1>1. Cycles(code) = At("module") \cup At("package")
  BY DEF Cycles
<1>2. \A level, members : OfCycle(level, members).semantic.about = OfCycle(level, members).logical
  BY DEF Fact
<1> HIDE DEF OfCycle
<1>3. ASSUME NEW level PROVE IsFiniteSet(MeasuredCycles(code, level))
  <2> DEFINE edges == Edges(code, level)
             nodes == UNION {{edge[1], edge[2]} : edge \in edges}
             g == [edge \in edges |-> {edge[1], edge[2]}]
  <2>1. \A edge \in edges : IsFiniteSet(g[edge])
    BY PairFinite
  <2>2. \A n \in nodes : \E edge \in edges : n \in g[edge]
    OBVIOUS
  <2>3. MeasuredCycles(code, level) = CyclesOf(nodes, edges)
    BY DEF MeasuredCycles
  <2>4. IsFiniteSet(edges)
    BY EdgesFinite
  <2> HIDE DEF edges, nodes, g
  <2>5. IsFiniteSet(nodes)
    BY <2>1, <2>2, <2>4, FiniteCover
  <2> QED BY <2>3, <2>5, CyclesFinite
<1>4. ASSUME NEW level PROVE IsFiniteSet(At(level))
  <2> DEFINE W == MeasuredCycles(code, level)  T == At(level)
             g == [members \in W |-> OfCycle(level, members)]
  <2>1. g \in [W -> T] /\ \A t \in T : \E i \in W : g[i] = t
    OBVIOUS
  <2> HIDE DEF T, g
  <2>2. IsFiniteSet(T)
    BY <1>3, <2>1, FiniteImage
  <2> QED BY <2>2 DEF T
<1>5. \A level : \A f \in At(level) : f.semantic.about = f.logical
  BY <1>2
<1> HIDE DEF At
<1> QED BY <1>1, <1>4, <1>5, FS_Union DEF WellFormed

(* The same for the imports of symbols across packages. *)
LEMMA CrossingsWellFormed ==
  ASSUME NEW code, IsFiniteSet(code.imports), NEW private
  PROVE  WellFormed(Crossings(code, private))
<1> DEFINE W == {k \in code.imports :
                   /\ k.symbol # None
                   /\ PackageOf[k.source] # PackageOf[k.target]
                   /\ private => k.symbol \in Private}
           Of(i) == Fact([source |-> i.source, target |-> i.target, symbol |-> i.symbol],
                         [i EXCEPT !.at = None], {i.at})
           T == {Of(i) : i \in W}
           g == [i \in W |-> Of(i)]
<1>1. Crossings(code, private) = T
  BY DEF Crossings
<1>2. \A i : Of(i).semantic.about = Of(i).logical
  BY DEF Fact
<1>3. W \in SUBSET code.imports
  OBVIOUS
<1> HIDE DEF W, Of
<1>4. g \in [W -> T] /\ (\A t \in T : \E i \in W : g[i] = t) /\ \A t \in T : t.semantic.about = t.logical
  BY <1>2
<1> HIDE DEF T, g
<1>5. IsFiniteSet(W)
  BY <1>3, FS_Subset
<1>6. IsFiniteSet(T)
  BY <1>4, <1>5, FiniteImage
<1> QED BY <1>1, <1>4, <1>6 DEF WellFormed

(* The same for what is undecided. *)
LEMMA UnknownsWellFormed ==
  ASSUME NEW contract, NEW code, Bounded(contract, code)
  PROVE  WellFormed(DynamicUnknowns(contract, code) \cup SymbolLimits(contract, code))
<1> DEFINE Load(d) == Undecided("dynamic_import_limit", {d.source}, None, d.typing, 1, 1, {d.at})
           Limit(rule, d) ==
             Undecided("dynamic_dependency_limit", {d.source}, rule.id, FALSE, 1, 1, {d.at})
           open(rule) == With(contract, code, rule, "unknown")
           Symbols(rule) ==
             Undecided(rule.kind, {i.source : i \in open(rule)}, rule.id, FALSE,
                       Cardinality(Positions(contract, code, rule)), Cardinality(open(rule)),
                       PlacesOf(open(rule)))
           Loaded == {Load(d) : d \in code.dynamic}
           LimitsOf(rule) == {Limit(rule, d) : d \in DynamicLimits(contract, code, rule)}
           Limits == UNION {LimitsOf(rule) : rule \in contract.rules}
           W == {r \in contract.rules : With(contract, code, r, "unknown") # {}}
           Left == {Symbols(rule) : rule \in W}
<1>1. /\ DynamicUnknowns(contract, code) = Loaded \cup Limits
      /\ SymbolLimits(contract, code) = Left
  BY DEF DynamicUnknowns, SymbolLimits
<1>2. /\ \A d : Load(d).semantic.about = Load(d).logical
      /\ \A rule, d : Limit(rule, d).semantic.about = Limit(rule, d).logical
      /\ \A rule : Symbols(rule).semantic.about = Symbols(rule).logical
  BY DEF Undecided, Fact
<1> HIDE DEF Load, Limit, Symbols
<1>3. IsFiniteSet(Loaded)
  <2> DEFINE g == [d \in code.dynamic |-> Load(d)]
  <2>1. g \in [code.dynamic -> Loaded] /\ \A t \in Loaded : \E d \in code.dynamic : g[d] = t
    OBVIOUS
  <2> HIDE DEF g, Loaded
  <2> QED BY <2>1, FiniteImage DEF Bounded
<1>4. ASSUME NEW rule \in contract.rules
      PROVE  IsFiniteSet(LimitsOf(rule))
  <2> DEFINE D == DynamicLimits(contract, code, rule)  T == LimitsOf(rule)
             g == [d \in D |-> Limit(rule, d)]
  <2>1. g \in [D -> T] /\ \A t \in T : \E d \in D : g[d] = t
    OBVIOUS
  <2>2. D \in SUBSET code.dynamic
    BY DEF DynamicLimits
  <2> HIDE DEF D, T, g
  <2>3. IsFiniteSet(D)
    BY <2>2, FS_Subset DEF Bounded
  <2>4. IsFiniteSet(T)
    BY <2>1, <2>3, FiniteImage
  <2> QED BY <2>4 DEF T
<1>5. IsFiniteSet(Limits)
  <2> DEFINE g == [rule \in contract.rules |-> LimitsOf(rule)]
  <2> HIDE DEF LimitsOf
  <2>1. \A rule \in contract.rules : IsFiniteSet(g[rule])
    BY <1>4
  <2>2. \A f \in Limits : \E rule \in contract.rules : f \in g[rule]
    OBVIOUS
  <2> HIDE DEF g, Limits
  <2> QED BY <2>1, <2>2, FiniteCover DEF Bounded
<1>6. IsFiniteSet(Left)
  <2> DEFINE g == [rule \in W |-> Symbols(rule)]
  <2>1. W \in SUBSET contract.rules
    OBVIOUS
  <2> HIDE DEF W
  <2>2. g \in [W -> Left] /\ \A t \in Left : \E rule \in W : g[rule] = t
    OBVIOUS
  <2> HIDE DEF g, Left
  <2>3. IsFiniteSet(W)
    BY <2>1, FS_Subset DEF Bounded
  <2> QED BY <2>2, <2>3, FiniteImage
<1>7. \A f \in Loaded \cup Limits \cup Left : f.semantic.about = f.logical
  BY <1>2
<1> HIDE DEF Loaded, Limits, Left
<1> QED BY <1>1, <1>3, <1>5, <1>6, <1>7, FS_Union DEF WellFormed

(* Facts equal in every dimension are equal. *)
LEMMA FactsByDimension ==
  ASSUME NEW contract, NEW code, NEW other, NEW changed,
         \A d \in Dimensions : Facts(contract, code)[d] = Facts(other, changed)[d]
  PROVE  Facts(contract, code) = Facts(other, changed)
<1> DEFINE x == Facts(contract, code)  y == Facts(other, changed)
           Rebuilt(facts) ==
             [violations |-> facts.violations, cycles |-> facts.cycles,
              private_crossings |-> facts.private_crossings,
              api_crossings |-> facts.api_crossings,
              unknowns |-> facts.unknowns, dependency_edges |-> facts.dependency_edges]
<1>1. x = Rebuilt(x) /\ y = Rebuilt(y)
  BY DEF Facts
<1>2. /\ x.violations = y.violations /\ x.cycles = y.cycles
      /\ x.private_crossings = y.private_crossings /\ x.api_crossings = y.api_crossings
      /\ x.unknowns = y.unknowns /\ x.dependency_edges = y.dependency_edges
  BY DEF Dimensions
<1> HIDE DEF x, y
<1>3. Rebuilt(x) = Rebuilt(y)
  BY <1>2
<1> QED BY <1>1, <1>3 DEF x, y

(* The facts of a bounded code are well formed in every dimension. *)
LEMMA FactsWellFormed ==
  ASSUME NEW contract, NEW code, Bounded(contract, code)
  PROVE  \A d \in Dimensions : WellFormed(Facts(contract, code)[d])
<1> SUFFICES ASSUME NEW d \in Dimensions PROVE WellFormed(Facts(contract, code)[d])
  OBVIOUS
<1>1. IsFiniteSet(code.imports)
  BY DEF Bounded
<1>2. CASE d = "violations"
  BY <1>2, ViolationsWellFormed DEF Facts
<1>3. CASE d = "cycles"
  BY <1>1, <1>3, CyclesWellFormed DEF Facts
<1>4. CASE d = "private_crossings"
  BY <1>1, <1>4, CrossingsWellFormed DEF Facts
<1>5. CASE d = "api_crossings"
  BY <1>1, <1>5, CrossingsWellFormed DEF Facts
<1>6. CASE d = "unknowns"
  BY <1>6, UnknownsWellFormed DEF Facts
<1>7. CASE d = "dependency_edges"
  BY <1>1, <1>7, DependencyEdgesWellFormed DEF Facts
<1> QED BY <1>2, <1>3, <1>4, <1>5, <1>6, <1>7 DEF Dimensions

-----------------------------------------------------------------------------
(* What a comparison without certain changes says of both sides            *)

(* What a comparison shows of moves and changes are numbers. *)
LEMMA NumbersOfChanges ==
  ASSUME NEW before, NEW after, IsFiniteSet(before), IsFiniteSet(after), NEW s
  PROVE  /\ Moved(before, after, s) \in Nat
         /\ Altered(before, after) \in Nat
         /\ Altered(before, after) = Altered(after, before)
         /\ OneSided(before, after, s) \in Nat
<1>1. IsFiniteSet(before \ after) /\ IsFiniteSet(after \ before)
  BY FS_Difference
<1>2. Alike(before \ after, s) \in Nat /\ Alike(after \ before, s) \in Nat
  BY <1>1, AlikeCounted
<1>3. /\ Cardinality(Unpaired(before, after)) \in Nat /\ Cardinality(Unpaired(after, before)) \in Nat
      /\ Altered(before, after) \in Nat
      /\ \A T : UnpairedOf(before, after, T) \in Nat
  BY UnpairedCounted
<1>4. \A m, n \in Nat : Surplus(m, n) \in Nat
  BY DEF Surplus
<1>5. Moved(before, after, s) \in Nat
  BY <1>2 DEF Moved, Least
<1>6. Altered(before, after) = Altered(after, before)
  BY <1>3 DEF Altered, Least
<1>7. OneSided(before, after, s) \in Nat
  BY <1>3, <1>4 DEF OneSided
<1> QED BY <1>3, <1>5, <1>6, <1>7

(* Every number above zero is shown. *)
LEMMA MoveShown ==
  ASSUME NEW dimension, NEW logical, NEW before, NEW after,
         IsFiniteSet(before), IsFiniteSet(after),
         NEW s \in SemanticsOf(before \cup after), Moved(before, after, s) # 0
  PROVE  ChangesOf(dimension, logical, before, after) # {}
<1> DEFINE moved == Moved(before, after, s)
<1>1. moved \in Nat
  BY NumbersOfChanges
<1>2. Change(dimension, "RELOCATED", s, moved, moved) \in ChangesOf(dimension, logical, before, after)
  BY <1>1 DEF ChangesOf
<1> QED BY <1>2

(* Facts that changed are shown. *)
LEMMA AlterationShown ==
  ASSUME NEW dimension, NEW logical, NEW before, NEW after,
         IsFiniteSet(before), IsFiniteSet(after), Altered(before, after) # 0
  PROVE  \E c \in ChangesOf(dimension, logical, before, after) : c.change = "CHANGED"
<1> DEFINE altered == Altered(before, after)
<1>1. altered \in Nat
  BY NumbersOfChanges
<1>2. 1 \in 1 .. Least(altered, 1)
  BY <1>1 DEF Least
<1>3. Change(dimension, "CHANGED", logical, altered, altered)
        \in ChangesOf(dimension, logical, before, after)
  BY <1>2 DEF ChangesOf
<1>4. Change(dimension, "CHANGED", logical, altered, altered).change = "CHANGED"
  BY DEF Change
<1> QED BY <1>3, <1>4

(* Facts that are gone are shown. *)
LEMMA RemovalShown ==
  ASSUME NEW dimension, NEW logical, NEW before, NEW after,
         IsFiniteSet(before), IsFiniteSet(after),
         NEW s \in SemanticsOf(before), OneSided(before, after, s) # 0
  PROVE  ChangesOf(dimension, logical, before, after) # {}
<1> DEFINE removed == OneSided(before, after, s)
<1>1. removed \in Nat
  BY NumbersOfChanges
<1>2. Change(dimension, "REMOVED", s, removed, 0) \in ChangesOf(dimension, logical, before, after)
  BY <1>1 DEF ChangesOf
<1> QED BY <1>2

(* Facts that came are shown, with their data. *)
LEMMA AdditionShown ==
  ASSUME NEW dimension, NEW logical, NEW before, NEW after,
         IsFiniteSet(before), IsFiniteSet(after),
         NEW s \in SemanticsOf(after), OneSided(after, before, s) # 0
  PROVE  \E c \in ChangesOf(dimension, logical, before, after) :
           c.dimension = dimension /\ c.change = "ADDED" /\ c.fingerprint = s
<1> DEFINE added == OneSided(after, before, s)
           c == Change(dimension, "ADDED", s, 0, added)
<1>1. added \in Nat
  BY NumbersOfChanges
<1>2. c \in ChangesOf(dimension, logical, before, after)
  BY <1>1 DEF ChangesOf
<1>3. c.dimension = dimension /\ c.change = "ADDED" /\ c.fingerprint = s
  BY DEF Change
<1> HIDE DEF c
<1> QED BY <1>2, <1>3

(* What is said to be added, removed or changed is. *)
LEMMA ShownChanges ==
  ASSUME NEW dimension, NEW before, NEW after, NEW c \in Compare(dimension, before, after)
  PROVE  /\ c.dimension = dimension
         /\ c.change = "REMOVED" => \E g \in before : c.fingerprint = g.semantic
<1>1. PICK logical : c \in ChangesOf(dimension, logical, Group(before, logical), Group(after, logical))
  BY DEF Compare
<1> DEFINE mine == Group(before, logical)
<1>2. mine \subseteq before
  BY DEF Group
<1>3. \A change, fingerprint, m, n :
        LET d == Change(dimension, change, fingerprint, m, n)
        IN  d.dimension = dimension /\ d.change = change /\ d.fingerprint = fingerprint
  BY DEF Change
<1>4. \E change, fingerprint, m, n :
        /\ c = Change(dimension, change, fingerprint, m, n)
        /\ change = "REMOVED" => fingerprint \in SemanticsOf(mine)
  BY <1>1 DEF ChangesOf
<1>5. c.dimension = dimension /\ (c.change = "REMOVED" => c.fingerprint \in SemanticsOf(mine))
  BY <1>3, <1>4
<1> QED BY <1>2, <1>5 DEF SemanticsOf

(* An identity no differing fact has has the same facts on both sides. *)
LEMMA GroupsDiffer ==
  ASSUME NEW before, NEW after, NEW logical,
         logical \notin {f.logical : f \in (before \ after) \cup (after \ before)}
  PROVE  Group(before, logical) = Group(after, logical)
  BY DEF Group

(* The facts of one identity are finitely many. *)
LEMMA GroupsFinite ==
  ASSUME NEW facts, IsFiniteSet(facts)
  PROVE  \A logical : IsFiniteSet(Group(facts, logical)) /\ Cardinality(Group(facts, logical)) \in Nat
<1>1. \A logical : Group(facts, logical) \in SUBSET facts
  BY DEF Group
<1> QED BY <1>1, FS_Subset, FS_CardinalityType

(* The changes of a group are shown by the comparison if the group is      *)
(* compared at all.                                                        *)
LEMMA GroupsShown ==
  ASSUME NEW dimension, NEW before, NEW after, NEW logical,
         Group(before, logical) # Group(after, logical)
  PROVE  ChangesOf(dimension, logical, Group(before, logical), Group(after, logical))
           \subseteq Compare(dimension, before, after)
  BY GroupsDiffer DEF Compare

(* A fact of one side only that nothing moved to stays unpaired. *)
LEMMA StaysUnpaired ==
  ASSUME NEW mine, NEW theirs, IsFiniteSet(mine), IsFiniteSet(theirs),
         NEW f \in mine \ theirs, Moved(mine, theirs, f.semantic) = 0
  PROVE  Unpaired(mine, theirs) # {}
<1> DEFINE s == f.semantic  gone == mine \ theirs  came == theirs \ mine
<1>1. IsFiniteSet(gone) /\ IsFiniteSet(came)
  BY FS_Difference
<1>2. Alike(gone, s) \in Nat \ {0} /\ Alike(came, s) \in Nat
  BY <1>1, AlikeCounted
<1>3. Alike(came, s) = 0
  BY <1>2 DEF Moved, Least
<1>4. <<s, 1>> \in Units(gone)
  BY <1>2 DEF Units, SemanticsOf
<1>5. <<s, 1>> \notin Units(came)
  <2> SUFFICES ASSUME <<s, 1>> \in Units(came) PROVE FALSE
    OBVIOUS
  <2>1. PICK t \in SemanticsOf(came) : <<s, 1>> \in {t} \X (1 .. Alike(came, t))
    BY DEF Units
  <2>2. t = s
    BY <2>1
  <2> QED BY <1>3, <2>1, <2>2
<1> QED BY <1>4, <1>5 DEF Unpaired

(* Two sides the comparison finds nothing to say of are one. *)
LEMMA EmptyComparison ==
  ASSUME NEW dimension, NEW before, NEW after, IsFiniteSet(before), IsFiniteSet(after),
         Compare(dimension, before, after) = {}
  PROVE  before = after
<1>1. ASSUME NEW f \in (before \ after) \cup (after \ before)
      PROVE  FALSE
  <2> DEFINE B == Group(before, f.logical)  A == Group(after, f.logical)
  <2>1. f \in (B \ A) \cup (A \ B)
    BY DEF Group
  <2>2. IsFiniteSet(A) /\ IsFiniteSet(B)
    BY GroupsFinite
  <2>3. ChangesOf(dimension, f.logical, B, A) = {}
    BY <2>1, GroupsShown
  <2> HIDE DEF A, B
  <2>4. /\ \A s \in SemanticsOf(B \cup A) : Moved(B, A, s) = 0
        /\ Altered(B, A) = 0
        /\ \A s \in SemanticsOf(B) : OneSided(B, A, s) = 0
        /\ \A s \in SemanticsOf(A) : OneSided(A, B, s) = 0
    BY <2>2, <2>3, MoveShown, AlterationShown, RemovalShown, AdditionShown
  <2>5. Altered(A, B) = 0 /\ \A s : Moved(A, B, s) = Moved(B, A, s)
    <3>1. Altered(A, B) = 0
      BY <2>2, <2>4, NumbersOfChanges
    <3>2. ASSUME NEW s PROVE Moved(A, B, s) = Moved(B, A, s)
      <4>1. Alike(A \ B, s) \in Nat /\ Alike(B \ A, s) \in Nat
        BY <2>2, FS_Difference, AlikeCounted
      <4> QED BY <4>1 DEF Moved, Least
    <3> QED BY <3>1, <3>2
  <2>6. f.semantic \in SemanticsOf(B \cup A)
    BY <2>1 DEF SemanticsOf
  <2>7. Cardinality(Unpaired(B, A)) <= 0 /\ Cardinality(Unpaired(A, B)) <= 0
    BY <2>2, <2>4, <2>5, AllUsedUp
  <2>8. Unpaired(B, A) = {} /\ Unpaired(A, B) = {}
    <3>1. /\ IsFiniteSet(Unpaired(B, A)) /\ Cardinality(Unpaired(B, A)) \in Nat
          /\ IsFiniteSet(Unpaired(A, B)) /\ Cardinality(Unpaired(A, B)) \in Nat
      BY <2>2, UnpairedCounted
    <3>2. Cardinality(Unpaired(B, A)) = 0 /\ Cardinality(Unpaired(A, B)) = 0
      BY <2>7, <3>1
    <3> QED BY <3>1, <3>2, FS_EmptySet
  <2>9. Moved(B, A, f.semantic) = 0 /\ Moved(A, B, f.semantic) = 0
    BY <2>4, <2>5, <2>6
  <2> QED BY <2>1, <2>2, <2>8, <2>9, StaysUnpaired
<1> QED BY <1>1

NothingOf(change, dimension, before, after) ==
  \A c \in Compare(dimension, before, after) : c.change # change

(* Where nothing is added, no logical identity has more facts. *)
LEMMA NothingAdded ==
  ASSUME NEW dimension, NEW before, NEW after, IsFiniteSet(before), IsFiniteSet(after),
         NothingOf("ADDED", dimension, before, after), NEW logical
  PROVE  /\ Cardinality(Group(after, logical)) <= Cardinality(Group(before, logical))
         /\ Group(before, logical) # Group(after, logical) =>
              Cardinality(Unpaired(Group(after, logical), Group(before, logical)))
                <= Altered(Group(before, logical), Group(after, logical))
<1> DEFINE B == Group(before, logical)  A == Group(after, logical)
<1>1. IsFiniteSet(A) /\ IsFiniteSet(B) /\ Cardinality(A) \in Nat /\ Cardinality(B) \in Nat
  BY GroupsFinite
<1>2. B # A => \A c \in ChangesOf(dimension, logical, B, A) : c.change # "ADDED"
  BY GroupsShown DEF NothingOf
<1> HIDE DEF A, B
<1>3. CASE B = A
  BY <1>1, <1>3 DEF A, B
<1>4. CASE B # A
  <2>1. ASSUME NEW s \in SemanticsOf(A) PROVE OneSided(A, B, s) = 0
    <3>1. ASSUME OneSided(A, B, s) # 0
          PROVE  \E c \in ChangesOf(dimension, logical, B, A) : c.change = "ADDED"
      BY <1>1, <3>1, AdditionShown
    <3> QED BY <1>2, <1>4, <3>1
  <2>2. Cardinality(Unpaired(A, B)) <= Altered(A, B) /\ Altered(A, B) = Altered(B, A)
    BY <1>1, <2>1, AllUsedUp, NumbersOfChanges
  <2>3. /\ Altered(A, B) \in Nat /\ Altered(A, B) <= Cardinality(Unpaired(B, A))
        /\ Cardinality(Unpaired(A, B)) \in Nat /\ Cardinality(Unpaired(B, A)) \in Nat
    BY <1>1, UnpairedCounted
  <2>4. Cardinality(A) - Cardinality(B) = Cardinality(Unpaired(A, B)) - Cardinality(Unpaired(B, A))
    BY <1>1, UnpairedBalance
  <2>5. Cardinality(A) <= Cardinality(B)
    BY <1>1, <2>2, <2>3, <2>4
  <2> QED BY <2>2, <2>5 DEF A, B
<1> QED BY <1>3, <1>4

(* Facts of two disjoint sets add up. *)
LEMMA AlikeSplit ==
  ASSUME NEW mine, NEW own, NEW shared, NEW s, IsFiniteSet(own), IsFiniteSet(shared),
         mine = own \cup shared, own \cap shared = {}
  PROVE  Alike(mine, s) = Alike(own, s) + Alike(shared, s)
<1> DEFINE Of(facts) == {f \in facts : f.semantic = s}
           x == Of(own)  y == Of(shared)  all == Of(mine)
<1>1. all = x \cup y /\ x \cap y = {}
  OBVIOUS
<1>2. IsFiniteSet(x) /\ IsFiniteSet(y)
  BY AlikeCounted
<1>3. all = {f \in mine : f.semantic = s} /\ x = {f \in own : f.semantic = s}
      /\ y = {f \in shared : f.semantic = s}
  OBVIOUS
<1> HIDE DEF x, y, all
<1>4. /\ Cardinality(x \cup y) = Cardinality(x) + Cardinality(y) - Cardinality(x \cap y)
      /\ Cardinality(x) \in Nat /\ Cardinality(y) \in Nat /\ Cardinality({}) = 0
  BY <1>2, FS_Union, FS_CardinalityType, FS_EmptySet
<1>5. Cardinality(x \cap y) = 0 /\ Cardinality(all) = Cardinality(x \cup y)
  BY <1>1, <1>4
<1> QED BY <1>3, <1>4, <1>5 DEF Alike

(* Where nothing stays unpaired, no data is more frequent. *)
LEMMA NothingUnpaired ==
  ASSUME NEW mine, NEW theirs, IsFiniteSet(mine), IsFiniteSet(theirs),
         Unpaired(mine, theirs) = {}, NEW s
  PROVE  Alike(mine, s) <= Alike(theirs, s)
<1> DEFINE gone == mine \ theirs  came == theirs \ mine  shared == mine \cap theirs
<1>1. Unpaired(mine, theirs) = Units(gone) \ Units(came)
  BY DEF Unpaired
<1>2. /\ IsFiniteSet(gone) /\ IsFiniteSet(came) /\ IsFiniteSet(shared)
      /\ mine = gone \cup shared /\ gone \cap shared = {}
      /\ theirs = came \cup shared /\ came \cap shared = {}
  BY FS_Difference, FS_Intersection
<1> HIDE DEF gone, came, shared
<1>4. /\ Alike(mine, s) = Alike(gone, s) + Alike(shared, s)
      /\ Alike(theirs, s) = Alike(came, s) + Alike(shared, s)
      /\ Alike(gone, s) \in Nat /\ Alike(came, s) \in Nat /\ Alike(shared, s) \in Nat
  <2>1. Alike(mine, s) = Alike(gone, s) + Alike(shared, s)
    BY <1>2, AlikeSplit
  <2>2. Alike(theirs, s) = Alike(came, s) + Alike(shared, s)
    BY <1>2, AlikeSplit
  <2> QED BY <1>2, <2>1, <2>2, AlikeCounted
<1>5. Alike(gone, s) <= Alike(came, s)
  <2> SUFFICES ASSUME Alike(gone, s) # 0 PROVE Alike(gone, s) <= Alike(came, s)
    BY <1>4
  <2>1. s \in SemanticsOf(gone)
    <3>1. \E f \in gone : f.semantic = s
      BY <1>2, AlikeCounted
    <3> QED BY <3>1 DEF SemanticsOf
  <2>2. <<s, Alike(gone, s)>> \in Units(gone)
    BY <1>4, <2>1 DEF Units
  <2>3. <<s, Alike(gone, s)>> \in Units(came)
    BY <1>1, <2>2
  <2>4. PICK t \in SemanticsOf(came) : <<s, Alike(gone, s)>> \in {t} \X (1 .. Alike(came, t))
    BY <2>3 DEF Units
  <2>5. t = s
    BY <2>4
  <2>6. Alike(gone, s) \in 1 .. Alike(came, s)
    BY <2>4, <2>5
  <2> QED BY <1>4, <2>6
<1> QED BY <1>4, <1>5

(* Where nothing is added or changed, no data is more frequent. *)
LEMMA NothingChanged ==
  ASSUME NEW dimension, NEW before, NEW after, WellFormed(before), WellFormed(after),
         NothingOf("ADDED", dimension, before, after),
         NothingOf("CHANGED", dimension, before, after), NEW f \in after
  PROVE  Alike(after, f.semantic) <= Alike(before, f.semantic)
<1> DEFINE s == f.semantic  logical == f.logical
           B == Group(before, logical)  A == Group(after, logical)
<1>1. /\ IsFiniteSet(before) /\ IsFiniteSet(after)
      /\ IsFiniteSet(A) /\ IsFiniteSet(B)
  BY GroupsFinite DEF WellFormed
<1>2. Alike(after, s) = Alike(A, s) /\ Alike(before, s) = Alike(B, s)
  <2>1. {g \in after : g.semantic = s} = {g \in A : g.semantic = s}
    BY DEF WellFormed, Group
  <2>2. {g \in before : g.semantic = s} = {g \in B : g.semantic = s}
    BY DEF WellFormed, Group
  <2> QED BY <2>1, <2>2 DEF Alike
<1>3. CASE B = A
  <2>1. Alike(A, s) \in Nat
    BY <1>1, AlikeCounted
  <2> QED BY <1>2, <1>3, <2>1
<1>4. CASE B # A
  <2>1. Cardinality(Unpaired(A, B)) <= Altered(B, A)
    BY <1>1, <1>4, NothingAdded
  <2>2. \A c \in ChangesOf(dimension, logical, B, A) : c.change # "CHANGED"
    BY <1>4, GroupsShown DEF NothingOf
  <2> HIDE DEF A, B, s, logical
  <2>3. Altered(B, A) = 0
    <3>1. ASSUME Altered(B, A) # 0
          PROVE  \E c \in ChangesOf(dimension, logical, B, A) : c.change = "CHANGED"
      BY <1>1, <3>1, AlterationShown
    <3> QED BY <2>2, <3>1
  <2>4. Unpaired(A, B) = {}
    <3>1. IsFiniteSet(Unpaired(A, B)) /\ Cardinality(Unpaired(A, B)) \in Nat
      BY <1>1, UnpairedCounted
    <3> QED BY <2>1, <2>3, <3>1, FS_EmptySet
  <2> QED BY <1>1, <1>2, <2>4, NothingUnpaired DEF s
<1> QED BY <1>3, <1>4

(* A fact with a new logical identity is shown as added. *)
LEMMA NewIsAdded ==
  ASSUME NEW dimension, NEW before, NEW after, IsFiniteSet(before), IsFiniteSet(after),
         NEW f \in after, \A g \in before : g.logical # f.logical
  PROVE  \E c \in Compare(dimension, before, after) :
           c.dimension = dimension /\ c.change = "ADDED" /\ c.fingerprint = f.semantic
<1> DEFINE s == f.semantic  B == Group(before, f.logical)  A == Group(after, f.logical)
<1>1. B = {} /\ f \in A
  BY DEF Group
<1>2. IsFiniteSet(A)
  BY GroupsFinite
<1>3. ChangesOf(dimension, f.logical, B, A) \subseteq Compare(dimension, before, after)
  BY <1>1, GroupsShown
<1> HIDE DEF A, B
<1>4. IsFiniteSet(B) /\ s \in SemanticsOf(A)
  BY <1>1, FS_EmptySet DEF SemanticsOf
<1>5. OneSided(A, B, s) # 0
  <2>1. A \ B = A /\ B \ A = {}
    BY <1>1
  <2>2. Units(B \ A) = {}
    BY <2>1 DEF Units, SemanticsOf
  <2>3. Unpaired(A, B) = Units(A) /\ Unpaired(B, A) = {}
    BY <2>1, <2>2 DEF Unpaired
  <2>4. Altered(A, B) = 0
    <3>1. Cardinality(Unpaired(B, A)) = 0
      BY <2>3, FS_EmptySet
    <3>2. Cardinality(Unpaired(A, B)) \in Nat
      BY <1>2, <1>4, UnpairedCounted
    <3> QED BY <3>1, <3>2 DEF Altered, Least
  <2>5. UnpairedOf(A, B, {s}) \in Nat \ {0}
    <3>1. Alike(A, s) \in Nat \ {0}
      BY <1>1, <1>2, AlikeCounted
    <3>2. <<s, 1>> \in Units(A)
      BY <1>4, <3>1 DEF Units
    <3>3. <<s, 1>> \in {u \in Unpaired(A, B) : u[1] \in {s}}
      BY <2>3, <3>2
    <3>4. /\ IsFiniteSet({u \in Unpaired(A, B) : u[1] \in {s}})
          /\ UnpairedOf(A, B, {s}) \in Nat
      BY <1>2, <1>4, UnpairedCounted
    <3> QED BY <3>3, <3>4, FS_EmptySet DEF UnpairedOf
  <2>6. \A T : UnpairedOf(A, B, T) \in Nat
    BY <1>2, <1>4, UnpairedCounted
  <2>7. \A n \in Nat : Surplus(0, n) = 0
    BY DEF Surplus
  <2>8. OneSided(A, B, s) = Surplus(UnpairedOf(A, B, {s}), 0)
    BY <2>4, <2>6, <2>7 DEF OneSided
  <2> QED BY <2>5, <2>8 DEF Surplus
<1>6. \E c \in ChangesOf(dimension, f.logical, B, A) :
        c.dimension = dimension /\ c.change = "ADDED" /\ c.fingerprint = s
  BY <1>2, <1>4, <1>5, AdditionShown
<1> QED BY <1>3, <1>6

-----------------------------------------------------------------------------
(* What a fulfilled expectation says of two observations *)

Observed(facts) == \A d \in Dimensions : WellFormed(facts[d])

(* A delta is what the comparisons of its dimensions show. *)
LEMMA DeltaHoldsComparisons ==
  ASSUME NEW before, NEW after, NEW delta, delta = build_architecture_delta(before, after)
  PROVE  /\ \A d \in Dimensions : Compare(d, before[d], after[d]) \subseteq delta.changes
         /\ \A c \in delta.changes : \E d \in Dimensions : c \in Compare(d, before[d], after[d])
  BY DEF build_architecture_delta

(* build_architecture_delta(): a delta without a change is one of equal    *)
(* facts, their places included; the greedy pairing cancels nothing.       *)
THEOREM EmptyDelta ==
  ASSUME NEW before, NEW after, Observed(before), Observed(after),
         build_architecture_delta(before, after).changes = {}
  PROVE  \A d \in Dimensions : before[d] = after[d]
<1> SUFFICES ASSUME NEW d \in Dimensions PROVE before[d] = after[d]
  OBVIOUS
<1>1. PICK B, A : B = before[d] /\ A = after[d]
  OBVIOUS
<1>2. IsFiniteSet(B) /\ IsFiniteSet(A)
  BY <1>1 DEF Observed, WellFormed
<1>3. Compare(d, B, A) = {}
  BY <1>1, DeltaHoldsComparisons
<1> QED BY <1>1, <1>2, <1>3, EmptyComparison

(* An empty declaration leaves the guardrails nothing to find either. *)
LEMMA FulfilledShowsNoAddition ==
  ASSUME NEW delta, NEW accepted, NEW candidate, NEW selected,
         Fulfilled(delta, accepted, candidate, selected)
  PROVE  GuardedAdditions(delta, selected) = {} /\ ChangedUnknowns(delta) = {}
  BY DEF Fulfilled, Undeclared, GuardedAdditions, ChangedUnknowns

(* What the guardrails of a fulfilled expectation leave to the delta. *)
LEMMA GuardedComparisons ==
  ASSUME NEW before, NEW after, NEW delta, delta = build_architecture_delta(before, after),
         NEW selected, GuardedAdditions(delta, selected) = {}, ChangedUnknowns(delta) = {}
  PROVE  /\ \A d \in {"violations", "private_crossings", "unknowns"} :
              NothingOf("ADDED", d, before[d], after[d])
         /\ NothingOf("CHANGED", "unknowns", before["unknowns"], after["unknowns"])
<1>1. ASSUME NEW d \in Dimensions, NEW c \in Compare(d, before[d], after[d])
      PROVE  c \in delta.changes /\ c.dimension = d
  <2>1. c \in delta.changes
    BY DeltaHoldsComparisons
  <2>2. PICK B, A : B = before[d] /\ A = after[d]
    OBVIOUS
  <2>3. c \in Compare(d, B, A)
    BY <2>2
  <2>4. c.dimension = d
    BY <2>3, ShownChanges
  <2> QED BY <2>1, <2>4
<1>2. ASSUME NEW d \in {"violations", "private_crossings", "unknowns"},
             NEW c \in Compare(d, before[d], after[d])
      PROVE  c.change # "ADDED"
  <2>1. d \in Dimensions /\ d \in Guarded /\ d # "cycles" /\ d # "dependency_edges"
    BY DEF Dimensions, Guarded
  <2> QED BY <1>1, <2>1 DEF GuardedAdditions
<1>3. ASSUME NEW c \in Compare("unknowns", before["unknowns"], after["unknowns"])
      PROVE  c.change # "CHANGED"
  BY <1>1 DEF ChangedUnknowns, Dimensions
<1> QED BY <1>2, <1>3 DEF NothingOf

(* No dimension that may not grow has more facts of one logical identity,  *)
(* and no unknown is left more undecided.                                  *)
LEMMA FulfilledAddsNothing ==
  ASSUME NEW before, NEW after, Observed(before), Observed(after),
         NEW accepted, NEW candidate, NEW selected,
         Fulfilled(build_architecture_delta(before, after), accepted, candidate, selected)
  PROVE  /\ \A d \in {"violations", "private_crossings", "unknowns"} : \A logical :
              Cardinality(Group(after[d], logical)) <= Cardinality(Group(before[d], logical))
         /\ \A f \in after["unknowns"] :
              Alike(after["unknowns"], f.semantic) <= Alike(before["unknowns"], f.semantic)
<1>1. /\ \A d \in {"violations", "private_crossings", "unknowns"} :
           NothingOf("ADDED", d, before[d], after[d])
      /\ NothingOf("CHANGED", "unknowns", before["unknowns"], after["unknowns"])
  BY FulfilledShowsNoAddition, GuardedComparisons
<1>2. ASSUME NEW d \in {"violations", "private_crossings", "unknowns"}, NEW logical
      PROVE  Cardinality(Group(after[d], logical)) <= Cardinality(Group(before[d], logical))
  <2>1. PICK B, A : B = before[d] /\ A = after[d]
    OBVIOUS
  <2>2. IsFiniteSet(B) /\ IsFiniteSet(A) /\ NothingOf("ADDED", d, B, A)
    BY <1>1, <2>1 DEF Observed, WellFormed, Dimensions
  <2> QED BY <2>1, <2>2, NothingAdded
<1>3. ASSUME NEW f \in after["unknowns"]
      PROVE  Alike(after["unknowns"], f.semantic) <= Alike(before["unknowns"], f.semantic)
  <2>1. PICK B, A : B = before["unknowns"] /\ A = after["unknowns"]
    OBVIOUS
  <2>2. /\ WellFormed(B) /\ WellFormed(A)
        /\ NothingOf("ADDED", "unknowns", B, A) /\ NothingOf("CHANGED", "unknowns", B, A)
    BY <1>1, <2>1 DEF Observed, Dimensions
  <2> QED BY <2>1, <2>2, NothingChanged
<1> QED BY <1>2, <1>3

(* Each cycle lies inside one the accepted code has. *)
LEMMA FulfilledShrinksCycles ==
  ASSUME NEW before, NEW after, Observed(before), Observed(after),
         NEW accepted, NEW candidate, NEW selected,
         Fulfilled(build_architecture_delta(before, after), accepted, candidate, selected),
         NEW f \in after["cycles"]
  PROVE  \E g \in before["cycles"] :
           /\ g.logical.level = f.logical.level
           /\ f.logical.members \subseteq g.logical.members
<1> SUFFICES ASSUME \A g \in before["cycles"] : g.logical # f.logical
             PROVE  \E g \in before["cycles"] :
                      /\ g.logical.level = f.logical.level
                      /\ f.logical.members \subseteq g.logical.members
  OBVIOUS
<1>1. PICK B, A, delta : /\ B = before["cycles"] /\ A = after["cycles"]
                         /\ delta = build_architecture_delta(before, after)
  OBVIOUS
<1>2. WellFormed(B) /\ WellFormed(A)
  BY <1>1 DEF Observed, Dimensions
<1>3. PICK c \in Compare("cycles", B, A) :
        c.dimension = "cycles" /\ c.change = "ADDED" /\ c.fingerprint = f.semantic
  BY <1>1, <1>2, NewIsAdded DEF WellFormed
<1>4. c \in delta.changes
  BY <1>1, <1>3, DeltaHoldsComparisons DEF Dimensions
<1>5. IsContraction(c, delta)
  <2>1. GuardedAdditions(delta, selected) = {}
    BY <1>1, FulfilledShowsNoAddition
  <2> QED BY <1>3, <1>4, <2>1 DEF GuardedAdditions, Guarded, Dimensions
<1>6. PICK gone \in delta.changes :
        /\ gone.dimension = "cycles" /\ gone.change = "REMOVED"
        /\ gone.fingerprint.about.level = c.fingerprint.about.level
        /\ c.fingerprint.about.members \subseteq gone.fingerprint.about.members
  BY <1>5 DEF IsContraction
<1>7. PICK d \in Dimensions : gone \in Compare(d, before[d], after[d])
  BY <1>1, DeltaHoldsComparisons
<1>8. PICK D, E : D = before[d] /\ E = after[d]
  OBVIOUS
<1>9. gone \in Compare(d, D, E)
  BY <1>7, <1>8
<1>10. gone.dimension = d /\ \E g \in D : gone.fingerprint = g.semantic
  BY <1>6, <1>9, ShownChanges
<1>11. PICK g \in B : gone.fingerprint = g.semantic
  BY <1>1, <1>6, <1>8, <1>10
<1>12. g.semantic.about = g.logical /\ f.semantic.about = f.logical
  BY <1>1, <1>2 DEF WellFormed
<1> QED BY <1>1, <1>3, <1>6, <1>11, <1>12

(* Each edge is one of the accepted code, or one the expectation names. *)
LEMMA FulfilledNamesEdges ==
  ASSUME NEW before, NEW after, Observed(before), Observed(after),
         NEW accepted, NEW candidate, NEW selected,
         Fulfilled(build_architecture_delta(before, after), accepted, candidate, selected),
         NEW f \in after["dependency_edges"]
  PROVE  \/ \E g \in before["dependency_edges"] : g.logical = f.logical
         \/ \E s \in selected : s.change = "ADDED" /\ s.fingerprint = f.semantic
<1> SUFFICES ASSUME \A g \in before["dependency_edges"] : g.logical # f.logical
             PROVE  \E s \in selected : s.change = "ADDED" /\ s.fingerprint = f.semantic
  OBVIOUS
<1>1. PICK B, A, delta : /\ B = before["dependency_edges"] /\ A = after["dependency_edges"]
                         /\ delta = build_architecture_delta(before, after)
  OBVIOUS
<1>2. WellFormed(B) /\ WellFormed(A)
  BY <1>1 DEF Observed, Dimensions
<1>3. PICK c \in Compare("dependency_edges", B, A) :
        c.dimension = "dependency_edges" /\ c.change = "ADDED" /\ c.fingerprint = f.semantic
  BY <1>1, <1>2, NewIsAdded DEF WellFormed
<1>4. c \in delta.changes
  BY <1>1, <1>3, DeltaHoldsComparisons DEF Dimensions
<1>5. NamedEdge(c, selected)
  <2>1. GuardedAdditions(delta, selected) = {}
    BY <1>1, FulfilledShowsNoAddition
  <2> QED BY <1>3, <1>4, <2>1 DEF GuardedAdditions, Guarded, Dimensions
<1> QED BY <1>3, <1>5 DEF NamedEdge
=============================================================================
