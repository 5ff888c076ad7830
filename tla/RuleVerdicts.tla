----------------------------- MODULE RuleVerdicts -----------------------------
(***************************************************************************)
(* The verdict of the dependency rules over what a scan saw, and what a    *)
(* scan may have left open.                                                *)
(*                                                                         *)
(* A contract gives modules to components, states what a component offers  *)
(* and what it requires, and holds rules.  A code is what the collector    *)
(* recorded of a tree: imports, of which it may not know the names or the  *)
(* route, and dynamic loads, of which it does not know the target.         *)
(* Resolution says which complete scans an incomplete one can stand for.   *)
(***************************************************************************)

CONSTANTS
  Components,  \* labels of components
  None,        \* no component, no symbol, no scope
  Names,       \* names an import can carry
  Star,        \* the name "*"
  Private,     \* names a leading underscore keeps inside
  External     \* modules outside the scanned namespace

ASSUME NamesAssumption ==
  /\ None \notin Names /\ None \notin Components
  /\ Private \subseteq Names /\ Star \in Names \ Private

-----------------------------------------------------------------------------
(* Ownership: the only owner of a module, or None. *)

component_for(contract, m) ==
  IF \E a \in Components : contract.owners[m] = {a}
  THEN CHOOSE a \in Components : contract.owners[m] = {a}
  ELSE None

Crosses(contract, i) ==
  LET source == component_for(contract, i.source)
      target == component_for(contract, i.target)
  IN  source # None /\ target # None /\ source # target

TypingCounts(rule, i) == i.typing => rule.typing

-----------------------------------------------------------------------------
(* Forbidden dependency *)

ForbiddenScope(rule, i) ==
  /\ i.source \in rule.sources \ rule.allowed
  /\ i.target \in rule.targets
  /\ TypingCounts(rule, i)

ForbiddenVerdict(rule, i) ==
  IF rule.symbol \in {None, i.symbol} THEN "fail"
  ELSE IF i.known THEN "pass" ELSE "unknown"

(* AD-18: the interface does not judge what a forbidden rule rejects. *)
Rejected(contract, i) ==
  \E rule \in contract.rules :
    /\ rule.kind = "forbidden_dependency"
    /\ ForbiddenScope(rule, i)
    /\ ForbiddenVerdict(rule, i) = "fail"

-----------------------------------------------------------------------------
(* Interface boundary: a component offers modules and module:name entries, *)
(* and an import reaches them by the chain of re-exports it goes through.  *)

Offers(public, exports, m, n) ==
  /\ n \notin Private
  /\ \/ <<m, n>> \in public.names
     \/ m \in public.modules /\ n \in exports[m] \cup {Star}

Reaches(public, exports, i) ==
  IF i.symbol = None
  THEN i.target \in public.modules
  ELSE /\ i.symbol \notin Private
       /\ \E route \in i.via : Offers(public, exports, route[1], route[2])

Exporting(code) == {i.source : i \in {k \in code.imports : k.reexport}}

Granted(rule, i) == i.known /\ i.symbol = None /\ <<i.source, i.target>> \in rule.grants

InterfaceScope(contract, rule, i) ==
  /\ Crosses(contract, i)
  /\ contract.public[component_for(contract, i.target)].declared
  /\ TypingCounts(rule, i)
  /\ ~Rejected(contract, i)

\* Fault: a route that is not proven counts as none.
NoOpenRoute(i) == FALSE

OpenRoute(i) == i.candidate /\ i.symbol \in Names \ Private

InterfaceVerdict(contract, code, rule, i) ==
  LET public == contract.public[component_for(contract, i.target)]
      named  == \E n \in Names : <<i.target, n>> \in public.names
  IN  IF Granted(rule, i) THEN "pass"
      ELSE IF i.known THEN
        IF Reaches(public, code.exports, i) THEN "pass"
        ELSE IF OpenRoute(i) THEN "unknown" ELSE "fail"
      ELSE IF i.target \in public.modules THEN "pass"
      ELSE IF i.target \in Exporting(code) \/ named THEN "unknown" ELSE "fail"

-----------------------------------------------------------------------------
(* Complete requires: an entry names a component and, if any, its ports. *)

Named(i) == i.known /\ i.symbol # Star

requires_covers(contract, i) ==
  \E entry \in contract.requires[component_for(contract, i.source)] :
    /\ entry.component = component_for(contract, i.target)
    /\ \/ entry.ports = {}
       \/ \E port \in entry.ports :
            /\ i.target \in port.modules
            /\ port.symbol = None \/ (Named(i) /\ port.symbol = i.symbol)

SymbolPort(contract, i) ==
  \E entry \in contract.requires[component_for(contract, i.source)] :
    /\ entry.component = component_for(contract, i.target)
    /\ \E port \in entry.ports : i.target \in port.modules /\ port.symbol # None

RequiresScope(contract, rule, i) == Crosses(contract, i) /\ TypingCounts(rule, i)

RequiresVerdict(contract, i) ==
  IF requires_covers(contract, i) THEN "pass"
  ELSE IF ~Named(i) /\ SymbolPort(contract, i) THEN "unknown" ELSE "fail"

-----------------------------------------------------------------------------
(* Peers and external packages: these rules reject what they select. *)

SiblingScope(rule, i) ==
  /\ \E p, q \in rule.members : p # q /\ i.source \in p /\ i.target \in q
  /\ TypingCounts(rule, i)

ExternalScope(rule, i) == i.target \in rule.targets /\ i.source \notin rule.allowed

UndeclaredScope(contract, rule, i) ==
  /\ i.source \in rule.sources
  /\ i.target \in External
  /\ \A other \in contract.rules :
       other.kind = "external_dependency_scope" => i.target \notin other.targets

-----------------------------------------------------------------------------
(* Cycles *)

Linked(nodes, edges, a, b) ==
  \A reached \in SUBSET nodes :
    (a \in reached /\ \A e \in edges : e[1] \in reached => e[2] \in reached) => b \in reached

Component(nodes, edges, a) ==
  {b \in nodes : Linked(nodes, edges, a, b) /\ Linked(nodes, edges, b, a)}

CyclesOf(nodes, edges) ==
  {members \in {Component(nodes, edges, a) : a \in nodes} :
     \E a, b \in members : a # b}

ComponentEdges(contract, code) ==
  {<<component_for(contract, i.source), component_for(contract, i.target)>> :
     i \in {k \in code.imports : Crosses(contract, k)}}

ModuleEdges(code) ==
  {<<i.source, i.target>> :
     i \in {k \in code.imports : k.target \notin External /\ k.source # k.target}}

CycleNodes(contract, rule) ==
  IF rule.level = "module" THEN DOMAIN contract.owners ELSE Components

CycleEdges(contract, code, rule) ==
  IF rule.level = "module" THEN ModuleEdges(code) ELSE ComponentEdges(contract, code)

(* AD-98: a scope selects the cycles that touch one of its components. *)
InCycleScope(contract, rule, node) ==
  \/ rule.components = None
  \/ rule.level = "module" /\ contract.owners[node] \cap rule.components # {}
  \/ rule.level # "module" /\ node \in rule.components

FailingCycles(contract, code, rule) ==
  IF rule.kind # "no_component_cycles" THEN {}
  ELSE {members \in CyclesOf(CycleNodes(contract, rule), CycleEdges(contract, code, rule)) :
          \E node \in members : InCycleScope(contract, rule, node)}

-----------------------------------------------------------------------------
(* One rule over a code *)

Judged(contract, rule, i) ==
  \/ rule.kind = "forbidden_dependency" /\ ForbiddenScope(rule, i)
  \/ rule.kind = "interface_boundary" /\ InterfaceScope(contract, rule, i)
  \/ rule.kind = "complete_requires" /\ RequiresScope(contract, rule, i)
  \/ rule.kind = "sibling_isolation" /\ SiblingScope(rule, i)
  \/ rule.kind = "external_dependency_scope" /\ ExternalScope(rule, i)
  \/ rule.kind = "complete_external_scope" /\ UndeclaredScope(contract, rule, i)

VerdictOn(contract, code, rule, i) ==
  CASE rule.kind = "forbidden_dependency" -> ForbiddenVerdict(rule, i)
    [] rule.kind = "interface_boundary" -> InterfaceVerdict(contract, code, rule, i)
    [] rule.kind = "complete_requires" -> RequiresVerdict(contract, i)
    [] OTHER -> "fail"

Positions(contract, code, rule) == {i \in code.imports : Judged(contract, rule, i)}

With(contract, code, rule, verdict) ==
  {i \in Positions(contract, code, rule) : VerdictOn(contract, code, rule, i) = verdict}

(* Does a load whose target is unknown keep this rule from a proof? *)
DynamicLimit(contract, rule, d) ==
  LET owned == component_for(contract, d.source) # None
  IN  \/ /\ rule.kind = "forbidden_dependency"
         /\ d.source \in rule.sources \ rule.allowed /\ TypingCounts(rule, d)
      \/ /\ rule.kind \in {"interface_boundary", "complete_requires"}
         /\ owned /\ TypingCounts(rule, d)
      \/ /\ rule.kind = "sibling_isolation"
         /\ \E p \in rule.members : d.source \in p
         /\ TypingCounts(rule, d)
      \/ rule.kind = "external_dependency_scope" /\ d.source \notin rule.allowed
      \/ rule.kind = "complete_external_scope" /\ d.source \in rule.sources
      \/ rule.kind = "no_component_cycles" /\ (rule.level = "module" \/ owned)

DynamicLimits(contract, code, rule) ==
  {d \in code.dynamic : DynamicLimit(contract, rule, d)}

RuleStatus(contract, code, rule) ==
  IF \/ With(contract, code, rule, "fail") # {}
     \/ FailingCycles(contract, code, rule) # {}
  THEN "fail"
  ELSE IF \/ With(contract, code, rule, "unknown") # {}
          \/ DynamicLimits(contract, code, rule) # {}
  THEN "unknown"
  ELSE "pass"

(* The declared verdict of one observation *)
Declared(contract, code) ==
  LET statuses == {RuleStatus(contract, code, rule) : rule \in contract.rules}
  IN  IF "fail" \in statuses THEN "fail"
      ELSE IF "unknown" \in statuses \/ code.dynamic # {} THEN "unknown"
      ELSE "pass"

-----------------------------------------------------------------------------
(* What a complete scan could have found instead *)

(* Imports and the names modules export are names. *)
IsScan(code) ==
  /\ \A i \in code.imports : i.symbol \in Names \cup {None}
  /\ \A m \in DOMAIN code.exports : code.exports[m] \subseteq Names
  /\ \A i \in code.imports : ~i.known \/ i.symbol = Star => i.target \in DOMAIN code.exports

SameForm(i, j) ==
  /\ j.source = i.source /\ j.target = i.target
  /\ j.typing = i.typing /\ j.reexport = i.reexport
  /\ j.known /\ ~j.candidate

Surface(code, m) == code.exports[m] \ (Private \cup {Star, None})

(* The name comes from the target, directly unless that passes names on. *)
TakesName(code, i, j) ==
  /\ j.symbol \in Surface(code, i.target)
  /\ <<i.target, j.symbol>> \in j.via
  /\ i.target \notin Exporting(code) => j.via = {<<i.target, j.symbol>>}

(* Import j is what import i turns out to be: one whose names are unknown  *)
(* binds public names of its target, and a candidate's route can only      *)
(* gain entries.                                                           *)
Resolves(code, i, j) ==
  /\ SameForm(i, j)
  /\ i.known =>
       /\ j.symbol = i.symbol
       /\ i.via \subseteq j.via
       /\ ~i.candidate => j.via = i.via
  /\ ~i.known =>
       /\ TakesName(code, i, j)
       /\ i.symbol # None => j.symbol = i.symbol

(* Import j is a name a star import binds.  The star import is recorded    *)
(* with its names as known, and stays: a contract also judges its form.    *)
Binds(code, i, j) ==
  /\ i.known /\ i.symbol = Star
  /\ SameForm(i, j) /\ TakesName(code, i, j)

Loads(d, j) ==
  /\ j.source = d.source /\ j.typing = d.typing
  /\ j.known /\ ~j.candidate /\ ~j.reexport

Resolution(code, found) ==
  /\ found.dynamic = {}
  /\ found.exports = code.exports
  /\ \A i \in code.imports : \E j \in found.imports : Resolves(code, i, j)
  /\ \A j \in found.imports :
       \/ \E i \in code.imports : Resolves(code, i, j) \/ Binds(code, i, j)
       \/ \E d \in code.dynamic : Loads(d, j)

(* A star import a rule decides by the star alone: it may bind the name a  *)
(* forbidden rule is about, or names of a module that is not public.       *)
Overlooked(contract, code, rule, i) ==
  /\ i.known /\ i.symbol = Star
  /\ \/ /\ rule.kind = "forbidden_dependency" /\ ForbiddenScope(rule, i)
        /\ rule.symbol \in Surface(code, i.target)
     \/ /\ rule.kind = "interface_boundary" /\ InterfaceScope(contract, rule, i)
        /\ i.target \notin contract.public[component_for(contract, i.target)].modules

Overlooks(contract, code) ==
  \E rule \in contract.rules, i \in code.imports : Overlooked(contract, code, rule, i)
=============================================================================
