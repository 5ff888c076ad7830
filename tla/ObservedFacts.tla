---------------------------- MODULE ObservedFacts ----------------------------
(***************************************************************************)
(* The records of one observation that a delta compares, and the counts a  *)
(* ratchet compares, as functions of the contract and the code it was      *)
(* observed under.  A fact has a logical identity (what it is about), the  *)
(* rest of its data, and the places its evidence names, which are numbers  *)
(* in the order of file and line.                                          *)
(***************************************************************************)
EXTENDS RuleVerdicts, Integers, FiniteSetsExt

CONSTANTS
  PackageOf,     \* [module -> package]
  EvidenceLimit  \* places kept of an edge or a cycle (_AGGREGATE_EVIDENCE_LIMIT)

ASSUME EvidenceLimitAssumption == EvidenceLimit \in Nat \ {0}

Dimensions == {"violations", "cycles", "private_crossings", "api_crossings",
               "unknowns", "dependency_edges"}

Fact(about, data, places) ==
  [logical |-> about, semantic |-> [about |-> about, data |-> data], places |-> places]

PlacesOf(imports) == {i.at : i \in imports}

\* Of an edge or a cycle the first places are kept, in the order of the files.
FirstPlaces(imports) ==
  {p \in PlacesOf(imports) : Cardinality({q \in PlacesOf(imports) : q < p}) < EvidenceLimit}

-----------------------------------------------------------------------------
(* Violations: the logical identity of an import violation leaves the      *)
(* symbol out, and a cycle violation has only its rule.                    *)

NamesSymbol(rule) == rule.kind \in {"forbidden_dependency", "interface_boundary"}

ImportViolations(contract, code) ==
  UNION {{Fact([rule |-> rule.id, source |-> i.source, target |-> i.target],
               [symbol |-> IF NamesSymbol(rule) THEN i.symbol ELSE None,
                typing |-> rule.kind = "forbidden_dependency" /\ i.typing,
                members |-> {}], {i.at}) :
            i \in With(contract, code, rule, "fail")} : rule \in contract.rules}

Closing(contract, code, rule, members) ==
  {i \in code.imports :
     LET edge == IF rule.level = "module" THEN <<i.source, i.target>>
                 ELSE <<component_for(contract, i.source), component_for(contract, i.target)>>
     IN  {edge[1], edge[2]} \subseteq members /\ edge[1] # edge[2]}

CycleViolations(contract, code) ==
  UNION {{Fact([rule |-> rule.id, source |-> None, target |-> None],
               [symbol |-> None, typing |-> FALSE, members |-> members],
               PlacesOf(Closing(contract, code, rule, members))) :
            members \in FailingCycles(contract, code, rule)} : rule \in contract.rules}

-----------------------------------------------------------------------------
(* Measured edges and cycles, of modules and of packages *)

Edge(level, i) ==
  IF level = "module" THEN <<i.source, i.target>>
  ELSE <<PackageOf[i.source], PackageOf[i.target]>>

Bucket(code, level, edge) ==
  {i \in code.imports : i.target \notin External /\ Edge(level, i) = edge}

Edges(code, level) ==
  {edge \in {Edge(level, i) : i \in {k \in code.imports : k.target \notin External}} :
     edge[1] # edge[2]}

DependencyEdges(code) ==
  UNION {{Fact([level |-> level, source |-> edge[1], target |-> edge[2]],
               [count |-> Cardinality(Bucket(code, level, edge)),
                typing |-> Cardinality({i \in Bucket(code, level, edge) : i.typing}),
                bidirectional |-> <<edge[2], edge[1]>> \in Edges(code, level)],
               FirstPlaces(Bucket(code, level, edge))) :
            edge \in Edges(code, level)} : level \in {"module", "package"}}

InternalEdges(code, level, members) ==
  {edge \in Edges(code, level) : {edge[1], edge[2]} \subseteq members}

MeasuredCycles(code, level) ==
  CyclesOf(UNION {{edge[1], edge[2]} : edge \in Edges(code, level)}, Edges(code, level))

Cycles(code) ==
  UNION {{Fact([level |-> level, members |-> members], [level |-> level],
               FirstPlaces(UNION {Bucket(code, level, edge) :
                                    edge \in InternalEdges(code, level, members)})) :
            members \in MeasuredCycles(code, level)} : level \in {"module", "package"}}

-----------------------------------------------------------------------------
(* Imports of a symbol across packages *)

Crossings(code, private) ==
  {Fact([source |-> i.source, target |-> i.target, symbol |-> i.symbol],
        [i EXCEPT !.at = None], {i.at}) :
     i \in {k \in code.imports :
              /\ k.symbol # None
              /\ PackageOf[k.source] # PackageOf[k.target]
              /\ private => k.symbol \in Private}}

-----------------------------------------------------------------------------
(* What is undecided: each dynamic load, each rule it keeps from a proof,  *)
(* and one record for each rule that left imports undecided.               *)

Undecided(kind, about, rule, typing, positions, undecided, places) ==
  Fact([kind |-> kind, subjects |-> about],
       [rule |-> rule, typing |-> typing, positions |-> positions, undecided |-> undecided],
       places)

DynamicUnknowns(contract, code) ==
  {Undecided("dynamic_import_limit", {d.source}, None, d.typing, 1, 1, {d.at}) :
     d \in code.dynamic}
  \cup UNION {{Undecided("dynamic_dependency_limit", {d.source}, rule.id, FALSE, 1, 1, {d.at}) :
                 d \in DynamicLimits(contract, code, rule)} : rule \in contract.rules}

SymbolLimits(contract, code) ==
  {LET open == With(contract, code, rule, "unknown")
   IN  Undecided(rule.kind, {i.source : i \in open}, rule.id, FALSE,
                 Cardinality(Positions(contract, code, rule)), Cardinality(open),
                 PlacesOf(open)) :
     rule \in {r \in contract.rules : With(contract, code, r, "unknown") # {}}}

-----------------------------------------------------------------------------

Facts(contract, code) ==
  [violations        |-> ImportViolations(contract, code) \cup CycleViolations(contract, code),
   cycles            |-> Cycles(code),
   private_crossings |-> Crossings(code, TRUE),
   api_crossings     |-> Crossings(code, FALSE),
   unknowns          |-> DynamicUnknowns(contract, code) \cup SymbolLimits(contract, code),
   dependency_edges  |-> DependencyEdges(code)]

(* The counts of measure_python_ratchets; a cycle counts its edges. *)
Measurements(contract, code) ==
  LET facts == Facts(contract, code)
  IN  [violations |-> Cardinality(facts.violations),
       cycle_edges |->
         MapThenSumSet(LAMBDA f : Cardinality(InternalEdges(code, f.logical.level,
                                                            f.logical.members)), facts.cycles),
       private_crossings |-> Cardinality(facts.private_crossings),
       unknown_positions |-> MapThenSumSet(LAMBDA f : f.semantic.data.undecided, facts.unknowns),
       calls_unresolved |-> code.unresolved,
       calls_total |-> code.calls]

Scalars == {"violations", "cycle_edges", "private_crossings", "unknown_positions",
            "calls_unresolved"}

(* A scalar may not rise, nor the share of unresolved calls; the share is  *)
(* compared without a division, and not at all when a side has no call.    *)
RatchetsHold(accepted, candidate) ==
  /\ \A name \in Scalars : candidate[name] <= accepted[name]
  /\ (accepted.calls_total > 0 /\ candidate.calls_total > 0) =>
       candidate.calls_unresolved * accepted.calls_total
         <= accepted.calls_unresolved * candidate.calls_total
=============================================================================
