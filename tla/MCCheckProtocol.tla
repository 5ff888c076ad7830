--------------------------- MODULE MCCheckProtocol ---------------------------
(***************************************************************************)
(* Two components of two modules and one external module, under a lean and *)
(* a strict contract.  Some repositories leave all the work to be done     *)
(* with two codes; the others have their commits and pushes made, in order *)
(* and for every pair of codes and several declarations, and are checked.  *)
(***************************************************************************)
EXTENDS CheckProtocol, TLC

CONSTANTS A, B

MCComponents == {A, B}
MCNames == {"n", "m", "_p", "*"}
MCPrivate == {"_p"}
MCExternal == {"x"}
MCPackageOf == "a1" :> "a" @@ "a2" :> "a" @@ "b1" :> "b" @@ "b2" :> "b" @@ "x" :> "x"

Everything == "a1" :> MCNames @@ "a2" :> MCNames @@ "b2" :> MCNames @@ "x" :> MCNames
MCExports == "b1" :> {"n", "*"} @@ Everything

-----------------------------------------------------------------------------
(* Contracts *)

Owners == "a1" :> {A} @@ "a2" :> {A} @@ "b1" :> {B} @@ "b2" :> {B} @@ "x" :> {}

Public == A :> [declared |-> FALSE, modules |-> {}, names |-> {}]
       @@ B :> [declared |-> TRUE, modules |-> {"b1"}, names |-> {<<"b2", "n">>}]

Interface(typing, grants) ==
  [kind |-> "interface_boundary", id |-> "interface", typing |-> typing, grants |-> grants]
Requires(typing) == [kind |-> "complete_requires", id |-> "requires", typing |-> typing]
Forbidden(id, sources, targets, symbol, typing) ==
  [kind |-> "forbidden_dependency", id |-> id, sources |-> sources, targets |-> targets,
   symbol |-> symbol, allowed |-> {"a2"}, typing |-> typing]
NoCycles(level, components) ==
  [kind |-> "no_component_cycles", id |-> level, level |-> level, components |-> components]

Lean ==
  [owners |-> Owners, public |-> Public,
   requires |-> A :> {[component |-> B, ports |-> {}]} @@ B :> {},
   rules |-> {Interface(FALSE, {}), Requires(FALSE), NoCycles("component", None),
              Forbidden("forbidden", {"a1", "a2"}, {"b1"}, "m", FALSE)}]

Strict ==
  [owners |-> [Owners EXCEPT !["a2"] = {A, B}], public |-> Public,
   requires |-> A :> {[component |-> B, ports |-> {[modules |-> {"b1"}, symbol |-> "n"],
                                                   [modules |-> {"b2"}, symbol |-> "m"]}]}
             @@ B :> {[component |-> A, ports |-> {[modules |-> {"a1", "a2"}, symbol |-> None]}]},
   rules |-> {Interface(TRUE, {<<"a1", "b2">>}), Requires(TRUE), NoCycles("module", {B}),
              Forbidden("forbidden", {"b1", "b2"}, {"a1"}, None, TRUE),
              [kind |-> "sibling_isolation", id |-> "siblings", members |-> {{"a1"}, {"a2"}},
               typing |-> FALSE],
              [kind |-> "external_dependency_scope", id |-> "external", targets |-> {"x"},
               allowed |-> {"a1"}]}]

Bare ==
  [owners |-> Owners, public |-> Public, requires |-> A :> {} @@ B :> {},
   rules |-> {[kind |-> "complete_external_scope", id |-> "undeclared", sources |-> {"a1", "a2"}]}]

MCContractOf == "lean" :> Lean @@ "strict" :> Strict @@ "bare" :> Bare

-----------------------------------------------------------------------------
(* Codes *)

Import(source, target, symbol, at) ==
  [source |-> source, target |-> target, symbol |-> symbol, known |-> TRUE, typing |-> FALSE,
   reexport |-> FALSE, via |-> IF symbol = None THEN {} ELSE {<<target, symbol>>},
   candidate |-> FALSE, at |-> at]

Open(source, target, at) == [Import(source, target, None, at) EXCEPT !.known = FALSE]
Candidate(source, target, symbol, at) ==
  [Import(source, target, symbol, at) EXCEPT !.candidate = TRUE]
Typing(i) == [i EXCEPT !.typing = TRUE]
PassesOn(i) == [i EXCEPT !.reexport = TRUE]

Scan(imports) == [imports |-> imports, dynamic |-> {}, exports |-> MCExports,
                  calls |-> 4, unresolved |-> 2]
Dynamic(source, at) == [source |-> source, typing |-> FALSE, at |-> at]

Plain == Import("a1", "b1", "n", 1)
Back == Import("b1", "a1", "n", 3)

\* The third place of the edge is beyond EvidenceLimit.
Thrice(last) == {Import("a1", "b1", None, at) : at \in {1, 2, last}}

MCCodeOf ==
     "none" :> Scan({})
  @@ "plain" :> Scan({Plain})
  @@ "moved" :> Scan({[Plain EXCEPT !.at = 2]})
  @@ "hidden" :> Scan({Import("a1", "b1", "m", 1)})
  @@ "private" :> Scan({Import("a1", "b1", "_p", 1)})
  @@ "private2" :> Scan({Import("a1", "b1", "_p", 1), Import("a1", "b2", "_p", 2)})
  @@ "elsewhere" :> Scan({Import("a2", "b1", "_p", 1)})
  @@ "cycle" :> Scan({Plain, Back})
  @@ "cycle3" :> Scan({Plain, Back, Import("b1", "a2", "n", 4), Import("a2", "a1", "n", 5)})
  @@ "open" :> Scan({Open("a1", "b2", 1)})
  @@ "open2" :> Scan({Open("a1", "b2", 1), Open("a1", "b2", 2)})
  @@ "openpublic" :> Scan({Open("a1", "b1", 1)})
  @@ "passed" :> Scan({Open("a1", "b2", 1), PassesOn(Import("b2", "b1", "n", 2))})
  @@ "candidate" :> Scan({Candidate("a1", "b2", "m", 1)})
  @@ "star" :> Scan({Import("a2", "b1", "*", 1), Import("a1", "b1", "*", 2)})
  @@ "starhidden" :> [Scan({Import("a1", "b1", "*", 1)}) EXCEPT !.exports["b1"] = MCNames]
  @@ "module" :> Scan({Import("a1", "b2", None, 1)})
  @@ "dynamic" :> [Scan({Plain}) EXCEPT !.dynamic = {Dynamic("a1", 6)}]
  @@ "typing" :> Scan({Typing(Import("a1", "b2", "m", 1))})
  @@ "peers" :> Scan({Import("a1", "a2", "n", 1), Import("a2", "x", "n", 2)})
  @@ "late" :> Scan(Thrice(7))
  @@ "later" :> Scan(Thrice(8))
  @@ "calls" :> [Scan({Plain}) EXCEPT !.calls = 3]

MCCodes == DOMAIN MCCodeOf
MCPolicies == DOMAIN MCContractOf

-----------------------------------------------------------------------------
(* Complete scans: each import resolved in one way, or an open one in two, *)
(* a star import with one of its names or none, and a dynamic load to      *)
(* nothing or to one import.                                               *)

Outcomes(code, i) ==
  {j \in {[i EXCEPT !.known = TRUE, !.candidate = FALSE, !.symbol = s, !.via = v] :
            s \in MCNames \cup {None},
            v \in {i.via, i.via \cup {<<"b1", "n">>}, {<<i.target, "n">>}, {<<i.target, "m">>},
                   {<<i.target, "m">>, <<"b1", "m">>}, {<<i.target, "n">>, <<"b1", "n">>}}} :
     Resolves(code, i, j)}

BoundBy(code, i) ==
  {j \in {[i EXCEPT !.candidate = FALSE, !.symbol = s, !.via = {<<i.target, s>>}] : s \in MCNames} :
     Binds(code, i, j)}

Loaded(d) ==
  {[Import(d.source, target, symbol, d.at) EXCEPT !.typing = d.typing] :
     target \in DOMAIN Owners, symbol \in MCNames \cup {None}}

Complete(code) ==
  LET firsts == {f \in [code.imports -> UNION {Outcomes(code, i) : i \in code.imports}] :
                   \A i \in code.imports : f[i] \in Outcomes(code, i)}
      more   == {{}} \cup {{j} : j \in UNION ({Outcomes(code, i) \cup BoundBy(code, i) : i \in code.imports}
                                              \cup {Loaded(d) : d \in code.dynamic})}
  IN  {[code EXCEPT !.dynamic = {}, !.imports = {f[i] : i \in code.imports} \cup extra] :
         f \in firsts, extra \in more}

MCReadings == UNION {Complete(MCCodeOf[c]) : c \in MCCodes}

-----------------------------------------------------------------------------
(* Repositories *)

TreeOf(policy, lock, expected, code) ==
  [policy |-> policy, lock |-> lock, expected |-> expected, code |-> code]
Lock(policy, code) == [accepted |-> 1, observed |-> <<policy, code>>]
Expect(lock, selected) == [baseline |-> 2, lock |-> lock, selected |-> selected]

Base(policy, code, observed, baseline) ==
  << [parents |-> <<>>, tree |-> TreeOf(policy, None, None, code)],
     [parents |-> <<1>>, tree |-> TreeOf(policy, Lock(policy, observed), None, baseline)] >>

Fresh ==
  [commits |-> Base("lean", "none", "none", "none"),
   origin |-> [main |-> 2, branch |-> 2], versions |-> <<>>]

InOrder == << [head |-> 3, time |-> 1], [head |-> 4, time |-> 2], [head |-> 4, time |-> 3] >>
Resubmitted == << [head |-> 4, time |-> 1], [head |-> 3, time |-> 2], [head |-> 4, time |-> 3] >>

Delivered(policy, observed, before, baseline, after, selected) ==
  LET lock == Lock(policy, observed)
      expected == Expect(lock, selected)
  IN  [commits |-> Base(policy, before, observed, baseline)
         \o << [parents |-> <<2>>, tree |-> TreeOf(policy, lock, expected, baseline)],
               [parents |-> <<3>>, tree |-> TreeOf(policy, lock, expected, after)] >>,
       origin |-> [main |-> 2, branch |-> 4],
       versions |-> InOrder]

Declarations(policy, before, after) ==
  LET changes == DeltaOf[policy][before][after].changes
      added   == {c \in changes : c.dimension = "dependency_edges" /\ c.change = "ADDED"}
      moved   == {c \in changes : c.change \in {"RELOCATED", "REMOVED"}}
  IN  {{}, changes, added, moved, {[c EXCEPT !.after = @ + 1] : c \in added}}

Judging ==
     "lean" :> MCCodes \ {"openpublic", "module", "typing", "peers"}
  @@ "strict" :> {"plain", "hidden", "cycle", "star", "candidate", "open", "openpublic",
                  "module", "typing", "peers"}
  @@ "bare" :> {"none", "plain", "dynamic", "cycle", "cycle3", "peers"}

(* One lock claims another observation, one commit locks other code, and   *)
(* one candidate was submitted before its expectation and again after it.  *)
MCRepositories ==
  {Fresh, [Delivered("lean", "none", "none", "none", "none", {}) EXCEPT !.versions = Resubmitted], Delivered("lean", "plain", "none", "none", "none", {}),
   Delivered("lean", "none", "none", "hidden", "none", {})}
  \cup UNION {UNION {{Delivered(p, c, c, c, d, s) : s \in Declarations(p, c, d)} :
                        c \in Judging[p], d \in Judging[p]} : p \in MCPolicies}

MCEditCodes == {"none", "plain"}
MCEditPolicies == {"strict"}
MCEditSelections == {{}, DeltaOf["lean"]["none"]["plain"].changes}
=============================================================================
