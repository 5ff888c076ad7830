--------------------------- MODULE MCPackageRenames --------------------------
(* Five names of up to three segments; A has one or two packages, B has one. *)
EXTENDS PackageRenames

CONSTANTS A, B

MCComponents == {A, B}
MCSegments == {"a", "b"}
MCNames ==
  {<<"a">>, <<"b">>, <<"a", "a">>, <<"a", "b">>, <<"a", "a", "b">>}
MCPackages ==
  {p \in [MCComponents -> SUBSET MCNames] :
     Cardinality(p[A]) \in {1, 2} /\ Cardinality(p[B]) = 1 /\ p[A] \cap p[B] = {}}
MCRules ==
  {r \in [source : MCNames, allowed : {{}} \cup {{n} : n \in MCNames}] :
     \A n \in r.allowed : in_scope(n, r.source)}
=============================================================================
