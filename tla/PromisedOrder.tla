---------------------------- MODULE PromisedOrder ----------------------------
(***************************************************************************)
(* What a passing check promises of the order of two commits: the forge    *)
(* had seen the expectation before it first saw the candidate.  Work may   *)
(* start with heads the forge has seen already, in some order.             *)
(***************************************************************************)
CONSTANTS Heads, None

VARIABLES
  published,  \* the heads the forge has seen
  before,     \* <<x, y>>: x was seen when y had not been
  passing     \* <<expectation, candidate>> of the passing check, or None

vars == <<published, before, passing>>

Init ==
  /\ published \in SUBSET Heads
  /\ before \subseteq published \X published
  /\ \A x, y \in published : x # y => (<<x, y>> \in before <=> <<y, x>> \notin before)
  /\ passing = None

Publish ==
  \E head \in published' \ published :
    /\ published' = published \cup {head}
    /\ before' = before \cup (published \X {head})
    /\ UNCHANGED passing

Pass ==
  /\ passing' \in before
  /\ UNCHANGED <<published, before>>

Forget == passing' = None /\ UNCHANGED <<published, before>>

Next == Publish \/ Pass \/ Forget

Spec == Init /\ [][Next]_vars
=============================================================================
