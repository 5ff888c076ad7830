------------------------- MODULE MCBaselineRatchet --------------------------
(* One plain fingerprint, cycles of up to three components, one budget. *)
EXTENDS BaselineRatchet, TLC

Symmetry == Permutations(Components)
=============================================================================
