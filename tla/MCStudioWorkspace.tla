-------------------------- MODULE MCStudioWorkspace -------------------------
(* Workspace with two handler threads and two runs: a first run and a restart. *)
EXTENDS StudioWorkspace, TLC

CONSTANTS t1, t2

MCThreads == {t1, t2}
Symmetry == Permutations(MCThreads)
=============================================================================
