---------------------------- MODULE MCStudioAgent ---------------------------
EXTENDS StudioAgent, TLC

Symmetry == Permutations(Threads)
=============================================================================
