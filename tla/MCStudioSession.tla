--------------------------- MODULE MCStudioSession --------------------------
(* Four invocations in quiet sessions and three in others. *)
EXTENDS StudioSession

CONSTANTS p1, p2, p3, p4

MCProcs == {p1, p2, p3, p4}
MCLoudProcs == {p1, p2, p3}
=============================================================================
