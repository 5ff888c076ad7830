--------------------------- MODULE MCStudioStories --------------------------
(* A main thread and a handler; a first run and a restart. *)
EXTENDS StudioStories

CONSTANTS main, h1

MCThreads == {main, h1}
=============================================================================
