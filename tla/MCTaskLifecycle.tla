--------------------------- MODULE MCTaskLifecycle ---------------------------
(* The instance of TaskLifecycle, and of its refinement, for TLC.          *)
EXTENDS TaskLifecycleRefinement
=============================================================================
