------------------------- MODULE MCProgressTracker -------------------------
(* A recipe, the wait for its animation, a step with a message, the next      *)
(* recipe, which fails with a message; then the `finally`.                    *)
EXTENDS ProgressTracker

MCScript == <<"status", "idle", "step", "log", "status", "log", "idle", "quit">>
=============================================================================
