----------------------- MODULE TaskLifecycleRefinement -----------------------
(* TaskLifecycle implements LoopControl: its pause event is the gate, its  *)
(* suspended coroutines are the held loops, its grace set the condemned.   *)
EXTENDS TaskLifecycle

PhaseOf(l) == CASE pc[l] = "unused" -> "unborn"
                [] pc[l] \in {"ended", "reaped"} -> "gone"
                [] pc[l] = "blocked" -> "held"
                [] OTHER -> "running"

Control == INSTANCE LoopControl WITH
    Loops <- Loops,
    TaskOf <- Task,
    phase <- [l \in Loops |-> PhaseOf(l)],
    closed <- {t \in Tasks : pauseEvent[t] = "clear"},
    condemned <- grace

\* Every step of the loops, routes and restarts is a step of LoopControl, so
\* loops are held and released and end as it says.
ImplementsControl == Control!Safety

\* ... and condemned loops do end (cancel_task's 5 s and handle.cancel()).
ImplementsControlFairly == Control!Spec
=============================================================================
