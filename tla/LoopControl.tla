----------------------------- MODULE LoopControl -----------------------------
(***************************************************************************)
(* What pause, resume and stop promise about the loops of a task, without  *)
(* statuses, turns or tools: a gate per task, loops that run or are held   *)
(* at a closed gate, and condemned loops that are bound to end.            *)
(* TaskLifecycle implements it (module TaskLifecycleRefinement).           *)
(***************************************************************************)
CONSTANTS Tasks, Loops, TaskOf(_)

VARIABLES phase,      \* "unborn", "running", "held" or "gone", per loop
          closed,     \* tasks whose gate is closed
          condemned   \* loops that a stop request waits for

vars == <<phase, closed, condemned>>

Alive(l) == phase[l] \in {"running", "held"}

Init ==
    /\ phase = [l \in Loops |-> "unborn"]
    /\ closed = {}
    /\ condemned = {}

\* A loop is born once and starts running.
Launch(l) ==
    /\ phase[l] = "unborn"
    /\ phase' = [phase EXCEPT ![l] = "running"]
    /\ UNCHANGED <<closed, condemned>>

\* Pausing closes the gate: running loops go on until they reach it.
Close(t) ==
    /\ closed' = closed \cup {t}
    /\ UNCHANGED <<phase, condemned>>

\* A loop is held only at a closed gate.
Hold(l) ==
    /\ phase[l] = "running" /\ TaskOf(l) \in closed
    /\ phase' = [phase EXCEPT ![l] = "held"]
    /\ UNCHANGED <<closed, condemned>>

\* Opening the gate releases everything held at it, at once.
Open(t) ==
    /\ closed' = closed \ {t}
    /\ phase' = [l \in Loops |-> IF phase[l] = "held" /\ TaskOf(l) = t
                                 THEN "running" ELSE phase[l]]
    /\ UNCHANGED condemned

\* A stop request gives a live loop its grace period.
Condemn(l) ==
    /\ Alive(l)
    /\ condemned' = condemned \cup {l}
    /\ UNCHANGED <<phase, closed>>

\* A running loop may end, possibly closing the gate behind it; a held one
\* ends only when it is condemned.
Exit(l) ==
    /\ phase[l] = "running" \/ (phase[l] = "held" /\ l \in condemned)
    /\ phase' = [phase EXCEPT ![l] = "gone"]
    /\ condemned' = condemned \ {l}
    /\ closed' \in {closed, closed \cup {TaskOf(l)}}

\* The process dies: every loop is gone and every gate is open.
Shutdown ==
    /\ phase' = [l \in Loops |-> IF phase[l] = "unborn" THEN "unborn" ELSE "gone"]
    /\ closed' = {}
    /\ condemned' = {}

Next ==
    \/ \E l \in Loops : Launch(l) \/ Hold(l) \/ Condemn(l) \/ Exit(l)
    \/ \E t \in Tasks : Close(t) \/ Open(t)
    \/ Shutdown

\* The end of a condemned loop is the only thing promised to happen.
ExitCondemned(l) == l \in condemned /\ Exit(l)

Safety == Init /\ [][Next]_vars
Spec == Safety /\ \A l \in Loops : WF_vars(ExitCondemned(l))
=============================================================================
