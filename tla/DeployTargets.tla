--------------------------- MODULE DeployTargets ---------------------------
(***************************************************************************)
(* The list of deploy targets (api/routes.py, /deploy/targets), a file that *)
(* every call reads, changes and writes as a whole.  Checking and setting  *)
(* up a target awaits ping and ssh between two writes of one copy of the   *)
(* list; calls made meanwhile are written over.                            *)
(***************************************************************************)
CONSTANTS
    Targets,
    Detected,   \* the targets the documents of the project ask for
    Jobs        \* checks and set-ups that can be under way together

VARIABLES
    targets,    \* deploy_targets.json
    jobs,       \* the target and the copy of the list of each job
    drifted     \* history: a job wrote a list that had changed since it read it,
                \* or was killed

vars == <<targets, jobs, drifted>>

Busy == {"checking", "setting_up"}
Results == {"reachable", "unreachable", "ready", "setup_failed"}
Statuses == {"unknown", "unconfigured"} \cup Busy \cup Results
Lists == UNION {[known -> Statuses] : known \in SUBSET Targets}

\* A document names no target the list cannot have.
ConstantsOK == Detected \subseteq Targets

None == [t \in {} |-> "unknown"]
Idle == [kind |-> "idle", list |-> None]
Job(kind, t, list) == [kind |-> kind, target |-> t, list |-> list]

\* No file, an empty list and half a file are all the same to the code.
Init ==
    /\ targets = None
    /\ jobs = [j \in Jobs |-> Idle]
    /\ drifted = FALSE

Under(j) == jobs[j].kind # "idle"

Loaded == IF targets = None THEN [t \in Detected |-> "unconfigured"] ELSE targets

ListTargets ==
    /\ targets' = Loaded
    /\ UNCHANGED <<jobs, drifted>>

AddTarget(t) ==
    /\ t \notin DOMAIN Loaded
    /\ targets' = [s \in DOMAIN Loaded \cup {t} |-> IF s = t THEN "unknown" ELSE Loaded[s]]
    /\ UNCHANGED <<jobs, drifted>>

\* The form sets the status anew, the check list leaves it.
UpdateTarget(t) ==
    /\ t \in DOMAIN Loaded
    /\ \E status \in {Loaded[t], "unknown", "unconfigured"} :
           targets' = [Loaded EXCEPT ![t] = status]
    /\ UNCHANGED <<jobs, drifted>>

DeleteTarget(t) ==
    /\ t \in DOMAIN Loaded
    /\ targets' = [s \in DOMAIN Loaded \ {t} |-> Loaded[s]]
    /\ UNCHANGED <<jobs, drifted>>

\* Marks the target and writes the list; the copy is kept for the end.
Begin(j, kind, t) ==
    LET list == [Loaded EXCEPT ![t] = kind] IN
    /\ targets' = list
    /\ jobs' = [jobs EXCEPT ![j] = Job(kind, t, list)]
    /\ UNCHANGED drifted

BeginCheck(j, t) ==
    /\ ~Under(j) /\ t \in DOMAIN Loaded
    /\ Begin(j, "checking", t)

\* The target is marked before there is a command to run.
MUTANT_BeginSetup(j, t, commands) ==
    /\ ~Under(j) /\ t \in DOMAIN Loaded
    /\ IF commands
       THEN Begin(j, "setting_up", t)
       ELSE targets' = [Loaded EXCEPT ![t] = "setting_up"] /\ UNCHANGED <<jobs, drifted>>

\* Without a command to run, nothing is marked.
BeginSetup(j, t, commands) ==
    /\ ~Under(j) /\ t \in DOMAIN Loaded
    /\ IF commands
       THEN Begin(j, "setting_up", t)
       ELSE targets' = Loaded /\ UNCHANGED <<jobs, drifted>>

Finish(j, result) ==
    /\ targets' = [jobs[j].list EXCEPT ![jobs[j].target] = result]
    /\ jobs' = [jobs EXCEPT ![j] = Idle]
    /\ drifted' = (drifted \/ targets # jobs[j].list)

FinishCheck(j) ==
    /\ jobs[j].kind = "checking"
    /\ \E result \in {"reachable", "unreachable"} : Finish(j, result)

FinishSetup(j) ==
    /\ jobs[j].kind = "setting_up"
    /\ \E result \in {"ready", "setup_failed"} : Finish(j, result)

\* The server ends; a write it was in the middle of leaves half a file.
Crash(torn) ==
    /\ torn => targets # None
    /\ targets' = IF torn THEN None ELSE targets
    /\ jobs' = [j \in Jobs |-> Idle]
    /\ drifted' = (drifted \/ \E j \in Jobs : Under(j))

Next ==
    \/ ListTargets
    \/ \E t \in Targets : AddTarget(t) \/ UpdateTarget(t) \/ DeleteTarget(t)
    \/ \E j \in Jobs, t \in Targets :
        BeginCheck(j, t) \/ \E commands \in BOOLEAN : BeginSetup(j, t, commands)
    \/ \E j \in Jobs : FinishCheck(j) \/ FinishSetup(j)
    \/ \E torn \in BOOLEAN : Crash(torn)

Spec == Init /\ [][Next]_vars
-----------------------------------------------------------------------------
(* Properties.                                                             *)

\* A target is shown as being checked or set up only while that is so, as long
\* as no job has written an old list and none was killed: then the mark stays
\* until somebody checks the target again.
BusyMeansRunning ==
    ~drifted => \A t \in DOMAIN targets :
        targets[t] \in Busy => \E j \in Jobs : Under(j) /\ jobs[j].target = t

(* What makes it inductive.                                                *)

\* Every variable holds a value of its kind.
TypeOK ==
    /\ targets \in Lists
    /\ jobs \in [Jobs -> {Idle} \cup [kind : Busy, target : Targets, list : Lists]]
    /\ drifted \in BOOLEAN

IInv == TypeOK /\ BusyMeansRunning
=============================================================================
