---------------------------- MODULE LoopScheduler ----------------------------
(***************************************************************************)
(* core/loop_scheduler.py: one background asyncio.Task visits every loop   *)
(* every few seconds, notices that a loop's task has ended, asks a judge   *)
(* whether the goal is met and starts the next task.  The routes create,   *)
(* toggle and delete loops while the visit awaits the judge, the start of  *)
(* a task or a broadcast, and the process may die at any point.            *)
(*                                                                         *)
(* Every action is the code from one await to the next: the visits that    *)
(* await nothing happen in the stretch of the one after them.  The order   *)
(* of loops in a tick is left open (the code takes the order of creation). *)
(* Times are abstracted to whether next_run_at has passed.  The tasks are  *)
(* those of state_manager.py and react_agent.py, reduced to their status   *)
(* and to whether a loop of the agent runs them.                           *)
(***************************************************************************)
EXTENDS Naturals

CONSTANTS LoopIds,      \* loop ids; an id is used once (uuid4)
          Requests,     \* modes and max_runs asked of create_loop; 0 is None
          IterateLimit, \* max_runs of an iterate loop without one (10)
          MaxStarts,    \* bound: tasks started for one loop
          MaxCrashes,   \* bound: restarts of the process
          NoLoop        \* no loop is being visited

\* mode, with "goal" for an iterate loop that has a goal text and a judge.
Modes == {"interval", "daily", "continuous", "iterate", "goal"}

ASSUME SchedulerAssumption ==
    /\ Requests \subseteq Modes \X Nat /\ IterateLimit \in Nat \ {0}
    /\ MaxStarts \in Nat \ {0} /\ MaxCrashes \in Nat
    /\ NoLoop \notin LoopIds

\* Tasks are named by their loop and the number of tasks it had started.
Tasks == LoopIds \X (1 .. MaxStarts)

VARIABLES
    lp,        \* the record of each loop; tick keeps it after a delete
    present,   \* keys of _loops
    saved,     \* the records in loops.json
    onDisk,    \* the loops in loops.json
    at,        \* where _tick is suspended, "idle" when it does not run
    now,       \* the loop it visits there
    todo,      \* loops of its list it has not visited yet
    changed,   \* its local of that name
    status,    \* _tasks[task]["status"]: "live" is any that is not final
    running,   \* tasks that an asyncio.Task of the agent executes
    touched,   \* history: tasks the user stopped, resumed or cleaned away
    started,   \* history: tasks whose asyncio.Task was created, by loop
    strays,    \* history: starts decided since the loop was put to rest
    crashes    \* bounded counter of restarts

loopVars == <<lp, present>>
fileVars == <<saved, onDisk>>
tickVars == <<at, now, todo, changed>>
taskVars == <<status, running, touched>>
vars == <<loopVars, fileVars, tickVars, taskVars, started, strays, crashes>>

LoopRecords ==
    [mode : Modes, max : Nat, status : {"none", "running", "paused", "completed"},
     runs : Nat, cur : 0 .. MaxStarts, due : BOOLEAN]

Unused == [mode |-> "continuous", max |-> 0, status |-> "none",
           runs |-> 0, cur |-> 0, due |-> FALSE]

Init ==
    /\ lp = [l \in LoopIds |-> Unused] /\ present = {}
    /\ saved = [l \in LoopIds |-> Unused] /\ onDisk = {}
    /\ at = "idle" /\ now = NoLoop /\ todo = {} /\ changed = FALSE
    /\ status = [k \in Tasks |-> "none"] /\ running = {} /\ touched = {}
    /\ started = [l \in LoopIds |-> 0]
    /\ strays = [l \in LoopIds |-> 0]
    /\ crashes = 0

\* The user (or the goal, or the limit) has put the loop to rest.
AtRest(l) == l \notin present \/ lp[l].status # "running"

-----------------------------------------------------------------------------
(* What a visit finds.                                                     *)

\* The current task has no final status; one that is gone counts as failed.
Busy(l) == lp[l].cur # 0 /\ status[<<l, lp[l].cur>>] = "live"

\* MUTANT: the check of the loop's status is missing.
PassedOverIfBusy(l) == Busy(l)

\* The visit ends at once.
PassedOver(l) == lp[l].status # "running" \/ Busy(l)

\* MUTANT: one run too many.
AtLimitLate(r) == r.max > 0 /\ r.runs > r.max

AtLimit(r) == r.max > 0 /\ r.runs >= r.max

\* _due: the modes without a schedule are due once their task has ended.
Due(r) == r.mode \notin {"interval", "daily"} \/ r.due

\* _reschedule: a later next_run_at for the modes that have one.
Rescheduled(r) == [r EXCEPT !.due = r.due /\ r.mode \notin {"interval", "daily"}]

\* The visit of l notices that its task has ended.
Notices(l) == ~PassedOver(l) /\ lp[l].cur # 0

\* A visit that awaits the judge, and one whose task's success is the goal.
AsksJudge(l) == Notices(l) /\ lp[l].mode = "goal"
Succeeded(l) == /\ Notices(l)
                /\ lp[l].mode = "iterate"
                /\ status[<<l, lp[l].cur>>] = "completed"

\* The visit awaits nothing.
Quiet(l) == \/ PassedOver(l)
            \/ ~AsksJudge(l) /\ ~Succeeded(l) /\ ~AtLimit(lp[l]) /\ ~Due(lp[l])

\* l's record once the visit has cleared current_task_id.
With(r, l, x) == [k \in LoopIds |-> IF k = l THEN x ELSE r[k]]
Cleared(r, l) == With(r, l, [r[l] EXCEPT !.cur = 0])
Completed(r, l) == With(r, l, [r[l] EXCEPT !.status = "completed"])

-----------------------------------------------------------------------------
(* Where a stretch of _tick ends.  r holds the records it leaves.          *)

\* loops.json is replaced as a whole by what _loops holds.
Persist == saved' = lp' /\ onDisk' = present'

\* Nothing is left to visit: the changes are saved and the lock released.
EndTick(r, c) ==
    /\ lp' = r
    /\ at' = "idle" /\ now' = NoLoop /\ todo' = {} /\ changed' = FALSE
    /\ UNCHANGED <<present, taskVars, started, strays, crashes>>
    /\ IF c THEN Persist ELSE UNCHANGED fileVars

\* The broadcast of an event is awaited.
Emit(l, rest, r, c) ==
    /\ lp' = r
    /\ at' = "emit" /\ now' = l /\ todo' = rest /\ changed' = c
    /\ UNCHANGED <<present, fileVars>>

\* start_task is awaited; create_task has made the task pending before.
StartTask(l, rest, r, c) ==
    /\ started[l] < MaxStarts
    /\ lp' = r
    /\ at' = "start" /\ now' = l /\ todo' = rest /\ changed' = c
    /\ status' = [status EXCEPT ![<<l, started[l] + 1>>] = "live"]
    /\ touched' = touched \ {<<l, started[l] + 1>>}
    /\ strays' = [strays EXCEPT ![l] = IF AtRest(l) THEN @ + 1 ELSE @]
    /\ UNCHANGED <<present, fileVars, running, started, crashes>>

\* Steps 3 and 4 of the visit of l: the limit, then the next task.
LimitOrStart(l, rest, r, c) ==
    \/ /\ AtLimit(r[l])
       /\ Emit(l, rest, Completed(r, l), TRUE)
       /\ UNCHANGED <<taskVars, started, strays, crashes>>
    \/ /\ ~AtLimit(r[l])
       /\ Due(r[l])
       /\ StartTask(l, rest, r, c)

\* The first await of the visit of l.
StopAt(l, rest, r, c) ==
    \/ /\ AsksJudge(l)
       /\ lp' = Cleared(r, l)
       /\ at' = "judge" /\ now' = l /\ todo' = rest /\ changed' = TRUE
       /\ UNCHANGED <<present, fileVars, taskVars, started, strays, crashes>>
    \/ /\ Succeeded(l)
       /\ Emit(l, rest, Completed(Cleared(r, l), l), TRUE)
       /\ UNCHANGED <<taskVars, started, strays, crashes>>
    \/ /\ ~AsksJudge(l) /\ ~Succeeded(l)
       /\ LimitOrStart(l, rest, Cleared(r, l), c \/ Notices(l))

\* The loops in Q are visited without an await, then all of T has been visited
\* or the visit of one more loop awaits.
Stretch(T, r, c) ==
    \E Q \in SUBSET {l \in T : Quiet(l)} :
        LET q == [l \in LoopIds |-> IF l \in Q /\ Notices(l)
                                    THEN [r[l] EXCEPT !.cur = 0] ELSE r[l]]
            d == c \/ \E l \in Q : Notices(l)
        IN  \/ T = Q /\ EndTick(q, d)
            \/ \E l \in T \ Q : ~Quiet(l) /\ StopAt(l, T \ (Q \cup {l}), q, d)

-----------------------------------------------------------------------------
(* The background task.                                                    *)

\* The list of the tick is a copy: a loop deleted meanwhile is still visited.
BeginTick == at = "idle" /\ Stretch(present, lp, FALSE)

AfterEmit == at = "emit" /\ Stretch(todo, lp, changed)

\* The judge answers, or its answer is unusable and the task's status decides.
JudgeAnswers ==
    /\ at = "judge"
    /\ \/ /\ Emit(now, todo, Completed(lp, now), TRUE)
          /\ UNCHANGED <<taskVars, started, strays, crashes>>
       \/ LimitOrStart(now, todo, lp, TRUE)

\* MUTANT: the task is started but not recorded in the loop.
RecordedOnlyCounted(r, n) == [r EXCEPT !.runs = r.runs + 1]

\* run_count and current_task_id of a run that was started.
Recorded(r, n) == [r EXCEPT !.runs = r.runs + 1, !.cur = n]

\* start_task returns: the run is counted and is the loop's current one.
TaskStarted ==
    /\ at = "start"
    /\ started' = [started EXCEPT ![now] = @ + 1]
    /\ running' = running \cup {<<now, started'[now]>>}
    /\ Emit(now, todo,
            With(lp, now, Rescheduled(Recorded(lp[now], started'[now]))), TRUE)
    /\ UNCHANGED <<status, touched, strays, crashes>>

\* start_task raises: the next run is scheduled, and the run is not counted.
TaskNotStarted ==
    /\ at = "start"
    /\ Stretch(todo, With(lp, now, Rescheduled(lp[now])), TRUE)

Tick == BeginTick \/ AfterEmit \/ JudgeAnswers \/ TaskStarted \/ TaskNotStarted

-----------------------------------------------------------------------------
(* The routes.  None of them awaits anything or takes the lock.            *)

\* create_loop: no interval means continuous (a mode of its own here), and an
\* iterate loop gets a limit; a daily loop first waits for its time.
CreateLoop(l, mode, max) ==
    /\ lp[l].status = "none"
    /\ present' = present \cup {l}
    /\ lp' = [lp EXCEPT ![l] =
                [mode |-> mode,
                 max |-> IF mode \in {"iterate", "goal"} /\ max = 0 THEN IterateLimit ELSE max,
                 status |-> "running", runs |-> 0, cur |-> 0, due |-> mode # "daily"]]
    /\ Persist
    /\ UNCHANGED <<tickVars, taskVars, started, strays, crashes>>

\* toggle: pause a running loop, resume any other, a completed one included: an
\* interval loop is due at once, a daily one at its next time.
Toggled(r) ==
    IF r.status = "running" THEN [r EXCEPT !.status = "paused"]
    ELSE [r EXCEPT !.status = "running",
                   !.due = r.mode = "interval" \/ (r.due /\ r.mode # "daily")]

Toggle(l) ==
    /\ l \in present
    /\ lp' = [lp EXCEPT ![l] = Toggled(lp[l])]
    /\ strays' = [strays EXCEPT ![l] = 0]
    /\ UNCHANGED <<present, tickVars, taskVars, started, crashes>>
    /\ Persist

DeleteLoop(l) ==
    /\ l \in present
    /\ present' = present \ {l}
    /\ UNCHANGED <<lp, tickVars, taskVars, started, strays, crashes>>
    /\ Persist

-----------------------------------------------------------------------------
(* Time, tasks and the process.                                            *)

\* next_run_at passes.
TimeComes(l) ==
    /\ l \in present /\ ~lp[l].due
    /\ lp' = [lp EXCEPT ![l] = [@ EXCEPT !.due = TRUE]]
    /\ UNCHANGED <<present, fileVars, tickVars, taskVars, started, strays, crashes>>

TasksOnly == UNCHANGED <<loopVars, fileVars, tickVars, started, strays, crashes>>

\* The task its loop waits for or starts.  What the user does to another task is
\* left out: nothing here reads its status.
Watched(k) == \/ k[2] = lp[k[1]].cur
              \/ at = "start" /\ now = k[1] /\ k[2] = started[now] + 1

\* The agent's loop sets its final status and ends.
TaskEnds(k, s) ==
    /\ k \in running /\ status[k] = "live"
    /\ status' = [status EXCEPT ![k] = s]
    /\ running' = running \ {k}
    /\ UNCHANGED touched /\ TasksOnly

\* cancel_task marks the task failed first; its loop runs on for a while.
StopTask(k) ==
    /\ Watched(k) /\ status[k] = "live"
    /\ status' = [status EXCEPT ![k] = "failed"]
    /\ touched' = touched \cup {k}
    /\ UNCHANGED running /\ TasksOnly

\* That loop may write in_progress once more before it sees the flag.
StaleStatus(k) ==
    /\ k \in running /\ status[k] = "failed"
    /\ status' = [status EXCEPT ![k] = "live"]
    /\ UNCHANGED <<running, touched>> /\ TasksOnly

\* A stopped loop, or one whose task is gone, ends without a status.
LoopExits(k) ==
    /\ k \in running /\ k \in touched
    /\ running' = running \ {k}
    /\ UNCHANGED <<status, touched>> /\ TasksOnly

\* resume_task: in_progress, whether or not a loop runs the task.
ResumeTask(k) ==
    /\ Watched(k) /\ status[k] \in {"completed", "failed"}
    /\ status' = [status EXCEPT ![k] = "live"]
    /\ touched' = touched \cup {k}
    /\ UNCHANGED running /\ TasksOnly

\* resume_from_checkpoint: in_progress, with a loop of its own.  Only a task
\* that was started has a checkpoint.
ResumeFromCheckpoint(k) ==
    /\ Watched(k) /\ status[k] # "none" /\ k[2] <= started[k[1]]
    /\ status' = [status EXCEPT ![k] = "live"]
    /\ running' = running \cup {k}
    /\ touched' = touched \cup {k}
    /\ TasksOnly

\* clean_project forgets every task; their loops run on for a while.
CleanProject ==
    /\ status' = [k \in Tasks |-> "none"]
    /\ touched' = touched \cup {k \in Tasks : status[k] # "none"}
    /\ UNCHANGED running /\ TasksOnly

\* MUTANT: current_task_id is kept over a restart.
LoadedWithRun(r) == r

\* _load: a task of the old process cannot be told dead from alive.
Loaded(r) == [r EXCEPT !.cur = 0]

\* The process dies and starts again: no asyncio.Task survives, loops.json is
\* loaded, and the task index turns in_progress into failed but leaves pending and
\* paused tasks as they were.
Restart ==
    /\ crashes < MaxCrashes
    /\ crashes' = crashes + 1
    /\ present' = onDisk
    /\ lp' = [l \in LoopIds |-> IF l \in onDisk THEN Loaded(saved[l]) ELSE lp[l]]
    /\ at' = "idle" /\ now' = NoLoop /\ todo' = {} /\ changed' = FALSE
    /\ running' = {}
    /\ \E s \in {"failed", "live"} :
           status' = [k \in Tasks |-> IF status[k] = "live" THEN s ELSE status[k]]
    /\ strays' = [l \in LoopIds |-> IF l \in onDisk /\ saved[l].status = "running"
                                    THEN 0 ELSE strays[l]]
    /\ UNCHANGED <<fileVars, touched, started>>

Routes ==
    \E l \in LoopIds :
        \/ \E q \in Requests : CreateLoop(l, q[1], q[2])
        \/ Toggle(l)
        \/ DeleteLoop(l)

TaskNext ==
    \/ \E k \in Tasks :
          \/ TaskEnds(k, "completed") \/ TaskEnds(k, "failed")
          \/ StopTask(k) \/ StaleStatus(k) \/ LoopExits(k)
          \/ ResumeTask(k) \/ ResumeFromCheckpoint(k)
    \/ CleanProject

Next ==
    \/ Tick
    \/ Routes
    \/ \E l \in LoopIds : TimeComes(l)
    \/ TaskNext
    \/ Restart

Spec == Init /\ [][Next]_vars

\* The background task sleeps five seconds and goes on whatever happened, the
\* judge's client has a timeout, and time passes.  Nothing is assumed of users
\* or of how long a task runs.
Fairness ==
    /\ WF_vars(Tick)
    /\ \A l \in LoopIds : WF_vars(TimeComes(l))

FairSpec == Spec /\ Fairness

-----------------------------------------------------------------------------
(* Properties.                                                             *)

\* Every variable has its type, and the visit that awaits something has a loop.
TypeOK ==
    /\ lp \in [LoopIds -> LoopRecords] /\ saved \in [LoopIds -> LoopRecords]
    /\ present \subseteq LoopIds /\ onDisk \subseteq LoopIds
    /\ at \in {"idle", "judge", "start", "emit"} /\ changed \in BOOLEAN
    /\ now \in LoopIds \cup {NoLoop} /\ (at = "idle") = (now = NoLoop)
    /\ todo \subseteq LoopIds \ {now}
    /\ status \in [Tasks -> {"none", "live", "completed", "failed"}]
    /\ running \subseteq Tasks /\ touched \subseteq Tasks
    /\ started \in [LoopIds -> 0 .. MaxStarts]
    /\ strays \in [LoopIds -> Nat] /\ crashes \in 0 .. MaxCrashes

\* "Each loop is serial" (loop_scheduler.py:10): two tasks of a loop are executed
\* at once only when the user stopped, resumed or cleaned away one of them,
\* whatever is toggled, awaited or lost in a crash meanwhile.
OneRunAtATime ==
    \A j, k \in running \ touched : j[1] = k[1] => j = k

\* max_runs (loop_scheduler.py:258) bounds the tasks a loop really starts: only a
\* crash, between the start of a task and the end of its tick, costs one more.
BudgetKept ==
    \A l \in LoopIds : lp[l].max > 0 => started[l] <= lp[l].max + crashes

\* A pause, a delete, a reached goal or limit is not lost although _tick checks the
\* status once and awaits afterwards: at most one more task is started.
OneStrayAtMost ==
    \A l \in LoopIds : AtRest(l) => strays[l] <= 1

\* No write of the tick, which holds records of deleted loops, and no restart
\* brings a deleted loop back.
DeletedNeverReturns ==
    [][\A l \in LoopIds : lp[l].status # "none" /\ l \notin present => l \notin present']_vars

\* A running loop whose task is over, gone or lost in a crash gets its next task
\* tried, or is completed (loop_scheduler.py:311: "one failure must not get it
\* stuck"); unless the user pauses or deletes it, or has made the task in_progress
\* again, with or without a loop that could end it.
LoopMovesOn ==
    \A l \in LoopIds :
        LET cur == <<l, lp[l].cur>> IN
        /\ ~AtRest(l)
        /\ lp[l].cur = 0 \/ cur \notin running \/ status[cur] # "live"
        ~> \/ AtRest(l)
           \/ at = "start" /\ now = l
           \/ lp[l].cur # 0 /\ cur \in touched /\ status[cur] = "live"
=============================================================================
