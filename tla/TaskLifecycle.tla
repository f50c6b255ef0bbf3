---------------------------- MODULE TaskLifecycle ----------------------------
(***************************************************************************)
(* The life of a kedo task: core/state_manager.py (status, pause event,    *)
(* cancel flag, task handle, checkpoint) driven by core/react_agent.py     *)
(* (the asyncio.Task that runs the ReAct loop) and by the control routes   *)
(* of api/routes.py.                                                       *)
(*                                                                         *)
(* The server is one asyncio event loop, so code between two awaits is     *)
(* atomic.  Every action below is one such stretch; another coroutine may  *)
(* run wherever an action ends.  What a reply or a tool contains is        *)
(* abstracted to what it makes the loop do next; the counters that decide  *)
(* when a failing loop gives up are not kept: it may give up at any        *)
(* failure.                                                                *)
(***************************************************************************)
EXTENDS Naturals

CONSTANTS Tasks,            \* task ids
          MaxRuns,          \* bound: asyncio.Tasks ever created for one task
          MaxTurns,         \* react_agent.max_turns (50)
          MaxCalls,         \* react_agent.max_tool_calls_per_turn (10)
          CheckpointEvery,  \* a checkpoint is saved every that many turns (5)
          NoLoop            \* no entry in _task_handles

\* One asyncio.Task running _run_safe or _resume_run_safe: its task and number.
Loops == Tasks \X (1 .. MaxRuns)
Task(l) == l[1]

ASSUME LifecycleAssumption ==
    /\ MaxRuns \in Nat \ {0} /\ MaxTurns \in Nat \ {0}
    /\ MaxCalls \in Nat \ {0} /\ CheckpointEvery \in Nat \ {0}
    /\ NoLoop \notin Loops

VARIABLES
    status,          \* _tasks[t]["status"], or "none" when t is not in _tasks
    pauseEvent,      \* _pause_events[t]: "set" lets loops run, "clear" blocks
    cancelFlags,     \* _cancel_flags
    taskHandles,     \* _task_handles
    checkpoints,     \* tasks with a checkpoint that holds messages
    proseRetryDone,  \* ReactAgent._prose_retry_done, one flag for all tasks
    launching,       \* start_task calls awaiting inside create_task
    resuming,        \* resume_from_checkpoint calls awaiting update_status
    stopping,        \* cancel_task calls that have not looked at the handle yet
    grace,           \* loops a cancel_task call is giving 5 s to exit
    pc,              \* where each loop is suspended
    turn,            \* the loop's turn counter
    calls,           \* tool calls of the current reply still to be handled
    result           \* what _loop returned

stateVars == <<status, pauseEvent, cancelFlags, taskHandles, checkpoints>>
callVars  == <<launching, resuming, stopping, grace>>
loopVars  == <<pc, turn, calls, result>>
vars == <<stateVars, proseRetryDone, callVars, loopVars>>

Statuses == {"none", "pending", "in_progress", "paused", "completed", "failed"}
PCs == {"unused", "start", "restart", "prep", "blocked", "woken", "llm",
        "batch", "tool", "escalate", "finish", "ended", "reaped"}
Results == {"ok", "failed", "cancelled"}

Live(l) == pc[l] \notin {"unused", "ended", "reaped"}

\* The next asyncio.Task object of its task.
Fresh(l) == /\ pc[l] = "unused"
            /\ \A n \in 1 .. (l[2] - 1) : pc[<<l[1], n>>] # "unused"

Init ==
    /\ status = [t \in Tasks |-> "none"]
    /\ pauseEvent = [t \in Tasks |-> "absent"]
    /\ cancelFlags = {}
    /\ taskHandles = [t \in Tasks |-> NoLoop]
    /\ checkpoints = {}
    /\ proseRetryDone = FALSE
    /\ launching = {} /\ resuming = {} /\ stopping = {} /\ grace = {}
    /\ pc = [l \in Loops |-> "unused"]
    /\ turn = [l \in Loops |-> 0]
    /\ calls = [l \in Loops |-> 0]
    /\ result = [l \in Loops |-> "ok"]

-----------------------------------------------------------------------------
(* StateManager operations the actions are built from.                     *)

\* update_status: a task that is not in _tasks raises instead.
UpdateStatus(t, s) == status' = [status EXCEPT ![t] = s]

\* Event.set() resumes every waiter, whatever happens to the event meanwhile.
Woken(t) == [l \in Loops |-> IF pc[l] = "blocked" /\ Task(l) = t
                             THEN "woken" ELSE pc[l]]

\* pause_task: nothing without a pause event, an exception without a task.
Pause(t) ==
    /\ pauseEvent' = [pauseEvent EXCEPT ![t] = IF @ = "absent" THEN @ ELSE "clear"]
    /\ status' = [status EXCEPT ![t] =
                     IF @ = "none" \/ pauseEvent[t] = "absent" THEN @ ELSE "paused"]

-----------------------------------------------------------------------------
(* The loop, one action per stretch between awaits.                        *)

\* The coroutine is over: the done callback has not run yet.
End(l) ==
    /\ pc' = [pc EXCEPT ![l] = "ended"]
    /\ grace' = grace \ {l}
    /\ turn' = [turn EXCEPT ![l] = 0]
    /\ calls' = [calls EXCEPT ![l] = 0]
    /\ UNCHANGED <<launching, resuming, stopping, result>>

\* _loop returns r; the events it emits are awaited before run() looks at it.
Return(l, r) ==
    /\ pc' = [pc EXCEPT ![l] = "finish"]
    /\ result' = [result EXCEPT ![l] = r]
    /\ calls' = [calls EXCEPT ![l] = 0]
    /\ UNCHANGED <<turn, callVars>>

\* Past wait_if_paused in turn n: cancelled, or on to the LLM call.
PassGate(l, n) ==
    \/ /\ Task(l) \in cancelFlags
       /\ Return(l, "cancelled")
       /\ UNCHANGED status
    \/ /\ Task(l) \notin cancelFlags
       /\ status[Task(l)] = "none"      \* update_status raises, twice
       /\ End(l)
       /\ UNCHANGED status
    \/ /\ Task(l) \notin cancelFlags
       /\ status[Task(l)] # "none"
       /\ UpdateStatus(Task(l), "in_progress")
       /\ pc' = [pc EXCEPT ![l] = "llm"]
       /\ turn' = [turn EXCEPT ![l] = n]
       /\ calls' = [calls EXCEPT ![l] = 0]
       /\ UNCHANGED <<callVars, result>>

\* The top of the for loop with turn n.
TopOfTurn(l, n) ==
    \/ /\ n >= MaxTurns
       /\ Return(l, "failed")
       /\ UNCHANGED status
    \/ /\ n < MaxTurns
       /\ pauseEvent[Task(l)] = "clear"
       /\ pc' = [pc EXCEPT ![l] = "blocked"]
       /\ turn' = [turn EXCEPT ![l] = n]
       /\ calls' = [calls EXCEPT ![l] = 0]
       /\ UNCHANGED <<status, callVars, result>>
    \/ /\ n < MaxTurns
       /\ pauseEvent[Task(l)] # "clear"
       /\ PassGate(l, n)

\* run(), up to the awaits that gather the project context.
StartRun(l) ==
    /\ pc[l] = "start"
    /\ proseRetryDone' = FALSE
    /\ \/ /\ status[Task(l)] = "none"
          /\ End(l)
          /\ UNCHANGED status
       \/ /\ status[Task(l)] # "none"
          /\ UpdateStatus(Task(l), "in_progress")
          /\ pc' = [pc EXCEPT ![l] = "prep"]
          /\ UNCHANGED <<turn, calls, result, callVars>>
    /\ UNCHANGED <<pauseEvent, cancelFlags, taskHandles, checkpoints>>

\* The context is there, or a resumed coroutine is scheduled: turn 0.
EnterLoop(l) ==
    /\ pc[l] \in {"prep", "restart"}
    /\ TopOfTurn(l, 0)
    /\ UNCHANGED <<pauseEvent, cancelFlags, taskHandles, checkpoints, proseRetryDone>>

\* A waiter of the pause event runs again; wait() does not look at it twice.
WakeUp(l) ==
    /\ pc[l] = "woken"
    /\ PassGate(l, turn[l])
    /\ UNCHANGED <<pauseEvent, cancelFlags, taskHandles, checkpoints, proseRetryDone>>

\* A malformed or empty reply: ask again, or give up after too many.
ReplyUnusable(l) ==
    /\ pc[l] = "llm"
    /\ \/ TopOfTurn(l, turn[l] + 1)
       \/ Return(l, "failed") /\ UNCHANGED status
    /\ UNCHANGED <<pauseEvent, cancelFlags, taskHandles, checkpoints, proseRetryDone>>

\* Prose without a tool call: the first is sent back, the next is the answer
\* (a failed one when the text is the LLM client's own error).
ReplyProse(l) ==
    /\ pc[l] = "llm"
    /\ \/ /\ ~proseRetryDone
          /\ proseRetryDone' = TRUE
          /\ TopOfTurn(l, turn[l] + 1)
       \/ /\ proseRetryDone
          /\ proseRetryDone' = FALSE
          /\ \E r \in {"ok", "failed"} : Return(l, r)
          /\ UNCHANGED status
    /\ UNCHANGED <<pauseEvent, cancelFlags, taskHandles, checkpoints>>

\* A reply with n tool calls, already cut to the maximum.
ReplyCalls(l) ==
    /\ pc[l] = "llm"
    /\ pc' = [pc EXCEPT ![l] = "batch"]
    /\ \E n \in 1 .. MaxCalls : calls' = [calls EXCEPT ![l] = n]
    /\ UNCHANGED <<stateVars, proseRetryDone, callVars, turn, result>>

\* An exception leaves the loop: _run_safe marks the task failed.
LoopRaises(l) ==
    /\ pc[l] \in {"prep", "llm"}
    /\ End(l)
    /\ status' = [status EXCEPT ![Task(l)] = IF @ = "none" THEN @ ELSE "failed"]
    /\ UNCHANGED <<pauseEvent, cancelFlags, taskHandles, checkpoints, proseRetryDone>>

\* The next call is respond: the loop returns its message.
Respond(l) ==
    /\ pc[l] = "batch" /\ calls[l] > 0
    /\ Return(l, "ok")
    /\ UNCHANGED <<stateVars, proseRetryDone>>

\* The next call is a respond the reject guard refuses (module ReviewGate);
\* the refusal counts as an error and may be one too many.
RespondBlocked(l) ==
    /\ pc[l] = "batch" /\ calls[l] > 0
    /\ \/ calls' = [calls EXCEPT ![l] = @ - 1] /\ UNCHANGED <<callVars, pc, turn, result>>
       \/ Return(l, "failed")
    /\ UNCHANGED <<stateVars, proseRetryDone>>

\* _execute_tool: in_progress whatever the status was, then the tool runs.
BeginTool(l) ==
    /\ pc[l] = "batch" /\ calls[l] > 0
    /\ \/ /\ status[Task(l)] = "none"
          /\ End(l)
          /\ UNCHANGED status
       \/ /\ status[Task(l)] # "none"
          /\ UpdateStatus(Task(l), "in_progress")
          /\ pc' = [pc EXCEPT ![l] = "tool"]
          /\ calls' = [calls EXCEPT ![l] = @ - 1]
          /\ UNCHANGED <<turn, result, callVars>>
    /\ UNCHANGED <<pauseEvent, cancelFlags, taskHandles, checkpoints, proseRetryDone>>

\* The tool returns, well or badly; a failure may be one too many.
ToolReturns(l) ==
    /\ pc[l] = "tool"
    /\ \/ pc' = [pc EXCEPT ![l] = "batch"] /\ UNCHANGED <<turn, calls, result, callVars>>
       \/ Return(l, "failed")
    /\ UNCHANGED <<stateVars, proseRetryDone>>

\* The tool is pause_for_human, which calls pause_task before it returns.
ToolPauses(l) ==
    /\ pc[l] = "tool"
    /\ pc' = [pc EXCEPT ![l] = "batch"]
    /\ Pause(Task(l))
    /\ UNCHANGED <<cancelFlags, taskHandles, checkpoints, proseRetryDone,
                   turn, calls, result, callVars>>

\* MUTANT: a turn with tool calls does not count.
TurnDoneUncounted(l) ==
    /\ pc[l] = "batch" /\ calls[l] = 0
    /\ checkpoints' = IF turn[l] > 0 /\ turn[l] % CheckpointEvery = 0
                      THEN checkpoints \cup {Task(l)} ELSE checkpoints
    /\ TopOfTurn(l, turn[l])
    /\ UNCHANGED <<pauseEvent, cancelFlags, taskHandles, proseRetryDone>>

\* Every call is handled: save the checkpoint when it is due, next turn.
TurnDone(l) ==
    /\ pc[l] = "batch" /\ calls[l] = 0
    /\ checkpoints' = IF turn[l] > 0 /\ turn[l] % CheckpointEvery = 0
                      THEN checkpoints \cup {Task(l)} ELSE checkpoints
    /\ TopOfTurn(l, turn[l] + 1)
    /\ UNCHANGED <<pauseEvent, cancelFlags, taskHandles, proseRetryDone>>

\* The check after the calls finds convergence.  The check made after each
\* failing call would have found it first, so this happens only when another
\* loop added to the failure list they share.
ConvergenceFound(l) ==
    /\ pc[l] = "batch" /\ calls[l] = 0
    /\ \E k \in Loops \ {l} : pc[k] # "unused"
    /\ pc' = [pc EXCEPT ![l] = "escalate"]
    /\ UNCHANGED <<stateVars, proseRetryDone, callVars, turn, calls, result>>

\* ... the escalation event is out: pause_task, then stop as a failure.
ConvergencePause(l) ==
    /\ pc[l] = "escalate"
    /\ Pause(Task(l))
    /\ IF status[Task(l)] = "none" THEN End(l) ELSE Return(l, "failed")
    /\ UNCHANGED <<cancelFlags, taskHandles, checkpoints, proseRetryDone>>

\* MUTANT: only the result of _loop decides, not the cancel flag.
FinishIgnoringFlag(l) ==
    /\ pc[l] = "finish"
    /\ End(l)
    /\ IF result[l] = "cancelled" \/ status[Task(l)] = "none"
       THEN UNCHANGED status
       ELSE UpdateStatus(Task(l), IF result[l] = "ok" THEN "completed" ELSE "failed")
    /\ UNCHANGED <<pauseEvent, cancelFlags, taskHandles, checkpoints, proseRetryDone>>

\* run() or _resume_run_safe() maps the result of _loop to a status.
Finish(l) ==
    /\ pc[l] = "finish"
    /\ End(l)
    /\ IF Task(l) \in cancelFlags \/ result[l] = "cancelled" \/ status[Task(l)] = "none"
       THEN UNCHANGED status
       ELSE UpdateStatus(Task(l), IF result[l] = "ok" THEN "completed" ELSE "failed")
    /\ UNCHANGED <<pauseEvent, cancelFlags, taskHandles, checkpoints, proseRetryDone>>

\* The done callback of register_task_handle: it pops whatever is registered.
Reap(l) ==
    /\ pc[l] = "ended"
    /\ pc' = [pc EXCEPT ![l] = "reaped"]
    /\ taskHandles' = [taskHandles EXCEPT ![Task(l)] = NoLoop]
    /\ UNCHANGED <<status, pauseEvent, cancelFlags, checkpoints, proseRetryDone,
                   callVars, turn, calls, result>>

LoopNext(l) ==
    \/ StartRun(l) \/ EnterLoop(l) \/ WakeUp(l)
    \/ ReplyUnusable(l) \/ ReplyProse(l) \/ ReplyCalls(l) \/ LoopRaises(l)
    \/ Respond(l) \/ RespondBlocked(l) \/ BeginTool(l)
    \/ ToolReturns(l) \/ ToolPauses(l)
    \/ TurnDone(l) \/ ConvergenceFound(l) \/ ConvergencePause(l)
    \/ Finish(l) \/ Reap(l)

-----------------------------------------------------------------------------
(* The routes and the operations behind them.                              *)

\* POST /tasks, first half: create_task up to its first await.
CreateTask(t) ==
    /\ status[t] = "none" /\ pauseEvent[t] = "absent"
    /\ UpdateStatus(t, "pending")
    /\ pauseEvent' = [pauseEvent EXCEPT ![t] = "set"]
    /\ launching' = launching \cup {t}
    /\ UNCHANGED <<cancelFlags, taskHandles, checkpoints, proseRetryDone,
                   resuming, stopping, grace, loopVars>>

\* ... second half: create the asyncio.Task and register its handle.
LaunchTask(l) ==
    /\ Task(l) \in launching /\ Fresh(l)
    /\ launching' = launching \ {Task(l)}
    /\ pc' = [pc EXCEPT ![l] = "start"]
    /\ taskHandles' = [taskHandles EXCEPT ![Task(l)] = l]
    /\ UNCHANGED <<status, pauseEvent, cancelFlags, checkpoints, proseRetryDone,
                   resuming, stopping, grace, turn, calls, result>>

\* pause_task, from the route, the websocket or the REPL.
PauseTask(t) ==
    /\ Pause(t)
    /\ UNCHANGED <<cancelFlags, taskHandles, checkpoints, proseRetryDone, callVars, loopVars>>

\* MUTANT: resume_task leaves the status to the loop.
ResumeTaskSilently(t) ==
    /\ pauseEvent[t] # "absent"
    /\ pauseEvent' = [pauseEvent EXCEPT ![t] = "set"]
    /\ pc' = Woken(t)
    /\ UNCHANGED <<status, cancelFlags, taskHandles, checkpoints, proseRetryDone, callVars,
                   turn, calls, result>>

\* resume_task: it does not ask whether a loop is there to be resumed.
ResumeTask(t) ==
    /\ pauseEvent[t] # "absent"
    /\ pauseEvent' = [pauseEvent EXCEPT ![t] = "set"]
    /\ pc' = Woken(t)
    /\ status' = [status EXCEPT ![t] = IF @ = "none" THEN @ ELSE "in_progress"]
    /\ UNCHANGED <<cancelFlags, taskHandles, checkpoints, proseRetryDone, callVars,
                   turn, calls, result>>

\* MUTANT: cancel_task replaces the event instead of setting it.
CancelTaskNewEvent(t) ==
    /\ status[t] \notin {"none", "completed", "failed"}
    /\ cancelFlags' = cancelFlags \cup {t}
    /\ pauseEvent' = [pauseEvent EXCEPT ![t] = IF @ = "absent" THEN @ ELSE "set"]
    /\ UpdateStatus(t, "failed")
    /\ stopping' = stopping \cup {t}
    /\ UNCHANGED <<taskHandles, checkpoints, proseRetryDone, launching, resuming, grace,
                   loopVars>>

\* cancel_task up to its first await.
CancelTask(t) ==
    /\ status[t] \notin {"none", "completed", "failed"}
    /\ cancelFlags' = cancelFlags \cup {t}
    /\ pauseEvent' = [pauseEvent EXCEPT ![t] = IF @ = "absent" THEN @ ELSE "set"]
    /\ pc' = Woken(t)
    /\ UpdateStatus(t, "failed")
    /\ stopping' = stopping \cup {t}
    /\ UNCHANGED <<taskHandles, checkpoints, proseRetryDone, launching, resuming, grace,
                   turn, calls, result>>

\* ... the handle, if there is one and it is not done, gets 5 s.
CancelWaits(t) ==
    /\ t \in stopping
    /\ stopping' = stopping \ {t}
    /\ grace' = IF taskHandles[t] # NoLoop /\ Live(taskHandles[t])
                THEN grace \cup {taskHandles[t]} ELSE grace
    /\ UNCHANGED <<stateVars, proseRetryDone, launching, resuming, loopVars>>

\* MUTANT: the cancellation does not reach a loop that waits for its event.
ForceCancelUnlessBlocked(l) ==
    /\ l \in grace /\ pc[l] # "blocked"
    /\ End(l)
    /\ UNCHANGED <<stateVars, proseRetryDone>>

\* ... they are over: handle.cancel() ends the loop at its await.
ForceCancel(l) ==
    /\ l \in grace
    /\ End(l)
    /\ UNCHANGED <<stateVars, proseRetryDone>>

\* MUTANT: a new event for the resumed loop, old waiters keep the old one.
ResumeFromCheckpointNewEvent(t) ==
    /\ t \in checkpoints /\ status[t] # "none"
    /\ pauseEvent' = [pauseEvent EXCEPT ![t] = "set"]
    /\ UpdateStatus(t, "in_progress")
    /\ resuming' = resuming \cup {t}
    /\ UNCHANGED <<cancelFlags, taskHandles, checkpoints, proseRetryDone,
                   launching, stopping, grace, loopVars>>

\* POST /tasks/{id}/resume-checkpoint up to the await in update_status.
ResumeFromCheckpoint(t) ==
    /\ t \in checkpoints
    /\ pauseEvent' = [pauseEvent EXCEPT ![t] = "set"]
    /\ pc' = Woken(t)
    /\ \/ /\ status[t] = "none"
          /\ UNCHANGED <<status, resuming>>
       \/ /\ status[t] # "none"
          /\ UpdateStatus(t, "in_progress")
          /\ resuming' = resuming \cup {t}
    /\ UNCHANGED <<cancelFlags, taskHandles, checkpoints, proseRetryDone,
                   launching, stopping, grace, turn, calls, result>>

\* ... reset the agent's state, drop the cancel flag, start another loop.
LaunchResumed(l) ==
    /\ Task(l) \in resuming /\ Fresh(l)
    /\ resuming' = resuming \ {Task(l)}
    /\ proseRetryDone' = FALSE
    /\ cancelFlags' = cancelFlags \ {Task(l)}
    /\ pc' = [pc EXCEPT ![l] = "restart"]
    /\ taskHandles' = [taskHandles EXCEPT ![Task(l)] = l]
    /\ UNCHANGED <<status, pauseEvent, checkpoints, launching, stopping, grace,
                   turn, calls, result>>

\* POST /project/clean: tasks and checkpoints go, events and loops stay.
CleanProject ==
    /\ \E t \in Tasks : status[t] # "none"
    /\ status' = [t \in Tasks |-> "none"]
    /\ checkpoints' = {}
    /\ UNCHANGED <<pauseEvent, cancelFlags, taskHandles, proseRetryDone, callVars, loopVars>>

\* The server process dies and a new one reads the task index.
Restart ==
    /\ status' = [t \in Tasks |-> IF status[t] = "in_progress" THEN "failed" ELSE status[t]]
    /\ pauseEvent' = [t \in Tasks |-> "absent"]
    /\ cancelFlags' = {}
    /\ taskHandles' = [t \in Tasks |-> NoLoop]
    /\ proseRetryDone' = FALSE
    /\ launching' = {} /\ resuming' = {} /\ stopping' = {} /\ grace' = {}
    /\ pc' = [l \in Loops |-> IF pc[l] = "unused" THEN pc[l] ELSE "reaped"]
    /\ turn' = [l \in Loops |-> 0]
    /\ calls' = [l \in Loops |-> 0]
    /\ UNCHANGED <<checkpoints, result>>

Next ==
    \/ \E l \in Loops : LoopNext(l) \/ LaunchTask(l) \/ LaunchResumed(l) \/ ForceCancel(l)
    \/ \E t \in Tasks : \/ CreateTask(t) \/ PauseTask(t) \/ ResumeTask(t)
                        \/ CancelTask(t) \/ CancelWaits(t) \/ ResumeFromCheckpoint(t)
    \/ CleanProject
    \/ Restart

Spec == Init /\ [][Next]_vars

\* The event loop runs every coroutine that is ready, every await of a loop is
\* bounded by a timeout (LLM client, tools, user questions), and the 5 s pass.
Fairness ==
    /\ \A l \in Loops : /\ WF_vars(LoopNext(l)) /\ WF_vars(ForceCancel(l))
                        /\ WF_vars(LaunchTask(l)) /\ WF_vars(LaunchResumed(l))
    /\ \A t \in Tasks : WF_vars(CancelWaits(t))

FairSpec == Spec /\ Fairness

-----------------------------------------------------------------------------
(* Properties.                                                             *)

\* Every variable has its type.
TypeOK ==
    /\ status \in [Tasks -> Statuses]
    /\ pauseEvent \in [Tasks -> {"absent", "set", "clear"}]
    /\ cancelFlags \in SUBSET Tasks
    /\ taskHandles \in [Tasks -> Loops \cup {NoLoop}]
    /\ checkpoints \in SUBSET Tasks
    /\ proseRetryDone \in BOOLEAN
    /\ launching \in SUBSET Tasks /\ resuming \in SUBSET Tasks /\ stopping \in SUBSET Tasks
    /\ grace \in SUBSET Loops
    /\ pc \in [Loops -> PCs]
    /\ turn \in [Loops -> 0 .. (MaxTurns - 1)]
    /\ calls \in [Loops -> 0 .. MaxCalls]
    /\ result \in [Loops -> Results]

\* No lost wake-up: a loop suspended in wait_if_paused is suspended on an event
\* that is clear, so the next resume, stop or resume-checkpoint frees it
\* (state_manager.py 175-200, 216-237, react_agent.py 205-208).
BlockedMeansHeld ==
    \A l \in Loops : pc[l] = "blocked" => pauseEvent[Task(l)] = "clear"

\* A task shown as paused is really held: no loop of it gets past the gate
\* while the status says paused (pause_task sets both, and whoever sets the
\* event again also moves the status).
PausedMeansHeld ==
    \A t \in Tasks : status[t] = "paused" => pauseEvent[t] # "set"

\* A task that was stopped is never reported as completed, however late its
\* loops return: run() and _resume_run_safe() look at the flag last
\* (react_agent.py 242, 311).
CancelledNeverCompletes ==
    \A t \in cancelFlags : status[t] # "completed"

\* Every loop that is running can be paused, across restarts and project
\* cleaning: its task still has a pause event.
LiveLoopHasEvent ==
    \A l \in Loops : Live(l) => pauseEvent[Task(l)] # "absent"

\* A stop request takes effect: unless the user resumes or pauses the task
\* again, every loop of the task ends, also one launched after the request
\* and one whose handle cancel_task could not find.
StopEndsEveryLoop ==
    \A t \in Tasks : t \in cancelFlags ~>
        \/ \A l \in Loops : Task(l) = t => ~Live(l)
        \/ t \notin cancelFlags
        \/ pauseEvent[t] = "clear"

\* A loop does not run forever: it ends within max_turns or waits for a user.
LoopEndsUnlessHeld ==
    \A l \in Loops : Live(l) ~> (~Live(l) \/ pc[l] = "blocked")

=============================================================================
