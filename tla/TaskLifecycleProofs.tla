------------------------- MODULE TaskLifecycleProofs -------------------------
(* Proofs about TaskLifecycle for every number of tasks, loops, turns and  *)
(* calls.                                                                  *)
EXTENDS TaskLifecycleRefinement, TLAPS

\* A launch that is under way has its pause event already.
LaunchHasEvent ==
    \A t \in launching \cup resuming : pauseEvent[t] # "absent"

\* cancel_task gives its 5 s only to loops that are still running.
GraceMeansLive ==
    \A l \in grace : Live(l)

Safe == /\ BlockedMeansHeld /\ PausedMeansHeld /\ CancelledNeverCompletes
        /\ LiveLoopHasEvent /\ LaunchHasEvent /\ GraceMeansLive

IInv == TypeOK /\ Safe

LEMMA TaskOfLoop == \A l \in Loops : Task(l) \in Tasks
  BY DEF Loops, Task

LEMMA InitIInv == Init => IInv
<1> SUFFICES ASSUME Init PROVE IInv
  OBVIOUS
<1> USE DEF Init
<1>1. TypeOK
  <2>1. /\ status \in [Tasks -> Statuses] /\ pc \in [Loops -> PCs] /\ result \in [Loops -> Results]
    BY DEF Statuses, PCs, Results
  <2>2. /\ turn \in [Loops -> 0 .. (MaxTurns - 1)] /\ calls \in [Loops -> 0 .. MaxCalls]
    BY LifecycleAssumption DEF LifecycleAssumption
  <2>3. taskHandles \in [Tasks -> Loops \cup {NoLoop}]
    OBVIOUS
  <2> QED BY <2>1, <2>2, <2>3 DEF TypeOK
<1>2. Safe
  BY TaskOfLoop DEF Safe, Live, BlockedMeansHeld, PausedMeansHeld, CancelledNeverCompletes,
                    LiveLoopHasEvent, LaunchHasEvent, GraceMeansLive
<1> QED BY <1>1, <1>2 DEF IInv

-----------------------------------------------------------------------------
(* The top of a turn, shared by the actions that reach it.                 *)

LEMMA Counters ==
  ASSUME TypeOK, NEW l \in Loops
  PROVE  turn[l] + 1 \in Nat /\ (calls[l] > 0 => calls[l] - 1 \in 0 .. MaxCalls)
<1>1. turn[l] \in 0 .. (MaxTurns - 1) /\ calls[l] \in 0 .. MaxCalls
  BY DEF TypeOK
<1> QED BY <1>1, LifecycleAssumption DEF LifecycleAssumption

LEMMA PassGateType ==
  ASSUME TypeOK, NEW l \in Loops, NEW n \in 0 .. (MaxTurns - 1), PassGate(l, n),
         UNCHANGED <<pauseEvent, cancelFlags, taskHandles>>,
         checkpoints' \in SUBSET Tasks, proseRetryDone' \in BOOLEAN
  PROVE  TypeOK'
<1> Task(l) \in Tasks /\ 0 \in 0 .. (MaxTurns - 1) /\ 0 \in 0 .. MaxCalls
  BY TaskOfLoop, LifecycleAssumption DEF LifecycleAssumption
<1>1. CASE Return(l, "cancelled") /\ UNCHANGED status
  BY <1>1 DEF Return, callVars, TypeOK, PCs, Results
<1>2. CASE End(l) /\ UNCHANGED status
  BY <1>2 DEF End, TypeOK, PCs
<1>3. CASE /\ UpdateStatus(Task(l), "in_progress")
           /\ pc' = [pc EXCEPT ![l] = "llm"]
           /\ turn' = [turn EXCEPT ![l] = n]
           /\ calls' = [calls EXCEPT ![l] = 0]
           /\ UNCHANGED <<callVars, result>>
  BY <1>3 DEF UpdateStatus, callVars, TypeOK, Statuses, PCs
<1> QED BY <1>1, <1>2, <1>3 DEF PassGate

LEMMA TopOfTurnType ==
  ASSUME TypeOK, NEW l \in Loops, NEW n \in Nat, TopOfTurn(l, n),
         UNCHANGED <<pauseEvent, cancelFlags, taskHandles>>,
         checkpoints' \in SUBSET Tasks, proseRetryDone' \in BOOLEAN
  PROVE  TypeOK'
<1> 0 \in 0 .. MaxCalls /\ (n < MaxTurns => n \in 0 .. (MaxTurns - 1))
  BY LifecycleAssumption DEF LifecycleAssumption
<1>1. CASE Return(l, "failed") /\ UNCHANGED status
  BY <1>1 DEF Return, callVars, TypeOK, PCs, Results
<1>2. CASE /\ n < MaxTurns
           /\ pc' = [pc EXCEPT ![l] = "blocked"]
           /\ turn' = [turn EXCEPT ![l] = n]
           /\ calls' = [calls EXCEPT ![l] = 0]
           /\ UNCHANGED <<status, callVars, result>>
  BY <1>2 DEF callVars, TypeOK, PCs
<1>3. CASE n < MaxTurns /\ PassGate(l, n)
  BY <1>3, PassGateType
<1> QED BY <1>1, <1>2, <1>3 DEF TopOfTurn

LEMMA PassGateSafe ==
  ASSUME IInv, NEW l \in Loops, Live(l), NEW n, PassGate(l, n),
         UNCHANGED <<pauseEvent, cancelFlags>>
  PROVE  Safe'
  BY TaskOfLoop
  DEF PassGate, Return, End, UpdateStatus, callVars, Live, IInv, TypeOK,
      Safe, BlockedMeansHeld, PausedMeansHeld, CancelledNeverCompletes,
      LiveLoopHasEvent, LaunchHasEvent, GraceMeansLive

LEMMA TopOfTurnSafe ==
  ASSUME IInv, NEW l \in Loops, Live(l), NEW n, TopOfTurn(l, n),
         UNCHANGED <<pauseEvent, cancelFlags>>
  PROVE  Safe'
<1>1. CASE PassGate(l, n)
  BY <1>1, PassGateSafe
<1>2. CASE ~PassGate(l, n)
  BY <1>2, TaskOfLoop
  DEF TopOfTurn, Return, callVars, Live, IInv, TypeOK,
      Safe, BlockedMeansHeld, PausedMeansHeld, CancelledNeverCompletes,
      LiveLoopHasEvent, LaunchHasEvent, GraceMeansLive
<1> QED BY <1>1, <1>2

-----------------------------------------------------------------------------
(* The steps of a loop.                                                    *)

LEMMA LoopStepType ==
  ASSUME TypeOK, NEW l \in Loops, LoopNext(l)
  PROVE  TypeOK'
<1> Task(l) \in Tasks /\ 0 \in 0 .. (MaxTurns - 1) /\ 0 \in 0 .. MaxCalls /\ 0 \in Nat
  BY TaskOfLoop, LifecycleAssumption DEF LifecycleAssumption
<1> USE DEF stateVars, callVars, loopVars
<1>1. CASE StartRun(l)
  <2>1. UNCHANGED <<pauseEvent, cancelFlags, taskHandles, checkpoints>> /\ proseRetryDone' = FALSE
    BY <1>1 DEF StartRun
  <2>2. CASE End(l) /\ UNCHANGED status
    BY <2>1, <2>2 DEF End, TypeOK, PCs
  <2>3. CASE /\ UpdateStatus(Task(l), "in_progress")
             /\ pc' = [pc EXCEPT ![l] = "prep"]
             /\ UNCHANGED <<turn, calls, result, callVars>>
    BY <2>1, <2>3 DEF UpdateStatus, TypeOK, Statuses, PCs
  <2> QED BY <1>1, <2>2, <2>3 DEF StartRun
<1>2. CASE EnterLoop(l)
  BY <1>2, TopOfTurnType DEF EnterLoop, TypeOK
<1>3. CASE WakeUp(l)
  BY <1>3, PassGateType DEF WakeUp, TypeOK
<1>4. CASE ReplyUnusable(l)
  <2>1. UNCHANGED <<pauseEvent, cancelFlags, taskHandles, checkpoints>> /\ proseRetryDone' \in BOOLEAN
    BY <1>4 DEF ReplyUnusable, TypeOK
  <2>2. CASE TopOfTurn(l, turn[l] + 1)
    BY <2>1, <2>2, TopOfTurnType, Counters DEF TypeOK
  <2>3. CASE \E r \in Results : Return(l, r) /\ UNCHANGED status
    BY <2>1, <2>3 DEF Return, TypeOK, PCs, Results
  <2> QED BY <1>4, <2>2, <2>3 DEF ReplyUnusable, Results
<1>5. CASE ReplyProse(l)
  <2>1. UNCHANGED <<pauseEvent, cancelFlags, taskHandles, checkpoints>> /\ proseRetryDone' \in BOOLEAN
    BY <1>5 DEF ReplyProse, TypeOK
  <2>2. CASE TopOfTurn(l, turn[l] + 1)
    BY <2>1, <2>2, TopOfTurnType, Counters DEF TypeOK
  <2>3. CASE \E r \in Results : Return(l, r) /\ UNCHANGED status
    BY <2>1, <2>3 DEF Return, TypeOK, PCs, Results
  <2> QED BY <1>5, <2>2, <2>3 DEF ReplyProse, Results
<1>6. CASE ReplyCalls(l)
  BY <1>6 DEF ReplyCalls, TypeOK, PCs
<1>7. CASE LoopRaises(l)
  BY <1>7 DEF LoopRaises, End, TypeOK, Statuses, PCs, Results
<1>8. CASE Respond(l)
  BY <1>8 DEF Respond, Return, TypeOK, Statuses, PCs, Results
<1>9. CASE RespondBlocked(l)
  BY <1>9, Counters DEF RespondBlocked, Return, TypeOK, Statuses, PCs, Results
<1>10. CASE BeginTool(l)
  BY <1>10, Counters DEF BeginTool, End, UpdateStatus, TypeOK, Statuses, PCs, Results
<1>11. CASE ToolReturns(l)
  BY <1>11 DEF ToolReturns, Return, TypeOK, Statuses, PCs, Results
<1>12. CASE ToolPauses(l)
  BY <1>12 DEF ToolPauses, Pause, TypeOK, Statuses, PCs, Results
<1>13. CASE TurnDone(l)
  BY <1>13, TopOfTurnType, TaskOfLoop DEF TurnDone, TypeOK
<1>14. CASE ConvergenceFound(l)
  BY <1>14 DEF ConvergenceFound, TypeOK, Statuses, PCs, Results
<1>15. CASE ConvergencePause(l)
  BY <1>15 DEF ConvergencePause, Pause, End, Return, TypeOK, Statuses, PCs, Results
<1>16. CASE Finish(l)
  BY <1>16 DEF Finish, End, UpdateStatus, TypeOK, Statuses, PCs, Results
<1>17. CASE Reap(l)
  BY <1>17 DEF Reap, TypeOK, Statuses, PCs, Results
<1> QED BY <1>1, <1>2, <1>3, <1>4, <1>5, <1>6, <1>7, <1>8, <1>9, <1>10, <1>11, <1>12, <1>13, <1>14, <1>15, <1>16, <1>17 DEF LoopNext

LEMMA LoopStepSafe ==
  ASSUME IInv, NEW l \in Loops, LoopNext(l)
  PROVE  Safe'
<1> USE DEF stateVars, callVars, loopVars, Safe, BlockedMeansHeld, PausedMeansHeld,
            CancelledNeverCompletes, LiveLoopHasEvent, LaunchHasEvent, GraceMeansLive
<1>1. CASE StartRun(l)
  BY <1>1, TaskOfLoop DEF StartRun, End, UpdateStatus, IInv, TypeOK, Live
<1>2. CASE EnterLoop(l)
  BY <1>2, TopOfTurnSafe DEF EnterLoop, Live
<1>3. CASE WakeUp(l)
  BY <1>3, PassGateSafe DEF WakeUp, Live
<1>4. CASE ReplyUnusable(l)
  BY <1>4, TopOfTurnSafe, TaskOfLoop DEF ReplyUnusable, Return, IInv, TypeOK, Live
<1>5. CASE ReplyProse(l)
  BY <1>5, TopOfTurnSafe, TaskOfLoop DEF ReplyProse, Return, IInv, TypeOK, Live
<1>6. CASE ReplyCalls(l)
  BY <1>6, TaskOfLoop DEF ReplyCalls, IInv, TypeOK, Live
<1>7. CASE LoopRaises(l)
  BY <1>7, TaskOfLoop DEF LoopRaises, End, IInv, TypeOK, Live
<1>8. CASE Respond(l)
  BY <1>8, TaskOfLoop DEF Respond, Return, IInv, TypeOK, Live
<1>9. CASE RespondBlocked(l)
  BY <1>9, TaskOfLoop DEF RespondBlocked, Return, IInv, TypeOK, Live
<1>10. CASE BeginTool(l)
  BY <1>10, TaskOfLoop DEF BeginTool, End, UpdateStatus, IInv, TypeOK, Live
<1>11. CASE ToolReturns(l)
  BY <1>11, TaskOfLoop DEF ToolReturns, Return, IInv, TypeOK, Live
<1>12. CASE ToolPauses(l)
  BY <1>12, TaskOfLoop DEF ToolPauses, Pause, IInv, TypeOK, Live
<1>13. CASE TurnDone(l)
  BY <1>13, TopOfTurnSafe DEF TurnDone, Live
<1>14. CASE ConvergenceFound(l)
  BY <1>14, TaskOfLoop DEF ConvergenceFound, IInv, TypeOK, Live
<1>15. CASE ConvergencePause(l)
  BY <1>15, TaskOfLoop DEF ConvergencePause, Pause, End, Return, IInv, TypeOK, Live
<1>16. CASE Finish(l)
  BY <1>16, TaskOfLoop DEF Finish, End, UpdateStatus, IInv, TypeOK, Live
<1>17. CASE Reap(l)
  BY <1>17, TaskOfLoop DEF Reap, IInv, TypeOK, Live
<1> QED BY <1>1, <1>2, <1>3, <1>4, <1>5, <1>6, <1>7, <1>8, <1>9, <1>10, <1>11, <1>12, <1>13, <1>14, <1>15, <1>16, <1>17 DEF LoopNext

-----------------------------------------------------------------------------
(* The routes, the launches and the restart.                               *)

LEMMA LaunchStep ==
  ASSUME IInv, NEW l \in Loops, LaunchTask(l) \/ LaunchResumed(l) \/ ForceCancel(l)
  PROVE  IInv'
<1> Task(l) \in Tasks /\ 0 \in 0 .. (MaxTurns - 1) /\ 0 \in 0 .. MaxCalls
  BY TaskOfLoop, LifecycleAssumption DEF LifecycleAssumption
<1> USE DEF stateVars, callVars, loopVars, Safe, BlockedMeansHeld, PausedMeansHeld,
            CancelledNeverCompletes, LiveLoopHasEvent, LaunchHasEvent, GraceMeansLive
<1>1. CASE LaunchTask(l)
  <2>1. TypeOK'
    BY <1>1 DEF LaunchTask, Fresh, IInv, TypeOK, Statuses, PCs
  <2>2. Safe'
    BY <1>1, TaskOfLoop DEF LaunchTask, Fresh, IInv, TypeOK, Live
  <2> QED BY <2>1, <2>2 DEF IInv
<1>2. CASE LaunchResumed(l)
  <2>1. TypeOK'
    BY <1>2 DEF LaunchResumed, Fresh, IInv, TypeOK, Statuses, PCs
  <2>2. Safe'
    BY <1>2, TaskOfLoop DEF LaunchResumed, Fresh, IInv, TypeOK, Live
  <2> QED BY <2>1, <2>2 DEF IInv
<1>3. CASE ForceCancel(l)
  <2>1. TypeOK'
    BY <1>3 DEF ForceCancel, End, IInv, TypeOK, Statuses, PCs
  <2>2. Safe'
    BY <1>3, TaskOfLoop DEF ForceCancel, End, IInv, TypeOK, Live
  <2> QED BY <2>1, <2>2 DEF IInv
<1> QED BY <1>1, <1>2, <1>3

LEMMA RouteStep ==
  ASSUME IInv, NEW t \in Tasks,
         \/ CreateTask(t) \/ PauseTask(t) \/ ResumeTask(t)
         \/ CancelTask(t) \/ CancelWaits(t) \/ ResumeFromCheckpoint(t)
  PROVE  IInv'
<1> USE DEF stateVars, callVars, loopVars, Safe, BlockedMeansHeld, PausedMeansHeld,
            CancelledNeverCompletes, LiveLoopHasEvent, LaunchHasEvent, GraceMeansLive
<1>1. CASE CreateTask(t)
  <2>1. TypeOK'
    BY <1>1 DEF CreateTask, UpdateStatus, IInv, TypeOK, Statuses, PCs
  <2>2. Safe'
    BY <1>1, TaskOfLoop DEF CreateTask, UpdateStatus, IInv, TypeOK, Live
  <2> QED BY <2>1, <2>2 DEF IInv
<1>2. CASE PauseTask(t)
  <2>1. TypeOK'
    BY <1>2 DEF PauseTask, Pause, IInv, TypeOK, Statuses, PCs
  <2>2. Safe'
    BY <1>2, TaskOfLoop DEF PauseTask, Pause, IInv, TypeOK, Live
  <2> QED BY <2>1, <2>2 DEF IInv
<1>3. CASE ResumeTask(t)
  <2>1. TypeOK'
    BY <1>3 DEF ResumeTask, Woken, IInv, TypeOK, Statuses, PCs
  <2>2. Safe'
    BY <1>3, TaskOfLoop DEF ResumeTask, Woken, IInv, TypeOK, Live
  <2> QED BY <2>1, <2>2 DEF IInv
<1>4. CASE CancelTask(t)
  <2>1. TypeOK'
    BY <1>4 DEF CancelTask, UpdateStatus, Woken, IInv, TypeOK, Statuses, PCs
  <2>2. Safe'
    BY <1>4, TaskOfLoop DEF CancelTask, UpdateStatus, Woken, IInv, TypeOK, Live
  <2> QED BY <2>1, <2>2 DEF IInv
<1>5. CASE CancelWaits(t)
  <2>1. TypeOK'
    BY <1>5 DEF CancelWaits, IInv, TypeOK, Statuses, PCs
  <2>2. Safe'
    BY <1>5, TaskOfLoop DEF CancelWaits, IInv, TypeOK, Live
  <2> QED BY <2>1, <2>2 DEF IInv
<1>6. CASE ResumeFromCheckpoint(t)
  <2>1. TypeOK'
    BY <1>6 DEF ResumeFromCheckpoint, UpdateStatus, Woken, IInv, TypeOK, Statuses, PCs
  <2>2. Safe'
    BY <1>6, TaskOfLoop DEF ResumeFromCheckpoint, UpdateStatus, Woken, IInv, TypeOK, Live
  <2> QED BY <2>1, <2>2 DEF IInv
<1> QED BY <1>1, <1>2, <1>3, <1>4, <1>5, <1>6

LEMMA ProcessStep ==
  ASSUME IInv, CleanProject \/ Restart
  PROVE  IInv'
<1> 0 \in 0 .. (MaxTurns - 1) /\ 0 \in 0 .. MaxCalls
  BY LifecycleAssumption DEF LifecycleAssumption
<1> USE DEF stateVars, callVars, loopVars, Safe, BlockedMeansHeld, PausedMeansHeld,
            CancelledNeverCompletes, LiveLoopHasEvent, LaunchHasEvent, GraceMeansLive
<1>1. CASE CleanProject
  <2>1. TypeOK'
    BY <1>1 DEF CleanProject, IInv, TypeOK, Statuses, PCs
  <2>2. Safe'
    BY <1>1, TaskOfLoop DEF CleanProject, IInv, TypeOK, Live
  <2> QED BY <2>1, <2>2 DEF IInv
<1>2. CASE Restart
  <2>1. TypeOK'
    BY <1>2 DEF Restart, IInv, TypeOK, Statuses, PCs
  <2>2. Safe'
    BY <1>2, TaskOfLoop DEF Restart, IInv, TypeOK, Live
  <2> QED BY <2>1, <2>2 DEF IInv
<1> QED BY <1>1, <1>2

-----------------------------------------------------------------------------
(* The inductive invariant and what follows from it.                       *)

LEMMA StepIInv == IInv /\ [Next]_vars => IInv'
<1> SUFFICES ASSUME IInv, [Next]_vars PROVE IInv'
  OBVIOUS
<1>1. CASE \E l \in Loops : LoopNext(l)
  BY <1>1, LoopStepType, LoopStepSafe DEF IInv
<1>2. CASE \E l \in Loops : LaunchTask(l) \/ LaunchResumed(l) \/ ForceCancel(l)
  BY <1>2, LaunchStep
<1>3. CASE \E t \in Tasks : \/ CreateTask(t) \/ PauseTask(t) \/ ResumeTask(t)
                           \/ CancelTask(t) \/ CancelWaits(t) \/ ResumeFromCheckpoint(t)
  BY <1>3, RouteStep
<1>4. CASE CleanProject \/ Restart
  BY <1>4, ProcessStep
<1>5. CASE UNCHANGED vars
  BY <1>5 DEF vars, stateVars, callVars, loopVars, IInv, TypeOK, Safe, Live, BlockedMeansHeld,
              PausedMeansHeld, CancelledNeverCompletes, LiveLoopHasEvent, LaunchHasEvent,
              GraceMeansLive
<1> QED BY <1>1, <1>2, <1>3, <1>4, <1>5 DEF Next

\* The strengthened invariant holds in every reachable state.
THEOREM Invariance == Spec => []IInv
  BY InitIInv, StepIInv, PTL DEF Spec

\* Every variable of the state manager and of the loops keeps its type.
THEOREM TypeCorrect == Spec => []TypeOK
<1>1. IInv => TypeOK
  BY DEF IInv
<1> QED BY <1>1, Invariance, PTL

\* wait_if_paused never misses a wake-up, for any number of loops per task.
THEOREM NoLostWakeUp == Spec => []BlockedMeansHeld
<1>1. IInv => BlockedMeansHeld
  BY DEF IInv, Safe
<1> QED BY <1>1, Invariance, PTL

\* A task shown as paused has a closed gate (or no loop to hold).
THEOREM PausedIsHeld == Spec => []PausedMeansHeld
<1>1. IInv => PausedMeansHeld
  BY DEF IInv, Safe
<1> QED BY <1>1, Invariance, PTL

\* A stopped task is never reported as completed.
THEOREM StoppedNeverCompletes == Spec => []CancelledNeverCompletes
<1>1. IInv => CancelledNeverCompletes
  BY DEF IInv, Safe
<1> QED BY <1>1, Invariance, PTL

\* Every running loop has a pause event, whatever was cleaned or restarted.
THEOREM EveryLoopCanBePaused == Spec => []LiveLoopHasEvent
<1>1. IInv => LiveLoopHasEvent
  BY DEF IInv, Safe
<1> QED BY <1>1, Invariance, PTL

-----------------------------------------------------------------------------
(* TaskLifecycle implements LoopControl.                                   *)

Phase == [l \in Loops |-> PhaseOf(l)]
Closed == {t \in Tasks : pauseEvent[t] = "clear"}

LEMMA InitRefines == Init => Control!Init
  BY DEF Init, Control!Init, PhaseOf

\* A loop that stays running, its task's gate and the condemned untouched.
LEMMA StutterStep ==
  ASSUME NEW l \in Loops, NEW x, TypeOK,
         PhaseOf(l) = "running",
         x \in {"start", "restart", "prep", "woken", "llm", "batch", "tool", "escalate", "finish"},
         pc' = [pc EXCEPT ![l] = x], UNCHANGED <<pauseEvent, grace>>
  PROVE  UNCHANGED Control!vars
  BY DEF Control!vars, PhaseOf, TypeOK

\* A running loop ends, and may have closed its task's gate.
LEMMA ExitStep ==
  ASSUME NEW l \in Loops, TypeOK, PhaseOf(l) = "running", End(l),
         \/ UNCHANGED pauseEvent
         \/ pauseEvent' = [pauseEvent EXCEPT ![Task(l)] = "clear"]
  PROVE  Control!Exit(l)
  BY TaskOfLoop DEF Control!Exit, PhaseOf, TypeOK, End

\* A running loop is held at its closed gate.
LEMMA HoldStep ==
  ASSUME NEW l \in Loops, TypeOK, PhaseOf(l) = "running", pauseEvent[Task(l)] = "clear",
         pc' = [pc EXCEPT ![l] = "blocked"], UNCHANGED <<pauseEvent, grace>>
  PROVE  Control!Hold(l)
  BY TaskOfLoop DEF Control!Hold, PhaseOf, TypeOK

\* pause_task closes the gate, or finds no event.
LEMMA PauseStep ==
  ASSUME TypeOK, NEW t \in Tasks, Pause(t), UNCHANGED <<Phase, grace>>
  PROVE  Control!Close(t) \/ UNCHANGED Control!vars
<1>1. CASE pauseEvent[t] = "absent"
  BY <1>1 DEF Pause, Phase, TypeOK, Control!vars
<1>2. CASE pauseEvent[t] # "absent"
  BY <1>2 DEF Pause, Phase, TypeOK, Control!Close
<1> QED BY <1>1, <1>2

\* Setting the event wakes every waiter: the gate opens.
LEMMA OpenStep ==
  ASSUME TypeOK, NEW t \in Tasks, pc' = Woken(t), UNCHANGED grace,
         pauseEvent' = [pauseEvent EXCEPT ![t] = IF @ = "absent" THEN @ ELSE "set"]
           \/ pauseEvent' = [pauseEvent EXCEPT ![t] = "set"]
  PROVE  Control!Open(t)
  BY TaskOfLoop DEF Control!Open, PhaseOf, Woken, TypeOK

\* A new asyncio.Task.
LEMMA LaunchStepRefines ==
  ASSUME TypeOK, NEW l \in Loops, Fresh(l), NEW x \in {"start", "restart"},
         pc' = [pc EXCEPT ![l] = x], UNCHANGED <<pauseEvent, grace>>
  PROVE  Control!Launch(l)
  BY DEF Control!Launch, PhaseOf, Fresh, TypeOK

LEMMA TopOfTurnRefines ==
  ASSUME TypeOK, NEW l \in Loops, PhaseOf(l) = "running", NEW n, TopOfTurn(l, n),
         UNCHANGED pauseEvent
  PROVE  Control!Hold(l) \/ Control!Exit(l) \/ UNCHANGED Control!vars
<1>1. CASE pc' = [pc EXCEPT ![l] = "blocked"] /\ pauseEvent[Task(l)] = "clear" /\ UNCHANGED grace
  BY <1>1, HoldStep
<1>2. CASE End(l)
  BY <1>2, ExitStep
<1>3. CASE \E x \in {"llm", "finish"} : pc' = [pc EXCEPT ![l] = x] /\ UNCHANGED grace
  BY <1>3, StutterStep
<1> QED BY <1>1, <1>2, <1>3 DEF TopOfTurn, PassGate, Return, callVars

LEMMA PassGateRefines ==
  ASSUME TypeOK, NEW l \in Loops, PhaseOf(l) = "running", NEW n, PassGate(l, n),
         UNCHANGED pauseEvent
  PROVE  Control!Exit(l) \/ UNCHANGED Control!vars
<1>1. CASE End(l)
  BY <1>1, ExitStep
<1>2. CASE \E x \in {"llm", "finish"} : pc' = [pc EXCEPT ![l] = x] /\ UNCHANGED grace
  BY <1>2, StutterStep
<1> QED BY <1>1, <1>2 DEF PassGate, Return, callVars

\* A step of a loop holds it, ends it, closes its gate or is not visible.
LEMMA LoopStepRefines ==
  ASSUME IInv, NEW l \in Loops, LoopNext(l)
  PROVE  \/ Control!Hold(l) \/ Control!Exit(l) \/ Control!Close(Task(l))
         \/ UNCHANGED Control!vars
<1> TypeOK /\ Task(l) \in Tasks
  BY TaskOfLoop DEF IInv
<1> USE DEF stateVars, callVars, loopVars
<1>1. CASE Reap(l)
  BY <1>1 DEF Reap, Control!vars, PhaseOf, TypeOK
<1>2. CASE ~Reap(l)
  <2>1. PhaseOf(l) = "running"
    BY <1>2 DEF LoopNext, StartRun, EnterLoop, WakeUp, ReplyUnusable, ReplyProse, ReplyCalls,
                LoopRaises, Respond, RespondBlocked, BeginTool, ToolReturns, ToolPauses,
                TurnDone, ConvergenceFound, ConvergencePause, Finish, PhaseOf
  <2>2. CASE EnterLoop(l) \/ ReplyUnusable(l) \/ ReplyProse(l) \/ TurnDone(l)
    <3>1. CASE \E n : TopOfTurn(l, n)
      BY <2>1, <2>2, <3>1, TopOfTurnRefines DEF EnterLoop, ReplyUnusable, ReplyProse, TurnDone
    <3>2. CASE \E r : Return(l, r)
      BY <2>1, <2>2, <3>2, StutterStep DEF EnterLoop, ReplyUnusable, ReplyProse, TurnDone, Return
    <3> QED BY <2>2, <3>1, <3>2 DEF EnterLoop, ReplyUnusable, ReplyProse, TurnDone
  <2>3. CASE WakeUp(l)
    BY <2>1, <2>3, PassGateRefines DEF WakeUp
  <2>4. CASE StartRun(l) \/ BeginTool(l) \/ LoopRaises(l) \/ Finish(l)
    <3>1. CASE End(l)
      BY <2>1, <2>4, <3>1, ExitStep DEF StartRun, BeginTool, LoopRaises, Finish
    <3>2. CASE \E x \in {"prep", "tool"} : pc' = [pc EXCEPT ![l] = x] /\ UNCHANGED grace
      BY <2>1, <2>4, <3>2, StutterStep DEF StartRun, BeginTool, LoopRaises, Finish
    <3> QED BY <2>4, <3>1, <3>2 DEF StartRun, BeginTool, LoopRaises, Finish
  <2>5. CASE ReplyCalls(l) \/ Respond(l) \/ ToolReturns(l) \/ ConvergenceFound(l)
    <3>1. /\ \E x \in {"batch", "finish", "escalate"} : pc' = [pc EXCEPT ![l] = x]
          /\ UNCHANGED <<pauseEvent, grace>>
      BY <2>5 DEF ReplyCalls, Respond, ToolReturns, ConvergenceFound, Return
    <3> QED BY <2>1, <3>1, StutterStep
  <2>6. CASE RespondBlocked(l)
    <3>1. CASE Return(l, "failed")
      BY <2>1, <2>6, <3>1, StutterStep DEF RespondBlocked, Return
    <3>2. CASE UNCHANGED pc
      BY <2>6, <3>2 DEF RespondBlocked, Return, Control!vars, PhaseOf
    <3> QED BY <2>6, <3>1, <3>2 DEF RespondBlocked
  <2>7. CASE ToolPauses(l)
    <3>1. UNCHANGED <<Phase, grace>>
      BY <2>7 DEF ToolPauses, Phase, PhaseOf, TypeOK
    <3> QED BY <2>7, <3>1, PauseStep DEF ToolPauses
  <2>8. CASE ConvergencePause(l)
    <3>1. CASE End(l)
      BY <2>1, <2>8, <3>1, ExitStep DEF ConvergencePause, Pause, TypeOK
    <3>2. CASE Return(l, "failed")
      <4>1. UNCHANGED <<Phase, grace>>
        BY <2>1, <3>2 DEF Return, Phase, PhaseOf, TypeOK
      <4> QED BY <2>8, <4>1, PauseStep DEF ConvergencePause
    <3> QED BY <2>8, <3>1, <3>2 DEF ConvergencePause
  <2> QED BY <1>2, <2>2, <2>3, <2>4, <2>5, <2>6, <2>7, <2>8 DEF LoopNext
<1> QED BY <1>1, <1>2

LEMMA StepRefines == IInv /\ [Next]_vars => [Control!Next]_(Control!vars)
<1> SUFFICES ASSUME IInv, [Next]_vars PROVE [Control!Next]_(Control!vars)
  OBVIOUS
<1> TypeOK
  BY DEF IInv
<1> USE DEF stateVars, callVars, loopVars
<1>1. CASE \E l \in Loops : LoopNext(l)
  BY <1>1, LoopStepRefines, TaskOfLoop DEF Control!Next
<1>2. ASSUME NEW l \in Loops, LaunchTask(l) \/ LaunchResumed(l)
      PROVE  Control!Launch(l)
  BY <1>2, LaunchStepRefines DEF LaunchTask, LaunchResumed
<1>3. ASSUME NEW l \in Loops, ForceCancel(l)
      PROVE  Control!Exit(l)
  BY <1>3 DEF ForceCancel, End, IInv, Safe, GraceMeansLive, Live, TypeOK, PhaseOf, Control!Exit
<1>4. ASSUME NEW t \in Tasks, CreateTask(t)
      PROVE  UNCHANGED Control!vars
  BY <1>4 DEF CreateTask, Control!vars, PhaseOf, TypeOK
<1>5. ASSUME NEW t \in Tasks, PauseTask(t)
      PROVE  Control!Close(t) \/ UNCHANGED Control!vars
  BY <1>5, PauseStep DEF PauseTask, Phase, PhaseOf
<1>6. ASSUME NEW t \in Tasks, ResumeTask(t) \/ CancelTask(t) \/ ResumeFromCheckpoint(t)
      PROVE  Control!Open(t)
  BY <1>6, OpenStep DEF ResumeTask, CancelTask, ResumeFromCheckpoint
<1>7. ASSUME NEW t \in Tasks, CancelWaits(t)
      PROVE  UNCHANGED Control!vars \/ \E l \in Loops : Control!Condemn(l)
  <2>1. CASE UNCHANGED grace
    BY <1>7, <2>1 DEF CancelWaits, Control!vars, PhaseOf
  <2>2. CASE /\ taskHandles[t] # NoLoop /\ Live(taskHandles[t])
             /\ grace' = grace \cup {taskHandles[t]}
    <3>1. taskHandles[t] \in Loops
      BY <2>2 DEF TypeOK
    <3>2. Control!Condemn(taskHandles[t])
      BY <1>7, <2>2, <3>1 DEF CancelWaits, Control!Condemn, Control!Alive, Live, PhaseOf
    <3> QED BY <3>1, <3>2
  <2> QED BY <1>7, <2>1, <2>2 DEF CancelWaits
<1>8. CASE CleanProject
  BY <1>8 DEF CleanProject, Control!vars, PhaseOf
<1>9. CASE Restart
  BY <1>9 DEF Restart, Control!Next, Control!Shutdown, PhaseOf, TypeOK
<1>10. CASE UNCHANGED vars
  BY <1>10 DEF vars, Control!vars, PhaseOf
<1> QED
  BY <1>1, <1>2, <1>3, <1>4, <1>5, <1>6, <1>7, <1>8, <1>9, <1>10 DEF Next, Control!Next

\* The task lifecycle implements the gate: loops are launched once, held only
\* at a closed gate, all released when it opens, and end as LoopControl says.
THEOREM Refinement == Spec => ImplementsControl
  BY InitRefines, StepRefines, Invariance, PTL
  DEF Spec, ImplementsControl, Control!Safety
=============================================================================
