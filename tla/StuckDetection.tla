--------------------------- MODULE StuckDetection ---------------------------
(***************************************************************************)
(* How core/react_agent.py notices that a run is stuck: the run's own      *)
(* count of consecutive errors, the failure fingerprints that reveal a     *)
(* repeated failure, and the independent Reviewer that is asked for advice *)
(* when builds keep failing.                                               *)
(*                                                                         *)
(* There is one ReactAgent for all tasks: consecutive_errors is a local of *)
(* _loop, but the fingerprints, the count of failed builds and the count   *)
(* of interventions are attributes every run reads and writes.  One action *)
(* is the code between two awaits; a tool call, the Reviewer's answer and  *)
(* the automatic host_test are awaited, the handling of their results is   *)
(* not.  max_turns is left out: a run may go on for ever, so the bounds    *)
(* below are those of the failure handling alone.                          *)
(***************************************************************************)
EXTENDS Integers, Sequences, FiniteSets

CONSTANTS Runs,             \* the _loop coroutines of the server
          Tools,            \* names of tools other than respond, with "build"
          Fingerprints,     \* classes of similar normalised error texts
          MaxErrors,        \* max_consecutive_errors (3)
          Window,           \* convergence_window (4)
          Threshold,        \* convergence_threshold (3)
          StuckBuilds,      \* build_stuck_threshold (3)
          MaxInterventions, \* max_reviewer_interventions (2)
          MaxCalls          \* max_tool_calls_per_turn (10)

ASSUME StuckAssumption ==
    /\ IsFiniteSet(Runs) /\ Runs # {}
    /\ "build" \in Tools
    /\ MaxErrors \in Nat \ {0} /\ Window \in Nat \ {0}
    /\ Threshold \in Nat \ {0} /\ StuckBuilds \in Nat \ {0}
    /\ MaxInterventions \in Nat /\ MaxCalls \in Nat \ {0}

VARIABLES
    fingerprints,   \* _failure_fingerprints; run is whose failure it was
    buildFailures,  \* _build_failure_count, counted up to StuckBuilds
    interventions,  \* _reviewer_interventions
    pc,             \* where each run is suspended
    calls,          \* tool calls of the current reply still to be handled
    consecutive,    \* consecutive_errors
    ending,         \* how the run ended
    streak          \* history: failed calls of the run since its last
                    \* success or the last build of any run that succeeded

sharedVars == <<fingerprints, buildFailures, interventions>>
runVars == <<pc, calls, consecutive, ending>>
vars == <<sharedVars, runVars, streak>>

Failure == [run : Runs, tool : Tools, fp : Fingerprints]
PCs == {"idle", "llm", "tool", "advise", "hosttest", "escalate"}
Endings == {"none", "answered", "cancelled", "errors", "convergence", "paused"}

Init ==
    /\ fingerprints = <<>> /\ buildFailures = 0 /\ interventions = 0
    /\ pc = [r \in Runs |-> "idle"]
    /\ calls = [r \in Runs |-> 0]
    /\ consecutive = [r \in Runs |-> 0]
    /\ ending = [r \in Runs |-> "none"]
    /\ streak = [r \in Runs |-> 0]

-----------------------------------------------------------------------------
(* Helpers of the failure handling.                                        *)

LastOf(n, s) == SubSeq(s, Len(s) - (IF n < Len(s) THEN n ELSE Len(s)) + 1, Len(s))

Similar(f, g) == f.tool = g.tool /\ f.fp = g.fp

\* _convergence_detected: enough of the last Window failures are like the last.
ConvergenceDetected(failures) ==
    LET window == LastOf(Window, failures)
        last   == window[Len(window)]
    IN  /\ Len(window) >= Threshold
        /\ Cardinality({i \in DOMAIN window : Similar(window[i], last)}) >= Threshold

Remember(failure) == LastOf(2 * Window, Append(fingerprints, failure))

\* The rest of _loop once a tool call has been handled, up to the next await:
\* the next call, or the end of the turn with its second convergence check.
NextCall(r, failures) ==
    /\ calls' = [calls EXCEPT ![r] = @ - 1]
    /\ \/ /\ calls[r] > 1
          /\ pc' = [pc EXCEPT ![r] = "tool"]
       \/ /\ calls[r] = 1 /\ ~ConvergenceDetected(failures)
          /\ pc' = [pc EXCEPT ![r] = "llm"]
       \/ /\ calls[r] = 1 /\ ConvergenceDetected(failures)
          /\ pc' = [pc EXCEPT ![r] = "escalate"]
    /\ UNCHANGED ending

Stop(r, how) ==
    /\ pc' = [pc EXCEPT ![r] = "idle"]
    /\ calls' = [calls EXCEPT ![r] = 0]
    /\ ending' = [ending EXCEPT ![r] = how]

\* A failure the Reviewer does not step in for: it is counted and remembered,
\* and ends the run when it is one too many or one like those before it.
CountFailure(r, failure) ==
    /\ consecutive' = [consecutive EXCEPT ![r] = @ + 1]
    /\ fingerprints' = Remember(failure)
    /\ CASE consecutive[r] + 1 >= MaxErrors -> Stop(r, "errors")
         [] consecutive[r] + 1 < MaxErrors /\ ConvergenceDetected(fingerprints') ->
                Stop(r, "convergence")
         [] OTHER -> NextCall(r, fingerprints')

-----------------------------------------------------------------------------
(* The actions.                                                            *)

\* run() or resume_from_checkpoint: the shared list of failures is emptied.
StartRun(r) ==
    /\ pc[r] = "idle"
    /\ fingerprints' = <<>>
    /\ pc' = [pc EXCEPT ![r] = "llm"]
    /\ consecutive' = [consecutive EXCEPT ![r] = 0]
    /\ ending' = [ending EXCEPT ![r] = "none"]
    /\ streak' = [streak EXCEPT ![r] = 0]
    /\ UNCHANGED <<buildFailures, interventions, calls>>

\* A reply that asks for tools; more than MaxCalls are cut off.
ReplyWithCalls(r) ==
    /\ pc[r] = "llm"
    /\ \E n \in 1 .. MaxCalls : calls' = [calls EXCEPT ![r] = n]
    /\ pc' = [pc EXCEPT ![r] = "tool"]
    /\ UNCHANGED <<sharedVars, consecutive, ending, streak>>

\* A reply that is empty or whose tool calls cannot be parsed.
UnusableReply(r) ==
    /\ pc[r] = "llm"
    /\ consecutive' = [consecutive EXCEPT ![r] = @ + 1]
    /\ IF consecutive[r] + 1 >= MaxErrors
       THEN Stop(r, "errors")
       ELSE UNCHANGED <<pc, calls, ending>>
    /\ UNCHANGED <<sharedVars, streak>>

\* respond, or prose accepted as the answer.
Answer(r) ==
    /\ pc[r] \in {"llm", "tool"}
    /\ Stop(r, "answered")
    /\ UNCHANGED <<sharedVars, consecutive, streak>>

\* respond while the Reviewer's findings stand is one more error, but it is
\* neither fingerprinted nor does it count as a failing tool.
BlockedRespond(r) ==
    /\ pc[r] = "tool"
    /\ consecutive' = [consecutive EXCEPT ![r] = @ + 1]
    /\ IF consecutive[r] + 1 >= MaxErrors
       THEN Stop(r, "errors")
       ELSE NextCall(r, fingerprints)
    /\ UNCHANGED <<sharedVars, streak>>

ToolSucceeds(r) ==
    /\ pc[r] = "tool"
    /\ consecutive' = [consecutive EXCEPT ![r] = 0]
    /\ streak' = [streak EXCEPT ![r] = 0]
    /\ NextCall(r, fingerprints)
    /\ UNCHANGED sharedVars

\* A build that succeeds also clears what was held against earlier builds,
\* then host_test is awaited.
BuildSucceeds(r) ==
    /\ pc[r] = "tool"
    /\ consecutive' = [consecutive EXCEPT ![r] = 0]
    /\ buildFailures' = 0 /\ interventions' = 0
    /\ streak' = [s \in Runs |-> 0]
    /\ pc' = [pc EXCEPT ![r] = "hosttest"]
    /\ UNCHANGED <<fingerprints, calls, ending>>

HostTestDone(r) ==
    /\ pc[r] = "hosttest"
    /\ NextCall(r, fingerprints)
    /\ UNCHANGED <<sharedVars, consecutive, streak>>

\* The cap is not looked at.
MUTANT_ReviewerStepsIn(failures) == failures >= StuckBuilds

\* The Reviewer steps in from the StuckBuilds-th failure, at most
\* MaxInterventions times.
ReviewerStepsIn(failures) ==
    /\ failures >= StuckBuilds
    /\ interventions < MaxInterventions

ToolFails(r, failure) ==
    /\ pc[r] = "tool" /\ failure.run = r
    /\ streak' = [streak EXCEPT ![r] = @ + 1]
    /\ buildFailures' = IF failure.tool = "build" /\ buildFailures < StuckBuilds
                         THEN buildFailures + 1 ELSE buildFailures
    /\ IF failure.tool = "build" /\ ReviewerStepsIn(buildFailures')
       THEN /\ pc' = [pc EXCEPT ![r] = "advise"]
            /\ UNCHANGED <<fingerprints, calls, consecutive, ending>>
       ELSE CountFailure(r, failure)
    /\ UNCHANGED interventions

\* The advice has arrived (advise_on_stuck_build turns every failure into a
\* text); it makes up for the errors so far and the failure is not remembered.
Advised(r) ==
    /\ pc[r] = "advise"
    /\ interventions' = interventions + 1
    /\ buildFailures' = 0
    /\ consecutive' = [consecutive EXCEPT ![r] = 0]
    /\ NextCall(r, fingerprints)
    /\ UNCHANGED <<fingerprints, streak>>

\* After the event of the second convergence check: the task is paused for the
\* user and the run ends.
Escalate(r) ==
    /\ pc[r] = "escalate"
    /\ Stop(r, "paused")
    /\ UNCHANGED <<sharedVars, consecutive, streak>>

\* The asyncio.Task is cancelled at an await, or an exception ends the run.
Cancel(r) ==
    /\ pc[r] # "idle"
    /\ Stop(r, "cancelled")
    /\ UNCHANGED <<sharedVars, consecutive, streak>>

Next == \E r \in Runs :
    \/ StartRun(r) \/ ReplyWithCalls(r) \/ UnusableReply(r) \/ Answer(r)
    \/ BlockedRespond(r) \/ ToolSucceeds(r) \/ BuildSucceeds(r)
    \/ HostTestDone(r) \/ Advised(r) \/ Escalate(r) \/ Cancel(r)
    \/ \E failure \in Failure : ToolFails(r, failure)

Spec == Init /\ [][Next]_vars
-----------------------------------------------------------------------------
(* Properties.                                                             *)

\* Every variable holds a value of its kind, and the shared list of failures
\* stays trimmed to twice the window.
TypeOK ==
    /\ fingerprints \in Seq(Failure) /\ Len(fingerprints) <= 2 * Window
    /\ buildFailures \in 0 .. StuckBuilds
    /\ interventions \in Nat
    /\ pc \in [Runs -> PCs]
    /\ calls \in [Runs -> 0 .. MaxCalls]
    /\ consecutive \in [Runs -> 0 .. MaxErrors]
    /\ ending \in [Runs -> Endings]
    /\ streak \in [Runs -> Nat]

\* The cap on the Reviewer's interventions is compared before the advice is
\* awaited and counted after it, so runs that ask at the same time pass the
\* same count: the cap can be exceeded, but by no more than one for every
\* other run.  (_maybe_invoke_reviewer_for_build)
InterventionsBounded ==
    interventions <= MaxInterventions + Cardinality(Runs) - 1

\* However the runs interleave, none handles more failing calls in a row than
\* MaxErrors for every intervention the cap lets through and MaxErrors more,
\* unless one of its calls or a build of any run succeeds: the failures the
\* Reviewer's advice makes up for cannot keep a run busy for ever.
StreakBounded ==
    \A r \in Runs :
        streak[r] <= MaxErrors * (MaxInterventions + Cardinality(Runs))

-----------------------------------------------------------------------------
(* What docs/architecture.md says of repeated failures.                    *)


=============================================================================
