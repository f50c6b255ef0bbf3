----------------------------- MODULE ReviewGate -----------------------------
(***************************************************************************)
(* The gate between a Producer and a release: commit_candidate asks the    *)
(* Reviewer (tools/commit_candidate_tool.py), rejections add up in         *)
(* core/reject_tracker.py until the ReAct loop refuses `respond`, and      *)
(* core/role_swap.py exchanges the LLMs of Producer and Reviewer.  All     *)
(* tasks share one Producer pointer and one Reviewer pointer.              *)
(*                                                                         *)
(* A task's loop is reduced to the calls that matter here; between two     *)
(* actions other tasks run, because each action ends at an await.  A loop  *)
(* that ends for any other reason (errors, turn limit, stop) is Stop.      *)
(***************************************************************************)
EXTENDS Naturals, Sequences

CONSTANTS Tasks,         \* task ids
          LLMs,          \* LLM client instances
          Producer,      \* the client ReactAgent.llm starts with
          Reviewer,      \* the client Reviewer._llm starts with
          SwapEnabled,   \* enable_swap_on_reject
          Threshold,     \* commit_reject_escalation_threshold
          MaxReviews,    \* bound: reviews of one task between two approvals
          NoSnapshot     \* no entry in RoleSwapManager._snapshot

ConstantsOK ==
    /\ Producer \in LLMs /\ Reviewer \in LLMs /\ Producer # Reviewer
    /\ SwapEnabled \in BOOLEAN
    /\ Threshold \in Nat \ {0} /\ MaxReviews \in Nat
    /\ NoSnapshot \notin LLMs \X LLMs

VARIABLES
    raLlm,         \* ReactAgent.llm
    rvLlm,         \* Reviewer._llm and Reviewer._inner._llm
    snapshots,     \* RoleSwapManager._snapshot[t]; NoSnapshot is state NORMAL
    rejectCounts,  \* RejectTracker._counts
    unhandled,     \* RejectTracker._unhandled
    proseRetryDone,\* ReactAgent._prose_retry_done
    at,            \* where each task's loop is, and how it ended
    configured,    \* history: the pair <<Producer, Reviewer>> the user chose
    swapOrder,     \* history: tasks with a swap outstanding, oldest first
    disturbed      \* history: what broke the nesting of swaps

guardVars == <<rejectCounts, unhandled>>
roleVars  == <<raLlm, rvLlm, snapshots, configured, swapOrder, disturbed>>
loopVars  == <<proseRetryDone, at>>
vars == <<guardVars, roleVars, loopVars>>

Ended == {"responded", "prose", "stopped"}

Swapped(t) == snapshots[t] # NoSnapshot

Init ==
    /\ raLlm = Producer /\ rvLlm = Reviewer
    /\ snapshots = [t \in Tasks |-> NoSnapshot]
    /\ rejectCounts = [t \in Tasks |-> 0]
    /\ unhandled = {}
    /\ proseRetryDone = FALSE
    /\ at = [t \in Tasks |-> "idle"]
    /\ configured = <<Producer, Reviewer>>
    /\ swapOrder = <<>>
    /\ disturbed = "no"

-----------------------------------------------------------------------------
(* RejectTracker and RoleSwapManager.                                      *)

OnReject(t) ==
    /\ rejectCounts' = [rejectCounts EXCEPT ![t] = @ + 1]
    /\ unhandled' = unhandled \cup {t}

OnApprove(t) ==
    /\ rejectCounts' = [rejectCounts EXCEPT ![t] = 0]
    /\ unhandled' = unhandled \ {t}

OnEscalate(t) ==
    /\ unhandled' = unhandled \ {t}
    /\ UNCHANGED rejectCounts

ShouldBlockRespond(t) == rejectCounts[t] >= Threshold /\ t \in unhandled

CanSwap(t) == SwapEnabled /\ ~Swapped(t)

Without(seq, e) ==
    LET i == CHOOSE i \in DOMAIN seq : seq[i] = e
    IN  [j \in 1 .. Len(seq) - 1 |-> IF j < i THEN seq[j] ELSE seq[j + 1]]

\* do_swap: back both clients up, then exchange them.
DoSwap(t) ==
    /\ snapshots' = [snapshots EXCEPT ![t] = <<raLlm, rvLlm>>]
    /\ raLlm' = rvLlm /\ rvLlm' = raLlm
    /\ swapOrder' = Append(swapOrder, t)
    /\ UNCHANGED <<configured, disturbed>>

\* MUTANT: restore forgets the state and keeps the exchanged clients.
RestoreStateOnly(t) ==
    /\ snapshots' = [snapshots EXCEPT ![t] = NoSnapshot]
    /\ swapOrder' = Without(swapOrder, t)
    /\ UNCHANGED <<raLlm, rvLlm, configured, disturbed>>

\* restore: both clients as they were when this task swapped, whatever
\* happened to them since.
Restore(t) ==
    IF Swapped(t)
    THEN /\ snapshots' = [snapshots EXCEPT ![t] = NoSnapshot]
         /\ raLlm' = snapshots[t][1] /\ rvLlm' = snapshots[t][2]
         /\ swapOrder' = Without(swapOrder, t)
         /\ disturbed' = IF disturbed = "no" /\ swapOrder[Len(swapOrder)] # t
                         THEN "order" ELSE disturbed
         /\ UNCHANGED configured
    ELSE UNCHANGED roleVars

-----------------------------------------------------------------------------
(* A task's loop.                                                          *)

\* run() or resume-checkpoint; the counters of a resumed task are kept.
Start(t) ==
    /\ at[t] \in {"idle"} \cup Ended
    /\ at' = [at EXCEPT ![t] = "turn"]
    /\ proseRetryDone' = FALSE
    /\ UNCHANGED <<guardVars, roleVars>>

\* commit_candidate: the Reviewer's static checks run first,
BeginCommit(t) ==
    /\ at[t] = "turn" /\ rejectCounts[t] < MaxReviews
    /\ at' = [at EXCEPT ![t] = "checks"]
    /\ UNCHANGED <<guardVars, roleVars, proseRetryDone>>

\* ... then the client that is the Reviewer at that moment is asked.
AskReviewer(t) ==
    /\ at[t] = "checks"
    /\ at' = [at EXCEPT ![t] = "review"]
    /\ UNCHANGED <<guardVars, roleVars, proseRetryDone>>

\* MUTANT: the rescue is tried at the threshold, not from it on.
ReviewRejectsAtThresholdOnly(t) ==
    /\ at[t] = "review"
    /\ at' = [at EXCEPT ![t] = "turn"]
    /\ \/ /\ rejectCounts[t] + 1 = Threshold /\ CanSwap(t)
          /\ DoSwap(t)
          /\ OnApprove(t)
       \/ /\ rejectCounts[t] + 1 # Threshold \/ ~CanSwap(t)
          /\ OnReject(t)
          /\ UNCHANGED roleVars
    /\ UNCHANGED proseRetryDone

\* A low score, or a failed call: count it; at the threshold swap the roles
\* and start counting afresh, or leave `respond` blocked.
ReviewRejects(t) ==
    /\ at[t] = "review"
    /\ at' = [at EXCEPT ![t] = "turn"]
    /\ \/ /\ rejectCounts[t] + 1 >= Threshold /\ CanSwap(t)
          /\ DoSwap(t)
          /\ OnApprove(t)
       \/ /\ rejectCounts[t] + 1 < Threshold \/ ~CanSwap(t)
          /\ OnReject(t)
          /\ UNCHANGED roleVars
    /\ UNCHANGED proseRetryDone

\* Approved: clear the count, restore the roles, run the emulator gate.
ReviewApproves(t) ==
    /\ at[t] = "review"
    /\ at' = [at EXCEPT ![t] = "emulator"]
    /\ OnApprove(t)
    /\ Restore(t)
    /\ UNCHANGED proseRetryDone

\* The emulator gate refuses, or the candidate is created or fails to be.
CommitReturns(t) ==
    /\ at[t] = "emulator"
    /\ at' = [at EXCEPT ![t] = "turn"]
    /\ UNCHANGED <<guardVars, roleVars, proseRetryDone>>

\* pause_for_human or propose_alternatives is called.
BeginEscalation(t) ==
    /\ at[t] = "turn"
    /\ at' = [at EXCEPT ![t] = "asking"]
    /\ UNCHANGED <<guardVars, roleVars, proseRetryDone>>

\* It succeeds: respond is unblocked and the roles are restored.
EscalationSucceeds(t) ==
    /\ at[t] = "asking"
    /\ at' = [at EXCEPT ![t] = "turn"]
    /\ OnEscalate(t)
    /\ Restore(t)
    /\ UNCHANGED proseRetryDone

\* propose_alternatives times out: nothing is unblocked.
EscalationFails(t) ==
    /\ at[t] = "asking"
    /\ at' = [at EXCEPT ![t] = "turn"]
    /\ UNCHANGED <<guardVars, roleVars, proseRetryDone>>

\* respond ends the task unless the guard refuses it.
Respond(t) ==
    /\ at[t] = "turn"
    /\ ~ShouldBlockRespond(t)
    /\ at' = [at EXCEPT ![t] = "responded"]
    /\ UNCHANGED <<guardVars, roleVars, proseRetryDone>>

\* A reply of prose only: sent back once, then taken as the final answer.
Prose(t) ==
    /\ at[t] = "turn"
    /\ proseRetryDone' = ~proseRetryDone
    /\ at' = [at EXCEPT ![t] = IF proseRetryDone THEN "prose" ELSE @]
    /\ UNCHANGED <<guardVars, roleVars>>

\* The loop ends by its turn limit, by too many errors or by a stop request.
Stop(t) ==
    /\ at[t] \notin {"idle"} \cup Ended
    /\ at' = [at EXCEPT ![t] = "stopped"]
    /\ UNCHANGED <<guardVars, roleVars, proseRetryDone>>

-----------------------------------------------------------------------------
(* The dashboard.                                                          *)

ByUser == disturbed' = IF swapOrder # <<>> THEN "user" ELSE disturbed

\* POST /llm/swap-roles: exchange the pointers, snapshots stay.
ManualSwap ==
    /\ raLlm' = rvLlm /\ rvLlm' = raLlm
    /\ configured' = <<rvLlm, raLlm>>
    /\ ByUser
    /\ UNCHANGED <<guardVars, snapshots, swapOrder, loopVars>>

\* POST /llm/switch: a new client for the Producer, snapshots stay.
SwitchLlm ==
    /\ \E n \in LLMs \ {raLlm, rvLlm} :
          /\ \A t \in Tasks : Swapped(t) => n # snapshots[t][1] /\ n # snapshots[t][2]
          /\ raLlm' = n
          /\ configured' = <<n, rvLlm>>
    /\ ByUser
    /\ UNCHANGED <<guardVars, rvLlm, snapshots, swapOrder, loopVars>>

TaskNext(t) ==
    \/ Start(t)
    \/ BeginCommit(t) \/ AskReviewer(t) \/ ReviewRejects(t) \/ ReviewApproves(t)
    \/ CommitReturns(t)
    \/ BeginEscalation(t) \/ EscalationSucceeds(t) \/ EscalationFails(t)
    \/ Respond(t) \/ Prose(t) \/ Stop(t)

Next == (\E t \in Tasks : TaskNext(t)) \/ ManualSwap \/ SwitchLlm

Spec == Init /\ [][Next]_vars

-----------------------------------------------------------------------------
(* Properties.                                                             *)

\* Every variable has its type.
TypeOK ==
    /\ raLlm \in LLMs /\ rvLlm \in LLMs
    /\ snapshots \in [Tasks -> {NoSnapshot} \cup (LLMs \X LLMs)]
    /\ rejectCounts \in [Tasks -> 0 .. MaxReviews]
    /\ unhandled \in SUBSET Tasks
    /\ proseRetryDone \in BOOLEAN
    /\ at \in [Tasks -> {"idle", "turn", "checks", "review", "emulator", "asking"} \cup Ended]
    /\ configured \in LLMs \X LLMs
    /\ swapOrder \in Seq(Tasks)
    /\ disturbed \in {"no", "order", "user"}

\* "the one who writes (ReactAgent.llm) and the one who reviews (Reviewer._llm)
\* are always different LLM instances" (role_swap.py 17), under any interleaving
\* of automatic swaps, restores in any order, manual swaps and provider changes.
DistinctRoles == raLlm # rvLlm

\* The other LLM is tried before a human is: with role swap enabled, respond is
\* blocked only for a task whose roles are swapped, also when an escalation
\* has restored them and the rejections go on (role_swap.py 11-14).
RescueBeforeHuman ==
    SwapEnabled => \A t \in Tasks : ShouldBlockRespond(t) => Swapped(t)

\* As long as swaps are undone in the reverse order and the user keeps away
\* while one is outstanding, every swap gives the roles back as configured.
NestedSwapsRestore ==
    disturbed = "no" /\ swapOrder = <<>> => <<raLlm, rvLlm>> = configured

\* A task whose Reviewer findings stand unanswered does not end by respond.
RespondedIsSettled ==
    \A t \in Tasks : at[t] = "responded" => ~ShouldBlockRespond(t)

=============================================================================
