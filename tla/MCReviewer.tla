----------------------------- MODULE MCReviewer -----------------------------
(***************************************************************************)
(* The three places where the Reviewer acts: it advises a run that is      *)
(* stuck (StuckDetection, by EXTENDS), its verdicts add up to a gate and   *)
(* swap the roles (ReviewGate), and it scores candidate versions           *)
(* (CandidateReview).  None of them reads what another keeps, so each      *)
(* behaviour follows one of them, chosen at the start, and the others keep *)
(* their initial value.                                                    *)
(***************************************************************************)
EXTENDS StuckDetection, TLC

CONSTANTS
    Tasks, LLMs, Producer, Reviewer, SwapEnabled, RejectThreshold, MaxReviews, NoSnapshot,
    CommitTasks, TaskOf, Codes, Replies, Claims, MinScore, MaxCandidates

VARIABLES
    kind,
    raLlm, rvLlm, snapshots, rejectCounts, unhandled, proseRetryDone, at, configured,
    swapOrder, disturbed,
    disk, active, call, candidates

\* The runs that may be stuck are, in their turn, the loops that commit.
Gate == INSTANCE ReviewGate WITH Threshold <- RejectThreshold
Candidates == INSTANCE CandidateReview WITH Loops <- Runs, Tasks <- CommitTasks

ASSUME GateAssumption == Gate!ConstantsOK
ASSUME CandidatesAssumption == Candidates!ConstantsOK

stuckVars == vars
gateVars == <<raLlm, rvLlm, snapshots, rejectCounts, unhandled, proseRetryDone, at,
              configured, swapOrder, disturbed>>
candidateVars == <<disk, active, call, candidates>>
reviewerVars == <<kind, stuckVars, gateVars, candidateVars>>

ReviewerInit ==
    /\ kind \in {"stuck", "gate", "candidates"}
    /\ Init /\ Gate!Init /\ Candidates!Init
    /\ kind # "candidates" => active

StuckStep == kind = "stuck" /\ Next /\ UNCHANGED <<kind, gateVars, candidateVars>>
GateStep == kind = "gate" /\ Gate!Next /\ UNCHANGED <<kind, stuckVars, candidateVars>>
CandidateStep == kind = "candidates" /\ Candidates!Next /\ UNCHANGED <<kind, stuckVars, gateVars>>

ReviewerNext == StuckStep \/ GateStep \/ CandidateStep

ReviewerSpec == ReviewerInit /\ [][ReviewerNext]_reviewerVars

\* The properties of the other modules, under their names; what each says is
\* in the module it is from.
NestedSwapsRestore == Gate!NestedSwapsRestore
RescueBeforeHuman == Gate!RescueBeforeHuman
NumberedBehindOthers == Candidates!NumberedBehindOthers

-----------------------------------------------------------------------------
(* The instance for TLC: two loops of one task, two states of the code and *)
(* replies on both sides of the threshold - low marks, one of them below   *)
(* the scale, so that findings raise it to 0, marks far above it, and a    *)
(* reply that cannot be parsed.                                            *)

OneTask == {"task"}
SameTask == [r \in Runs |-> "task"]

TwoCodes == {[errors |-> 0, lint |-> 0, high |-> 0, medium |-> 0],
             [errors |-> 3, lint |-> 3, high |-> 2, medium |-> 1]}

Marked == {"requirement_match", "code_quality", "test_coverage", "security",
           "deliverable_completeness"}
Flat(mark) == [d \in Marked |-> mark]

ThreeReplies == {Flat(6000), [Flat(40) EXCEPT !["code_quality"] = -30], <<>>}

\* Runs are interchangeable, and so are the tasks of the gate.
Symmetry == Permutations(Runs) \cup Permutations(Tasks)
=============================================================================
