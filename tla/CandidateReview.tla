--------------------------- MODULE CandidateReview ---------------------------
(***************************************************************************)
(* How a change becomes a candidate version: tools/commit_candidate_tool,  *)
(* core/reviewer and core/evaluator score it, core/version_manager numbers *)
(* and lists it, and api/routes lets the user select it for a test.        *)
(*                                                                         *)
(* The event loop runs one coroutine at a time, so an action is a stretch  *)
(* between two awaits.  Several loops commit at once: the loops of several *)
(* tasks, and two loops of one task after resume-checkpoint.  The project  *)
(* directory is shared by all of them.                                     *)
(*                                                                         *)
(* Abstractions.  The code on disk is what the static checks find in it.   *)
(* A reply of the Reviewer is the marks it gives: a function on the        *)
(* dimensions it names, the empty one for a reply that cannot be parsed.   *)
(* Nothing in the code keeps a mark or a claim between 0 and 100, so they  *)
(* are any integers; the fractions a mark may have are left out.           *)
(* test_results is always None where the tool calls the Reviewer, and      *)
(* test_strategy always "auto", so the branches for them never run.        *)
(* Counting of rejections and swaps are in ReviewGate.                     *)
(***************************************************************************)
EXTENDS Integers, Sequences

CONSTANTS
    Loops,          \* the agent loops that may commit
    Tasks,
    TaskOf,         \* the task of each loop
    Codes,          \* what the checks can find on disk
    Replies,        \* the marks the Reviewer may give
    Claims,         \* the scores a Producer may claim for itself
    MinScore,       \* reviewer_min_score
    MaxCandidates   \* bound on the candidates listed for a task

Dimensions == {"requirement_match", "code_quality", "test_coverage",
               "security", "deliverable_completeness"}

Findings == [errors: Nat, lint: Nat, high: Nat, medium: Nat]

ConstantsOK ==
    /\ TaskOf \in [Loops -> Tasks]
    /\ Codes \subseteq Findings
    /\ \A r \in Replies: DOMAIN r \subseteq Dimensions /\ \A d \in DOMAIN r: r[d] \in Int
    /\ Claims \subseteq Int
    /\ MinScore \in Int
    /\ MaxCandidates \in Nat

VARIABLES
    disk,        \* what the checks would find in the project now
    active,      \* a Reviewer is configured
    call,        \* the commit_candidate call of each loop
    candidates   \* VersionManager._candidates, in the order of creation

vars == <<disk, active, call, candidates>>

Clean == [errors |-> 0, lint |-> 0, high |-> 0, medium |-> 0]

-----------------------------------------------------------------------------
(* The score.  Marks are points, weights twentieths, so sums are exact in  *)
(* twentieths of a point; scores are in tenths.                            *)

Weight == [requirement_match |-> 6, code_quality |-> 4, test_coverage |-> 3,
           security |-> 3, deliverable_completeness |-> 4]

\* A dimension the reply leaves out counts as 75.
Mark(reply, d) == IF d \in DOMAIN reply THEN reply[d] ELSE 75

\* A penalty of so much for each finding, capped.
Penalty(count, each, most) == IF count * each < most THEN count * each ELSE most

\* Taken off a mark when something is found, and then never below 0: a mark
\* below 0 is raised to 0.
Lowered(mark, penalty) ==
    CASE penalty = 0 -> mark
      [] penalty > 0 /\ penalty < mark -> mark - penalty
      [] OTHER -> 0

Quality(mark, found) ==
    Lowered(Lowered(mark, Penalty(found.errors, 15, 30)), Penalty(found.lint, 2, 20))

Security(mark, found) ==
    Lowered(Lowered(mark, Penalty(found.high, 15, 40)), Penalty(found.medium, 5, 15))

Exact(reply, found) ==
      Weight.requirement_match * Mark(reply, "requirement_match")
    + Weight.code_quality * Quality(Mark(reply, "code_quality"), found)
    + Weight.test_coverage * Mark(reply, "test_coverage")
    + Weight.security * Security(Mark(reply, "security"), found)
    + Weight.deliverable_completeness * Mark(reply, "deliverable_completeness")

\* round(total, 1): half a tenth goes either way, as the float falls.
Rounded(exact) == {exact \div 2, (exact + 1) \div 2}

\* ai_confidence is the score divided by 100, here in thousandths.
Confidence(score) == score

\* testable: the confidence is at least 60.
Testable(score) == Confidence(score) >= 60 * 1000

-----------------------------------------------------------------------------

Steps == {"idle", "syntax", "lint", "ask", "gate", "git", "announce"}

\* A call keeps the fields its next stretch reads; the others are at rest.
Idle == [step |-> "idle", named |-> FALSE, found |-> Clean, score |-> 0, number |-> 0]

CallRecord == [step: Steps, named: BOOLEAN, found: Findings, score: Int, number: Nat]

Statuses == {"created", "ai_recommended", "human_testing"}

Candidate == [number: Nat, by: Loops, testable: BOOLEAN, status: Statuses]

Init ==
    /\ disk = Clean
    /\ active \in BOOLEAN
    /\ call = [l \in Loops |-> Idle]
    /\ candidates = [t \in Tasks |-> <<>>]

At(l, step) == call[l].step = step

\* Between commits a loop writes code; every loop sees it at once.
Write(l, code) ==
    /\ At(l, "idle")
    /\ disk' = code
    /\ UNCHANGED <<active, call, candidates>>

\* The user enables or disables the Reviewer.
SetReviewer ==
    /\ active' = ~active
    /\ UNCHANGED <<disk, call, candidates>>

\* The files are read and searched for dangerous patterns as they are now;
\* a call that names no files is judged on none.
Begin(l, named) ==
    /\ At(l, "idle")
    /\ active
    /\ Len(candidates[TaskOf[l]]) < MaxCandidates
    /\ call' = [call EXCEPT ![l] =
          [Idle EXCEPT !.step = "syntax", !.named = named,
             !.found = IF named
                       THEN [Clean EXCEPT !.high = disk.high, !.medium = disk.medium]
                       ELSE Clean]]
    /\ UNCHANGED <<disk, active, candidates>>

\* Without a Reviewer the Producer's own score stands.
BeginUnreviewed(l, claim) ==
    /\ At(l, "idle")
    /\ ~active
    /\ Len(candidates[TaskOf[l]]) < MaxCandidates
    /\ call' = [call EXCEPT ![l] = [Idle EXCEPT !.step = "gate", !.score = 10 * claim]]
    /\ UNCHANGED <<disk, active, candidates>>

\* py_compile and ruff read the disk when they run.  Either may fail or be
\* missing, which counts as no finding.
Counts(l, onDisk) == {0} \cup (IF call[l].named THEN {onDisk} ELSE {})

CheckSyntax(l) ==
    /\ At(l, "syntax")
    /\ \E n \in Counts(l, disk.errors):
          call' = [call EXCEPT ![l].step = "lint", ![l].found.errors = n]
    /\ UNCHANGED <<disk, active, candidates>>

CheckLint(l) ==
    /\ At(l, "lint")
    /\ \E n \in Counts(l, disk.lint):
          call' = [call EXCEPT ![l].step = "ask", ![l].found.lint = n]
    /\ UNCHANGED <<disk, active, candidates>>

\* The reply is merged with the findings.  A score below the threshold, as
\* a reply that makes the merge raise, ends the call without a candidate.
Judge(l, reply) ==
    /\ At(l, "ask")
    /\ \E score \in Rounded(Exact(reply, call[l].found)):
          call' = [call EXCEPT ![l] =
             IF score >= 10 * MinScore
             THEN [Idle EXCEPT !.step = "gate", !.score = score]
             ELSE Idle]
    /\ UNCHANGED <<disk, active, candidates>>

JudgeFails(l) ==
    /\ At(l, "ask")
    /\ call' = [call EXCEPT ![l] = Idle]
    /\ UNCHANGED <<disk, active, candidates>>

\* The emulator blocks the commit, or create_candidate starts: the number is
\* taken from the length of the list, then git is awaited.
GateBlocks(l) ==
    /\ At(l, "gate")
    /\ call' = [call EXCEPT ![l] = Idle]
    /\ UNCHANGED <<disk, active, candidates>>

\* The number is the place of the last candidate.
MUTANT_GatePasses(l) ==
    /\ At(l, "gate")
    /\ call' = [call EXCEPT ![l] = [Idle EXCEPT !.step = "git", !.score = call[l].score,
                                      !.number = Len(candidates[TaskOf[l]])]]
    /\ UNCHANGED <<disk, active, candidates>>

GatePasses(l) ==
    /\ At(l, "gate")
    /\ call' = [call EXCEPT ![l] = [Idle EXCEPT !.step = "git", !.score = call[l].score,
                                      !.number = Len(candidates[TaskOf[l]]) + 1]]
    /\ UNCHANGED <<disk, active, candidates>>

\* git is done or has failed: the candidate is listed and announced.
List(l) ==
    /\ At(l, "git")
    /\ candidates' = [candidates EXCEPT ![TaskOf[l]] =
          Append(@, [number |-> call[l].number, by |-> l,
                     testable |-> Testable(call[l].score), status |-> "created"])]
    /\ call' = [call EXCEPT ![l] =
          [Idle EXCEPT !.step = "announce", !.number = Len(candidates[TaskOf[l]]) + 1]]
    /\ UNCHANGED <<disk, active>>

\* After the announcement a testable candidate is recommended.
Recommend(l) ==
    /\ At(l, "announce")
    /\ candidates' =
          IF candidates[TaskOf[l]][call[l].number].testable
          THEN [candidates EXCEPT ![TaskOf[l]][call[l].number].status = "ai_recommended"]
          ELSE candidates
    /\ call' = [call EXCEPT ![l] = Idle]
    /\ UNCHANGED <<disk, active>>

\* cancel_task ends the call at the await it is in.
Cancel(l) ==
    /\ ~At(l, "idle")
    /\ call' = [call EXCEPT ![l] = Idle]
    /\ UNCHANGED <<disk, active, candidates>>

\* The user selects a listed candidate, whatever its status.
Select(t, i) ==
    /\ candidates' = [candidates EXCEPT ![t][i].status = "human_testing"]
    /\ UNCHANGED <<disk, active, call>>

\* Candidates are kept in memory only.
Restart ==
    /\ call' = [l \in Loops |-> Idle]
    /\ candidates' = [t \in Tasks |-> <<>>]
    /\ UNCHANGED <<disk, active>>

Next ==
    \/ \E l \in Loops:
          \/ \E code \in Codes: Write(l, code)
          \/ \E named \in BOOLEAN: Begin(l, named)
          \/ \E claim \in Claims: BeginUnreviewed(l, claim)
          \/ CheckSyntax(l)
          \/ CheckLint(l)
          \/ \E reply \in Replies: Judge(l, reply)
          \/ JudgeFails(l)
          \/ GateBlocks(l)
          \/ GatePasses(l)
          \/ List(l)
          \/ Recommend(l)
          \/ Cancel(l)
    \/ SetReviewer
    \/ \E t \in Tasks: \E i \in DOMAIN candidates[t]: Select(t, i)
    \/ Restart

Spec == Init /\ [][Next]_vars

-----------------------------------------------------------------------------

\* Every variable has its type.
TypeOK ==
    /\ disk \in Findings
    /\ active \in BOOLEAN
    /\ call \in [Loops -> CallRecord]
    /\ candidates \in [Tasks -> Seq(Candidate)]

\* A version number is smaller than the place of its candidate in the list
\* only by candidates that other loops listed while git was awaited: the
\* numbers one loop gives out always grow, and with one loop to a task they
\* are v1, v2, v3 as schemas.py 192 says (version_manager.create_candidate
\* takes the number before it awaits git).
NumberedBehindOthers ==
    \A t \in Tasks: \A i \in DOMAIN candidates[t]:
        LET c == candidates[t][i]
        IN  /\ c.number \in 1..i
            /\ \A j \in c.number..(i - 1): candidates[t][j].by # c.by
=============================================================================
