------------------------ MODULE StuckDetectionProofs ------------------------
(***************************************************************************)
(* What StuckDetection.tla says of every number of runs and every setting  *)
(* of the limits.  ConvergenceDetected is never expanded: nothing below    *)
(* depends on what it takes for failures to converge, only on when the     *)
(* code asks.                                                              *)
(***************************************************************************)
EXTENDS MCReviewer, FiniteSetTheorems, SequenceTheorems, TLAPS

\* The last n elements of a sequence.
LEMMA LastOfType ==
    ASSUME NEW S, NEW s \in Seq(S), NEW n \in Nat
    PROVE  LastOf(n, s) \in Seq(S) /\ Len(LastOf(n, s)) <= n
<1> DEFINE m == IF n < Len(s) THEN n ELSE Len(s)
<1>1. m \in Nat /\ m <= Len(s) /\ m <= n
  OBVIOUS
<1>2. LastOf(n, s) = SubSeq(s, Len(s) - m + 1, Len(s))
  BY DEF LastOf
<1>3. \A i \in (Len(s) - m + 1) .. Len(s) : i \in 1 .. Len(s)
  BY <1>1
<1>4. /\ SubSeq(s, Len(s) - m + 1, Len(s)) \in Seq(S)
      /\ Len(SubSeq(s, Len(s) - m + 1, Len(s))) = m
  <2> HIDE DEF m
  <2>1. Len(s) \in Nat
    OBVIOUS
  <2> DEFINE a == Len(s) - m + 1
  <2>2. a \in Nat /\ 1 <= a /\ a <= Len(s) + 1
    BY <1>1, <2>1
  <2> QED BY <1>1, <1>3, <2>1, <2>2
<1> QED BY <1>1, <1>2, <1>4

LEMMA RememberType ==
    ASSUME TypeOK, NEW failure \in Failure
    PROVE  /\ Remember(failure) \in Seq(Failure)
           /\ Len(Remember(failure)) <= 2 * Window
<1>1. Append(fingerprints, failure) \in Seq(Failure)
  BY DEF TypeOK
<1>2. 2 * Window \in Nat
  BY StuckAssumption DEF StuckAssumption
<1> HIDE DEF LastOf
<1> QED BY <1>1, <1>2, LastOfType DEF Remember

-----------------------------------------------------------------------------
(* Types, and the errors a run that goes on has not used up.               *)

ErrorsLeft == \A r \in Runs : pc[r] # "idle" => consecutive[r] < MaxErrors

LEMMA TypeInit == Init => TypeOK /\ ErrorsLeft
BY StuckAssumption DEF StuckAssumption, Init, TypeOK, ErrorsLeft, PCs, Endings

LEMMA StopType ==
    ASSUME TypeOK, NEW r \in Runs, NEW how \in Endings, Stop(r, how)
    PROVE  /\ pc' \in [Runs -> PCs] /\ calls' \in [Runs -> 0 .. MaxCalls]
           /\ ending' \in [Runs -> Endings]
           /\ pc'[r] = "idle" /\ \A q \in Runs \ {r} : pc'[q] = pc[q]
<1>1. 0 \in 0 .. MaxCalls
  BY StuckAssumption DEF StuckAssumption
<1> QED BY <1>1 DEF Stop, TypeOK, PCs

LEMMA OneMoreError ==
    ASSUME TypeOK, ErrorsLeft, NEW r \in Runs, pc[r] # "idle"
    PROVE  consecutive[r] + 1 \in 0 .. MaxErrors
<1>1. consecutive[r] \in 0 .. MaxErrors
  BY DEF TypeOK
<1>2. consecutive[r] < MaxErrors
  BY DEF ErrorsLeft
<1>3. MaxErrors \in Nat
  BY StuckAssumption DEF StuckAssumption
<1> QED BY <1>1, <1>2, <1>3

\* A run that stops over one more error leaves nobody with too many.
LEMMA StopOverError ==
    ASSUME TypeOK, ErrorsLeft, NEW r \in Runs, NEW how \in Endings, Stop(r, how),
           consecutive' = [consecutive EXCEPT ![r] = @ + 1],
           consecutive[r] + 1 \in 0 .. MaxErrors
    PROVE  /\ pc' \in [Runs -> PCs] /\ calls' \in [Runs -> 0 .. MaxCalls]
           /\ consecutive' \in [Runs -> 0 .. MaxErrors]
           /\ ending' \in [Runs -> Endings] /\ ErrorsLeft'
<1>1. consecutive \in [Runs -> 0 .. MaxErrors]
  BY DEF TypeOK
<1>2. consecutive' \in [Runs -> 0 .. MaxErrors]
  BY <1>1
<1>3. \A q \in Runs \ {r} : consecutive'[q] = consecutive[q]
  BY <1>1
<1>4. /\ pc' \in [Runs -> PCs] /\ calls' \in [Runs -> 0 .. MaxCalls]
      /\ ending' \in [Runs -> Endings]
      /\ pc'[r] = "idle" /\ \A q \in Runs \ {r} : pc'[q] = pc[q]
  BY StopType
<1>5. ErrorsLeft'
  BY <1>3, <1>4 DEF ErrorsLeft
<1> QED BY <1>2, <1>4, <1>5

LEMMA NextCallType ==
    ASSUME TypeOK, NEW r \in Runs, NEW failures, NextCall(r, failures)
    PROVE  /\ pc' \in [Runs -> PCs] /\ calls' \in [Runs -> 0 .. MaxCalls]
           /\ ending' \in [Runs -> Endings]
           /\ \A q \in Runs \ {r} : pc'[q] = pc[q]
<1>1. calls[r] \in 0 .. MaxCalls /\ calls[r] >= 1
  BY DEF NextCall, TypeOK
<1>2. calls[r] - 1 \in 0 .. MaxCalls
  BY <1>1, StuckAssumption DEF StuckAssumption
<1>3. calls' \in [Runs -> 0 .. MaxCalls]
  BY <1>2 DEF NextCall, TypeOK
<1> QED BY <1>3 DEF NextCall, TypeOK, PCs

LEMMA TypeStep ==
    ASSUME TypeOK, ErrorsLeft, [Next]_vars
    PROVE  TypeOK' /\ ErrorsLeft'
<1> USE StuckAssumption DEF StuckAssumption, TypeOK, ErrorsLeft, PCs, Endings, sharedVars, runVars
<1>1. ASSUME NEW r \in Runs, StartRun(r)
      PROVE  TypeOK' /\ ErrorsLeft'
  BY <1>1 DEF StartRun
<1>2. ASSUME NEW r \in Runs, ReplyWithCalls(r)
      PROVE  TypeOK' /\ ErrorsLeft'
  BY <1>2 DEF ReplyWithCalls
<1>3. ASSUME NEW r \in Runs, UnusableReply(r)
      PROVE  TypeOK' /\ ErrorsLeft'
  <2>1. CASE consecutive[r] + 1 >= MaxErrors
    <3>1. Stop(r, "errors") /\ consecutive' = [consecutive EXCEPT ![r] = @ + 1]
      BY <1>3, <2>1 DEF UnusableReply
    <3>2. consecutive[r] + 1 \in 0 .. MaxErrors
      BY <1>3, OneMoreError DEF UnusableReply
    <3>3. /\ pc' \in [Runs -> PCs] /\ calls' \in [Runs -> 0 .. MaxCalls]
          /\ consecutive' \in [Runs -> 0 .. MaxErrors]
          /\ ending' \in [Runs -> Endings] /\ ErrorsLeft'
      BY <3>1, <3>2, StopOverError
    <3> QED BY <1>3, <3>3 DEF UnusableReply
  <2>2. CASE ~(consecutive[r] + 1 >= MaxErrors)
    BY <1>3, <2>2 DEF UnusableReply
  <2> QED BY <2>1, <2>2
<1>4. ASSUME NEW r \in Runs, Answer(r)
      PROVE  TypeOK' /\ ErrorsLeft'
  BY <1>4 DEF Answer, Stop
<1>5. ASSUME NEW r \in Runs, BlockedRespond(r)
      PROVE  TypeOK' /\ ErrorsLeft'
  <2>1. /\ consecutive' = [consecutive EXCEPT ![r] = @ + 1]
        /\ consecutive[r] + 1 \in 0 .. MaxErrors
    BY <1>5, OneMoreError DEF BlockedRespond
  <2>2. CASE consecutive[r] + 1 >= MaxErrors
    <3>1. Stop(r, "errors")
      BY <1>5, <2>2 DEF BlockedRespond
    <3>2. /\ pc' \in [Runs -> PCs] /\ calls' \in [Runs -> 0 .. MaxCalls]
          /\ consecutive' \in [Runs -> 0 .. MaxErrors]
          /\ ending' \in [Runs -> Endings] /\ ErrorsLeft'
      BY <2>1, <3>1, StopOverError
    <3> QED BY <1>5, <3>2 DEF BlockedRespond
  <2>3. CASE ~(consecutive[r] + 1 >= MaxErrors)
    <3>1. NextCall(r, fingerprints)
      BY <1>5, <2>3 DEF BlockedRespond
    <3>2. /\ pc' \in [Runs -> PCs] /\ calls' \in [Runs -> 0 .. MaxCalls]
          /\ ending' \in [Runs -> Endings]
          /\ \A q \in Runs \ {r} : pc'[q] = pc[q]
      BY <3>1, NextCallType
    <3>3. consecutive' \in [Runs -> 0 .. MaxErrors] /\ consecutive'[r] < MaxErrors
      BY <2>1, <2>3
    <3>4. ErrorsLeft'
      BY <2>1, <3>2, <3>3
    <3> QED BY <1>5, <3>2, <3>3, <3>4 DEF BlockedRespond
  <2> QED BY <2>2, <2>3
<1>6. ASSUME NEW r \in Runs, ToolSucceeds(r)
      PROVE  TypeOK' /\ ErrorsLeft'
  BY <1>6, NextCallType DEF ToolSucceeds
<1>7. ASSUME NEW r \in Runs, BuildSucceeds(r)
      PROVE  TypeOK' /\ ErrorsLeft'
  BY <1>7 DEF BuildSucceeds
<1>8. ASSUME NEW r \in Runs, HostTestDone(r)
      PROVE  TypeOK' /\ ErrorsLeft'
  BY <1>8, NextCallType DEF HostTestDone
<1>9. ASSUME NEW r \in Runs, Advised(r)
      PROVE  TypeOK' /\ ErrorsLeft'
  BY <1>9, NextCallType DEF Advised
<1>10. ASSUME NEW r \in Runs, Escalate(r)
       PROVE  TypeOK' /\ ErrorsLeft'
  BY <1>10 DEF Escalate, Stop
<1>11. ASSUME NEW r \in Runs, Cancel(r)
       PROVE  TypeOK' /\ ErrorsLeft'
  BY <1>11 DEF Cancel, Stop
<1>12. ASSUME NEW r \in Runs, NEW failure \in Failure, ToolFails(r, failure)
       PROVE  TypeOK' /\ ErrorsLeft'
  <2>1. CASE failure.tool = "build" /\ ReviewerStepsIn(buildFailures')
    <3>1. /\ pc' = [pc EXCEPT ![r] = "advise"]
          /\ UNCHANGED <<fingerprints, interventions, calls, consecutive, ending>>
      BY <1>12, <2>1 DEF ToolFails
    <3>2. buildFailures' \in 0 .. StuckBuilds /\ streak' \in [Runs -> Nat]
      BY <1>12 DEF ToolFails
    <3> QED BY <1>12, <3>1, <3>2 DEF ToolFails
  <2>2. CASE ~(failure.tool = "build" /\ ReviewerStepsIn(buildFailures'))
    <3>1. CountFailure(r, failure)
      BY <1>12, <2>2 DEF ToolFails
    <3>2. fingerprints' \in Seq(Failure) /\ Len(fingerprints') <= 2 * Window
      BY <3>1, RememberType DEF CountFailure
    <3>3. /\ consecutive' = [consecutive EXCEPT ![r] = @ + 1]
          /\ \/ Stop(r, "errors") \/ Stop(r, "convergence")
             \/ consecutive[r] + 1 < MaxErrors /\ NextCall(r, fingerprints')
      BY <3>1 DEF CountFailure
    <3>4. /\ pc' \in [Runs -> PCs] /\ calls' \in [Runs -> 0 .. MaxCalls]
          /\ consecutive' \in [Runs -> 0 .. MaxErrors]
          /\ ending' \in [Runs -> Endings] /\ ErrorsLeft'
      <4>1. consecutive[r] + 1 \in 0 .. MaxErrors
        BY <1>12, OneMoreError DEF ToolFails
      <4>2. ASSUME NEW how \in {"errors", "convergence"}, Stop(r, how)
            PROVE  /\ pc' \in [Runs -> PCs]
                   /\ calls' \in [Runs -> 0 .. MaxCalls]
                   /\ consecutive' \in [Runs -> 0 .. MaxErrors]
                   /\ ending' \in [Runs -> Endings] /\ ErrorsLeft'
        BY <3>3, <4>1, <4>2, StopOverError
      <4>3. CASE consecutive[r] + 1 < MaxErrors /\ NextCall(r, fingerprints')
        BY <3>3, <4>1, <4>3, NextCallType
      <4> QED BY <3>3, <4>2, <4>3
    <3>5. /\ buildFailures' \in 0 .. StuckBuilds /\ interventions' \in Nat
          /\ streak' \in [Runs -> Nat]
      BY <1>12 DEF ToolFails
    <3> QED BY <3>2, <3>4, <3>5
  <2> QED BY <2>1, <2>2
<1>13. ASSUME UNCHANGED vars
       PROVE  TypeOK' /\ ErrorsLeft'
  BY <1>13 DEF vars
<1> QED BY <1>1, <1>2, <1>3, <1>4, <1>5, <1>6, <1>7, <1>8, <1>9, <1>10,
           <1>11, <1>12, <1>13 DEF Next

\* Type correctness: in particular the list of failures stays trimmed and no
\* run goes on after MaxErrors errors in a row.
THEOREM TypeCorrect == Spec => [](TypeOK /\ ErrorsLeft)
<1>1. TypeOK /\ ErrorsLeft /\ [Next]_vars => (TypeOK /\ ErrorsLeft)'
  BY TypeStep
<1> QED BY TypeInit, <1>1, PTL DEF Spec

-----------------------------------------------------------------------------
(* The cap on interventions.                                               *)

Advising == {r \in Runs : pc[r] = "advise"}

\* Every advice still being awaited has passed the cap already.
InterventionsCommitted ==
    interventions + Cardinality(Advising)
        <= MaxInterventions + Cardinality(Runs) - 1

LEMMA AdvisingFinite ==
    /\ IsFiniteSet(Runs) /\ Cardinality(Runs) \in Nat
    /\ IsFiniteSet(Advising) /\ Cardinality(Advising) \in Nat
    /\ Cardinality(Advising) <= Cardinality(Runs)
BY FS_Subset, FS_CardinalityType, StuckAssumption DEF StuckAssumption, Advising

LEMMA AdvisingFewer ==
    ASSUME NEW r \in Runs, r \notin Advising
    PROVE  Cardinality(Advising) <= Cardinality(Runs) - 1
<1>1. IsFiniteSet(Runs \ {r}) /\ Cardinality(Runs \ {r}) = Cardinality(Runs) - 1
  BY AdvisingFinite, FS_RemoveElement
<1>2. Advising \subseteq Runs \ {r}
  BY DEF Advising
<1> QED BY <1>1, <1>2, FS_Subset

LEMMA CommittedInit == Init => InterventionsCommitted
<1> SUFFICES ASSUME Init PROVE InterventionsCommitted
  OBVIOUS
<1>1. Advising = {} /\ Cardinality(Advising) = 0
  BY FS_EmptySet DEF Init, Advising
<1>2. Cardinality(Runs) \in Nat /\ Cardinality(Runs) # 0
  BY AdvisingFinite, FS_EmptySet, StuckAssumption DEF StuckAssumption
<1> QED BY <1>1, <1>2, StuckAssumption
        DEF StuckAssumption, Init, InterventionsCommitted

LEMMA CommittedStep ==
    ASSUME TypeOK, InterventionsCommitted, [Next]_vars
    PROVE  InterventionsCommitted'
<1>0. /\ interventions \in Nat /\ MaxInterventions \in Nat
      /\ pc \in [Runs -> PCs]
  BY StuckAssumption DEF StuckAssumption, TypeOK
<1>1. ASSUME Advising' \subseteq Advising, interventions' = interventions
      PROVE  InterventionsCommitted'
  <2>1. Cardinality(Advising') <= Cardinality(Advising) /\ Cardinality(Advising') \in Nat
    BY <1>1, AdvisingFinite, FS_Subset, FS_CardinalityType
  <2> QED BY <1>0, <1>1, <2>1, AdvisingFinite DEF InterventionsCommitted
<1>2. ASSUME NEW r \in Runs, BuildSucceeds(r)
      PROVE  InterventionsCommitted'
  <2>1. r \notin Advising' /\ interventions' = 0
    BY <1>0, <1>2 DEF BuildSucceeds, Advising
  <2>2. Cardinality(Advising') <= Cardinality(Runs) - 1
    <3>1. IsFiniteSet(Runs \ {r}) /\ Cardinality(Runs \ {r}) = Cardinality(Runs) - 1
      BY AdvisingFinite, FS_RemoveElement
    <3>2. Advising' \subseteq Runs \ {r}
      BY <2>1 DEF Advising
    <3> QED BY <3>1, <3>2, FS_Subset
  <2>3. Cardinality(Advising') \in Nat
    <3>1. Advising' \subseteq Runs
      BY DEF Advising
    <3> QED BY <3>1, AdvisingFinite, FS_Subset, FS_CardinalityType
  <2> QED BY <1>0, <2>1, <2>2, <2>3, AdvisingFinite DEF InterventionsCommitted
<1>3. ASSUME NEW r \in Runs, Advised(r)
      PROVE  InterventionsCommitted'
  <2>1. /\ pc[r] = "advise" /\ interventions' = interventions + 1
        /\ \E v \in {"tool", "llm", "escalate"} : pc' = [pc EXCEPT ![r] = v]
    BY <1>3 DEF Advised, NextCall
  <2>2. r \in Advising /\ Advising' = Advising \ {r}
    BY <1>0, <2>1 DEF Advising
  <2>3. Cardinality(Advising') = Cardinality(Advising) - 1
    BY <2>2, AdvisingFinite, FS_RemoveElement
  <2> QED BY <1>0, <2>1, <2>3, AdvisingFinite DEF InterventionsCommitted
<1>4. ASSUME NEW r \in Runs, NEW failure \in Failure, ToolFails(r, failure)
      PROVE  InterventionsCommitted'
  <2>1. CASE failure.tool = "build" /\ ReviewerStepsIn(buildFailures')
    <3>1. /\ interventions < MaxInterventions /\ interventions' = interventions
          /\ pc[r] = "tool" /\ pc' = [pc EXCEPT ![r] = "advise"]
      BY <1>4, <2>1 DEF ToolFails, ReviewerStepsIn
    <3>2. r \notin Advising /\ Advising' = Advising \cup {r}
      BY <1>0, <3>1 DEF Advising
    <3>3. Cardinality(Advising') = Cardinality(Advising) + 1
      BY <3>2, AdvisingFinite, FS_AddElement
    <3>4. Cardinality(Advising) <= Cardinality(Runs) - 1
      BY <3>2, AdvisingFewer
    <3> QED BY <1>0, <3>1, <3>3, <3>4, AdvisingFinite DEF InterventionsCommitted
  <2>2. CASE ~(failure.tool = "build" /\ ReviewerStepsIn(buildFailures'))
    <3>1. CountFailure(r, failure) /\ interventions' = interventions
      BY <1>4, <2>2 DEF ToolFails
    <3>2. \E v \in {"idle", "tool", "llm", "escalate"} : pc' = [pc EXCEPT ![r] = v]
      BY <3>1 DEF CountFailure, Stop, NextCall
    <3>3. Advising' \subseteq Advising
      BY <1>0, <3>2 DEF Advising
    <3> QED BY <1>1, <3>1, <3>3
  <2> QED BY <2>1, <2>2
<1>5. ASSUME NEW r \in Runs,
             \/ StartRun(r) \/ ReplyWithCalls(r) \/ UnusableReply(r) \/ Answer(r)
             \/ BlockedRespond(r) \/ ToolSucceeds(r) \/ HostTestDone(r)
             \/ Escalate(r) \/ Cancel(r)
      PROVE  InterventionsCommitted'
  <2>1. /\ interventions' = interventions
        /\ \/ pc' = pc
           \/ \E v \in {"idle", "tool", "llm", "escalate"} : pc' = [pc EXCEPT ![r] = v]
    BY <1>5 DEF StartRun, ReplyWithCalls, UnusableReply, Answer, BlockedRespond,
                ToolSucceeds, HostTestDone, Escalate, Cancel, Stop, NextCall, sharedVars
  <2>2. Advising' \subseteq Advising
    BY <1>0, <2>1 DEF Advising
  <2> QED BY <1>1, <2>1, <2>2
<1>6. ASSUME UNCHANGED vars
      PROVE  InterventionsCommitted'
  <2>1. Advising' \subseteq Advising /\ interventions' = interventions
    BY <1>6 DEF vars, sharedVars, runVars, Advising
  <2> QED BY <1>1, <2>1
<1> QED BY <1>2, <1>3, <1>4, <1>5, <1>6 DEF Next

\* However many runs ask the Reviewer at the same time, the cap on its
\* interventions is exceeded by at most one for every other run.
THEOREM CapNearlyKept == Spec => []InterventionsBounded
<1>1. TypeOK /\ ErrorsLeft /\ InterventionsCommitted /\ [Next]_vars
          => InterventionsCommitted'
  BY CommittedStep
<1>2. TypeOK /\ InterventionsCommitted => InterventionsBounded
  BY AdvisingFinite, StuckAssumption
  DEF StuckAssumption, TypeOK, InterventionsCommitted, InterventionsBounded
<1> QED BY CommittedInit, <1>1, <1>2, TypeCorrect, PTL DEF Spec

-----------------------------------------------------------------------------
(* How long a run may keep failing.                                        *)

\* Every failing call of a streak is paid for: by an error the run still has
\* on its count, or by an intervention that took MaxErrors of them away.
StreakPaid ==
    \A r \in Runs :
        streak[r] <= MaxErrors * interventions
                     + (CASE pc[r] = "idle"   -> MaxErrors
                          [] pc[r] = "advise" -> consecutive[r] + 1
                          [] OTHER            -> consecutive[r])

LEMMA PaidInit == Init => StreakPaid
BY StuckAssumption DEF StuckAssumption, Init, StreakPaid

LEMMA PaidStep ==
    ASSUME TypeOK, ErrorsLeft, TypeOK', StreakPaid, [Next]_vars
    PROVE  StreakPaid'
<1> DEFINE Own(r) == CASE pc[r] = "idle"   -> MaxErrors
                       [] pc[r] = "advise" -> consecutive[r] + 1
                       [] OTHER            -> consecutive[r]
           Paid == MaxErrors * interventions
<1>0. /\ pc \in [Runs -> PCs] /\ consecutive \in [Runs -> 0 .. MaxErrors]
      /\ streak \in [Runs -> Nat] /\ interventions \in Nat
      /\ MaxErrors \in Nat /\ MaxErrors >= 1 /\ Paid \in Nat
  BY StuckAssumption DEF StuckAssumption, TypeOK
<1>a. \A r \in Runs : consecutive[r] \in Nat /\ streak[r] \in Nat
  BY <1>0
<1>b. \A r \in Runs : streak[r] <= Paid + Own(r)
  BY DEF StreakPaid
<1>c. \A r \in Runs : pc[r] # "idle" => consecutive[r] + 1 <= MaxErrors
  BY <1>0, <1>a DEF ErrorsLeft
<1>1. ASSUME interventions' = interventions,
             \A r \in Runs : streak'[r] <= Paid + Own(r)'
      PROVE  StreakPaid'
  BY <1>1 DEF StreakPaid
<1>2. ASSUME NEW r \in Runs, interventions' = interventions,
             \A q \in Runs \ {r} : /\ pc'[q] = pc[q] /\ streak'[q] = streak[q]
                                  /\ consecutive'[q] = consecutive[q],
             streak'[r] <= Paid + Own(r)'
      PROVE  StreakPaid'
  <2>1. \A q \in Runs \ {r} : streak'[q] <= Paid + Own(q)'
    BY <1>b, <1>2
  <2> QED BY <1>1, <1>2, <2>1
<1>3. ASSUME NEW r \in Runs,
             \/ StartRun(r) \/ ToolSucceeds(r)
      PROVE  StreakPaid'
  <2>1. /\ interventions' = interventions /\ streak'[r] = 0
        /\ \A q \in Runs \ {r} : /\ pc'[q] = pc[q] /\ streak'[q] = streak[q]
                                /\ consecutive'[q] = consecutive[q]
        /\ pc'[r] # "advise" /\ consecutive'[r] = 0
    BY <1>0, <1>3 DEF StartRun, ToolSucceeds, NextCall, sharedVars
  <2>2. 0 <= Paid + Own(r)'
    BY <1>0, <2>1
  <2> QED BY <1>2, <2>1, <2>2
<1>4. ASSUME NEW r \in Runs,
             \/ ReplyWithCalls(r) \/ UnusableReply(r) \/ Answer(r) \/ BlockedRespond(r)
             \/ HostTestDone(r) \/ Escalate(r) \/ Cancel(r)
      PROVE  StreakPaid'
  <2>1. /\ interventions' = interventions /\ streak' = streak
        /\ pc[r] # "idle"
        /\ \A q \in Runs \ {r} : pc'[q] = pc[q] /\ consecutive'[q] = consecutive[q]
        /\ \/ pc'[r] = "idle"
           \/ /\ pc[r] # "advise" /\ pc'[r] # "advise"
              /\ consecutive'[r] \in {consecutive[r], consecutive[r] + 1}
    BY <1>0, <1>4 DEF ReplyWithCalls, UnusableReply, Answer, BlockedRespond,
          HostTestDone, Escalate, Cancel, Stop, NextCall, sharedVars
  <2>2. streak[r] <= Paid + Own(r)
    BY <1>b
  <2>3. Own(r) <= Own(r)'
    BY <1>0, <1>a, <1>c, <2>1
  <2>4. Own(r) \in Nat /\ Own(r)' \in Nat
    BY <1>0, <1>a, <2>1
  <2>5. streak'[r] <= Paid + Own(r)'
    <3> HIDE DEF Own
    <3> QED BY <1>0, <1>a, <2>1, <2>2, <2>3, <2>4
  <2> QED BY <1>2, <2>1, <2>5
<1>5. ASSUME NEW r \in Runs, BuildSucceeds(r)
      PROVE  StreakPaid'
  <2>1. \A q \in Runs : streak'[q] = 0
    BY <1>5 DEF BuildSucceeds
  <2>2. /\ interventions' \in Nat /\ consecutive' \in [Runs -> 0 .. MaxErrors]
        /\ MaxErrors * interventions' \in Nat
    <3>1. interventions' = 0 /\ consecutive' \in [Runs -> 0 .. MaxErrors]
      BY <1>5 DEF BuildSucceeds, TypeOK
    <3> QED BY <1>0, <3>1
  <2>3. \A q \in Runs : consecutive'[q] \in Nat
    BY <1>0, <2>2
  <2>4. \A q \in Runs : Own(q)' \in Nat
    BY <1>0, <2>3
  <2>5. \A q \in Runs : streak'[q] <= MaxErrors * interventions' + Own(q)'
    <3> HIDE DEF Own
    <3> QED BY <2>1, <2>2, <2>4
  <2> QED BY <2>5 DEF StreakPaid
<1>6. ASSUME NEW r \in Runs, Advised(r)
      PROVE  StreakPaid'
  <2>1. /\ interventions' = interventions + 1 /\ streak' = streak
        /\ pc[r] = "advise" /\ pc'[r] # "idle" /\ pc'[r] # "advise"
        /\ consecutive'[r] = 0
        /\ \A q \in Runs \ {r} : pc'[q] = pc[q] /\ consecutive'[q] = consecutive[q]
    BY <1>0, <1>6 DEF Advised, NextCall
  <2>2. MaxErrors * interventions' = Paid + MaxErrors
    BY <1>0, <2>1
  <2>3. \A q \in Runs : Own(q) \in Nat /\ Own(q)' \in Nat
    BY <1>0, <1>a, <2>1
  <2>4. Own(r) <= MaxErrors /\ \A q \in Runs \ {r} : Own(q)' = Own(q)
    BY <1>c, <2>1
  <2>5. \A q \in Runs : streak'[q] <= MaxErrors * interventions' + Own(q)'
    <3> HIDE DEF Own
    <3> QED BY <1>0, <1>a, <1>b, <2>1, <2>2, <2>3, <2>4
  <2> QED BY <2>5 DEF StreakPaid
<1>7. ASSUME NEW r \in Runs, NEW failure \in Failure, ToolFails(r, failure)
      PROVE  StreakPaid'
  <2>0. /\ pc[r] = "tool" /\ interventions' = interventions
        /\ streak' = [streak EXCEPT ![r] = @ + 1]
    BY <1>7 DEF ToolFails
  <2>1. CASE failure.tool = "build" /\ ReviewerStepsIn(buildFailures')
    <3>1. pc' = [pc EXCEPT ![r] = "advise"] /\ consecutive' = consecutive
      BY <1>7, <2>1 DEF ToolFails
    <3>2. streak'[r] <= Paid + Own(r)'
      BY <1>0, <1>a, <1>b, <2>0, <3>1
    <3> QED BY <1>0, <1>2, <2>0, <3>1, <3>2
  <2>2. CASE ~(failure.tool = "build" /\ ReviewerStepsIn(buildFailures'))
    <3>1. CountFailure(r, failure)
      BY <1>7, <2>2 DEF ToolFails
    <3>2. /\ consecutive' = [consecutive EXCEPT ![r] = @ + 1]
          /\ \E v \in {"idle", "tool", "llm", "escalate"} : pc' = [pc EXCEPT ![r] = v]
      BY <3>1 DEF CountFailure, Stop, NextCall
    <3>3. streak'[r] <= Paid + Own(r)'
      BY <1>0, <1>a, <1>b, <1>c, <2>0, <3>2
    <3> QED BY <1>0, <1>2, <2>0, <3>2, <3>3
  <2> QED BY <2>1, <2>2
<1>8. ASSUME UNCHANGED vars
      PROVE  StreakPaid'
  BY <1>1, <1>8, <1>b DEF vars, sharedVars, runVars
<1> QED BY <1>3, <1>4, <1>5, <1>6, <1>7, <1>8 DEF Next

\* However the runs interleave, a run stops after a bounded number of failing
\* calls, unless one of them or some run's build succeeds.
THEOREM FailingRunsStop == Spec => []StreakBounded
<1>1. TypeOK /\ ErrorsLeft /\ (TypeOK /\ ErrorsLeft)' /\ StreakPaid /\ [Next]_vars
          => StreakPaid'
  BY PaidStep
<1>2. ASSUME TypeOK, ErrorsLeft, StreakPaid, InterventionsBounded
      PROVE  StreakBounded
  <2>0. /\ MaxErrors \in Nat /\ MaxInterventions \in Nat /\ interventions \in Nat
        /\ Cardinality(Runs) \in Nat
    BY <1>2, AdvisingFinite, StuckAssumption DEF StuckAssumption, TypeOK
  <2>1. interventions + 1 <= MaxInterventions + Cardinality(Runs)
    BY <1>2, <2>0 DEF InterventionsBounded
  <2>2. MaxErrors * (interventions + 1)
            <= MaxErrors * (MaxInterventions + Cardinality(Runs))
    <3>1. \A a, b, c \in Nat : a <= b => c * a <= c * b
      OBVIOUS
    <3> QED BY <2>0, <2>1, <3>1
  <2>3. ASSUME NEW r \in Runs
        PROVE  streak[r] <= MaxErrors * interventions + MaxErrors
    <3>1. /\ streak[r] \in Nat /\ consecutive[r] \in 0 .. MaxErrors
          /\ pc[r] # "idle" => consecutive[r] + 1 <= MaxErrors
      BY <1>2, <2>0 DEF TypeOK, ErrorsLeft
    <3>2. MaxErrors * interventions \in Nat
      BY <2>0
    <3> QED BY <1>2, <2>0, <3>1, <3>2 DEF StreakPaid
  <2>4. MaxErrors * (interventions + 1) = MaxErrors * interventions + MaxErrors
    BY <2>0
  <2> QED BY <1>2, <2>0, <2>2, <2>3, <2>4 DEF StreakBounded, TypeOK
<1> QED BY PaidInit, <1>1, <1>2, TypeCorrect, CapNearlyKept, PTL DEF Spec
=============================================================================
