-------------------------- MODULE ReviewGateProofs --------------------------
(* Proofs about ReviewGate for every number of tasks and clients and every *)
(* threshold.                                                              *)
EXTENDS MCReviewer, SequenceTheorems, TLAPS

-----------------------------------------------------------------------------
(* Each behaviour of the whole is one of each of its parts.                *)

LEMMA StepsOfParts ==
    ASSUME [ReviewerNext]_reviewerVars
    PROVE  [Next]_vars /\ [Gate!Next]_(Gate!vars) /\ [Candidates!Next]_(Candidates!vars)
<1> USE DEF reviewerVars, stuckVars, gateVars, candidateVars, Gate!vars, Gate!guardVars,
            Gate!roleVars, Gate!loopVars, Candidates!vars
<1>1. CASE StuckStep
  BY <1>1 DEF StuckStep
<1>2. CASE GateStep
  BY <1>2 DEF GateStep
<1>3. CASE CandidateStep
  BY <1>3 DEF CandidateStep
<1>4. CASE UNCHANGED reviewerVars
  BY <1>4
<1> QED BY <1>1, <1>2, <1>3, <1>4 DEF ReviewerNext

\* What the three places where the Reviewer acts promise of their own steps
\* holds of them together.
THEOREM ReviewerPartsAreImplemented ==
    ReviewerSpec => Spec /\ Gate!Spec /\ Candidates!Spec
<1>1. ReviewerInit => Init /\ Gate!Init /\ Candidates!Init
  BY DEF ReviewerInit
<1> QED BY <1>1, StepsOfParts, PTL DEF ReviewerSpec, Spec, Gate!Spec, Candidates!Spec

-----------------------------------------------------------------------------
(* The gate.                                                               *)

\* The part of TypeOK the argument needs (no history variables).
GateType ==
    /\ raLlm \in LLMs /\ rvLlm \in LLMs
    /\ snapshots \in [Tasks -> {NoSnapshot} \cup (LLMs \X LLMs)]
    /\ rejectCounts \in [Tasks -> Nat]
    /\ unhandled \in SUBSET Tasks
    /\ at \in [Tasks -> {"idle", "turn", "checks", "review", "emulator", "asking"} \cup Gate!Ended]

\* What a restore will put back is a Producer and another Reviewer.
SnapshotsDistinct ==
    \A t \in Tasks : Gate!Swapped(t) => snapshots[t][1] # snapshots[t][2]

GInv == /\ GateType /\ Gate!DistinctRoles /\ SnapshotsDistinct
        /\ Gate!RescueBeforeHuman /\ Gate!RespondedIsSettled

LEMMA GateConstants ==
    /\ Producer \in LLMs /\ Reviewer \in LLMs /\ Producer # Reviewer
    /\ SwapEnabled \in BOOLEAN
    /\ RejectThreshold \in Nat \ {0} /\ MaxReviews \in Nat
    /\ NoSnapshot \notin LLMs \X LLMs
BY GateAssumption DEF Gate!ConstantsOK

LEMMA InitGInv == Gate!Init => GInv
  BY GateConstants
  DEF Gate!Init, GInv, GateType, Gate!DistinctRoles, SnapshotsDistinct, Gate!Swapped,
      Gate!RescueBeforeHuman, Gate!RespondedIsSettled, Gate!ShouldBlockRespond, Gate!Ended

-----------------------------------------------------------------------------
(* The two state machines of RoleSwapManager.                              *)

RolesOK == /\ raLlm \in LLMs /\ rvLlm \in LLMs
           /\ snapshots \in [Tasks -> {NoSnapshot} \cup (LLMs \X LLMs)]
           /\ Gate!DistinctRoles /\ SnapshotsDistinct

LEMMA SwapRoles ==
  ASSUME RolesOK, NEW t \in Tasks, Gate!DoSwap(t)
  PROVE  RolesOK' /\ Gate!Swapped(t)' /\ \A u \in Tasks \ {t} : (Gate!Swapped(u)' <=> Gate!Swapped(u))
<1>1. snapshots'[t] = <<raLlm, rvLlm>> /\ \A u \in Tasks \ {t} : snapshots'[u] = snapshots[u]
  BY DEF Gate!DoSwap, RolesOK
<1>2. snapshots'[t] \in LLMs \X LLMs /\ snapshots'[t] # NoSnapshot
  BY <1>1, GateConstants DEF RolesOK
<1> QED
  BY <1>1, <1>2 DEF Gate!DoSwap, RolesOK, Gate!DistinctRoles, SnapshotsDistinct,
       Gate!Swapped

LEMMA RestoreRoles ==
  ASSUME RolesOK, NEW t \in Tasks, Gate!Restore(t)
  PROVE  RolesOK' /\ \A u \in Tasks \ {t} : (Gate!Swapped(u)' <=> Gate!Swapped(u))
<1>1. CASE Gate!Swapped(t)
  <2>1. snapshots[t] \in LLMs \X LLMs
    BY <1>1 DEF RolesOK, Gate!Swapped
  <2> QED
    BY <1>1, <2>1 DEF Gate!Restore, RolesOK, Gate!DistinctRoles, SnapshotsDistinct,
         Gate!Swapped
<1>2. CASE ~Gate!Swapped(t)
  BY <1>2 DEF Gate!Restore, Gate!roleVars, RolesOK, Gate!DistinctRoles,
       SnapshotsDistinct, Gate!Swapped
<1> QED BY <1>1, <1>2

-----------------------------------------------------------------------------
(* The steps.                                                              *)

LEMMA TaskStep ==
  ASSUME GInv, NEW t \in Tasks, Gate!TaskNext(t)
  PROVE  GInv'
<1> RolesOK
  BY DEF GInv, GateType, RolesOK
<1> USE DEF GInv, GateType, Gate!RescueBeforeHuman, Gate!RespondedIsSettled, Gate!ShouldBlockRespond, Gate!Ended
<1>1. CASE Gate!ReviewRejects(t)
  <2>1. CASE Gate!DoSwap(t) /\ Gate!OnApprove(t)
    <3>1. RolesOK' /\ Gate!Swapped(t)' /\ \A u \in Tasks \ {t} : (Gate!Swapped(u)' <=> Gate!Swapped(u))
      BY <2>1, SwapRoles
    <3>2. GateType'
      BY <1>1, <2>1, <3>1 DEF Gate!ReviewRejects, Gate!OnApprove, RolesOK
    <3>3. t \notin unhandled' /\ \A u \in Tasks \ {t} :
              /\ rejectCounts'[u] = rejectCounts[u] /\ at'[u] = at[u]
              /\ u \in unhandled' <=> u \in unhandled
      BY <1>1, <2>1 DEF Gate!ReviewRejects, Gate!OnApprove
    <3>4. Gate!RescueBeforeHuman' /\ Gate!RespondedIsSettled'
      BY <3>1, <3>3
    <3> QED BY <3>1, <3>2, <3>4 DEF RolesOK
  <2>2. CASE Gate!OnReject(t) /\ UNCHANGED Gate!roleVars /\ (rejectCounts[t] + 1 < RejectThreshold \/ ~Gate!CanSwap(t))
    <3>1. GateType' /\ Gate!DistinctRoles' /\ SnapshotsDistinct'
      BY <1>1, <2>2 DEF Gate!ReviewRejects, Gate!OnReject, Gate!roleVars, Gate!Swapped,
           Gate!DistinctRoles, SnapshotsDistinct
    <3>2. /\ rejectCounts'[t] = rejectCounts[t] + 1 /\ at'[t] = "turn"
          /\ \A u \in Tasks : Gate!Swapped(u)' <=> Gate!Swapped(u)
          /\ \A u \in Tasks \ {t} :
              /\ rejectCounts'[u] = rejectCounts[u] /\ at'[u] = at[u]
              /\ u \in unhandled' <=> u \in unhandled
      BY <1>1, <2>2 DEF Gate!ReviewRejects, Gate!OnReject, Gate!roleVars, Gate!Swapped
    <3>3. rejectCounts[t] + 1 >= RejectThreshold => (SwapEnabled => Gate!Swapped(t))
      BY <2>2, GateConstants DEF Gate!CanSwap
    <3>4. Gate!RescueBeforeHuman' /\ Gate!RespondedIsSettled'
      BY <3>2, <3>3
    <3> QED BY <3>1, <3>4
  <2> QED BY <1>1, <2>1, <2>2 DEF Gate!ReviewRejects
<1>2. CASE Gate!ReviewApproves(t)
  <2>1. RolesOK' /\ \A u \in Tasks \ {t} : (Gate!Swapped(u)' <=> Gate!Swapped(u))
    BY <1>2, RestoreRoles DEF Gate!ReviewApproves
  <2> QED BY <1>2, <2>1, GateConstants DEF Gate!ReviewApproves, Gate!OnApprove, RolesOK
<1>3. CASE Gate!EscalationSucceeds(t)
  <2>1. RolesOK' /\ \A u \in Tasks \ {t} : (Gate!Swapped(u)' <=> Gate!Swapped(u))
    BY <1>3, RestoreRoles DEF Gate!EscalationSucceeds
  <2> QED BY <1>3, <2>1 DEF Gate!EscalationSucceeds, Gate!OnEscalate, RolesOK
<1>4. CASE Gate!Respond(t)
  BY <1>4 DEF Gate!Respond, Gate!guardVars, Gate!roleVars, Gate!Swapped,
       Gate!DistinctRoles, SnapshotsDistinct
<1>5. CASE \/ Gate!Start(t) \/ Gate!BeginCommit(t) \/ Gate!AskReviewer(t) \/ Gate!CommitReturns(t)
           \/ Gate!BeginEscalation(t) \/ Gate!EscalationFails(t) \/ Gate!Prose(t) \/ Gate!Stop(t)
  BY <1>5 DEF Gate!Start, Gate!BeginCommit, Gate!AskReviewer, Gate!CommitReturns,
       Gate!BeginEscalation,
              Gate!EscalationFails, Gate!Prose, Gate!Stop, Gate!guardVars, Gate!roleVars,
                   Gate!Swapped,
              Gate!DistinctRoles, SnapshotsDistinct
<1> QED BY <1>1, <1>2, <1>3, <1>4, <1>5 DEF Gate!TaskNext

LEMMA UserStep ==
  ASSUME GInv, Gate!ManualSwap \/ Gate!SwitchLlm
  PROVE  GInv'
  BY DEF Gate!ManualSwap, Gate!SwitchLlm, Gate!guardVars, Gate!loopVars, GInv, GateType,
       Gate!DistinctRoles,
         SnapshotsDistinct, Gate!Swapped, Gate!RescueBeforeHuman,
              Gate!RespondedIsSettled, Gate!ShouldBlockRespond

\* The strengthened invariant holds in every reachable state.
THEOREM GateInvariance == Gate!Spec => []GInv
<1>1. GInv /\ [Gate!Next]_(Gate!vars) => GInv'
  <2> SUFFICES ASSUME GInv, [Gate!Next]_(Gate!vars) PROVE GInv'
    OBVIOUS
  <2>1. CASE UNCHANGED Gate!vars
    BY <2>1 DEF Gate!vars, Gate!guardVars, Gate!roleVars, Gate!loopVars, GInv, GateType,
         Gate!DistinctRoles,
         SnapshotsDistinct, Gate!Swapped, Gate!RescueBeforeHuman,
              Gate!RespondedIsSettled, Gate!ShouldBlockRespond
  <2> QED BY <2>1, TaskStep, UserStep DEF Gate!Next
<1> QED BY <1>1, InitGInv, PTL DEF Gate!Spec

\* Producer and Reviewer are never the same client, for any number of tasks
\* that swap and restore in any order.
THEOREM RolesStayDistinct == Gate!Spec => []Gate!DistinctRoles
<1>1. GInv => Gate!DistinctRoles
  BY DEF GInv
<1> QED BY <1>1, GateInvariance, PTL

\* With role swap enabled the other client is tried before a human is asked.
THEOREM RescueComesFirst == Gate!Spec => []RescueBeforeHuman
<1>1. GInv => RescueBeforeHuman
  BY DEF GInv, RescueBeforeHuman
<1> QED BY <1>1, GateInvariance, PTL

\* No task ends by respond with unanswered rejections past the threshold.
THEOREM RespondNeedsAnswer == Gate!Spec => []Gate!RespondedIsSettled
<1>1. GInv => Gate!RespondedIsSettled
  BY DEF GInv
<1> QED BY <1>1, GateInvariance, PTL

-----------------------------------------------------------------------------
(* Swaps that are undone in the reverse order.                             *)

\* swapOrder holds every task that has swapped, once.
SwapsOutstanding ==
    /\ swapOrder \in Seq(Tasks)
    /\ \A i, j \in 1 .. Len(swapOrder) : swapOrder[i] = swapOrder[j] => i = j
    /\ \A t \in Tasks : Gate!Swapped(t) <=> \E i \in 1 .. Len(swapOrder) : swapOrder[i] = t

Flip(pair) == <<pair[2], pair[1]>>

\* Undisturbed, the snapshots are a stack: the first has the roles as they are
\* configured, each later one those that the swap before it made.
Nested ==
    disturbed = "no" =>
        /\ Len(swapOrder) = 0 => <<raLlm, rvLlm>> = configured
        /\ Len(swapOrder) # 0 =>
               /\ snapshots[swapOrder[1]] = configured
               /\ <<raLlm, rvLlm>> = Flip(snapshots[swapOrder[Len(swapOrder)]])
        /\ \A i \in 1 .. Len(swapOrder) - 1 :
               snapshots[swapOrder[i + 1]] = Flip(snapshots[swapOrder[i]])

NInv == RolesOK /\ SwapsOutstanding /\ Nested

LEMMA WithoutFacts ==
    ASSUME NEW s \in Seq(Tasks), NEW k \in 1 .. Len(s),
           \A j \in 1 .. Len(s) : s[j] = s[k] => j = k
    PROVE  /\ Gate!Without(s, s[k]) \in Seq(Tasks)
           /\ Len(Gate!Without(s, s[k])) = Len(s) - 1
           /\ \A j \in 1 .. Len(s) - 1 :
                  Gate!Without(s, s[k])[j] = IF j < k THEN s[j] ELSE s[j + 1]
<1>1. Len(s) \in Nat /\ DOMAIN s = 1 .. Len(s) /\ \A j \in 1 .. Len(s) : s[j] \in Tasks
  BY LenProperties
<1>2. (CHOOSE i \in DOMAIN s : s[i] = s[k]) = k
  BY <1>1
<1> DEFINE n == Len(s) - 1
           w == [j \in 1 .. n |-> IF j < k THEN s[j] ELSE s[j + 1]]
<1>3. Gate!Without(s, s[k]) = w
  BY <1>2 DEF Gate!Without
<1>4. n \in Nat
  BY <1>1
<1>5. \A j \in 1 .. n : j \in 1 .. Len(s) /\ j + 1 \in 1 .. Len(s)
  BY <1>1
<1>6. w \in [1 .. n -> Tasks]
  BY <1>1, <1>5
<1> HIDE DEF n
<1>7. w \in Seq(Tasks)
  BY <1>4, <1>6, SeqDef
<1>8. DOMAIN w = 1 .. n /\ DOMAIN w = 1 .. Len(w) /\ Len(w) \in Nat
  BY <1>6, <1>7, LenProperties
<1>9. Len(w) = n
  BY <1>4, <1>8
<1> QED BY <1>3, <1>7, <1>9 DEF n

LEMMA InitNInv == Gate!Init => NInv
<1> SUFFICES ASSUME Gate!Init PROVE NInv
  OBVIOUS
<1>1. RolesOK
  BY GateConstants DEF Gate!Init, RolesOK, Gate!DistinctRoles, SnapshotsDistinct,
       Gate!Swapped
<1>2. swapOrder \in Seq(Tasks) /\ Len(swapOrder) = 0
  BY EmptySeq DEF Gate!Init
<1>3. \A t \in Tasks : ~Gate!Swapped(t)
  BY DEF Gate!Init, Gate!Swapped
<1> QED BY <1>1, <1>2, <1>3 DEF Gate!Init, NInv, SwapsOutstanding, Nested

LEMMA SwapNests ==
    ASSUME NInv, NEW t \in Tasks, ~Gate!Swapped(t), Gate!DoSwap(t)
    PROVE  NInv'
<1> DEFINE n == Len(swapOrder)
<1>1. /\ snapshots' = [snapshots EXCEPT ![t] = <<raLlm, rvLlm>>]
      /\ raLlm' = rvLlm /\ rvLlm' = raLlm
      /\ swapOrder' = Append(swapOrder, t)
      /\ UNCHANGED <<configured, disturbed>>
  BY DEF Gate!DoSwap
<1>2. RolesOK' /\ Gate!Swapped(t)' /\ \A u \in Tasks \ {t} : (Gate!Swapped(u)' <=> Gate!Swapped(u))
  BY SwapRoles DEF NInv
<1>3. n \in Nat /\ \A i \in 1 .. n : swapOrder[i] \in Tasks /\ swapOrder[i] # t
  BY LenProperties DEF NInv, SwapsOutstanding
<1>4. /\ swapOrder' \in Seq(Tasks) /\ Len(swapOrder') = n + 1 /\ swapOrder'[n + 1] = t
      /\ \A i \in 1 .. n : swapOrder'[i] = swapOrder[i]
  BY <1>1, AppendProperties DEF NInv, SwapsOutstanding
<1>5. /\ snapshots'[t] = <<raLlm, rvLlm>>
      /\ \A i \in 1 .. n : snapshots'[swapOrder[i]] = snapshots[swapOrder[i]]
  BY <1>1, <1>3 DEF NInv, RolesOK
<1> HIDE DEF n
<1>6. SwapsOutstanding'
  <2>1. \A i, j \in 1 .. Len(swapOrder') : swapOrder'[i] = swapOrder'[j] => i = j
    <3>1. \A i, j \in 1 .. n : swapOrder[i] = swapOrder[j] => i = j
      BY DEF NInv, SwapsOutstanding, n
    <3>2. \A i \in 1 .. n + 1 : i \in 1 .. n \/ i = n + 1
      BY <1>3
    <3> QED BY <1>3, <1>4, <3>1, <3>2
  <2>2. ASSUME NEW u \in Tasks
        PROVE  Gate!Swapped(u)' <=> \E i \in 1 .. Len(swapOrder') : swapOrder'[i] = u
    <3>1. Gate!Swapped(u) <=> \E i \in 1 .. n : swapOrder[i] = u
      BY DEF NInv, SwapsOutstanding, n
    <3>2. \A i \in 1 .. n + 1 : i \in 1 .. n \/ i = n + 1
      BY <1>3
    <3>3. \A i \in 1 .. n : i \in 1 .. n + 1
      BY <1>3
    <3>4. n + 1 \in 1 .. n + 1
      BY <1>3
    <3> QED BY <1>2, <1>3, <1>4, <3>1, <3>2, <3>3, <3>4
  <2> QED BY <1>4, <2>1, <2>2 DEF SwapsOutstanding
<1>7. Nested'
  <2> SUFFICES ASSUME disturbed' = "no"
               PROVE  /\ snapshots'[swapOrder'[1]] = configured'
                      /\ <<raLlm', rvLlm'>> = Flip(snapshots'[swapOrder'[n + 1]])
                      /\ \A i \in 1 .. n :
                             snapshots'[swapOrder'[i + 1]] = Flip(snapshots'[swapOrder'[i]])
    BY <1>3, <1>4 DEF Nested
  <2>1. disturbed = "no" /\ configured' = configured
    BY <1>1
  <2>2. <<raLlm', rvLlm'>> = Flip(snapshots'[swapOrder'[n + 1]])
    BY <1>1, <1>4, <1>5 DEF Flip
  <2>3. snapshots'[swapOrder'[1]] = configured
    <3>1. CASE n = 0
      BY <1>4, <1>5, <2>1, <3>1 DEF NInv, Nested, n
    <3>2. CASE n # 0
      <4>1. 1 \in 1 .. n
        BY <1>3, <3>2
      <4>2. snapshots[swapOrder[1]] = configured
        BY <2>1, <3>2 DEF NInv, Nested, n
      <4> QED BY <1>4, <1>5, <4>1, <4>2
    <3> QED BY <3>1, <3>2
  <2>4. ASSUME NEW i \in 1 .. n
        PROVE  snapshots'[swapOrder'[i + 1]] = Flip(snapshots'[swapOrder'[i]])
    <3>1. CASE i = n
      <4>1. <<raLlm, rvLlm>> = Flip(snapshots[swapOrder[n]])
        BY <1>3, <2>1, <3>1 DEF NInv, Nested, n
      <4> QED BY <1>4, <1>5, <3>1, <4>1
    <3>2. CASE i # n
      <4>1. i \in 1 .. n - 1 /\ i + 1 \in 1 .. n
        BY <1>3, <3>2
      <4>2. snapshots[swapOrder[i + 1]] = Flip(snapshots[swapOrder[i]])
        BY <2>1, <4>1 DEF NInv, Nested, n
      <4> QED BY <1>4, <1>5, <4>1, <4>2
    <3> QED BY <3>1, <3>2
  <2> QED BY <2>1, <2>2, <2>3, <2>4
<1> QED BY <1>2, <1>6, <1>7 DEF NInv

LEMMA RestoreNests ==
    ASSUME NInv, NEW t \in Tasks, Gate!Restore(t)
    PROVE  NInv'
<1>0. RolesOK' /\ \A u \in Tasks \ {t} : (Gate!Swapped(u)' <=> Gate!Swapped(u))
  BY RestoreRoles DEF NInv
<1>1. CASE ~Gate!Swapped(t)
  <2>1. UNCHANGED <<raLlm, rvLlm, snapshots, configured, swapOrder, disturbed>>
    BY <1>1 DEF Gate!Restore, Gate!roleVars
  <2>2. SwapsOutstanding'
    BY <2>1 DEF NInv, SwapsOutstanding, Gate!Swapped
  <2>3. Nested'
    BY <2>1 DEF NInv, Nested
  <2> QED BY <1>0, <2>2, <2>3 DEF NInv
<1>2. CASE Gate!Swapped(t)
  <2> DEFINE n == Len(swapOrder)
  <2>1. /\ snapshots' = [snapshots EXCEPT ![t] = NoSnapshot]
        /\ raLlm' = snapshots[t][1] /\ rvLlm' = snapshots[t][2]
        /\ swapOrder' = Gate!Without(swapOrder, t)
        /\ disturbed' = IF disturbed = "no" /\ swapOrder[n] # t THEN "order" ELSE disturbed
        /\ configured' = configured
    BY <1>2 DEF Gate!Restore
  <2>2. n \in Nat /\ \A i \in 1 .. n : swapOrder[i] \in Tasks
    BY LenProperties DEF NInv, SwapsOutstanding
  <2>3. PICK k \in 1 .. n : swapOrder[k] = t
    BY <1>2 DEF NInv, SwapsOutstanding
  <2>4. \A i, j \in 1 .. n : swapOrder[i] = swapOrder[j] => i = j
    BY DEF NInv, SwapsOutstanding
  <2>5. /\ swapOrder' \in Seq(Tasks) /\ Len(swapOrder') = n - 1
        /\ \A j \in 1 .. n - 1 :
               swapOrder'[j] = IF j < k THEN swapOrder[j] ELSE swapOrder[j + 1]
    BY <2>1, <2>3, <2>4, WithoutFacts DEF NInv, SwapsOutstanding
  <2>6. \A u \in Tasks : Gate!Swapped(u) <=> \E i \in 1 .. n : swapOrder[i] = u
    BY DEF NInv, SwapsOutstanding
  <2>7. ~Gate!Swapped(t)' /\ \A u \in Tasks \ {t} : snapshots'[u] = snapshots[u]
    BY <2>1 DEF NInv, RolesOK, Gate!Swapped
  <2>8. snapshots[t] \in LLMs \X LLMs
    BY <1>2 DEF NInv, RolesOK, Gate!Swapped
  <2>9. disturbed = "no" =>
          /\ snapshots[swapOrder[1]] = configured
          /\ \A i \in 1 .. n - 1 : snapshots[swapOrder[i + 1]] = Flip(snapshots[swapOrder[i]])
    BY <2>2, <2>3 DEF NInv, Nested
  <2> HIDE DEF n
  <2>10. SwapsOutstanding'
    <3>1. \A i, j \in 1 .. n - 1 : swapOrder'[i] = swapOrder'[j] => i = j
      <4> TAKE i, j \in 1 .. n - 1
      <4>1. /\ i \in 1 .. n /\ i + 1 \in 1 .. n /\ j \in 1 .. n /\ j + 1 \in 1 .. n
        BY <2>2
      <4> QED BY <2>2, <2>3, <2>4, <2>5, <4>1
    <3>2. ASSUME NEW u \in Tasks \ {t}
          PROVE  Gate!Swapped(u)' <=> \E i \in 1 .. n - 1 : swapOrder'[i] = u
      <4>1. ASSUME NEW i \in 1 .. n, swapOrder[i] = u
            PROVE  \E j \in 1 .. n - 1 : swapOrder'[j] = u
        <5>1. CASE i < k
          <6>1. i \in 1 .. n - 1
            BY <2>2, <2>3, <5>1
          <6> QED BY <2>5, <4>1, <5>1, <6>1
        <5>2. CASE i > k
          <6>1. i - 1 \in 1 .. n - 1 /\ ~(i - 1 < k) /\ (i - 1) + 1 = i
            BY <2>2, <2>3, <5>2
          <6> QED BY <2>5, <4>1, <6>1
        <5>3. i # k
          BY <2>3, <4>1
        <5> QED BY <2>2, <5>1, <5>2, <5>3
      <4>2. ASSUME NEW j \in 1 .. n - 1, swapOrder'[j] = u
            PROVE  \E i \in 1 .. n : swapOrder[i] = u
        <5>1. j \in 1 .. n /\ j + 1 \in 1 .. n
          BY <2>2
        <5> QED BY <2>5, <4>2, <5>1
      <4> QED BY <1>0, <2>6, <4>1, <4>2
    <3>3. \A i \in 1 .. n - 1 : swapOrder'[i] # t
      <4> TAKE i \in 1 .. n - 1
      <4>1. i \in 1 .. n /\ i + 1 \in 1 .. n
        BY <2>2
      <4>2. i < k => i # k
        BY <2>2, <2>3
      <4>3. ~(i < k) => i + 1 # k
        BY <2>2, <2>3
      <4> QED BY <2>3, <2>4, <2>5, <4>1, <4>2, <4>3
    <3>4. \A u \in Tasks : Gate!Swapped(u)' <=> \E i \in 1 .. n - 1 : swapOrder'[i] = u
      BY <2>7, <3>2, <3>3
    <3> QED BY <2>5, <3>1, <3>4 DEF SwapsOutstanding
  <2>11. Nested'
    <3> SUFFICES ASSUME disturbed' = "no"
                 PROVE  /\ n - 1 = 0 => <<raLlm', rvLlm'>> = configured
                        /\ n - 1 # 0 =>
                             /\ snapshots'[swapOrder'[1]] = configured
                             /\ <<raLlm', rvLlm'>> = Flip(snapshots'[swapOrder'[n - 1]])
                        /\ \A i \in 1 .. n - 1 - 1 :
                             snapshots'[swapOrder'[i + 1]] = Flip(snapshots'[swapOrder'[i]])
      BY <2>1, <2>5 DEF Nested
    <3>1. disturbed = "no" /\ swapOrder[n] = t
      BY <2>1
    <3>2. k = n
      BY <2>2, <2>3, <2>4, <3>1
    <3>3. \A i \in 1 .. n - 1 : swapOrder'[i] = swapOrder[i]
      BY <2>2, <2>5, <3>2
    <3>4. \A i \in 1 .. n - 1 : snapshots'[swapOrder'[i]] = snapshots[swapOrder[i]]
      <4> TAKE i \in 1 .. n - 1
      <4>1. i \in 1 .. n /\ i # n
        BY <2>2
      <4>2. swapOrder[i] \in Tasks \ {t}
        BY <2>2, <2>3, <2>4, <3>2, <4>1
      <4> QED BY <2>7, <3>3, <4>2
    <3>5. <<raLlm', rvLlm'>> = snapshots[swapOrder[n]]
      BY <2>1, <2>8, <3>1
    <3>6. ASSUME n - 1 = 0
          PROVE  <<raLlm', rvLlm'>> = configured
      <4>1. n = 1
        BY <2>2, <3>6
      <4> QED BY <2>9, <3>1, <3>5, <4>1
    <3>7. ASSUME n - 1 # 0
          PROVE  /\ snapshots'[swapOrder'[1]] = configured
                 /\ <<raLlm', rvLlm'>> = Flip(snapshots'[swapOrder'[n - 1]])
      <4>1. 1 \in 1 .. n - 1 /\ n - 1 \in 1 .. n - 1 /\ (n - 1) + 1 = n
        BY <2>2, <2>3, <3>7
      <4>2. snapshots[swapOrder[n]] = Flip(snapshots[swapOrder[n - 1]])
        BY <2>9, <3>1, <4>1
      <4> QED BY <2>9, <3>1, <3>4, <3>5, <4>1, <4>2
    <3>8. ASSUME NEW i \in 1 .. n - 1 - 1
          PROVE  snapshots'[swapOrder'[i + 1]] = Flip(snapshots'[swapOrder'[i]])
      <4>1. i \in 1 .. n - 1 /\ i + 1 \in 1 .. n - 1
        BY <2>2
      <4> QED BY <2>9, <3>1, <3>4, <4>1
    <3> QED BY <3>6, <3>7, <3>8
  <2> QED BY <1>0, <2>10, <2>11 DEF NInv
<1> QED BY <1>1, <1>2

\* The user: with no swap outstanding the new pair is the configured one.
LEMMA UserNests ==
    ASSUME NInv, GInv, Gate!ManualSwap \/ Gate!SwitchLlm
    PROVE  NInv'
<1>1. RolesOK'
  BY UserStep DEF GInv, GateType, RolesOK
<1>2. /\ swapOrder' = swapOrder /\ snapshots' = snapshots
      /\ configured' = <<raLlm', rvLlm'>>
      /\ disturbed' = IF swapOrder # <<>> THEN "user" ELSE disturbed
  BY DEF Gate!ManualSwap, Gate!SwitchLlm, Gate!ByUser
<1>3. SwapsOutstanding'
  BY <1>2 DEF NInv, SwapsOutstanding, Gate!Swapped
<1>4. swapOrder = <<>> => Len(swapOrder) = 0
  BY EmptySeq
<1>5. Nested'
  BY <1>2, <1>4 DEF NInv, Nested
<1> QED BY <1>1, <1>3, <1>5 DEF NInv

LEMMA NestsStep ==
    ASSUME NInv, GInv, [Gate!Next]_(Gate!vars)
    PROVE  NInv'
<1>1. CASE UNCHANGED Gate!roleVars
  BY <1>1 DEF Gate!roleVars, NInv, RolesOK, Gate!DistinctRoles, SnapshotsDistinct,
       SwapsOutstanding,
              Nested, Gate!Swapped
<1>2. ASSUME NEW t \in Tasks, Gate!TaskNext(t)
      PROVE  \/ UNCHANGED Gate!roleVars \/ Gate!Restore(t)
             \/ Gate!DoSwap(t) /\ ~Gate!Swapped(t)
  BY <1>2 DEF Gate!TaskNext, Gate!Start, Gate!BeginCommit, Gate!AskReviewer,
       Gate!ReviewRejects, Gate!ReviewApproves,
              Gate!CommitReturns, Gate!BeginEscalation, Gate!EscalationSucceeds,
                   Gate!EscalationFails, Gate!Respond,
              Gate!Prose, Gate!Stop, Gate!CanSwap
<1>3. CASE UNCHANGED Gate!vars
  BY <1>1, <1>3 DEF Gate!vars
<1> QED BY <1>1, <1>2, <1>3, SwapNests, RestoreNests, UserNests DEF Gate!Next

\* Swaps that are undone in the reverse order give the roles back as they were
\* configured (role_swap.py, restore), however many tasks swap.
THEOREM NestedSwapsGiveBack == Gate!Spec => []NestedSwapsRestore
<1>1. NInv => NestedSwapsRestore
  BY EmptySeq DEF NInv, Nested, NestedSwapsRestore, Gate!NestedSwapsRestore
<1> QED BY <1>1, InitNInv, NestsStep, GateInvariance, PTL DEF Gate!Spec

-----------------------------------------------------------------------------
(* Types.                                                                  *)

\* A review is begun only below the bound, and counts one.
CountsBounded ==
    \A t \in Tasks : at[t] \in {"checks", "review"} => rejectCounts[t] < MaxReviews

TInv == Gate!TypeOK /\ CountsBounded

LEMMA TypeTaskStep ==
    ASSUME GInv, TInv, NEW t \in Tasks, Gate!TaskNext(t)
    PROVE  /\ rejectCounts' \in [Tasks -> 0 .. MaxReviews] /\ CountsBounded'
           /\ proseRetryDone' \in BOOLEAN /\ configured' \in LLMs \X LLMs
           /\ disturbed' \in {"no", "order", "user"}
<1> MaxReviews \in Nat
  BY GateConstants
<1> USE DEF TInv, Gate!TypeOK, CountsBounded, Gate!guardVars, Gate!roleVars
<1>1. CASE Gate!ReviewRejects(t)
  <2>1. rejectCounts[t] \in Nat /\ rejectCounts[t] < MaxReviews /\ 0 <= MaxReviews
    BY <1>1 DEF Gate!ReviewRejects
  <2>2. rejectCounts[t] + 1 \in 0 .. MaxReviews /\ 0 \in 0 .. MaxReviews
    BY <2>1
  <2>3. PICK n \in 0 .. MaxReviews : rejectCounts' = [rejectCounts EXCEPT ![t] = n]
    BY <1>1, <2>2 DEF Gate!ReviewRejects, Gate!OnApprove, Gate!OnReject
  <2>4. at' = [at EXCEPT ![t] = "turn"] /\ UNCHANGED <<proseRetryDone, configured, disturbed>>
    BY <1>1 DEF Gate!ReviewRejects, Gate!DoSwap
  <2> QED BY <2>3, <2>4
<1>2. CASE Gate!ReviewApproves(t) \/ Gate!EscalationSucceeds(t)
  <2>1. /\ rejectCounts' = [rejectCounts EXCEPT ![t] = 0] \/ rejectCounts' = rejectCounts
        /\ \E place \in {"emulator", "turn"} : at' = [at EXCEPT ![t] = place]
        /\ UNCHANGED <<proseRetryDone, configured>>
    BY <1>2 DEF Gate!ReviewApproves, Gate!EscalationSucceeds, Gate!OnApprove,
         Gate!OnEscalate, Gate!Restore
  <2>2. disturbed' \in {"no", "order", "user"}
    BY <1>2 DEF Gate!ReviewApproves, Gate!EscalationSucceeds, Gate!Restore
  <2>3. 0 \in 0 .. MaxReviews
    OBVIOUS
  <2> QED BY <2>1, <2>2, <2>3
<1>3. CASE Gate!Start(t) \/ Gate!BeginCommit(t) \/ Gate!AskReviewer(t) \/ Gate!CommitReturns(t)
           \/ Gate!BeginEscalation(t) \/ Gate!EscalationFails(t) \/ Gate!Respond(t) \/ Gate!Prose(t) \/ Gate!Stop(t)
  BY <1>3 DEF Gate!Start, Gate!BeginCommit, Gate!AskReviewer, Gate!CommitReturns,
       Gate!BeginEscalation,
              Gate!EscalationFails, Gate!Respond, Gate!Prose, Gate!Stop
<1> QED BY <1>1, <1>2, <1>3 DEF Gate!TaskNext

LEMMA TypeStep ==
    ASSUME GInv, GInv', NInv', TInv, [Gate!Next]_(Gate!vars)
    PROVE  TInv'
<1>1. /\ rejectCounts' \in [Tasks -> 0 .. MaxReviews] /\ CountsBounded'
      /\ proseRetryDone' \in BOOLEAN /\ configured' \in LLMs \X LLMs
      /\ disturbed' \in {"no", "order", "user"}
  <2>1. ASSUME Gate!ManualSwap \/ Gate!SwitchLlm
        PROVE  /\ UNCHANGED <<rejectCounts, at, proseRetryDone>>
               /\ configured' \in LLMs \X LLMs /\ disturbed' \in {"no", "order", "user"}
    BY <2>1 DEF Gate!ManualSwap, Gate!SwitchLlm, Gate!ByUser, Gate!guardVars,
         Gate!loopVars, TInv, Gate!TypeOK
  <2>2. CASE Gate!ManualSwap \/ Gate!SwitchLlm
    BY <2>1, <2>2 DEF TInv, Gate!TypeOK, CountsBounded
  <2>3. CASE UNCHANGED Gate!vars
    BY <2>3 DEF Gate!vars, Gate!guardVars, Gate!roleVars, Gate!loopVars, TInv,
         Gate!TypeOK, CountsBounded
  <2> QED BY <2>2, <2>3, TypeTaskStep DEF Gate!Next
<1>2. /\ raLlm' \in LLMs /\ rvLlm' \in LLMs
      /\ snapshots' \in [Tasks -> {NoSnapshot} \cup (LLMs \X LLMs)]
      /\ unhandled' \in SUBSET Tasks
      /\ at' \in [Tasks -> {"idle", "turn", "checks", "review", "emulator", "asking"}
                           \cup Gate!Ended]
  BY DEF GInv, GateType, Gate!Ended
<1>3. swapOrder' \in Seq(Tasks)
  BY DEF NInv, SwapsOutstanding
<1> QED BY <1>1, <1>2, <1>3 DEF TInv, Gate!TypeOK, Gate!Ended

\* Every variable of the gate has its type; no count passes the bound.
THEOREM GateTypeCorrect == Gate!Spec => []Gate!TypeOK
<1>1. Gate!Init => TInv
  <2> SUFFICES ASSUME Gate!Init PROVE TInv
    OBVIOUS
  <2>1. \A t \in Tasks : rejectCounts[t] = 0 /\ at[t] = "idle"
    BY DEF Gate!Init
  <2>2. 0 \in 0 .. MaxReviews
    BY GateConstants
  <2>3. rejectCounts \in [Tasks -> 0 .. MaxReviews]
    BY <2>2 DEF Gate!Init
  <2>4. /\ raLlm \in LLMs /\ rvLlm \in LLMs /\ configured \in LLMs \X LLMs
        /\ snapshots \in [Tasks -> {NoSnapshot} \cup (LLMs \X LLMs)]
    BY GateConstants DEF Gate!Init
  <2>5. swapOrder \in Seq(Tasks)
    BY EmptySeq DEF Gate!Init
  <2>6. /\ unhandled \in SUBSET Tasks /\ proseRetryDone \in BOOLEAN
        /\ disturbed \in {"no", "order", "user"}
        /\ at \in [Tasks -> {"idle", "turn", "checks", "review", "emulator", "asking"}
                            \cup Gate!Ended]
    BY DEF Gate!Init
  <2> QED BY <2>1, <2>3, <2>4, <2>5, <2>6 DEF TInv, Gate!TypeOK, CountsBounded
<1>2. TInv => Gate!TypeOK
  BY DEF TInv
<1>3. Gate!Spec => []NInv
  BY InitNInv, NestsStep, GateInvariance, PTL DEF Gate!Spec
<1> QED BY <1>1, <1>2, <1>3, GateInvariance, TypeStep, PTL DEF Gate!Spec
=============================================================================
