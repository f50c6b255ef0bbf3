------------------------ MODULE CandidateReviewProofs ------------------------
(***************************************************************************)
(* What CandidateReview promises, for any loops, tasks, codes, replies and *)
(* thresholds.                                                             *)
(***************************************************************************)
EXTENDS MCReviewer, TLAPS

\* The number a call holds: in git, one past the list as it was, with only
\* candidates of other loops added since; later, the place of its candidate.
NumbersHeld ==
    \A l \in Runs:
        LET list == candidates[TaskOf[l]]
            n == call[l].number
        IN  /\ Candidates!At(l, "git") => /\ n \in 1..(Len(list) + 1)
                               /\ \A j \in n..Len(list): list[j].by # l
            /\ Candidates!At(l, "announce") => n \in 1..Len(list)

IInv ==
    /\ Candidates!TypeOK
    /\ NumbersHeld
    /\ Candidates!NumberedBehindOthers

LEMMA CandidatesConstants ==
    /\ TaskOf \in [Runs -> CommitTasks]
    /\ Codes \subseteq Candidates!Findings
    /\ \A r \in Replies: /\ DOMAIN r \subseteq Candidates!Dimensions
                        /\ \A d \in DOMAIN r: r[d] \in Int
    /\ Claims \subseteq Int
    /\ MinScore \in Int
    /\ MaxCandidates \in Nat
BY CandidatesAssumption DEF Candidates!ConstantsOK

-----------------------------------------------------------------------------
(* The arithmetic of the score.                                            *)

LEMMA LoweredType ==
    ASSUME NEW m \in Int, NEW p \in Nat
    PROVE  Candidates!Lowered(m, p) \in Int
BY DEF Candidates!Lowered

LEMMA QualityType ==
    ASSUME NEW m \in Int, NEW f \in Candidates!Findings
    PROVE  Candidates!Quality(m, f) \in Int
<1>1. Candidates!Penalty(f.errors, 15, 30) \in Nat /\ Candidates!Penalty(f.lint, 2, 20) \in Nat
  BY DEF Candidates!Penalty, Candidates!Findings
<1> QED
  BY <1>1, LoweredType DEF Candidates!Quality

LEMMA SecurityType ==
    ASSUME NEW m \in Int, NEW f \in Candidates!Findings
    PROVE  Candidates!Security(m, f) \in Int
<1>1. Candidates!Penalty(f.high, 15, 40) \in Nat /\ Candidates!Penalty(f.medium, 5, 15) \in Nat
  BY DEF Candidates!Penalty, Candidates!Findings
<1> QED
  BY <1>1, LoweredType DEF Candidates!Security

LEMMA ScoreType ==
    ASSUME NEW r \in Replies, NEW f \in Candidates!Findings, NEW s \in Candidates!Rounded(Candidates!Exact(r, f))
    PROVE  s \in Int
<1>1. \A d \in Candidates!Dimensions: Candidates!Mark(r, d) \in Int
  BY CandidatesConstants DEF Candidates!Mark
<1>2. /\ Candidates!Quality(Candidates!Mark(r, "code_quality"), f) \in Int
      /\ Candidates!Security(Candidates!Mark(r, "security"), f) \in Int
  BY <1>1, QualityType, SecurityType DEF Candidates!Dimensions
<1>3. Candidates!Exact(r, f) \in Int
  BY <1>1, <1>2 DEF Candidates!Exact, Candidates!Weight, Candidates!Dimensions
<1> QED
  BY <1>3 DEF Candidates!Rounded

-----------------------------------------------------------------------------

LEMMA CleanTypes == Candidates!Clean \in Candidates!Findings
BY DEF Candidates!Clean, Candidates!Findings

LEMMA IdleTypes == Candidates!Idle \in Candidates!CallRecord
BY DEF Candidates!CallRecord, Candidates!Idle, Candidates!Steps, Candidates!Findings,
     Candidates!Clean

LEMMA GateTypes ==
    ASSUME NEW s \in Int
    PROVE  [Candidates!Idle EXCEPT !.step = "gate", !.score = s]
              \in Candidates!CallRecord
BY IdleTypes DEF Candidates!CallRecord, Candidates!Steps

LEMMA AnnounceTypes ==
    ASSUME NEW n \in Nat
    PROVE  [Candidates!Idle EXCEPT !.step = "announce", !.number = n]
              \in Candidates!CallRecord
BY IdleTypes DEF Candidates!CallRecord, Candidates!Steps

LEMMA InitHolds == Candidates!Init => IInv
<1> SUFFICES ASSUME Candidates!Init PROVE IInv
  OBVIOUS
<1>1. Candidates!TypeOK
  BY IdleTypes DEF Candidates!Init, Candidates!TypeOK, Candidates!Findings, Candidates!Clean
<1>2. NumbersHeld
  BY DEF Candidates!Init, NumbersHeld, Candidates!At, Candidates!Idle
<1>3. Candidates!NumberedBehindOthers
  BY DEF Candidates!Init, Candidates!NumberedBehindOthers
<1> QED
  BY <1>1, <1>2, <1>3 DEF IInv

\* A step that leaves the lists alone and replaces one call by a fitting one.
LEMMA CallStep ==
    ASSUME IInv, NEW l \in Runs, UNCHANGED candidates,
           disk' \in Candidates!Findings, active' \in BOOLEAN,
           NEW c \in Candidates!CallRecord,
           call' = [call EXCEPT ![l] = c],
           c.step = "git" => c.number = Len(candidates[TaskOf[l]]) + 1,
           c.step # "announce"
    PROVE  IInv'
<1>1. Candidates!TypeOK'
  BY DEF IInv, Candidates!TypeOK
<1>2. \A k \in Runs: call'[k] = IF k = l THEN c ELSE call[k]
  BY DEF IInv, Candidates!TypeOK
<1>3. NumbersHeld'
  <2> SUFFICES ASSUME NEW k \in Runs
               PROVE  LET list == candidates[TaskOf[k]]
                          n == call'[k].number
                      IN  /\ call'[k].step = "git" => /\ n \in 1..(Len(list) + 1)
                                                     /\ \A j \in n..Len(list): list[j].by # k
                          /\ call'[k].step = "announce" => n \in 1..Len(list)
    BY DEF NumbersHeld, Candidates!At
  <2>1. Len(candidates[TaskOf[k]]) \in Nat
    BY CandidatesConstants DEF IInv, Candidates!TypeOK
  <2>2. CASE k = l
    BY <1>2, <2>1, <2>2
  <2>3. CASE k # l
    BY <1>2, <2>3 DEF IInv, NumbersHeld, Candidates!At
  <2> QED
    BY <2>2, <2>3
<1>4. Candidates!NumberedBehindOthers'
  BY DEF IInv, Candidates!NumberedBehindOthers
<1> QED
  BY <1>1, <1>3, <1>4 DEF IInv

\* Every call goes through a record with the fields of Idle.
LEMMA CallTypes ==
    ASSUME Candidates!TypeOK, NEW l \in Runs
    PROVE  /\ call[l] \in Candidates!CallRecord
           /\ Len(candidates[TaskOf[l]]) \in Nat
           /\ candidates[TaskOf[l]] \in Seq(Candidates!Candidate)
BY CandidatesConstants DEF Candidates!TypeOK

LEMMA EndsCall ==
    ASSUME IInv, NEW l \in Runs, call' = [call EXCEPT ![l] = Candidates!Idle],
           UNCHANGED <<disk, active, candidates>>
    PROVE  IInv'
<1>1. disk' \in Candidates!Findings /\ active' \in BOOLEAN
  BY DEF IInv, Candidates!TypeOK
<1>2. Candidates!Idle.step = "idle"
  BY DEF Candidates!Idle
<1> QED
  BY <1>1, <1>2, CallStep, IdleTypes

LEMMA BeginKeeps ==
    ASSUME IInv, NEW l \in Runs, NEW named \in BOOLEAN, Candidates!Begin(l, named)
    PROVE  IInv'
<1> DEFINE f == IF named
                THEN [Candidates!Clean EXCEPT !.high = disk.high, !.medium = disk.medium]
                ELSE Candidates!Clean
           c == [Candidates!Idle EXCEPT !.step = "syntax", !.named = named, !.found = f]
<1>1. f \in Candidates!Findings
  BY DEF IInv, Candidates!TypeOK, Candidates!Findings, Candidates!Clean
<1>2. c \in Candidates!CallRecord
  BY <1>1, IdleTypes DEF Candidates!CallRecord, Candidates!Steps
<1>3. c.step = "syntax"
  BY DEF Candidates!Idle
<1>4. call' = [call EXCEPT ![l] = c] /\ UNCHANGED <<disk, active, candidates>>
  BY DEF Candidates!Begin
<1> HIDE DEF c
<1>9. disk' \in Candidates!Findings /\ active' \in BOOLEAN
  BY <1>4 DEF IInv, Candidates!TypeOK
<1> QED
  BY <1>2, <1>3, <1>4, <1>9, CallStep

LEMMA BeginUnreviewedKeeps ==
    ASSUME IInv, NEW l \in Runs, NEW claim \in Claims, Candidates!BeginUnreviewed(l, claim)
    PROVE  IInv'
<1> DEFINE c == [Candidates!Idle EXCEPT !.step = "gate", !.score = 10 * claim]
<1>1. claim \in Int
  BY CandidatesConstants
<1>2. c \in Candidates!CallRecord
  <2>1. 10 * claim \in Int
    BY <1>1
  <2> QED
    BY <2>1, GateTypes
<1>3. c.step = "gate"
  BY DEF Candidates!Idle
<1>4. call' = [call EXCEPT ![l] = c] /\ UNCHANGED <<disk, active, candidates>>
  BY DEF Candidates!BeginUnreviewed
<1> HIDE DEF c
<1>9. disk' \in Candidates!Findings /\ active' \in BOOLEAN
  BY <1>4 DEF IInv, Candidates!TypeOK
<1> QED
  BY <1>2, <1>3, <1>4, <1>9, CallStep

LEMMA CheckSyntaxKeeps ==
    ASSUME IInv, NEW l \in Runs, Candidates!CheckSyntax(l)
    PROVE  IInv'
<1>1. PICK n \in Candidates!Counts(l, disk.errors):
         call' = [call EXCEPT ![l].step = "lint", ![l].found.errors = n]
  BY DEF Candidates!CheckSyntax
<1> DEFINE c == [call[l] EXCEPT !.step = "lint", !.found.errors = n]
<1>2. n \in Nat
  BY <1>1 DEF Candidates!Counts, IInv, Candidates!TypeOK, Candidates!Findings
<1>3. c \in Candidates!CallRecord
  BY <1>2, CallTypes DEF IInv, Candidates!CallRecord, Candidates!Steps, Candidates!Findings
<1>4. c.step = "lint"
  BY CallTypes DEF IInv, Candidates!CallRecord
<1>5. call' = [call EXCEPT ![l] = c]
  BY <1>1 DEF IInv, Candidates!TypeOK
<1>6. UNCHANGED <<disk, active, candidates>>
  BY DEF Candidates!CheckSyntax
<1> HIDE DEF c
<1>9. disk' \in Candidates!Findings /\ active' \in BOOLEAN
  BY <1>6 DEF IInv, Candidates!TypeOK
<1> QED
  BY <1>3, <1>4, <1>5, <1>6, <1>9, CallStep

LEMMA CheckLintKeeps ==
    ASSUME IInv, NEW l \in Runs, Candidates!CheckLint(l)
    PROVE  IInv'
<1>1. PICK n \in Candidates!Counts(l, disk.lint):
         call' = [call EXCEPT ![l].step = "ask", ![l].found.lint = n]
  BY DEF Candidates!CheckLint
<1> DEFINE c == [call[l] EXCEPT !.step = "ask", !.found.lint = n]
<1>2. n \in Nat
  BY <1>1 DEF Candidates!Counts, IInv, Candidates!TypeOK, Candidates!Findings
<1>3. c \in Candidates!CallRecord
  BY <1>2, CallTypes DEF IInv, Candidates!CallRecord, Candidates!Steps, Candidates!Findings
<1>4. c.step = "ask"
  BY CallTypes DEF IInv, Candidates!CallRecord
<1>5. call' = [call EXCEPT ![l] = c]
  BY <1>1 DEF IInv, Candidates!TypeOK
<1>6. UNCHANGED <<disk, active, candidates>>
  BY DEF Candidates!CheckLint
<1> HIDE DEF c
<1>9. disk' \in Candidates!Findings /\ active' \in BOOLEAN
  BY <1>6 DEF IInv, Candidates!TypeOK
<1> QED
  BY <1>3, <1>4, <1>5, <1>6, <1>9, CallStep

LEMMA JudgeKeeps ==
    ASSUME IInv, NEW l \in Runs, NEW r \in Replies, Candidates!Judge(l, r)
    PROVE  IInv'
<1> DEFINE f == call[l].found
<1>1. f \in Candidates!Findings
  BY CallTypes DEF IInv, Candidates!CallRecord
<1>2. PICK s \in Candidates!Rounded(Candidates!Exact(r, f)):
         call' = [call EXCEPT ![l] =
            IF s >= 10 * MinScore
            THEN [Candidates!Idle EXCEPT !.step = "gate", !.score = s]
            ELSE Candidates!Idle]
  BY DEF Candidates!Judge
<1> HIDE DEF f
<1>3. s \in Int
  BY <1>1, <1>2, ScoreType
<1>5. UNCHANGED <<disk, active, candidates>>
  BY DEF Candidates!Judge
<1>6. CASE s >= 10 * MinScore
  <2> DEFINE c == [Candidates!Idle EXCEPT !.step = "gate", !.score = s]
  <2>1. c \in Candidates!CallRecord
    BY <1>3, GateTypes
  <2>2. c.step = "gate"
    BY DEF Candidates!Idle
  <2>3. call' = [call EXCEPT ![l] = c]
    BY <1>2, <1>6
  <2> HIDE DEF c
  <2>4. disk' \in Candidates!Findings /\ active' \in BOOLEAN
    BY <1>5 DEF IInv, Candidates!TypeOK
  <2> QED
    BY <2>1, <2>2, <2>3, <2>4, <1>5, CallStep
<1>7. CASE ~(s >= 10 * MinScore)
  <2>1. call' = [call EXCEPT ![l] = Candidates!Idle]
    BY <1>2, <1>7
  <2> QED
    BY <2>1, <1>5, EndsCall
<1> QED
  BY <1>6, <1>7

LEMMA GatePassesKeeps ==
    ASSUME IInv, NEW l \in Runs, Candidates!GatePasses(l)
    PROVE  IInv'
<1> DEFINE n == Len(candidates[TaskOf[l]]) + 1
           c == [Candidates!Idle EXCEPT !.step = "git", !.score = call[l].score, !.number = n]
<1>1. n \in Nat /\ call[l].score \in Int
  BY CallTypes DEF IInv, Candidates!CallRecord
<1>2. c \in Candidates!CallRecord
  BY <1>1, IdleTypes DEF Candidates!CallRecord, Candidates!Steps
<1>3. c.step = "git" /\ c.number = n
  BY DEF Candidates!Idle
<1>4. call' = [call EXCEPT ![l] = c] /\ UNCHANGED <<disk, active, candidates>>
  BY DEF Candidates!GatePasses
<1> HIDE DEF c
<1>9. disk' \in Candidates!Findings /\ active' \in BOOLEAN
  BY <1>4 DEF IInv, Candidates!TypeOK
<1> QED
  BY <1>2, <1>3, <1>4, <1>9, CallStep

\* The candidate is listed: its number is behind its place only by
\* candidates of other loops, and the other calls see one more of them.
LEMMA ListKeeps ==
    ASSUME IInv, NEW l \in Runs, Candidates!List(l)
    PROVE  IInv'
<1> DEFINE t == TaskOf[l]
           old == candidates[t]
           new == [number |-> call[l].number, by |-> l,
                   testable |-> Candidates!Testable(call[l].score), status |-> "created"]
           c == [Candidates!Idle EXCEPT !.step = "announce", !.number = Len(old) + 1]
<1>1. t \in CommitTasks /\ old \in Seq(Candidates!Candidate) /\ Len(old) \in Nat
  BY CallTypes, CandidatesConstants DEF IInv, Candidates!TypeOK
<1>2. call[l].number \in 1..(Len(old) + 1)
  BY DEF Candidates!List, Candidates!At, IInv, NumbersHeld
<1>4. Candidates!Testable(call[l].score) \in BOOLEAN
  BY DEF Candidates!Testable
<1>5. new \in Candidates!Candidate
  <2>1. call[l].number \in Nat
    BY <1>1, <1>2
  <2> QED
    BY <1>4, <2>1 DEF Candidates!Candidate, Candidates!Statuses
<1>6. c \in Candidates!CallRecord
  <2>1. Len(old) + 1 \in Nat
    BY <1>1
  <2> QED
    BY <2>1, AnnounceTypes
<1>7. /\ call' = [call EXCEPT ![l] = c]
      /\ candidates' = [candidates EXCEPT ![t] = Append(old, new)]
      /\ UNCHANGED <<disk, active>>
  BY DEF Candidates!List
<1>8. \A k \in Runs: call'[k] = IF k = l THEN c ELSE call[k]
  BY <1>7 DEF IInv, Candidates!TypeOK
<1>9. \A u \in CommitTasks: candidates'[u] = IF u = t THEN Append(old, new) ELSE candidates[u]
  BY <1>7 DEF IInv, Candidates!TypeOK
<1>10. /\ Append(old, new) \in Seq(Candidates!Candidate)
       /\ Len(Append(old, new)) = Len(old) + 1
       /\ DOMAIN Append(old, new) = 1..(Len(old) + 1)
       /\ \A i \in 1..Len(old): Append(old, new)[i] = old[i]
       /\ Append(old, new)[Len(old) + 1] = new
  BY <1>1, <1>5
<1>11. c.step = "announce" /\ c.number = Len(old) + 1
  BY DEF Candidates!Idle
<1>12. new.number = call[l].number /\ new.by = l
  OBVIOUS
<1>13. \A j \in call[l].number..Len(old): old[j].by # l
  BY DEF Candidates!List, Candidates!At, IInv, NumbersHeld
<1> HIDE DEF c, new
<1>14. Candidates!TypeOK'
  BY <1>1, <1>6, <1>7, <1>10 DEF IInv, Candidates!TypeOK
<1>18. Candidates!NumberedBehindOthers'
  <2> SUFFICES ASSUME NEW u \in CommitTasks, NEW i \in DOMAIN candidates'[u]
               PROVE  /\ candidates'[u][i].number \in 1..i
                      /\ \A j \in candidates'[u][i].number..(i - 1):
                            candidates'[u][j].by # candidates'[u][i].by
    BY DEF Candidates!NumberedBehindOthers
  <2>1. CASE u # t
    BY <1>9, <2>1 DEF IInv, Candidates!NumberedBehindOthers
  <2>2. CASE u = t
    <3>1. i \in 1..(Len(old) + 1) /\ candidates'[u] = Append(old, new)
      BY <1>9, <1>10, <2>2
    <3>2. CASE i = Len(old) + 1
      <4>1. candidates'[u][i] = new /\ i - 1 = Len(old)
        BY <1>1, <1>10, <3>1, <3>2
      <4>2. \A j \in call[l].number..Len(old): candidates'[u][j].by # l
        BY <1>1, <1>2, <1>10, <1>13, <3>1
      <4> QED
        BY <1>2, <1>12, <3>2, <4>1, <4>2
    <3>3. CASE i # Len(old) + 1
      <4>1. i \in 1..Len(old) /\ i \in DOMAIN old
        BY <1>1, <3>1, <3>3
      <4>2. /\ old[i].number \in 1..i
            /\ \A j \in old[i].number..(i - 1): old[j].by # old[i].by
        BY <1>1, <4>1 DEF IInv, Candidates!NumberedBehindOthers
      <4>3. \A j \in old[i].number..(i - 1): j \in 1..Len(old)
        BY <1>1, <4>1, <4>2
      <4> QED
        BY <1>10, <3>1, <4>1, <4>2, <4>3
    <3> QED
      BY <3>2, <3>3
  <2> QED
    BY <2>1, <2>2
<1>19. NumbersHeld'
  <2> SUFFICES ASSUME NEW k \in Runs
               PROVE  LET list == candidates'[TaskOf[k]]
                          n == call'[k].number
                      IN  /\ call'[k].step = "git" => /\ n \in 1..(Len(list) + 1)
                                                     /\ \A j \in n..Len(list): list[j].by # k
                          /\ call'[k].step = "announce" => n \in 1..Len(list)
    BY DEF NumbersHeld, Candidates!At
  <2>0. TaskOf[k] \in CommitTasks
    BY CandidatesConstants
  <2>1. CASE k = l
    <3>1. call'[k] = c /\ candidates'[TaskOf[k]] = Append(old, new)
      BY <1>8, <1>9, <2>0, <2>1
    <3>2. Len(old) + 1 \in 1..(Len(old) + 1)
      BY <1>1
    <3> QED
      BY <1>10, <1>11, <3>1, <3>2
  <2>2. CASE k # l /\ TaskOf[k] # t
    BY <1>8, <1>9, <2>0, <2>2 DEF IInv, NumbersHeld, Candidates!At
  <2>3. CASE k # l /\ TaskOf[k] = t
    <3>1. call'[k] = call[k] /\ candidates'[TaskOf[k]] = Append(old, new)
      BY <1>1, <1>8, <1>9, <2>3
    <3>2. CASE call[k].step = "git"
      <4>1. /\ call[k].number \in 1..(Len(old) + 1)
            /\ \A j \in call[k].number..Len(old): old[j].by # k
        BY <2>3, <3>2 DEF IInv, NumbersHeld, Candidates!At
      <4>2. ASSUME NEW j \in call[k].number..(Len(old) + 1)
            PROVE  Append(old, new)[j].by # k
        <5>1. CASE j = Len(old) + 1
          BY <1>10, <1>12, <2>3, <5>1
        <5>2. CASE j # Len(old) + 1
          BY <1>1, <1>10, <4>1, <4>2, <5>2
        <5> QED
          BY <5>1, <5>2
      <4> QED
        BY <1>1, <1>10, <3>1, <3>2, <4>1, <4>2
    <3>3. CASE call[k].step = "announce"
      <4>1. call[k].number \in 1..Len(old)
        BY <2>3, <3>3 DEF IInv, NumbersHeld, Candidates!At
      <4> QED
        BY <1>1, <1>10, <3>1, <3>3, <4>1
    <3> QED
      BY <3>1, <3>2, <3>3
  <2> QED
    BY <2>1, <2>2, <2>3
<1> QED
  BY <1>14, <1>18, <1>19 DEF IInv

\* What the numbers rest on: every list keeps its length, and every place
\* its number and its loop.
SamePlaces ==
    \A u \in CommitTasks:
       /\ Len(candidates'[u]) = Len(candidates[u])
       /\ \A j \in 1..Len(candidates[u]):
             /\ candidates'[u][j].number = candidates[u][j].number
             /\ candidates'[u][j].by = candidates[u][j].by

LEMMA PlacesKeep ==
    ASSUME IInv, Candidates!TypeOK', SamePlaces,
           \A k \in Runs: call'[k] = call[k] \/ call'[k] = Candidates!Idle
    PROVE  IInv'
<1>1. \A u \in CommitTasks: /\ Len(candidates[u]) \in Nat
                       /\ DOMAIN candidates[u] = 1..Len(candidates[u])
                       /\ DOMAIN candidates'[u] = 1..Len(candidates[u])
  <2> SUFFICES ASSUME NEW u \in CommitTasks
               PROVE  /\ Len(candidates[u]) \in Nat
                      /\ DOMAIN candidates[u] = 1..Len(candidates[u])
                      /\ DOMAIN candidates'[u] = 1..Len(candidates[u])
    OBVIOUS
  <2>1. candidates[u] \in Seq(Candidates!Candidate) /\ candidates'[u] \in Seq(Candidates!Candidate)
    BY DEF IInv, Candidates!TypeOK
  <2> QED
    BY <2>1 DEF SamePlaces
<1>2. Candidates!NumberedBehindOthers'
  <2> SUFFICES ASSUME NEW u \in CommitTasks, NEW k \in DOMAIN candidates'[u]
               PROVE  /\ candidates'[u][k].number \in 1..k
                      /\ \A j \in candidates'[u][k].number..(k - 1):
                            candidates'[u][j].by # candidates'[u][k].by
    BY DEF Candidates!NumberedBehindOthers
  <2>1. k \in 1..Len(candidates[u]) /\ k \in DOMAIN candidates[u]
    BY <1>1
  <2>2. /\ candidates[u][k].number \in 1..k
        /\ \A j \in candidates[u][k].number..(k - 1):
              candidates[u][j].by # candidates[u][k].by
    BY <2>1 DEF IInv, Candidates!NumberedBehindOthers
  <2>3. \A j \in candidates[u][k].number..(k - 1): j \in 1..Len(candidates[u])
    BY <1>1, <2>1, <2>2
  <2> QED
    BY <2>1, <2>2, <2>3 DEF SamePlaces
<1>3. NumbersHeld'
  <2> SUFFICES ASSUME NEW k \in Runs, call'[k] = call[k]
               PROVE  LET list == candidates'[TaskOf[k]]
                          n == call[k].number
                      IN  /\ call[k].step = "git" => /\ n \in 1..(Len(list) + 1)
                                                    /\ \A j \in n..Len(list): list[j].by # k
                          /\ call[k].step = "announce" => n \in 1..Len(list)
    BY DEF NumbersHeld, Candidates!At, Candidates!Idle
  <2>1. TaskOf[k] \in CommitTasks /\ call[k].number \in Nat
    BY CallTypes, CandidatesConstants DEF IInv, Candidates!CallRecord
  <2>2. CASE call[k].step = "git"
    <3>1. /\ call[k].number \in 1..(Len(candidates[TaskOf[k]]) + 1)
          /\ \A j \in call[k].number..Len(candidates[TaskOf[k]]):
                candidates[TaskOf[k]][j].by # k
      BY <2>2 DEF IInv, NumbersHeld, Candidates!At
    <3> QED
      BY <1>1, <2>1, <2>2, <3>1 DEF SamePlaces
  <2>3. CASE call[k].step = "announce"
    BY <1>1, <2>1, <2>3 DEF IInv, NumbersHeld, Candidates!At, SamePlaces
  <2> QED
    BY <2>2, <2>3
<1> QED
  BY <1>2, <1>3 DEF IInv

\* A new status for one candidate.
LEMMA StatusChange ==
    ASSUME IInv, NEW t \in CommitTasks, NEW i \in DOMAIN candidates[t], NEW status \in Candidates!Statuses,
           candidates' = [candidates EXCEPT ![t][i].status = status]
    PROVE  candidates' \in [CommitTasks -> Seq(Candidates!Candidate)] /\ SamePlaces
<1> DEFINE old == candidates[t]
           new == [old EXCEPT ![i].status = status]
<1>1. old \in Seq(Candidates!Candidate) /\ Len(old) \in Nat /\ i \in 1..Len(old)
  BY DEF IInv, Candidates!TypeOK
<1>2. old[i] \in Candidates!Candidate
  BY <1>1
<1>3. [old[i] EXCEPT !.status = status] \in Candidates!Candidate
  BY <1>2 DEF Candidates!Candidate
<1>4. new \in Seq(Candidates!Candidate) /\ Len(new) = Len(old)
  BY <1>1, <1>3
<1>5. \A j \in 1..Len(old): new[j].number = old[j].number /\ new[j].by = old[j].by
  <2> SUFFICES ASSUME NEW j \in 1..Len(old)
               PROVE  new[j].number = old[j].number /\ new[j].by = old[j].by
    OBVIOUS
  <2>1. new[j] = IF j = i THEN [old[i] EXCEPT !.status = status] ELSE old[j]
    BY <1>1
  <2> QED
    BY <1>2, <2>1 DEF Candidates!Candidate
<1>6. candidates' = [candidates EXCEPT ![t] = new]
  OBVIOUS
<1>7. \A u \in CommitTasks: candidates'[u] = IF u = t THEN new ELSE candidates[u]
  BY <1>6 DEF IInv, Candidates!TypeOK
<1> HIDE DEF new
<1>8. candidates' \in [CommitTasks -> Seq(Candidates!Candidate)]
  BY <1>4, <1>6 DEF IInv, Candidates!TypeOK
<1>9. SamePlaces
  BY <1>4, <1>5, <1>7 DEF SamePlaces
<1> QED
  BY <1>8, <1>9

LEMMA SelectKeeps ==
    ASSUME IInv, NEW t \in CommitTasks, NEW i \in DOMAIN candidates[t], Candidates!Select(t, i)
    PROVE  IInv'
<1>1. candidates' \in [CommitTasks -> Seq(Candidates!Candidate)] /\ SamePlaces
  BY StatusChange DEF Candidates!Select, Candidates!Statuses
<1>2. Candidates!TypeOK'
  BY <1>1 DEF Candidates!Select, IInv, Candidates!TypeOK
<1> QED
  BY <1>1, <1>2, PlacesKeep DEF Candidates!Select

\* A recommendation changes a status at most, and the call ends.
LEMMA RecommendKeeps ==
    ASSUME IInv, NEW l \in Runs, Candidates!Recommend(l)
    PROVE  IInv'
<1> DEFINE t == TaskOf[l]
           n == call[l].number
<1>1. t \in CommitTasks /\ candidates[t] \in Seq(Candidates!Candidate)
  BY CallTypes, CandidatesConstants DEF IInv
<1>2. n \in DOMAIN candidates[t]
  BY <1>1 DEF Candidates!Recommend, Candidates!At, IInv, NumbersHeld
<1>3. candidates' \in [CommitTasks -> Seq(Candidates!Candidate)] /\ SamePlaces
  <2>1. CASE candidates[t][n].testable
    <3>1. candidates' = [candidates EXCEPT ![t][n].status = "ai_recommended"]
      BY <2>1 DEF Candidates!Recommend
    <3> QED
      BY <1>1, <1>2, <3>1, StatusChange DEF Candidates!Statuses
  <2>2. CASE ~candidates[t][n].testable
    BY <2>2 DEF Candidates!Recommend, SamePlaces, IInv, Candidates!TypeOK
  <2> QED
    BY <2>1, <2>2
<1>4. call' = [call EXCEPT ![l] = Candidates!Idle] /\ UNCHANGED <<disk, active>>
  BY DEF Candidates!Recommend
<1>5. \A k \in Runs: call'[k] = call[k] \/ call'[k] = Candidates!Idle
  BY <1>4 DEF IInv, Candidates!TypeOK
<1>6. Candidates!TypeOK'
  BY <1>3, <1>4, IdleTypes DEF IInv, Candidates!TypeOK
<1> QED
  BY <1>3, <1>5, <1>6, PlacesKeep

LEMMA RestartKeeps ==
    ASSUME IInv, Candidates!Restart
    PROVE  IInv'
<1>1. Candidates!TypeOK'
  BY IdleTypes DEF Candidates!Restart, IInv, Candidates!TypeOK
<1>2. NumbersHeld'
  BY DEF Candidates!Restart, NumbersHeld, Candidates!At, Candidates!Idle
<1>3. Candidates!NumberedBehindOthers'
  BY DEF Candidates!Restart, Candidates!NumberedBehindOthers
<1> QED
  BY <1>1, <1>2, <1>3 DEF IInv

-----------------------------------------------------------------------------

\* Steps that change neither calls nor lists.
LEMMA OutsideKeeps ==
    ASSUME IInv, UNCHANGED <<call, candidates>>,
           disk' \in Candidates!Findings, active' \in BOOLEAN
    PROVE  IInv'
BY DEF IInv, Candidates!TypeOK, NumbersHeld, Candidates!NumberedBehindOthers, Candidates!At

LEMMA NextKeeps == IInv /\ [Candidates!Next]_(Candidates!vars) => IInv'
<1> SUFFICES ASSUME IInv, [Candidates!Next]_(Candidates!vars) PROVE IInv'
  OBVIOUS
<1>1. ASSUME NEW l \in Runs, NEW code \in Codes, Candidates!Write(l, code) PROVE IInv'
  BY <1>1, OutsideKeeps, CandidatesConstants DEF Candidates!Write, IInv, Candidates!TypeOK
<1>2. ASSUME NEW l \in Runs, NEW named \in BOOLEAN, Candidates!Begin(l, named) PROVE IInv'
  BY <1>2, BeginKeeps
<1>3. ASSUME NEW l \in Runs, NEW claim \in Claims, Candidates!BeginUnreviewed(l, claim) PROVE IInv'
  BY <1>3, BeginUnreviewedKeeps
<1>4. ASSUME NEW l \in Runs, Candidates!CheckSyntax(l) PROVE IInv'
  BY <1>4, CheckSyntaxKeeps
<1>5. ASSUME NEW l \in Runs, Candidates!CheckLint(l) PROVE IInv'
  BY <1>5, CheckLintKeeps
<1>6. ASSUME NEW l \in Runs, NEW r \in Replies, Candidates!Judge(l, r) PROVE IInv'
  BY <1>6, JudgeKeeps
<1>7. ASSUME NEW l \in Runs, Candidates!JudgeFails(l) \/ Candidates!GateBlocks(l) \/ Candidates!Cancel(l) PROVE IInv'
  BY <1>7, EndsCall DEF Candidates!JudgeFails, Candidates!GateBlocks, Candidates!Cancel
<1>8. ASSUME NEW l \in Runs, Candidates!GatePasses(l) PROVE IInv'
  BY <1>8, GatePassesKeeps
<1>9. ASSUME NEW l \in Runs, Candidates!List(l) PROVE IInv'
  BY <1>9, ListKeeps
<1>10. ASSUME NEW l \in Runs, Candidates!Recommend(l) PROVE IInv'
  BY <1>10, RecommendKeeps
<1>11. CASE Candidates!SetReviewer
  BY <1>11, OutsideKeeps DEF Candidates!SetReviewer, IInv, Candidates!TypeOK
<1>12. ASSUME NEW t \in CommitTasks, NEW i \in DOMAIN candidates[t], Candidates!Select(t, i) PROVE IInv'
  BY <1>12, SelectKeeps
<1>13. CASE Candidates!Restart
  BY <1>13, RestartKeeps
<1>14. CASE UNCHANGED Candidates!vars
  BY <1>14, OutsideKeeps DEF Candidates!vars, IInv, Candidates!TypeOK
<1> QED
  BY <1>1, <1>2, <1>3, <1>4, <1>5, <1>6, <1>7, <1>8, <1>9, <1>10, <1>11, <1>12,
     <1>13, <1>14 DEF Candidates!Next

\* The strengthened invariant of the way to a candidate holds throughout.
THEOREM ReviewInvariance == Candidates!Spec => []IInv
BY InitHolds, NextKeeps, PTL DEF Candidates!Spec

\* Every variable of CandidateReview has its type.
THEOREM ReviewTypeCorrect == Candidates!Spec => []Candidates!TypeOK
BY ReviewInvariance, PTL DEF IInv

\* Numbers fall behind places only by candidates of other loops.
THEOREM NumbersBehindOthers == Candidates!Spec => []NumberedBehindOthers
<1>1. IInv => NumberedBehindOthers
  BY DEF IInv, NumberedBehindOthers
<1> QED BY <1>1, ReviewInvariance, PTL

=============================================================================
