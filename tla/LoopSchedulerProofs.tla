------------------------- MODULE LoopSchedulerProofs -------------------------
(* Proofs about the scheduler, for every number of loops, requests, tasks  *)
(* and crashes, and about the events on their way to the screens, for      *)
(* every number of screens, publishers and events.                         *)
EXTENDS MCLoopScheduler, SequenceTheorems, FiniteSetTheorems, WellFoundedInduction, TLAPS

\* A task nobody interfered with is the current one of its loop, and not over.
RunsAreCurrent ==
    /\ \A k \in running : k[2] <= started[k[1]]
    /\ \A k \in running \ touched : lp[k[1]].cur = k[2] /\ status[k] = "live"

\* No task is current while the next one is decided about or started.
NoneCurrent ==
    /\ at \in {"judge", "start"} => lp[now].cur = 0
    /\ at = "start" =>
          LET k == <<now, started[now] + 1>> IN
          k[2] <= MaxStarts /\ (k \in touched \/ status[k] = "live")

\* Ids that were not given out yet.
UnusedIds ==
    \A l \in LoopIds :
        /\ lp[l].status = "none" => /\ l \notin present /\ l \notin todo /\ l # now
                                    /\ started[l] = 0 /\ strays[l] = 0
        /\ l \in onDisk => saved[l].status # "none"

\* run_count lags behind the tasks by the crashes, and the file behind run_count
\* by the run of the tick that has not ended.
RunsCounted ==
    /\ \A l \in LoopIds : /\ started[l] <= lp[l].runs + crashes
                          /\ lp[l].max > 0 => lp[l].runs <= lp[l].max
    /\ at = "start" => ~AtLimit(lp[now])

FileLags ==
    /\ onDisk = present
    /\ \A l \in present :
        /\ saved[l].max = lp[l].max
        /\ saved[l].runs <= lp[l].runs /\ lp[l].runs <= saved[l].runs + 1
        /\ lp[l].runs # saved[l].runs =>
              changed /\ at # "idle" /\ l \notin todo /\ (now = l => at = "emit")

\* A loop that has had its stray start is not visited again before it is resumed.
StraysCounted ==
    \A l \in LoopIds :
        /\ ~AtRest(l) => strays[l] = 0
        /\ strays[l] <= 1
        /\ strays[l] # 0 => /\ l \notin todo \/ lp[l].status # "running"
                            /\ ~(now = l /\ at = "judge")

SchedulerInv ==
    /\ TypeOK
    /\ RunsAreCurrent /\ NoneCurrent
    /\ UnusedIds /\ RunsCounted /\ FileLags /\ StraysCounted

-----------------------------------------------------------------------------
(* Records.                                                                *)

LEMMA RecordFacts ==
  ASSUME NEW x \in LoopRecords
  PROVE  /\ [x EXCEPT !.cur = 0] \in LoopRecords
         /\ [x EXCEPT !.status = "completed"] \in LoopRecords
         /\ Rescheduled(x) \in LoopRecords
         /\ \A n \in 0 .. MaxStarts : Recorded(x, n) \in LoopRecords
<1>1. 0 \in 0 .. MaxStarts
  BY SchedulerAssumption DEF SchedulerAssumption
<1>2. [x EXCEPT !.cur = 0] \in LoopRecords /\ [x EXCEPT !.status = "completed"] \in LoopRecords
  BY <1>1 DEF LoopRecords
<1>3. (x.due /\ x.mode \notin {"interval", "daily"}) \in BOOLEAN
  OBVIOUS
<1>4. Rescheduled(x) \in LoopRecords
  BY <1>3 DEF LoopRecords, Rescheduled
<1>5. ASSUME NEW n \in 0 .. MaxStarts PROVE Recorded(x, n) \in LoopRecords
  <2>1. x.runs + 1 \in Nat
    BY DEF LoopRecords
  <2> QED
    BY <2>1 DEF LoopRecords, Recorded
<1> QED
  BY <1>2, <1>4, <1>5

\* What one stretch of visits does to the records: at most it clears the task of
\* a loop whose task is over, and completes the loop.
Visited(r) ==
    /\ lp' \in [LoopIds -> LoopRecords]
    /\ \A l \in LoopIds :
          /\ lp'[l].max = r[l].max /\ lp'[l].runs = r[l].runs
          /\ lp'[l].cur = r[l].cur \/ (lp'[l].cur = 0 /\ ~Busy(l))
          /\ lp'[l].status = r[l].status
                \/ (lp'[l].status = "completed" /\ r[l].status # "none")

\* How it ends: the tick is over, or one more loop is visited up to an await.
Ended(c) ==
    /\ at' = "idle" /\ now' = NoLoop /\ todo' = {} /\ changed' = FALSE
    /\ \/ saved' = lp' /\ onDisk' = present'
       \/ ~c /\ UNCHANGED fileVars
    /\ UNCHANGED <<taskVars, strays>>

Paused(l, T, c) ==
    /\ now' = l /\ todo' \subseteq T \ {l} /\ changed' \in BOOLEAN /\ (c => changed')
    /\ UNCHANGED fileVars
    /\ at' \in {"judge", "start", "emit"}
    /\ at' \in {"judge", "start"} => lp'[l].cur = 0
    /\ at' # "start" => UNCHANGED <<taskVars, strays>>
    /\ at' = "start" =>
          /\ ~AtLimit(lp'[l]) /\ started[l] < MaxStarts
          /\ status' = [status EXCEPT ![<<l, started[l] + 1>>] = "live"]
          /\ touched' = touched \ {<<l, started[l] + 1>>}
          /\ strays' = [strays EXCEPT ![l] = IF AtRest(l) THEN @ + 1 ELSE @]
          /\ running' = running

StretchEffect(T, r, c) ==
    /\ Visited(r)
    /\ UNCHANGED <<present, started, crashes>>
    /\ \/ Ended(c)
       \/ \E l \in T : lp[l].status = "running" /\ Paused(l, T, c)

\* The end of a visit: the loop is completed, or steps 3 and 4 of the visit.
LimitStep(l, rest, r, c) ==
    \/ LimitOrStart(l, rest, r, c)
    \/ /\ Emit(l, rest, Completed(r, l), TRUE)
       /\ UNCHANGED <<taskVars, started, strays, crashes>>

LimitEffect(l, T, r, c) ==
    /\ UNCHANGED <<present, started, crashes>>
    /\ lp' \in [LoopIds -> LoopRecords]
    /\ \A k \in LoopIds :
          /\ lp'[k].max = r[k].max /\ lp'[k].runs = r[k].runs /\ lp'[k].cur = r[k].cur
          /\ lp'[k].status = r[k].status
               \/ (lp'[k].status = "completed" /\ r[k].status # "none")
    /\ Paused(l, T, c)

LEMMA LimitStepEffect ==
  ASSUME NEW l \in LoopIds, NEW T, NEW rest, rest \subseteq T \ {l}, NEW c \in BOOLEAN,
         NEW r, r \in [LoopIds -> LoopRecords], r[l].status # "none", r[l].cur = 0,
         LimitStep(l, rest, r, c)
  PROVE  LimitEffect(l, T, r, c)
<1> USE DEF LimitEffect
<1>1. CASE Emit(l, rest, Completed(r, l), TRUE)
           /\ UNCHANGED <<taskVars, started, strays, crashes>>
  <2>1. lp' = [k \in LoopIds |-> IF k = l THEN [r[l] EXCEPT !.status = "completed"] ELSE r[k]]
    BY <1>1 DEF Emit, Completed, With
  <2>2. r[l] \in LoopRecords /\ \A k \in LoopIds : r[k] \in LoopRecords
    OBVIOUS
  <2>3. lp' \in [LoopIds -> LoopRecords]
    BY <2>1, <2>2, RecordFacts
  <2>4. \A k \in LoopIds :
               /\ lp'[k].max = r[k].max /\ lp'[k].runs = r[k].runs /\ lp'[k].cur = r[k].cur
               /\ lp'[k].status = r[k].status
                    \/ (lp'[k].status = "completed" /\ r[k].status # "none")
    BY <2>1, <2>2 DEF LoopRecords
  <2> QED
    BY <1>1, <2>3, <2>4 DEF Emit, Paused, taskVars
<1>2. CASE ~AtLimit(r[l]) /\ StartTask(l, rest, r, c)
  BY <1>2 DEF StartTask, Paused
<1> QED
  BY <1>1, <1>2 DEF LimitStep, LimitOrStart

LEMMA StretchFacts ==
  ASSUME TypeOK, UnusedIds, NEW T \in SUBSET LoopIds, NEW c \in BOOLEAN,
         NEW r \in [LoopIds -> LoopRecords],
         \A l \in LoopIds : r[l].status = lp[l].status,
         \A l \in T : lp[l].status # "none" /\ r[l] = lp[l],
         Stretch(T, r, c)
  PROVE  StretchEffect(T, r, c)
<1>1. PICK Q \in SUBSET {l \in T : Quiet(l)} :
        LET q == [l \in LoopIds |-> IF l \in Q /\ Notices(l)
                                    THEN [r[l] EXCEPT !.cur = 0] ELSE r[l]]
            d == c \/ \E l \in Q : Notices(l)
        IN  \/ T = Q /\ EndTick(q, d)
            \/ \E l \in T \ Q : ~Quiet(l) /\ StopAt(l, T \ (Q \cup {l}), q, d)
  BY DEF Stretch
<1> DEFINE q == [l \in LoopIds |-> IF l \in Q /\ Notices(l)
                                   THEN [r[l] EXCEPT !.cur = 0] ELSE r[l]]
           d == c \/ \E l \in Q : Notices(l)
<1>2. q \in [LoopIds -> LoopRecords]
  BY RecordFacts
<1>3. \A l \in LoopIds :
          /\ q[l].max = r[l].max /\ q[l].runs = r[l].runs /\ q[l].status = r[l].status
          /\ q[l].cur = r[l].cur \/ (q[l].cur = 0 /\ ~Busy(l))
  BY DEF Notices, PassedOver, LoopRecords
<1>4. d \in BOOLEAN /\ (c => d)
  OBVIOUS
<1>5. CASE T = Q /\ EndTick(q, d)
  BY <1>5, <1>2, <1>3, <1>4 DEF EndTick, Persist, StretchEffect, Visited, Ended, taskVars
<1>6. ASSUME NEW l \in T \ Q, ~Quiet(l), StopAt(l, T \ (Q \cup {l}), q, d)
      PROVE  StretchEffect(T, r, c)
  <2>1. lp[l].status = "running" /\ ~Busy(l)
    BY <1>6 DEF Quiet, PassedOver
  <2> HIDE DEF q, d
  <2> DEFINE z == Cleared(q, l)
             rest == T \ (Q \cup {l})
  <2>2. l \in LoopIds /\ rest \in SUBSET (T \ {l})
    OBVIOUS
  <2>3. z = [k \in LoopIds |-> IF k = l THEN [q[l] EXCEPT !.cur = 0] ELSE q[k]]
    BY DEF Cleared, With
  <2>4. z \in [LoopIds -> LoopRecords]
    BY <1>2, <2>3, RecordFacts
  <2>5. \A k \in LoopIds :
          /\ z[k].max = r[k].max /\ z[k].runs = r[k].runs /\ z[k].status = r[k].status
          /\ z[k].cur = r[k].cur \/ (z[k].cur = 0 /\ ~Busy(k))
    <3>1. ASSUME NEW k \in LoopIds, k # l
          PROVE  z[k] = q[k]
      BY <2>3, <3>1
    <3>2. z[l] = [q[l] EXCEPT !.cur = 0] /\ q[l] \in LoopRecords
      BY <1>2, <2>2, <2>3
    <3>3. /\ z[l].max = q[l].max /\ z[l].runs = q[l].runs
          /\ z[l].status = q[l].status /\ z[l].cur = 0
      BY <3>2 DEF LoopRecords
    <3> QED
      BY <1>3, <2>1, <2>2, <3>1, <3>3
  <2>6. z[l].cur = 0 /\ z[l].status # "none"
    BY <1>2, <2>1, <2>2, <2>3, <2>5 DEF LoopRecords
  <2> HIDE DEF z, rest
  <2>7. CASE AsksJudge(l) /\ lp' = z /\ at' = "judge" /\ now' = l /\ todo' = rest
             /\ changed' = TRUE
             /\ UNCHANGED <<present, fileVars, taskVars, started, strays, crashes>>
    BY <2>1, <2>2, <2>4, <2>5, <2>6, <2>7 DEF StretchEffect, Visited, Paused, taskVars
  <2>8. ASSUME NEW e \in BOOLEAN, c => e, LimitStep(l, rest, z, e)
        PROVE  StretchEffect(T, r, c)
    <3>1. LimitEffect(l, T, z, e)
      BY <2>2, <2>4, <2>6, <2>8, LimitStepEffect
    <3>2. Paused(l, T, c)
      BY <2>8, <3>1 DEF LimitEffect, Paused
    <3> QED
      BY <2>1, <2>5, <3>1, <3>2 DEF LimitEffect, StretchEffect, Visited
  <2>9. Notices(l) \in BOOLEAN
    BY DEF Notices
  <2> QED
    BY <1>4, <1>6, <2>7, <2>8, <2>9 DEF StopAt, z, rest, LimitStep
<1> QED
  BY <1>1, <1>5, <1>6

-----------------------------------------------------------------------------
(* The ends of a stretch preserve the invariant.                           *)

LEMMA PausedKeepsInv ==
  ASSUME SchedulerInv, NEW l \in LoopIds, NEW T \in SUBSET LoopIds, NEW c \in BOOLEAN,
         Visited(lp), UNCHANGED <<present, started, crashes>>, Paused(l, T, c),
         lp[l].status # "none", strays[l] = 0, at # "idle" /\ changed => c,
         l \in present => lp[l].runs = saved[l].runs,
         \A k \in T \ {l} : k \in todo \/ (at = "idle" /\ k \in present)
  PROVE  SchedulerInv'
<1> USE DEF SchedulerInv
<1>1. TypeOK'
  <2>1. l # NoLoop
    BY SchedulerAssumption DEF SchedulerAssumption
  <2>2. lp' \in [LoopIds -> LoopRecords] /\ at' \in {"judge", "start", "emit"} /\ now' = l
        /\ todo' \subseteq LoopIds \ {l} /\ changed' \in BOOLEAN /\ UNCHANGED fileVars
    BY DEF Visited, Paused
  <2>3. CASE at' = "start"
    <3>1. <<l, started[l] + 1>> \in Tasks
      BY <2>3, SchedulerAssumption DEF Paused, TypeOK, Tasks, SchedulerAssumption
    <3>2. /\ status' = [status EXCEPT ![<<l, started[l] + 1>>] = "live"]
          /\ touched' \subseteq touched /\ running' = running
      BY <2>3 DEF Paused
    <3>3. status' \in [Tasks -> {"none", "live", "completed", "failed"}]
      BY <3>1, <3>2 DEF TypeOK
    <3>4. strays' \in [LoopIds -> Nat]
      BY <2>3 DEF Paused, TypeOK
    <3> QED
      BY <2>1, <2>2, <2>3, <3>2, <3>3, <3>4 DEF TypeOK, fileVars
  <2>4. CASE at' # "start"
    BY <2>1, <2>2, <2>4 DEF TypeOK, fileVars, Paused, taskVars
  <2> QED
    BY <2>3, <2>4
<1>2. /\ UNCHANGED <<running, saved, onDisk>> /\ touched' \subseteq touched
      /\ now' = l /\ todo' \subseteq T \ {l} /\ at' \in {"judge", "start", "emit"}
      /\ at # "idle" /\ changed => changed'
  BY DEF Paused, taskVars, fileVars
<1>3. \A k \in LoopIds : lp'[k].max = lp[k].max /\ lp'[k].runs = lp[k].runs
  BY DEF Visited
<1>4. RunsAreCurrent'
  <2>1. ASSUME NEW k \in running, k \notin touched'
        PROVE  lp'[k[1]].cur = k[2] /\ status'[k] = "live"
    <3>1. k \in Tasks /\ k[1] \in LoopIds /\ k[2] \in 1 .. MaxStarts /\ k = <<k[1], k[2]>>
      BY DEF TypeOK, Tasks
    <3>2. k[2] <= started[k[1]] /\ started[l] \in Nat
      BY SchedulerAssumption DEF RunsAreCurrent, TypeOK, SchedulerAssumption
    <3>3. k # <<l, started[l] + 1>>
      BY <3>2
    <3>4. k \notin touched /\ status'[k] = status[k]
      <4>1. CASE at' = "start"
        BY <2>1, <3>1, <3>3, <4>1 DEF Paused, TypeOK
      <4>2. CASE at' # "start"
        BY <2>1, <4>2 DEF Paused, taskVars
      <4> QED
        BY <4>1, <4>2
    <3>5. lp[k[1]].cur = k[2] /\ status[k] = "live"
      BY <2>1, <3>4 DEF RunsAreCurrent
    <3>6. Busy(k[1])
      BY <3>1, <3>5 DEF Busy
    <3> QED
      BY <3>1, <3>4, <3>5, <3>6 DEF Visited
  <2> QED
    BY <1>2, <2>1 DEF RunsAreCurrent
<1>5. NoneCurrent'
  <2>1. CASE at' = "start"
    <3>1. <<l, started[l] + 1>> \in Tasks /\ started[l] + 1 <= MaxStarts
      BY <2>1, SchedulerAssumption DEF Paused, TypeOK, Tasks, SchedulerAssumption
    <3> QED
      BY <1>2, <2>1, <3>1 DEF NoneCurrent, Paused, TypeOK
  <2>2. CASE at' # "start"
    BY <1>2, <2>2 DEF NoneCurrent, Paused
  <2> QED
    BY <2>1, <2>2
<1>6. \A k \in LoopIds : k # l => strays'[k] = strays[k]
  BY DEF Paused, TypeOK, taskVars
<1>7. UnusedIds'
  BY <1>2, <1>6 DEF UnusedIds, Visited
<1>8. RunsCounted'
  BY <1>2, <1>3 DEF RunsCounted, Paused, AtLimit
<1>9. FileLags'
  <2>1. ASSUME NEW k \in present, lp'[k].runs # saved[k].runs
        PROVE  changed' /\ k \notin todo' /\ k # l
    <3>1. k \in LoopIds /\ lp[k].runs # saved[k].runs
      BY <1>3, <2>1 DEF TypeOK
    <3>2. changed /\ at # "idle" /\ k \notin todo /\ k # l
      BY <2>1, <3>1 DEF FileLags
    <3> QED
      BY <1>2, <3>2
  <2>2. \A k \in present : k \in LoopIds
    BY DEF TypeOK
  <2> QED
    BY <1>2, <1>3, <2>1, <2>2 DEF FileLags
<1>10. StraysCounted'
  <2>1. strays'[l] \in {0, 1} /\ (strays'[l] # 0 => at' = "start" /\ AtRest(l))
    BY DEF Paused, TypeOK, taskVars
  <2>2. \A k \in LoopIds : AtRest(k) => AtRest(k)'
    BY DEF AtRest, Visited
  <2>3. ASSUME NEW k \in LoopIds, k # l
        PROVE  /\ ~AtRest(k)' => strays'[k] = 0
               /\ strays'[k] <= 1
               /\ strays'[k] # 0 => k \notin todo' \/ lp'[k].status # "running"
    <3>1. k \in todo' => k \in todo \/ (at = "idle" /\ k \in present)
      BY <1>2
    <3> QED
      BY <1>6, <2>2, <2>3, <3>1 DEF StraysCounted, Visited, AtRest
  <2> QED
    BY <1>2, <2>1, <2>2, <2>3 DEF StraysCounted
<1> QED
  BY <1>1, <1>4, <1>5, <1>7, <1>8, <1>9, <1>10

LEMMA EndedKeepsInv ==
  ASSUME SchedulerInv, NEW c \in BOOLEAN, Visited(lp), UNCHANGED <<present, started, crashes>>,
         Ended(c), ~c => \A l \in present : lp[l].runs = saved[l].runs
  PROVE  SchedulerInv'
<1> USE DEF SchedulerInv
<1>1. /\ UNCHANGED <<running, touched, status, strays>> /\ at' = "idle" /\ now' = NoLoop
      /\ todo' = {} /\ changed' = FALSE
      /\ (saved' = lp' /\ onDisk' = present) \/ (~c /\ saved' = saved /\ onDisk' = onDisk)
  BY DEF Ended, taskVars, fileVars
<1>2. TypeOK'
  BY <1>1 DEF TypeOK, Visited
<1>3. RunsAreCurrent'
  <2>1. ASSUME NEW k \in running, k \notin touched
        PROVE  lp'[k[1]].cur = k[2]
    <3>1. k[1] \in LoopIds /\ k[2] \in 1 .. MaxStarts /\ k = <<k[1], k[2]>>
      BY DEF TypeOK, Tasks
    <3>2. lp[k[1]].cur = k[2] /\ status[k] = "live"
      BY <2>1 DEF RunsAreCurrent
    <3>3. Busy(k[1])
      BY <3>1, <3>2 DEF Busy
    <3> QED
      BY <3>1, <3>2, <3>3 DEF Visited
  <2> QED
    BY <1>1, <2>1 DEF RunsAreCurrent
<1>4. NoneCurrent'
  BY <1>1 DEF NoneCurrent
<1>5. UnusedIds'
  <2>1. \A l \in LoopIds : lp'[l].status = "none" => lp[l].status = "none"
    BY DEF Visited
  <2>2. \A l \in present : lp[l].status # "none"
    BY DEF UnusedIds, TypeOK
  <2>3. \A l \in LoopIds : l \in onDisk' => saved'[l].status # "none"
    BY <1>1, <2>1, <2>2 DEF UnusedIds
  <2>4. NoLoop \notin LoopIds
    BY SchedulerAssumption DEF SchedulerAssumption
  <2> QED
    BY <1>1, <2>1, <2>3, <2>4 DEF UnusedIds
<1>6. RunsCounted'
  BY <1>1 DEF RunsCounted, Visited
<1>7. FileLags'
  <2>1. \A l \in present : l \in LoopIds
    BY DEF TypeOK
  <2>2. \A l \in LoopIds : /\ lp'[l].max = lp[l].max /\ lp'[l].runs = lp[l].runs
                          /\ lp'[l].runs \in Nat
    BY DEF Visited, LoopRecords
  <2> QED
    BY <1>1, <2>1, <2>2 DEF FileLags
<1>8. StraysCounted'
  BY <1>1 DEF StraysCounted, AtRest, Visited
<1> QED
  BY <1>2, <1>3, <1>4, <1>5, <1>6, <1>7, <1>8

-----------------------------------------------------------------------------
(* The background task.                                                    *)

LEMMA StretchKeepsInv ==
  ASSUME SchedulerInv, NEW T \in SUBSET LoopIds, NEW c \in BOOLEAN,
         NEW r \in [LoopIds -> LoopRecords], Stretch(T, r, c),
         \A l \in LoopIds : /\ r[l].status = lp[l].status /\ r[l].max = lp[l].max
                           /\ r[l].runs = lp[l].runs /\ r[l].cur = lp[l].cur,
         \A l \in T : r[l] = lp[l],
         at # "idle" /\ changed => c, ~c => \A l \in present : lp[l].runs = saved[l].runs,
         \A k \in T : k \in todo \/ (at = "idle" /\ k \in present)
  PROVE  SchedulerInv'
<1> USE DEF SchedulerInv
<1>1. \A l \in T : lp[l].status # "none"
  BY DEF UnusedIds
<1>2. StretchEffect(T, r, c)
  BY <1>1, StretchFacts
<1>3. Visited(lp) /\ UNCHANGED <<present, started, crashes>>
  BY <1>2 DEF StretchEffect, Visited
<1>4. CASE Ended(c)
  BY <1>3, <1>4, EndedKeepsInv
<1>5. ASSUME NEW l \in T, lp[l].status = "running", Paused(l, T, c)
      PROVE  SchedulerInv'
  <2>1. l \in LoopIds /\ strays[l] = 0
    BY <1>5 DEF StraysCounted, AtRest
  <2>2. l \in present => lp[l].runs = saved[l].runs
    BY <1>5 DEF FileLags
  <2>3. \A k \in T \ {l} : k \in todo \/ (at = "idle" /\ k \in present)
    OBVIOUS
  <2> QED
    BY <1>1, <1>3, <1>5, <2>1, <2>2, <2>3, PausedKeepsInv
<1> QED
  BY <1>2, <1>4, <1>5 DEF StretchEffect

LEMMA TickKeepsInv ==
  ASSUME SchedulerInv, Tick
  PROVE  SchedulerInv'
<1> USE DEF SchedulerInv
<1>1. /\ lp \in [LoopIds -> LoopRecords] /\ present \in SUBSET LoopIds
      /\ todo \in SUBSET LoopIds /\ changed \in BOOLEAN
  BY DEF TypeOK
<1>2. at # "idle" => now \in LoopIds
  BY DEF TypeOK
<1>3. CASE BeginTick
  <2>1. at = "idle" /\ Stretch(present, lp, FALSE)
    BY <1>3 DEF BeginTick
  <2>2. \A l \in present : lp[l].runs = saved[l].runs
    BY <2>1 DEF FileLags
  <2> QED
    BY <1>1, <2>1, <2>2, StretchKeepsInv
<1>4. CASE AfterEmit
  <2>1. at = "emit" /\ Stretch(todo, lp, changed)
    BY <1>4 DEF AfterEmit
  <2>2. ~changed => \A l \in present : lp[l].runs = saved[l].runs
    BY DEF FileLags
  <2> QED
    BY <1>1, <2>1, <2>2, StretchKeepsInv
<1>5. CASE JudgeAnswers
  <2>1. at = "judge" /\ now \in LoopIds /\ LimitStep(now, todo, lp, TRUE)
    BY <1>2, <1>5 DEF JudgeAnswers, LimitStep
  <2> DEFINE T == todo \cup {now}
  <2>2. T \in SUBSET LoopIds /\ todo \subseteq T \ {now}
    BY <1>1, <2>1 DEF TypeOK
  <2>3. lp[now].status # "none" /\ lp[now].cur = 0
    BY <2>1 DEF UnusedIds, NoneCurrent
  <2> HIDE DEF T
  <2>4. LimitEffect(now, T, lp, TRUE)
    BY <1>1, <2>1, <2>2, <2>3, LimitStepEffect
  <2>5. Visited(lp) /\ UNCHANGED <<present, started, crashes>> /\ Paused(now, T, TRUE)
    BY <2>4 DEF LimitEffect, Visited
  <2>6. strays[now] = 0 /\ (now \in present => lp[now].runs = saved[now].runs)
    BY <2>1 DEF StraysCounted, FileLags
  <2>7. \A k \in T \ {now} : k \in todo
    BY DEF T
  <2> QED
    BY <2>1, <2>2, <2>3, <2>5, <2>6, <2>7, PausedKeepsInv
<1>6. CASE TaskNotStarted
  <2>1. at = "start" /\ now \in LoopIds
        /\ Stretch(todo, With(lp, now, Rescheduled(lp[now])), TRUE)
    BY <1>2, <1>6 DEF TaskNotStarted
  <2> DEFINE r == With(lp, now, Rescheduled(lp[now]))
  <2>2. lp[now] \in LoopRecords /\ Rescheduled(lp[now]) \in LoopRecords
    BY <1>1, <2>1, RecordFacts
  <2>3. r \in [LoopIds -> LoopRecords] /\ r[now] = Rescheduled(lp[now])
        /\ \A l \in LoopIds : l # now => r[l] = lp[l]
    BY <1>1, <2>1, <2>2 DEF With
  <2>4. /\ r[now].status = lp[now].status /\ r[now].max = lp[now].max
        /\ r[now].runs = lp[now].runs /\ r[now].cur = lp[now].cur
    BY <2>2, <2>3 DEF Rescheduled, LoopRecords
  <2> HIDE DEF r
  <2>5. \A l \in LoopIds : /\ r[l].status = lp[l].status /\ r[l].max = lp[l].max
                          /\ r[l].runs = lp[l].runs /\ r[l].cur = lp[l].cur
    BY <2>3, <2>4
  <2>6. \A l \in todo : r[l] = lp[l]
    BY <2>3 DEF TypeOK
  <2>7. Stretch(todo, r, TRUE)
    BY <2>1 DEF r
  <2> QED
    BY <1>1, <2>3, <2>5, <2>6, <2>7, StretchKeepsInv
<1> DEFINE k == <<now, started[now] + 1>>
<1>7. CASE TaskStarted
  <2>1. /\ at = "start" /\ now \in LoopIds /\ started[now] + 1 \in 1 .. MaxStarts
        /\ k \in touched \/ status[k] = "live"
        /\ ~AtLimit(lp[now]) /\ lp[now].cur = 0
    BY <1>2, <1>7, SchedulerAssumption
       DEF TaskStarted, NoneCurrent, RunsCounted, TypeOK, SchedulerAssumption
  <2>2. /\ started' = [started EXCEPT ![now] = @ + 1] /\ started'[now] = started[now] + 1
        /\ running' = running \cup {k}
        /\ at' = "emit" /\ UNCHANGED <<now, todo, present, saved, onDisk, status, touched>>
        /\ UNCHANGED <<strays, crashes>> /\ changed' = TRUE
        /\ lp' = With(lp, now, Rescheduled(Recorded(lp[now], started[now] + 1)))
    BY <1>7, <2>1 DEF TaskStarted, Emit, fileVars, TypeOK
  <2>3. lp[now] \in LoopRecords /\ started[now] + 1 \in 0 .. MaxStarts
    BY <1>1, <2>1
  <2> DEFINE x == Rescheduled(Recorded(lp[now], started[now] + 1))
  <2>4. Recorded(lp[now], started[now] + 1) \in LoopRecords
    BY <2>3, RecordFacts
  <2>5. x \in LoopRecords
    BY <2>4, RecordFacts
  <2>6. /\ x.max = lp[now].max /\ x.runs = lp[now].runs + 1
        /\ x.cur = started[now] + 1 /\ x.status = lp[now].status
    BY <2>3, <2>4 DEF Rescheduled, Recorded, LoopRecords
  <2> HIDE DEF x
  <2>7. lp' \in [LoopIds -> LoopRecords] /\ lp'[now] = x
        /\ \A l \in LoopIds : l # now => lp'[l] = lp[l]
    BY <1>1, <2>1, <2>2, <2>5 DEF With, x
  <2>8. TypeOK'
    <3>1. k \in Tasks
      BY <2>1 DEF Tasks
    <3>2. started' \in [LoopIds -> 0 .. MaxStarts]
      BY <2>1, <2>2 DEF TypeOK
    <3> QED
      BY <2>1, <2>2, <2>7, <3>1, <3>2 DEF TypeOK
  <2>9. RunsAreCurrent'
    <3>1. ASSUME NEW j \in running
          PROVE  j[2] <= started'[j[1]] /\ (j \notin touched => lp'[j[1]].cur = j[2])
      <4>1. j[1] \in LoopIds /\ j[2] \in 1 .. MaxStarts
        BY DEF TypeOK, Tasks
      <4>2. started[j[1]] \in Nat /\ started'[j[1]] \in {started[j[1]], started[j[1]] + 1}
        BY <2>2, <4>1, SchedulerAssumption DEF TypeOK, SchedulerAssumption
      <4>4. j[2] <= started'[j[1]]
        BY <4>1, <4>2 DEF RunsAreCurrent
      <4>3. j \notin touched => j[1] # now
        BY <2>1, <4>1 DEF RunsAreCurrent
      <4> QED
        BY <2>7, <4>1, <4>3, <4>4 DEF RunsAreCurrent
    <3> QED
      BY <2>1, <2>2, <2>6, <2>7, <3>1 DEF RunsAreCurrent
  <2>10. NoneCurrent' /\ UnusedIds'
    BY <2>1, <2>2, <2>6, <2>7 DEF NoneCurrent, UnusedIds, TypeOK
  <2>11. RunsCounted'
    <3>1. lp[now].max > 0 => lp[now].runs + 1 <= lp[now].max
      BY <2>1, <2>3 DEF AtLimit, LoopRecords
    <3>2. started[now] \in Nat /\ lp[now].runs \in Nat /\ crashes \in Nat
      BY <2>1, <2>3, SchedulerAssumption DEF TypeOK, LoopRecords, SchedulerAssumption
    <3>3. \A l \in LoopIds : l # now => started'[l] = started[l]
      BY <2>2 DEF TypeOK
    <3> QED
      BY <2>1, <2>2, <2>6, <2>7, <3>1, <3>2, <3>3 DEF RunsCounted
  <2>12. FileLags'
    <3>1. now \in present => lp[now].runs = saved[now].runs
      BY <2>1 DEF FileLags
    <3>2. lp[now].runs \in Nat /\ now \notin todo
      BY <2>1, <2>3 DEF LoopRecords, TypeOK
    <3>3. \A l \in present : l \in LoopIds
      BY DEF TypeOK
    <3> QED
      BY <2>1, <2>2, <2>6, <2>7, <3>1, <3>2, <3>3 DEF FileLags
  <2>13. StraysCounted'
    BY <2>1, <2>2, <2>6, <2>7 DEF StraysCounted, AtRest, TypeOK
  <2> QED
    BY <2>8, <2>9, <2>10, <2>11, <2>12, <2>13
<1> QED
  BY <1>3, <1>4, <1>5, <1>6, <1>7 DEF Tick

-----------------------------------------------------------------------------
(* The routes and time.                                                    *)

LEMMA CreateKeepsInv ==
  ASSUME SchedulerInv, NEW l \in LoopIds, NEW q \in Requests, CreateLoop(l, q[1], q[2])
  PROVE  SchedulerInv'
<1> USE DEF SchedulerInv
<1> DEFINE x == [mode |-> q[1],
                 max |-> IF q[1] \in {"iterate", "goal"} /\ q[2] = 0
                         THEN IterateLimit ELSE q[2],
                 status |-> "running", runs |-> 0, cur |-> 0, due |-> q[1] # "daily"]
<1>1. q[1] \in Modes /\ q[2] \in Nat /\ IterateLimit \in Nat /\ 0 \in 0 .. MaxStarts
  BY SchedulerAssumption DEF SchedulerAssumption
<1>2. x \in LoopRecords
  BY <1>1 DEF LoopRecords
<1>3. /\ lp' = [lp EXCEPT ![l] = x] /\ present' = present \cup {l}
      /\ saved' = lp' /\ onDisk' = present'
      /\ UNCHANGED <<at, now, todo, changed, status, running, touched, started, strays, crashes>>
  BY DEF CreateLoop, Persist, tickVars, taskVars
<1>4. l \notin present /\ l \notin todo /\ l # now /\ started[l] = 0 /\ strays[l] = 0
  BY DEF CreateLoop, UnusedIds
<1>5. x.status = "running" /\ x.runs = 0 /\ x.cur = 0 /\ x.max \in Nat
  BY <1>1
<1> HIDE DEF x
<1>6. lp' \in [LoopIds -> LoopRecords] /\ lp'[l] = x /\ \A k \in LoopIds : k # l => lp'[k] = lp[k]
  BY <1>2, <1>3 DEF TypeOK
<1>7. TypeOK'
  BY <1>3, <1>6 DEF TypeOK
<1>8. RunsAreCurrent'
  <2>1. ASSUME NEW k \in running, k \notin touched
        PROVE  lp'[k[1]].cur = k[2]
    <3>1. k[1] \in LoopIds /\ k[2] \in 1 .. MaxStarts /\ k[2] <= started[k[1]]
      BY DEF TypeOK, Tasks, RunsAreCurrent
    <3>2. k[1] # l
      BY <1>4, <3>1
    <3> QED
      BY <1>6, <2>1, <3>1, <3>2 DEF RunsAreCurrent
  <2> QED
    BY <1>3, <2>1 DEF RunsAreCurrent
<1>9. NoneCurrent' /\ UnusedIds'
  BY <1>3, <1>4, <1>5, <1>6 DEF NoneCurrent, UnusedIds, TypeOK
<1>10. RunsCounted'
  <2>1. crashes \in Nat
    BY SchedulerAssumption DEF TypeOK, SchedulerAssumption
  <2>2. at = "start" => now \in LoopIds
    BY DEF TypeOK
  <2> QED
    BY <1>3, <1>4, <1>5, <1>6, <2>1, <2>2 DEF RunsCounted, AtLimit
<1>11. FileLags'
  <2>1. \A k \in LoopIds : lp'[k].runs \in Nat
    BY <1>6 DEF LoopRecords
  <2>2. present' \subseteq LoopIds
    BY <1>3 DEF TypeOK
  <2> QED
    BY <1>3, <2>1, <2>2 DEF FileLags
<1>12. StraysCounted'
  BY <1>3, <1>4, <1>6 DEF StraysCounted, AtRest
<1> QED
  BY <1>7, <1>8, <1>9, <1>10, <1>11, <1>12

\* A change of status or due, written to the file.
LEMMA SavedChangeKeepsInv ==
  ASSUME SchedulerInv, NEW l \in LoopIds, lp' \in [LoopIds -> LoopRecords],
         \A k \in LoopIds :
             /\ lp'[k].max = lp[k].max /\ lp'[k].runs = lp[k].runs /\ lp'[k].cur = lp[k].cur
             /\ lp'[k].status = "none" => lp[k].status = "none"
             /\ k # l => lp'[k].status = lp[k].status,
         present' \subseteq present,
         \/ saved' = lp' /\ onDisk' = present'
         \/ present' = present /\ UNCHANGED fileVars,
         UNCHANGED <<tickVars, taskVars, started, crashes>>,
         strays' = strays \/ (l \in present /\ strays' = [strays EXCEPT ![l] = 0]),
         lp'[l].status = "running" => lp[l].status = "running" \/ strays'[l] = 0
  PROVE  SchedulerInv'
<1> USE DEF SchedulerInv
<1>1. UNCHANGED <<at, now, todo, changed, status, running, touched, started, crashes>>
  BY DEF tickVars, taskVars
<1>2. strays' \in [LoopIds -> Nat] /\ \A k \in LoopIds : strays'[k] = strays[k] \/ strays'[k] = 0
  BY DEF TypeOK
<1>3. present' \subseteq LoopIds /\ \A k \in LoopIds : lp'[k].runs \in Nat
  BY DEF TypeOK, LoopRecords
<1>4. TypeOK'
  BY <1>1, <1>2, <1>3 DEF TypeOK, fileVars
<1>5. RunsAreCurrent'
  BY <1>1 DEF RunsAreCurrent, TypeOK, Tasks
<1>6. NoneCurrent'
  BY <1>1 DEF NoneCurrent, TypeOK
<1>7. UnusedIds'
  <2>1. \A k \in present : lp[k].status # "none" /\ k \in LoopIds
    BY DEF UnusedIds, TypeOK
  <2>2. \A k \in LoopIds : k \in onDisk' => saved'[k].status # "none"
    BY <2>1 DEF UnusedIds, fileVars
  <2> QED
    BY <1>1, <1>2, <2>2 DEF UnusedIds
<1>8. RunsCounted'
  BY <1>1 DEF RunsCounted, AtLimit, TypeOK
<1>9. FileLags'
  <2>1. CASE saved' = lp' /\ onDisk' = present'
    BY <1>3, <2>1 DEF FileLags
  <2>2. CASE present' = present /\ UNCHANGED fileVars
    BY <1>1, <1>3, <2>2 DEF FileLags, fileVars
  <2> QED
    BY <2>1, <2>2
<1>10. StraysCounted'
  <2>1. ASSUME NEW k \in LoopIds
        PROVE  /\ ~AtRest(k)' => strays'[k] = 0
               /\ strays'[k] <= 1
               /\ strays'[k] # 0 => /\ k \notin todo \/ lp'[k].status # "running"
                                    /\ ~(now = k /\ at = "judge")
    BY <1>2 DEF StraysCounted, AtRest
  <2> QED
    BY <1>1, <2>1 DEF StraysCounted
<1> QED
  BY <1>4, <1>5, <1>6, <1>7, <1>8, <1>9, <1>10

LEMMA RoutesKeepInv ==
  ASSUME SchedulerInv, NEW l \in LoopIds, Toggle(l) \/ DeleteLoop(l) \/ TimeComes(l)
  PROVE  SchedulerInv'
<1>1. lp \in [LoopIds -> LoopRecords] /\ lp[l] \in LoopRecords
  BY DEF SchedulerInv, TypeOK
<1>2. CASE Toggle(l)
  <2>1. PICK s \in {"running", "paused"}, b \in BOOLEAN :
            lp' = [lp EXCEPT ![l] = [lp[l] EXCEPT !.status = s, !.due = b]]
    <3>1. CASE lp[l].status = "running"
      <4>1. lp[l].due \in BOOLEAN
        BY <1>1 DEF LoopRecords
      <4>2. [lp[l] EXCEPT !.status = "paused"]
              = [lp[l] EXCEPT !.status = "paused", !.due = lp[l].due]
        BY <1>1 DEF LoopRecords
      <4>3. lp' = [lp EXCEPT ![l] = [lp[l] EXCEPT !.status = "paused"]]
        BY <1>2, <3>1 DEF Toggle, Toggled
      <4> QED
        BY <4>1, <4>2, <4>3
    <3>2. CASE lp[l].status # "running"
      <4>1. (lp[l].mode = "interval" \/ (lp[l].due /\ lp[l].mode # "daily")) \in BOOLEAN
        OBVIOUS
      <4> QED
        BY <1>2, <3>2, <4>1 DEF Toggle, Toggled
    <3> QED
      BY <3>1, <3>2
  <2> DEFINE x == [lp[l] EXCEPT !.status = s, !.due = b]
  <2>2. x \in LoopRecords
    BY <1>1 DEF LoopRecords
  <2>3. /\ x.max = lp[l].max /\ x.runs = lp[l].runs /\ x.cur = lp[l].cur /\ x.status = s
    BY <1>1 DEF LoopRecords
  <2> HIDE DEF x
  <2>4. lp' \in [LoopIds -> LoopRecords] /\ lp'[l] = x /\ \A k \in LoopIds : k # l => lp'[k] = lp[k]
    BY <1>1, <2>1, <2>2 DEF x
  <2>5. /\ l \in present /\ strays' = [strays EXCEPT ![l] = 0] /\ strays'[l] = 0
        /\ present' = present /\ saved' = lp' /\ onDisk' = present'
        /\ UNCHANGED <<tickVars, taskVars, started, crashes>>
    BY <1>2 DEF Toggle, Persist, SchedulerInv, TypeOK
  <2>6. \A k \in LoopIds :
             /\ lp'[k].max = lp[k].max /\ lp'[k].runs = lp[k].runs /\ lp'[k].cur = lp[k].cur
             /\ lp'[k].status = "none" => lp[k].status = "none"
             /\ k # l => lp'[k].status = lp[k].status
    BY <2>1, <2>3, <2>4
  <2> QED
    BY <2>4, <2>5, <2>6, SavedChangeKeepsInv
<1>3. CASE DeleteLoop(l)
  BY <1>1, <1>3, SavedChangeKeepsInv DEF DeleteLoop, Persist
<1>4. CASE TimeComes(l)
  <2> DEFINE x == [lp[l] EXCEPT !.due = TRUE]
  <2>1. x \in LoopRecords
    BY <1>1 DEF LoopRecords
  <2>2. /\ x.max = lp[l].max /\ x.runs = lp[l].runs /\ x.cur = lp[l].cur
        /\ x.status = lp[l].status
    BY <1>1 DEF LoopRecords
  <2>3. lp' = [lp EXCEPT ![l] = x]
    BY <1>1, <1>4 DEF TimeComes
  <2> HIDE DEF x
  <2>4. lp' \in [LoopIds -> LoopRecords] /\ lp'[l] = x /\ \A k \in LoopIds : k # l => lp'[k] = lp[k]
    BY <1>1, <2>1, <2>3
  <2>5. \A k \in LoopIds :
             /\ lp'[k].max = lp[k].max /\ lp'[k].runs = lp[k].runs /\ lp'[k].cur = lp[k].cur
             /\ lp'[k].status = lp[k].status
    BY <2>2, <2>4
  <2>6. /\ present' = present /\ strays' = strays /\ UNCHANGED fileVars
        /\ UNCHANGED <<tickVars, taskVars, started, crashes>>
    BY <1>4 DEF TimeComes
  <2> QED
    BY <2>4, <2>5, <2>6, SavedChangeKeepsInv
<1> QED
  BY <1>2, <1>3, <1>4

-----------------------------------------------------------------------------
(* Tasks and the process.                                                  *)

\* A change of the tasks alone: no new untouched run, and the one being started is
\* still live or touched.
LEMMA TaskChangeKeepsInv ==
  ASSUME SchedulerInv, TasksOnly,
         status' \in [Tasks -> {"none", "live", "completed", "failed"}],
         running' \subseteq Tasks, touched' \subseteq Tasks, touched \subseteq touched',
         \A k \in running' : k[2] <= started[k[1]],
         \A k \in running' \ touched' : k \in running /\ status'[k] = "live",
         at = "start" => LET k == <<now, started[now] + 1>> IN
                         status[k] = "live" => k \in touched' \/ status'[k] = "live"
  PROVE  SchedulerInv'
<1> USE DEF SchedulerInv
<1>1. UNCHANGED <<lp, present, saved, onDisk, at, now, todo, changed, started, strays, crashes>>
  BY DEF TasksOnly, loopVars, fileVars, tickVars
<1>2. TypeOK'
  BY <1>1 DEF TypeOK
<1>3. RunsAreCurrent'
  BY <1>1 DEF RunsAreCurrent
<1>4. NoneCurrent'
  BY <1>1 DEF NoneCurrent
<1>5. UnusedIds' /\ RunsCounted' /\ FileLags' /\ StraysCounted'
  BY <1>1 DEF UnusedIds, RunsCounted, FileLags, StraysCounted, AtLimit, AtRest
<1> QED
  BY <1>2, <1>3, <1>4, <1>5

LEMMA TaskKeepsInv ==
  ASSUME SchedulerInv, TaskNext
  PROVE  SchedulerInv'
<1> USE DEF SchedulerInv
<1>1. /\ status \in [Tasks -> {"none", "live", "completed", "failed"}]
      /\ running \subseteq Tasks /\ touched \subseteq Tasks
      /\ \A k \in running : k[2] <= started[k[1]]
      /\ \A k \in running \ touched : status[k] = "live"
  BY DEF TypeOK, RunsAreCurrent
<1>2. at = "start" => started[now] \in Nat
  BY SchedulerAssumption DEF TypeOK, SchedulerAssumption
<1>3. ASSUME NEW k \in Tasks, NEW s \in {"completed", "failed"}, TaskEnds(k, s)
      PROVE  SchedulerInv'
  <2>1. at = "start" => k # <<now, started[now] + 1>>
    BY <1>1, <1>2, <1>3 DEF TaskEnds
  <2> QED
    BY <1>1, <1>3, <2>1, TaskChangeKeepsInv DEF TaskEnds
<1>4. ASSUME NEW k \in Tasks, StopTask(k)
      PROVE  SchedulerInv'
  BY <1>1, <1>4, TaskChangeKeepsInv DEF StopTask
<1>5. ASSUME NEW k \in Tasks, StaleStatus(k)
      PROVE  SchedulerInv'
  BY <1>1, <1>5, TaskChangeKeepsInv DEF StaleStatus
<1>6. ASSUME NEW k \in Tasks, LoopExits(k)
      PROVE  SchedulerInv'
  BY <1>1, <1>6, TaskChangeKeepsInv DEF LoopExits
<1>7. ASSUME NEW k \in Tasks, ResumeTask(k)
      PROVE  SchedulerInv'
  BY <1>1, <1>7, TaskChangeKeepsInv DEF ResumeTask
<1>8. ASSUME NEW k \in Tasks, ResumeFromCheckpoint(k)
      PROVE  SchedulerInv'
  BY <1>1, <1>8, TaskChangeKeepsInv DEF ResumeFromCheckpoint
<1>9. CASE CleanProject
  <2>1. /\ status' = [k \in Tasks |-> "none"] /\ running' = running
        /\ touched' = touched \cup {k \in Tasks : status[k] # "none"} /\ TasksOnly
    BY <1>9 DEF CleanProject
  <2>2. at = "start" => <<now, started[now] + 1>> \in Tasks
    BY <1>2 DEF NoneCurrent, TypeOK, Tasks
  <2> QED
    BY <1>1, <2>1, <2>2, TaskChangeKeepsInv
<1> QED
  BY <1>3, <1>4, <1>5, <1>6, <1>7, <1>8, <1>9 DEF TaskNext

LEMMA RestartKeepsInv ==
  ASSUME SchedulerInv, Restart
  PROVE  SchedulerInv'
<1> USE DEF SchedulerInv
<1>1. /\ crashes < MaxCrashes /\ crashes' = crashes + 1 /\ present' = onDisk
      /\ lp' = [l \in LoopIds |-> IF l \in onDisk THEN Loaded(saved[l]) ELSE lp[l]]
      /\ at' = "idle" /\ now' = NoLoop /\ todo' = {} /\ changed' = FALSE /\ running' = {}
      /\ UNCHANGED <<saved, onDisk, touched, started>>
      /\ strays' = [l \in LoopIds |-> IF l \in onDisk /\ saved[l].status = "running"
                                      THEN 0 ELSE strays[l]]
  BY DEF Restart, fileVars
<1>2. \A l \in LoopIds :
          /\ Loaded(saved[l]) \in LoopRecords /\ Loaded(saved[l]).max = saved[l].max
          /\ Loaded(saved[l]).runs = saved[l].runs /\ Loaded(saved[l]).status = saved[l].status
  <2>1. ASSUME NEW x \in LoopRecords
        PROVE  /\ Loaded(x) \in LoopRecords /\ Loaded(x).max = x.max
               /\ Loaded(x).runs = x.runs /\ Loaded(x).status = x.status
    BY <2>1, RecordFacts DEF Loaded, LoopRecords
  <2> QED
    BY <2>1 DEF TypeOK
<1>3. /\ lp' \in [LoopIds -> LoopRecords]
      /\ \A l \in onDisk : /\ lp'[l].max = saved[l].max /\ lp'[l].runs = saved[l].runs
                           /\ lp'[l].status = saved[l].status
      /\ \A l \in LoopIds : l \notin onDisk => lp'[l] = lp[l]
  BY <1>1, <1>2 DEF TypeOK
<1>4. crashes \in Nat /\ crashes + 1 \in 0 .. MaxCrashes /\ NoLoop \notin LoopIds
  BY <1>1, SchedulerAssumption DEF TypeOK, SchedulerAssumption
<1>5. TypeOK'
  <2>1. status' \in [Tasks -> {"none", "live", "completed", "failed"}]
    BY DEF Restart, TypeOK
  <2>2. strays' \in [LoopIds -> Nat]
    BY <1>1 DEF TypeOK
  <2> QED
    BY <1>1, <1>3, <1>4, <2>1, <2>2 DEF TypeOK
<1>6. RunsAreCurrent' /\ NoneCurrent'
  BY <1>1 DEF RunsAreCurrent, NoneCurrent
<1>7. UnusedIds'
  BY <1>1, <1>3, <1>4 DEF UnusedIds
<1>8. RunsCounted'
  <2>1. ASSUME NEW l \in LoopIds
        PROVE  started[l] <= lp'[l].runs + crashes' /\ (lp'[l].max > 0 => lp'[l].runs <= lp'[l].max)
    <3>1. /\ started[l] \in Nat /\ lp[l].runs \in Nat /\ saved[l].runs \in Nat
          /\ lp[l].max \in Nat /\ started[l] <= lp[l].runs + crashes
          /\ lp[l].max > 0 => lp[l].runs <= lp[l].max
      BY SchedulerAssumption DEF RunsCounted, TypeOK, LoopRecords, SchedulerAssumption
    <3>2. CASE l \in onDisk
      <4>1. lp'[l].max = saved[l].max /\ lp'[l].runs = saved[l].runs
        BY <1>3, <3>2
      <4>2. saved[l].max = lp[l].max /\ saved[l].runs <= lp[l].runs
            /\ lp[l].runs <= saved[l].runs + 1
        BY <3>2 DEF FileLags
      <4> QED
        BY <1>1, <1>4, <3>1, <4>1, <4>2
    <3>3. CASE l \notin onDisk
      BY <1>1, <1>3, <1>4, <3>1, <3>3
    <3> QED
      BY <3>2, <3>3
  <2> QED
    BY <1>1, <2>1 DEF RunsCounted
<1>9. FileLags'
  <2>1. \A l \in onDisk : saved[l].runs \in Nat
    BY DEF TypeOK, LoopRecords
  <2> QED
    BY <1>1, <1>3, <2>1 DEF FileLags
<1>10. StraysCounted'
  BY <1>1, <1>3 DEF StraysCounted, AtRest
<1> QED
  BY <1>5, <1>6, <1>7, <1>8, <1>9, <1>10

LEMMA InitInv == Init => SchedulerInv
<1> SUFFICES ASSUME Init PROVE SchedulerInv
  OBVIOUS
<1>1. Unused \in LoopRecords /\ 0 \in 0 .. MaxCrashes /\ 0 \in 0 .. MaxStarts /\ NoLoop \notin LoopIds
  BY SchedulerAssumption DEF Unused, LoopRecords, Modes, SchedulerAssumption
<1>2. Unused.status = "none" /\ Unused.max = 0 /\ Unused.runs = 0
  BY DEF Unused
<1>3. TypeOK
  BY <1>1 DEF Init, TypeOK
<1>4. RunsAreCurrent /\ NoneCurrent /\ FileLags
  BY DEF Init, RunsAreCurrent, NoneCurrent, FileLags
<1>5. UnusedIds
  BY <1>1 DEF Init, UnusedIds
<1>6. RunsCounted
  BY <1>2 DEF Init, RunsCounted
<1>7. StraysCounted
  <2>1. \A l \in LoopIds : strays[l] = 0
    BY DEF Init
  <2>2. ASSUME NEW l \in LoopIds
        PROVE  strays[l] = 0 /\ strays[l] <= 1
    BY <2>1
  <2> QED
    BY <2>2, Zenon DEF StraysCounted
<1> QED
  BY <1>3, <1>4, <1>5, <1>6, <1>7 DEF SchedulerInv

LEMMA NextKeepsInv == SchedulerInv /\ [Next]_vars => SchedulerInv'
<1> SUFFICES ASSUME SchedulerInv, [Next]_vars PROVE SchedulerInv'
  OBVIOUS
<1>1. CASE Routes
  BY <1>1, CreateKeepsInv, RoutesKeepInv DEF Routes
<1>2. CASE \E l \in LoopIds : TimeComes(l)
  BY <1>2, RoutesKeepInv
<1>3. CASE UNCHANGED vars
  BY <1>3 DEF vars, loopVars, fileVars, tickVars, taskVars, SchedulerInv, TypeOK, RunsAreCurrent,
              NoneCurrent, UnusedIds, RunsCounted, FileLags, StraysCounted, AtLimit, AtRest
<1> QED
  BY <1>1, <1>2, <1>3, TickKeepsInv, TaskKeepsInv, RestartKeepsInv DEF Next

-----------------------------------------------------------------------------
(* Theorems.                                                               *)

\* The inductive invariant holds, whatever the ticks, the routes, the tasks and the
\* crashes of loop_scheduler.py's process are interleaved to.
THEOREM SchedulerInvariance == Spec => []SchedulerInv
<1> QED
  BY InitInv, NextKeepsInv, PTL DEF Spec

\* Type correctness of the scheduler's records, its file and its tick.
THEOREM SchedulerTypeCorrect == Spec => []TypeOK
<1>1. SchedulerInv => TypeOK
  BY DEF SchedulerInv
<1> QED
  BY <1>1, SchedulerInvariance, PTL

\* Each loop is serial: _tick starts no task of a loop while one that the user did
\* not stop, resume or clean away is executed.
THEOREM RunsOneAtATime == Spec => []OneRunAtATime
<1>1. SchedulerInv => OneRunAtATime
  BY DEF SchedulerInv, RunsAreCurrent, OneRunAtATime, TypeOK, Tasks
<1> QED
  BY <1>1, SchedulerInvariance, PTL

\* max_runs bounds the tasks a loop starts, up to one for each crash: run_count is
\* written to loops.json only at the end of the tick.
THEOREM BudgetHolds == Spec => []BudgetKept
<1>1. SchedulerInv => BudgetKept
  <2> SUFFICES ASSUME SchedulerInv, NEW l \in LoopIds, lp[l].max > 0
               PROVE  started[l] <= lp[l].max + crashes
    BY DEF BudgetKept
  <2>1. /\ started[l] \in Nat /\ lp[l].runs \in Nat /\ lp[l].max \in Nat /\ crashes \in Nat
    BY SchedulerAssumption DEF SchedulerInv, TypeOK, LoopRecords, SchedulerAssumption
  <2> QED
    BY <2>1 DEF SchedulerInv, RunsCounted
<1> QED
  BY <1>1, SchedulerInvariance, PTL

\* A loop put to rest while _tick awaits is started at most once more.
THEOREM StraysBounded == Spec => []OneStrayAtMost
<1>1. SchedulerInv => OneStrayAtMost
  BY DEF SchedulerInv, StraysCounted, OneStrayAtMost
<1> QED
  BY <1>1, SchedulerInvariance, PTL

\* No step of the tick, of a route or of a restart brings a deleted loop back.
THEOREM DeletedStaysDeleted == Spec => DeletedNeverReturns
<1> DEFINE Kept == \A l \in LoopIds :
                      lp[l].status # "none" /\ l \notin present => l \notin present'
<1>1. SchedulerInv /\ [Next]_vars => [Kept]_vars
  <2> SUFFICES ASSUME SchedulerInv, Next PROVE Kept
    OBVIOUS
  <2>1. ASSUME NEW T, NEW r, NEW c, Stretch(T, r, c)
        PROVE  present' = present
    BY <2>1 DEF Stretch, StopAt, EndTick, LimitOrStart, Emit, StartTask
  <2>2. CASE Tick
    <3>1. JudgeAnswers \/ TaskStarted => present' = present
      BY DEF JudgeAnswers, TaskStarted, LimitOrStart, Emit, StartTask
    <3> QED
      BY <2>1, <2>2, <3>1 DEF Tick, BeginTick, AfterEmit, TaskNotStarted
  <2>3. CASE Routes
    BY <2>3 DEF Routes, CreateLoop, Toggle, DeleteLoop
  <2>4. CASE \E l \in LoopIds : TimeComes(l)
    BY <2>4 DEF TimeComes
  <2>5. CASE TaskNext
    BY <2>5 DEF TaskNext, TaskEnds, StopTask, StaleStatus, LoopExits, ResumeTask,
                ResumeFromCheckpoint, CleanProject, TasksOnly, loopVars
  <2>6. CASE Restart
    BY <2>6 DEF Restart, SchedulerInv, FileLags
  <2> QED
    BY <2>2, <2>3, <2>4, <2>5, <2>6 DEF Next
<1> QED
  BY <1>1, SchedulerInvariance, PTL DEF Spec, DeletedNeverReturns

-----------------------------------------------------------------------------
(* Each behaviour of the whole is one of each of its parts.                *)

LEMMA StepsOfParts ==
    ASSUME [DaemonNext]_daemonVars
    PROVE  [Next]_vars /\ [Fanout!Next]_(Fanout!vars)
<1> USE DEF daemonVars, fanoutVars, Fanout!vars, Fanout!listVars, Fanout!sendVars, Fanout!history
<1>1. CASE LoopStep
  BY <1>1 DEF LoopStep
<1>2. CASE EventStep
  BY <1>2 DEF EventStep
<1>3. CASE UNCHANGED daemonVars
  BY <1>3
<1> QED BY <1>1, <1>2, <1>3 DEF DaemonNext

\* What the scheduler and the event bus promise of their own steps holds of
\* them together.
THEOREM DaemonPartsAreImplemented == DaemonSpec => Spec /\ Fanout!Spec
<1>1. DaemonInit => Init /\ Fanout!Init
  BY DEF DaemonInit
<1> QED BY <1>1, StepsOfParts, PTL DEF DaemonSpec, Spec, Fanout!Spec

-----------------------------------------------------------------------------
(* The events on their way to the screens.                                 *)

\* A set of numbers has a least one.
LEMMA LeastOne ==
    ASSUME NEW S \in SUBSET Nat, S # {}
    PROVE  \E i \in S : \A j \in S : i <= j
<1>1. \E i \in S : \A j \in S : ~(<<j, i>> \in OpToRel(<, Nat))
  BY WFMin, NatLessThanWellFounded
<1>2. PICK i \in S : \A j \in S : ~(<<j, i>> \in OpToRel(<, Nat))
  BY <1>1
<1>3. \A j \in S : ~(j < i)
  BY <1>2 DEF OpToRel
<1> QED BY <1>3

LEMMA SameCardinality ==
    ASSUME NEW S
    PROVE  Fanout!Cardinality(S) = Cardinality(S)
<1> QED BY DEF Fanout!Cardinality, Cardinality

LEMMA LeastPlace ==
    ASSUME NEW S \in SUBSET Nat, S # {}
    PROVE  Fanout!Min(S) \in S /\ \A j \in S : Fanout!Min(S) <= j
<1>1. \E i \in S : \A j \in S : i <= j
  BY LeastOne
<1> QED BY <1>1 DEF Fanout!Min

\* How many of S are up to n.
Upto(S, n) == {j \in S : j <= n}

LEMMA UptoSize ==
    ASSUME NEW n \in Nat, NEW S \in SUBSET (1 .. n), NEW i \in Nat
    PROVE  /\ IsFiniteSet(S) /\ IsFiniteSet(Upto(S, i))
           /\ Cardinality(Upto(S, i)) \in Nat /\ Cardinality(S) \in Nat
           /\ Cardinality(Upto(S, i)) <= Cardinality(S)
           /\ Cardinality(Upto(S, i)) <= i
           /\ Cardinality(Upto(S, i + 1)) =
                IF i + 1 \in S THEN Cardinality(Upto(S, i)) + 1 ELSE Cardinality(Upto(S, i))
<1>1. IsFiniteSet(1 .. n) /\ IsFiniteSet(1 .. i) /\ Cardinality(1 .. i) = i
  BY FS_Interval
<1>2. IsFiniteSet(S)
  BY <1>1, FS_Subset
<1>0. \A j \in S : j \in Nat /\ 1 <= j /\ j <= n
  OBVIOUS
<1>3. \A j : j \in Upto(S, i) <=> j \in S /\ j <= i
  BY DEF Upto
<1>3a. \A j \in Upto(S, i) : j \in S /\ j \in 1 .. i
  <2> TAKE j \in Upto(S, i)
  <2>1. j \in S /\ j <= i
    BY <1>3
  <2> QED BY <1>0, <2>1
<1>3b. Upto(S, i) \in SUBSET S /\ Upto(S, i) \in SUBSET (1 .. i)
  BY <1>3a
<1>4. /\ IsFiniteSet(Upto(S, i)) /\ Cardinality(Upto(S, i)) <= Cardinality(S)
      /\ Cardinality(Upto(S, i)) <= i
  BY <1>1, <1>2, <1>3b, FS_Subset
<1>5. Cardinality(Upto(S, i)) \in Nat /\ Cardinality(S) \in Nat
  BY <1>2, <1>4, FS_CardinalityType
<1>a. \A j : j \in Upto(S, i + 1) <=> j \in S /\ j <= i + 1
  BY DEF Upto
<1>b. \A j \in S : j <= i + 1 <=> j <= i \/ j = i + 1
  BY <1>0
<1>6. CASE i + 1 \in S
  <2>1. \A j : j \in Upto(S, i + 1) <=> j \in Upto(S, i) \cup {i + 1}
    BY <1>0, <1>3, <1>6, <1>a, <1>b
  <2>2. Upto(S, i + 1) = Upto(S, i) \cup {i + 1}
    BY <2>1
  <2>3. i + 1 \notin Upto(S, i)
    BY <1>3
  <2> QED BY <1>2, <1>4, <1>5, <1>6, <2>2, <2>3, FS_AddElement
<1>7. CASE i + 1 \notin S
  <2>1. \A j : j \in Upto(S, i + 1) <=> j \in Upto(S, i)
    BY <1>0, <1>3, <1>7, <1>a, <1>b
  <2>2. Upto(S, i + 1) = Upto(S, i)
    BY <2>1
  <2> QED BY <1>2, <1>4, <1>5, <1>7, <2>2
<1> QED BY <1>2, <1>4, <1>5, <1>6, <1>7

\* Further up there are more.
LEMMA UptoGrows ==
    ASSUME NEW n \in Nat, NEW S \in SUBSET (1 .. n)
    PROVE  \A i \in S : \A j \in Nat : j < i => Cardinality(Upto(S, j)) < Cardinality(Upto(S, i))
<1> SUFFICES ASSUME NEW i \in S, NEW j \in Nat, j < i
             PROVE  Cardinality(Upto(S, j)) < Cardinality(Upto(S, i))
  OBVIOUS
<1>0. i \in Nat /\ \A x \in S : x \in Nat
  OBVIOUS
<1>1. IsFiniteSet(Upto(S, i)) /\ IsFiniteSet(Upto(S, j))
      /\ Cardinality(Upto(S, i)) \in Nat /\ Cardinality(Upto(S, j)) \in Nat
  BY <1>0, UptoSize
<1>2. i \in Upto(S, i) /\ i \notin Upto(S, j) /\ \A x \in Upto(S, j) : x \in Upto(S, i)
  BY <1>0 DEF Upto
<1>3. /\ Cardinality(Upto(S, j)) <= Cardinality(Upto(S, i))
      /\ Cardinality(Upto(S, j)) # Cardinality(Upto(S, i))
  BY <1>1, <1>2, FS_Subset
<1> QED BY <1>1, <1>3

\* Each number of elements is reached at an element.
LEMMA UptoReaches ==
    ASSUME NEW n \in Nat, NEW S \in SUBSET (1 .. n), NEW k \in 1 .. Cardinality(S)
    PROVE  \E i \in S : Cardinality(Upto(S, i)) = k
<1> DEFINE R == {i \in 0 .. n : k <= Cardinality(Upto(S, i))}
<1>0. \A x \in S : x \in Nat /\ x <= n /\ 1 <= x
  OBVIOUS
<1>a. Cardinality(S) \in Nat
  BY UptoSize, 0 \in Nat
<1>1. Cardinality(S) \in Nat /\ k \in Nat \ {0} /\ k <= Cardinality(S)
  BY <1>a
<1>2. Upto(S, n) = S
  <2>1. \A x : x \in Upto(S, n) <=> x \in S
    BY <1>0 DEF Upto
  <2> QED BY <2>1
<1>3. n \in R /\ R \in SUBSET Nat
  BY <1>1, <1>2
<1>4. PICK i \in R : \A j \in R : i <= j
  BY <1>3, LeastOne
<1>5. i # 0
  <2>1. Upto(S, 0) = {}
    <3>1. \A x : x \in Upto(S, 0) => x \in S /\ x <= 0
      BY DEF Upto
    <3>2. ASSUME NEW x \in Upto(S, 0) PROVE FALSE
      <4>1. x \in S /\ x <= 0
        BY <3>1
      <4>2. x \in Nat /\ 1 <= x
        BY <1>0, <4>1
      <4> QED BY <4>1, <4>2
    <3> QED BY <3>2
  <2>2. Cardinality(Upto(S, 0)) = 0
    BY <2>1, FS_EmptySet
  <2> QED BY <1>1, <1>4, <2>2
<1>6. i - 1 \in 0 .. n /\ i - 1 \in Nat /\ i - 1 \notin R /\ (i - 1) + 1 = i
  BY <1>3, <1>4, <1>5
<1>9. Cardinality(Upto(S, i - 1)) \in Nat /\ Cardinality(Upto(S, i)) \in Nat
  BY <1>3, <1>4, <1>6, UptoSize
<1>7. Cardinality(Upto(S, i - 1)) < k /\ k <= Cardinality(Upto(S, i))
  BY <1>1, <1>4, <1>6, <1>9
<1>8. Cardinality(Upto(S, (i - 1) + 1)) =
        IF (i - 1) + 1 \in S THEN Cardinality(Upto(S, i - 1)) + 1
        ELSE Cardinality(Upto(S, i - 1))
  BY <1>6, UptoSize
<1> QED BY <1>1, <1>6, <1>7, <1>8, <1>9

\* One list is another from which some have gone: the rest have moved to the front,
\* in any order.
Moved(new, old) ==
    \E f \in [DOMAIN new -> DOMAIN old] :
        /\ \A k, l \in DOMAIN new : f[k] = f[l] => k = l
        /\ \A k \in DOMAIN new : k <= f[k] /\ new[k] = old[f[k]]

LEMMA NothingMoved ==
    ASSUME NEW T, NEW list \in Seq(T)
    PROVE  Moved(list, list)
<1> DEFINE f == [k \in DOMAIN list |-> k]
<1>1. /\ f \in [DOMAIN list -> DOMAIN list]
      /\ \A k, l \in DOMAIN list : f[k] = f[l] => k = l
      /\ \A k \in DOMAIN list : k <= f[k] /\ list[k] = list[f[k]]
  OBVIOUS
<1> QED BY <1>1 DEF Moved

\* f takes the places of W to those of list that are in S.
Chooses(f, W, S, list) ==
    /\ \A k, l \in DOMAIN W : f[k] = f[l] => k = l
    /\ \A k \in DOMAIN W : k <= f[k] /\ W[k] = list[f[k]]
    /\ \A i \in S : \E k \in DOMAIN W : f[k] = i

\* The places Without chooses.
LEMMA WithoutPlaces ==
    ASSUME NEW T, NEW list \in Seq(T), NEW gone \in Seq(T)
    PROVE  \E S \in SUBSET (1 .. Len(list)), W \in Seq(T) :
               /\ S = Fanout!Kept(list, gone) /\ W = Fanout!Without(list, gone)
               /\ \E f \in [DOMAIN W -> S] : Chooses(f, W, S, list)
<1> DEFINE S == Fanout!Kept(list, gone)
           W == Fanout!Without(list, gone)
           N == Fanout!Cardinality(S)
           Kth(k) == CHOOSE i \in S : Fanout!Cardinality({j \in S : j <= i}) = k
           f == [k \in 1 .. N |-> Kth(k)]
<1>1. S \in SUBSET (1 .. Len(list))
  BY DEF Fanout!Kept
<1>2. W = [k \in 1 .. N |-> list[Kth(k)]]
  BY DEF Fanout!Without
<1> HIDE DEF S, W
<1>a. \A i : Fanout!Cardinality({j \in S : j <= i}) = Cardinality(Upto(S, i))
  BY SameCardinality DEF Upto
<1>b. N = Cardinality(S)
  BY SameCardinality
<1>0. Len(list) \in Nat /\ \A i \in S : i \in Nat /\ 1 <= i /\ i <= Len(list)
  BY <1>1
<1>3. N \in Nat
  BY <1>0, <1>1, <1>b, UptoSize, 0 \in Nat
<1>4. \A k \in 1 .. N : Kth(k) \in S /\ Cardinality(Upto(S, Kth(k))) = k
  <2> TAKE k \in 1 .. N
  <2>1. \E i \in S : Cardinality(Upto(S, i)) = k
    BY <1>0, <1>1, <1>b, UptoReaches
  <2>2. \E i \in S : Fanout!Cardinality({j \in S : j <= i}) = k
    BY <1>a, <2>1
  <2>3. Kth(k) \in S /\ Fanout!Cardinality({j \in S : j <= Kth(k)}) = k
    BY <2>2
  <2> QED BY <1>a, <2>3
<1> HIDE DEF Kth
<1>5. DOMAIN W = 1 .. N /\ f \in [1 .. N -> S] /\ \A k \in 1 .. N : W[k] = list[f[k]] /\ f[k] = Kth(k)
  BY <1>2, <1>4
<1>6. W \in Seq(T)
  <2>1. \A i \in 1 .. Len(list) : list[i] \in T
    BY ElementOfSeq
  <2>2. \A k \in 1 .. N : list[Kth(k)] \in T
    BY <1>1, <1>4, <2>1
  <2> QED BY <1>2, <1>3, <2>2
<1>7. \A k \in 1 .. N : k <= f[k]
  <2> TAKE k \in 1 .. N
  <2>1. Kth(k) \in S /\ Kth(k) \in Nat /\ Cardinality(Upto(S, Kth(k))) = k
    BY <1>0, <1>4
  <2>2. Cardinality(Upto(S, Kth(k))) <= Kth(k)
    BY <1>0, <1>1, <2>1, UptoSize
  <2> QED BY <1>5, <2>1, <2>2
<1>8. \A k, l \in 1 .. N : f[k] = f[l] => k = l
  BY <1>4, <1>5
<1>c. \A i \in S : \A j \in Nat : j < i => Cardinality(Upto(S, j)) < Cardinality(Upto(S, i))
  BY <1>0, <1>1, UptoGrows
<1>9. \A i \in S : \E k \in 1 .. N : f[k] = i
  <2> TAKE i \in S
  <2>0. PICK m : m = Cardinality(Upto(S, i))
    OBVIOUS
  <2>1. i \in Nat /\ 1 <= i
    BY <1>0
  <2>a. Cardinality(Upto(S, i)) \in Nat /\ Cardinality(Upto(S, i)) <= Cardinality(S)
    BY <1>0, <1>1, <2>1, UptoSize
  <2>2. m \in Nat /\ m <= N
    BY <1>b, <2>0, <2>a
  <2>3. 0 < m
    <3>1. Cardinality(Upto(S, 0)) < m
      BY <2>0, <1>c, <2>1, 0 \in Nat
    <3>2. Cardinality(Upto(S, 0)) \in Nat
      BY <1>0, <1>1, UptoSize, 0 \in Nat
    <3> QED BY <2>2, <3>1, <3>2
  <2>4. m \in 1 .. N
    BY <1>3, <2>2, <2>3
  <2>5. Kth(m) \in S /\ Kth(m) \in Nat /\ Cardinality(Upto(S, Kth(m))) = m
    BY <1>0, <1>4, <2>4
  <2>6. ~(Kth(m) < i) /\ ~(i < Kth(m))
    BY <2>0, <1>c, <2>1, <2>2, <2>5
  <2>7. Kth(m) = i
    BY <2>1, <2>5, <2>6
  <2> QED BY <1>5, <2>4, <2>7
<1> HIDE DEF f
<1>10. \E g \in [DOMAIN W -> S] : Chooses(g, W, S, list)
  <2>1. f \in [DOMAIN W -> S]
    BY <1>5
  <2>2. Chooses(f, W, S, list)
    BY <1>5, <1>7, <1>8, <1>9 DEF Chooses
  <2> QED BY <2>1, <2>2
<1>11. S = Fanout!Kept(list, gone) /\ W = Fanout!Without(list, gone)
  BY DEF S, W
<1> WITNESS S \in SUBSET (1 .. Len(list)), W \in Seq(T)
<1> QED BY <1>10, <1>11

\* Who is to stay stays, and of a list that holds everybody once who is to go goes.
LEMMA WhoIsKept ==
    ASSUME NEW T, NEW list \in Seq(T), NEW gone \in Seq(T), NEW i \in 1 .. Len(list)
    PROVE  /\ list[i] \notin Fanout!ToSet(gone) => i \in Fanout!Kept(list, gone)
           /\ Fanout!IsInjective(list) /\ gone = <<list[i]>> =>
                i \notin Fanout!Kept(list, gone)
<1> DEFINE At(l, n) == {j \in 1 .. n : l[j] = list[i]}
<1>1. Fanout!Cardinality(At(list, i)) = Cardinality(At(list, i))
      /\ Fanout!Cardinality(At(gone, Len(gone))) = Cardinality(At(gone, Len(gone)))
  BY SameCardinality
<1>2. i \in Fanout!Kept(list, gone) <=>
        Cardinality(At(list, i)) > Cardinality(At(gone, Len(gone)))
  BY <1>1 DEF Fanout!Kept
<1>3. ASSUME list[i] \notin Fanout!ToSet(gone) PROVE i \in Fanout!Kept(list, gone)
  <2>1. At(gone, Len(gone)) = {}
    BY <1>3 DEF Fanout!ToSet
  <2>2. Cardinality(At(gone, Len(gone))) = 0
    BY <2>1, FS_EmptySet
  <2>3. i \in At(list, i) /\ IsFiniteSet(1 .. i) /\ At(list, i) \in SUBSET (1 .. i)
    BY FS_Interval
  <2>4. IsFiniteSet(At(list, i)) /\ Cardinality(At(list, i)) \in Nat
    BY <2>3, FS_Subset, FS_CardinalityType
  <2>5. Cardinality(At(list, i)) # 0
    BY <2>3, <2>4, FS_EmptySet
  <2> QED BY <1>2, <2>2, <2>4, <2>5
<1>4. ASSUME Fanout!IsInjective(list), gone = <<list[i]>>
      PROVE  i \notin Fanout!Kept(list, gone)
  <2>1. At(list, i) = {i}
    BY <1>4 DEF Fanout!IsInjective
  <2>2. At(gone, Len(gone)) = {1}
    BY <1>4
  <2>3. Cardinality(At(list, i)) = 1 /\ Cardinality(At(gone, Len(gone))) = 1
    BY <2>1, <2>2, FS_Singleton
  <2> QED BY <1>2, <2>3
<1> QED BY <1>3, <1>4

LEMMA WithoutThins ==
    ASSUME NEW T, NEW list \in Seq(T), NEW gone \in Seq(T)
    PROVE  /\ Fanout!Without(list, gone) \in Seq(T)
           /\ Moved(Fanout!Without(list, gone), list)
           /\ \A c \in Fanout!ToSet(list) : c \notin Fanout!ToSet(gone) =>
                c \in Fanout!ToSet(Fanout!Without(list, gone))
           /\ \A c : Fanout!IsInjective(list) /\ gone = <<c>> =>
                c \notin Fanout!ToSet(Fanout!Without(list, gone))
<1>0. PICK S \in SUBSET (1 .. Len(list)), W \in Seq(T) :
        /\ S = Fanout!Kept(list, gone) /\ W = Fanout!Without(list, gone)
        /\ \E f \in [DOMAIN W -> S] : Chooses(f, W, S, list)
  BY WithoutPlaces
<1>1. PICK f \in [DOMAIN W -> S] : Chooses(f, W, S, list)
  BY <1>0
<1>2. /\ \A k, l \in DOMAIN W : f[k] = f[l] => k = l
      /\ \A k \in DOMAIN W : k <= f[k] /\ W[k] = list[f[k]]
      /\ \A i \in S : \E k \in DOMAIN W : f[k] = i
  BY <1>1 DEF Chooses
<1>b. \A i \in S : i \in 1 .. Len(list)
  BY <1>1
<1>c. \A k \in DOMAIN W : f[k] \in S
  BY <1>2
<1>d. DOMAIN list = 1 .. Len(list)
  OBVIOUS
<1>a. DOMAIN list = 1 .. Len(list) /\ \A k \in DOMAIN W : f[k] \in DOMAIN list
  BY <1>b, <1>c, <1>d
<1>3. f \in [DOMAIN W -> DOMAIN list] /\ DOMAIN list = 1 .. Len(list)
  BY <1>2, <1>a
<1>4. Moved(W, list)
  BY <1>2, <1>3 DEF Moved
<1>5. ASSUME NEW c \in Fanout!ToSet(list), c \notin Fanout!ToSet(gone)
      PROVE  c \in Fanout!ToSet(W)
  <2>1. PICK i \in 1 .. Len(list) : list[i] = c
    BY DEF Fanout!ToSet
  <2>2. i \in S
    BY <1>5, <2>1, <1>0, WhoIsKept
  <2>3. PICK k \in DOMAIN W : f[k] = i
    BY <1>2, <2>2
  <2>4. W[k] = c
    BY <1>2, <2>1, <2>3
  <2> QED BY <2>3, <2>4 DEF Fanout!ToSet
<1>6. ASSUME NEW c, Fanout!IsInjective(list), gone = <<c>>, c \in Fanout!ToSet(W)
      PROVE  FALSE
  <2>1. PICK k \in DOMAIN W : W[k] = c
    BY <1>6 DEF Fanout!ToSet
  <2>2. f[k] \in S /\ f[k] \in 1 .. Len(list) /\ list[f[k]] = c
    BY <1>1, <1>2, <2>1
  <2>3. gone = <<list[f[k]]>> /\ f[k] \in 1 .. Len(list)
    BY <1>6, <2>2
  <2>4. f[k] \notin Fanout!Kept(list, gone)
    BY <1>6, <2>3, WhoIsKept
  <2> QED BY <1>0, <2>2, <2>4
<1>7. W \in Seq(T)
  OBVIOUS
<1> QED BY <1>0, <1>4, <1>5, <1>6, <1>7

\* Nobody comes to the list, nobody doubles, and nobody moves back.
LEMMA MovedKeeps ==
    ASSUME NEW T, NEW old \in Seq(T), NEW new \in Seq(T), Moved(new, old)
    PROVE  /\ Fanout!IsInjective(old) => Fanout!IsInjective(new)
           /\ \A c \in Fanout!ToSet(new) : c \in Fanout!ToSet(old)
           /\ \A n \in Nat : \A c : (\A i \in DOMAIN old : old[i] = c => i < n) =>
                                   \A k \in DOMAIN new : new[k] = c => k < n
           /\ \A k \in DOMAIN new : k \in DOMAIN old
<1>1. PICK f \in [DOMAIN new -> DOMAIN old] :
        /\ \A k, l \in DOMAIN new : f[k] = f[l] => k = l
        /\ \A k \in DOMAIN new : k <= f[k] /\ new[k] = old[f[k]]
  BY DEF Moved
<1>2. /\ DOMAIN old = 1 .. Len(old) /\ DOMAIN new = 1 .. Len(new)
      /\ Len(old) \in Nat /\ Len(new) \in Nat
  OBVIOUS
<1>3. \A k \in DOMAIN new : f[k] \in DOMAIN old
  BY <1>1
<1>4. Fanout!IsInjective(old) => Fanout!IsInjective(new)
  BY <1>1, <1>3 DEF Fanout!IsInjective
<1>5. \A c \in Fanout!ToSet(new) : c \in Fanout!ToSet(old)
  BY <1>1, <1>3 DEF Fanout!ToSet
<1>6. ASSUME NEW n \in Nat, NEW c, \A i \in DOMAIN old : old[i] = c => i < n,
             NEW k \in DOMAIN new, new[k] = c
      PROVE  k < n
  <2>1. f[k] < n /\ k <= f[k] /\ k \in Nat /\ f[k] \in Nat
    BY <1>1, <1>2, <1>3, <1>6
  <2> QED BY <2>1
<1>7. ASSUME NEW k \in DOMAIN new PROVE k \in DOMAIN old
  <2>1. f[k] \in DOMAIN old /\ k <= f[k]
    BY <1>1, <1>3
  <2> QED BY <1>2, <2>1
<1> QED BY <1>4, <1>5, <1>6, <1>7

\* Of O, those before place n in the list.
Before(O, list, n) == {c \in O : \A i \in DOMAIN list : list[i] = c => i < n}

\* No more of them come before place n than have gone.
LEMMA BeforeGrowsByTheGone ==
    ASSUME NEW T, NEW old \in Seq(T), NEW new \in Seq(T), Moved(new, old),
           Fanout!IsInjective(old), NEW n \in Nat,
           NEW O, \A c \in O : c \in Fanout!ToSet(new)
    PROVE  LET R == Fanout!ToSet(old) \ Fanout!ToSet(new)
           IN  /\ Cardinality(Before(O, new, n)) \in Nat
               /\ Cardinality(Before(O, old, n)) \in Nat
               /\ Cardinality(R) \in Nat
               /\ Cardinality(Before(O, new, n)) <= Cardinality(Before(O, old, n)) + Cardinality(R)
<1> DEFINE A == Fanout!ToSet(old)
           B == Fanout!ToSet(new)
           R == A \ B
           P == Before(A, old, n)
           Q == Before(B, new, n)
           Place(c) == CHOOSE k \in DOMAIN new : new[k] = c
           g == [c \in Q |-> old[Place(c)]]
<1>1. /\ DOMAIN old = 1 .. Len(old) /\ DOMAIN new = 1 .. Len(new)
      /\ Len(old) \in Nat /\ Len(new) \in Nat
  OBVIOUS
<1>2. /\ Fanout!IsInjective(new) /\ \A c \in B : c \in A
      /\ \A k \in DOMAIN new : k \in DOMAIN old
      /\ \A c : (\A i \in DOMAIN old : old[i] = c => i < n) =>
                \A k \in DOMAIN new : new[k] = c => k < n
  BY MovedKeeps
<1>3. IsFiniteSet(A) /\ IsFiniteSet(B)
  <2>1. \A list : list \in Seq(T) => IsFiniteSet(Fanout!ToSet(list))
    <3> TAKE list
    <3> HAVE list \in Seq(T)
    <3>1. IsFiniteSet(DOMAIN list)
      BY FS_Interval
    <3>2. list \in Surjection(DOMAIN list, Fanout!ToSet(list))
      BY DEF Surjection, Fanout!ToSet
    <3> QED BY <3>1, <3>2, FS_Surjection
  <2> QED BY <2>1
<1>4. /\ IsFiniteSet(P) /\ IsFiniteSet(Q) /\ IsFiniteSet(R) /\ IsFiniteSet(O)
      /\ IsFiniteSet(Before(O, new, n)) /\ IsFiniteSet(Before(O, old, n))
  <2>1. P \in SUBSET A /\ Q \in SUBSET B /\ R \in SUBSET A /\ O \in SUBSET B
    BY DEF Before
  <2>2. Before(O, new, n) \in SUBSET O /\ Before(O, old, n) \in SUBSET O
    BY DEF Before
  <2>3. IsFiniteSet(O)
    BY <1>3, <2>1, FS_Subset
  <2> QED BY <1>3, <2>1, <2>2, <2>3, FS_Subset
<1>5. Cardinality(Q) <= Cardinality(P)
  <2>1. \A c \in Q : Place(c) \in DOMAIN new /\ new[Place(c)] = c /\ Place(c) < n
    <3> TAKE c \in Q
    <3>1. \E k \in DOMAIN new : new[k] = c
      BY DEF Before, Fanout!ToSet
    <3>2. Place(c) \in DOMAIN new /\ new[Place(c)] = c
      BY <3>1
    <3> QED BY <3>2 DEF Before
  <2> HIDE DEF Place
  <2>2. \A c \in Q : Place(c) \in DOMAIN old /\ old[Place(c)] \in P
    <3> TAKE c \in Q
    <3>1. Place(c) \in DOMAIN old /\ Place(c) < n
      BY <1>2, <2>1
    <3>2. old[Place(c)] \in A
      BY <3>1 DEF Fanout!ToSet
    <3>3. \A i \in DOMAIN old : old[i] = old[Place(c)] => i < n
      BY <3>1 DEF Fanout!IsInjective
    <3> QED BY <3>1, <3>2, <3>3 DEF Before
  <2>3. \A c, d \in Q : old[Place(c)] = old[Place(d)] => c = d
    BY <2>1, <2>2 DEF Fanout!IsInjective
  <2> HIDE DEF Q, P
  <2>4. g \in [Q -> P] /\ \A c \in Q : g[c] = old[Place(c)]
    BY <2>2
  <2>5. g \in Injection(Q, P)
    BY <2>3, <2>4 DEF Injection, IsInjective
  <2> QED BY <1>4, <2>5, FS_Injection DEF P, Q
<1>6. Cardinality(Q \ P) <= Cardinality(R)
  <2>1. \A c \in P \ Q : c \in R
    BY <1>2 DEF Before
  <2>2. Cardinality(P \ Q) <= Cardinality(R) /\ IsFiniteSet(P \ Q) /\ IsFiniteSet(Q \ P)
    BY <1>4, <2>1, FS_Subset, FS_Difference
  <2>3. /\ Cardinality(P \ Q) = Cardinality(P) - Cardinality(P \cap Q)
        /\ Cardinality(Q \ P) = Cardinality(Q) - Cardinality(Q \cap P)
    BY <1>4, FS_Difference
  <2>4. P \cap Q = Q \cap P /\ IsFiniteSet(P \cap Q)
    BY <1>4, FS_Intersection
  <2>5. /\ Cardinality(P) \in Nat /\ Cardinality(Q) \in Nat /\ Cardinality(P \cap Q) \in Nat
        /\ Cardinality(R) \in Nat
    BY <1>4, <2>4, FS_CardinalityType
  <2>6. Cardinality(Q \cap P) = Cardinality(P \cap Q)
    BY <2>4
  <2> HIDE DEF P, Q, R
  <2>7. Cardinality(Q \ P) <= Cardinality(P \ Q)
    BY <1>5, <2>3, <2>5, <2>6
  <2>8. Cardinality(P \ Q) \in Int /\ Cardinality(Q \ P) \in Int
    BY <2>3, <2>5, <2>6
  <2> QED BY <2>2, <2>5, <2>7, <2>8
<1>7. Cardinality(Before(O, new, n)) <= Cardinality(Before(O, old, n) \cup (Q \ P))
      /\ IsFiniteSet(Q \ P) /\ IsFiniteSet(Before(O, old, n) \cup (Q \ P))
  <2>1. \A c \in Before(O, new, n) : c \in Before(O, old, n) \cup (Q \ P)
    BY <1>2 DEF Before
  <2>2. IsFiniteSet(Q \ P)
    BY <1>4, FS_Difference
  <2>3. IsFiniteSet(Before(O, old, n) \cup (Q \ P))
    BY <1>4, <2>2, FS_Union
  <2> QED BY <2>1, <2>2, <2>3, FS_Subset
<1>8. /\ Cardinality(Before(O, new, n)) \in Nat /\ Cardinality(Before(O, old, n)) \in Nat
      /\ Cardinality(R) \in Nat /\ Cardinality(Q \ P) \in Nat
  BY <1>4, <1>7, FS_CardinalityType
<1>9. Cardinality(Before(O, old, n) \cup (Q \ P)) <= Cardinality(Before(O, old, n)) + Cardinality(Q \ P)
  <2>1. Cardinality(Before(O, old, n) \cup (Q \ P)) =
          Cardinality(Before(O, old, n)) + Cardinality(Q \ P)
            - Cardinality(Before(O, old, n) \cap (Q \ P))
    BY <1>4, <1>7, FS_Union
  <2>2. IsFiniteSet(Before(O, old, n) \cap (Q \ P))
    BY <1>4, FS_Intersection
  <2>3. Cardinality(Before(O, old, n) \cap (Q \ P)) \in Nat
    BY <2>2, FS_CardinalityType
  <2> HIDE DEF P, Q
  <2> QED BY <1>8, <2>1, <2>3
<1>10. Cardinality(Before(O, old, n) \cup (Q \ P)) \in Nat
  BY <1>7, FS_CardinalityType
<1> HIDE DEF P, Q, R
<1>11. /\ Cardinality(Before(O, new, n)) <= Cardinality(Before(O, old, n)) + Cardinality(R)
  BY <1>6, <1>7, <1>8, <1>9, <1>10
<1> QED BY <1>8, <1>11 DEF R

LEMMA ListsAreFinite ==
    ASSUME NEW T, NEW list \in Seq(T)
    PROVE  IsFiniteSet(Fanout!ToSet(list))
<1>1. IsFiniteSet(DOMAIN list)
  BY FS_Interval
<1>2. list \in Surjection(DOMAIN list, Fanout!ToSet(list))
  BY DEF Surjection, Fanout!ToSet
<1> QED BY <1>1, <1>2, FS_Surjection

\* A step takes connections off the lists, but none whose client is there.
Thins ==
    /\ connections' \in Seq(Sockets) /\ Moved(connections', connections)
    /\ subscriptions' \in [Topics -> Seq(Sockets)]
    /\ \A t \in Topics : Moved(subscriptions'[t], subscriptions[t])
    /\ \A c \in Fanout!ToSet(connections) :
         socket[c] \in {"open", "stuck"} => c \in Fanout!ToSet(connections')

\* A step of p moves no other publisher.
Sends(p) ==
    /\ pass' \in [Publishers -> Topics \cup {"idle", "all"}]
    /\ to' \in [Publishers -> Sockets \cup {NoSocket}]
    /\ next' \in [Publishers -> Nat \ {0}]
    /\ served' \in [Publishers -> SUBSET Sockets]
    /\ dead' \in [Publishers -> Seq(Sockets)]
    /\ \A q \in Publishers \ {p} :
         /\ pass'[q] = pass[q] /\ to'[q] = to[q] /\ next'[q] = next[q]
         /\ served'[q] = served[q] /\ dead'[q] = dead[q]

\* p has its notes in order when it looks for the next connection.
Ready(p, already, failed) ==
    /\ \A c \in owed'[p] :
        socket[c] \in {"open", "stuck"} /\ c \in Fanout!ToSet(connections) /\ c \notin already
    /\ \A c \in Fanout!ToSet(failed) : socket[c] \in {"broken", "left"}
    /\ \A c \in already : asked[c] >= 1
    /\ \A c \in Sockets : \A i \in DOMAIN got'[c][p] : got'[c][p][i] <= count'[p]

\* No connection comes to a list, and the one who subscribed once stays alone.
LEMMA ThinnedLists ==
    ASSUME Fanout!IInv, Thins, asked' = asked
    PROVE  /\ Fanout!IsInjective(connections') /\ Fanout!SubscribedOnce'
           /\ \A c \in Fanout!ToSet(connections') : c \in Fanout!ToSet(connections)
<1>1. /\ connections \in Seq(Sockets) /\ Fanout!IsInjective(connections)
      /\ subscriptions \in [Topics -> Seq(Sockets)]
  BY DEF Fanout!IInv, Fanout!TypeOK
<1>2. /\ Fanout!IsInjective(connections')
      /\ \A c \in Fanout!ToSet(connections') : c \in Fanout!ToSet(connections)
  BY <1>1, MovedKeeps DEF Thins
<1>3. ASSUME NEW t \in Topics, NEW u \in Topics,
             NEW i \in DOMAIN subscriptions'[t], NEW j \in DOMAIN subscriptions'[u]
      PROVE  LET c == subscriptions'[t][i] IN
             /\ asked'[c] >= 1
             /\ asked'[c] = 1 /\ subscriptions'[u][j] = c => t = u /\ i = j
  <2>0. Moved(subscriptions'[t], subscriptions[t]) /\ Moved(subscriptions'[u], subscriptions[u])
    BY DEF Thins
  <2>1. PICK f \in [DOMAIN subscriptions'[t] -> DOMAIN subscriptions[t]] :
          /\ \A k, l \in DOMAIN subscriptions'[t] : f[k] = f[l] => k = l
          /\ \A k \in DOMAIN subscriptions'[t] : subscriptions'[t][k] = subscriptions[t][f[k]]
    BY <2>0 DEF Moved
  <2>2. PICK g \in [DOMAIN subscriptions'[u] -> DOMAIN subscriptions[u]] :
          \A k \in DOMAIN subscriptions'[u] : subscriptions'[u][k] = subscriptions[u][g[k]]
    BY <2>0 DEF Moved
  <2>3. f[i] \in DOMAIN subscriptions[t] /\ g[j] \in DOMAIN subscriptions[u]
    OBVIOUS
  <2>4. LET c == subscriptions[t][f[i]] IN
        /\ asked[c] >= 1
        /\ asked[c] = 1 /\ subscriptions[u][g[j]] = c => t = u /\ f[i] = g[j]
    BY <2>3 DEF Fanout!IInv, Fanout!SubscribedOnce
  <2>5. ASSUME t = u
        PROVE  \A k \in DOMAIN subscriptions'[t] :
                 subscriptions[t][f[i]] = subscriptions[t][f[k]] /\ asked[subscriptions[t][f[i]]] = 1
                 => i = k
    <3> TAKE k \in DOMAIN subscriptions'[t]
    <3>1. f[k] \in DOMAIN subscriptions[t]
      OBVIOUS
    <3>2. asked[subscriptions[t][f[i]]] = 1 /\ subscriptions[t][f[k]] = subscriptions[t][f[i]]
            => f[i] = f[k]
      BY <2>3, <3>1 DEF Fanout!IInv, Fanout!SubscribedOnce
    <3> QED BY <2>1, <3>2
  <2> QED BY <2>1, <2>2, <2>4, <2>5
<1>4. Fanout!SubscribedOnce'
  BY <1>3 DEF Fanout!SubscribedOnce
<1> QED BY <1>2, <1>4

\* What the steps of others and the end of a connection leave to q.
LEMMA BystanderKeeps ==
    ASSUME Fanout!ConstantsOK, Fanout!IInv, Thins, NEW q \in Publishers,
           pass'[q] = pass[q], to'[q] = to[q], next'[q] = next[q], served'[q] = served[q],
           dead'[q] = dead[q], count'[q] = count[q], owed'[q] = owed[q], asked' = asked,
           \A c \in Sockets : got'[c][q] = got[c][q],
           \A c \in Sockets : /\ socket[c] \in {"open", "stuck"} => socket'[c] = socket[c]
                              /\ socket[c] \in {"broken", "left"} => socket'[c] \in {"broken", "left"},
           departures'[q] =
             IF Fanout!Busy(q)
             THEN departures[q] +
                    Fanout!Cardinality(Fanout!ToSet(connections) \ Fanout!ToSet(connections'))
             ELSE departures[q]
    PROVE  Fanout!NotesInOrder(q)' /\ Fanout!NoneTwice(q)' /\ Fanout!MissedIsPaid(q)'
<1>1. /\ connections \in Seq(Sockets) /\ Fanout!IsInjective(connections)
      /\ subscriptions \in [Topics -> Seq(Sockets)]
      /\ pass[q] \in Topics \cup {"idle", "all"} /\ to[q] \in Sockets \cup {NoSocket}
      /\ next[q] \in Nat /\ served[q] \in SUBSET Sockets /\ dead[q] \in Seq(Sockets)
      /\ owed[q] \in SUBSET Sockets /\ departures[q] \in Nat
  BY DEF Fanout!IInv, Fanout!TypeOK
<1>2. Fanout!NotesInOrder(q) /\ Fanout!NoneTwice(q) /\ Fanout!MissedIsPaid(q)
  BY DEF Fanout!IInv
<1>3. /\ \A c \in owed[q] : socket'[c] \in {"open", "stuck"} /\ c \in Fanout!ToSet(connections')
      /\ \A c \in Fanout!ToSet(dead[q]) : socket'[c] \in {"broken", "left"}
  <2>1. \A c \in Fanout!ToSet(dead[q]) : c \in Sockets
    BY <1>1, ElementOfSeq DEF Fanout!ToSet
  <2> QED BY <1>1, <1>2, <2>1 DEF Fanout!NotesInOrder, Thins
<1>4. Fanout!NotesInOrder(q)'
  BY <1>2, <1>3 DEF Fanout!NotesInOrder, Fanout!Busy
<1>5. \A c \in Sockets : Fanout!Busy(q) /\ Fanout!Behind(q, c) => Fanout!Behind(q, c)'
  <2> SUFFICES ASSUME NEW c \in Sockets, Fanout!Busy(q), Fanout!Behind(q, c)
               PROVE  Fanout!Behind(q, c)'
    OBVIOUS
  <2>1. CASE pass[q] = "all"
    <3>1. \A i \in DOMAIN connections : connections[i] = c => i < next[q]
      BY <2>1 DEF Fanout!Behind
    <3>a. connections' \in Seq(Sockets) /\ Moved(connections', connections)
      BY DEF Thins
    <3>b. connections \in Seq(Sockets) /\ next[q] \in Nat
      BY <1>1
    <3>c. \A n \in Nat : \A d : (\A i \in DOMAIN connections : connections[i] = d => i < n) =>
            \A k \in DOMAIN connections' : connections'[k] = d => k < n
      BY <3>a, <3>b, MovedKeeps
    <3>2. \A k \in DOMAIN connections' : connections'[k] = c => k < next[q]
      BY <3>1, <3>b, <3>c
    <3> QED BY <2>1, <3>2 DEF Fanout!Behind
  <2>2. CASE pass[q] # "all"
    <3>1. pass[q] \in Topics
      BY <1>1, <2>2 DEF Fanout!Busy
    <3>2. \A i \in DOMAIN subscriptions[pass[q]] : subscriptions[pass[q]][i] = c => i < next[q]
      BY <2>2 DEF Fanout!Behind
    <3>3. /\ subscriptions[pass[q]] \in Seq(Sockets) /\ subscriptions'[pass[q]] \in Seq(Sockets)
          /\ Moved(subscriptions'[pass[q]], subscriptions[pass[q]])
      BY <1>1, <3>1 DEF Thins
    <3>4. \A k \in DOMAIN subscriptions'[pass[q]] :
            subscriptions'[pass[q]][k] = c => k < next[q]
      BY <1>1, <3>2, <3>3, MovedKeeps
    <3> QED BY <2>2, <3>4 DEF Fanout!Behind
  <2> QED BY <2>1, <2>2
<1>6. Fanout!NoneTwice(q)'
  <2>1. \A c \in Sockets : Fanout!Served(q, c)' <=> Fanout!Served(q, c)
    BY DEF Fanout!Served
  <2>2. Fanout!Busy(q)' <=> Fanout!Busy(q)
    BY DEF Fanout!Busy
  <2>3. Fanout!Busy(q) => to[q] \in Sockets
    BY <1>2 DEF Fanout!NotesInOrder
  <2> QED BY <1>2, <1>5, <2>1, <2>2, <2>3 DEF Fanout!NoneTwice
<1>7. Fanout!MissedIsPaid(q)'
  <2>1. CASE pass[q] = "idle"
    <3>1. Fanout!Missed(q) = owed[q] /\ Fanout!Missed(q)' = owed[q]
      BY <2>1 DEF Fanout!Missed, Fanout!Busy
    <3> QED BY <1>2, <2>1, <3>1 DEF Fanout!MissedIsPaid, Fanout!Busy
  <2>2. CASE pass[q] = "all"
    <3> DEFINE O == owed[q] \ {to[q]}
    <3>1. /\ Fanout!Missed(q) = Before(O, connections, next[q])
          /\ Fanout!Missed(q)' = Before(O, connections', next[q])
      BY <2>2 DEF Fanout!Missed, Fanout!Busy, Fanout!Behind, Before
    <3>2. \A c \in O : c \in Fanout!ToSet(connections')
      BY <1>3
    <3>3. LET R == Fanout!ToSet(connections) \ Fanout!ToSet(connections')
          IN  /\ Cardinality(Before(O, connections', next[q])) \in Nat
              /\ Cardinality(Before(O, connections, next[q])) \in Nat
              /\ Cardinality(R) \in Nat
              /\ Cardinality(Before(O, connections', next[q])) <=
                   Cardinality(Before(O, connections, next[q])) + Cardinality(R)
      BY <1>1, <3>2, BeforeGrowsByTheGone DEF Thins
    <3>4. Cardinality(Before(O, connections, next[q])) <= departures[q]
      <4>1. pass[q] \notin Topics
        BY <2>2 DEF Fanout!ConstantsOK
      <4> QED BY <1>2, <3>1, <4>1, SameCardinality DEF Fanout!MissedIsPaid
    <3>5. departures'[q] =
            departures[q] + Cardinality(Fanout!ToSet(connections) \ Fanout!ToSet(connections'))
      BY <2>2, SameCardinality DEF Fanout!Busy
    <3>6. Cardinality(Fanout!Missed(q)') <= departures'[q]
      BY <1>1, <3>1, <3>3, <3>4, <3>5
    <3> QED BY <3>6, SameCardinality DEF Fanout!MissedIsPaid
  <2>3. CASE pass[q] \in Topics
    BY <2>3 DEF Fanout!MissedIsPaid
  <2> QED BY <1>1, <2>1, <2>2, <2>3
<1> QED BY <1>4, <1>6, <1>7

\* The parts of Before are finite.
LEMMA FewerBefore ==
    ASSUME NEW T, NEW list \in Seq(T), NEW O, \A c \in O : c \in Fanout!ToSet(list),
           NEW n, NEW M, \A c \in M : c \in Before(O, list, n)
    PROVE  /\ Cardinality(M) \in Nat /\ Cardinality(Before(O, list, n)) \in Nat
           /\ Fanout!Cardinality(M) = Cardinality(M)
           /\ Cardinality(M) <= Cardinality(Before(O, list, n))
<1>1. Before(O, list, n) \in SUBSET Fanout!ToSet(list)
  BY DEF Before
<1>2. IsFiniteSet(Before(O, list, n))
  BY <1>1, ListsAreFinite, FS_Subset
<1>3. IsFiniteSet(M) /\ Cardinality(M) <= Cardinality(Before(O, list, n))
  BY <1>2, FS_Subset
<1> QED BY <1>2, <1>3, FS_CardinalityType, SameCardinality

\* The removal of connections that failed takes nobody away who is there.
LEMMA DisconnectedThins ==
    ASSUME Fanout!TypeOK, NEW failed \in Seq(Sockets), Fanout!Disconnected(failed),
           \A c \in Fanout!ToSet(failed) : socket[c] \in {"broken", "left"}
    PROVE  Thins
<1>1. connections \in Seq(Sockets) /\ subscriptions \in [Topics -> Seq(Sockets)]
  BY DEF Fanout!TypeOK
<1>2. /\ connections' \in Seq(Sockets) /\ Moved(connections', connections)
      /\ \A c \in Fanout!ToSet(connections) : c \notin Fanout!ToSet(failed) =>
            c \in Fanout!ToSet(connections')
  BY <1>1, WithoutThins DEF Fanout!Disconnected
<1>3. \A t \in Topics : /\ Fanout!Without(subscriptions[t], failed) \in Seq(Sockets)
                       /\ Moved(Fanout!Without(subscriptions[t], failed), subscriptions[t])
  BY <1>1, WithoutThins
<1>4. /\ subscriptions' \in [Topics -> Seq(Sockets)]
      /\ \A t \in Topics : Moved(subscriptions'[t], subscriptions[t])
  BY <1>3 DEF Fanout!Disconnected
<1>5. \A c \in Fanout!ToSet(connections) :
        socket[c] \in {"open", "stuck"} => c \in Fanout!ToSet(connections')
  BY <1>2
<1> QED BY <1>2, <1>4, <1>5 DEF Thins

LEMMA UnchangedThins ==
    ASSUME Fanout!TypeOK, connections' = connections, subscriptions' = subscriptions
    PROVE  Thins
<1>1. connections \in Seq(Sockets) /\ subscriptions \in [Topics -> Seq(Sockets)]
  BY DEF Fanout!TypeOK
<1>2. Moved(connections', connections) /\ \A t \in Topics : Moved(subscriptions'[t], subscriptions[t])
  BY <1>1, NothingMoved
<1> QED BY <1>1, <1>2 DEF Thins

\* A send begins, or the publish returns.
LEMMA SendOrReturnSends ==
    ASSUME Fanout!TypeOK, NEW p \in Publishers,
           \/ Fanout!Return(p)
           \/ \E stage \in Topics \cup {"all"}, list \in Seq(Sockets),
                 places \in SUBSET Nat, already \in SUBSET Sockets, failed \in Seq(Sockets) :
                 /\ Fanout!Send(p, stage, list, places)
                 /\ places # {} /\ \A i \in places : i \in DOMAIN list
                 /\ served' = [served EXCEPT ![p] = already]
                 /\ dead' = [dead EXCEPT ![p] = failed]
    PROVE  Sends(p)
<1>1. /\ pass \in [Publishers -> Topics \cup {"idle", "all"}]
      /\ to \in [Publishers -> Sockets \cup {NoSocket}]
      /\ next \in [Publishers -> Nat \ {0}]
      /\ served \in [Publishers -> SUBSET Sockets]
      /\ dead \in [Publishers -> Seq(Sockets)]
  BY DEF Fanout!TypeOK
<1>2. CASE Fanout!Return(p)
  <2>1. <<>> \in Seq(Sockets) /\ {} \in SUBSET Sockets /\ 1 \in Nat \ {0}
    OBVIOUS
  <2> QED BY <1>1, <1>2, <2>1 DEF Fanout!Return, Sends
<1>3. CASE ~Fanout!Return(p)
  <2>1. PICK stage \in Topics \cup {"all"}, list \in Seq(Sockets),
             places \in SUBSET Nat, already \in SUBSET Sockets, failed \in Seq(Sockets) :
               /\ Fanout!Send(p, stage, list, places)
               /\ places # {} /\ \A i \in places : i \in DOMAIN list
               /\ served' = [served EXCEPT ![p] = already]
               /\ dead' = [dead EXCEPT ![p] = failed]
    BY <1>3
  <2>2. PICK i : i = Fanout!Min(places)
    OBVIOUS
  <2>3. i \in places /\ i \in DOMAIN list
    BY <2>1, <2>2, LeastPlace
  <2>4. i + 1 \in Nat \ {0} /\ list[i] \in Sockets
    BY <2>3, ElementOfSeq
  <2>5. /\ pass' = [pass EXCEPT ![p] = stage]
        /\ to' = [to EXCEPT ![p] = list[i]]
        /\ next' = [next EXCEPT ![p] = i + 1]
    BY <2>1, <2>2 DEF Fanout!Send
  <2>6. pass' \in [Publishers -> Topics \cup {"idle", "all"}]
    BY <1>1, <2>5
  <2>7. to' \in [Publishers -> Sockets \cup {NoSocket}] /\ next' \in [Publishers -> Nat \ {0}]
    BY <1>1, <2>4, <2>5
  <2>8. served' \in [Publishers -> SUBSET Sockets] /\ dead' \in [Publishers -> Seq(Sockets)]
    BY <1>1, <2>1
  <2>9. \A q \in Publishers \ {p} :
          /\ pass'[q] = pass[q] /\ to'[q] = to[q] /\ next'[q] = next[q]
          /\ served'[q] = served[q] /\ dead'[q] = dead[q]
    BY <1>1, <2>1, <2>5
  <2> QED BY <2>6, <2>7, <2>8, <2>9 DEF Sends
<1> QED BY <1>2, <1>3

\* p on its way through everybody.
LEMMA ToAllKeeps ==
    ASSUME Fanout!ConstantsOK, Fanout!TypeOK, NEW p \in Publishers, NEW from \in Nat \ {0},
           NEW already \in SUBSET Sockets, NEW failed \in Seq(Sockets),
           Fanout!ToAll(p, from, already, failed), Ready(p, already, failed),
           socket' = socket, asked' = asked, owed'[p] \in SUBSET Sockets, departures'[p] \in Nat,
           \A c \in Sockets : asked[c] <= 1 /\ Fanout!Served(p, c)' =>
                c \in already \/ \A i \in DOMAIN connections : connections[i] = c => i < from,
           Cardinality(Before(owed'[p], connections, from)) <= departures'[p]
    PROVE  /\ Thins /\ Sends(p) /\ (to'[p] = NoSocket \/ socket[to'[p]] # "new")
           /\ Fanout!NotesInOrder(p)' /\ Fanout!NoneTwice(p)' /\ Fanout!MissedIsPaid(p)'
<1> DEFINE places == Fanout!Targets("all", connections, from, already)
<1>1. /\ connections \in Seq(Sockets) /\ Fanout!IsInjective(connections)
      /\ DOMAIN connections = 1 .. Len(connections) /\ Len(connections) \in Nat
      /\ pass \in [Publishers -> Topics \cup {"idle", "all"}]
      /\ to \in [Publishers -> Sockets \cup {NoSocket}]
      /\ next \in [Publishers -> Nat \ {0}]
      /\ served \in [Publishers -> SUBSET Sockets]
      /\ dead \in [Publishers -> Seq(Sockets)]
  BY DEF Fanout!TypeOK
<1>2. \A j : j \in places <=> /\ j \in DOMAIN connections /\ j >= from
                              /\ Fanout!Connected(connections[j]) /\ connections[j] \notin already
  BY <1>1 DEF Fanout!Targets
<1>3. places \in SUBSET Nat
  BY <1>1, <1>2
<1> HIDE DEF places
\* Whom p owes its event is among those it still comes to, or before them.
<1>4. \A c \in owed'[p], j \in DOMAIN connections :
        connections[j] = c /\ j \notin places => j < from
  <2> SUFFICES ASSUME NEW c \in owed'[p], NEW j \in DOMAIN connections,
                      connections[j] = c, j \notin places
               PROVE  j < from
    OBVIOUS
  <2>1. Fanout!Connected(connections[j]) /\ connections[j] \notin already
    BY DEF Ready, Fanout!Connected
  <2>2. ~(j >= from)
    BY <1>2, <2>1
  <2> QED BY <1>1, <2>2
<1>5. \A c \in owed'[p] : c \in Fanout!ToSet(connections)
  BY DEF Ready
<1>6. CASE places # {}
  <2>1. PICK i : i = Fanout!Min(places)
    OBVIOUS
  <2>2. i \in places /\ \A j \in places : i <= j
    BY <1>3, <1>6, <2>1, LeastPlace
  <2>3. /\ pass' = [pass EXCEPT ![p] = "all"] /\ to' = [to EXCEPT ![p] = connections[i]]
        /\ next' = [next EXCEPT ![p] = i + 1] /\ served' = [served EXCEPT ![p] = already]
        /\ dead' = [dead EXCEPT ![p] = failed]
        /\ connections' = connections /\ subscriptions' = subscriptions
        /\ Fanout!Send(p, "all", connections, places)
    BY <1>6, <2>1 DEF Fanout!ToAll, Fanout!Send, Fanout!listVars, places
  <2>4. /\ pass'[p] = "all" /\ to'[p] = connections[i] /\ next'[p] = i + 1
        /\ served'[p] = already /\ dead'[p] = failed
    BY <1>1, <2>3
  <2>5. i \in DOMAIN connections /\ i \in Nat /\ connections[i] \in Sockets
    BY <1>1, <1>2, <2>2, ElementOfSeq
  <2>6. Thins
    BY <2>3, UnchangedThins
  <2>7. Sends(p)
    <3>1. \A j \in places : j \in DOMAIN connections
      BY <1>2
    <3> QED BY <1>1, <1>3, <1>6, <2>3, <3>1, SendOrReturnSends
  <2>8. Fanout!NotesInOrder(p)'
    BY <2>3, <2>4, <2>5 DEF Fanout!NotesInOrder, Ready, Fanout!ConstantsOK
  <2>9. \A c \in Sockets : Fanout!Behind(p, c)' <=>
          \A j \in DOMAIN connections : connections[j] = c => j < i + 1
    BY <2>3, <2>4 DEF Fanout!Behind
  <2>10. Fanout!NoneTwice(p)'
    <3>a. \A j \in DOMAIN connections : connections[j] = connections[i] => j < i + 1
      BY <1>1, <2>5 DEF Fanout!IsInjective
    <3>1. Fanout!Behind(p, to[p])'
      BY <2>3, <2>4, <3>a DEF Fanout!Behind
    <3>2. ASSUME NEW c \in Sockets, asked[c] <= 1, Fanout!Served(p, c)'
          PROVE  to'[p] # c /\ (c \in already \/ Fanout!Behind(p, c)')
      <4>1. CASE c \in already
        BY <1>2, <2>2, <2>4, <4>1
      <4>2. CASE c \notin already
        <5>1. \A j \in DOMAIN connections : connections[j] = c => j < from
          BY <3>2, <4>2
        <5>2. from <= i
          BY <1>2, <2>2
        <5>3. connections[i] # c
          BY <2>5, <5>1, <5>2
        <5>4. \A j \in DOMAIN connections : connections[j] = c => j < i + 1
          BY <1>1, <2>5, <5>1, <5>2
        <5> QED BY <2>4, <2>9, <5>3, <5>4
      <4> QED BY <4>1, <4>2
    <3>3. pass'[p] \notin Topics
      BY <2>4 DEF Fanout!ConstantsOK
    <3> QED BY <2>4, <3>1, <3>2, <3>3 DEF Fanout!NoneTwice, Ready
  <2>11. Fanout!MissedIsPaid(p)'
    <3>1. \A c \in Fanout!Missed(p)' : c \in Before(owed'[p], connections, from)
      <4> SUFFICES ASSUME NEW c \in Fanout!Missed(p)', NEW j \in DOMAIN connections,
                          connections[j] = c
                   PROVE  c \in owed'[p] /\ j < from
        BY DEF Before, Fanout!Missed
      <4>1. c \in owed'[p] /\ to'[p] # c /\ Fanout!Behind(p, c)'
        BY <2>4 DEF Fanout!Missed, Fanout!Busy
      <4>2. j < i + 1 /\ j # i
        BY <2>4, <2>9, <4>1
      <4>3. j \notin places
        BY <1>1, <2>2, <2>5, <4>2
      <4> QED BY <1>4, <4>1, <4>3
    <3>2. /\ Cardinality(Fanout!Missed(p)') \in Nat
          /\ Cardinality(Before(owed'[p], connections, from)) \in Nat
          /\ Fanout!Cardinality(Fanout!Missed(p)') = Cardinality(Fanout!Missed(p)')
          /\ Cardinality(Fanout!Missed(p)') <= Cardinality(Before(owed'[p], connections, from))
      BY <1>1, <1>5, <3>1, FewerBefore
    <3>3. Fanout!Cardinality(Fanout!Missed(p)') <= departures'[p]
      BY <3>2
    <3> QED BY <3>3 DEF Fanout!MissedIsPaid
  <2>12. socket[to'[p]] # "new"
    BY <1>2, <2>2, <2>4 DEF Fanout!Connected
  <2> QED BY <2>6, <2>7, <2>8, <2>10, <2>11, <2>12
<1>7. CASE places = {}
  <2>1. Fanout!Return(p) /\ Fanout!Disconnected(failed)
    BY <1>7 DEF Fanout!ToAll, places
  <2>2. Thins
    BY <2>1, DisconnectedThins DEF Ready
  <2>3. Sends(p)
    BY <2>1, SendOrReturnSends
  <2>4. /\ pass'[p] = "idle" /\ to'[p] = NoSocket /\ next'[p] = 1 /\ served'[p] = {}
        /\ dead'[p] = <<>>
    BY <1>1, <2>1 DEF Fanout!Return
  <2>5. Fanout!NotesInOrder(p)'
    <3>1. \A c \in owed'[p] : socket'[c] \in {"open", "stuck"} /\ c \in Fanout!ToSet(connections')
      BY <2>2 DEF Ready, Thins
    <3>2. \A c \in Fanout!ToSet(dead'[p]) : FALSE
      BY <2>4 DEF Fanout!ToSet
    <3>3. pass'[p] \notin Topics
      BY <2>4 DEF Fanout!ConstantsOK
    <3> QED BY <2>4, <3>1, <3>2, <3>3 DEF Fanout!NotesInOrder, Fanout!Busy
  <2>6. Fanout!NoneTwice(p)'
    BY <2>4 DEF Fanout!NoneTwice, Fanout!Busy, Ready
  <2>7. Fanout!MissedIsPaid(p)'
    <3>1. \A c \in Fanout!Missed(p)' : c \in Before(owed'[p], connections, from)
      BY <1>4, <1>7 DEF Before, Fanout!Missed
    <3>2. /\ Cardinality(Fanout!Missed(p)') \in Nat
          /\ Cardinality(Before(owed'[p], connections, from)) \in Nat
          /\ Fanout!Cardinality(Fanout!Missed(p)') = Cardinality(Fanout!Missed(p)')
          /\ Cardinality(Fanout!Missed(p)') <= Cardinality(Before(owed'[p], connections, from))
      BY <1>1, <1>5, <3>1, FewerBefore
    <3>3. Fanout!Cardinality(Fanout!Missed(p)') <= departures'[p]
      BY <3>2
    <3> QED BY <3>3 DEF Fanout!MissedIsPaid
  <2> QED BY <2>2, <2>3, <2>4, <2>5, <2>6, <2>7
<1> QED BY <1>6, <1>7

\* p on its way through the subscribers of t, and from them to everybody.
LEMMA ToTaskKeeps ==
    ASSUME Fanout!ConstantsOK, Fanout!TypeOK, Fanout!SubscribedOnce,
           NEW p \in Publishers, NEW t \in Topics, NEW from \in Nat \ {0},
           NEW already \in SUBSET Sockets, NEW failed \in Seq(Sockets),
           Fanout!ToTask(p, t, from, already, failed), Ready(p, already, failed),
           socket' = socket, asked' = asked, owed'[p] \in SUBSET Sockets, departures'[p] \in Nat,
           \A c \in Sockets : asked[c] <= 1 /\ Fanout!Served(p, c)' =>
                c \in already
                /\ \A i \in DOMAIN subscriptions[t] : subscriptions[t][i] = c => i < from
    PROVE  /\ Thins /\ Sends(p) /\ (to'[p] = NoSocket \/ socket[to'[p]] # "new")
           /\ Fanout!NotesInOrder(p)' /\ Fanout!NoneTwice(p)' /\ Fanout!MissedIsPaid(p)'
<1> DEFINE list == subscriptions[t]
           places == Fanout!Targets(t, list, from, already)
           left == Fanout!Without(connections, failed)
           others == Fanout!Targets("all", left, 1, already)
<1>1. /\ connections \in Seq(Sockets) /\ Fanout!IsInjective(connections)
      /\ list \in Seq(Sockets) /\ DOMAIN list = 1 .. Len(list) /\ Len(list) \in Nat
      /\ pass \in [Publishers -> Topics \cup {"idle", "all"}]
      /\ to \in [Publishers -> Sockets \cup {NoSocket}]
      /\ next \in [Publishers -> Nat \ {0}]
      /\ served \in [Publishers -> SUBSET Sockets]
      /\ dead \in [Publishers -> Seq(Sockets)]
      /\ asked \in [Sockets -> Nat]
  BY DEF Fanout!TypeOK
<1>2. t # "all" /\ t # "idle"
  BY DEF Fanout!ConstantsOK
<1>3. \A j : j \in places <=> /\ j \in DOMAIN list /\ j >= from
                              /\ Fanout!Connected(list[j])
  BY <1>1, <1>2 DEF Fanout!Targets
<1>4. /\ left \in Seq(Sockets) /\ Moved(left, connections)
      /\ \A c \in Fanout!ToSet(connections) : c \notin Fanout!ToSet(failed) => c \in Fanout!ToSet(left)
  BY <1>1, WithoutThins
<1>5. Fanout!IsInjective(left)
  BY <1>1, <1>4, MovedKeeps
<1>6. DOMAIN left = 1 .. Len(left) /\ Len(left) \in Nat
  BY <1>4
<1>7. \A j : j \in others <=> /\ j \in DOMAIN left
                              /\ Fanout!Connected(left[j]) /\ left[j] \notin already
  BY <1>6 DEF Fanout!Targets
<1>8. places \in SUBSET Nat /\ others \in SUBSET Nat
  BY <1>1, <1>3, <1>6, <1>7
<1>9. \/ /\ places # {} /\ Fanout!Send(p, t, list, places)
         /\ served' = [served EXCEPT ![p] = already] /\ dead' = [dead EXCEPT ![p] = failed]
         /\ connections' = connections /\ subscriptions' = subscriptions
      \/ /\ places = {} /\ others = {} /\ Fanout!Return(p) /\ Fanout!Disconnected(failed)
      \/ /\ places = {} /\ others # {} /\ Fanout!Send(p, "all", left, others)
         /\ served' = [served EXCEPT ![p] = already] /\ dead' = [dead EXCEPT ![p] = <<>>]
         /\ Fanout!Disconnected(failed)
  BY DEF Fanout!ToTask, Fanout!listVars
<1>10. Fanout!Disconnected(failed) => connections' = left
  BY DEF Fanout!Disconnected
<1>11. \A c \in owed'[p] : c \in Fanout!ToSet(left)
  <2> TAKE c \in owed'[p]
  <2>1. c \notin Fanout!ToSet(failed)
    BY DEF Ready
  <2> QED BY <1>4, <2>1 DEF Ready
<1> HIDE DEF places, left, others
\* Whom p owes its event it meets in the second pass.
<1>12. \A c \in owed'[p], j \in DOMAIN left : left[j] = c => j \in others
  BY <1>7 DEF Ready, Fanout!Connected
<1>13. CASE /\ places # {} /\ Fanout!Send(p, t, list, places)
            /\ served' = [served EXCEPT ![p] = already] /\ dead' = [dead EXCEPT ![p] = failed]
            /\ connections' = connections /\ subscriptions' = subscriptions
  <2>1. PICK i : i = Fanout!Min(places)
    OBVIOUS
  <2>2. i \in places /\ \A j \in places : i <= j
    BY <1>8, <1>13, <2>1, LeastPlace
  <2>3. /\ pass' = [pass EXCEPT ![p] = t] /\ to' = [to EXCEPT ![p] = list[i]]
        /\ next' = [next EXCEPT ![p] = i + 1]
    BY <1>13, <2>1 DEF Fanout!Send
  <2>4. /\ pass'[p] = t /\ to'[p] = list[i] /\ next'[p] = i + 1
        /\ served'[p] = already /\ dead'[p] = failed
    BY <1>1, <1>13, <2>3
  <2>5. i \in DOMAIN list /\ i \in Nat /\ list[i] \in Sockets
    BY <1>1, <1>3, <2>2, ElementOfSeq
  <2>6. Thins
    BY <1>13, UnchangedThins
  <2>7. Sends(p)
    <3>1. \A j \in places : j \in DOMAIN list
      BY <1>3
    <3> QED BY <1>1, <1>8, <1>13, <3>1, SendOrReturnSends
  <2>a. asked[list[i]] >= 1
    BY <2>5 DEF Fanout!SubscribedOnce
  <2>8. Fanout!NotesInOrder(p)'
    BY <1>13, <2>4, <2>5, <2>a DEF Fanout!NotesInOrder, Ready
  <2>9. \A c \in Sockets : Fanout!Behind(p, c)' <=>
          \A j \in DOMAIN list : list[j] = c => j < i + 1
    BY <1>2, <1>13, <2>4 DEF Fanout!Behind
  <2>10. Fanout!NoneTwice(p)'
    <3>1. asked[list[i]] <= 1 => Fanout!Behind(p, to[p])'
      <4> HAVE asked[list[i]] <= 1
      <4>1. asked[list[i]] = 1
        BY <1>1, <2>5, <2>a
      <4>2. \A j \in DOMAIN list : list[j] = list[i] => i = j
        BY <2>5, <4>1 DEF Fanout!SubscribedOnce
      <4>3. \A j \in DOMAIN list : list[j] = list[i] => j < i + 1
        BY <2>5, <4>2
      <4> QED BY <1>2, <1>13, <2>4, <4>3 DEF Fanout!Behind
    <3>2. ASSUME NEW c \in Sockets, asked[c] <= 1, Fanout!Served(p, c)'
          PROVE  to'[p] # c /\ c \in already /\ Fanout!Behind(p, c)'
      <4>1. c \in already /\ \A j \in DOMAIN list : list[j] = c => j < from
        BY <3>2
      <4>2. from <= i
        BY <1>3, <2>2
      <4>3. list[i] # c
        BY <2>5, <4>1, <4>2
      <4>4. \A j \in DOMAIN list : list[j] = c => j < i + 1
        BY <1>1, <2>5, <4>1, <4>2
      <4> QED BY <2>4, <2>9, <4>1, <4>3, <4>4
    <3> QED BY <2>4, <3>1, <3>2 DEF Fanout!NoneTwice, Ready
  <2>11. Fanout!MissedIsPaid(p)'
    BY <2>4 DEF Fanout!MissedIsPaid
  <2>12. socket[to'[p]] # "new"
    BY <1>3, <2>2, <2>4 DEF Fanout!Connected
  <2> QED BY <2>6, <2>7, <2>8, <2>10, <2>11, <2>12
<1>14. CASE places = {} /\ others = {} /\ Fanout!Return(p) /\ Fanout!Disconnected(failed)
  <2>2. Thins
    BY <1>14, DisconnectedThins DEF Ready
  <2>3. Sends(p)
    BY <1>14, SendOrReturnSends
  <2>4. /\ pass'[p] = "idle" /\ to'[p] = NoSocket /\ next'[p] = 1 /\ served'[p] = {}
        /\ dead'[p] = <<>>
    BY <1>1, <1>14 DEF Fanout!Return
  <2>5. Fanout!NotesInOrder(p)'
    <3>1. \A c \in owed'[p] : socket'[c] \in {"open", "stuck"} /\ c \in Fanout!ToSet(connections')
      BY <2>2 DEF Ready, Thins
    <3>2. \A c \in Fanout!ToSet(dead'[p]) : FALSE
      BY <2>4 DEF Fanout!ToSet
    <3>3. pass'[p] \notin Topics
      BY <2>4 DEF Fanout!ConstantsOK
    <3> QED BY <2>4, <3>1, <3>2, <3>3 DEF Fanout!NotesInOrder, Fanout!Busy
  <2>6. Fanout!NoneTwice(p)'
    BY <2>4 DEF Fanout!NoneTwice, Fanout!Busy, Ready
  <2>7. Fanout!MissedIsPaid(p)'
    <3>1. Fanout!Missed(p)' = {}
      BY <1>11, <1>12, <1>14 DEF Fanout!Missed, Fanout!ToSet
    <3>2. Fanout!Cardinality(Fanout!Missed(p)') = 0
      BY <3>1, SameCardinality, FS_EmptySet
    <3> QED BY <3>2 DEF Fanout!MissedIsPaid
  <2> QED BY <2>2, <2>3, <2>4, <2>5, <2>6, <2>7
<1>15. CASE /\ places = {} /\ others # {} /\ Fanout!Send(p, "all", left, others)
            /\ served' = [served EXCEPT ![p] = already] /\ dead' = [dead EXCEPT ![p] = <<>>]
            /\ Fanout!Disconnected(failed)
  <2>1. PICK i : i = Fanout!Min(others)
    OBVIOUS
  <2>2. i \in others /\ \A j \in others : i <= j
    BY <1>8, <1>15, <2>1, LeastPlace
  <2>3. /\ pass' = [pass EXCEPT ![p] = "all"] /\ to' = [to EXCEPT ![p] = left[i]]
        /\ next' = [next EXCEPT ![p] = i + 1]
    BY <1>15, <2>1 DEF Fanout!Send
  <2>4. /\ pass'[p] = "all" /\ to'[p] = left[i] /\ next'[p] = i + 1
        /\ served'[p] = already /\ dead'[p] = <<>>
    BY <1>1, <1>15, <2>3
  <2>5. i \in DOMAIN left /\ i \in Nat /\ left[i] \in Sockets
    BY <1>4, <1>6, <1>7, <2>2, ElementOfSeq
  <2>6. Thins
    BY <1>15, DisconnectedThins DEF Ready
  <2>7. Sends(p)
    <3>1. <<>> \in Seq(Sockets) /\ \A j \in others : j \in DOMAIN left
      BY <1>7
    <3> QED BY <1>4, <1>8, <1>15, <3>1, SendOrReturnSends
  <2>b. pass'[p] \notin Topics
    BY <2>4 DEF Fanout!ConstantsOK
  <2>8. Fanout!NotesInOrder(p)'
    <3>1. \A c \in owed'[p] : socket'[c] \in {"open", "stuck"} /\ c \in Fanout!ToSet(connections')
      BY <2>6 DEF Ready, Thins
    <3>2. \A c \in Fanout!ToSet(dead'[p]) : FALSE
      BY <2>4 DEF Fanout!ToSet
    <3> QED BY <2>4, <2>5, <2>b, <3>1, <3>2 DEF Fanout!NotesInOrder, Fanout!Busy, Ready
  <2>9. \A c \in Sockets : Fanout!Behind(p, c)' <=>
          \A j \in DOMAIN left : left[j] = c => j < i + 1
    BY <1>10, <1>15, <2>4 DEF Fanout!Behind
  <2>10. Fanout!NoneTwice(p)'
    <3>a. \A j \in DOMAIN left : left[j] = left[i] => j < i + 1
      BY <1>5, <2>5 DEF Fanout!IsInjective
    <3>1. Fanout!Behind(p, to[p])'
      BY <1>10, <1>15, <2>4, <3>a DEF Fanout!Behind
    <3>2. ASSUME NEW c \in Sockets, asked[c] <= 1, Fanout!Served(p, c)'
          PROVE  to'[p] # c /\ c \in already
      <4>1. c \in already
        BY <3>2
      <4>2. left[i] \notin already
        BY <1>7, <2>2
      <4> QED BY <2>4, <4>1, <4>2
    <3> QED BY <2>4, <2>b, <3>1, <3>2 DEF Fanout!NoneTwice, Ready
  <2>11. Fanout!MissedIsPaid(p)'
    <3>1. ASSUME NEW c \in Fanout!Missed(p)' PROVE FALSE
      <4>1. c \in owed'[p] /\ to'[p] # c /\ Fanout!Behind(p, c)'
        BY <2>4 DEF Fanout!Missed, Fanout!Busy
      <4>2. PICK j \in DOMAIN left : left[j] = c
        BY <1>11, <4>1 DEF Fanout!ToSet
      <4>3. j \in others /\ j < i + 1
        BY <1>12, <2>9, <4>1, <4>2
      <4>4. j = i
        BY <1>6, <2>2, <2>5, <4>3
      <4> QED BY <2>4, <4>1, <4>2, <4>4
    <3>2. Fanout!Missed(p)' = {}
      BY <3>1
    <3>3. Fanout!Cardinality(Fanout!Missed(p)') = 0
      BY <3>2, SameCardinality, FS_EmptySet
    <3> QED BY <3>3 DEF Fanout!MissedIsPaid
  <2>12. socket[to'[p]] # "new"
    BY <1>7, <2>2, <2>4 DEF Fanout!Connected
  <2> QED BY <2>6, <2>7, <2>8, <2>10, <2>11, <2>12
<1> QED BY <1>9, <1>13, <1>14, <1>15

LEMMA Departures ==
    ASSUME Fanout!TypeOK, connections' \in Seq(Sockets), NEW p, Fanout!CountDepartures(p)
    PROVE  /\ departures' \in [Publishers -> Nat]
           /\ \A q \in Publishers : departures'[q] =
                IF q = p THEN IF Fanout!Busy(q) THEN departures[q] ELSE 0
                ELSE IF Fanout!Busy(q)
                THEN departures[q] +
                       Fanout!Cardinality(Fanout!ToSet(connections) \ Fanout!ToSet(connections'))
                ELSE departures[q]
<1> DEFINE removed ==
        Fanout!Cardinality(Fanout!ToSet(connections) \ Fanout!ToSet(connections'))
<1>1. connections \in Seq(Sockets) /\ departures \in [Publishers -> Nat]
  BY DEF Fanout!TypeOK
<1>2. removed \in Nat
  <2>1. IsFiniteSet(Fanout!ToSet(connections) \ Fanout!ToSet(connections'))
    BY <1>1, ListsAreFinite, FS_Difference
  <2> QED BY <2>1, FS_CardinalityType, SameCardinality
<1>3. departures' = [q \in Publishers |->
          CASE q = p /\ ~Fanout!Busy(p) -> 0
            [] q # p /\ Fanout!Busy(q) -> departures[q] + removed
            [] OTHER -> departures[q]]
  BY DEF Fanout!CountDepartures
<1> HIDE DEF removed
<1>4. \A q \in Publishers : departures'[q] =
                IF q = p THEN IF Fanout!Busy(q) THEN departures[q] ELSE 0
                ELSE IF Fanout!Busy(q) THEN departures[q] + removed ELSE departures[q]
  BY <1>3
<1>5. \A q \in Publishers : departures'[q] \in Nat
  BY <1>1, <1>2, <1>4
<1> QED BY <1>3, <1>4, <1>5 DEF removed

\* A step of p that leaves p in order leaves everything in order.
LEMMA SenderKeeps ==
    ASSUME Fanout!ConstantsOK, Fanout!IInv, NEW p \in Publishers, Thins, Sends(p),
           socket' = socket, asked' = asked, Fanout!CountDepartures(p),
           count' \in [Publishers -> Nat], owed' \in [Publishers -> SUBSET Sockets],
           got' \in [Sockets -> [Publishers -> Seq(Nat)]],
           \A q \in Publishers \ {p} :
                /\ count'[q] = count[q] /\ owed'[q] = owed[q]
                /\ \A c \in Sockets : got'[c][q] = got[c][q],
           to'[p] = NoSocket \/ socket[to'[p]] # "new",
           \A c \in Sockets : socket[c] = "new" => got'[c][p] = got[c][p],
           Fanout!NotesInOrder(p)', Fanout!NoneTwice(p)', Fanout!MissedIsPaid(p)',
           \A c \in Sockets : asked[c] <= 1 =>
                \A i, j \in DOMAIN got'[c][p] : i < j => got'[c][p][i] < got'[c][p][j]
    PROVE  Fanout!IInv'
<1>1. Fanout!TypeOK
  BY DEF Fanout!IInv
<1>2. /\ Fanout!IsInjective(connections') /\ Fanout!SubscribedOnce'
      /\ \A c \in Fanout!ToSet(connections') : c \in Fanout!ToSet(connections)
  BY ThinnedLists
<1>3. /\ departures' \in [Publishers -> Nat]
      /\ \A q \in Publishers : q # p => departures'[q] =
             IF Fanout!Busy(q)
             THEN departures[q] +
                    Fanout!Cardinality(Fanout!ToSet(connections) \ Fanout!ToSet(connections'))
             ELSE departures[q]
  BY <1>1, Departures DEF Thins
<1>4. Fanout!TypeOK'
  <2>1. /\ connections' \in Seq(Sockets) /\ Fanout!IsInjective(connections')
        /\ \A c \in Fanout!ToSet(connections') : Fanout!Connected(c)'
        /\ subscriptions' \in [Topics -> Seq(Sockets)]
    BY <1>1, <1>2 DEF Thins, Fanout!TypeOK, Fanout!Connected
  <2>2. /\ socket' \in [Sockets -> {"new", "open", "stuck", "broken", "left"}]
        /\ asked' \in [Sockets -> Nat]
    BY <1>1 DEF Fanout!TypeOK
  <2>3. Fanout!IsInjective(connections)'
    BY <2>1 DEF Fanout!IsInjective
  <2> QED BY <1>3, <2>1, <2>2, <2>3 DEF Fanout!TypeOK, Sends
<1>5. \A q \in Publishers \ {p} :
        Fanout!NotesInOrder(q)' /\ Fanout!NoneTwice(q)' /\ Fanout!MissedIsPaid(q)'
  <2> TAKE q \in Publishers \ {p}
  <2>1. /\ pass'[q] = pass[q] /\ to'[q] = to[q] /\ next'[q] = next[q]
        /\ served'[q] = served[q] /\ dead'[q] = dead[q]
    BY DEF Sends
  <2> QED BY <1>3, <2>1, BystanderKeeps
<1>6. Fanout!NewIsNowhere'
  <2> SUFFICES ASSUME NEW c \in Sockets, socket'[c] = "new"
               PROVE  asked'[c] = 0 /\ \A q \in Publishers : got'[c][q] = <<>> /\ to'[q] # c
    BY DEF Fanout!NewIsNowhere
  <2>1. asked[c] = 0 /\ \A q \in Publishers : got[c][q] = <<>> /\ to[q] # c
    BY DEF Fanout!IInv, Fanout!NewIsNowhere
  <2>2. to'[p] # c
    BY DEF Fanout!ConstantsOK
  <2> QED BY <2>1, <2>2 DEF Sends
<1>7. Fanout!DeliveredOnceInOrder'
  <2> SUFFICES ASSUME NEW c \in Sockets, NEW q \in Publishers, asked[c] <= 1
               PROVE  \A i, j \in DOMAIN got'[c][q] : i < j => got'[c][q][i] < got'[c][q][j]
    BY DEF Fanout!DeliveredOnceInOrder
  <2>1. CASE q = p
    BY <2>1
  <2>2. CASE q # p
    BY <2>2 DEF Fanout!IInv, Fanout!DeliveredOnceInOrder
  <2> QED BY <2>1, <2>2
<1> QED BY <1>2, <1>4, <1>5, <1>6, <1>7 DEF Fanout!IInv

\* An event that is about to be published has come to nobody.
LEMMA BegunInOrder ==
    ASSUME Fanout!ConstantsOK, Fanout!IInv, NEW p \in Publishers, Fanout!Begin(p)
    PROVE  /\ ~Fanout!Busy(p) /\ socket' = socket /\ asked' = asked /\ got' = got
           /\ count' \in [Publishers -> Nat] /\ owed' \in [Publishers -> SUBSET Sockets]
           /\ \A q \in Publishers \ {p} : count'[q] = count[q] /\ owed'[q] = owed[q]
           /\ \A c \in Sockets : ~Fanout!Served(p, c)'
           /\ Ready(p, {}, <<>>)
           /\ Before(owed'[p], connections, 1) = {}
<1>1. /\ count \in [Publishers -> Nat] /\ owed \in [Publishers -> SUBSET Sockets]
      /\ connections \in Seq(Sockets) /\ got \in [Sockets -> [Publishers -> Seq(Nat)]]
  BY DEF Fanout!IInv, Fanout!TypeOK
<1>2. /\ ~Fanout!Busy(p) /\ count' = [count EXCEPT ![p] = @ + 1]
      /\ owed' = [owed EXCEPT ![p] =
             {c \in Fanout!ToSet(connections) : socket[c] \in {"open", "stuck"}}]
      /\ socket' = socket /\ asked' = asked /\ got' = got
  BY DEF Fanout!Begin
<1>3. \A c \in Fanout!ToSet(connections) : c \in Sockets
  BY <1>1, ElementOfSeq DEF Fanout!ToSet
<1>4. /\ count' \in [Publishers -> Nat] /\ owed' \in [Publishers -> SUBSET Sockets]
      /\ \A q \in Publishers \ {p} : count'[q] = count[q] /\ owed'[q] = owed[q]
      /\ count'[p] = count[p] + 1
      /\ \A c \in owed'[p] : socket[c] \in {"open", "stuck"} /\ c \in Fanout!ToSet(connections)
  BY <1>1, <1>2, <1>3
<1>5. \A c \in Sockets : \A i \in DOMAIN got[c][p] :
        got[c][p][i] \in Nat /\ got[c][p][i] <= count[p] /\ count[p] \in Nat
  <2> TAKE c \in Sockets
  <2> TAKE i \in DOMAIN got[c][p]
  <2>1. got[c][p] \in Seq(Nat)
    BY <1>1
  <2>2. got[c][p][i] \in Nat
    BY <2>1, ElementOfSeq
  <2>3. got[c][p][i] <= count[p]
    BY DEF Fanout!IInv, Fanout!NoneTwice
  <2> QED BY <1>1, <2>2, <2>3
<1>6. \A c \in Sockets : \A i \in DOMAIN got'[c][p] :
        got'[c][p][i] <= count'[p] /\ got'[c][p][i] # count'[p]
  BY <1>2, <1>4, <1>5
<1>7. Ready(p, {}, <<>>) /\ \A c \in Sockets : ~Fanout!Served(p, c)'
  BY <1>4, <1>6 DEF Ready, Fanout!Served, Fanout!ToSet
<1>8. Before(owed'[p], connections, 1) = {}
  <2>1. ASSUME NEW c \in Before(owed'[p], connections, 1) PROVE FALSE
    <3>1. PICK j \in DOMAIN connections : connections[j] = c
      BY <1>4 DEF Before, Fanout!ToSet
    <3>2. j < 1 /\ j \in 1 .. Len(connections)
      BY <1>1, <3>1 DEF Before
    <3> QED BY <3>2
  <2> QED BY <2>1
<1> QED BY <1>2, <1>4, <1>7, <1>8

LEMMA PublishKeeps ==
    ASSUME Fanout!ConstantsOK, Fanout!IInv, NEW p \in Publishers, NEW t \in Topics,
           Fanout!Publish(p, t)
    PROVE  Fanout!IInv'
<1>1. /\ Fanout!Begin(p) /\ Fanout!ToTask(p, t, 1, {}, <<>>) /\ Fanout!CountDepartures(p)
  BY DEF Fanout!Publish
<1>2. /\ ~Fanout!Busy(p) /\ socket' = socket /\ asked' = asked /\ got' = got
      /\ count' \in [Publishers -> Nat] /\ owed' \in [Publishers -> SUBSET Sockets]
      /\ \A q \in Publishers \ {p} : count'[q] = count[q] /\ owed'[q] = owed[q]
      /\ \A c \in Sockets : ~Fanout!Served(p, c)'
      /\ Ready(p, {}, <<>>)
  BY <1>1, BegunInOrder
<1>3. Fanout!TypeOK /\ Fanout!SubscribedOnce /\ got \in [Sockets -> [Publishers -> Seq(Nat)]]
  BY DEF Fanout!IInv, Fanout!TypeOK
<1>4. connections' \in Seq(Sockets)
  <2>0. connections \in Seq(Sockets) /\ <<>> \in Seq(Sockets)
    BY <1>3 DEF Fanout!TypeOK
  <2>1. Fanout!Without(connections, <<>>) \in Seq(Sockets) /\ connections \in Seq(Sockets)
    BY <2>0, WithoutThins
  <2>2. connections' = connections \/ connections' = Fanout!Without(connections, <<>>)
    BY <1>1 DEF Fanout!ToTask, Fanout!listVars, Fanout!Disconnected
  <2> QED BY <2>1, <2>2
<1>5. departures'[p] = 0
  BY <1>1, <1>2, <1>3, <1>4, Departures
<1>6. owed'[p] \in SUBSET Sockets /\ departures'[p] \in Nat
  BY <1>2, <1>5
<1>7. 1 \in Nat \ {0} /\ {} \in SUBSET Sockets /\ <<>> \in Seq(Sockets)
  OBVIOUS
<1>8. /\ Thins /\ Sends(p) /\ (to'[p] = NoSocket \/ socket[to'[p]] # "new")
      /\ Fanout!NotesInOrder(p)' /\ Fanout!NoneTwice(p)' /\ Fanout!MissedIsPaid(p)'
  BY <1>1, <1>2, <1>3, <1>6, <1>7, ToTaskKeeps
<1>9. \A c \in Sockets : asked[c] <= 1 =>
        \A i, j \in DOMAIN got'[c][p] : i < j => got'[c][p][i] < got'[c][p][j]
  BY <1>2 DEF Fanout!IInv, Fanout!DeliveredOnceInOrder
<1> QED BY <1>1, <1>2, <1>3, <1>8, <1>9, SenderKeeps

LEMMA BroadcastKeeps ==
    ASSUME Fanout!ConstantsOK, Fanout!IInv, NEW p \in Publishers, Fanout!Broadcast(p)
    PROVE  Fanout!IInv'
<1>1. /\ Fanout!Begin(p) /\ Fanout!ToAll(p, 1, {}, <<>>) /\ Fanout!CountDepartures(p)
  BY DEF Fanout!Broadcast
<1>2. /\ ~Fanout!Busy(p) /\ socket' = socket /\ asked' = asked /\ got' = got
      /\ count' \in [Publishers -> Nat] /\ owed' \in [Publishers -> SUBSET Sockets]
      /\ \A q \in Publishers \ {p} : count'[q] = count[q] /\ owed'[q] = owed[q]
      /\ \A c \in Sockets : ~Fanout!Served(p, c)'
      /\ Ready(p, {}, <<>>) /\ Before(owed'[p], connections, 1) = {}
  BY <1>1, BegunInOrder
<1>3. Fanout!TypeOK /\ got \in [Sockets -> [Publishers -> Seq(Nat)]]
  BY DEF Fanout!IInv, Fanout!TypeOK
<1>4. connections' \in Seq(Sockets)
  <2>0. connections \in Seq(Sockets) /\ <<>> \in Seq(Sockets)
    BY <1>3 DEF Fanout!TypeOK
  <2>1. Fanout!Without(connections, <<>>) \in Seq(Sockets) /\ connections \in Seq(Sockets)
    BY <2>0, WithoutThins
  <2>2. connections' = connections \/ connections' = Fanout!Without(connections, <<>>)
    BY <1>1 DEF Fanout!ToAll, Fanout!listVars, Fanout!Disconnected
  <2> QED BY <2>1, <2>2
<1>5. departures'[p] = 0
  BY <1>1, <1>2, <1>3, <1>4, Departures
<1>6. /\ owed'[p] \in SUBSET Sockets /\ departures'[p] \in Nat
      /\ Cardinality(Before(owed'[p], connections, 1)) <= departures'[p]
  <2>1. Cardinality(Before(owed'[p], connections, 1)) = 0
    BY <1>2, FS_EmptySet
  <2> QED BY <1>2, <1>5, <2>1
<1>7. 1 \in Nat \ {0} /\ {} \in SUBSET Sockets /\ <<>> \in Seq(Sockets)
  OBVIOUS
<1>8. /\ Thins /\ Sends(p) /\ (to'[p] = NoSocket \/ socket[to'[p]] # "new")
      /\ Fanout!NotesInOrder(p)' /\ Fanout!NoneTwice(p)' /\ Fanout!MissedIsPaid(p)'
  BY <1>1, <1>2, <1>3, <1>6, <1>7, ToAllKeeps
<1>9. \A c \in Sockets : asked[c] <= 1 =>
        \A i, j \in DOMAIN got'[c][p] : i < j => got'[c][p][i] < got'[c][p][j]
  BY <1>2 DEF Fanout!IInv, Fanout!DeliveredOnceInOrder
<1> QED BY <1>1, <1>2, <1>3, <1>8, <1>9, SenderKeeps

\* How a publisher goes on after a send that has come back, one way or the other.
LEMMA ResumeKeeps ==
    ASSUME Fanout!ConstantsOK, Fanout!IInv, NEW p \in Publishers, Fanout!Busy(p),
           NEW already \in SUBSET Sockets, NEW failed \in Seq(Sockets),
           Fanout!Resume(p, already, failed), Ready(p, already, failed),
           Fanout!CountDepartures(p), socket' = socket, asked' = asked,
           count' = count, owed' \in [Publishers -> SUBSET Sockets],
           got' \in [Sockets -> [Publishers -> Seq(Nat)]],
           \A q \in Publishers \ {p} :
                owed'[q] = owed[q] /\ \A c \in Sockets : got'[c][q] = got[c][q],
           \A c \in Sockets : socket[c] = "new" => got'[c][p] = got[c][p],
           owed'[p] = owed[p] \ {to[p]},
           \A c \in Sockets : asked[c] <= 1 /\ Fanout!Served(p, c)' =>
                /\ pass[p] = "all" => c \in already \/ Fanout!Behind(p, c)
                /\ pass[p] \in Topics => c \in already /\ Fanout!Behind(p, c),
           \A c \in Sockets : asked[c] <= 1 =>
                \A i, j \in DOMAIN got'[c][p] : i < j => got'[c][p][i] < got'[c][p][j]
    PROVE  Fanout!IInv'
<1>1. /\ Fanout!TypeOK /\ Fanout!SubscribedOnce /\ next[p] \in Nat \ {0}
      /\ connections \in Seq(Sockets) /\ departures \in [Publishers -> Nat]
      /\ count \in [Publishers -> Nat]
  BY DEF Fanout!IInv, Fanout!TypeOK
<1>2. owed'[p] \in SUBSET Sockets
  OBVIOUS
<1>3. connections' \in Seq(Sockets)
  <2>1. Fanout!Without(connections, failed) \in Seq(Sockets)
    BY <1>1, WithoutThins
  <2>2. connections' = connections \/ connections' = Fanout!Without(connections, failed)
    BY DEF Fanout!Resume, Fanout!ToTask, Fanout!ToAll, Fanout!listVars, Fanout!Disconnected
  <2> QED BY <1>1, <2>1, <2>2
<1>4. departures'[p] = departures[p] /\ departures'[p] \in Nat
  BY <1>1, <1>3, Departures
<1>5. /\ Thins /\ Sends(p) /\ (to'[p] = NoSocket \/ socket[to'[p]] # "new")
      /\ Fanout!NotesInOrder(p)' /\ Fanout!NoneTwice(p)' /\ Fanout!MissedIsPaid(p)'
  <2>1. CASE pass[p] \in Topics /\ Fanout!ToTask(p, pass[p], next[p], already, failed)
    <3>1. \A c \in Sockets : asked[c] <= 1 /\ Fanout!Served(p, c)' =>
            c \in already /\ \A i \in DOMAIN subscriptions[pass[p]] :
                               subscriptions[pass[p]][i] = c => i < next[p]
      BY <2>1 DEF Fanout!Behind, Fanout!ConstantsOK
    <3> QED BY <1>1, <1>2, <1>4, <2>1, <3>1, ToTaskKeeps
  <2>2. CASE pass[p] = "all" /\ Fanout!ToAll(p, next[p], already, failed)
    <3>1. \A c \in Sockets : asked[c] <= 1 /\ Fanout!Served(p, c)' =>
            c \in already \/ \A i \in DOMAIN connections : connections[i] = c => i < next[p]
      BY <2>2 DEF Fanout!Behind
    <3>2. Fanout!Missed(p) = Before(owed'[p], connections, next[p])
      BY <2>2 DEF Fanout!Missed, Fanout!Busy, Fanout!Behind, Before
    <3>3. pass[p] \notin Topics
      BY <2>2 DEF Fanout!ConstantsOK
    <3>4. Cardinality(Before(owed'[p], connections, next[p])) <= departures'[p]
      BY <1>4, <3>2, <3>3, SameCardinality DEF Fanout!IInv, Fanout!MissedIsPaid
    <3> QED BY <1>1, <1>2, <1>4, <2>2, <3>1, <3>4, ToAllKeeps
  <2> QED BY <2>1, <2>2 DEF Fanout!Resume
<1> QED BY <1>1, <1>5, SenderKeeps

LEMMA SendFailsKeeps ==
    ASSUME Fanout!ConstantsOK, Fanout!IInv, NEW p \in Publishers, Fanout!SendFails(p)
    PROVE  Fanout!IInv'
<1>1. /\ Fanout!Busy(p) /\ socket[to[p]] \in {"broken", "left"} /\ Fanout!CountDepartures(p)
      /\ Fanout!Resume(p, served[p], Append(dead[p], to[p]))
      /\ socket' = socket /\ count' = count /\ got' = got /\ owed' = owed /\ asked' = asked
  BY DEF Fanout!SendFails
<1>2. /\ served[p] \in SUBSET Sockets /\ dead[p] \in Seq(Sockets)
      /\ owed \in [Publishers -> SUBSET Sockets]
      /\ got \in [Sockets -> [Publishers -> Seq(Nat)]]
  BY DEF Fanout!IInv, Fanout!TypeOK
<1>3. Fanout!NotesInOrder(p) /\ Fanout!NoneTwice(p)
  BY DEF Fanout!IInv
<1>4. to[p] \in Sockets /\ Append(dead[p], to[p]) \in Seq(Sockets)
  BY <1>1, <1>2, <1>3 DEF Fanout!NotesInOrder
<1>5. \A c \in Fanout!ToSet(Append(dead[p], to[p])) : c \in Fanout!ToSet(dead[p]) \/ c = to[p]
  BY <1>2, <1>4 DEF Fanout!ToSet
<1>6. Ready(p, served[p], Append(dead[p], to[p]))
  BY <1>1, <1>3, <1>5 DEF Ready, Fanout!NotesInOrder, Fanout!NoneTwice
<1>7. owed'[p] = owed[p] \ {to[p]}
  BY <1>1, <1>3 DEF Fanout!NotesInOrder
<1>8. \A c \in Sockets : asked[c] <= 1 /\ Fanout!Served(p, c)' =>
        /\ pass[p] = "all" => c \in served[p] \/ Fanout!Behind(p, c)
        /\ pass[p] \in Topics => c \in served[p] /\ Fanout!Behind(p, c)
  BY <1>1, <1>3 DEF Fanout!NoneTwice, Fanout!Served
<1>9. \A c \in Sockets : asked[c] <= 1 =>
        \A i, j \in DOMAIN got'[c][p] : i < j => got'[c][p][i] < got'[c][p][j]
  BY <1>1 DEF Fanout!IInv, Fanout!DeliveredOnceInOrder
<1> QED BY <1>1, <1>2, <1>4, <1>6, <1>7, <1>8, <1>9, ResumeKeeps

LEMMA SendDoneKeeps ==
    ASSUME Fanout!ConstantsOK, Fanout!IInv, NEW p \in Publishers, Fanout!SendDone(p)
    PROVE  Fanout!IInv'
<1> DEFINE already == served[p] \cup IF pass[p] \in Topics THEN {to[p]} ELSE {}
<1>1. /\ Fanout!Busy(p) /\ socket[to[p]] = "open" /\ Fanout!CountDepartures(p)
      /\ Fanout!Resume(p, already, dead[p])
      /\ got' = [got EXCEPT ![to[p]][p] = Append(@, count[p])]
      /\ owed' = [owed EXCEPT ![p] = @ \ {to[p]}]
      /\ socket' = socket /\ count' = count /\ asked' = asked
  BY DEF Fanout!SendDone
<1>2. /\ served[p] \in SUBSET Sockets /\ dead[p] \in Seq(Sockets)
      /\ owed \in [Publishers -> SUBSET Sockets]
      /\ got \in [Sockets -> [Publishers -> Seq(Nat)]]
      /\ count[p] \in Nat
  BY DEF Fanout!IInv, Fanout!TypeOK
<1>3. Fanout!NotesInOrder(p) /\ Fanout!NoneTwice(p)
  BY DEF Fanout!IInv
<1>4. to[p] \in Sockets
  BY <1>1, <1>3 DEF Fanout!NotesInOrder
<1>5. already \in SUBSET Sockets /\ \A c \in already : c \in served[p] \/ c = to[p]
  BY <1>2, <1>4
<1>6. /\ owed' \in [Publishers -> SUBSET Sockets] /\ owed'[p] = owed[p] \ {to[p]}
      /\ \A q \in Publishers \ {p} : owed'[q] = owed[q]
  BY <1>1, <1>2
<1>7. got[to[p]][p] \in Seq(Nat) /\ Append(got[to[p]][p], count[p]) \in Seq(Nat)
  BY <1>2, <1>4
<1>8. got' = [got EXCEPT ![to[p]] = [got[to[p]] EXCEPT ![p] = Append(got[to[p]][p], count[p])]]
  BY <1>1
<1>9. /\ got' \in [Sockets -> [Publishers -> Seq(Nat)]]
      /\ \A c \in Sockets \ {to[p]} : got'[c] = got[c]
      /\ \A q \in Publishers \ {p} : got'[to[p]][q] = got[to[p]][q]
      /\ got'[to[p]][p] = Append(got[to[p]][p], count[p])
  BY <1>2, <1>4, <1>7, <1>8
<1>10. /\ \A q \in Publishers \ {p} : \A c \in Sockets : got'[c][q] = got[c][q]
       /\ \A c \in Sockets : socket[c] = "new" => got'[c][p] = got[c][p]
  BY <1>1, <1>9
<1>11. \A i \in DOMAIN got[to[p]][p] :
         got[to[p]][p][i] \in Nat /\ got[to[p]][p][i] <= count[p]
  BY <1>3, <1>4, <1>7, ElementOfSeq DEF Fanout!NoneTwice
<1>12. LET s == got[to[p]][p]
           r == got'[to[p]][p]
       IN  /\ Len(s) \in Nat /\ DOMAIN s = 1 .. Len(s) /\ DOMAIN r = 1 .. Len(s) + 1
           /\ r[Len(s) + 1] = count[p] /\ \A i \in DOMAIN s : r[i] = s[i]
  BY <1>2, <1>7, <1>9
<1>13. \A c \in Sockets : \A i \in DOMAIN got'[c][p] : got'[c][p][i] <= count'[p]
  <2>1. \A i \in DOMAIN got'[to[p]][p] : got'[to[p]][p][i] <= count[p]
    <3> TAKE i \in DOMAIN got'[to[p]][p]
    <3>1. i \in DOMAIN got[to[p]][p] \/ i = Len(got[to[p]][p]) + 1
      BY <1>12
    <3> QED BY <1>2, <1>11, <1>12, <3>1
  <2> QED BY <1>1, <1>3, <1>9, <2>1 DEF Fanout!NoneTwice
<1>14. Ready(p, already, dead[p])
  <2>1. \A c \in already : asked[c] >= 1
    BY <1>3, <1>5 DEF Fanout!NotesInOrder
  <2>2. \A c \in owed'[p] : c \in owed[p] /\ c \notin already
    BY <1>3, <1>5, <1>6 DEF Fanout!NotesInOrder
  <2> QED BY <1>3, <1>13, <2>1, <2>2 DEF Ready, Fanout!NotesInOrder
<1>15. \A c \in Sockets : asked[c] <= 1 /\ Fanout!Served(p, c)' =>
         /\ pass[p] = "all" => c \in already \/ Fanout!Behind(p, c)
         /\ pass[p] \in Topics => c \in already /\ Fanout!Behind(p, c)
  <2> TAKE c \in Sockets
  <2> HAVE asked[c] <= 1 /\ Fanout!Served(p, c)'
  <2>1. CASE c = to[p]
    <3>1. Fanout!Behind(p, c)
      BY <1>1, <1>3, <2>1 DEF Fanout!NoneTwice
    <3> QED BY <2>1, <3>1
  <2>2. CASE c # to[p]
    <3>1. Fanout!Served(p, c)
      BY <1>1, <1>9, <2>2 DEF Fanout!Served
    <3> QED BY <1>1, <1>3, <3>1 DEF Fanout!NoneTwice
  <2> QED BY <2>1, <2>2
<1>16. \A c \in Sockets : asked[c] <= 1 =>
         \A i, j \in DOMAIN got'[c][p] : i < j => got'[c][p][i] < got'[c][p][j]
  <2> SUFFICES ASSUME NEW c \in Sockets, asked[c] <= 1,
                      NEW i \in DOMAIN got'[c][p], NEW j \in DOMAIN got'[c][p], i < j
               PROVE  got'[c][p][i] < got'[c][p][j]
    OBVIOUS
  <2>1. CASE c # to[p]
    BY <1>9, <2>1 DEF Fanout!IInv, Fanout!DeliveredOnceInOrder
  <2>2. CASE c = to[p]
    <3>1. \A k \in DOMAIN got[c][p] : got[c][p][k] # count[p]
      BY <1>1, <1>3, <2>2 DEF Fanout!NoneTwice, Fanout!Served
    <3>2. i \in DOMAIN got[c][p]
      BY <1>12, <2>2
    <3>3. CASE j \in DOMAIN got[c][p]
      BY <1>12, <2>2, <3>2, <3>3 DEF Fanout!IInv, Fanout!DeliveredOnceInOrder
    <3>4. CASE j = Len(got[c][p]) + 1
      <4>1. got'[c][p][i] = got[c][p][i] /\ got'[c][p][j] = count[p]
        BY <1>12, <2>2, <3>2, <3>4
      <4>2. got[c][p][i] \in Nat /\ got[c][p][i] <= count[p] /\ got[c][p][i] # count[p]
        BY <1>11, <2>2, <3>1, <3>2
      <4> QED BY <1>2, <4>1, <4>2
    <3> QED BY <1>12, <2>2, <3>3, <3>4
  <2> QED BY <2>1, <2>2
<1> HIDE DEF already
<1> QED BY <1>1, <1>2, <1>5, <1>6, <1>9, <1>10, <1>14, <1>15, <1>16, ResumeKeeps

\* The parts of the invariant that look at one publisher, when nobody sends.
LEMMA PublishersRest ==
    ASSUME Fanout!ConstantsOK, Fanout!IInv,
           pass' = pass, to' = to, next' = next, served' = served, dead' = dead, count' = count,
           departures' = departures,
           NEW p \in Publishers,
           \A c \in owed'[p] :
                /\ c \in owed[p] /\ socket'[c] \in {"open", "stuck"}
                /\ c \in Fanout!ToSet(connections'),
           \A c \in Sockets : socket[c] \in {"broken", "left"} => socket'[c] \in {"broken", "left"},
           asked' \in [Sockets -> Nat], \A c \in Sockets : asked'[c] >= asked[c],
           \A c \in Sockets : got'[c][p] = got[c][p] \/ got'[c][p] = <<>>,
           \A c \in Sockets : \* of who is waited for, or has got the event, nothing changes
                Fanout!Busy(p) /\ asked'[c] <= 1 /\ (c = to[p] \/ Fanout!Served(p, c))
                /\ Fanout!Behind(p, c) => Fanout!Behind(p, c)',
           \A c \in owed[p] : pass[p] = "all" /\ Fanout!Behind(p, c)' => Fanout!Behind(p, c)
    PROVE  Fanout!NotesInOrder(p)' /\ Fanout!NoneTwice(p)' /\ Fanout!MissedIsPaid(p)'
<1>1. /\ dead[p] \in Seq(Sockets) /\ served[p] \in SUBSET Sockets /\ asked \in [Sockets -> Nat]
      /\ owed[p] \in SUBSET Sockets /\ connections \in Seq(Sockets) /\ departures[p] \in Nat
      /\ pass[p] \in Topics \cup {"idle", "all"}
  BY DEF Fanout!IInv, Fanout!TypeOK
<1>2. Fanout!NotesInOrder(p) /\ Fanout!NoneTwice(p) /\ Fanout!MissedIsPaid(p)
  BY DEF Fanout!IInv
<1>3. Fanout!NotesInOrder(p)'
  <2>1. \A c \in Fanout!ToSet(dead[p]) : c \in Sockets
    BY <1>1, ElementOfSeq DEF Fanout!ToSet
  <2>2. \A c \in Fanout!ToSet(dead[p]) : socket'[c] \in {"broken", "left"}
    BY <1>2, <2>1 DEF Fanout!NotesInOrder
  <2>3. Fanout!Busy(p) => to[p] \in Sockets
    BY <1>2 DEF Fanout!NotesInOrder
  <2>4. \A c \in Sockets : asked[c] >= 1 => asked'[c] >= 1
    BY <1>1
  <2>5. /\ \A c \in served[p] : asked'[c] >= 1
        /\ pass[p] \in Topics => asked'[to[p]] >= 1
    <3>1. pass[p] \in Topics => Fanout!Busy(p)
      BY DEF Fanout!Busy, Fanout!ConstantsOK
    <3> QED BY <1>1, <1>2, <2>3, <2>4, <3>1 DEF Fanout!NotesInOrder
  <2>6. \A c \in owed'[p] :
          socket'[c] \in {"open", "stuck"} /\ c \in Fanout!ToSet(connections') /\ c \notin served[p]
    BY <1>2 DEF Fanout!NotesInOrder
  <2> QED BY <2>2, <2>3, <2>5, <2>6 DEF Fanout!NotesInOrder, Fanout!Busy
<1>4. \A c \in Sockets : Fanout!Served(p, c)' => Fanout!Served(p, c)
  BY DEF Fanout!Served
<1>5. Fanout!NoneTwice(p)'
  <2>1. \A c \in Sockets : \A i \in DOMAIN got'[c][p] : got'[c][p][i] <= count'[p]
    BY <1>2 DEF Fanout!NoneTwice
  <2>2. Fanout!Busy(p)' <=> Fanout!Busy(p)
    BY DEF Fanout!Busy
  <2>3. Fanout!Busy(p) /\ asked'[to[p]] <= 1 => Fanout!Behind(p, to[p])'
    <3> HAVE Fanout!Busy(p) /\ asked'[to[p]] <= 1
    <3>1. to[p] \in Sockets
      BY <1>2 DEF Fanout!NotesInOrder
    <3>2. asked[to[p]] <= 1
      BY <1>1, <3>1
    <3>3. Fanout!Behind(p, to[p])
      BY <1>2, <3>2 DEF Fanout!NoneTwice
    <3>4. Fanout!Behind(p, to[p])'
      <4> DEFINE d == to[p]
      <4>1. d \in Sockets /\ Fanout!Behind(p, d) => Fanout!Behind(p, d)'
        BY <3>1, <3>3
      <4> QED BY <3>1, <3>3, <4>1 DEF Fanout!Behind
    <3> QED BY <3>4
  <2>4. ASSUME NEW c \in Sockets, Fanout!Busy(p), asked'[c] <= 1, Fanout!Served(p, c)'
        PROVE  /\ to[p] # c
               /\ pass[p] = "all" => c \in served[p] \/ Fanout!Behind(p, c)'
               /\ pass[p] \in Topics => c \in served[p] /\ Fanout!Behind(p, c)'
    <3>1. asked[c] <= 1 /\ Fanout!Served(p, c)
      BY <1>1, <1>4, <2>4
    <3>2. /\ to[p] # c
          /\ pass[p] = "all" => c \in served[p] \/ Fanout!Behind(p, c)
          /\ pass[p] \in Topics => c \in served[p] /\ Fanout!Behind(p, c)
      BY <1>2, <2>4, <3>1 DEF Fanout!NoneTwice
    <3> QED BY <2>4, <3>1, <3>2
  <2> QED BY <2>1, <2>2, <2>3, <2>4 DEF Fanout!NoneTwice
<1>6. Fanout!MissedIsPaid(p)'
  <2> SUFFICES ASSUME pass[p] \notin Topics
               PROVE  Fanout!Cardinality(Fanout!Missed(p)') <= departures[p]
    BY DEF Fanout!MissedIsPaid
  <2>1. \A c \in Fanout!Missed(p)' : c \in Fanout!Missed(p)
    BY <1>1 DEF Fanout!Missed, Fanout!Busy
  <2>2. \A c \in Fanout!Missed(p) : c \in Fanout!ToSet(connections)
    BY <1>2 DEF Fanout!Missed, Fanout!NotesInOrder
  <2>3. IsFiniteSet(Fanout!Missed(p))
    BY <1>1, <2>2, ListsAreFinite, FS_Subset
  <2>4. /\ IsFiniteSet(Fanout!Missed(p)')
        /\ Cardinality(Fanout!Missed(p)') <= Cardinality(Fanout!Missed(p))
    BY <2>1, <2>3, FS_Subset
  <2>5. Cardinality(Fanout!Missed(p)') \in Nat /\ Cardinality(Fanout!Missed(p)) \in Nat
    BY <2>3, <2>4, FS_CardinalityType
  <2>6. Cardinality(Fanout!Missed(p)) <= departures[p]
    BY <1>2, SameCardinality DEF Fanout!MissedIsPaid
  <2> QED BY <1>1, <2>4, <2>5, <2>6, SameCardinality
<1> QED BY <1>3, <1>5, <1>6

\* The list is the old one, or has d at its end.
Extended(new, old, d) == new = old \/ new = Append(old, d)

LEMMA ExtendedList ==
    ASSUME NEW T, NEW old \in Seq(T), NEW d \in T, NEW new, Extended(new, old, d)
    PROVE  /\ new \in Seq(T)
           /\ \A i \in DOMAIN old : i \in DOMAIN new /\ new[i] = old[i]
           /\ \A i \in DOMAIN new : i \in DOMAIN old \/ new[i] = d
<1>1. /\ DOMAIN old = 1 .. Len(old) /\ Len(old) \in Nat /\ Append(old, d) \in Seq(T)
      /\ DOMAIN Append(old, d) = 1 .. Len(old) + 1 /\ Append(old, d)[Len(old) + 1] = d
      /\ \A i \in 1 .. Len(old) : Append(old, d)[i] = old[i]
  OBVIOUS
<1>2. CASE new = old
  <2>1. new \in Seq(T) /\ DOMAIN new = DOMAIN old
    BY <1>2
  <2> QED BY <1>2, <2>1
<1>3. CASE new = Append(old, d)
  <2>1. /\ new \in Seq(T) /\ DOMAIN new = 1 .. Len(old) + 1 /\ new[Len(old) + 1] = d
        /\ \A i \in 1 .. Len(old) : new[i] = old[i]
    BY <1>1, <1>3
  <2> QED BY <1>1, <2>1
<1> QED BY <1>2, <1>3 DEF Extended

LEMMA BehindTheExtended ==
    ASSUME Fanout!TypeOK, NEW d \in Sockets, Extended(connections', connections, d),
           \A t \in Topics : Extended(subscriptions'[t], subscriptions[t], d),
           pass' = pass, next' = next, NEW p \in Publishers, Fanout!Busy(p)
    PROVE  /\ \A c : Fanout!Behind(p, c)' => Fanout!Behind(p, c)
           /\ \A c : c # d /\ Fanout!Behind(p, c) => Fanout!Behind(p, c)'
<1> DEFINE old == IF pass[p] = "all" THEN connections ELSE subscriptions[pass[p]]
           new == IF pass[p] = "all" THEN connections' ELSE subscriptions'[pass[p]]
<1>1. old \in Seq(Sockets) /\ Extended(new, old, d)
  BY DEF Fanout!TypeOK, Fanout!Busy
<1>2. \A c : /\ Fanout!Behind(p, c) <=> \A i \in DOMAIN old : old[i] = c => i < next[p]
             /\ Fanout!Behind(p, c)' <=> \A i \in DOMAIN new : new[i] = c => i < next[p]
  BY DEF Fanout!Behind
<1> HIDE DEF old, new
<1>3. /\ \A i \in DOMAIN old : i \in DOMAIN new /\ new[i] = old[i]
      /\ \A i \in DOMAIN new : i \in DOMAIN old \/ new[i] = d
  BY <1>1, ExtendedList
<1> QED BY <1>2, <1>3

LEMMA SubscribedKeepsOnce ==
    ASSUME Fanout!TypeOK, Fanout!SubscribedOnce, NEW d \in Sockets, NEW s \in Topics,
           Fanout!Subscribed(d, s)
    PROVE  /\ subscriptions' \in [Topics -> Seq(Sockets)]
           /\ \A t \in Topics : Extended(subscriptions'[t], subscriptions[t], d)
           /\ asked' \in [Sockets -> Nat] /\ \A c \in Sockets : asked'[c] >= asked[c]
           /\ asked'[d] = asked[d] + 1 /\ \A c \in Sockets \ {d} : asked'[c] = asked[c]
           /\ Fanout!SubscribedOnce'
<1>1. subscriptions \in [Topics -> Seq(Sockets)] /\ asked \in [Sockets -> Nat]
  BY DEF Fanout!TypeOK
<1>2. /\ subscriptions' = [subscriptions EXCEPT ![s] = Append(subscriptions[s], d)]
      /\ asked' = [asked EXCEPT ![d] = asked[d] + 1]
  BY DEF Fanout!Subscribed
<1>3. subscriptions[s] \in Seq(Sockets) /\ Append(subscriptions[s], d) \in Seq(Sockets)
  BY <1>1
<1>4. /\ subscriptions' \in [Topics -> Seq(Sockets)]
      /\ subscriptions'[s] = Append(subscriptions[s], d)
      /\ \A t \in Topics \ {s} : subscriptions'[t] = subscriptions[t]
  BY <1>1, <1>2, <1>3
<1>5. \A t \in Topics : Extended(subscriptions'[t], subscriptions[t], d)
  BY <1>4 DEF Extended
<1>6. /\ asked' \in [Sockets -> Nat] /\ asked'[d] = asked[d] + 1
      /\ \A c \in Sockets \ {d} : asked'[c] = asked[c]
  BY <1>1, <1>2
<1>7. \A c \in Sockets : asked'[c] >= asked[c] /\ asked[c] \in Nat /\ asked'[c] \in Nat
  BY <1>1, <1>6
<1>8. \A t \in Topics : \A i \in DOMAIN subscriptions'[t] :
        \/ i \in DOMAIN subscriptions[t] /\ subscriptions'[t][i] = subscriptions[t][i]
        \/ t = s /\ i = Len(subscriptions[s]) + 1 /\ subscriptions'[t][i] = d
  <2> TAKE t \in Topics
  <2> TAKE i \in DOMAIN subscriptions'[t]
  <2>1. CASE t = s
    BY <1>3, <1>4, <2>1
  <2>2. CASE t # s
    BY <1>4, <2>2
  <2> QED BY <2>1, <2>2
<1>9. \A t \in Topics : \A i \in DOMAIN subscriptions[t] :
        subscriptions[t][i] \in Sockets /\ asked[subscriptions[t][i]] >= 1
  <2> TAKE t \in Topics
  <2>1. subscriptions[t] \in Seq(Sockets)
    BY <1>1
  <2> QED BY <2>1, ElementOfSeq DEF Fanout!SubscribedOnce
<1>10. Fanout!SubscribedOnce'
  <2> SUFFICES ASSUME NEW t \in Topics, NEW u \in Topics,
                      NEW i \in DOMAIN subscriptions'[t], NEW j \in DOMAIN subscriptions'[u]
               PROVE  /\ asked'[subscriptions'[t][i]] >= 1
                      /\ asked'[subscriptions'[t][i]] = 1
                           /\ subscriptions'[u][j] = subscriptions'[t][i] => t = u /\ i = j
    BY DEF Fanout!SubscribedOnce
  <2> DEFINE c == subscriptions'[t][i]
  <2>1. CASE i \in DOMAIN subscriptions[t] /\ c = subscriptions[t][i]
    <3>1. c \in Sockets /\ asked[c] >= 1 /\ asked'[c] >= 1
      BY <1>7, <1>9, <2>1
    <3>2. ASSUME asked'[c] = 1, subscriptions'[u][j] = c PROVE t = u /\ i = j
      <4>1. c # d /\ asked[c] = 1
        BY <1>6, <1>7, <3>1, <3>2
      <4>2. j \in DOMAIN subscriptions[u] /\ subscriptions[u][j] = c
        BY <1>8, <3>2, <4>1
      <4> QED BY <2>1, <4>1, <4>2 DEF Fanout!SubscribedOnce
    <3> QED BY <3>1, <3>2
  <2>2. CASE t = s /\ i = Len(subscriptions[s]) + 1 /\ c = d
    <3>1. asked'[c] >= 1
      BY <1>6, <1>7, <2>2
    <3>2. ASSUME asked'[c] = 1, subscriptions'[u][j] = c PROVE t = u /\ i = j
      <4>1. asked[d] = 0
        BY <1>6, <1>7, <2>2, <3>2
      <4>2. ~(j \in DOMAIN subscriptions[u] /\ subscriptions[u][j] = d)
        BY <1>9, <4>1
      <4> QED BY <1>8, <2>2, <3>2, <4>2
    <3> QED BY <3>1, <3>2
  <2>3. \/ i \in DOMAIN subscriptions[t] /\ c = subscriptions[t][i]
        \/ t = s /\ i = Len(subscriptions[s]) + 1 /\ c = d
    BY <1>8
  <2> QED BY <2>1, <2>2, <2>3
<1> QED BY <1>4, <1>5, <1>6, <1>7, <1>10

LEMMA SubscribeKeeps ==
    ASSUME Fanout!ConstantsOK, Fanout!IInv, NEW d \in Sockets, NEW s \in Topics,
           Fanout!Subscribe(d, s)
    PROVE  Fanout!IInv'
<1>1. /\ socket[d] = "open" /\ Fanout!Subscribed(d, s)
      /\ connections' = connections /\ socket' = socket /\ count' = count /\ got' = got
      /\ owed' = owed /\ departures' = departures
      /\ pass' = pass /\ to' = to /\ next' = next /\ served' = served /\ dead' = dead
  BY DEF Fanout!Subscribe, Fanout!sendVars
<1>2. Fanout!TypeOK /\ Fanout!SubscribedOnce
  BY DEF Fanout!IInv
<1>3. /\ subscriptions' \in [Topics -> Seq(Sockets)]
      /\ \A t \in Topics : Extended(subscriptions'[t], subscriptions[t], d)
      /\ asked' \in [Sockets -> Nat] /\ \A c \in Sockets : asked'[c] >= asked[c]
      /\ asked'[d] = asked[d] + 1 /\ \A c \in Sockets \ {d} : asked'[c] = asked[c]
      /\ Fanout!SubscribedOnce'
  BY <1>1, <1>2, SubscribedKeepsOnce
<1>4. Fanout!TypeOK'
  BY <1>1, <1>2, <1>3 DEF Fanout!TypeOK, Fanout!IsInjective, Fanout!Connected, Fanout!ToSet
<1>5. Fanout!NewIsNowhere'
  BY <1>1, <1>3 DEF Fanout!IInv, Fanout!NewIsNowhere
<1>6. \A c \in Sockets : asked[c] \in Nat /\ asked'[c] \in Nat /\ asked[c] <= asked'[c]
  BY <1>2, <1>3 DEF Fanout!TypeOK
<1>7. Fanout!DeliveredOnceInOrder'
  <2>1. \A c \in Sockets : asked'[c] <= 1 => asked[c] <= 1
    BY <1>6
  <2> QED BY <1>1, <2>1 DEF Fanout!IInv, Fanout!DeliveredOnceInOrder
<1>8. ASSUME NEW p \in Publishers
      PROVE  Fanout!NotesInOrder(p)' /\ Fanout!NoneTwice(p)' /\ Fanout!MissedIsPaid(p)'
  <2>1. Fanout!NotesInOrder(p) /\ Fanout!NoneTwice(p)
        /\ pass[p] \in Topics \cup {"idle", "all"}
    BY <1>2 DEF Fanout!IInv, Fanout!TypeOK
  <2>2. Extended(connections', connections, d)
    BY <1>1 DEF Extended
  <2>3. Fanout!Busy(p) =>
          /\ \A c : Fanout!Behind(p, c)' => Fanout!Behind(p, c)
          /\ \A c : c # d /\ Fanout!Behind(p, c) => Fanout!Behind(p, c)'
    BY <1>1, <1>2, <1>3, <2>2, BehindTheExtended
  <2>4. Fanout!Busy(p) /\ asked'[d] <= 1 /\ (d = to[p] \/ Fanout!Served(p, d))
        /\ Fanout!Behind(p, d) => Fanout!Behind(p, d)'
    <3> HAVE /\ Fanout!Busy(p) /\ asked'[d] <= 1 /\ (d = to[p] \/ Fanout!Served(p, d))
             /\ Fanout!Behind(p, d)
    <3>1. asked[d] = 0
      BY <1>3, <1>6
    <3>2. pass[p] \notin Topics
      BY <2>1, <3>1 DEF Fanout!NotesInOrder, Fanout!NoneTwice
    <3>3. pass[p] = "all"
      BY <2>1, <3>2 DEF Fanout!Busy
    <3> QED BY <1>1, <3>3 DEF Fanout!Behind
  <2>5. \A c \in owed'[p] : /\ c \in owed[p] /\ socket'[c] \in {"open", "stuck"}
                            /\ c \in Fanout!ToSet(connections')
    BY <1>1, <2>1 DEF Fanout!NotesInOrder
  <2>6. \A c \in owed[p] : pass[p] = "all" /\ Fanout!Behind(p, c)' => Fanout!Behind(p, c)
    BY <2>3 DEF Fanout!Busy
  <2>7. \A c \in Sockets :
          Fanout!Busy(p) /\ asked'[c] <= 1 /\ (c = to[p] \/ Fanout!Served(p, c))
          /\ Fanout!Behind(p, c) => Fanout!Behind(p, c)'
    BY <2>3, <2>4
  <2> QED BY <1>1, <1>3, <2>5, <2>6, <2>7, PublishersRest
<1> QED BY <1>3, <1>4, <1>5, <1>7, <1>8 DEF Fanout!IInv

LEMMA JoinKeeps ==
    ASSUME Fanout!ConstantsOK, Fanout!IInv, NEW d \in Sockets, Fanout!Join(d)
    PROVE  Fanout!IInv'
<1>1. /\ socket[d] = "new" /\ socket' = [socket EXCEPT ![d] = "open"]
      /\ connections' = Append(connections, d)
      /\ \/ subscriptions' = subscriptions /\ asked' = asked
         \/ \E s \in Topics : Fanout!Subscribed(d, s)
      /\ count' = count /\ got' = got /\ owed' = owed /\ departures' = departures
      /\ pass' = pass /\ to' = to /\ next' = next /\ served' = served /\ dead' = dead
  BY DEF Fanout!Join, Fanout!sendVars
<1>2. /\ Fanout!TypeOK /\ Fanout!SubscribedOnce
      /\ connections \in Seq(Sockets) /\ Fanout!IsInjective(connections)
      /\ socket \in [Sockets -> {"new", "open", "stuck", "broken", "left"}]
      /\ \A c \in Fanout!ToSet(connections) : Fanout!Connected(c)
      /\ subscriptions \in [Topics -> Seq(Sockets)]
  BY DEF Fanout!IInv, Fanout!TypeOK
<1>3. /\ subscriptions' \in [Topics -> Seq(Sockets)]
      /\ \A t \in Topics : Extended(subscriptions'[t], subscriptions[t], d)
      /\ asked' \in [Sockets -> Nat] /\ \A c \in Sockets : asked'[c] >= asked[c]
      /\ \A c \in Sockets \ {d} : asked'[c] = asked[c]
      /\ Fanout!SubscribedOnce'
  <2>1. CASE subscriptions' = subscriptions /\ asked' = asked
    <3>1. asked \in [Sockets -> Nat] /\ \A c \in Sockets : asked[c] >= asked[c]
      BY <1>2 DEF Fanout!TypeOK
    <3> QED BY <1>2, <2>1, <3>1 DEF Extended, Fanout!SubscribedOnce
  <2>2. CASE \E s \in Topics : Fanout!Subscribed(d, s)
    BY <1>2, <2>2, SubscribedKeepsOnce
  <2> QED BY <1>1, <2>1, <2>2
<1>4. d \notin Fanout!ToSet(connections)
  BY <1>1, <1>2 DEF Fanout!Connected
<1>5. /\ DOMAIN connections = 1 .. Len(connections) /\ Len(connections) \in Nat
      /\ connections' \in Seq(Sockets) /\ DOMAIN connections' = 1 .. Len(connections) + 1
      /\ connections'[Len(connections) + 1] = d
      /\ \A i \in DOMAIN connections : connections'[i] = connections[i]
  BY <1>1, <1>2
<1>6. Fanout!IsInjective(connections')
  <2>1. \A i \in DOMAIN connections : connections'[i] # d
    BY <1>4, <1>5 DEF Fanout!ToSet
  <2> SUFFICES ASSUME NEW i \in DOMAIN connections', NEW j \in DOMAIN connections',
                      connections'[i] = connections'[j]
               PROVE  i = j
    BY DEF Fanout!IsInjective
  <2>2. CASE i \in DOMAIN connections /\ j \in DOMAIN connections
    BY <1>2, <1>5, <2>2 DEF Fanout!IsInjective
  <2>3. CASE i \notin DOMAIN connections \/ j \notin DOMAIN connections
    BY <1>5, <2>1, <2>3
  <2> QED BY <2>2, <2>3
<1>7. /\ \A c \in Fanout!ToSet(connections') : c \in Fanout!ToSet(connections) \/ c = d
      /\ \A c \in Fanout!ToSet(connections) : c \in Fanout!ToSet(connections')
  BY <1>5 DEF Fanout!ToSet
<1>8. /\ socket' \in [Sockets -> {"new", "open", "stuck", "broken", "left"}]
      /\ socket'[d] = "open" /\ \A c \in Sockets \ {d} : socket'[c] = socket[c]
  BY <1>1, <1>2
<1>9. \A c \in Fanout!ToSet(connections') : Fanout!Connected(c)'
  <2> TAKE c \in Fanout!ToSet(connections')
  <2>1. CASE c = d
    BY <1>8, <2>1 DEF Fanout!Connected
  <2>2. CASE c # d
    <3>1. c \in Fanout!ToSet(connections) /\ Fanout!Connected(c)
      BY <1>2, <1>7, <2>2
    <3>2. c \in Sockets
      BY <1>2, <3>1, ElementOfSeq DEF Fanout!ToSet
    <3> QED BY <1>8, <2>2, <3>1, <3>2 DEF Fanout!Connected
  <2> QED BY <2>1, <2>2
<1>10. Fanout!TypeOK'
  <2>1. Fanout!IsInjective(connections)'
    BY <1>6 DEF Fanout!IsInjective
  <2>2. \A c \in Fanout!ToSet(connections)' : Fanout!Connected(c)'
    BY <1>9 DEF Fanout!ToSet
  <2> QED BY <1>1, <1>2, <1>3, <1>5, <1>8, <2>1, <2>2 DEF Fanout!TypeOK
<1>11. Fanout!NewIsNowhere'
  BY <1>1, <1>3, <1>8 DEF Fanout!IInv, Fanout!NewIsNowhere
<1>12. \A c \in Sockets : asked[c] \in Nat /\ asked'[c] \in Nat /\ asked[c] <= asked'[c]
  BY <1>2, <1>3 DEF Fanout!TypeOK
<1>13. Fanout!DeliveredOnceInOrder'
  <2>1. \A c \in Sockets : asked'[c] <= 1 => asked[c] <= 1
    BY <1>12
  <2> QED BY <1>1, <2>1 DEF Fanout!IInv, Fanout!DeliveredOnceInOrder
<1>14. ASSUME NEW p \in Publishers
       PROVE  Fanout!NotesInOrder(p)' /\ Fanout!NoneTwice(p)' /\ Fanout!MissedIsPaid(p)'
  <2>1. Fanout!NotesInOrder(p) /\ owed[p] \in SUBSET Sockets
    BY <1>2 DEF Fanout!IInv, Fanout!TypeOK
  <2>2. Extended(connections', connections, d)
    BY <1>1 DEF Extended
  <2>3. Fanout!Busy(p) =>
          /\ \A c : Fanout!Behind(p, c)' => Fanout!Behind(p, c)
          /\ \A c : c # d /\ Fanout!Behind(p, c) => Fanout!Behind(p, c)'
    BY <1>1, <1>2, <1>3, <2>2, BehindTheExtended
  <2>4. to[p] # d /\ ~Fanout!Served(p, d)
    <3>1. to[p] # d /\ got[d][p] = <<>>
      BY <1>1 DEF Fanout!IInv, Fanout!NewIsNowhere
    <3> QED BY <3>1 DEF Fanout!Served
  <2>5. \A c \in owed'[p] : /\ c \in owed[p] /\ socket'[c] \in {"open", "stuck"}
                            /\ c \in Fanout!ToSet(connections')
    BY <1>1, <1>7, <1>8, <2>1 DEF Fanout!NotesInOrder
  <2>6. \A c \in owed[p] : pass[p] = "all" /\ Fanout!Behind(p, c)' => Fanout!Behind(p, c)
    BY <2>3 DEF Fanout!Busy
  <2>7. \A c \in Sockets :
          Fanout!Busy(p) /\ asked'[c] <= 1 /\ (c = to[p] \/ Fanout!Served(p, c))
          /\ Fanout!Behind(p, c) => Fanout!Behind(p, c)'
    BY <2>3, <2>4
  <2>8. \A c \in Sockets : socket[c] \in {"broken", "left"} => socket'[c] \in {"broken", "left"}
    BY <1>1, <1>8
  <2> QED BY <1>1, <1>3, <2>5, <2>6, <2>7, <2>8, PublishersRest
<1> QED BY <1>3, <1>10, <1>11, <1>13, <1>14 DEF Fanout!IInv

\* The client stops to read, or goes away.
LEMMA StallKeeps ==
    ASSUME Fanout!ConstantsOK, Fanout!IInv, NEW d \in Sockets, Fanout!Stall(d)
    PROVE  Fanout!IInv'
<1>1. /\ socket[d] = "open" /\ socket' = [socket EXCEPT ![d] = "stuck"]
      /\ connections' = connections /\ subscriptions' = subscriptions
      /\ count' = count /\ got' = got /\ owed' = owed /\ departures' = departures /\ asked' = asked
      /\ pass' = pass /\ to' = to /\ next' = next /\ served' = served /\ dead' = dead
  BY DEF Fanout!Stall, Fanout!sendVars, Fanout!listVars, Fanout!history
<1>2. Fanout!TypeOK /\ socket \in [Sockets -> {"new", "open", "stuck", "broken", "left"}]
  BY DEF Fanout!IInv, Fanout!TypeOK
<1>3. /\ socket' \in [Sockets -> {"new", "open", "stuck", "broken", "left"}]
      /\ socket'[d] = "stuck" /\ \A c \in Sockets \ {d} : socket'[c] = socket[c]
  BY <1>1, <1>2
<1>4. Fanout!TypeOK'
  <2>1. \A c \in Fanout!ToSet(connections) : c \in Sockets /\ Fanout!Connected(c)
    BY <1>2, ElementOfSeq DEF Fanout!TypeOK, Fanout!ToSet
  <2>2. \A c \in Fanout!ToSet(connections) : Fanout!Connected(c)'
    BY <1>3, <2>1 DEF Fanout!Connected
  <2> QED BY <1>1, <1>2, <1>3, <2>2 DEF Fanout!TypeOK, Fanout!IsInjective, Fanout!ToSet
<1>5. Fanout!NewIsNowhere' /\ Fanout!SubscribedOnce' /\ Fanout!DeliveredOnceInOrder'
  BY <1>1, <1>3 DEF Fanout!IInv, Fanout!NewIsNowhere, Fanout!SubscribedOnce,
     Fanout!DeliveredOnceInOrder
<1>6. ASSUME NEW p \in Publishers
      PROVE  Fanout!NotesInOrder(p)' /\ Fanout!NoneTwice(p)' /\ Fanout!MissedIsPaid(p)'
  <2>1. Fanout!NotesInOrder(p) /\ owed[p] \in SUBSET Sockets
    BY <1>2 DEF Fanout!IInv, Fanout!TypeOK
  <2>2. \A c \in owed'[p] : /\ c \in owed[p] /\ socket'[c] \in {"open", "stuck"}
                            /\ c \in Fanout!ToSet(connections')
    BY <1>1, <1>3, <2>1 DEF Fanout!NotesInOrder
  <2>3. \A c : Fanout!Behind(p, c)' <=> Fanout!Behind(p, c)
    BY <1>1 DEF Fanout!Behind
  <2>4. \A c \in Sockets : socket[c] \in {"broken", "left"} => socket'[c] \in {"broken", "left"}
    BY <1>1, <1>3
  <2>5. asked' \in [Sockets -> Nat] /\ \A c \in Sockets : asked'[c] >= asked[c]
    BY <1>1, <1>2 DEF Fanout!TypeOK
  <2> QED BY <1>1, <2>2, <2>3, <2>4, <2>5, PublishersRest
<1> QED BY <1>4, <1>5, <1>6 DEF Fanout!IInv

LEMMA BreakKeeps ==
    ASSUME Fanout!ConstantsOK, Fanout!IInv, NEW d \in Sockets, Fanout!Break(d)
    PROVE  Fanout!IInv'
<1>1. /\ socket[d] \in {"open", "stuck"} /\ socket' = [socket EXCEPT ![d] = "broken"]
      /\ owed' = [p \in Publishers |-> owed[p] \ {d}]
      /\ got' = [got EXCEPT ![d] = [p \in Publishers |-> <<>>]]
      /\ connections' = connections /\ subscriptions' = subscriptions
      /\ count' = count /\ departures' = departures /\ asked' = asked
      /\ pass' = pass /\ to' = to /\ next' = next /\ served' = served /\ dead' = dead
  BY DEF Fanout!Break, Fanout!sendVars, Fanout!listVars
<1>2. /\ Fanout!TypeOK /\ socket \in [Sockets -> {"new", "open", "stuck", "broken", "left"}]
      /\ owed \in [Publishers -> SUBSET Sockets]
      /\ got \in [Sockets -> [Publishers -> Seq(Nat)]]
  BY DEF Fanout!IInv, Fanout!TypeOK
<1>3. /\ socket' \in [Sockets -> {"new", "open", "stuck", "broken", "left"}]
      /\ socket'[d] = "broken" /\ \A c \in Sockets \ {d} : socket'[c] = socket[c]
  BY <1>1, <1>2
<1>4. owed' \in [Publishers -> SUBSET Sockets]
  BY <1>1, <1>2
<1>5. /\ got' \in [Sockets -> [Publishers -> Seq(Nat)]]
      /\ \A p \in Publishers : got'[d][p] = <<>>
      /\ \A c \in Sockets \ {d} : got'[c] = got[c]
  <2>1. [p \in Publishers |-> <<>>] \in [Publishers -> Seq(Nat)]
    OBVIOUS
  <2> QED BY <1>1, <1>2, <2>1
<1>6. Fanout!TypeOK'
  <2>1. \A c \in Fanout!ToSet(connections) : c \in Sockets /\ Fanout!Connected(c)
    BY <1>2, ElementOfSeq DEF Fanout!TypeOK, Fanout!ToSet
  <2>2. \A c \in Fanout!ToSet(connections) : Fanout!Connected(c)'
    BY <1>3, <2>1 DEF Fanout!Connected
  <2> QED BY <1>1, <1>2, <1>3, <1>4, <1>5, <2>2
          DEF Fanout!TypeOK, Fanout!IsInjective, Fanout!ToSet
<1>7. Fanout!NewIsNowhere'
  BY <1>1, <1>3, <1>5 DEF Fanout!IInv, Fanout!NewIsNowhere
<1>8. Fanout!SubscribedOnce'
  BY <1>1 DEF Fanout!IInv, Fanout!SubscribedOnce
<1>9. Fanout!DeliveredOnceInOrder'
  <2> SUFFICES ASSUME NEW c \in Sockets, NEW p \in Publishers, asked[c] <= 1
               PROVE  \A i, j \in DOMAIN got'[c][p] : i < j => got'[c][p][i] < got'[c][p][j]
    BY <1>1 DEF Fanout!DeliveredOnceInOrder
  <2>1. CASE c = d
    BY <1>5, <2>1
  <2>2. CASE c # d
    BY <1>5, <2>2 DEF Fanout!IInv, Fanout!DeliveredOnceInOrder
  <2> QED BY <2>1, <2>2
<1>10. ASSUME NEW p \in Publishers
       PROVE  Fanout!NotesInOrder(p)' /\ Fanout!NoneTwice(p)' /\ Fanout!MissedIsPaid(p)'
  <2>1. Fanout!NotesInOrder(p) /\ owed[p] \in SUBSET Sockets
    BY <1>2 DEF Fanout!IInv, Fanout!TypeOK
  <2>2. \A c \in owed'[p] : /\ c \in owed[p] /\ socket'[c] \in {"open", "stuck"}
                            /\ c \in Fanout!ToSet(connections')
    BY <1>1, <1>3, <2>1 DEF Fanout!NotesInOrder
  <2>3. \A c : Fanout!Behind(p, c)' <=> Fanout!Behind(p, c)
    BY <1>1 DEF Fanout!Behind
  <2>4. \A c \in Sockets : socket[c] \in {"broken", "left"} => socket'[c] \in {"broken", "left"}
    BY <1>1, <1>3
  <2>5. asked' \in [Sockets -> Nat] /\ \A c \in Sockets : asked'[c] >= asked[c]
    BY <1>1, <1>2 DEF Fanout!TypeOK
  <2>6. \A c \in Sockets : got'[c][p] = got[c][p] \/ got'[c][p] = <<>>
    BY <1>5
  <2> QED BY <1>1, <2>2, <2>3, <2>4, <2>5, <2>6, PublishersRest
<1> QED BY <1>6, <1>7, <1>8, <1>9, <1>10 DEF Fanout!IInv

LEMMA LeaveKeeps ==
    ASSUME Fanout!ConstantsOK, Fanout!IInv, NEW d \in Sockets, Fanout!Leave(d)
    PROVE  Fanout!IInv'
<1>1. /\ socket[d] = "broken" /\ socket' = [socket EXCEPT ![d] = "left"]
      /\ Fanout!Disconnected(<<d>>) /\ Fanout!CountDepartures(NoSocket)
      /\ count' = count /\ got' = got /\ owed' = owed /\ asked' = asked
      /\ pass' = pass /\ to' = to /\ next' = next /\ served' = served /\ dead' = dead
  BY DEF Fanout!Leave, Fanout!sendVars
<1>2. /\ Fanout!TypeOK /\ socket \in [Sockets -> {"new", "open", "stuck", "broken", "left"}]
      /\ connections \in Seq(Sockets) /\ Fanout!IsInjective(connections)
      /\ \A c \in Fanout!ToSet(connections) : Fanout!Connected(c)
  BY DEF Fanout!IInv, Fanout!TypeOK
<1>3. /\ socket' \in [Sockets -> {"new", "open", "stuck", "broken", "left"}]
      /\ socket'[d] = "left" /\ \A c \in Sockets \ {d} : socket'[c] = socket[c]
  BY <1>1, <1>2
<1>4. Thins
  <2>1. <<d>> \in Seq(Sockets) /\ \A c \in Fanout!ToSet(<<d>>) : socket[c] \in {"broken", "left"}
    BY <1>1 DEF Fanout!ToSet
  <2> QED BY <1>1, <1>2, <2>1, DisconnectedThins
<1>5. /\ Fanout!IsInjective(connections') /\ Fanout!SubscribedOnce'
      /\ \A c \in Fanout!ToSet(connections') : c \in Fanout!ToSet(connections)
  BY <1>1, <1>4, ThinnedLists
<1>6. d \notin Fanout!ToSet(connections')
  <2>1. <<d>> \in Seq(Sockets)
    OBVIOUS
  <2>2. d \notin Fanout!ToSet(Fanout!Without(connections, <<d>>))
    BY <1>2, <2>1, WithoutThins
  <2> QED BY <1>1, <2>2 DEF Fanout!Disconnected
<1>7. /\ departures' \in [Publishers -> Nat]
      /\ \A q \in Publishers : departures'[q] =
             IF Fanout!Busy(q)
             THEN departures[q] +
                    Fanout!Cardinality(Fanout!ToSet(connections) \ Fanout!ToSet(connections'))
             ELSE departures[q]
  <2>1. connections' \in Seq(Sockets)
    BY <1>4 DEF Thins
  <2>2. /\ departures' \in [Publishers -> Nat]
        /\ \A q \in Publishers : departures'[q] =
                IF q = NoSocket THEN IF Fanout!Busy(q) THEN departures[q] ELSE 0
                ELSE IF Fanout!Busy(q)
                THEN departures[q] +
                       Fanout!Cardinality(Fanout!ToSet(connections) \ Fanout!ToSet(connections'))
                ELSE departures[q]
    BY <1>1, <1>2, <2>1, Departures
  <2>3. \A q \in Publishers : q # NoSocket
    BY DEF Fanout!ConstantsOK
  <2> QED BY <2>2, <2>3
<1>8. Fanout!TypeOK'
  <2>1. Fanout!IsInjective(connections)'
    BY <1>5 DEF Fanout!IsInjective
  <2>2. \A c \in Fanout!ToSet(connections') : Fanout!Connected(c)'
    <3> TAKE c \in Fanout!ToSet(connections')
    <3>1. c \in Fanout!ToSet(connections) /\ Fanout!Connected(c) /\ c # d
      BY <1>2, <1>5, <1>6
    <3>2. c \in Sockets
      BY <1>2, <3>1, ElementOfSeq DEF Fanout!ToSet
    <3> QED BY <1>3, <3>1, <3>2 DEF Fanout!Connected
  <2>3. \A c \in Fanout!ToSet(connections)' : Fanout!Connected(c)'
    BY <2>2 DEF Fanout!ToSet
  <2> QED BY <1>1, <1>2, <1>3, <1>4, <1>7, <2>1, <2>3 DEF Fanout!TypeOK, Thins
<1>9. Fanout!NewIsNowhere'
  BY <1>1, <1>3 DEF Fanout!IInv, Fanout!NewIsNowhere
<1>10. Fanout!DeliveredOnceInOrder'
  BY <1>1 DEF Fanout!IInv, Fanout!DeliveredOnceInOrder
<1>11. ASSUME NEW p \in Publishers
       PROVE  Fanout!NotesInOrder(p)' /\ Fanout!NoneTwice(p)' /\ Fanout!MissedIsPaid(p)'
  <2>1. \A c \in Sockets :
          /\ socket[c] \in {"open", "stuck"} => socket'[c] = socket[c]
          /\ socket[c] \in {"broken", "left"} => socket'[c] \in {"broken", "left"}
    BY <1>1, <1>3
  <2> QED BY <1>1, <1>4, <1>7, <2>1, BystanderKeeps
<1> QED BY <1>5, <1>8, <1>9, <1>10, <1>11 DEF Fanout!IInv

LEMMA CancelPublishKeeps ==
    ASSUME Fanout!ConstantsOK, Fanout!IInv, NEW p \in Publishers, Fanout!CancelPublish(p)
    PROVE  Fanout!IInv'
<1>1. /\ Fanout!Return(p) /\ owed' = [owed EXCEPT ![p] = {}]
      /\ connections' = connections /\ subscriptions' = subscriptions
      /\ socket' = socket /\ count' = count /\ got' = got /\ departures' = departures
      /\ asked' = asked
  BY DEF Fanout!CancelPublish, Fanout!listVars
<1>2. /\ Fanout!TypeOK /\ owed \in [Publishers -> SUBSET Sockets]
      /\ pass \in [Publishers -> Topics \cup {"idle", "all"}]
      /\ to \in [Publishers -> Sockets \cup {NoSocket}]
      /\ next \in [Publishers -> Nat \ {0}]
      /\ served \in [Publishers -> SUBSET Sockets]
      /\ dead \in [Publishers -> Seq(Sockets)]
      /\ departures \in [Publishers -> Nat]
  BY DEF Fanout!IInv, Fanout!TypeOK
<1>3. Sends(p)
  BY <1>1, <1>2, SendOrReturnSends
<1>4. /\ owed' \in [Publishers -> SUBSET Sockets] /\ owed'[p] = {}
      /\ \A q \in Publishers \ {p} : owed'[q] = owed[q]
  BY <1>1, <1>2
<1>5. pass'[p] = "idle" /\ to'[p] = NoSocket /\ served'[p] = {} /\ dead'[p] = <<>>
  BY <1>1, <1>2 DEF Fanout!Return
<1>6. Fanout!TypeOK'
  BY <1>1, <1>2, <1>3, <1>4 DEF Fanout!TypeOK, Sends, Fanout!IsInjective, Fanout!Connected,
     Fanout!ToSet
<1>7. Fanout!NewIsNowhere'
  <2> SUFFICES ASSUME NEW c \in Sockets, socket[c] = "new"
               PROVE  asked[c] = 0 /\ \A q \in Publishers : got[c][q] = <<>> /\ to'[q] # c
    BY <1>1 DEF Fanout!NewIsNowhere
  <2>1. asked[c] = 0 /\ \A q \in Publishers : got[c][q] = <<>> /\ to[q] # c
    BY DEF Fanout!IInv, Fanout!NewIsNowhere
  <2>2. to'[p] # c
    BY <1>5 DEF Fanout!ConstantsOK
  <2> QED BY <1>3, <2>1, <2>2 DEF Sends
<1>8. Fanout!SubscribedOnce' /\ Fanout!DeliveredOnceInOrder'
  BY <1>1 DEF Fanout!IInv, Fanout!SubscribedOnce, Fanout!DeliveredOnceInOrder
<1>9. Fanout!NotesInOrder(p)' /\ Fanout!NoneTwice(p)' /\ Fanout!MissedIsPaid(p)'
  <2>1. Fanout!NotesInOrder(p)'
    <3>1. \A c \in Fanout!ToSet(dead'[p]) : FALSE
      BY <1>5 DEF Fanout!ToSet
    <3>2. pass'[p] \notin Topics
      BY <1>5 DEF Fanout!ConstantsOK
    <3> QED BY <1>4, <1>5, <3>1, <3>2 DEF Fanout!NotesInOrder, Fanout!Busy
  <2>2. Fanout!NoneTwice(p)'
    BY <1>1, <1>5 DEF Fanout!IInv, Fanout!NoneTwice, Fanout!Busy
  <2>3. Fanout!MissedIsPaid(p)'
    <3>1. Fanout!Missed(p)' = {}
      BY <1>4 DEF Fanout!Missed
    <3>2. Fanout!Cardinality(Fanout!Missed(p)') = 0
      BY <3>1, SameCardinality, FS_EmptySet
    <3> QED BY <1>1, <1>2, <3>2 DEF Fanout!MissedIsPaid
  <2> QED BY <2>1, <2>2, <2>3
<1>10. ASSUME NEW q \in Publishers \ {p}
       PROVE  Fanout!NotesInOrder(q)' /\ Fanout!NoneTwice(q)' /\ Fanout!MissedIsPaid(q)'
  <2>1. /\ pass'[q] = pass[q] /\ to'[q] = to[q] /\ next'[q] = next[q]
        /\ served'[q] = served[q] /\ dead'[q] = dead[q]
    BY <1>3 DEF Sends
  <2>2. Thins
    BY <1>1, <1>2, UnchangedThins
  <2>3. departures'[q] =
          IF Fanout!Busy(q)
          THEN departures[q] +
                 Fanout!Cardinality(Fanout!ToSet(connections) \ Fanout!ToSet(connections'))
          ELSE departures[q]
    <3>1. Fanout!Cardinality(Fanout!ToSet(connections) \ Fanout!ToSet(connections')) = 0
      <4>1. Fanout!ToSet(connections) \ Fanout!ToSet(connections') = {}
        BY <1>1
      <4> QED BY <4>1, SameCardinality, FS_EmptySet
    <3>2. departures[q] \in Nat
      BY <1>2
    <3> QED BY <1>1, <3>1, <3>2
  <2> QED BY <1>1, <1>4, <2>1, <2>2, <2>3, BystanderKeeps
<1> QED BY <1>6, <1>7, <1>8, <1>9, <1>10 DEF Fanout!IInv

LEMMA FanoutInit == Fanout!ConstantsOK /\ Fanout!Init => Fanout!IInv
<1> SUFFICES ASSUME Fanout!ConstantsOK, Fanout!Init PROVE Fanout!IInv
  OBVIOUS
<1>1. /\ connections = <<>> /\ subscriptions = [t \in Topics |-> <<>>]
      /\ socket = [c \in Sockets |-> "new"] /\ pass = [p \in Publishers |-> "idle"]
      /\ count = [p \in Publishers |-> 0] /\ to = [p \in Publishers |-> NoSocket]
      /\ next = [p \in Publishers |-> 1] /\ served = [p \in Publishers |-> {}]
      /\ dead = [p \in Publishers |-> <<>>]
      /\ got = [c \in Sockets |-> [p \in Publishers |-> <<>>]]
      /\ owed = [p \in Publishers |-> {}] /\ departures = [p \in Publishers |-> 0]
      /\ asked = [c \in Sockets |-> 0]
  BY DEF Fanout!Init
<1>2. Fanout!TypeOK
  <2>1. connections \in Seq(Sockets) /\ Fanout!IsInjective(connections)
        /\ \A c \in Fanout!ToSet(connections) : Fanout!Connected(c)
    BY <1>1 DEF Fanout!IsInjective, Fanout!ToSet
  <2>2. subscriptions \in [Topics -> Seq(Sockets)] /\ dead \in [Publishers -> Seq(Sockets)]
    BY <1>1
  <2>3. got \in [Sockets -> [Publishers -> Seq(Nat)]]
    <3>1. [p \in Publishers |-> <<>>] \in [Publishers -> Seq(Nat)]
      OBVIOUS
    <3> QED BY <1>1, <3>1
  <2>4. /\ socket \in [Sockets -> {"new", "open", "stuck", "broken", "left"}]
        /\ pass \in [Publishers -> Topics \cup {"idle", "all"}]
        /\ to \in [Publishers -> Sockets \cup {NoSocket}]
        /\ served \in [Publishers -> SUBSET Sockets] /\ owed \in [Publishers -> SUBSET Sockets]
    BY <1>1
  <2>5. /\ count \in [Publishers -> Nat] /\ next \in [Publishers -> Nat \ {0}]
        /\ departures \in [Publishers -> Nat] /\ asked \in [Sockets -> Nat]
    BY <1>1
  <2> QED BY <2>1, <2>2, <2>3, <2>4, <2>5 DEF Fanout!TypeOK
<1>3. Fanout!NewIsNowhere
  BY <1>1 DEF Fanout!NewIsNowhere, Fanout!ConstantsOK
<1>4. Fanout!SubscribedOnce /\ Fanout!DeliveredOnceInOrder
  BY <1>1 DEF Fanout!SubscribedOnce, Fanout!DeliveredOnceInOrder
<1>5. ASSUME NEW p \in Publishers
      PROVE  Fanout!NotesInOrder(p) /\ Fanout!NoneTwice(p) /\ Fanout!MissedIsPaid(p)
  <2>1. /\ pass[p] = "idle" /\ owed[p] = {} /\ dead[p] = <<>> /\ served[p] = {}
        /\ departures[p] = 0 /\ \A c \in Sockets : got[c][p] = <<>>
    BY <1>1
  <2>2. Fanout!NotesInOrder(p) /\ Fanout!NoneTwice(p)
    BY <2>1 DEF Fanout!NotesInOrder, Fanout!NoneTwice, Fanout!Busy, Fanout!ToSet,
       Fanout!ConstantsOK
  <2>3. Fanout!Missed(p) = {}
    BY <2>1 DEF Fanout!Missed
  <2>4. Fanout!Cardinality(Fanout!Missed(p)) = 0
    BY <2>3, SameCardinality, FS_EmptySet
  <2> QED BY <2>1, <2>2, <2>4 DEF Fanout!MissedIsPaid
<1> QED BY <1>2, <1>3, <1>4, <1>5 DEF Fanout!IInv

LEMMA FanoutNextKeeps ==
    ASSUME Fanout!ConstantsOK, Fanout!IInv, [Fanout!Next]_(Fanout!vars)
    PROVE  Fanout!IInv'
<1>1. CASE UNCHANGED Fanout!vars
  <2>1. /\ connections' = connections /\ subscriptions' = subscriptions /\ socket' = socket
        /\ pass' = pass /\ count' = count /\ to' = to /\ next' = next /\ served' = served
        /\ dead' = dead /\ got' = got /\ owed' = owed /\ departures' = departures
        /\ asked' = asked
    BY <1>1 DEF Fanout!vars, Fanout!listVars, Fanout!sendVars, Fanout!history
  <2>2. Fanout!TypeOK'
    BY <2>1 DEF Fanout!IInv, Fanout!TypeOK, Fanout!IsInjective, Fanout!Connected, Fanout!ToSet
  <2>3. Fanout!NewIsNowhere' /\ Fanout!SubscribedOnce' /\ Fanout!DeliveredOnceInOrder'
    BY <2>1 DEF Fanout!IInv, Fanout!NewIsNowhere, Fanout!SubscribedOnce,
       Fanout!DeliveredOnceInOrder
  <2>4. \A p \in Publishers : Fanout!NotesInOrder(p)'
    BY <2>1 DEF Fanout!IInv, Fanout!NotesInOrder, Fanout!Busy
  <2>5. \A p \in Publishers, c \in Sockets :
          /\ Fanout!Behind(p, c)' <=> Fanout!Behind(p, c)
          /\ Fanout!Served(p, c)' <=> Fanout!Served(p, c)
    BY <2>1 DEF Fanout!Behind, Fanout!Served
  <2>6. \A p \in Publishers : Fanout!NoneTwice(p)'
    <3> TAKE p \in Publishers
    <3>1. Fanout!NoneTwice(p) /\ Fanout!NotesInOrder(p)
      BY DEF Fanout!IInv
    <3>2. Fanout!Busy(p)' <=> Fanout!Busy(p)
      BY <2>1 DEF Fanout!Busy
    <3>3. Fanout!Behind(p, to[p])' <=> Fanout!Behind(p, to[p])
      BY <2>1 DEF Fanout!Behind
    <3> QED BY <2>1, <2>5, <3>1, <3>2, <3>3 DEF Fanout!NoneTwice
  <2>7. \A p \in Publishers : Fanout!MissedIsPaid(p)'
    <3> TAKE p \in Publishers
    <3>1. Fanout!Missed(p)' = Fanout!Missed(p)
      BY <2>1 DEF Fanout!Missed, Fanout!Busy, Fanout!Behind
    <3> QED BY <2>1, <3>1 DEF Fanout!IInv, Fanout!MissedIsPaid
  <2> QED BY <2>2, <2>3, <2>4, <2>6, <2>7 DEF Fanout!IInv
<1>2. CASE Fanout!Next
  BY <1>2, JoinKeeps, StallKeeps, BreakKeeps, LeaveKeeps, SubscribeKeeps, BroadcastKeeps,
     SendDoneKeeps, SendFailsKeeps, CancelPublishKeeps, PublishKeeps DEF Fanout!Next
<1> QED BY <1>1, <1>2

\* The lists, the iterators and the notes of the publishers stay in order, for any
\* connections, tasks and publishers.
THEOREM FanoutInvariance == Fanout!Spec => []Fanout!IInv
<1>1. Fanout!Init => Fanout!IInv
  BY FanoutAssumption, FanoutInit
<1>2. Fanout!IInv /\ [Fanout!Next]_(Fanout!vars) => Fanout!IInv'
  BY FanoutAssumption, FanoutNextKeeps
<1> QED BY <1>1, <1>2, PTL DEF Fanout!Spec

\* A connection that has subscribed at most once receives each event of a publisher
\* once and in the order published, for any connections, tasks and publishers.
THEOREM EventsArriveInOrder == Fanout!Spec => []DeliveredOnceInOrder
<1>1. Fanout!IInv => DeliveredOnceInOrder
  BY DEF Fanout!IInv, DeliveredOnceInOrder
<1> QED BY <1>1, FanoutInvariance, PTL

\* A publish that has returned has missed at most one connection for every one that
\* others took off the list meanwhile, for any connections, tasks and publishers.
THEOREM FewAreMissed == Fanout!Spec => []MissedByDeparturesOnly
<1>1. Fanout!IInv => MissedByDeparturesOnly
  <2> SUFFICES ASSUME Fanout!IInv, NEW p \in Publishers, ~Fanout!Busy(p)
               PROVE  Fanout!Cardinality(owed[p]) <= departures[p]
    BY DEF MissedByDeparturesOnly, Fanout!MissedByDeparturesOnly
  <2>1. pass[p] \notin Topics
    BY FanoutAssumption DEF Fanout!Busy, Fanout!ConstantsOK
  <2>2. Fanout!Missed(p) = owed[p]
    BY DEF Fanout!Missed
  <2> QED BY <2>1, <2>2 DEF Fanout!IInv, Fanout!MissedIsPaid
<1> QED BY <1>1, FanoutInvariance, PTL
=============================================================================
