---------------------------- MODULE FilesProofs ----------------------------
(***************************************************************************)
(* What the files kedo keeps promise, for any number of processes, tasks,  *)
(* calls, targets, records and logs.                                       *)
(***************************************************************************)
EXTENDS MCFiles, FiniteSetTheorems, WellFoundedInduction, TLAPS

-----------------------------------------------------------------------------
(* Each behaviour of the whole is one of each of its parts.                *)

LEMMA InitsHold ==
    ASSUME FilesInit
    PROVE  Init /\ Index!Init /\ Profile!Init /\ Deploy!Init /\ Inbox!Init /\ History!Init
           /\ Crash!Init
<1> QED BY DEF FilesInit

LEMMA StepsOfParts ==
    ASSUME [FilesNext]_filesVars
    PROVE  /\ [Index!Next]_(Index!vars) /\ [Next]_vars /\ [Profile!Next]_(Profile!vars)
           /\ [Deploy!Next]_(Deploy!vars) /\ [Inbox!Next]_(Inbox!vars)
           /\ [History!Next]_(History!vars) /\ [Crash!Next]_(Crash!vars)
<1> USE DEF indexVars, settingsVars, profileVars, deployVars, inboxVars, historyVars, logVars,
            Index!vars, Index!diskVars, Index!persistVars, Profile!vars, Deploy!vars,
            Inbox!vars, History!vars, Crash!vars
<1>1. CASE IndexStep
  BY <1>1 DEF IndexStep
<1>2. CASE SettingsStep
  BY <1>2 DEF SettingsStep
<1>3. CASE ProfileStep
  BY <1>3 DEF ProfileStep
<1>4. CASE DeployStep
  BY <1>4 DEF DeployStep
<1>5. CASE InboxStep
  BY <1>5 DEF InboxStep
<1>6. CASE HistoryStep
  BY <1>6 DEF HistoryStep
<1>7. CASE LogStep
  BY <1>7 DEF LogStep
<1>8. CASE UNCHANGED filesVars
  BY <1>8 DEF filesVars
<1> QED BY <1>1, <1>2, <1>3, <1>4, <1>5, <1>6, <1>7, <1>8 DEF FilesNext

\* What a part promises of its own steps holds of the whole.
THEOREM PartsAreImplemented ==
    FilesSpec => Index!Spec /\ Spec /\ Profile!Spec /\ Deploy!Spec /\ Inbox!Spec
                 /\ History!Spec /\ Crash!Spec
<1> QED BY InitsHold, StepsOfParts, PTL
        DEF FilesSpec, Index!Spec, Spec, Profile!Spec, Deploy!Spec, Inbox!Spec, History!Spec,
            Crash!Spec

-----------------------------------------------------------------------------
(* The histories of runs.                                                  *)

LEMMA PersistKeeps ==
    ASSUME NEW new, History!Persist(new), runs' = new, seen' = new
    PROVE  History!IInv'
<1> QED BY DEF History!Persist, History!IInv, History!HistorySurvives, History!InMemory

LEMMA HistoryNextKeeps ==
    ASSUME History!IInv, [History!Next]_(History!vars)
    PROVE  History!IInv'
<1> USE DEF History!IInv, History!HistorySurvives, History!InMemory
<1>1. ASSUME NEW r, NEW content, History!OutsideChanges(r, content)
      PROVE  History!IInv'
  BY <1>1 DEF History!OutsideChanges
<1>2. CASE History!ScanReports
  BY <1>2, PersistKeeps DEF History!ScanReports
<1>3. ASSUME NEW r, History!ScanMachine(r)
      PROVE  History!IInv'
  BY <1>3, PersistKeeps DEF History!ScanMachine
<1>4. CASE History!Restart
  BY <1>4 DEF History!Restart
<1>5. CASE UNCHANGED History!vars
  BY <1>5 DEF History!vars
<1> QED BY <1>1, <1>2, <1>3, <1>4, <1>5 DEF History!Next

\* Whatever becomes of the reports, each record is on disk as a scan saw it
\* last, unless the last write failed (core/test_store.py and its like).
THEOREM HistoriesSurvive == FilesSpec => []HistorySurvives
<1>1. History!Init => History!IInv
  BY DEF History!Init, History!IInv, History!HistorySurvives, History!InMemory
<1>2. History!IInv => HistorySurvives
  BY DEF History!IInv, HistorySurvives
<1> QED BY <1>1, <1>2, HistoryNextKeeps, PartsAreImplemented, PTL DEF History!Spec

-----------------------------------------------------------------------------
(* The crash logs.                                                         *)

LEMMA MinIsThere ==
    ASSUME NEW S \in SUBSET Crash!Logs, S # {}
    PROVE  Crash!Min(S) \in S
<1> S \subseteq Nat
  BY DEF Crash!Logs
<1>1. \E x \in S : \A y \in S : ~(<<y, x>> \in OpToRel(<, Nat))
  BY WFMin, NatLessThanWellFounded
<1>2. PICK x \in S : \A y \in S : ~(<<y, x>> \in OpToRel(<, Nat))
  BY <1>1
<1>3. \A y \in S : ~(y < x)
  BY <1>2 DEF OpToRel
<1>4. \A y \in S : x <= y
  BY <1>3
<1> QED BY <1>4 DEF Crash!Min

\* An analysis of files that are there meets nothing left over.
LEMMA AnalysisKeeps ==
    ASSUME Crash!IInv, NEW logs \in SUBSET DOMAIN local, Crash!Analyse(logs)
    PROVE  /\ analysed' \subseteq {"whole", "cut off", "on its way", "left over"}
           /\ Crash!NothingLeftOver'
<1>1. \A l \in logs : Crash!HowIs(l) \in {"whole", "cut off", "on its way"}
  BY DEF Crash!IInv, Crash!TypeOK, Crash!BeingCopied, Crash!HowIs
<1> QED BY <1>1 DEF Crash!Analyse, Crash!IInv, Crash!TypeOK, Crash!NothingLeftOver

\* A call that goes on without touching its file changes nothing of that.
LEMMA GoesOn ==
    ASSUME Crash!IInv, NEW c \in Calls, NEW f \in Crash!Record,
           fetch' = [fetch EXCEPT ![c] = f],
           f.loading = fetch[c].loading,
           f.loading # 0 => f.at = "copying",
           UNCHANGED <<device, local>>, 
           analysed' \subseteq {"whole", "cut off", "on its way", "left over"},
           Crash!NothingLeftOver'
    PROVE  Crash!IInv'
<1>1. Crash!TypeOK'
  BY DEF Crash!IInv, Crash!TypeOK
<1>2. \A d \in Calls : fetch'[d].loading = fetch[d].loading
  BY DEF Crash!IInv, Crash!TypeOK
<1>3. Crash!OpenWhileCopying'
  BY DEF Crash!IInv, Crash!TypeOK, Crash!OpenWhileCopying
<1>4. Crash!BeingCopied'
  BY <1>2 DEF Crash!IInv, Crash!TypeOK, Crash!BeingCopied
<1> QED BY <1>1, <1>3, <1>4 DEF Crash!IInv

-----------------------------------------------------------------------------
(* The invariant.                                                          *)

LEMMA LogsInit ==
    ASSUME Crash!Init
    PROVE  Crash!IInv
<1>1. Crash!Idle \in Crash!Record
  BY DEF Crash!Idle, Crash!Record
<1>2. \A c \in Calls : fetch[c].loading = 0
  BY DEF Crash!Init, Crash!Idle
<1> QED
  BY <1>1, <1>2 DEF Crash!Init, Crash!IInv, Crash!TypeOK, Crash!OpenWhileCopying,
    Crash!BeingCopied, Crash!NothingLeftOver

\* The logs on the device are numbered without gaps.
LEMMA CrashCardinality ==
    ASSUME NEW S
    PROVE  Crash!Cardinality(S) = Cardinality(S)
<1> QED BY DEF Crash!Cardinality, Cardinality

LEMMA CrashKeeps ==
    ASSUME Crash!ConstantsOK, Crash!IInv, Crash!DeviceCrashes
    PROVE  Crash!IInv'
<1> MaxLogs \in Nat
  BY DEF Crash!ConstantsOK
<1>1. IsFiniteSet(Crash!Logs)
  BY FS_Interval DEF Crash!Logs
<1>2. Crash!Cardinality(device) \in Nat
  BY <1>1, FS_Subset, FS_CardinalityType, CrashCardinality DEF Crash!IInv, Crash!TypeOK
<1>3. Crash!Cardinality(device) + 1 \in Crash!Logs
  BY <1>2 DEF Crash!DeviceCrashes, Crash!Logs
<1>4. Crash!TypeOK'
  BY <1>3 DEF Crash!DeviceCrashes, Crash!IInv, Crash!TypeOK
<1> QED
  BY <1>4 DEF Crash!DeviceCrashes, Crash!IInv, Crash!OpenWhileCopying, Crash!BeingCopied,
    Crash!NothingLeftOver

LEMMA CallKeeps ==
    ASSUME Crash!IInv, NEW c \in Calls,
           Crash!Request(c) \/ Crash!Ready(c) \/ Crash!NotReady(c) \/ Crash!Return(c) \/ Crash!Drop(c)
    PROVE  Crash!IInv'
<1> fetch[c] \in Crash!Record
  BY DEF Crash!IInv, Crash!TypeOK
<1> fetch[c].loading # 0 => fetch[c].at = "copying"
  BY DEF Crash!IInv, Crash!OpenWhileCopying
<1>1. CASE Crash!Request(c)
  <2> DEFINE f == [Crash!Idle EXCEPT !.at = "asked", !.before = DOMAIN local]
  <2>1. f \in Crash!Record /\ f.loading = fetch[c].loading
    BY <1>1 DEF Crash!Request, Crash!At, Crash!Record, Crash!Idle, Crash!Logs, Crash!IInv,
      Crash!TypeOK
  <2>2. fetch' = [fetch EXCEPT ![c] = f]
    BY <1>1 DEF Crash!Request, Crash!IInv, Crash!TypeOK
  <2>3. f.loading # 0 => f.at = "copying"
    BY <1>1, <2>1 DEF Crash!Request, Crash!At, Crash!Record
  <2> HIDE DEF f
  <2> QED
    BY <1>1, <2>1, <2>2, <2>3, GoesOn
      DEF Crash!Request, Crash!IInv, Crash!TypeOK, Crash!NothingLeftOver
<1>2. CASE Crash!Ready(c)
  <2> DEFINE f == [fetch[c] EXCEPT !.at = "connecting"]
  <2>1. f \in Crash!Record /\ f.loading = fetch[c].loading
    BY <1>2 DEF Crash!Ready, Crash!At, Crash!Record
  <2>2. fetch' = [fetch EXCEPT ![c] = f]
    BY <1>2 DEF Crash!Ready, Crash!IInv, Crash!TypeOK
  <2>3. f.loading # 0 => f.at = "copying"
    BY <1>2, <2>1 DEF Crash!Ready, Crash!At, Crash!Record
  <2> HIDE DEF f
  <2> QED
    BY <1>2, <2>1, <2>2, <2>3, GoesOn
      DEF Crash!Ready, Crash!IInv, Crash!TypeOK, Crash!NothingLeftOver
<1>3. CASE Crash!NotReady(c)
  <2> DEFINE f == Crash!Idle
  <2>1. f \in Crash!Record /\ f.loading = fetch[c].loading
    BY <1>3 DEF Crash!NotReady, Crash!At, Crash!Record, Crash!Idle, Crash!Logs
  <2>2. fetch' = [fetch EXCEPT ![c] = f]
    BY <1>3 DEF Crash!NotReady, Crash!IInv, Crash!TypeOK
  <2>3. f.loading # 0 => f.at = "copying"
    BY <1>3, <2>1 DEF Crash!NotReady, Crash!At, Crash!Record
  <2> HIDE DEF f
  <2> QED
    BY <1>3, <2>1, <2>2, <2>3, GoesOn
      DEF Crash!NotReady, Crash!IInv, Crash!TypeOK, Crash!NothingLeftOver
<1>4. CASE Crash!Return(c)
  <2> DEFINE f == Crash!Idle
  <2>1. f \in Crash!Record /\ f.loading = fetch[c].loading
    BY <1>4 DEF Crash!Return, Crash!At, Crash!Record, Crash!Idle, Crash!Logs
  <2>2. fetch' = [fetch EXCEPT ![c] = f]
    BY <1>4 DEF Crash!Return, Crash!IInv, Crash!TypeOK
  <2>3. f.loading # 0 => f.at = "copying"
    BY <1>4, <2>1 DEF Crash!Return, Crash!At, Crash!Record
  <2>4. PICK logs \in SUBSET DOMAIN local : Crash!Analyse(logs)
    BY <1>4 DEF Crash!Return
  <2> HIDE DEF f
  <2> QED BY <1>4, <2>1, <2>2, <2>3, <2>4, GoesOn, AnalysisKeeps DEF Crash!Return
<1>5. CASE Crash!Drop(c)
  <2> DEFINE f == [fetch[c] EXCEPT !.dropped = TRUE, !.before = {}, !.got = FALSE,
                                !.failed = FALSE]
  <2>1. f \in Crash!Record /\ f.loading = fetch[c].loading
    BY <1>5 DEF Crash!Drop, Crash!At, Crash!Record
  <2>2. fetch' = [fetch EXCEPT ![c] = f]
    BY <1>5 DEF Crash!Drop, Crash!IInv, Crash!TypeOK
  <2>3. f.loading # 0 => f.at = "copying"
    BY <1>5, <2>1 DEF Crash!Drop, Crash!At, Crash!Record
  <2> HIDE DEF f
  <2> QED
    BY <1>5, <2>1, <2>2, <2>3, GoesOn
      DEF Crash!Drop, Crash!IInv, Crash!TypeOK, Crash!NothingLeftOver
<1> QED BY <1>1, <1>2, <1>3, <1>4, <1>5

\* The steps of the thread that leave the files alone.
LEMMA ThreadKeeps ==
    ASSUME Crash!IInv, NEW c \in Calls,
           Crash!CannotConnect(c) \/ Crash!Connect(c) \/ Crash!Copied(c) \/ Crash!Forget(c)
    PROVE  Crash!IInv'
<1> fetch[c] \in Crash!Record
  BY DEF Crash!IInv, Crash!TypeOK
<1> fetch[c].loading # 0 => fetch[c].at = "copying"
  BY DEF Crash!IInv, Crash!OpenWhileCopying
<1>1. CASE Crash!CannotConnect(c)
  <2> DEFINE f == [fetch[c] EXCEPT !.at = "copied", !.failed = ~fetch[c].dropped]
  <2>1. f \in Crash!Record /\ f.loading = fetch[c].loading
    BY <1>1 DEF Crash!CannotConnect, Crash!At, Crash!Record
  <2>2. fetch' = [fetch EXCEPT ![c] = f]
    BY <1>1 DEF Crash!CannotConnect, Crash!IInv, Crash!TypeOK
  <2>3. f.loading # 0 => f.at = "copying"
    BY <1>1, <2>1 DEF Crash!CannotConnect, Crash!At, Crash!Record
  <2> HIDE DEF f
  <2> QED
    BY <1>1, <2>1, <2>2, <2>3, GoesOn
      DEF Crash!CannotConnect, Crash!IInv, Crash!TypeOK, Crash!NothingLeftOver
<1>2. CASE Crash!Connect(c)
  <2> DEFINE f == [fetch[c] EXCEPT !.at = "copying", !.todo = device \ DOMAIN local]
  <2>1. f \in Crash!Record /\ f.loading = fetch[c].loading
    BY <1>2 DEF Crash!Connect, Crash!At, Crash!Record, Crash!IInv, Crash!TypeOK
  <2>2. fetch' = [fetch EXCEPT ![c] = f]
    BY <1>2 DEF Crash!Connect, Crash!IInv, Crash!TypeOK
  <2>3. f.loading # 0 => f.at = "copying"
    BY <1>2, <2>1 DEF Crash!Connect, Crash!At, Crash!Record
  <2> HIDE DEF f
  <2> QED
    BY <1>2, <2>1, <2>2, <2>3, GoesOn
      DEF Crash!Connect, Crash!IInv, Crash!TypeOK, Crash!NothingLeftOver
<1>3. CASE Crash!Copied(c)
  <2> DEFINE f == [fetch[c] EXCEPT !.at = "copied"]
  <2>1. f \in Crash!Record /\ f.loading = fetch[c].loading
    BY <1>3 DEF Crash!Copied, Crash!At, Crash!Record
  <2>2. fetch' = [fetch EXCEPT ![c] = f]
    BY <1>3 DEF Crash!Copied, Crash!IInv, Crash!TypeOK
  <2>3. f.loading # 0 => f.at = "copying"
    BY <1>3, <2>1 DEF Crash!Copied, Crash!At, Crash!Record
  <2> HIDE DEF f
  <2> QED
    BY <1>3, <2>1, <2>2, <2>3, GoesOn
      DEF Crash!Copied, Crash!IInv, Crash!TypeOK, Crash!NothingLeftOver
<1>4. CASE Crash!Forget(c)
  <2> DEFINE f == Crash!Idle
  <2>1. f \in Crash!Record /\ f.loading = fetch[c].loading
    BY <1>4 DEF Crash!Forget, Crash!At, Crash!Record, Crash!Idle, Crash!Logs
  <2>2. fetch' = [fetch EXCEPT ![c] = f]
    BY <1>4 DEF Crash!Forget, Crash!IInv, Crash!TypeOK
  <2>3. f.loading # 0 => f.at = "copying"
    BY <1>4, <2>1 DEF Crash!Forget, Crash!At, Crash!Record
  <2> HIDE DEF f
  <2> QED
    BY <1>4, <2>1, <2>2, <2>3, GoesOn
      DEF Crash!Forget, Crash!IInv, Crash!TypeOK, Crash!NothingLeftOver
<1> QED BY <1>1, <1>2, <1>3, <1>4

\* The thread had no other file open, and the file is its own from now on.
LEMMA OpenKeeps ==
    ASSUME Crash!IInv, NEW c \in Calls, Crash!Open(c)
    PROVE  Crash!IInv'
<1> DEFINE l == Crash!Min(fetch[c].todo)
<1> fetch[c] \in Crash!Record
  BY DEF Crash!IInv, Crash!TypeOK
<1>1. l \in fetch[c].todo
  BY MinIsThere DEF Crash!Open, Crash!Record
<1>2. l \in Crash!Logs /\ l \in Nat /\ l # 0
  BY <1>1 DEF Crash!Record, Crash!Logs
<1>3. /\ local' = [m \in DOMAIN local \cup {l} |-> IF m = l THEN c ELSE local[m]]
      /\ fetch' = [fetch EXCEPT ![c] = [fetch[c] EXCEPT !.loading = l,
                                                        !.todo = fetch[c].todo \ {l}]]
      /\ fetch[c].at = "copying" /\ fetch[c].loading = 0
      /\ UNCHANGED <<device, analysed>>
  BY DEF Crash!Open, Crash!At
<1> HIDE DEF l
<1>4. [fetch[c] EXCEPT !.loading = l, !.todo = fetch[c].todo \ {l}] \in Crash!Record
  BY <1>2 DEF Crash!Record
<1>5. Crash!TypeOK'
  BY <1>2, <1>3, <1>4 DEF Crash!IInv, Crash!TypeOK
<1>6. fetch'[c].loading = l /\ fetch'[c].at = "copying"
  BY <1>3 DEF Crash!IInv, Crash!TypeOK, Crash!Record
<1>7. \A d \in Calls \ {c} : fetch'[d] = fetch[d]
  BY <1>3 DEF Crash!IInv, Crash!TypeOK
<1>8. Crash!OpenWhileCopying'
  BY <1>6, <1>7 DEF Crash!IInv, Crash!OpenWhileCopying
<1>9. ASSUME NEW m \in DOMAIN local', local'[m] \in Calls
      PROVE  fetch'[local'[m]].loading = m
  <2>1. CASE m = l
    BY <1>3, <1>6, <2>1
  <2>2. CASE m # l
    <3>1. m \in DOMAIN local /\ local'[m] = local[m]
      BY <1>3, <2>2
    <3>2. fetch[local[m]].loading = m
      BY <1>9, <3>1 DEF Crash!IInv, Crash!BeingCopied
    <3>3. m \in Crash!Logs /\ 0 \notin Crash!Logs
      <4>1. m \in Crash!Logs
        BY <3>1 DEF Crash!IInv, Crash!TypeOK
      <4>2. 0 \notin Crash!Logs
        BY DEF Crash!Logs
      <4> QED BY <4>1, <4>2
    <3>4. fetch[c].loading = 0
      BY <1>3
    <3>5. ASSUME local[m] = c
          PROVE  FALSE
      <4>1. fetch[c].loading = m
        BY <3>2, <3>5
      <4> QED BY <3>3, <3>4, <4>1
    <3> QED BY <1>7, <1>9, <3>1, <3>2, <3>5
  <2> QED BY <2>1, <2>2
<1> QED BY <1>3, <1>5, <1>8, <1>9 DEF Crash!IInv, Crash!BeingCopied, Crash!NothingLeftOver

\* The thread leaves its file whole, removed, or to another thread.
LEMMA EndKeeps ==
    ASSUME Crash!ConstantsOK, Crash!IInv, NEW c \in Calls, Crash!Downloaded(c) \/ Crash!DownloadFails(c)
    PROVE  Crash!IInv'
<1> fetch[c] \in Crash!Record
  BY DEF Crash!IInv, Crash!TypeOK
<1>1. PICK f \in Crash!Record : fetch' = [fetch EXCEPT ![c] = f] /\ f.loading = 0
  <2>1. CASE Crash!Downloaded(c)
    <3> DEFINE f == [fetch[c] EXCEPT !.loading = 0, !.got = ~fetch[c].dropped]
    <3>1. f \in Crash!Record /\ f.loading = 0
      BY DEF Crash!Record
    <3>2. fetch' = [fetch EXCEPT ![c] = f]
      BY <2>1 DEF Crash!Downloaded
    <3> QED BY <3>1, <3>2
  <2>2. CASE Crash!DownloadFails(c)
    <3> DEFINE f == [fetch[c] EXCEPT !.loading = 0, !.failed = ~fetch[c].dropped]
    <3>1. f \in Crash!Record /\ f.loading = 0
      BY DEF Crash!Record
    <3>2. fetch' = [fetch EXCEPT ![c] = f]
      BY <2>2 DEF Crash!DownloadFails
    <3> QED BY <3>1, <3>2
  <2> QED BY <2>1, <2>2
<1>2. /\ DOMAIN local' \subseteq DOMAIN local
      /\ local' \in [DOMAIN local' -> {"whole", "cut off"} \cup Calls]
      /\ \A m \in DOMAIN local' : local'[m] = local[m] \/ local'[m] = "whole"
      /\ fetch[c].loading \in DOMAIN local' => local'[fetch[c].loading] # c
      /\ UNCHANGED <<device, analysed>>
  <2>1. CASE Crash!Downloaded(c)
    BY <2>1 DEF Crash!Downloaded, Crash!IInv, Crash!TypeOK, Crash!ConstantsOK
  <2>2. CASE Crash!DownloadFails(c)
    <3>1. local' = [m \in DOMAIN local \ {fetch[c].loading} |-> local[m]]
      BY <2>2 DEF Crash!DownloadFails
    <3> QED BY <2>2, <3>1 DEF Crash!DownloadFails, Crash!IInv, Crash!TypeOK
  <2> QED BY <2>1, <2>2
<1>3. Crash!TypeOK'
  BY <1>1, <1>2 DEF Crash!IInv, Crash!TypeOK
<1>4. fetch'[c].loading = 0 /\ \A d \in Calls \ {c} : fetch'[d] = fetch[d]
  BY <1>1 DEF Crash!IInv, Crash!TypeOK
<1>5. Crash!OpenWhileCopying'
  BY <1>4 DEF Crash!IInv, Crash!OpenWhileCopying
<1>6. ASSUME NEW m \in DOMAIN local', local'[m] \in Calls
      PROVE  fetch'[local'[m]].loading = m
  <2>1. m \in DOMAIN local /\ local'[m] = local[m]
    BY <1>2, <1>6 DEF Crash!ConstantsOK
  <2>2. fetch[local[m]].loading = m
    BY <1>6, <2>1 DEF Crash!IInv, Crash!BeingCopied
  <2>3. local[m] # c
    BY <1>2, <1>6, <2>1, <2>2
  <2> QED BY <1>4, <1>6, <2>1, <2>2, <2>3
<1> QED BY <1>2, <1>3, <1>5, <1>6 DEF Crash!IInv, Crash!BeingCopied, Crash!NothingLeftOver

LEMMA KillKeeps ==
    ASSUME Crash!ConstantsOK, Crash!IInv, Crash!Kill
    PROVE  Crash!IInv'
<1>1. Crash!Idle \in Crash!Record /\ Crash!Idle.loading = 0
  BY DEF Crash!Idle, Crash!Record
<1>2. /\ DOMAIN local' = DOMAIN local
      /\ \A l \in DOMAIN local' : local'[l] \in {"whole", "cut off"}
      /\ local' \in [DOMAIN local' -> {"whole", "cut off"} \cup Calls]
  BY DEF Crash!Kill, Crash!IInv, Crash!TypeOK
<1>3. Crash!BeingCopied'
  BY <1>2 DEF Crash!BeingCopied, Crash!ConstantsOK
<1> QED
  BY <1>1, <1>2, <1>3
    DEF Crash!Kill, Crash!IInv, Crash!TypeOK, Crash!OpenWhileCopying, Crash!NothingLeftOver

LEMMA LogsNextKeeps ==
    ASSUME Crash!ConstantsOK, Crash!IInv, [Crash!Next]_(Crash!vars)
    PROVE  Crash!IInv'
<1>1. ASSUME Crash!UseLocal
      PROVE  Crash!IInv'
  <2>1. Crash!Analyse(DOMAIN local) /\ UNCHANGED <<device, local, fetch>>
    BY <1>1 DEF Crash!UseLocal
  <2> QED
    BY <2>1, AnalysisKeeps
      DEF Crash!IInv, Crash!TypeOK, Crash!OpenWhileCopying, Crash!BeingCopied
<1>2. ASSUME UNCHANGED Crash!vars
      PROVE  Crash!IInv'
  BY <1>2 DEF Crash!vars, Crash!IInv, Crash!TypeOK, Crash!OpenWhileCopying, Crash!BeingCopied,
    Crash!NothingLeftOver
<1>3. ASSUME NEW c \in Calls,
             \/ Crash!Request(c) \/ Crash!Ready(c) \/ Crash!NotReady(c) \/ Crash!Return(c)
             \/ Crash!Drop(c) \/ Crash!CannotConnect(c) \/ Crash!Connect(c) \/ Crash!Open(c)
             \/ Crash!Downloaded(c) \/ Crash!DownloadFails(c) \/ Crash!Copied(c)
             \/ Crash!Forget(c)
      PROVE  Crash!IInv'
  BY <1>3, CallKeeps, ThreadKeeps, OpenKeeps, EndKeeps
<1> QED BY <1>1, <1>2, <1>3, CrashKeeps, KillKeeps DEF Crash!Next

\* Whatever the threads do to each other's file, what a broken transfer leaves
\* behind is never analysed (fetch_crash_report_tool.py 147).
THEOREM NothingBrokenIsRead == FilesSpec => []NothingLeftOver
<1>1. Crash!IInv /\ [Crash!Next]_(Crash!vars) => Crash!IInv'
  BY FilesAssumption, LogsNextKeeps
<1>2. Crash!IInv => NothingLeftOver
  BY DEF Crash!IInv, NothingLeftOver
<1> QED BY <1>1, <1>2, LogsInit, PartsAreImplemented, PTL DEF Crash!Spec

-----------------------------------------------------------------------------
(* The deploy targets.                                                     *)

LEMMA ListsAreFunctions ==
    ASSUME NEW list
    PROVE  list \in Deploy!Lists
           <=> /\ DOMAIN list \subseteq Targets
               /\ list \in [DOMAIN list -> Deploy!Statuses]
<1>1. ASSUME list \in Deploy!Lists
      PROVE  DOMAIN list \subseteq Targets /\ list \in [DOMAIN list -> Deploy!Statuses]
  BY <1>1 DEF Deploy!Lists
<1>2. ASSUME DOMAIN list \subseteq Targets, list \in [DOMAIN list -> Deploy!Statuses]
      PROVE  list \in Deploy!Lists
  BY <1>2 DEF Deploy!Lists
<1> QED BY <1>1, <1>2

\* What is loaded is what was stored, or a list in which nothing is busy.
LEMMA LoadedIsAList ==
    ASSUME Detected \subseteq Targets, Deploy!TypeOK
    PROVE  /\ Deploy!Loaded \in Deploy!Lists
           /\ \A t \in DOMAIN Deploy!Loaded :
                  Deploy!Loaded[t] \in Deploy!Busy
                      => t \in DOMAIN targets /\ targets[t] = Deploy!Loaded[t]
<1>1. [t \in Detected |-> "unconfigured"] \in Deploy!Lists
  BY ListsAreFunctions DEF Deploy!Statuses
<1> QED BY <1>1 DEF Deploy!Loaded, Deploy!TypeOK, Deploy!Busy

LEMMA OneStatusSet ==
    ASSUME NEW list \in Deploy!Lists, NEW t, NEW status \in Deploy!Statuses
    PROVE  [list EXCEPT ![t] = status] \in Deploy!Lists
<1> QED BY ListsAreFunctions

\* A list nobody marked: the marks it has were there, and so are their jobs.
LEMMA ListKeeps ==
    ASSUME Deploy!IInv, targets' \in Deploy!Lists, UNCHANGED <<jobs, drifted>>,
           \A t \in DOMAIN targets' :
               targets'[t] \in Deploy!Busy => t \in DOMAIN targets /\ targets[t] = targets'[t]
    PROVE  Deploy!IInv'
<1> QED BY DEF Deploy!IInv, Deploy!TypeOK, Deploy!BusyMeansRunning, Deploy!Under

LEMMA CallsKeep ==
    ASSUME Detected \subseteq Targets, Deploy!IInv, NEW t \in Targets,
           \/ Deploy!ListTargets \/ Deploy!AddTarget(t) \/ Deploy!UpdateTarget(t)
           \/ Deploy!DeleteTarget(t)
    PROVE  Deploy!IInv'
<1> DEFINE L == Deploy!Loaded
<1>1. /\ L \in Deploy!Lists
      /\ \A s \in DOMAIN L : L[s] \in Deploy!Busy => s \in DOMAIN targets /\ targets[s] = L[s]
  BY LoadedIsAList DEF Deploy!IInv
<1>2. DOMAIN L \subseteq Targets /\ L \in [DOMAIN L -> Deploy!Statuses]
  BY <1>1, ListsAreFunctions
<1> HIDE DEF L
<1>3. CASE Deploy!ListTargets
  BY <1>1, <1>3, ListKeeps DEF Deploy!ListTargets, L
<1>4. CASE Deploy!AddTarget(t)
  <2>1. /\ targets' = [s \in DOMAIN L \cup {t} |-> IF s = t THEN "unknown" ELSE L[s]]
        /\ UNCHANGED <<jobs, drifted>>
    BY <1>4 DEF Deploy!AddTarget, L
  <2>2. targets' \in Deploy!Lists
    BY <1>2, <2>1, ListsAreFunctions DEF Deploy!Statuses
  <2> QED BY <1>1, <2>1, <2>2, ListKeeps DEF Deploy!Busy
<1>5. CASE Deploy!UpdateTarget(t)
  <2>1. PICK status \in {L[t], "unknown", "unconfigured"} :
            targets' = [L EXCEPT ![t] = status] /\ UNCHANGED <<jobs, drifted>>
    BY <1>5 DEF Deploy!UpdateTarget, L
  <2>2. t \in DOMAIN L
    BY <1>5 DEF Deploy!UpdateTarget, L
  <2>3. targets' \in Deploy!Lists
    BY <1>1, <1>2, <2>1, <2>2, OneStatusSet DEF Deploy!Statuses
  <2> QED BY <1>1, <2>1, <2>3, ListKeeps DEF Deploy!Busy
<1>6. CASE Deploy!DeleteTarget(t)
  <2>1. targets' = [s \in DOMAIN L \ {t} |-> L[s]] /\ UNCHANGED <<jobs, drifted>>
    BY <1>6 DEF Deploy!DeleteTarget, L
  <2>2. targets' \in Deploy!Lists
    BY <1>2, <2>1, ListsAreFunctions
  <2> QED BY <1>1, <2>1, <2>2, ListKeeps
<1> QED BY <1>3, <1>4, <1>5, <1>6

\* The job that marks a target is there for the mark.
LEMMA BeginKeeps ==
    ASSUME Detected \subseteq Targets, Deploy!IInv, NEW j \in Jobs, NEW t \in Targets,
           NEW what \in Deploy!Busy, ~Deploy!Under(j), Deploy!Begin(j, what, t)
    PROVE  Deploy!IInv'
<1> DEFINE list == [Deploy!Loaded EXCEPT ![t] = what]
<1>1. /\ targets' = list
      /\ jobs' = [jobs EXCEPT ![j] = Deploy!Job(what, t, list)]
      /\ UNCHANGED drifted
  BY DEF Deploy!Begin
<1>2. list \in Deploy!Lists
  BY LoadedIsAList, OneStatusSet DEF Deploy!IInv, Deploy!Statuses
<1>3. \A s \in DOMAIN list \ {t} :
          list[s] \in Deploy!Busy => s \in DOMAIN targets /\ targets[s] = list[s]
  BY LoadedIsAList DEF Deploy!IInv
<1> HIDE DEF list
<1>4. Deploy!TypeOK'
  BY <1>1, <1>2 DEF Deploy!IInv, Deploy!TypeOK, Deploy!Job
<1>5. jobs'[j].kind = what /\ jobs'[j].target = t /\ \A k \in Jobs \ {j} : jobs'[k] = jobs[k]
  BY <1>1 DEF Deploy!IInv, Deploy!TypeOK, Deploy!Job
<1>6. ASSUME ~drifted', NEW s \in DOMAIN targets', targets'[s] \in Deploy!Busy
      PROVE  \E k \in Jobs : jobs'[k].kind # "idle" /\ jobs'[k].target = s
  <2>1. CASE s = t
    BY <1>5, <2>1 DEF Deploy!Busy
  <2>2. CASE s # t
    <3>1. PICK k \in Jobs : Deploy!Under(k) /\ jobs[k].target = s
      BY <1>1, <1>3, <1>6, <2>2 DEF Deploy!IInv, Deploy!BusyMeansRunning
    <3> QED BY <1>5, <3>1 DEF Deploy!Under
  <2> QED BY <2>1, <2>2
<1> QED BY <1>4, <1>6 DEF Deploy!IInv, Deploy!BusyMeansRunning, Deploy!Under

LEMMA BeginsKeep ==
    ASSUME Detected \subseteq Targets, Deploy!IInv, NEW j \in Jobs, NEW t \in Targets,
           Deploy!BeginCheck(j, t) \/ \E commands \in BOOLEAN : Deploy!BeginSetup(j, t, commands)
    PROVE  Deploy!IInv'
<1>1. CASE Deploy!BeginCheck(j, t)
  BY <1>1, BeginKeeps DEF Deploy!BeginCheck, Deploy!Busy
<1>2. CASE Deploy!BeginSetup(j, t, TRUE)
  BY <1>2, BeginKeeps DEF Deploy!BeginSetup, Deploy!Busy
<1>3. CASE Deploy!BeginSetup(j, t, FALSE)
  BY <1>3, LoadedIsAList, ListKeeps DEF Deploy!BeginSetup, Deploy!IInv
<1> QED BY <1>1, <1>2, <1>3

\* Unless it has drifted, the list a job writes at its end is the one that is
\* there, but for the mark of the job.
LEMMA FinishKeeps ==
    ASSUME Deploy!IInv, NEW j \in Jobs, Deploy!Under(j), NEW result \in Deploy!Results,
           Deploy!Finish(j, result)
    PROVE  Deploy!IInv'
<1> DEFINE t == jobs[j].target
           list == jobs[j].list
<1>1. t \in Targets /\ list \in Deploy!Lists
  BY DEF Deploy!IInv, Deploy!TypeOK, Deploy!Under, Deploy!Idle
<1>2. /\ targets' = [list EXCEPT ![t] = result]
      /\ jobs' = [jobs EXCEPT ![j] = Deploy!Idle]
      /\ drifted' = (drifted \/ targets # list)
  BY DEF Deploy!Finish
<1>3. targets' \in Deploy!Lists
  BY <1>1, <1>2, OneStatusSet DEF Deploy!Statuses
<1>4. Deploy!TypeOK'
  BY <1>2, <1>3 DEF Deploy!IInv, Deploy!TypeOK
<1>5. ASSUME ~drifted', NEW s \in DOMAIN targets', targets'[s] \in Deploy!Busy
      PROVE  \E k \in Jobs : jobs'[k].kind # "idle" /\ jobs'[k].target = s
  <2>1. ~drifted /\ targets = list
    BY <1>2, <1>5
  <2>2. s # t /\ s \in DOMAIN targets /\ targets'[s] = targets[s]
    BY <1>2, <1>5, <2>1 DEF Deploy!Busy, Deploy!Results
  <2>3. PICK k \in Jobs : Deploy!Under(k) /\ jobs[k].target = s
    BY <1>5, <2>1, <2>2 DEF Deploy!IInv, Deploy!BusyMeansRunning
  <2>4. jobs'[k] = jobs[k]
    BY <1>2, <2>2, <2>3 DEF Deploy!IInv, Deploy!TypeOK
  <2> QED BY <2>3, <2>4 DEF Deploy!Under
<1> QED BY <1>4, <1>5 DEF Deploy!IInv, Deploy!BusyMeansRunning, Deploy!Under

LEMMA DeployCrashKeeps ==
    ASSUME Deploy!IInv, NEW torn \in BOOLEAN, Deploy!Crash(torn)
    PROVE  Deploy!IInv'
<1>1. Deploy!None \in Deploy!Lists
  BY ListsAreFunctions DEF Deploy!None
<1>2. Deploy!TypeOK'
  BY <1>1 DEF Deploy!Crash, Deploy!IInv, Deploy!TypeOK
<1>3. Deploy!BusyMeansRunning'
  BY DEF Deploy!Crash, Deploy!IInv, Deploy!BusyMeansRunning, Deploy!None
<1> QED BY <1>2, <1>3 DEF Deploy!IInv

LEMMA DeployNextKeeps ==
    ASSUME Detected \subseteq Targets, Deploy!IInv, [Deploy!Next]_(Deploy!vars)
    PROVE  Deploy!IInv'
<1>1. ASSUME NEW j \in Jobs, Deploy!FinishCheck(j) \/ Deploy!FinishSetup(j)
      PROVE  Deploy!IInv'
  <2>1. Deploy!Under(j)
    BY <1>1 DEF Deploy!FinishCheck, Deploy!FinishSetup, Deploy!Under
  <2> QED BY <1>1, <2>1, FinishKeeps DEF Deploy!FinishCheck, Deploy!FinishSetup, Deploy!Results
<1>2. ASSUME Deploy!ListTargets
      PROVE  Deploy!IInv'
  BY <1>2, LoadedIsAList, ListKeeps DEF Deploy!ListTargets, Deploy!IInv
<1>3. ASSUME UNCHANGED Deploy!vars
      PROVE  Deploy!IInv'
  BY <1>3 DEF Deploy!vars, Deploy!IInv, Deploy!TypeOK, Deploy!BusyMeansRunning, Deploy!Under
<1> QED BY <1>1, <1>2, <1>3, CallsKeep, BeginsKeep, DeployCrashKeeps DEF Deploy!Next

\* A target that is shown as busy has a job under way, unless a job wrote an
\* old list or was killed (routes.py, deploy_target_check and _setup).
THEOREM BusyTargetsHaveJobs == FilesSpec => []BusyMeansRunning
<1>1. ASSUME Deploy!Init
      PROVE  Deploy!IInv
  <2>1. Deploy!None \in Deploy!Lists
    BY ListsAreFunctions DEF Deploy!None
  <2> QED BY <1>1, <2>1 DEF Deploy!Init, Deploy!IInv, Deploy!TypeOK, Deploy!BusyMeansRunning,
                            Deploy!None
<1>2. Deploy!IInv /\ [Deploy!Next]_(Deploy!vars) => Deploy!IInv'
  BY FilesAssumption, DeployNextKeeps DEF Deploy!ConstantsOK
<1>3. Deploy!IInv => BusyMeansRunning
  BY DEF Deploy!IInv, BusyMeansRunning
<1> QED BY <1>1, <1>2, <1>3, PartsAreImplemented, PTL DEF Deploy!Spec

-----------------------------------------------------------------------------
(* The build profile.                                                      *)

\* A copy or the file is there in one piece, and fits.
Sound(p) == p \in Profile!OptProfiles /\ Profile!Fits(p)

\* The same profile, but for the list of failures.
Same(q, p) == q # Profile!NoProfile /\ q.human = p.human /\ q.from = p.from /\ q.fp = p.fp

\* What a step leaves of profile p in the file, which was now before.
InFile(p, now) == disk' = now \/ disk' = Profile!NoProfile \/ Same(disk', p)

Stored == Sound(disk) /\ Sound(cache)

LEMMA ProfilesAreNotNone ==
    ASSUME NEW p \in Profile!Profiles
    PROVE  p # Profile!NoProfile
<1>1. p.from \in Profile!Manifests
  BY DEF Profile!Profiles
<1>2. p.from # -1
  BY <1>1 DEF Profile!Manifests
<1> QED BY <1>2 DEF Profile!NoProfile

LEMMA AttemptsStay ==
    ASSUME Profile!ConstantsOK, NEW p \in Profile!Profiles, Profile!Fits(p),
           NEW n \in 0 .. FixCap
    PROVE  Sound([p EXCEPT !.attempts = n]) /\ Same([p EXCEPT !.attempts = n], p)
<1> DEFINE q == [p EXCEPT !.attempts = n]
<1>1. q \in Profile!Profiles /\ q.human = p.human /\ q.from = p.from /\ q.fp = p.fp
  BY DEF Profile!Profiles
<1>2. q # Profile!NoProfile /\ p # Profile!NoProfile
  BY <1>1, ProfilesAreNotNone
<1> QED BY <1>1, <1>2 DEF Sound, Same, Profile!Fits, Profile!OptProfiles

LEMMA AttemptsAreCapped ==
    ASSUME Profile!ConstantsOK, NEW n \in 0 .. FixCap
    PROVE  /\ Profile!AtMost(n + 1, PriorCap) \in 0 .. FixCap
           /\ Profile!AtMost(n + 1, FixCap) \in 0 .. FixCap
<1> QED BY DEF Profile!AtMost, Profile!ConstantsOK

LEMMA SavingKeeps ==
    ASSUME Profile!ConstantsOK, NEW p \in Profile!Profiles, Profile!Fits(p),
           NEW now, Sound(now), NEW n \in 0 .. FixCap,
           Profile!SaveChanged([p EXCEPT !.attempts = n], now)
    PROVE  Stored' /\ Same(cache', p) /\ InFile(p, now)
<1> DEFINE q == [p EXCEPT !.attempts = n]
<1>1. Sound(q) /\ Same(q, p)
  BY AttemptsStay
<1>2. Sound(Profile!NoProfile)
  BY DEF Sound, Profile!Fits, Profile!OptProfiles
<1>3. cache' = q /\ disk' \in {q, now, Profile!NoProfile}
  BY DEF Profile!SaveChanged
<1> HIDE DEF q
<1> QED BY <1>1, <1>2, <1>3 DEF Stored, Sound, InFile

LEMMA MarkingKeeps ==
    ASSUME Profile!ConstantsOK, NEW p \in Profile!Profiles, Profile!Fits(p),
           NEW now, Sound(now), Profile!MarkFailure(p, now)
    PROVE  Stored' /\ Same(cache', p) /\ InFile(p, now)
<1>1. p.attempts \in 0 .. FixCap
  BY DEF Profile!Profiles
<1>2. PICK n \in {p.attempts, Profile!AtMost(p.attempts + 1, PriorCap)} :
          Profile!SaveChanged([p EXCEPT !.attempts = n], now)
  BY DEF Profile!MarkFailure
<1>3. n \in 0 .. FixCap
  BY <1>1, <1>2, AttemptsAreCapped
<1> QED BY <1>2, <1>3, SavingKeeps

LEMMA LoadIsSound ==
    ASSUME Stored
    PROVE  /\ Sound(Profile!Load(cache))
           /\ cache # Profile!NoProfile => Profile!Load(cache) = cache
<1> QED BY DEF Stored, Profile!Load

LEMMA RunningKeeps ==
    ASSUME Profile!ConstantsOK, Stored, NEW builds, NEW copy, Sound(copy),
           Profile!RunCommand(builds, copy)
    PROVE  /\ Stored'
           /\ copy # Profile!NoProfile => Same(cache', copy) /\ InFile(copy, disk)
<1>1. Sound(Profile!Load(copy)) /\ (copy # Profile!NoProfile => Profile!Load(copy) = copy)
  BY DEF Stored, Profile!Load
<1>2. CASE Profile!Load(copy) # Profile!NoProfile /\ Profile!MarkFailure(Profile!Load(copy), disk)
  <2>1. Profile!Load(copy) \in Profile!Profiles /\ Profile!Fits(Profile!Load(copy))
    BY <1>1, <1>2 DEF Sound, Profile!OptProfiles
  <2> QED BY <1>1, <1>2, <2>1, MarkingKeeps DEF Stored
<1>3. CASE cache' = copy /\ UNCHANGED disk
  BY <1>3 DEF Stored, Same, InFile
<1> QED BY <1>2, <1>3 DEF Profile!RunCommand

LEMMA RecordingKeeps ==
    ASSUME Profile!ConstantsOK, Stored, NEW now, Sound(now), Profile!RecordAttempt(now)
    PROVE  /\ Stored'
           /\ cache # Profile!NoProfile => Same(cache', cache)
           /\ \/ cache' = Profile!NoProfile
              \/ Same(cache', IF cache = Profile!NoProfile THEN now ELSE cache)
           /\ \/ disk' = Profile!NoProfile \/ disk' = now
              \/ Same(disk', IF cache = Profile!NoProfile THEN now ELSE cache)
<1> DEFINE p == IF cache = Profile!NoProfile THEN now ELSE cache
<1>1. Sound(p) /\ (cache # Profile!NoProfile => p = cache)
  BY DEF Stored
<1>2. CASE p = Profile!NoProfile
  <2>1. disk' = now /\ cache' = cache
    BY <1>2 DEF Profile!RecordAttempt
  <2> QED BY <1>1, <1>2, <2>1 DEF Stored
<1>3. CASE p # Profile!NoProfile
  <2>1. p \in Profile!Profiles /\ Profile!Fits(p) /\ p.attempts \in 0 .. FixCap
    BY <1>1, <1>3 DEF Sound, Profile!OptProfiles, Profile!Profiles
  <2>2. Profile!SaveChanged([p EXCEPT !.attempts = Profile!AtMost(p.attempts + 1, FixCap)], now)
    BY <1>3 DEF Profile!RecordAttempt
  <2>3. Profile!AtMost(p.attempts + 1, FixCap) \in 0 .. FixCap
    BY <2>1, AttemptsAreCapped
  <2> HIDE DEF p
  <2>4. Stored' /\ Same(cache', p) /\ InFile(p, now)
    BY <2>1, <2>2, <2>3, SavingKeeps
  <2>5. cache # Profile!NoProfile => Same(cache', cache)
    BY <1>1, <2>4
  <2>6. disk' = Profile!NoProfile \/ disk' = now \/ Same(disk', p)
    BY <2>4 DEF InFile
  <2> QED BY <2>4, <2>5, <2>6 DEF p
<1> QED BY <1>2, <1>3

\* What a step has to show.
LEMMA ProfileKeeps ==
    ASSUME Profile!IInv, Stored', manifest' \in Profile!Manifests,
           guardCopy' \in {"none", "verified", "unverified"},
           call' \in [Calls -> Profile!CallStates],
           \/ used' = Profile!NotUsed
           \/ /\ used' \in [from : Profile!Manifests, human : BOOLEAN, since : Profile!Manifests]
              /\ used'.human \/ used'.from = 0 \/ used'.from = used'.since,
           vouched' \in Profile!OptProfiles
    PROVE  Profile!IInv'
<1>1. Profile!TypeOK'
  BY DEF Profile!TypeOK, Stored, Sound
<1>2. Profile!BuiltFromCurrent'
  BY DEF Profile!BuiltFromCurrent
<1> QED BY <1>1, <1>2 DEF Profile!IInv, Stored, Sound

LEMMA IdleEnds ==
    ASSUME Profile!IInv, NEW c \in Calls, call' = [call EXCEPT ![c] = Profile!Idle]
    PROVE  call' \in [Calls -> Profile!CallStates]
<1>1. Profile!Idle \in Profile!CallStates /\ Profile!Idle.state # "generating"
  BY DEF Profile!CallStates, Profile!Idle
<1> QED BY <1>1 DEF Profile!IInv, Profile!TypeOK

LEMMA StoredIsSound ==
    ASSUME Profile!IInv
    PROVE  Stored /\ manifest \in Profile!Manifests /\ call \in [Calls -> Profile!CallStates]
           /\ guardCopy \in {"none", "verified", "unverified"}
<1> QED BY DEF Profile!IInv, Profile!TypeOK, Stored, Sound

\* A profile that fits and is not stale has been made from this manifest.
LEMMA UsingKeeps ==
    ASSUME Profile!ConstantsOK, Profile!IInv, vouched' \in Profile!OptProfiles, NEW c \in Calls, NEW builds,
           Profile!UseProfile(c, builds) \/ Profile!NoManifests(c, builds)
    PROVE  Profile!IInv'
<1> DEFINE p == Profile!Load(cache)
<1>1. Stored /\ manifest \in Profile!Manifests /\ call \in [Calls -> Profile!CallStates]
  BY StoredIsSound
<1>2. Sound(p) /\ (cache # Profile!NoProfile => p = cache)
  BY <1>1, LoadIsSound
<1>3. Profile!RunCommand(builds, p) /\ UNCHANGED <<manifest, guardCopy, call>>
  BY DEF Profile!UseProfile, Profile!NoManifests
<1>4. Stored' /\ (p # Profile!NoProfile => Same(cache', p))
  BY <1>1, <1>2, <1>3, RunningKeeps
<1>5. CASE Profile!UseProfile(c, builds)
  <2>1. p # Profile!NoProfile /\ ~Profile!Stale(p) /\ Profile!Uses(p, manifest)
    BY <1>5 DEF Profile!UseProfile, Profile!Usable
  <2>2. p \in Profile!Profiles /\ Profile!Fits(p)
    BY <1>2, <2>1 DEF Sound, Profile!OptProfiles
  <2>3. p.from \in Profile!Manifests /\ p.human \in BOOLEAN
    BY <2>2 DEF Profile!Profiles
  <2>4. p.human \/ p.from = 0 \/ p.from = manifest
    BY <2>1, <2>2 DEF Profile!Fits, Profile!Stale
  <2>5. used' = [from |-> p.from, human |-> p.human, since |-> manifest]
    BY <2>1 DEF Profile!Uses
  <2>6. /\ used' \in [from : Profile!Manifests, human : BOOLEAN, since : Profile!Manifests]
        /\ used'.human \/ used'.from = 0 \/ used'.from = used'.since
    BY <1>1, <2>3, <2>4, <2>5
  <2> HIDE DEF p
  <2> QED BY <1>1, <1>2, <1>3, <1>4, <2>6, StoredIsSound, ProfileKeeps
<1>6. CASE Profile!NoManifests(c, builds)
  <2>1. used' = Profile!NotUsed
    BY <1>6 DEF Profile!NoManifests
  <2> HIDE DEF p
  <2> QED BY <1>1, <1>2, <1>3, <1>4, <2>1, StoredIsSound, ProfileKeeps
<1> QED BY <1>5, <1>6

\* A verified profile is usable, so that none is generated in its place.
LEMMA GenerateKeeps ==
    ASSUME Profile!ConstantsOK, Profile!IInv, vouched' \in Profile!OptProfiles, NEW c \in Calls, NEW builds \in BOOLEAN,
           Profile!Generate(c, builds)
    PROVE  Profile!IInv'
<1> DEFINE p == Profile!Load(cache)
           carried == IF p = Profile!NoProfile THEN 0 ELSE p.attempts
           g == [state |-> "generating", builds |-> builds, since |-> manifest,
                 carried |-> carried]
<1>1. Stored /\ manifest \in Profile!Manifests /\ call \in [Calls -> Profile!CallStates]
  BY StoredIsSound
<1>2. Sound(p) /\ (cache # Profile!NoProfile => p = cache)
  BY <1>1, LoadIsSound
<1>3. /\ ~Profile!Usable(p) /\ cache' = p /\ call' = [call EXCEPT ![c] = g]
      /\ used' = Profile!NotUsed /\ UNCHANGED <<manifest, disk, guardCopy>>
  BY DEF Profile!Generate
<1>4. carried \in 0 .. FixCap
  <2>1. CASE p = Profile!NoProfile
    BY <2>1 DEF Profile!ConstantsOK
  <2>2. CASE p # Profile!NoProfile
    <3>1. p \in Profile!Profiles
      BY <1>2, <2>2 DEF Sound, Profile!OptProfiles
    <3> QED BY <2>2, <3>1 DEF Profile!Profiles
  <2> QED BY <2>1, <2>2
<1>5. g \in Profile!CallStates
  BY <1>1, <1>4 DEF Profile!CallStates
<1>6. ~(cache # Profile!NoProfile /\ cache.human)
  BY <1>2, <1>3 DEF Profile!Usable, Profile!Stale
<1>7. Stored'
  BY <1>1, <1>2, <1>3 DEF Stored, Sound
<1> HIDE DEF g
<1>8. call' \in [Calls -> Profile!CallStates]
  BY <1>1, <1>3, <1>5
<1> QED BY <1>1, <1>3, <1>6, <1>7, <1>8, StoredIsSound, ProfileKeeps

LEMMA GeneratedKeeps ==
    ASSUME Profile!ConstantsOK, Profile!IInv, vouched' \in Profile!OptProfiles, NEW c \in Calls, Profile!Generated(c)
    PROVE  Profile!IInv'
<1> DEFINE g == call[c]
           p == Profile!NewProfile(g)
<1>1. Stored /\ manifest \in Profile!Manifests /\ call \in [Calls -> Profile!CallStates]
  BY StoredIsSound
<1>2. /\ g.state = "generating"
      /\ \/ cache' = p /\ disk' = p
         \/ Profile!MarkFailure(p, p)
      /\ used' = [from |-> p.from, human |-> p.human, since |-> g.since]
      /\ call' = [call EXCEPT ![c] = Profile!Idle]
      /\ UNCHANGED <<manifest, guardCopy>>
  BY DEF Profile!Generated, Profile!Uses
<1>3. g.since \in Profile!Manifests /\ g.carried \in 0 .. FixCap
  BY <1>1, <1>2 DEF Profile!CallStates, Profile!Idle
<1>4. /\ p \in Profile!Profiles /\ Profile!Fits(p)
      /\ p.from = g.since /\ p.human = FALSE
  BY <1>3 DEF Profile!NewProfile, Profile!Profiles, Profile!Fits
<1>5. Sound(p)
  BY <1>4 DEF Sound, Profile!OptProfiles
<1>6. /\ used' \in [from : Profile!Manifests, human : BOOLEAN, since : Profile!Manifests]
      /\ used'.from = used'.since
  BY <1>2, <1>3, <1>4
<1> HIDE DEF p
<1>7. Stored'
  <2>1. CASE cache' = p /\ disk' = p
    BY <1>5, <2>1 DEF Stored, Sound
  <2>2. CASE Profile!MarkFailure(p, p)
    BY <1>4, <1>5, <2>2, MarkingKeeps
  <2> QED BY <1>2, <2>1, <2>2
<1>8. /\ call' \in [Calls -> Profile!CallStates]
      /\ \A d \in Calls : call'[d].state = "generating" => call[d].state = "generating"
  BY <1>2, IdleEnds
<1> QED BY <1>1, <1>2, <1>6, <1>7, <1>8, StoredIsSound, ProfileKeeps

LEMMA NotGeneratedKeeps ==
    ASSUME Profile!ConstantsOK, Profile!IInv, vouched' \in Profile!OptProfiles, NEW c \in Calls,
           Profile!NotGenerated(c) \/ Profile!NotSaved(c)
    PROVE  Profile!IInv'
<1>1. Stored /\ manifest \in Profile!Manifests /\ call \in [Calls -> Profile!CallStates]
  BY StoredIsSound
<1>2. /\ call[c].state = "generating" /\ used' = Profile!NotUsed
      /\ call' = [call EXCEPT ![c] = Profile!Idle] /\ UNCHANGED <<manifest, guardCopy>>
  BY DEF Profile!NotGenerated, Profile!NotSaved
<1>3. /\ call' \in [Calls -> Profile!CallStates]
      /\ \A d \in Calls : call'[d].state = "generating" => call[d].state = "generating"
  BY <1>2, IdleEnds
<1>4. Stored'
  <2>1. CASE Profile!NotGenerated(c)
    <3>1. Profile!RunCommand(call[c].builds, cache) /\ Sound(cache)
      BY <1>1, <2>1 DEF Profile!NotGenerated, Stored
    <3> QED BY <1>1, <3>1, RunningKeeps
  <2>2. CASE Profile!NotSaved(c)
    <3>1. PICK now \in {disk, Profile!NoProfile} :
              LET p == IF cache = Profile!NoProfile THEN now ELSE cache
              IN  \/ disk' = now /\ UNCHANGED cache
                  \/ p # Profile!NoProfile /\ Profile!MarkFailure(p, now)
      BY <2>2 DEF Profile!NotSaved
    <3> DEFINE p == IF cache = Profile!NoProfile THEN now ELSE cache
    <3>2. Sound(now) /\ Sound(p)
      BY <1>1 DEF Stored, Sound, Profile!Fits, Profile!OptProfiles
    <3>3. CASE disk' = now /\ UNCHANGED cache
      BY <1>1, <3>2, <3>3 DEF Stored, Sound
    <3>4. CASE p # Profile!NoProfile /\ Profile!MarkFailure(p, now)
      <4>1. p \in Profile!Profiles /\ Profile!Fits(p)
        BY <3>2, <3>4 DEF Sound, Profile!OptProfiles
      <4> HIDE DEF p
      <4> QED BY <3>2, <3>4, <4>1, MarkingKeeps
    <3> QED BY <3>1, <3>3, <3>4
  <2> QED BY <2>1, <2>2
<1> QED BY <1>1, <1>2, <1>3, <1>4, StoredIsSound, ProfileKeeps

LEMMA FixingKeeps ==
    ASSUME Profile!ConstantsOK, Profile!IInv, vouched' \in Profile!OptProfiles, NEW c \in Calls,
           Profile!StartFix(c) \/ Profile!CallFails(c) \/ Profile!FixProject(c)
    PROVE  Profile!IInv'
<1>1. Stored /\ manifest \in Profile!Manifests /\ call \in [Calls -> Profile!CallStates]
  BY StoredIsSound
<1>2. CASE Profile!StartFix(c)
  <2>1. /\ cache' = Profile!Load(cache) /\ call' = [call EXCEPT ![c] = [state |-> "fixing"]]
        /\ used' = Profile!NotUsed /\ UNCHANGED <<manifest, disk, guardCopy>>
    BY <1>2 DEF Profile!StartFix
  <2>2. [state |-> "fixing"] \in Profile!CallStates
    BY DEF Profile!CallStates
  <2>3. /\ call' \in [Calls -> Profile!CallStates]
        /\ \A d \in Calls : call'[d].state = "generating" => call[d].state = "generating"
    BY <1>1, <2>1, <2>2
  <2>4. Stored' /\ (cache # Profile!NoProfile => Same(cache', cache))
    BY <1>1, <2>1, LoadIsSound DEF Stored, Sound, Same
  <2> QED BY <1>1, <2>1, <2>3, <2>4, StoredIsSound, ProfileKeeps
<1>3. CASE Profile!CallFails(c)
  <2>1. /\ call' = [call EXCEPT ![c] = Profile!Idle]
        /\ used' = Profile!NotUsed /\ UNCHANGED <<manifest, disk, cache, guardCopy>>
    BY <1>3 DEF Profile!CallFails
  <2>2. Stored' /\ (cache # Profile!NoProfile => Same(cache', cache))
    BY <1>1, <2>1 DEF Stored, Sound, Same
  <2> QED BY <1>1, <2>1, <2>2, IdleEnds, StoredIsSound, ProfileKeeps
<1>4. CASE Profile!FixProject(c)
  <2>1. /\ call' = [call EXCEPT ![c] = Profile!Idle] /\ manifest' \in Profile!Manifests
        /\ used' = Profile!NotUsed /\ UNCHANGED guardCopy /\ Profile!RecordAttempt(disk)
    BY <1>4 DEF Profile!FixProject
  <2>2. Stored' /\ (cache # Profile!NoProfile => Same(cache', cache))
    BY <1>1, <2>1, RecordingKeeps DEF Stored
  <2> QED BY <1>1, <2>1, <2>2, IdleEnds, StoredIsSound, ProfileKeeps
<1> QED BY <1>2, <1>3, <1>4

LEMMA WrittenIsSound ==
    ASSUME Profile!ConstantsOK, NEW p \in Profile!Written
    PROVE  Sound(p)
<1>1. 0 \in Profile!Manifests /\ 0 \in 0 .. FixCap
  BY DEF Profile!ConstantsOK, Profile!Manifests
<1>2. p \in Profile!Profiles /\ p.from = 0
  BY <1>1 DEF Profile!Written, Profile!Profiles
<1> QED BY <1>2 DEF Sound, Profile!Fits, Profile!OptProfiles

LEMMA GuardLoadsACopy ==
    ASSUME Profile!IInv
    PROVE  Profile!GuardLoads \in {"none", "verified", "unverified"}
<1> QED BY StoredIsSound DEF Profile!GuardLoads

LEMMA FixProfileKeeps ==
    ASSUME Profile!ConstantsOK, Profile!IInv, vouched' \in Profile!OptProfiles, NEW c \in Calls, Profile!FixProfile(c)
    PROVE  Profile!IInv'
<1>1. Stored /\ manifest \in Profile!Manifests /\ call \in [Calls -> Profile!CallStates]
  BY StoredIsSound
<1>2. /\ call' = [call EXCEPT ![c] = Profile!Idle] /\ guardCopy' = Profile!GuardLoads
      /\ used' = Profile!NotUsed /\ UNCHANGED manifest
      /\ \/ UNCHANGED <<disk, cache>>
         \/ \E p \in Profile!Written : Profile!RecordAttempt(p)
  BY DEF Profile!FixProfile
<1>3. Stored' /\ (cache # Profile!NoProfile => Same(cache', cache))
  <2>1. CASE UNCHANGED <<disk, cache>>
    BY <1>1, <2>1 DEF Stored, Sound, Same
  <2>2. CASE \E p \in Profile!Written : Profile!RecordAttempt(p)
    BY <1>1, <2>2, WrittenIsSound, RecordingKeeps
  <2> QED BY <1>2, <2>1, <2>2
<1> QED BY <1>1, <1>2, <1>3, IdleEnds, GuardLoadsACopy, ProfileKeeps

\* A mark of the user leaves a profile as it was made.
LEMMA MarkingByHand ==
    ASSUME NEW p, Sound(p), p # Profile!NoProfile
    PROVE  Sound([p EXCEPT !.human = ~@])
<1> DEFINE q == [p EXCEPT !.human = ~@]
<1>1. p \in Profile!Profiles
  BY DEF Sound, Profile!OptProfiles
<1>2. q \in Profile!Profiles /\ q.from = p.from /\ q.fp = p.fp
  BY <1>1 DEF Profile!Profiles
<1> QED BY <1>2 DEF Sound, Profile!Fits, Profile!OptProfiles

LEMMA WritersKeep ==
    ASSUME Profile!ConstantsOK, Profile!IInv, vouched' \in Profile!OptProfiles,
           \/ Profile!WriteProfile \/ Profile!AppendToProfile \/ Profile!Shell
           \/ Profile!EditManifest \/ Profile!EditProfile \/ Profile!Restart
    PROVE  Profile!IInv'
<1>1. Stored /\ manifest \in Profile!Manifests /\ call \in [Calls -> Profile!CallStates]
  BY StoredIsSound
<1>2. Sound(Profile!NoProfile)
  BY DEF Sound, Profile!Fits, Profile!OptProfiles
<1>3. CASE Profile!Restart
  <2>1. /\ cache' = Profile!NoProfile /\ guardCopy' = "none"
        /\ call' = [c \in Calls |-> Profile!Idle]
        /\ used' = Profile!NotUsed /\ UNCHANGED <<manifest, disk>>
    BY <1>3 DEF Profile!Restart
  <2>2. Profile!Idle \in Profile!CallStates /\ Profile!Idle.state # "generating"
    BY DEF Profile!CallStates, Profile!Idle
  <2>3. Stored'
    BY <1>1, <1>2, <2>1 DEF Stored, Sound
  <2> QED BY <1>1, <2>1, <2>2, <2>3, ProfileKeeps
<1>4. CASE \/ Profile!WriteProfile \/ Profile!AppendToProfile \/ Profile!Shell
           \/ Profile!EditManifest \/ Profile!EditProfile
  <2>1. /\ UNCHANGED <<cache, call>> /\ used' = Profile!NotUsed
        /\ guardCopy' \in {guardCopy, Profile!GuardLoads} /\ manifest' \in Profile!Manifests
    BY <1>1, <1>4 DEF Profile!WriteProfile, Profile!AppendToProfile, Profile!Shell,
                      Profile!EditManifest, Profile!EditProfile
  <2>2. \/ disk' \in {disk, Profile!NoProfile} \cup Profile!Written
        \/ disk # Profile!NoProfile /\ disk' = [disk EXCEPT !.human = ~@]
    BY <1>4 DEF Profile!WriteProfile, Profile!AppendToProfile, Profile!Shell,
                Profile!EditManifest, Profile!EditProfile
  <2>3. Sound(disk')
    BY <1>1, <1>2, <2>2, WrittenIsSound, MarkingByHand DEF Stored
  <2>4. Stored' /\ (cache # Profile!NoProfile => Same(cache', cache))
    BY <1>1, <2>1, <2>3 DEF Stored, Sound, Same
  <2> QED BY <1>1, <2>1, <2>4, StoredIsSound, GuardLoadsACopy, ProfileKeeps
<1> QED BY <1>3, <1>4

LEMMA VouchedIsTyped ==
    ASSUME Profile!IInv, Profile!Next
    PROVE  vouched' \in Profile!OptProfiles
<1>1. Profile!NoProfile \in Profile!OptProfiles
  BY DEF Profile!OptProfiles
<1>2. disk \in Profile!OptProfiles /\ vouched \in Profile!OptProfiles
  BY DEF Profile!IInv, Profile!TypeOK
<1> QED BY <1>1, <1>2 DEF Profile!Next, Profile!EditProfile, Profile!Restart, Profile!Vouched

LEMMA ProfileNextKeeps ==
    ASSUME Profile!ConstantsOK, Profile!IInv, Profile!Next
    PROVE  Profile!IInv'
<1>0. vouched' \in Profile!OptProfiles
  BY VouchedIsTyped
<1>1. ASSUME NEW c \in Calls, NEW builds \in BOOLEAN,
             \/ Profile!UseProfile(c, builds) \/ Profile!NoManifests(c, builds)
             \/ Profile!Generate(c, builds)
      PROVE  Profile!IInv'
  BY <1>0, <1>1, UsingKeeps, GenerateKeeps
<1>2. ASSUME NEW c \in Calls,
             \/ Profile!Generated(c) \/ Profile!NotGenerated(c) \/ Profile!NotSaved(c)
             \/ Profile!StartFix(c) \/ Profile!CallFails(c) \/ Profile!FixProject(c)
             \/ Profile!FixProfile(c)
      PROVE  Profile!IInv'
  BY <1>0, <1>2, GeneratedKeeps, NotGeneratedKeeps, FixingKeeps, FixProfileKeeps
<1> QED BY <1>0, <1>1, <1>2, WritersKeep DEF Profile!Next, Profile!ToolStep

LEMMA ProfileInit ==
    ASSUME Profile!ConstantsOK, Profile!Init
    PROVE  Profile!IInv
<1>1. 0 \in Profile!Manifests /\ 0 \in 0 .. FixCap
  BY DEF Profile!ConstantsOK, Profile!Manifests
<1>2. disk \in {Profile!NoProfile} \cup Profile!Written
  BY DEF Profile!Init, Profile!Written
<1>3. Sound(disk) /\ Sound(Profile!NoProfile)
  BY <1>2, WrittenIsSound DEF Sound, Profile!Fits, Profile!OptProfiles
<1>4. vouched \in Profile!OptProfiles
  BY <1>3 DEF Profile!Init, Profile!Vouched, Sound
<1> QED BY <1>1, <1>3, <1>4 DEF Profile!Init, Profile!IInv, Profile!TypeOK, Profile!BuiltFromCurrent,
                          Profile!CallStates, Sound

LEMMA ProfileInvariance == FilesSpec => []Profile!IInv
<1>1. Profile!Init => Profile!IInv
  BY FilesAssumption, ProfileInit
<1>2. Profile!IInv /\ [Profile!Next]_(Profile!vars) => Profile!IInv'
  <2>1. Profile!IInv /\ UNCHANGED Profile!vars => Profile!IInv'
    BY DEF Profile!vars, Profile!IInv, Profile!TypeOK, Profile!Fits, Profile!BuiltFromCurrent
  <2> QED BY <2>1, FilesAssumption, ProfileNextKeeps
<1> QED BY <1>1, <1>2, PartsAreImplemented, PTL DEF Profile!Spec

\* A command is run from an unverified profile only if it was generated from the
\* manifests the tool found, whatever other calls do meanwhile.
THEOREM CommandsFitTheirManifest == FilesSpec => []BuiltFromCurrent
<1>1. Profile!IInv => BuiltFromCurrent
  BY DEF Profile!IInv, BuiltFromCurrent
<1> QED BY <1>1, ProfileInvariance, PTL

\* What the file and the copies of a vouched profile are in such a step.
StillVouched(p) ==
    /\ Profile!Alike(disk, p)
    /\ cache = Profile!NoProfile \/ Profile!Alike(cache, p)
    /\ guardCopy # "unverified"
    /\ \A c \in Calls : call[c].state # "generating"

\* A step that leaves the file readable and the profile vouched for leaves the
\* same profile in the file and in every copy.
LEMMA VouchedUseKeeps ==
    ASSUME Profile!ConstantsOK, Profile!IInv, NEW p, p.human, StillVouched(p),
           NEW c \in Calls, NEW builds \in BOOLEAN,
           \/ Profile!UseProfile(c, builds) \/ Profile!NoManifests(c, builds)
           \/ Profile!Generate(c, builds),
           disk' # Profile!NoProfile
    PROVE  StillVouched(p)'
<1> DEFINE q == Profile!Load(cache)
<1>1. Stored
  BY StoredIsSound
<1>2. Profile!Alike(q, p) /\ Sound(q)
  BY <1>1, LoadIsSound DEF StillVouched, Profile!Load
<1>3. Profile!Usable(q)
  BY <1>2 DEF Profile!Alike, Profile!Usable, Profile!Stale
<1>4. Profile!RunCommand(builds, q) /\ UNCHANGED <<guardCopy, call>>
  BY <1>3 DEF Profile!UseProfile, Profile!NoManifests, Profile!Generate
<1>5. q # Profile!NoProfile
  BY <1>2 DEF Profile!Alike
<1> HIDE DEF q
<1>6. Same(cache', q) /\ InFile(q, disk)
  BY <1>1, <1>2, <1>4, <1>5, RunningKeeps
<1>7. Profile!Alike(cache', p) /\ Profile!Alike(disk', p)
  BY <1>2, <1>6 DEF Same, InFile, Profile!Alike, StillVouched
<1> QED BY <1>4, <1>7 DEF StillVouched

LEMMA VouchedFixKeeps ==
    ASSUME Profile!ConstantsOK, Profile!IInv, NEW p, StillVouched(p), NEW c \in Calls,
           Profile!StartFix(c) \/ Profile!CallFails(c) \/ Profile!FixProject(c),
           disk' # Profile!NoProfile
    PROVE  StillVouched(p)'
<1>1. Stored /\ call \in [Calls -> Profile!CallStates]
  BY StoredIsSound
<1>2. /\ call' \in {[call EXCEPT ![c] = [state |-> "fixing"]], [call EXCEPT ![c] = Profile!Idle]}
      /\ UNCHANGED guardCopy
  BY DEF Profile!StartFix, Profile!CallFails, Profile!FixProject
<1>3. \A d \in Calls : call'[d].state # "generating"
  BY <1>1, <1>2 DEF StillVouched, Profile!Idle
<1>4. CASE Profile!StartFix(c) \/ Profile!CallFails(c)
  <2>1. disk' = disk /\ cache' \in {cache, Profile!Load(cache)}
    BY <1>4 DEF Profile!StartFix, Profile!CallFails
  <2> QED BY <1>2, <1>3, <2>1 DEF StillVouched, Profile!Load
<1>5. CASE Profile!FixProject(c)
  <2>1. Profile!RecordAttempt(disk)
    BY <1>5 DEF Profile!FixProject
  <2> DEFINE q == IF cache = Profile!NoProfile THEN disk ELSE cache
  <2>2. /\ cache' = Profile!NoProfile \/ Same(cache', q)
        /\ disk' = disk \/ Same(disk', q)
    BY <1>1, <2>1, RecordingKeeps DEF Stored
  <2>3. Profile!Alike(q, p)
    BY DEF StillVouched
  <2> HIDE DEF q
  <2> QED BY <1>2, <1>3, <2>2, <2>3 DEF StillVouched, Same, Profile!Alike
<1> QED BY <1>4, <1>5

\* The guard's copy is of the profile vouched for, so nothing passes it.
LEMMA GuardObjects ==
    ASSUME NEW p, p.human, StillVouched(p), Profile!IInv
    PROVE  Profile!GuardLoads = "verified"
<1>1. disk # Profile!NoProfile /\ disk.human /\ guardCopy \in {"none", "verified"}
  BY DEF StillVouched, Profile!Alike, Profile!IInv, Profile!TypeOK
<1> QED BY <1>1 DEF Profile!GuardLoads

LEMMA VouchedWriteKeeps ==
    ASSUME Profile!IInv, NEW p, p.human, StillVouched(p),
           \/ \E c \in Calls : Profile!FixProfile(c)
           \/ Profile!WriteProfile \/ Profile!AppendToProfile \/ Profile!Shell
           \/ Profile!EditManifest,
           disk' # Profile!NoProfile
    PROVE  StillVouched(p)'
<1>1. Profile!GuardLoads = "verified"
  BY GuardObjects
<1>2. UNCHANGED <<disk, cache>> /\ guardCopy' \in {guardCopy, "verified"}
  BY <1>1 DEF Profile!FixProfile, Profile!WriteProfile, Profile!AppendToProfile,
              Profile!Shell, Profile!EditManifest
<1>3. call' = call \/ \E c \in Calls : call' = [call EXCEPT ![c] = Profile!Idle]
  BY DEF Profile!FixProfile, Profile!WriteProfile, Profile!AppendToProfile,
         Profile!Shell, Profile!EditManifest
<1>4. \A d \in Calls : call'[d].state # "generating"
  BY <1>3, StoredIsSound DEF StillVouched, Profile!Idle
<1> QED BY <1>2, <1>4 DEF StillVouched

LEMMA VouchedIsStill ==
    ASSUME NEW p, p = vouched, p # Profile!NoProfile
    PROVE  Profile!VouchedInv <=> p.human /\ StillVouched(p)
BY DEF Profile!VouchedInv, Profile!VerifiedStays, Profile!Guarded, StillVouched

LEMMA VouchedWillBe ==
    ASSUME NEW p, p = vouched', p.human, StillVouched(p)'
    PROVE  Profile!VouchedInv'
BY DEF Profile!VouchedInv, Profile!VerifiedStays, Profile!Guarded, StillVouched

LEMMA VouchedKeeps ==
    ASSUME Profile!ConstantsOK, Profile!IInv, Profile!VouchedInv, Profile!Next
    PROVE  Profile!VouchedInv'
<1>1. CASE vouched' = Profile!NoProfile
  BY <1>1 DEF Profile!VouchedInv, Profile!VerifiedStays, Profile!Guarded
<1>2. CASE vouched' # Profile!NoProfile /\ Profile!Restart
  <2>1. /\ vouched' = disk /\ disk.human /\ disk # Profile!NoProfile /\ disk' = disk
        /\ cache' = Profile!NoProfile /\ guardCopy' = "none"
        /\ call' = [d \in Calls |-> Profile!Idle]
    BY <1>2 DEF Profile!Restart, Profile!Vouched
  <2>2. PICK p : p = vouched'
    OBVIOUS
  <2>3. StillVouched(p)'
    BY <2>1, <2>2 DEF StillVouched, Profile!Alike, Profile!Idle
  <2> QED BY <2>1, <2>2, <2>3, VouchedWillBe
<1>3. CASE Profile!ToolStep /\ vouched' = vouched /\ vouched # Profile!NoProfile
           /\ disk' # Profile!NoProfile
  <2>1. PICK p : p = vouched
    OBVIOUS
  <2>2. p.human /\ StillVouched(p)
    BY <1>3, <2>1, VouchedIsStill
  <2>3. ASSUME NEW c \in Calls, NEW builds \in BOOLEAN,
               \/ Profile!UseProfile(c, builds) \/ Profile!NoManifests(c, builds)
               \/ Profile!Generate(c, builds)
        PROVE  StillVouched(p)'
    BY <1>3, <2>2, <2>3, VouchedUseKeeps
  <2>4. ASSUME NEW c \in Calls,
               Profile!StartFix(c) \/ Profile!CallFails(c) \/ Profile!FixProject(c)
        PROVE  StillVouched(p)'
    BY <1>3, <2>2, <2>4, VouchedFixKeeps
  <2>5. ASSUME \/ \E c \in Calls : Profile!FixProfile(c)
               \/ Profile!WriteProfile \/ Profile!AppendToProfile \/ Profile!Shell
               \/ Profile!EditManifest
        PROVE  StillVouched(p)'
    BY <1>3, <2>2, <2>5, VouchedWriteKeeps
  <2>6. ASSUME NEW c \in Calls,
               Profile!Generated(c) \/ Profile!NotGenerated(c) \/ Profile!NotSaved(c)
        PROVE  FALSE
    BY <2>2, <2>6 DEF StillVouched, Profile!Generated, Profile!NotGenerated, Profile!NotSaved
  <2>7. StillVouched(p)'
    BY <1>3, <2>3, <2>4, <2>5, <2>6 DEF Profile!ToolStep
  <2> QED BY <1>3, <2>1, <2>2, <2>7, VouchedWillBe
<1> QED BY <1>1, <1>2, <1>3 DEF Profile!Next, Profile!EditProfile

\* Nothing the tools do replaces a profile that was verified when the server
\* started, until the user edits it or the file becomes unreadable.
THEOREM VerifiedProfileStays == FilesSpec => []VerifiedStays
<1>1. Profile!Init => Profile!VouchedInv
  BY DEF Profile!Init, Profile!Vouched, Profile!VouchedInv, Profile!VerifiedStays,
         Profile!Guarded, Profile!Alike, Profile!Idle
<1>2. Profile!IInv /\ Profile!VouchedInv /\ [Profile!Next]_(Profile!vars) => Profile!VouchedInv'
  <2>1. Profile!VouchedInv /\ UNCHANGED Profile!vars => Profile!VouchedInv'
    BY DEF Profile!vars, Profile!VouchedInv, Profile!VerifiedStays, Profile!Guarded,
           Profile!Alike
  <2> QED BY <2>1, FilesAssumption, VouchedKeeps
<1>3. Profile!VouchedInv => VerifiedStays
  BY DEF Profile!VouchedInv, VerifiedStays
<1> QED BY <1>1, <1>2, <1>3, ProfileInvariance, PartsAreImplemented, PTL DEF Profile!Spec

-----------------------------------------------------------------------------
(* The settings.                                                           *)

LEMMA UnsetIsNone ==
    /\ Unset \notin Keys /\ Unset \notin Providers /\ Unset # "none"
    /\ \A p \in Providers : Family(p) \in Providers
    /\ \A p \in Providers \ {"kimi-code"} : Family(p) = p
<1> QED BY LlmSettingsAssumption DEF Providers, Family

\* Whatever the file and the keys say, a factory makes a client.
LEMMA FactoryMakesAClient ==
    ASSUME NEW config \in Files, config.provider # Unset,
           NEW keys \in [Needy -> Keys \cup {Unset}]
    PROVE  Created(config, keys) \in Clients
<1> DEFINE p == config.provider
           f == Family(p)
           key == IF f \in Needy THEN OrElse(keys[f], config.keys[f]) ELSE Unset
           model == OrElse(config.model, f)
<1>1. /\ p \in Providers /\ config.model \in Providers \cup {Unset}
      /\ config.keys \in [Needy -> Keys \cup {Unset}]
      /\ config.kimiUrl \in {"kimi", "kimi-code", Unset} /\ config.ds4Url \in {"ds4", Unset}
  BY DEF Files
<1>2. f \in Providers
  BY <1>1, UnsetIsNone
<1>3. key \in Keys \cup {Unset} /\ model \in Providers \cup {Unset}
  BY <1>1, <1>2 DEF OrElse
<1>4. /\ OrElse(config.kimiUrl, p) \in Providers \cup {Unset}
      /\ OrElse(config.ds4Url, f) \in Providers \cup {Unset}
  BY <1>1, <1>2, LlmSettingsAssumption DEF OrElse, Providers
<1>5. MockClient \in Clients
  BY DEF MockClient, Client, Clients, Providers
<1>6. Created(config, keys) \in
          {MockClient, Client(f, f, key, OrElse(config.kimiUrl, p)),
           Client(f, model, key, OrElse(config.ds4Url, f)), Client(f, model, key, f)}
  BY DEF Created
<1> HIDE DEF p, f, key, model
<1> QED BY <1>2, <1>3, <1>4, <1>5, <1>6 DEF Client, Clients

LEMMA ReviewerFactoryMakesAClient ==
    ASSUME NEW config \in Files, NEW keys \in [Needy -> Keys \cup {Unset}]
    PROVE  CreatedReviewer(config, keys) \in Clients
<1> DEFINE p == config.rProvider
           f == Family(p)
           key == IF f \in Needy
                  THEN OrElse(config.rKey, OrElse(keys[f], config.keys[f])) ELSE Unset
           model == OrElse(config.rModel, f)
<1>1. NoClient \in Clients
  BY DEF NoClient, Client, Clients
<1>2. CASE p \in {Unset, "none"}
  <2>1. f = p /\ f \notin Needy /\ f \notin {"mock", "ds4"}
    BY <1>2, LlmSettingsAssumption DEF Family, Providers
  <2>2. key = Unset
    BY <2>1
  <2> HIDE DEF key
  <2> QED BY <1>1, <1>2, <2>1, <2>2 DEF CreatedReviewer
<1>3. CASE p \notin {Unset, "none"}
  <2>1. /\ p \in Providers /\ config.rModel \in Providers \cup {Unset}
        /\ config.rKey \in Keys \cup {Unset} /\ config.rUrl \in Providers \cup {Unset}
        /\ config.keys \in [Needy -> Keys \cup {Unset}]
        /\ config.ds4Url \in {"ds4", Unset}
    BY <1>3 DEF Files
  <2>2. f \in Providers
    BY <2>1, UnsetIsNone
  <2>3. key \in Keys \cup {Unset} /\ model \in Providers \cup {Unset}
    BY <2>1, <2>2 DEF OrElse
  <2>4. /\ OrElse(config.rUrl, p) \in Providers \cup {Unset}
        /\ OrElse(config.rUrl, f) \in Providers \cup {Unset}
        /\ OrElse(config.rUrl, OrElse(config.ds4Url, f)) \in Providers \cup {Unset}
    BY <2>1, <2>2 DEF OrElse, Providers
  <2>5. MockClient \in Clients
    BY DEF MockClient, Client, Clients, Providers
  <2>6. CreatedReviewer(config, keys) \in
            {NoClient, MockClient, Client(f, model, key, f),
             Client(f, f, key, OrElse(config.rUrl, p)),
             Client(f, model, key, OrElse(config.rUrl, f)),
             Client(f, model, key, OrElse(config.rUrl, OrElse(config.ds4Url, f)))}
    BY DEF CreatedReviewer
  <2> HIDE DEF p, f, key, model
  <2> QED BY <1>1, <2>2, <2>3, <2>4, <2>5, <2>6 DEF Client, Clients
<1> QED BY <1>2, <1>3

LEMMA EmptyFileIsAFile == EmptyFile \in Files
<1> QED BY DEF EmptyFile, Files

\* What the files and clients of a switch are.
LEMMA SwitchConfigIsAFile ==
    ASSUME NEW r \in AllRequests
    PROVE  LET f == Family(r.provider)
               config == SwitchConfig(r)
           IN  /\ config \in Files /\ config.provider = f /\ f \in Providers /\ config.model = f
               /\ config.keys = [g \in Needy |-> IF g = f THEN r.key ELSE Unset]
               /\ config.kimiUrl = IF f = "kimi" THEN r.provider ELSE Unset
               /\ config.ds4Url = IF f = "ds4" THEN f ELSE Unset
               /\ config.provider # Unset
<1> DEFINE f == Family(r.provider)
           config == SwitchConfig(r)
<1>1. r.provider \in Providers /\ r.key \in Keys \cup {Unset}
  BY LlmSettingsAssumption DEF AllRequests, Request
<1>2. f \in Providers /\ f # Unset
  BY <1>1, UnsetIsNone
<1>3. f = "kimi" => r.provider \in {"kimi", "kimi-code"}
  BY DEF Family
<1>4. /\ config \in Files /\ config.provider = f /\ config.model = f
      /\ config.keys = [g \in Needy |-> IF g = f THEN r.key ELSE Unset]
      /\ config.kimiUrl = IF f = "kimi" THEN r.provider ELSE Unset
      /\ config.ds4Url = IF f = "ds4" THEN f ELSE Unset
  <2> DEFINE keys == [g \in Needy |-> IF g = f THEN r.key ELSE Unset]
             kimiUrl == IF f = "kimi" THEN r.provider ELSE Unset
             ds4Url == IF f = "ds4" THEN f ELSE Unset
             c1 == [EmptyFile EXCEPT !.provider = f]
             c2 == [c1 EXCEPT !.model = f]
             c3 == [c2 EXCEPT !.keys = keys]
             c4 == [c3 EXCEPT !.kimiUrl = kimiUrl]
             c5 == [c4 EXCEPT !.ds4Url = ds4Url]
  <2>1. config = c5
    BY DEF SwitchConfig
  <2>2. /\ keys \in [Needy -> Keys \cup {Unset}] /\ kimiUrl \in {"kimi", "kimi-code", Unset}
        /\ ds4Url \in {"ds4", Unset}
    BY <1>1, <1>3
  <2> HIDE DEF keys, kimiUrl, ds4Url, f, config
  <2>3. c1 \in Files /\ c1.provider = f
    BY <1>2, EmptyFileIsAFile DEF Files
  <2> HIDE DEF c1
  <2>4. c2 \in Files /\ c2.provider = f /\ c2.model = f
    BY <1>2, <2>3 DEF Files
  <2> HIDE DEF c2
  <2>5. c3 \in Files /\ c3.provider = f /\ c3.model = f /\ c3.keys = keys
    BY <2>2, <2>4 DEF Files
  <2> HIDE DEF c3
  <2>6. c4 \in Files /\ c4.provider = f /\ c4.model = f /\ c4.keys = keys /\ c4.kimiUrl = kimiUrl
    BY <2>2, <2>5 DEF Files
  <2> HIDE DEF c4
  <2>7. /\ c5 \in Files /\ c5.provider = f /\ c5.model = f /\ c5.keys = keys
        /\ c5.kimiUrl = kimiUrl /\ c5.ds4Url = ds4Url
    BY <2>2, <2>6 DEF Files
  <2> HIDE DEF c5
  <2> QED BY <2>1, <2>7 DEF keys, kimiUrl, ds4Url
<1> HIDE DEF f, config
<1>5. f \in Providers /\ config.provider # Unset
  BY <1>2, <1>4
<1> QED BY <1>4, <1>5 DEF f, config

\* What a saved switch leaves in the file.
LEMMA MergedIsAFile ==
    ASSUME file \in Files, NEW config \in Files
    PROVE  /\ Merged(config) \in Files
           /\ Merged(config).provider = OrElse(config.provider, file.provider)
           /\ Merged(config).model = OrElse(config.model, file.model)
           /\ Merged(config).keys = [f \in Needy |-> OrElse(config.keys[f], file.keys[f])]
           /\ Merged(config).kimiUrl = OrElse(config.kimiUrl, file.kimiUrl)
           /\ Merged(config).ds4Url = OrElse(config.ds4Url, file.ds4Url)
<1> DEFINE provider == OrElse(config.provider, file.provider)
           model == OrElse(config.model, file.model)
           keys == [f \in Needy |-> OrElse(config.keys[f], file.keys[f])]
           kimiUrl == OrElse(config.kimiUrl, file.kimiUrl)
           ds4Url == OrElse(config.ds4Url, file.ds4Url)
           c1 == [file EXCEPT !.provider = provider]
           c2 == [c1 EXCEPT !.model = OrElse(config.model, c1.model)]
           c3 == [c2 EXCEPT !.keys = [f \in Needy |-> OrElse(config.keys[f], c2.keys[f])]]
           c4 == [c3 EXCEPT !.kimiUrl = OrElse(config.kimiUrl, c3.kimiUrl)]
           c5 == [c4 EXCEPT !.ds4Url = OrElse(config.ds4Url, c4.ds4Url)]
<1>1. Merged(config) = c5
  BY DEF Merged
<1>2. /\ provider \in Providers \cup {Unset} /\ model \in Providers \cup {Unset}
      /\ keys \in [Needy -> Keys \cup {Unset}]
      /\ kimiUrl \in {"kimi", "kimi-code", Unset} /\ ds4Url \in {"ds4", Unset}
  BY DEF OrElse, Files
<1> HIDE DEF provider, model, keys, kimiUrl, ds4Url
<1>3. /\ c1 \in Files /\ c1.provider = provider /\ c1.model = file.model /\ c1.keys = file.keys
      /\ c1.kimiUrl = file.kimiUrl /\ c1.ds4Url = file.ds4Url
  BY <1>2 DEF Files
<1> HIDE DEF c1
<1>4. /\ c2 \in Files /\ c2.provider = provider /\ c2.model = model /\ c2.keys = file.keys
      /\ c2.kimiUrl = file.kimiUrl /\ c2.ds4Url = file.ds4Url
  BY <1>2, <1>3 DEF Files, model
<1> HIDE DEF c2
<1>5. /\ c3 \in Files /\ c3.provider = provider /\ c3.model = model /\ c3.keys = keys
      /\ c3.kimiUrl = file.kimiUrl /\ c3.ds4Url = file.ds4Url
  <2>1. c3 = [c2 EXCEPT !.keys = keys]
    BY <1>4 DEF keys
  <2> HIDE DEF c3
  <2> QED BY <1>2, <1>4, <2>1 DEF Files
<1> HIDE DEF c3
<1>6. /\ c4 \in Files /\ c4.provider = provider /\ c4.model = model /\ c4.keys = keys
      /\ c4.kimiUrl = kimiUrl /\ c4.ds4Url = file.ds4Url
  BY <1>2, <1>5 DEF Files, kimiUrl
<1> HIDE DEF c4
<1>7. /\ c5 \in Files /\ c5.provider = provider /\ c5.model = model /\ c5.keys = keys
      /\ c5.kimiUrl = kimiUrl /\ c5.ds4Url = ds4Url
  BY <1>2, <1>6 DEF Files, ds4Url
<1> HIDE DEF c5
<1> QED BY <1>1, <1>7 DEF provider, model, keys, kimiUrl, ds4Url

\* What is loaded differs from the file in the provider, which it names.
LEMMA OtherProvider ==
    ASSUME NEW g \in Files, NEW p \in Providers
    PROVE  LET h == [g EXCEPT !.provider = p]
           IN  /\ h \in Files /\ h.provider = p /\ h.provider # Unset
               /\ h.model = g.model /\ h.keys = g.keys
               /\ h.kimiUrl = g.kimiUrl /\ h.ds4Url = g.ds4Url
<1> QED BY UnsetIsNone DEF Files

LEMMA LoadedIsAFile ==
    ASSUME file \in Files, NEW override \in Overrides \cup {Unset}
    PROVE  Loaded(override) \in Files /\ Loaded(override).provider # Unset
<1> DEFINE p == OrElse(override, OrElse(file.provider, "kimi-code"))
<1>1. override \in Providers \cup {Unset} /\ "kimi-code" \in Providers
  BY LlmSettingsAssumption DEF Providers
<1>2. p \in Providers
  BY <1>1 DEF OrElse, Files
<1>3. Loaded(override) = [file EXCEPT !.provider = p]
  BY DEF Loaded
<1> HIDE DEF p
<1> QED BY <1>2, <1>3, OtherProvider

\* What the factory makes of a provider whose key is there, and of ds4.
LEMMA CreatedWithAKey ==
    ASSUME NEW config, NEW keys, Family(config.provider) \in Needy,
           NEW key \in Keys, key = OrElse(keys[Family(config.provider)],
                                          config.keys[Family(config.provider)])
    PROVE  LET f == Family(config.provider)
           IN  Created(config, keys) =
                   IF f = "kimi" THEN Client(f, f, key, OrElse(config.kimiUrl, config.provider))
                   ELSE Client(f, OrElse(config.model, f), key, f)
<1> DEFINE f == Family(config.provider)
<1>1. f \notin {"ds4", "ollama"} /\ key # Unset
  BY LlmSettingsAssumption
<1> QED BY <1>1 DEF Created

LEMMA CreatedForDs4 ==
    ASSUME NEW config, NEW keys, config.provider = "ds4", config.model = "ds4",
           config.ds4Url = "ds4"
    PROVE  Created(config, keys) = Client("ds4", "ds4", Unset, "ds4")
<1>1. Family(config.provider) = "ds4" /\ "ds4" \notin Needy /\ Unset # "ds4"
  BY LlmSettingsAssumption DEF Family, Providers
<1> QED BY <1>1 DEF Created, OrElse

LEMMA InstallKeeps ==
    ASSUME TypeOK, NEW r \in AllRequests, Install(r)
    PROVE  /\ env' \in [Needy -> Keys \cup {Unset}]
           /\ producer' \in Clients /\ helpers' = producer'
           /\ producer' = Created(SwitchConfig(r), env')
           /\ UNCHANGED <<shell, up, builders, reviewer>>
           /\ Family(r.provider) \in Needy /\ r.key # Unset
                  => env'[Family(r.provider)] = r.key
<1>1. r.key \in Keys \cup {Unset}
  BY DEF AllRequests, Request
<1>2. env' \in [Needy -> Keys \cup {Unset}]
  BY <1>1 DEF Install, TypeOK
<1>3. SwitchConfig(r) \in Files /\ SwitchConfig(r).provider # Unset
  BY SwitchConfigIsAFile
<1>4. producer' = Created(SwitchConfig(r), env')
  BY DEF Install
<1>5. producer' \in Clients
  BY <1>2, <1>3, <1>4, FactoryMakesAClient
<1> QED BY <1>2, <1>4, <1>5 DEF Install, TypeOK

\* What a saved switch promises, a start creates.
LEMMA PromiseIsKept ==
    ASSUME TypeOK, NEW r \in AllRequests, Install(r), r.provider # "mock",
           file' = Merged(SwitchConfig(r)),
           Family(r.provider) \in Needy => r.key # Unset,
           promised' = producer',
           promised'.provider \in Needy => shell[promised'.provider] = Unset
    PROVE  Created(Loaded(Unset), shell)' = promised'
<1> DEFINE f == Family(r.provider)
           config == SwitchConfig(r)
           loaded == [file' EXCEPT !.provider = f]
<1>1. /\ config \in Files /\ config.provider = f /\ f \in Providers /\ config.model = f
      /\ config.keys = [g \in Needy |-> IF g = f THEN r.key ELSE Unset]
      /\ config.kimiUrl = IF f = "kimi" THEN r.provider ELSE Unset
      /\ config.ds4Url = IF f = "ds4" THEN f ELSE Unset
  BY SwitchConfigIsAFile
<1>2. f # Unset /\ f # "none" /\ "ds4" # Unset
  BY <1>1, UnsetIsNone, LlmSettingsAssumption DEF Providers
<1>3. r.provider \in Offered /\ r.key \in Keys \cup {Unset}
  BY DEF AllRequests, Request
<1>4. r.provider \in Providers \ {"openai", "ollama", "mock"} /\ r.provider # Unset
  BY <1>3, UnsetIsNone, LlmSettingsAssumption
<1>5. f \in Needy \cup {"ds4"} /\ Family(f) = f /\ (f = "ds4" => r.provider = "ds4")
  BY <1>4, LlmSettingsAssumption DEF Family, Providers
<1>6. /\ file' \in Files /\ file'.provider = f /\ file'.model = f
      /\ file'.keys = [g \in Needy |-> OrElse(config.keys[g], file.keys[g])]
      /\ file'.kimiUrl = OrElse(config.kimiUrl, file.kimiUrl)
      /\ file'.ds4Url = OrElse(config.ds4Url, file.ds4Url)
  BY <1>1, <1>2, MergedIsAFile DEF TypeOK, OrElse
<1>7. Created(Loaded(Unset), shell)' = Created(loaded, shell)
  <2>1. shell' = shell
    BY DEF Install
  <2>2. Loaded(Unset)' = loaded
    BY <1>2, <1>6 DEF Loaded, OrElse
  <2> QED BY <2>1, <2>2 DEF Created
<1>8. /\ loaded.provider = f /\ loaded.model = f /\ loaded.keys = file'.keys
      /\ loaded.kimiUrl = file'.kimiUrl /\ loaded.ds4Url = file'.ds4Url
  BY <1>1, <1>6, OtherProvider
<1>9. promised' = Created(config, env')
  BY InstallKeeps
<1> HIDE DEF loaded, config, f
<1>10. CASE f \in Needy
  <2>1. r.key \in Keys /\ r.key # Unset
    BY <1>3, <1>10 DEF f
  <2>2. env'[f] = r.key
    BY <1>10, <2>1, InstallKeeps DEF f
  <2>3. OrElse(env'[f], config.keys[f]) = r.key
    BY <2>1, <2>2 DEF OrElse
  <2>4. Created(config, env') = IF f = "kimi" THEN Client(f, f, r.key, OrElse(config.kimiUrl, f))
                                ELSE Client(f, OrElse(config.model, f), r.key, f)
    BY <1>1, <1>5, <1>10, <2>1, <2>3, CreatedWithAKey
  <2>5. promised'.provider = f
    BY <1>9, <2>4 DEF Client
  <2>6. OrElse(shell[f], loaded.keys[f]) = r.key
    BY <1>1, <1>6, <1>8, <1>10, <2>1, <2>5 DEF OrElse
  <2>7. Created(loaded, shell) = IF f = "kimi" THEN Client(f, f, r.key, OrElse(loaded.kimiUrl, f))
                                 ELSE Client(f, OrElse(loaded.model, f), r.key, f)
    BY <1>5, <1>8, <1>10, <2>1, <2>6, CreatedWithAKey
  <2>8. f = "kimi" => OrElse(loaded.kimiUrl, f) = OrElse(config.kimiUrl, f)
    BY <1>1, <1>4, <1>6, <1>8 DEF OrElse
  <2> QED BY <1>1, <1>7, <1>8, <1>9, <2>4, <2>7, <2>8
<1>11. CASE f = "ds4"
  <2>1. config.provider = "ds4" /\ config.model = "ds4" /\ config.ds4Url = "ds4"
    BY <1>1, <1>11
  <2>2. loaded.provider = "ds4" /\ loaded.model = "ds4" /\ loaded.ds4Url = "ds4"
    BY <1>2, <1>6, <1>8, <1>11, <2>1 DEF OrElse
  <2> QED BY <1>7, <1>9, <2>1, <2>2, CreatedForDs4
<1> QED BY <1>5, <1>10, <1>11

\* A step that leaves what a start is made from.
LEMMA PromiseStays ==
    ASSUME RestartRestores, UNCHANGED <<shell, promised, cutOff>>,
           /\ file'.provider = file.provider /\ file'.model = file.model
           /\ file'.keys = file.keys /\ file'.kimiUrl = file.kimiUrl
           /\ file'.ds4Url = file.ds4Url,
           file \in Files, file' \in Files
    PROVE  RestartRestores'
<1> DEFINE p == OrElse(Unset, OrElse(file.provider, "kimi-code"))
<1>1. p \in Providers
  BY LlmSettingsAssumption DEF OrElse, Files, Providers
<1>2. Loaded(Unset) = [file EXCEPT !.provider = p]
  BY DEF Loaded
<1>3. Loaded(Unset)' = [file' EXCEPT !.provider = p]
  BY DEF Loaded
<1> HIDE DEF p
<1>4. /\ Loaded(Unset)'.provider = Loaded(Unset).provider
      /\ Loaded(Unset)'.model = Loaded(Unset).model
      /\ Loaded(Unset)'.keys = Loaded(Unset).keys
      /\ Loaded(Unset)'.kimiUrl = Loaded(Unset).kimiUrl
      /\ Loaded(Unset)'.ds4Url = Loaded(Unset).ds4Url
  BY <1>1, <1>2, <1>3, OtherProvider
<1>5. Created(Loaded(Unset), shell)' = Created(Loaded(Unset), shell)
  BY <1>4 DEF Created
<1> QED BY <1>5 DEF RestartRestores, StartKeepsPromise

\* A save that fails leaves the file or empties it, and says so.
LEMMA FailedSaveKeeps ==
    ASSUME TypeOK, RestartRestores, SaveFails, UNCHANGED <<shell, promised>>
    PROVE  file' \in Files /\ cutOff' \in BOOLEAN /\ RestartRestores'
<1>1. file \in Files /\ cutOff \in BOOLEAN
  BY DEF TypeOK
<1>2. CASE UNCHANGED <<file, cutOff>>
  BY <1>1, <1>2, PromiseStays
<1>3. CASE file' = EmptyFile /\ cutOff' = TRUE
  BY <1>3, EmptyFileIsAFile DEF RestartRestores
<1> QED BY <1>2, <1>3 DEF SaveFails

LEMMA FinishSwitchKeeps ==
    ASSUME IInv, NEW r \in AllRequests, Finish(r), requests' \subseteq AllRequests
    PROVE  IInv'
<1>1. /\ env' \in [Needy -> Keys \cup {Unset}]
      /\ producer' \in Clients /\ helpers' = producer'
      /\ UNCHANGED <<shell, up, builders, reviewer>>
  BY InstallKeeps DEF IInv, Finish
<1>2. NoClient \in Clients
  BY DEF NoClient, Client, Clients
<1>3. SwitchConfig(r) \in Files
  BY SwitchConfigIsAFile
<1>4. ASSUME file' \in Files, promised' \in Clients, cutOff' \in BOOLEAN, RestartRestores'
      PROVE  IInv'
  <2>1. TypeOK'
    BY <1>1, <1>4 DEF IInv, TypeOK
  <2> QED BY <1>1, <1>4, <2>1 DEF IInv, NobodyLeftBehind
<1>5. CASE UNCHANGED <<file, promised, cutOff>>
  <2>1. RestartRestores'
    BY <1>1, <1>5, PromiseStays DEF IInv, TypeOK
  <2> QED BY <1>4, <1>5, <2>1 DEF IInv, TypeOK
<1>6. CASE SaveFails /\ UNCHANGED promised
  <2>1. file' \in Files /\ cutOff' \in BOOLEAN /\ RestartRestores'
    BY <1>1, <1>6, FailedSaveKeeps DEF IInv
  <2> QED BY <1>4, <1>6, <2>1 DEF IInv, TypeOK
<1>7. CASE /\ r.provider # "mock" /\ file' = Merged(SwitchConfig(r))
           /\ promised' = IF Family(r.provider) \in Needy /\ r.key = Unset
                          THEN NoClient ELSE producer'
           /\ cutOff' = FALSE
  <2>1. file' \in Files /\ promised' \in Clients
    BY <1>1, <1>2, <1>3, <1>7, MergedIsAFile DEF IInv, TypeOK
  <2>2. ASSUME promised' # NoClient,
               promised'.provider \in Needy => shell'[promised'.provider] = Unset
        PROVE  Created(Loaded(Unset), shell)' = promised'
    BY <1>1, <1>7, <2>2, PromiseIsKept DEF IInv, Finish
  <2>3. RestartRestores'
    BY <2>2 DEF RestartRestores, StartKeepsPromise
  <2> QED BY <1>4, <1>7, <2>1, <2>3
<1> QED BY <1>5, <1>6, <1>7 DEF Finish, Saved

LEMMA ClientsStay ==
    ASSUME IInv, file' \in Files, cutOff' \in BOOLEAN, RestartRestores',
           requests' \subseteq AllRequests,
           UNCHANGED <<shell, env, up, clientVars, promised>>
    PROVE  IInv'
<1>1. TypeOK'
  BY DEF IInv, TypeOK, clientVars
<1> QED BY <1>1 DEF IInv, NobodyLeftBehind, clientVars

LEMMA SwitchKeeps ==
    ASSUME IInv, NEW r \in AllRequests, Switch(r) \/ ProbeSucceeds(r) \/ ProbeFails(r)
    PROVE  IInv'
<1>1. requests' \subseteq AllRequests
  BY DEF Switch, ProbeSucceeds, ProbeFails, IInv, TypeOK
<1>2. CASE Finish(r)
  BY <1>1, <1>2, FinishSwitchKeeps
<1>3. CASE UNCHANGED <<file, shell, env, up, clientVars, promised, cutOff>>
  BY <1>1, <1>3, PromiseStays, ClientsStay DEF IInv, TypeOK
<1> QED BY <1>2, <1>3 DEF Switch, ProbeSucceeds, ProbeFails

LEMMA StartKeeps ==
    ASSUME IInv, NEW override \in Overrides, NEW strictly \in BOOLEAN, Start(override, strictly)
    PROVE  IInv'
<1>1. Loaded(override) \in Files /\ Loaded(override).provider # Unset
  BY LoadedIsAFile DEF IInv, TypeOK
<1>2. /\ Created(Loaded(override), shell) \in Clients
      /\ CreatedReviewer(Loaded(override), shell) \in Clients
  BY <1>1, FactoryMakesAClient, ReviewerFactoryMakesAClient DEF IInv, TypeOK
<1>3. /\ up' = TRUE /\ env' = shell /\ UNCHANGED <<file, shell, requests, promised, cutOff>>
      /\ producer' \in Clients /\ helpers' = producer' /\ builders' = producer'
      /\ reviewer' \in Clients
  BY <1>2 DEF Start, Wired
<1>4. TypeOK'
  BY <1>3 DEF IInv, TypeOK
<1>5. RestartRestores'
  BY <1>3, PromiseStays DEF IInv, TypeOK
<1> QED BY <1>3, <1>4, <1>5 DEF IInv, NobodyLeftBehind

LEMMA DownKeeps ==
    ASSUME IInv, Stop \/ CrashInSave
    PROVE  IInv'
<1>1. NoClient \in Clients
  BY DEF NoClient, Client, Clients
<1>2. TypeOK' /\ NobodyLeftBehind'
  BY <1>1, EmptyFileIsAFile DEF Stop, CrashInSave, Down, IInv, TypeOK, NobodyLeftBehind
<1>3. CASE Stop
  BY <1>2, <1>3, PromiseStays DEF Stop, Down, IInv, TypeOK
<1>4. CASE CrashInSave
  BY <1>2, <1>4 DEF CrashInSave, RestartRestores, IInv
<1> QED BY <1>3, <1>4 DEF IInv, TypeOK

\* The reviewer's settings are its own.
LEMMA SwitchReviewerKeeps ==
    ASSUME IInv, NEW p \in Providers, NEW key \in Keys \cup {Unset},
           NEW model \in Providers \cup {Unset}, NEW url \in Providers \cup {Unset},
           SwitchReviewer(p, key, model, url)
    PROVE  IInv'
<1> DEFINE c1 == [file EXCEPT !.rProvider = p]
           c2 == [c1 EXCEPT !.rKey = OrElse(key, c1.rKey)]
           c3 == [c2 EXCEPT !.rModel = OrElse(model, c2.rModel)]
           c4 == [c3 EXCEPT !.rUrl = OrElse(url, c3.rUrl)]
<1>1. /\ (file' = c4 /\ UNCHANGED cutOff) \/ SaveFails
      /\ UNCHANGED <<shell, env, up, clientVars, requests, promised>>
  BY DEF SwitchReviewer, Saved
<1>2. file \in Files /\ cutOff \in BOOLEAN
  BY DEF IInv, TypeOK
<1>3. /\ c1 \in Files /\ c1.provider = file.provider /\ c1.model = file.model
      /\ c1.keys = file.keys /\ c1.kimiUrl = file.kimiUrl /\ c1.ds4Url = file.ds4Url
  BY <1>2 DEF Files
<1> HIDE DEF c1
<1>4. /\ c2 \in Files /\ c2.provider = file.provider /\ c2.model = file.model
      /\ c2.keys = file.keys /\ c2.kimiUrl = file.kimiUrl /\ c2.ds4Url = file.ds4Url
  <2>1. OrElse(key, c1.rKey) \in Keys \cup {Unset}
    BY <1>3 DEF Files, OrElse
  <2> QED BY <1>3, <2>1 DEF Files
<1> HIDE DEF c2
<1>5. /\ c3 \in Files /\ c3.provider = file.provider /\ c3.model = file.model
      /\ c3.keys = file.keys /\ c3.kimiUrl = file.kimiUrl /\ c3.ds4Url = file.ds4Url
  <2>1. OrElse(model, c2.rModel) \in Providers \cup {Unset}
    BY <1>4 DEF Files, OrElse
  <2> QED BY <1>4, <2>1 DEF Files
<1> HIDE DEF c3
<1>6. /\ c4 \in Files /\ c4.provider = file.provider /\ c4.model = file.model
      /\ c4.keys = file.keys /\ c4.kimiUrl = file.kimiUrl /\ c4.ds4Url = file.ds4Url
  <2>1. OrElse(url, c3.rUrl) \in Providers \cup {Unset}
    BY <1>5 DEF Files, OrElse
  <2> QED BY <1>5, <2>1 DEF Files
<1> HIDE DEF c4
<1>7. requests' \subseteq AllRequests
  BY <1>1 DEF IInv, TypeOK
<1>8. CASE file' = c4 /\ UNCHANGED cutOff
  <2>1. RestartRestores'
    BY <1>1, <1>2, <1>6, <1>8, PromiseStays DEF IInv
  <2> QED BY <1>1, <1>2, <1>6, <1>7, <1>8, <2>1, ClientsStay
<1>9. CASE SaveFails
  <2>1. file' \in Files /\ cutOff' \in BOOLEAN /\ RestartRestores'
    BY <1>1, <1>9, FailedSaveKeeps DEF IInv
  <2> QED BY <1>1, <1>7, <2>1, ClientsStay
<1> QED BY <1>1, <1>8, <1>9

LEMMA ReviewerCallsKeep ==
    ASSUME IInv, DisableReviewer \/ \E p \in ReviewerOffered : LoginReviewer(p)
    PROVE  IInv'
<1>1. CASE DisableReviewer
  <2>1. /\ (file' = [file EXCEPT !.rProvider = "none"] /\ UNCHANGED cutOff) \/ SaveFails
        /\ UNCHANGED <<shell, env, up, clientVars, requests, promised>>
        /\ file \in Files /\ cutOff \in BOOLEAN
    BY <1>1 DEF DisableReviewer, Saved, IInv, TypeOK
  <2>2. requests' \subseteq AllRequests
    BY <2>1 DEF IInv, TypeOK
  <2>3. CASE file' = [file EXCEPT !.rProvider = "none"] /\ UNCHANGED cutOff
    <3>1. /\ file' \in Files /\ file'.provider = file.provider /\ file'.model = file.model
          /\ file'.keys = file.keys /\ file'.kimiUrl = file.kimiUrl
          /\ file'.ds4Url = file.ds4Url
      BY <2>1, <2>3 DEF Files
    <3>2. RestartRestores'
      BY <2>1, <2>3, <3>1, PromiseStays DEF IInv
    <3> QED BY <2>1, <2>2, <2>3, <3>1, <3>2, ClientsStay
  <2>4. CASE SaveFails
    <3>1. file' \in Files /\ cutOff' \in BOOLEAN /\ RestartRestores'
      BY <2>1, <2>4, FailedSaveKeeps DEF IInv
    <3> QED BY <2>1, <2>2, <3>1, ClientsStay
  <2> QED BY <2>1, <2>3, <2>4
<1>2. ASSUME NEW p \in ReviewerOffered, LoginReviewer(p)
      PROVE  IInv'
  <2>1. p \in Providers /\ Family(p) \in Providers
    BY UnsetIsNone, LlmSettingsAssumption
  <2> QED BY <1>2, <2>1, SwitchReviewerKeeps DEF LoginReviewer
<1> QED BY <1>1, <1>2

LEMMA SettingsNextKeeps ==
    ASSUME IInv, [Next]_vars
    PROVE  IInv'
<1>1. CASE SwapRoles
  <2>1. TypeOK' /\ NobodyLeftBehind'
    BY <1>1 DEF SwapRoles, IInv, TypeOK, NobodyLeftBehind
  <2> QED BY <1>1, <2>1, PromiseStays DEF SwapRoles, IInv, TypeOK
<1>2. CASE UNCHANGED vars
  BY <1>2, PromiseStays, ClientsStay DEF vars, IInv, TypeOK
<1> QED BY <1>1, <1>2, StartKeeps, DownKeeps, SwitchKeeps, ReviewerCallsKeep DEF Next

LEMMA SettingsInit ==
    ASSUME Init
    PROVE  IInv
<1>1. NoClient \in Clients
  BY DEF NoClient, Client, Clients
<1> QED BY <1>1, EmptyFileIsAFile DEF Init, IInv, TypeOK, RestartRestores, StartKeepsPromise,
                                      NobodyLeftBehind

\* What a saved switch has promised is what the next start creates, unless a
\* later save has emptied the file.
THEOREM RestartsRestore == Spec => []RestartRestores
<1>1. IInv => RestartRestores
  BY DEF IInv
<1> QED BY <1>1, SettingsInit, SettingsNextKeeps, PTL DEF Spec

\* After a switch, nobody it refreshes works with the client it has replaced.
THEOREM NobodyIsLeftBehind == Spec => []NobodyLeftBehind
<1>1. IInv => NobodyLeftBehind
  BY DEF IInv
<1> QED BY <1>1, SettingsInit, SettingsNextKeeps, PTL DEF Spec

-----------------------------------------------------------------------------
(* The context inbox.                                                      *)

LEMMA InboxCardinality ==
    ASSUME NEW S
    PROVE  Inbox!Cardinality(S) = Cardinality(S)
<1> QED BY DEF Inbox!Cardinality, Cardinality

\* The items lost are finitely many.
LEMMA LostIsFinite ==
    ASSUME NEW n \in Nat, NEW S, S \subseteq 1 .. n
    PROVE  IsFiniteSet(S) /\ Inbox!Cardinality(S) = Cardinality(S) /\ Cardinality(S) \in Nat
<1>1. IsFiniteSet(1 .. n)
  BY FS_Interval
<1>2. IsFiniteSet(S)
  BY <1>1, FS_Subset
<1> QED BY <1>2, FS_CardinalityType, InboxCardinality

\* How many are lost after a step, by what it adds to them.
LEMMA LostCount ==
    ASSUME Inbox!IInv, Inbox!TypeOK', NEW new,
           Inbox!Lost' \subseteq Inbox!Lost \cup {new}
    PROVE  /\ Cardinality(Inbox!Lost) \in Nat /\ Cardinality(Inbox!Lost') \in Nat
           /\ Inbox!Cardinality(Inbox!Lost) = Cardinality(Inbox!Lost)
           /\ Inbox!Cardinality(Inbox!Lost)' = Cardinality(Inbox!Lost')
           /\ Cardinality(Inbox!Lost') <= Cardinality(Inbox!Lost) + 1
           /\ Inbox!Lost' \subseteq Inbox!Lost => Cardinality(Inbox!Lost') <= Cardinality(Inbox!Lost)
<1>1. received \in Nat /\ received' \in Nat /\ Inbox!Lost \subseteq 1 .. received
      /\ Inbox!Lost' \subseteq 1 .. received'
  BY DEF Inbox!IInv, Inbox!TypeOK, Inbox!Lost
<1>2. /\ IsFiniteSet(Inbox!Lost) /\ Cardinality(Inbox!Lost) \in Nat
      /\ Inbox!Cardinality(Inbox!Lost) = Cardinality(Inbox!Lost)
  BY <1>1, LostIsFinite
<1>3. /\ IsFiniteSet(Inbox!Lost') /\ Cardinality(Inbox!Lost') \in Nat
      /\ Inbox!Cardinality(Inbox!Lost') = Cardinality(Inbox!Lost')
  BY <1>1, LostIsFinite
<1>4. /\ IsFiniteSet(Inbox!Lost \cup {new})
      /\ Cardinality(Inbox!Lost \cup {new}) \in Nat
      /\ Cardinality(Inbox!Lost \cup {new}) <= Cardinality(Inbox!Lost) + 1
  BY <1>2, FS_AddElement, FS_CardinalityType
<1>5. Cardinality(Inbox!Lost') <= Cardinality(Inbox!Lost \cup {new})
  BY <1>4, FS_Subset
<1>6. Inbox!Lost' \subseteq Inbox!Lost => Cardinality(Inbox!Lost') <= Cardinality(Inbox!Lost)
  BY <1>2, FS_Subset
<1> QED BY <1>2, <1>3, <1>4, <1>5, <1>6

LEMMA AddKeeps ==
    ASSUME Inbox!ConstantsOK, Inbox!IInv, Inbox!Add
    PROVE  Inbox!IInv'
<1>1. /\ received \in Nat /\ received' = received + 1 /\ Limit \in Nat /\ crashes \in Nat
      /\ kept \subseteq 1 .. received /\ stored \subseteq 1 .. received
  BY DEF Inbox!ConstantsOK, Inbox!IInv, Inbox!TypeOK, Inbox!Add
<1>2. /\ kept' = kept \cup {received'} /\ tail' = "ended" /\ UNCHANGED <<undecodable, crashes, emptied>>
      /\ stored' = Inbox!Appended(received')
  BY DEF Inbox!Add
<1>3. Inbox!TypeOK'
  BY <1>1, <1>2 DEF Inbox!IInv, Inbox!TypeOK, Inbox!Appended
<1>4. Inbox!Lost' \subseteq Inbox!Lost \cup {received'}
  BY <1>1, <1>2 DEF Inbox!Lost, Inbox!Appended, Inbox!IInv, Inbox!TypeOK, Inbox!TailNotKept
<1>5. tail = "ended" => Inbox!Lost' \subseteq Inbox!Lost
  BY <1>1, <1>2 DEF Inbox!Lost, Inbox!Appended
<1>6. Inbox!OneMayFollow'
  BY <1>1, <1>2, <1>3, <1>4, <1>5, LostCount DEF Inbox!IInv, Inbox!OneMayFollow
<1> QED BY <1>2, <1>3, <1>6 DEF Inbox!IInv, Inbox!TailNotKept

LEMMA CrashInAddKeeps ==
    ASSUME Inbox!ConstantsOK, Inbox!IInv, Inbox!CrashInAdd
    PROVE  Inbox!IInv'
<1>1. /\ received \in Nat /\ received' = received + 1 /\ Limit \in Nat /\ crashes \in Nat
      /\ kept \subseteq 1 .. received /\ stored \subseteq 1 .. received
      /\ tail \in {"ended", "cut", "whole"}
      /\ undecodable \in BOOLEAN /\ emptied \in BOOLEAN
  BY DEF Inbox!ConstantsOK, Inbox!IInv, Inbox!TypeOK, Inbox!CrashInAdd
<1>2. /\ crashes' = crashes + 1 /\ UNCHANGED <<kept, emptied>> /\ tail' \in {"cut", "whole"}
      /\ undecodable' \in {undecodable, TRUE}
      /\ \/ stored' = stored \cup {received'}
         \/ stored' = Inbox!Appended(received') \ {received'}
  BY DEF Inbox!CrashInAdd
<1>3. Inbox!TypeOK'
  <2>1. received' \in Nat /\ crashes' \in Nat /\ kept' \subseteq 1 .. received'
    BY <1>1, <1>2
  <2>2. stored' \subseteq 1 .. received'
    BY <1>1, <1>2 DEF Inbox!Appended
  <2>3. undecodable' \in BOOLEAN /\ emptied' \in BOOLEAN
    BY <1>1, <1>2
  <2> QED BY <1>2, <2>1, <2>2, <2>3 DEF Inbox!TypeOK
<1>4. Inbox!Lost' \subseteq Inbox!Lost
  BY <1>1, <1>2 DEF Inbox!Lost, Inbox!Appended, Inbox!IInv, Inbox!TypeOK, Inbox!TailNotKept
<1>5. Inbox!OneMayFollow'
  BY <1>1, <1>2, <1>3, <1>4, LostCount DEF Inbox!IInv, Inbox!OneMayFollow
<1>6. Inbox!TailNotKept'
  BY <1>1, <1>2 DEF Inbox!TailNotKept
<1> QED BY <1>3, <1>5, <1>6 DEF Inbox!IInv

\* An item that a rewrite does not read has Limit newer ones.
LEMMA RewriteReadsTheNewest ==
    ASSUME Inbox!ConstantsOK, Inbox!IInv, NEW item \in stored,
           ~(Inbox!Cardinality(Inbox!Newer(item)) < Limit)
    PROVE  ~(item > received - Limit)
<1>1. received \in Nat /\ Limit \in Nat /\ item \in 1 .. received /\ item + 1 \in Int
  BY DEF Inbox!ConstantsOK, Inbox!IInv, Inbox!TypeOK
<1>2. Inbox!Newer(item) \subseteq (item + 1) .. received
  <2>1. ASSUME NEW other \in Inbox!Newer(item)
        PROVE  other \in (item + 1) .. received
    <3>1. other \in 1 .. received /\ other > item
      BY <2>1 DEF Inbox!Newer, Inbox!IInv, Inbox!TypeOK
    <3>2. item \in Int /\ other \in Int /\ received \in Int /\ other <= received
      BY <1>1, <3>1
    <3> QED BY <3>1, <3>2
  <2> QED BY <2>1
<1>3. /\ IsFiniteSet((item + 1) .. received)
      /\ Cardinality((item + 1) .. received) = IF item + 1 > received THEN 0
                                               ELSE received - (item + 1) + 1
  BY <1>1, FS_Interval
<1>4. Cardinality(Inbox!Newer(item)) <= Cardinality((item + 1) .. received)
  BY <1>2, <1>3, FS_Subset
<1>5. Cardinality(Inbox!Newer(item)) \in Nat
  BY <1>2, <1>3, FS_Subset, FS_CardinalityType
<1> QED BY <1>1, <1>3, <1>4, <1>5, InboxCardinality

LEMMA RewriteKeeps ==
    ASSUME Inbox!ConstantsOK, Inbox!IInv,
           Inbox!AttachToTask \/ \E item \in 1 .. MaxItems : Inbox!Delete(item)
    PROVE  Inbox!IInv'
<1>1. PICK items \in SUBSET stored :
          /\ Inbox!Rewrite(items) /\ kept' \subseteq kept
          /\ \A item \in kept' \cap stored : item \in items
  BY DEF Inbox!AttachToTask, Inbox!Delete
<1>2. /\ stored' \subseteq stored /\ tail' = "ended"
      /\ UNCHANGED <<undecodable, received, crashes, emptied>>
  BY <1>1 DEF Inbox!Rewrite
<1>3. Inbox!TypeOK'
  BY <1>1, <1>2 DEF Inbox!IInv, Inbox!TypeOK
<1>4. ASSUME NEW item \in Inbox!Lost'
      PROVE  item \in Inbox!Lost
  <2>1. item \in kept /\ item \notin stored' /\ item > received - Limit
    BY <1>1, <1>2, <1>4 DEF Inbox!Lost
  <2>2. ASSUME item \in stored
        PROVE  FALSE
    <3>1. item \in items
      BY <1>1, <1>4, <2>2 DEF Inbox!Lost
    <3>2. ~(Inbox!Cardinality(Inbox!Newer(item)) < Limit)
      BY <1>1, <2>1, <3>1 DEF Inbox!Rewrite
    <3> QED BY <2>1, <2>2, <3>2, RewriteReadsTheNewest
  <2> QED BY <2>1, <2>2 DEF Inbox!Lost
<1>5. Inbox!Lost' \subseteq Inbox!Lost
  BY <1>4
<1>6. crashes \in Nat
  BY DEF Inbox!IInv, Inbox!TypeOK
<1>7. Inbox!OneMayFollow'
  BY <1>2, <1>3, <1>5, <1>6, LostCount DEF Inbox!IInv, Inbox!OneMayFollow
<1> QED BY <1>2, <1>3, <1>7 DEF Inbox!IInv, Inbox!TailNotKept

LEMMA InboxNextKeeps ==
    ASSUME Inbox!ConstantsOK, Inbox!IInv, [Inbox!Next]_(Inbox!vars)
    PROVE  Inbox!IInv'
<1>1. CASE Inbox!CrashInRewrite
  <2>1. /\ stored' \subseteq stored /\ tail' \in {"ended", "cut"} /\ emptied' = TRUE
        /\ crashes' = crashes + 1 /\ undecodable' \in BOOLEAN
        /\ UNCHANGED <<received, kept>>
    BY <1>1 DEF Inbox!CrashInRewrite, Inbox!IInv, Inbox!TypeOK
  <2> QED BY <2>1 DEF Inbox!IInv, Inbox!TypeOK, Inbox!TailNotKept, Inbox!OneMayFollow
<1>2. CASE UNCHANGED Inbox!vars
  BY <1>2 DEF Inbox!vars, Inbox!IInv, Inbox!TypeOK, Inbox!TailNotKept, Inbox!OneMayFollow,
              Inbox!Lost
<1> QED BY <1>1, <1>2, AddKeeps, CrashInAddKeeps, RewriteKeeps DEF Inbox!Next

LEMMA InboxInit ==
    ASSUME Inbox!Init
    PROVE  Inbox!IInv
<1>1. Inbox!Lost = {}
  BY DEF Inbox!Init, Inbox!Lost
<1>2. Inbox!Cardinality(Inbox!Lost) = 0
  BY <1>1, FS_EmptySet, InboxCardinality
<1>3. Inbox!TypeOK /\ Inbox!TailNotKept
  BY DEF Inbox!Init, Inbox!TypeOK, Inbox!TailNotKept
<1>4. Inbox!OneMayFollow
  BY <1>2 DEF Inbox!Init, Inbox!OneMayFollow
<1> QED BY <1>3, <1>4 DEF Inbox!IInv

\* However often the server is killed, of the newest Limit items at most one per
\* kill is gone, unless a rewrite was cut off (context_inbox.py, add and _rewrite).
THEOREM KillsCostOneItem == FilesSpec => []OneItemPerCrash
<1>1. Inbox!IInv /\ [Inbox!Next]_(Inbox!vars) => Inbox!IInv'
  BY FilesAssumption, InboxNextKeeps
<1>2. Inbox!IInv => OneItemPerCrash
  <2> SUFFICES ASSUME Inbox!IInv, ~emptied
               PROVE  Inbox!Cardinality(Inbox!Lost) <= crashes
    BY DEF OneItemPerCrash, Inbox!OneItemPerCrash
  <2>1. received \in Nat /\ Inbox!Lost \subseteq 1 .. received /\ crashes \in Nat
    BY DEF Inbox!IInv, Inbox!TypeOK, Inbox!Lost
  <2>2. Inbox!Cardinality(Inbox!Lost) \in Nat
    BY <2>1, LostIsFinite
  <2> QED BY <2>1, <2>2 DEF Inbox!IInv, Inbox!OneMayFollow
<1> QED BY <1>1, <1>2, InboxInit, PartsAreImplemented, PTL DEF Inbox!Spec

-----------------------------------------------------------------------------
(* The index of tasks.                                                     *)

LEMMA IndexesAreFunctions ==
    ASSUME NEW i
    PROVE  i \in Index!Index
           <=> DOMAIN i \subseteq Tasks /\ i \in [DOMAIN i -> Index!Statuses]
<1>1. ASSUME i \in Index!Index
      PROVE  DOMAIN i \subseteq Tasks /\ i \in [DOMAIN i -> Index!Statuses]
  BY <1>1 DEF Index!Index
<1>2. ASSUME DOMAIN i \subseteq Tasks, i \in [DOMAIN i -> Index!Statuses]
      PROVE  i \in Index!Index
  BY <1>2 DEF Index!Index
<1> QED BY <1>1, <1>2

LEMMA EmptyIsAnIndex == Index!Empty \in Index!Index /\ DOMAIN Index!Empty = {}
<1> QED BY IndexesAreFunctions DEF Index!Empty

LEMMA OverIsAnIndex ==
    ASSUME NEW a \in Index!Index, NEW b \in Index!Index
    PROVE  /\ Index!Over(a, b) \in Index!Index
           /\ DOMAIN Index!Over(a, b) = DOMAIN a \cup DOMAIN b
           /\ \A t \in DOMAIN a : Index!Over(a, b)[t] = a[t]
           /\ \A t \in DOMAIN b \ DOMAIN a : Index!Over(a, b)[t] = b[t]
<1>1. /\ DOMAIN a \subseteq Tasks /\ a \in [DOMAIN a -> Index!Statuses]
      /\ DOMAIN b \subseteq Tasks /\ b \in [DOMAIN b -> Index!Statuses]
  BY IndexesAreFunctions
<1>2. Index!Over(a, b) = [t \in DOMAIN a \cup DOMAIN b |-> IF t \in DOMAIN a THEN a[t] ELSE b[t]]
  BY DEF Index!Over
<1> QED BY <1>1, <1>2, IndexesAreFunctions

\* What a file holds is an index.
LEMMA FilesHoldIndexes ==
    /\ \A f \in Index!Files : f.entries \in Index!Index
    /\ \A i \in Index!Index : Index!Whole(i) \in Index!Files /\ Index!Whole(i).entries = i
                              /\ Index!Whole(i) # Index!Torn /\ Index!Whole(i) # Index!NoFile
    /\ Index!NoFile \in Index!Files /\ Index!Torn \in Index!Files
    /\ Index!NoFile.entries = Index!Empty /\ Index!Torn.entries = Index!Empty
    /\ Index!NoFile # Index!Torn
<1>1. \A i : Index!Whole(i).entries = i /\ Index!Whole(i).kind = "whole"
  BY DEF Index!Whole
<1>2. /\ Index!NoFile.entries = Index!Empty /\ Index!NoFile.kind = "none"
      /\ Index!Torn.entries = Index!Empty /\ Index!Torn.kind = "unreadable"
  BY DEF Index!NoFile, Index!Torn
<1> QED BY <1>1, <1>2, EmptyIsAnIndex DEF Index!Files

LEMMA LoadedStaysLoaded ==
    ASSUME NEW status
    PROVE  /\ Index!Loaded(Index!Loaded(status)) = Index!Loaded(status)
           /\ status \in Index!Statuses => Index!Loaded(status) \in Index!Statuses
<1> QED BY DEF Index!Loaded, Index!Statuses

\* A change in memory: its task is the process's own, or new to everybody.
LEMMA ChangeKeeps ==
    ASSUME Index!IInv, NEW p \in Processes, NEW t \in Tasks, NEW status \in Index!Statuses,
           Index!Idle(p), Index!Change(p, t, status),
           t \notin created \/ t \in DOMAIN memory[p]
    PROVE  Index!IInv'
<1> DEFINE one == [u \in {t} |-> status]
           new == Index!Over(one, memory[p])
<1> USE DEF Index!IInv
<1>1. /\ memory' = [memory EXCEPT ![p] = new]
      /\ awaiting' = [awaiting EXCEPT ![p] = awaiting[p] \cup {t}]
      /\ created' = created \cup {t}
      /\ UNCHANGED <<indexFile, tmp, alive, step, merged, handle, shared, rough>>
  BY DEF Index!Change, Index!diskVars, Index!persistVars, Index!TypeOK
<1>2. one \in Index!Index /\ DOMAIN one = {t} /\ memory[p] \in Index!Index
  BY IndexesAreFunctions DEF Index!TypeOK
<1> HIDE DEF one
<1>3. /\ new \in Index!Index /\ DOMAIN new = DOMAIN memory[p] \cup {t}
      /\ \A u \in DOMAIN memory[p] \ {t} : new[u] = memory[p][u]
  BY <1>2, OverIsAnIndex
<1> HIDE DEF new
<1>4. alive[p] /\ step[p] = "idle"
  BY DEF Index!Idle
<1>5. Index!TypeOK'
  BY <1>1, <1>3 DEF Index!TypeOK
<1>6. memory'[p] = new /\ \A q \in Processes \ {p} : memory'[q] = memory[q]
  BY <1>1 DEF Index!TypeOK
<1>7. Index!IdsTaken'
  BY <1>1, <1>3, <1>6 DEF Index!IdsTaken
<1>8. Index!DownIsEmpty'
  BY <1>1, <1>4, <1>6 DEF Index!DownIsEmpty
<1>9. Index!KnownByOne'
  BY <1>1, <1>3, <1>6 DEF Index!KnownByOne, Index!IdsTaken
<1>10. Index!OneAtATime'
  BY <1>1 DEF Index!OneAtATime, Index!Alone
<1>11. Index!Stages'
  BY <1>1, <1>4, <1>6 DEF Index!Stages, Index!Merge
<1>12. Index!AllInFile'
  <2>1. awaiting'[p] = awaiting[p] \cup {t} /\ \A q \in Processes \ {p} : awaiting'[q] = awaiting[q]
    BY <1>1 DEF Index!TypeOK
  <2> QED BY <1>1, <1>3, <1>6, <2>1 DEF Index!AllInFile, Index!InFile
<1> QED BY <1>5, <1>7, <1>8, <1>9, <1>10, <1>11, <1>12

\* The file and the memory of the process are merged while nobody else writes.
LEMMA BeginPersistKeeps ==
    ASSUME Index!IInv, NEW p \in Processes, NEW t \in Tasks, Index!BeginPersist(p, t)
    PROVE  Index!IInv'
<1> USE DEF Index!IInv
<1>1. /\ alive[p] /\ step[p] = "idle"
      /\ awaiting' = [awaiting EXCEPT ![p] = awaiting[p] \ {t}]
      /\ merged' = [merged EXCEPT ![p] = Index!Merge(p)]
      /\ step' = [step EXCEPT ![p] = "merged"]
      /\ rough' = (rough \/ ~Index!Alone(p))
      /\ UNCHANGED <<indexFile, tmp, memory, alive, handle, created, shared>>
  BY DEF Index!BeginPersist, Index!Idle, Index!diskVars, Index!TypeOK
<1>2. memory[p] \in Index!Index /\ indexFile.entries \in Index!Index
  BY FilesHoldIndexes DEF Index!TypeOK
<1>3. Index!Merge(p) \in Index!Index /\ DOMAIN Index!Merge(p) = DOMAIN memory[p] \cup DOMAIN indexFile.entries
  BY <1>2, OverIsAnIndex DEF Index!Merge
<1>4. Index!TypeOK'
  BY <1>1, <1>3 DEF Index!TypeOK
<1>5. /\ merged'[p] = Index!Merge(p) /\ step'[p] = "merged" /\ awaiting'[p] \subseteq awaiting[p]
      /\ \A q \in Processes \ {p} :
             merged'[q] = merged[q] /\ step'[q] = step[q] /\ awaiting'[q] = awaiting[q]
  BY <1>1 DEF Index!TypeOK
<1>6. Index!IdsTaken'
  BY <1>1, <1>3, <1>5 DEF Index!IdsTaken
<1>7. Index!DownIsEmpty' /\ Index!KnownByOne'
  BY <1>1, <1>5 DEF Index!DownIsEmpty, Index!KnownByOne
<1>8. Index!OneAtATime'
  BY <1>1, <1>5 DEF Index!OneAtATime, Index!Alone
<1>9. Index!Stages'
  BY <1>1, <1>5 DEF Index!Stages, Index!Merge
<1>10. Index!AllInFile'
  BY <1>1, <1>5 DEF Index!AllInFile, Index!InFile
<1> QED BY <1>4, <1>6, <1>7, <1>8, <1>9, <1>10

\* What is written to the temporary file touches nothing a reader sees.
LEMMA WriteTmpKeeps ==
    ASSUME Index!IInv, NEW p \in Processes, Index!OpenTmp(p) \/ Index!WriteTmp(p)
    PROVE  Index!IInv'
<1> USE DEF Index!IInv
<1>1. /\ step[p] \in {"merged", "opened"} /\ step' = [step EXCEPT ![p] = step'[p]]
      /\ step'[p] \in {"opened", "written"}
      /\ UNCHANGED <<memory, alive, awaiting, merged, created, shared, rough>>
  BY DEF Index!OpenTmp, Index!WriteTmp, Index!TypeOK
<1>2. \A old \in Index!Files : Index!Written(p, old) \subseteq Index!Files
      /\ \A f \in Index!Written(p, old) : f.entries \in {merged[p], Index!Empty}
  BY FilesHoldIndexes DEF Index!Written, Index!TypeOK
<1>3. /\ indexFile' \in {indexFile} \cup Index!Written(p, indexFile)
      /\ tmp' \in {tmp, Index!Torn} \cup Index!Written(p, tmp)
      /\ handle' \in [Processes -> {"none", "tmp", "file", "gone"}]
  BY DEF Index!OpenTmp, Index!WriteTmp, Index!TypeOK, Index!diskVars
<1>4. Index!TypeOK'
  BY <1>1, <1>2, <1>3, FilesHoldIndexes DEF Index!TypeOK
<1>5. \A q \in Processes \ {p} : step'[q] = step[q]
  BY <1>1 DEF Index!TypeOK
<1>6. Index!IdsTaken'
  BY <1>1, <1>2, <1>3, FilesHoldIndexes, EmptyIsAnIndex DEF Index!IdsTaken, Index!TypeOK
<1>7. Index!DownIsEmpty' /\ Index!KnownByOne' /\ Index!OneAtATime'
  BY <1>1, <1>5 DEF Index!DownIsEmpty, Index!KnownByOne, Index!OneAtATime, Index!Alone
<1>8. ASSUME ~rough
      PROVE  /\ indexFile' = indexFile /\ handle'[p] = "tmp"
             /\ step'[p] = "opened" => tmp' = Index!Torn
             /\ step'[p] = "written" => tmp' = Index!Whole(merged[p])
             /\ \A q \in Processes \ {p} : step[q] = "idle"
  <2>1. \A q \in Processes \ {p} : step[q] = "idle"
    BY <1>1, <1>8 DEF Index!OneAtATime, Index!Alone
  <2>2. CASE Index!OpenTmp(p)
    BY <2>1, <2>2 DEF Index!OpenTmp, Index!TypeOK
  <2>3. CASE Index!WriteTmp(p)
    <3>1. handle[p] = "tmp" /\ tmp = Index!Torn
      BY <1>8, <2>3 DEF Index!WriteTmp, Index!Stages
    <3>2. /\ tmp' \in Index!Written(p, tmp) /\ indexFile' = indexFile /\ handle' = handle
          /\ step'[p] = "written"
      BY <2>3, <3>1 DEF Index!WriteTmp, Index!TypeOK
    <3> QED BY <2>1, <3>1, <3>2 DEF Index!Written
  <2> QED BY <2>1, <2>2, <2>3
<1>9. Index!Stages'
  BY <1>1, <1>5, <1>8 DEF Index!Stages, Index!Merge
<1>10. Index!AllInFile'
  BY <1>1, <1>5, <1>8 DEF Index!AllInFile, Index!InFile
<1> QED BY <1>4, <1>6, <1>7, <1>9, <1>10

\* Rough from now on: only what holds in any case is left to keep.
LEMMA RoughKeeps ==
    ASSUME Index!IInv, NEW p \in Processes, Index!FallBack(p) \/ Index!WriteInPlace(p)
    PROVE  Index!IInv'
<1> USE DEF Index!IInv
<1>1. /\ rough' = TRUE /\ UNCHANGED <<tmp, memory, alive, awaiting, created, shared>>
      /\ step[p] # "idle" /\ step' \in [Processes -> {"idle", "merged", "opened", "written", "reopened"}]
      /\ handle' \in [Processes -> {"none", "tmp", "file", "gone"}]
      /\ \A q \in Processes : step[q] = "idle" => step'[q] = "idle"
  <2>1. CASE Index!FallBack(p)
    BY <2>1 DEF Index!FallBack, Index!TypeOK
  <2>2. CASE Index!WriteInPlace(p)
    BY <2>2 DEF Index!WriteInPlace, Index!Finish, Index!Stages, Index!TypeOK
  <2> QED BY <2>1, <2>2
<1>2. \A old \in Index!Files : Index!Written(p, old) \subseteq Index!Files
      /\ \A f \in Index!Written(p, old) : f.entries \in {merged[p], Index!Empty}
  BY FilesHoldIndexes DEF Index!Written, Index!TypeOK
<1>3. indexFile' \in {indexFile, Index!Torn} \cup Index!Written(p, indexFile)
  BY DEF Index!FallBack, Index!WriteInPlace
<1>4. /\ merged' \in [Processes -> Index!Index]
      /\ \A q \in Processes : merged'[q] \in {merged[q], Index!Empty}
  BY EmptyIsAnIndex DEF Index!FallBack, Index!WriteInPlace, Index!Finish, Index!TypeOK
<1>5. Index!TypeOK'
  BY <1>1, <1>2, <1>3, <1>4, FilesHoldIndexes DEF Index!TypeOK
<1>6. Index!IdsTaken'
  BY <1>1, <1>2, <1>3, <1>4, FilesHoldIndexes, EmptyIsAnIndex DEF Index!IdsTaken, Index!TypeOK
<1>7. Index!DownIsEmpty' /\ Index!KnownByOne'
  BY <1>1 DEF Index!DownIsEmpty, Index!KnownByOne
<1> QED BY <1>1, <1>5, <1>6, <1>7 DEF Index!OneAtATime, Index!Stages, Index!AllInFile

\* The file is the old one with the memory of the process over it: nobody else's
\* task is in that memory.
LEMMA RenameKeeps ==
    ASSUME Index!IInv, NEW p \in Processes, Index!Rename(p)
    PROVE  Index!IInv'
<1> USE DEF Index!IInv
<1>1. /\ step[p] = "written" /\ tmp # Index!NoFile /\ indexFile' = tmp /\ tmp' = Index!NoFile
      /\ step' = [step EXCEPT ![p] = "idle"] /\ merged' = [merged EXCEPT ![p] = Index!Empty]
      /\ UNCHANGED <<memory, alive, awaiting, created, shared, rough>>
  BY DEF Index!Rename, Index!Finish
<1>2. handle' \in [Processes -> {"none", "tmp", "file", "gone"}]
  BY DEF Index!Rename, Index!TypeOK
<1>3. Index!TypeOK'
  BY <1>1, <1>2, FilesHoldIndexes, EmptyIsAnIndex DEF Index!TypeOK
<1>4. /\ step'[p] = "idle" /\ merged'[p] = Index!Empty
      /\ \A q \in Processes \ {p} : step'[q] = step[q] /\ merged'[q] = merged[q]
  BY <1>1 DEF Index!TypeOK
<1>5. Index!IdsTaken'
  BY <1>1, <1>4, FilesHoldIndexes, EmptyIsAnIndex DEF Index!IdsTaken
<1>6. Index!DownIsEmpty' /\ Index!KnownByOne' /\ Index!OneAtATime'
  BY <1>1, <1>4 DEF Index!DownIsEmpty, Index!KnownByOne, Index!OneAtATime, Index!Alone
<1>7. ASSUME ~rough
      PROVE  /\ indexFile' = Index!Whole(Index!Merge(p))
             /\ \A q \in Processes : step'[q] = "idle"
  BY <1>1, <1>4, <1>7 DEF Index!Stages, Index!OneAtATime, Index!Alone
<1>8. memory[p] \in Index!Index /\ indexFile.entries \in Index!Index
  BY FilesHoldIndexes DEF Index!TypeOK
<1>9. Index!Merge(p) \in Index!Index
  BY <1>8, OverIsAnIndex DEF Index!Merge
<1>10. Index!Stages'
  BY <1>1, <1>7, <1>9, FilesHoldIndexes DEF Index!Stages
<1>11. ASSUME ~rough, NEW q \in Processes, NEW t \in DOMAIN memory[q],
              t \notin shared \cup awaiting[q]
       PROVE  Index!InFile(q, t)'
  <2>1. /\ DOMAIN Index!Merge(p) = DOMAIN memory[p] \cup DOMAIN indexFile.entries
        /\ t \in DOMAIN memory[p] => Index!Merge(p)[t] = memory[p][t]
        /\ t \in DOMAIN indexFile.entries \ DOMAIN memory[p]
               => Index!Merge(p)[t] = indexFile.entries[t]
    BY <1>8, OverIsAnIndex DEF Index!Merge
  <2>2. indexFile'.entries = Index!Merge(p)
    BY <1>7, <1>9, <1>11, FilesHoldIndexes
  <2>3. CASE q = p
    BY <1>1, <2>1, <2>2, <2>3 DEF Index!InFile
  <2>4. CASE q # p
    <3>1. t \notin DOMAIN memory[p]
      BY <1>11, <2>4 DEF Index!KnownByOne
    <3>2. step[q] = "idle"
      BY <1>1, <1>11, <2>4 DEF Index!OneAtATime, Index!Alone
    <3>3. Index!InFile(q, t)
      BY <1>11, <3>2 DEF Index!AllInFile
    <3> QED BY <1>1, <2>1, <2>2, <3>1, <3>3 DEF Index!InFile
  <2> QED BY <2>3, <2>4
<1>12. Index!AllInFile'
  BY <1>1, <1>11 DEF Index!AllInFile
<1> QED BY <1>3, <1>5, <1>6, <1>10, <1>12

\* A process that starts knows what the file says, as it says it.
LEMMA StartIndexKeeps ==
    ASSUME Index!IInv, NEW p \in Processes, Index!Start(p)
    PROVE  Index!IInv'
<1> DEFINE entries == indexFile.entries
           read == [t \in DOMAIN entries |-> Index!Loaded(entries[t])]
<1> USE DEF Index!IInv
<1>1. /\ ~alive[p] /\ alive' = [alive EXCEPT ![p] = TRUE]
      /\ memory' = [memory EXCEPT ![p] = read]
      /\ shared' = shared \cup {t \in DOMAIN entries : \E q \in Processes : t \in DOMAIN memory[q]}
      /\ UNCHANGED <<indexFile, tmp, awaiting, step, merged, handle, created, rough>>
  BY DEF Index!Start, Index!diskVars, Index!persistVars
<1>2. entries \in Index!Index
  BY FilesHoldIndexes DEF Index!TypeOK
<1>3. read \in Index!Index /\ DOMAIN read = DOMAIN entries
  BY <1>2, IndexesAreFunctions, LoadedStaysLoaded
<1>4. \A t \in DOMAIN entries : Index!Loaded(read[t]) = Index!Loaded(entries[t])
  BY LoadedStaysLoaded
<1>5. DOMAIN entries \subseteq Tasks
  BY <1>2, IndexesAreFunctions
<1> HIDE DEF read
<1>6. Index!TypeOK'
  BY <1>1, <1>3, <1>5 DEF Index!TypeOK
<1>7. /\ memory'[p] = read /\ \A q \in Processes \ {p} : memory'[q] = memory[q]
      /\ alive'[p] /\ \A q \in Processes \ {p} : alive'[q] = alive[q]
      /\ step[p] = "idle"
  BY <1>1 DEF Index!TypeOK, Index!DownIsEmpty
<1>8. Index!IdsTaken'
  BY <1>1, <1>3, <1>7 DEF Index!IdsTaken
<1>9. Index!DownIsEmpty'
  BY <1>1, <1>7 DEF Index!DownIsEmpty
<1>10. Index!KnownByOne'
  BY <1>1, <1>3, <1>7 DEF Index!KnownByOne
<1>11. Index!OneAtATime'
  BY <1>1 DEF Index!OneAtATime, Index!Alone
<1>12. Index!Stages'
  BY <1>1, <1>7 DEF Index!Stages, Index!Merge
<1>13. Index!AllInFile'
  BY <1>1, <1>3, <1>4, <1>7 DEF Index!AllInFile, Index!InFile
<1> QED BY <1>6, <1>8, <1>9, <1>10, <1>11, <1>12, <1>13

LEMMA StopIndexKeeps ==
    ASSUME Index!IInv, NEW p \in Processes, Index!Stop(p)
    PROVE  Index!IInv'
<1> USE DEF Index!IInv
<1>1. /\ alive' = [alive EXCEPT ![p] = FALSE]
      /\ memory' = [memory EXCEPT ![p] = Index!Empty]
      /\ awaiting' = [awaiting EXCEPT ![p] = {}]
      /\ step' = [step EXCEPT ![p] = "idle"]
      /\ merged' = [merged EXCEPT ![p] = Index!Empty]
      /\ handle' = [handle EXCEPT ![p] = "none"]
      /\ UNCHANGED <<indexFile, tmp, created, shared, rough>>
  BY DEF Index!Stop, Index!diskVars
<1>2. Index!TypeOK'
  BY <1>1, EmptyIsAnIndex DEF Index!TypeOK
<1>3. /\ memory'[p] = Index!Empty /\ step'[p] = "idle" /\ merged'[p] = Index!Empty
      /\ \A q \in Processes \ {p} :
             /\ memory'[q] = memory[q] /\ alive'[q] = alive[q] /\ awaiting'[q] = awaiting[q]
             /\ step'[q] = step[q] /\ merged'[q] = merged[q] /\ handle'[q] = handle[q]
  BY <1>1 DEF Index!TypeOK
<1>4. Index!IdsTaken' /\ Index!DownIsEmpty' /\ Index!KnownByOne' /\ Index!OneAtATime'
  BY <1>1, <1>3, EmptyIsAnIndex
     DEF Index!IdsTaken, Index!DownIsEmpty, Index!KnownByOne, Index!OneAtATime, Index!Alone
<1>5. Index!Stages'
  BY <1>1, <1>3 DEF Index!Stages, Index!Merge
<1>6. Index!AllInFile'
  BY <1>1, <1>3, EmptyIsAnIndex DEF Index!AllInFile, Index!InFile
<1> QED BY <1>2, <1>4, <1>5, <1>6

\* The file goes together with the tasks of the only process that runs.
LEMMA CleanKeeps ==
    ASSUME Index!IInv, NEW p \in Processes, Index!CleanProject(p)
    PROVE  Index!IInv'
<1> USE DEF Index!IInv
<1>1. /\ step[p] = "idle" /\ indexFile' = Index!NoFile
      /\ memory' = [memory EXCEPT ![p] = Index!Empty]
      /\ rough' = (rough \/ \E q \in Processes \ {p} : alive[q])
      /\ UNCHANGED <<tmp, alive, awaiting, step, merged, created, shared>>
  BY DEF Index!CleanProject, Index!Idle
<1>2. handle' \in [Processes -> {"none", "tmp", "file", "gone"}]
  BY DEF Index!CleanProject, Index!TypeOK
<1>3. Index!TypeOK'
  BY <1>1, <1>2, FilesHoldIndexes, EmptyIsAnIndex DEF Index!TypeOK
<1>4. memory'[p] = Index!Empty /\ \A q \in Processes \ {p} : memory'[q] = memory[q]
  BY <1>1 DEF Index!TypeOK
<1>5. Index!IdsTaken' /\ Index!DownIsEmpty' /\ Index!KnownByOne' /\ Index!OneAtATime'
  BY <1>1, <1>4, EmptyIsAnIndex, FilesHoldIndexes
     DEF Index!IdsTaken, Index!DownIsEmpty, Index!KnownByOne, Index!OneAtATime, Index!Alone
<1>6. ASSUME ~rough'
      PROVE  \A q \in Processes : memory'[q] = Index!Empty /\ step[q] = "idle"
  BY <1>1, <1>4, <1>6 DEF Index!DownIsEmpty
<1>7. Index!Stages' /\ Index!AllInFile'
  BY <1>1, <1>6, EmptyIsAnIndex, FilesHoldIndexes DEF Index!Stages, Index!AllInFile
<1> QED BY <1>3, <1>5, <1>7

LEMMA IndexNextKeeps ==
    ASSUME Index!IInv, [Index!Next]_(Index!vars)
    PROVE  Index!IInv'
<1>1. ASSUME NEW p \in Processes, NEW t \in Tasks, Index!CreateTask(p, t)
      PROVE  Index!IInv'
  BY <1>1, ChangeKeeps DEF Index!CreateTask, Index!Statuses
<1>2. ASSUME NEW p \in Processes, NEW t \in Tasks, NEW status \in Moves,
             Index!UpdateStatus(p, t, status)
      PROVE  Index!IInv'
  BY <1>2, ChangeKeeps DEF Index!UpdateStatus, Index!Statuses
<1>3. CASE UNCHANGED Index!vars
  BY <1>3 DEF Index!vars, Index!diskVars, Index!persistVars, Index!IInv, Index!TypeOK,
              Index!IdsTaken, Index!DownIsEmpty, Index!KnownByOne, Index!OneAtATime,
              Index!Alone, Index!Stages, Index!Merge, Index!AllInFile, Index!InFile
<1> QED BY <1>1, <1>2, <1>3, BeginPersistKeeps, WriteTmpKeeps, RoughKeeps, RenameKeeps,
           StartIndexKeeps, StopIndexKeeps, CleanKeeps DEF Index!Next

LEMMA IndexInit ==
    ASSUME Index!Init
    PROVE  Index!IInv
<1> USE DEF Index!Init
<1>1. Index!TypeOK
  BY FilesHoldIndexes, EmptyIsAnIndex DEF Index!TypeOK
<1>2. Index!IdsTaken /\ Index!DownIsEmpty /\ Index!KnownByOne /\ Index!OneAtATime
  BY FilesHoldIndexes, EmptyIsAnIndex
     DEF Index!IdsTaken, Index!DownIsEmpty, Index!KnownByOne, Index!OneAtATime
<1>3. Index!Stages /\ Index!AllInFile
  BY FilesHoldIndexes, EmptyIsAnIndex DEF Index!Stages, Index!AllInFile
<1> QED BY <1>1, <1>2, <1>3 DEF Index!IInv

\* However many processes persist, are killed and start, the next start of one
\* shows each settled task as it is, unless two wrote at the same time.
THEOREM SettledTasksAreKept == FilesSpec => []NothingLost
<1>1. Index!IInv => NothingLost
  BY DEF Index!IInv, NothingLost, Index!NothingLost, Index!Settled, Index!Stages,
         Index!AllInFile, Index!InFile
<1> QED BY <1>1, IndexInit, IndexNextKeeps, PartsAreImplemented, PTL DEF Index!Spec
=============================================================================
