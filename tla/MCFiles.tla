------------------------------ MODULE MCFiles ------------------------------
(* Seven kinds of files kedo keeps: the index of tasks, the settings of    *)
(* the user, the build profile, the deploy targets, the context inbox, the *)
(* histories of runs and the crash logs.  Checkpoints, loops.json, charter *)
(* and permissions are with the modules that use them.  No call here works *)
(* on two of them and none reads what another wrote, so each behaviour     *)
(* follows one kind of file, chosen at the start; the others keep their    *)
(* initial value.  The settings, the largest of them, come in by EXTENDS,  *)
(* which TLC is faster at, and so keep their names; the shell has a key    *)
(* for kimi at most, the provider of the default.                          *)
EXTENDS LlmSettings, TLC

CONSTANTS
    Processes, Tasks, Moves,
    Calls, MaxManifest, PriorCap, FixCap,
    Targets, Detected, Jobs,
    Limit, MaxItems, MaxCrashes,
    TestRuns, Images,
    MaxLogs

VARIABLES
    kind,
    indexFile, tmp, memory, alive, awaiting, step, merged, handle, created, shared, rough,
    manifest, disk, cache, guardCopy, call, used, vouched,
    targets, jobs, drifted,
    stored, tail, undecodable, received, kept, crashes, emptied,
    outside, runs, runsFile, seen, failed,
    device, local, fetch, analysed

Index == INSTANCE TaskIndex WITH file <- indexFile, up <- alive
Profile == INSTANCE ProjectProfile
Deploy == INSTANCE DeployTargets
Inbox == INSTANCE ContextInbox
History == INSTANCE RunHistory WITH memory <- runs, disk <- runsFile
Crash == INSTANCE CrashLogs

ASSUME FilesAssumption ==
    Profile!ConstantsOK /\ Deploy!ConstantsOK /\ Inbox!ConstantsOK /\ Crash!ConstantsOK

indexVars == <<indexFile, tmp, memory, alive, awaiting, step, merged, handle, created,
               shared, rough>>
settingsVars == vars
profileVars == <<manifest, disk, cache, guardCopy, call, used, vouched>>
deployVars == <<targets, jobs, drifted>>
inboxVars == <<stored, tail, undecodable, received, kept, crashes, emptied>>
historyVars == <<outside, runs, runsFile, seen, failed>>
logVars == <<device, local, fetch, analysed>>
filesVars == <<kind, indexVars, settingsVars, profileVars, deployVars, inboxVars, historyVars,
               logVars>>

FilesInit ==
    /\ kind \in {"index", "settings", "profile", "deploy", "inbox", "history", "logs"}
    /\ Init /\ Index!Init /\ Profile!Init /\ Deploy!Init /\ Inbox!Init /\ History!Init
    /\ Crash!Init
    /\ \A n \in Needy : shell[n] # Unset => kind = "settings" /\ n = "kimi"
    /\ kind # "profile" => manifest = 0 /\ disk = Profile!NoProfile

IndexStep ==
    /\ kind = "index" /\ Index!Next
    /\ UNCHANGED <<kind, settingsVars, profileVars, deployVars, inboxVars, historyVars, logVars>>

SettingsStep ==
    /\ kind = "settings" /\ Next
    /\ UNCHANGED <<kind, indexVars, profileVars, deployVars, inboxVars, historyVars, logVars>>

ProfileStep ==
    /\ kind = "profile" /\ Profile!Next
    /\ UNCHANGED <<kind, indexVars, settingsVars, deployVars, inboxVars, historyVars, logVars>>

DeployStep ==
    /\ kind = "deploy" /\ Deploy!Next
    /\ UNCHANGED <<kind, indexVars, settingsVars, profileVars, inboxVars, historyVars, logVars>>

InboxStep ==
    /\ kind = "inbox" /\ Inbox!Next
    /\ UNCHANGED <<kind, indexVars, settingsVars, profileVars, deployVars, historyVars, logVars>>

HistoryStep ==
    /\ kind = "history" /\ History!Next
    /\ UNCHANGED <<kind, indexVars, settingsVars, profileVars, deployVars, inboxVars, logVars>>

LogStep ==
    /\ kind = "logs" /\ Crash!Next
    /\ UNCHANGED <<kind, indexVars, settingsVars, profileVars, deployVars, inboxVars, historyVars>>

FilesNext ==
    \/ IndexStep \/ SettingsStep \/ ProfileStep \/ DeployStep
    \/ InboxStep \/ HistoryStep \/ LogStep

FilesSpec == FilesInit /\ [][FilesNext]_filesVars

\* The same two values stand for two processes, keys, calls or jobs; a kind of
\* file uses them as one of these.
Symmetry == Permutations(Processes)

\* The properties of the other modules, under their names; what each says is
\* in the module it is from.
NothingLost == Index!NothingLost
BuiltFromCurrent == Profile!BuiltFromCurrent
VerifiedStays == Profile!VerifiedStays
BusyMeansRunning == Deploy!BusyMeansRunning
OneItemPerCrash == Inbox!OneItemPerCrash
HistorySurvives == History!HistorySurvives
NothingLeftOver == Crash!NothingLeftOver
=============================================================================
