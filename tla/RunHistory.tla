----------------------------- MODULE RunHistory -----------------------------
(***************************************************************************)
(* The histories of test runs, packages and deployments (core/test_store,  *)
(* package_store and deploy_store), filled by scans that routes.py makes   *)
(* of the report directories and, over ssh, of other machines.  A scan     *)
(* blocks the server from beginning to end.  Test runs are stored when     *)
(* they have changed, the two others at every scan; a write that fails is  *)
(* logged and forgotten.                                                   *)
(***************************************************************************)
EXTENDS TLC

CONSTANTS
    TestRuns,    \* report directories, by root and date
    Images       \* ISO images on a build or target machine

Records == TestRuns \cup Images
Contents == {"partial", "full"}     \* what a scan sees of a record

VARIABLES
    outside,     \* what is there to scan
    memory,      \* _runs
    disk,        \* the file
    seen,        \* history: what the last scan of a record saw
    failed       \* history: the last write failed

vars == <<outside, memory, disk, seen, failed>>

None == [r \in {} |-> "full"]
Histories == UNION {[known -> Contents] : known \in SUBSET Records}

Init ==
    /\ outside = None /\ memory = None /\ disk = None
    /\ seen = None /\ failed = FALSE

\* Suites and builds write reports and images; they are cleaned away as well.
OutsideChanges(r, content) ==
    /\ outside' = IF content = "gone"
                  THEN [s \in DOMAIN outside \ {r} |-> outside[s]]
                  ELSE (r :> content) @@ outside
    /\ UNCHANGED <<memory, disk, seen, failed>>

Persist(history) ==
    \/ disk' = history /\ failed' = FALSE
    \/ disk' = disk /\ failed' = TRUE

Scanned(records) == [r \in records |-> outside[r]]

\* Only runs that are not known yet are taken over.
MUTANT_ScanReports ==
    LET found == Scanned(DOMAIN outside \cap TestRuns) IN
    /\ memory' = memory @@ found
    /\ seen' = found @@ seen
    /\ IF memory' = memory THEN UNCHANGED <<disk, failed>> ELSE Persist(memory')
    /\ UNCHANGED outside

\* list_test_reports, test_runs: TestStore.sync writes what has changed.
ScanReports ==
    LET found == Scanned(DOMAIN outside \cap TestRuns) IN
    /\ memory' = found @@ memory
    /\ seen' = found @@ seen
    /\ IF memory' = memory THEN UNCHANGED <<disk, failed>> ELSE Persist(memory')
    /\ UNCHANGED outside

\* package_scan, deploy_iso_scan: one record, written in any case.
ScanMachine(r) ==
    LET found == Scanned({r}) IN
    /\ r \in DOMAIN outside
    /\ memory' = found @@ memory
    /\ seen' = found @@ seen
    /\ Persist(memory')
    /\ UNCHANGED outside

\* Written to a temporary file that is renamed: a kill leaves the old file or
\* the new one.  What was not written is forgotten.
Restart ==
    /\ memory' = disk
    /\ seen' = IF failed THEN disk ELSE seen
    /\ failed' = FALSE
    /\ UNCHANGED <<outside, disk>>

Next ==
    \/ \E r \in Records, content \in Contents \cup {"gone"} : OutsideChanges(r, content)
    \/ ScanReports
    \/ \E r \in Images : ScanMachine(r)
    \/ Restart

Spec == Init /\ [][Next]_vars
-----------------------------------------------------------------------------
(* Properties.                                                             *)

\* "Still shown after a restart, even if the suite has cleaned the reports of
\* the day" (test_store.py 6): every record is on disk as a scan saw it last,
\* whatever became of the reports, unless the last write failed.
HistorySurvives == failed \/ disk = seen

\* What makes it inductive: the server shows each record as a scan saw it last,
\* so that a scan that changes nothing need not write.
InMemory == memory = seen
IInv == InMemory /\ HistorySurvives
=============================================================================
