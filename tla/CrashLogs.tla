------------------------------ MODULE CrashLogs ------------------------------
(***************************************************************************)
(* The crash logs of the device, which fetch_crash_report copies by FTP to *)
(* .kedo/crash_reports, one directory for all tasks, and analyses.  The    *)
(* copy is made by a thread that a cancelled task leaves behind; a log     *)
(* that is there by name is not copied again.                              *)
(*                                                                         *)
(* Which question an answer is for is the matter of UserAnswers; here one  *)
(* arrives when it has to.  Logs are numbered, as their names begin with   *)
(* the time of the crash.  The address of the device, which device.json    *)
(* remembers to fill in the form, is left out.                             *)
(***************************************************************************)
EXTENDS Naturals, FiniteSets, FiniteSetsExt

CONSTANTS
    Calls,       \* calls of the tool, and the threads that copy for them
    MaxLogs      \* bound: crashes of the device

Logs == 1 .. MaxLogs

\* What a file may be called must not be mistaken for a call.
ConstantsOK == Calls \cap {"whole", "cut off"} = {} /\ MaxLogs \in Nat

VARIABLES
    device,      \* the logs on the device
    local,       \* the files: "whole", "cut off" or the call that opened it last
    fetch,       \* per call, how far it is
    analysed     \* history: how the logs were that have been analysed

vars == <<device, local, fetch, analysed>>

\* before: s0, the names when the call began; todo: what its thread still has to
\* copy; loading: what it is copying (0: nothing); got, failed: whether it has
\* downloads and errors to report; dropped: its task was cancelled.
Idle == [at |-> "idle", before |-> {}, todo |-> {}, loading |-> 0,
         got |-> FALSE, failed |-> FALSE, dropped |-> FALSE]

Init ==
    /\ device = {} /\ local = [l \in {} |-> "whole"]
    /\ fetch = [c \in Calls |-> Idle]
    /\ analysed = {}

At(c, place) == fetch[c].at = place

\* The device writes another log.
DeviceCrashes ==
    /\ Cardinality(device) < MaxLogs
    /\ device' = device \cup {Cardinality(device) + 1}
    /\ UNCHANGED <<local, fetch, analysed>>

-----------------------------------------------------------------------------
(* The call, in the event loop.                                            *)

HowIs(l) ==
    IF local[l] \notin Calls THEN local[l]
    ELSE IF fetch[local[l]].loading = l THEN "on its way" ELSE "left over"

\* _analyze_local, if there is a binary with symbols for it.
Analyse(logs) ==
    \/ \E l \in logs : analysed' = analysed \cup {HowIs(l)}
    \/ UNCHANGED analysed

\* Without a request: a log is named, or the hint leaves one of those at hand.
UseLocal ==
    /\ DOMAIN local # {}
    /\ Analyse(DOMAIN local)
    /\ UNCHANGED <<device, local, fetch>>

\* No log at hand, or they are to be fetched again: ask the user.
Request(c) ==
    /\ At(c, "idle")
    /\ fetch' = [fetch EXCEPT ![c] = [Idle EXCEPT !.at = "asked", !.before = DOMAIN local]]
    /\ UNCHANGED <<device, local, analysed>>

\* Ready, with an address: the copying goes to a thread.
Ready(c) ==
    /\ At(c, "asked")
    /\ fetch' = [fetch EXCEPT ![c].at = "connecting"]
    /\ UNCHANGED <<device, local, analysed>>

\* Cancelled by the user or with its task, timed out, or without an address.
NotReady(c) ==
    /\ At(c, "asked")
    /\ fetch' = [fetch EXCEPT ![c] = Idle]
    /\ UNCHANGED <<device, local, analysed>>

\* What is there now and was not before, by whomever, is new; one of the new
\* ones is analysed, or they are listed for the model to pick from.  Nothing is
\* if the thread has only errors to report.
Return(c) ==
    /\ At(c, "copied") /\ ~fetch[c].dropped
    /\ Analyse(IF fetch[c].failed /\ ~fetch[c].got THEN {}
               ELSE DOMAIN local \ fetch[c].before)
    /\ fetch' = [fetch EXCEPT ![c] = Idle]
    /\ UNCHANGED <<device, local>>

\* The task is cancelled while its thread copies: the thread goes on.
Drop(c) ==
    /\ fetch[c].at \in {"connecting", "copying", "copied"} /\ ~fetch[c].dropped
    /\ fetch' = [fetch EXCEPT ![c] =
                    [@ EXCEPT !.dropped = TRUE, !.before = {}, !.got = FALSE, !.failed = FALSE]]
    /\ UNCHANGED <<device, local, analysed>>

-----------------------------------------------------------------------------
(* _ftp_fetch_logs, in its thread.                                         *)

CannotConnect(c) ==
    /\ At(c, "connecting")
    /\ fetch' = [fetch EXCEPT ![c] = [@ EXCEPT !.at = "copied", !.failed = ~fetch[c].dropped]]
    /\ UNCHANGED <<device, local, analysed>>

\* Every log of the device that has no file, whole or not.
Connect(c) ==
    /\ At(c, "connecting")
    /\ fetch' = [fetch EXCEPT ![c] = [@ EXCEPT !.at = "copying", !.todo = device \ DOMAIN local]]
    /\ UNCHANGED <<device, local, analysed>>

\* open(..., "wb") empties a file that another thread has begun or finished.
Open(c) ==
    /\ At(c, "copying") /\ fetch[c].loading = 0 /\ fetch[c].todo # {}
    /\ LET l == Min(fetch[c].todo) IN
       /\ local' = [m \in DOMAIN local \cup {l} |-> IF m = l THEN c ELSE local[m]]
       /\ fetch' = [fetch EXCEPT ![c] = [@ EXCEPT !.loading = l, !.todo = fetch[c].todo \ {l}]]
    /\ UNCHANGED <<device, analysed>>

\* The last that has emptied a file makes it whole; a file that another thread
\* has removed since stays away, although it counts as downloaded.
Downloaded(c) ==
    /\ fetch[c].loading # 0
    /\ LET l == fetch[c].loading IN
       local' = IF l \in DOMAIN local /\ local[l] = c
                THEN [local EXCEPT ![l] = "whole"] ELSE local
    /\ fetch' = [fetch EXCEPT ![c] = [@ EXCEPT !.loading = 0, !.got = ~fetch[c].dropped]]
    /\ UNCHANGED <<device, analysed>>

\* What has been copied of a log stays when the transfer breaks off.
MUTANT_DownloadFails(c) ==
    /\ fetch[c].loading # 0
    /\ fetch' = [fetch EXCEPT ![c] = [@ EXCEPT !.loading = 0, !.failed = ~fetch[c].dropped]]
    /\ UNCHANGED <<device, local, analysed>>

\* The transfer breaks off: the file of that name is removed, whoever wrote it.
DownloadFails(c) ==
    /\ fetch[c].loading # 0
    /\ local' = [l \in DOMAIN local \ {fetch[c].loading} |-> local[l]]
    /\ fetch' = [fetch EXCEPT ![c] = [@ EXCEPT !.loading = 0, !.failed = ~fetch[c].dropped]]
    /\ UNCHANGED <<device, analysed>>

\* The thread is through; nobody takes the result of a dropped call.
Copied(c) ==
    /\ At(c, "copying") /\ fetch[c].loading = 0 /\ fetch[c].todo = {}
    /\ fetch' = [fetch EXCEPT ![c].at = "copied"]
    /\ UNCHANGED <<device, local, analysed>>

Forget(c) ==
    /\ At(c, "copied") /\ fetch[c].dropped
    /\ fetch' = [fetch EXCEPT ![c] = Idle]
    /\ UNCHANGED <<device, local, analysed>>

\* The process is killed: what was on its way stays as it is.
Kill ==
    /\ local' = [l \in DOMAIN local |-> IF local[l] \in Calls THEN "cut off" ELSE local[l]]
    /\ fetch' = [c \in Calls |-> Idle]
    /\ UNCHANGED <<device, analysed>>

Next ==
    \/ DeviceCrashes \/ UseLocal \/ Kill
    \/ \E c \in Calls : \/ Request(c) \/ Ready(c) \/ NotReady(c) \/ Return(c) \/ Drop(c)
                        \/ CannotConnect(c) \/ Connect(c) \/ Open(c) \/ Downloaded(c)
                        \/ DownloadFails(c) \/ Copied(c) \/ Forget(c)

Spec == Init /\ [][Next]_vars
-----------------------------------------------------------------------------
(* Properties.                                                             *)

Record == [at : {"idle", "asked", "connecting", "copying", "copied"},
           before : SUBSET Logs, todo : SUBSET Logs, loading : Nat,
           got : BOOLEAN, failed : BOOLEAN, dropped : BOOLEAN]

\* Every variable holds a value of its kind.
TypeOK ==
    /\ device \subseteq Logs /\ DOMAIN local \subseteq Logs
    /\ local \in [DOMAIN local -> {"whole", "cut off"} \cup Calls]
    /\ fetch \in [Calls -> Record]
    /\ analysed \subseteq {"whole", "cut off", "on its way", "left over"}

\* What a broken transfer leaves behind is never taken for a log
\* (fetch_crash_report_tool.py 147, "lest it is believed to be downloaded next
\* time"), however the threads of several calls empty, finish and remove each
\* other's file: an analysis meets a log that is not whole only while it is being
\* copied or when the process was killed over it.
NothingLeftOver == "left over" \notin analysed

(* What makes it inductive.                                                *)

\* A thread has a file open only while it copies.
OpenWhileCopying ==
    \A c \in Calls : fetch[c].loading # 0 => fetch[c].at = "copying"

\* A file that is not finished is being copied by the thread that opened it
\* last: a thread that goes on to another file has finished this one or has
\* removed it.
BeingCopied ==
    \A l \in DOMAIN local : local[l] \in Calls => fetch[local[l]].loading = l

IInv == TypeOK /\ OpenWhileCopying /\ BeingCopied /\ NothingLeftOver
=============================================================================
