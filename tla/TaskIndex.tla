----------------------------- MODULE TaskIndex -----------------------------
(***************************************************************************)
(* The index of tasks on disk (core/state_manager.py, _persist_task_index  *)
(* and _load_task_index), shared by every process that was given the same  *)
(* storage directory - a daemon and a left-over REPL, typically.           *)
(*                                                                         *)
(* A change of a task is made in memory, published (awaited), and only     *)
(* then persisted.  Persisting merges the file with the memory of the      *)
(* process, writes the result to task_index.json.tmp and renames it.  The  *)
(* coroutines of one process do not interleave within that, but its steps  *)
(* are system calls another process may come between, or a crash.          *)
(* Changes of one task that are being published together count as one.     *)
(***************************************************************************)
EXTENDS Integers

CONSTANTS
    Processes,
    Tasks,
    Moves      \* the statuses tasks are moved to

Statuses == Moves \cup {"pending", "failed"}
Index == UNION {[known -> Statuses] : known \in SUBSET Tasks}
Empty == [t \in {} |-> "pending"]

\* Entries of one index over those of another.
Over(new, old) ==
    [t \in DOMAIN new \cup DOMAIN old |-> IF t \in DOMAIN new THEN new[t] ELSE old[t]]

\* What a file holds.
Whole(entries) == [kind |-> "whole", entries |-> entries]
NoFile == [kind |-> "none", entries |-> Empty]
Torn == [kind |-> "unreadable", entries |-> Empty]
Files == {Whole(entries) : entries \in Index} \cup {NoFile, Torn}

VARIABLES
    file,      \* task_index.json
    tmp,       \* task_index.json.tmp
    memory,    \* _tasks of each process
    up,        \* the process runs
    awaiting,  \* tasks whose change is being published, per process
    step,      \* how far the process is with persisting
    merged,    \* what it is about to write
    handle,    \* the file its open handle leads to: renaming moves it along
    created,   \* the task ids that are taken
    shared,    \* history: the tasks two running processes have known
    rough      \* history: two processes persisted at the same time, one
               \* cleaned under the other, or a write failed

diskVars == <<file, tmp>>
persistVars == <<step, merged, handle>>
vars == <<diskVars, memory, up, awaiting, persistVars, created, shared, rough>>

Init ==
    /\ file = NoFile /\ tmp = NoFile
    /\ memory = [p \in Processes |-> Empty]
    /\ up = [p \in Processes |-> FALSE]
    /\ awaiting = [p \in Processes |-> {}]
    /\ step = [p \in Processes |-> "idle"]
    /\ merged = [p \in Processes |-> Empty]
    /\ handle = [p \in Processes |-> "none"]
    /\ created = {}
    /\ shared = {}
    /\ rough = FALSE

\* The status a task is given when it is loaded: what was running has failed.
Loaded(status) == IF status = "in_progress" THEN "failed" ELSE status

Alone(p) == \A q \in Processes \ {p} : step[q] = "idle"

Idle(p) == up[p] /\ step[p] = "idle"

-----------------------------------------------------------------------------
(* Changes in memory.                                                      *)

Change(p, t, status) ==
    /\ memory' = [memory EXCEPT ![p] = Over([u \in {t} |-> status], memory[p])]
    /\ awaiting' = [awaiting EXCEPT ![p] = @ \cup {t}]
    /\ created' = created \cup {t}
    /\ UNCHANGED <<diskVars, up, persistVars, shared, rough>>

CreateTask(p, t) ==
    /\ Idle(p) /\ t \notin created
    /\ Change(p, t, "pending")

\* A status that does not change is not persisted.
UpdateStatus(p, t, status) ==
    /\ Idle(p) /\ t \in DOMAIN memory[p] /\ memory[p][t] # status
    /\ Change(p, t, status)

-----------------------------------------------------------------------------
(* Persisting.                                                             *)

\* Old entries win over the memory of the process.
MUTANT_Merge(p) == Over(file.entries, memory[p])

Merge(p) == Over(memory[p], file.entries)

\* The event of a change has been published: the file is read and merged.
BeginPersist(p, t) ==
    /\ Idle(p) /\ t \in awaiting[p]
    /\ awaiting' = [awaiting EXCEPT ![p] = @ \ {t}]
    /\ merged' = [merged EXCEPT ![p] = Merge(p)]
    /\ step' = [step EXCEPT ![p] = "merged"]
    /\ rough' = (rough \/ ~Alone(p))
    /\ UNCHANGED <<diskVars, memory, up, handle, created, shared>>

\* Opening for writing empties the file.
OpenTmp(p) ==
    /\ step[p] = "merged"
    /\ tmp' = Torn
    /\ handle' = [handle EXCEPT ![p] = "tmp"]
    /\ step' = [step EXCEPT ![p] = "opened"]
    /\ UNCHANGED <<file, memory, up, awaiting, merged, created, shared, rough>>

\* The text is written where the handle leads; over the text of another
\* process it may leave the end of that.
Written(p, old) == {Whole(merged[p])} \cup (IF old = Torn THEN {} ELSE {Torn})

WriteTmp(p) ==
    /\ step[p] = "opened"
    /\ \/ handle[p] = "tmp" /\ tmp' \in Written(p, tmp) /\ UNCHANGED file
       \/ handle[p] = "file" /\ file' \in Written(p, file) /\ UNCHANGED tmp
       \/ handle[p] = "gone" /\ UNCHANGED diskVars
    /\ step' = [step EXCEPT ![p] = "written"]
    /\ UNCHANGED <<memory, up, awaiting, merged, handle, created, shared, rough>>

\* Writing fails (the disk is full), or there is nothing to rename any more:
\* the index is overwritten in place.
FallBack(p) ==
    /\ step[p] = "opened" \/ (step[p] = "written" /\ tmp = NoFile)
    /\ file' = Torn
    /\ handle' = [handle EXCEPT ![p] = "file"]
    /\ step' = [step EXCEPT ![p] = "reopened"]
    /\ rough' = TRUE
    /\ UNCHANGED <<tmp, memory, up, awaiting, merged, created, shared>>

Finish(p) ==
    /\ step' = [step EXCEPT ![p] = "idle"]
    /\ merged' = [merged EXCEPT ![p] = Empty]

Rename(p) ==
    /\ step[p] = "written" /\ tmp # NoFile
    /\ file' = tmp /\ tmp' = NoFile
    /\ handle' = [q \in Processes |->
           CASE q = p -> "none"
             [] q # p /\ handle[q] = "tmp" -> "file"
             [] q # p /\ handle[q] = "file" -> "gone"
             [] OTHER -> handle[q]]
    /\ Finish(p)
    /\ UNCHANGED <<memory, up, awaiting, created, shared, rough>>

\* The fallback write, which may fail as well and leaves the index unreadable.
WriteInPlace(p) ==
    /\ step[p] = "reopened"
    /\ \/ handle[p] = "file" /\ file' \in {Torn} \cup Written(p, file)
       \/ handle[p] # "file" /\ UNCHANGED file
    /\ handle' = [handle EXCEPT ![p] = "none"]
    /\ Finish(p)
    /\ UNCHANGED <<tmp, memory, up, awaiting, created, shared, rough>>

-----------------------------------------------------------------------------
(* Processes.                                                              *)

\* A process starts and loads the index; an unreadable one counts as empty.
Start(p) ==
    /\ ~up[p]
    /\ up' = [up EXCEPT ![p] = TRUE]
    /\ memory' = [memory EXCEPT ![p] =
           [t \in DOMAIN file.entries |-> Loaded(file.entries[t])]]
    /\ shared' = shared \cup
           {t \in DOMAIN file.entries : \E q \in Processes : t \in DOMAIN memory[q]}
    /\ UNCHANGED <<diskVars, awaiting, persistVars, created, rough>>

\* A process ends or is killed, at any point.
Stop(p) ==
    /\ up[p]
    /\ up' = [up EXCEPT ![p] = FALSE]
    /\ memory' = [memory EXCEPT ![p] = Empty]
    /\ awaiting' = [awaiting EXCEPT ![p] = {}]
    /\ step' = [step EXCEPT ![p] = "idle"]
    /\ merged' = [merged EXCEPT ![p] = Empty]
    /\ handle' = [handle EXCEPT ![p] = "none"]
    /\ UNCHANGED <<diskVars, created, shared, rough>>

\* clean_project removes the index (not the .tmp) and forgets the tasks of its
\* own process; changes that are being published are persisted afterwards.
CleanProject(p) ==
    /\ Idle(p)
    /\ file' = NoFile
    /\ memory' = [memory EXCEPT ![p] = Empty]
    /\ rough' = (rough \/ \E q \in Processes \ {p} : up[q])
    /\ handle' = [q \in Processes |-> IF handle[q] = "file" THEN "gone" ELSE handle[q]]
    /\ UNCHANGED <<tmp, up, awaiting, step, merged, created, shared>>

Next == \E p \in Processes :
    \/ \E t \in Tasks : CreateTask(p, t) \/ BeginPersist(p, t)
    \/ \E t \in Tasks, status \in Moves : UpdateStatus(p, t, status)
    \/ OpenTmp(p) \/ WriteTmp(p) \/ FallBack(p) \/ Rename(p) \/ WriteInPlace(p)
    \/ Start(p) \/ Stop(p) \/ CleanProject(p)

Spec == Init /\ [][Next]_vars
-----------------------------------------------------------------------------
(* Properties.                                                             *)

\* Every variable holds a value of its kind.
TypeOK ==
    /\ file \in Files /\ tmp \in Files
    /\ memory \in [Processes -> Index]
    /\ up \in [Processes -> BOOLEAN]
    /\ awaiting \in [Processes -> SUBSET Tasks]
    /\ step \in [Processes -> {"idle", "merged", "opened", "written", "reopened"}]
    /\ merged \in [Processes -> Index]
    /\ handle \in [Processes -> {"none", "tmp", "file", "gone"}]
    /\ created \subseteq Tasks
    /\ shared \subseteq Tasks
    /\ rough \in BOOLEAN

\* The process has no change left to persist, and no other has known the task.
Settled(p, t) ==
    /\ t \in DOMAIN memory[p] /\ t \notin shared
    /\ awaiting[p] = {} /\ step[p] = "idle"

\* If the process were killed now, its next start would show each of its tasks
\* with the status it has, except that a running one has failed: no change is
\* left in memory only, what another process persists of its own tasks takes
\* nothing away from these, and the index can be read although processes are
\* killed in the middle of persisting, as the rename puts a whole file in the
\* place of a whole file.
NothingLost ==
    \A p \in Processes, t \in Tasks :
        ~rough /\ Settled(p, t) =>
            /\ file # Torn
            /\ t \in DOMAIN file.entries
            /\ Loaded(file.entries[t]) = Loaded(memory[p][t])

(* What makes it inductive.                                                *)

\* A task that anything mentions has taken its id.
IdsTaken ==
    /\ \A p \in Processes : DOMAIN memory[p] \cup DOMAIN merged[p] \subseteq created
    /\ DOMAIN file.entries \cup DOMAIN tmp.entries \subseteq created

\* A process that is down knows nothing and writes nothing.
DownIsEmpty == \A p \in Processes : ~up[p] => memory[p] = Empty /\ step[p] = "idle"

\* What two processes know is shared.
KnownByOne ==
    \A p, q \in Processes : p # q => DOMAIN memory[p] \cap DOMAIN memory[q] \subseteq shared

\* Unless it was rough, the processes have persisted one at a time, what is
\* about to be written has not been overtaken, and the file is whole.
OneAtATime == ~rough => \A p \in Processes : step[p] # "idle" => Alone(p)
Stages ==
    ~rough =>
        /\ file # Torn
        /\ \A p \in Processes :
            /\ step[p] # "reopened"
            /\ step[p] # "idle" => merged[p] = Merge(p)
            /\ step[p] \in {"opened", "written"} => handle[p] = "tmp"
            /\ step[p] = "opened" => tmp = Torn
            /\ step[p] = "written" => tmp = Whole(merged[p])

\* A change that is no longer awaited is in the file, once the process is
\* through with persisting.
InFile(p, t) ==
    t \in DOMAIN file.entries /\ Loaded(file.entries[t]) = Loaded(memory[p][t])
AllInFile ==
    ~rough => \A p \in Processes : step[p] = "idle" =>
        \A t \in DOMAIN memory[p] \ (shared \cup awaiting[p]) : InFile(p, t)

IInv ==
    /\ TypeOK /\ IdsTaken /\ DownIsEmpty /\ KnownByOne
    /\ OneAtATime /\ Stages /\ AllInFile
=============================================================================
