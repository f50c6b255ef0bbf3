---------------------------- MODULE ContextInbox ----------------------------
(***************************************************************************)
(* The pages a user sends from the browser (api/context_inbox.py), one JSON *)
(* line each.  An item is appended; deleting one or attaching items to a   *)
(* task reads the lines that parse and writes them again.  Nothing in      *)
(* those calls awaits, so within one server they do not interleave, but    *)
(* the server can be killed in the middle of each.  Items are numbered in  *)
(* the order they are received in; what is in them is left out.            *)
(***************************************************************************)
EXTENDS FiniteSets, Integers

CONSTANTS
    Limit,       \* items a rewrite reads, 10 000 in the code
    MaxItems,    \* bound: items received
    MaxCrashes   \* bound

\* What the constants are taken from.
ConstantsOK == Limit \in Nat

VARIABLES
    stored,      \* the items whose line in the file parses
    tail,        \* the last line has its end, is cut off, or lacks only its end
    undecodable, \* a line has been cut inside a character
    received,    \* the number of the newest item
    kept,        \* history: items that were acknowledged and not deleted
    crashes,     \* history
    emptied      \* history: the server was killed within a rewrite

vars == <<stored, tail, undecodable, received, kept, crashes, emptied>>

Init ==
    /\ stored = {} /\ tail = "ended" /\ undecodable = FALSE /\ received = 0
    /\ kept = {} /\ crashes = 0 /\ emptied = FALSE

\* A line appended to one without an end makes a line that does not parse.
Appended(item) ==
    CASE tail = "ended" -> stored \cup {item}
      [] tail = "cut" -> stored
      [] tail = "whole" -> stored \ {received}

\* The line is written without its end.
MUTANT_Add ==
    /\ received < MaxItems
    /\ received' = received + 1
    /\ stored' = Appended(received')
    /\ tail' = IF tail = "ended" THEN "whole" ELSE "cut"
    /\ kept' = kept \cup {received'}
    /\ UNCHANGED <<undecodable, crashes, emptied>>

Add ==
    /\ received < MaxItems
    /\ received' = received + 1
    /\ stored' = Appended(received')
    /\ tail' = "ended"
    /\ kept' = kept \cup {received'}
    /\ UNCHANGED <<undecodable, crashes, emptied>>

\* Part of the line has reached the file, or all of it but its end.  Lines are
\* written as they are, so a cut may fall inside a character: no line to come
\* makes the bytes before it a character again.
CrashInAdd ==
    /\ received < MaxItems /\ crashes < MaxCrashes
    /\ received' = received + 1
    /\ \/ /\ tail' = "whole" /\ tail = "ended"
          /\ stored' = stored \cup {received'}
          /\ UNCHANGED undecodable
       \/ /\ tail' = "cut" /\ stored' = Appended(received') \ {received'}
          /\ undecodable' \in {undecodable, TRUE}
    /\ crashes' = crashes + 1
    /\ UNCHANGED <<kept, emptied>>

Newer(item) == {other \in stored : other > item}

\* What list returns.  The file is decoded outside the try that skips a line,
\* so bytes that are no character end list, and with it get, delete and
\* attach_to_task, by an exception.
Listed == IF undecodable THEN {} ELSE stored

\* delete and attach_to_task write the newest items they could read.
Rewrite(items) ==
    /\ ~undecodable
    /\ stored' = {item \in items : Cardinality(Newer(item)) < Limit}
    /\ tail' = "ended"
    /\ UNCHANGED <<undecodable, received, crashes, emptied>>

Delete(item) ==
    /\ item \in stored
    /\ Rewrite(stored \ {item})
    /\ kept' = kept \ {item}

AttachToTask ==
    /\ Rewrite(stored)
    /\ UNCHANGED kept

\* Opening for writing has emptied the file; the newest items are written
\* first, and the last line may be cut, in or between characters.  That it
\* lacks only its end is left out.
CrashInRewrite ==
    /\ ~undecodable
    /\ stored # {} /\ crashes < MaxCrashes
    /\ \E n \in 0..(Cardinality(stored) - 1) :
          stored' = {item \in stored : Cardinality(Newer(item)) < n}
    /\ \/ tail' = "ended" /\ UNCHANGED undecodable
       \/ tail' = "cut" /\ undecodable' \in BOOLEAN
    /\ crashes' = crashes + 1
    /\ emptied' = TRUE
    /\ UNCHANGED <<received, kept>>

Next ==
    \/ Add \/ CrashInAdd \/ AttachToTask \/ CrashInRewrite
    \/ \E item \in 1..MaxItems : Delete(item)

Spec == Init /\ [][Next]_vars
-----------------------------------------------------------------------------
(* Properties.                                                             *)

\* Of the newest Limit items, those that were taken and are not there.
Lost == {item \in kept \ stored : item > received - Limit}

\* A kill costs the file at most one of the newest Limit items the server said
\* it had taken: a line it cuts off spoils the line after it and no other, and
\* the next rewrite mends the file.  Only a kill within a rewrite costs more.
\* Whether the items of the file can still be read is with OnlyBadLinesSkipped.
OneItemPerCrash == ~emptied => Cardinality(Lost) <= crashes

\* NOT a property of the code.  list skips a bad line (context_inbox.py 86-87)
\* and shows the others, so that a kill costs the user at most one item.  A line
\* cut inside a character makes list raise instead (80), so nothing is shown
\* any more, and as delete and attach_to_task raise too, nothing mends the file.
OnlyBadLinesSkipped ==
    ~emptied => Cardinality({item \in kept \ Listed : item > received - Limit}) <= crashes

(* What makes it inductive.                                                *)

\* Every variable holds a value of its kind.
TypeOK ==
    /\ received \in Nat /\ crashes \in Nat
    /\ stored \subseteq 1 .. received /\ kept \subseteq 1 .. received
    /\ tail \in {"ended", "cut", "whole"}
    /\ undecodable \in BOOLEAN /\ emptied \in BOOLEAN

\* A line without its end was never acknowledged.
TailNotKept == tail = "whole" => received \notin kept

\* The kill that left a line without its end has its item still to lose.
OneMayFollow ==
    ~emptied => Cardinality(Lost) + (IF tail = "ended" THEN 0 ELSE 1) <= crashes

IInv == TypeOK /\ TailNotKept /\ OneMayFollow
=============================================================================
