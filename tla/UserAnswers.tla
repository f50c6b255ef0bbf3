----------------------------- MODULE UserAnswers -----------------------------
(***************************************************************************)
(* The tools that stop a task until the user answers: propose_alternatives,*)
(* propose_charter_change and fetch_crash_report.  Each keeps one answer   *)
(* queue per task (a module-level dict of asyncio.Queue that nothing ever  *)
(* empties); the first two share the task's discussion slot of the         *)
(* StateManager, the third has a pending table.  An approved charter       *)
(* change is written to .kedo/project_charter.md, one file for all tasks.  *)
(*                                                                         *)
(* An answer does not say which question it answers; the model keeps that *)
(* beside it, as history.  New values are distinct, so a proposal stands   *)
(* for the value it wants to write.                                        *)
(***************************************************************************)
EXTENDS Naturals, Sequences

CONSTANTS Tasks,        \* task ids
          LoopsPerTask, \* loops a task may have at once (see TaskLifecycle)
          MaxAsks,      \* bound: questions one loop asks
          MaxPosts,     \* bound: answers the user posts
          Fields,       \* charter fields that may be changed
          Nothing       \* an empty slot, an original value

Kinds == {"alternatives", "charter", "coredump"}
Loops == Tasks \X (1 .. LoopsPerTask)

\* A question: who asks, its number, the tool, and the field to be changed.
Questions ==
    [loop : Loops, n : 1 .. MaxAsks, kind : {"alternatives", "coredump"}, field : {Nothing}]
    \cup [loop : Loops, n : 1 .. MaxAsks, kind : {"charter"}, field : Fields]

Task(q) == q.loop[1]

\* The charter as the user wrote it.
Original == [f \in Fields |-> Nothing]

\* An answer as it is queued: yes is approve, ready or any choice.
Posts == [id : 1 .. MaxPosts, to : Questions, yes : BOOLEAN]

ASSUME AnswersAssumption ==
    /\ LoopsPerTask \in Nat /\ MaxAsks \in Nat /\ MaxPosts \in Nat
    /\ Nothing \notin Questions /\ Nothing \notin Fields

VARIABLES
    phase,       \* per loop: "idle", "announcing", "waiting"
    question,    \* per loop: the question it is asking
    copy,        \* per loop: the Charter it loaded before asking
    asks,        \* per loop: questions asked so far
    queues,      \* _DISCUSSION_QUEUES, _CHARTER_QUEUES, _COREDUMP_QUEUES
    discussions, \* StateManager._discussions
    pending,     \* _COREDUMP_PENDING
    charter,     \* the charter file: what each field was last set to
    announced,   \* questions the user's screens have shown
    posted,      \* number of answers posted
    spent        \* history: the answers that let a charter change through

slotVars == <<discussions, pending>>
loopVars == <<phase, question, copy, asks>>
userVars == <<announced, posted>>
vars == <<loopVars, queues, slotVars, charter, userVars, spent>>

Init ==
    /\ phase = [l \in Loops |-> "idle"]
    /\ question = [l \in Loops |-> Nothing]
    /\ copy = [l \in Loops |-> Original]
    /\ asks = [l \in Loops |-> 0]
    /\ queues = [x \in Tasks \X Kinds |-> <<>>]
    /\ discussions = [t \in Tasks |-> Nothing]
    /\ pending = [t \in Tasks |-> Nothing]
    /\ charter = Original
    /\ announced = {} /\ posted = 0
    /\ spent = {}

-----------------------------------------------------------------------------
(* The tools.                                                              *)

\* execute up to the events that show the question; the charter is read here.
Announce(q) ==
    LET l == q.loop IN
    /\ phase[l] = "idle" /\ q.n = asks[l] + 1
    /\ phase' = [phase EXCEPT ![l] = "announcing"]
    /\ question' = [question EXCEPT ![l] = q]
    /\ asks' = [asks EXCEPT ![l] = q.n]
    /\ copy' = [copy EXCEPT ![l] = IF q.kind = "charter" THEN charter ELSE @]
    /\ pending' = [pending EXCEPT ![l[1]] = IF q.kind = "coredump" THEN q ELSE @]
    /\ announced' = announced \cup {q}
    /\ UNCHANGED <<queues, discussions, charter, posted, spent>>

\* The events are out: fill the discussion slot and wait on the queue.
Wait(l) ==
    /\ phase[l] = "announcing"
    /\ phase' = [phase EXCEPT ![l] = "waiting"]
    /\ discussions' = [discussions EXCEPT ![l[1]] =
                          IF question[l].kind = "coredump" THEN @ ELSE question[l]]
    /\ UNCHANGED <<question, copy, asks, queues, pending, charter, userVars, spent>>

\* MUTANT: the finally clause is missing.
ClearSlotsNever(l) == UNCHANGED slotVars

\* The finally clause of the wait: the task's slots are cleared, whoever
\* filled them.
ClearSlots(l) ==
    /\ discussions' = [discussions EXCEPT ![l[1]] = Nothing]
    /\ pending' = [pending EXCEPT ![l[1]] =
                      IF question[l].kind = "coredump" THEN Nothing ELSE @]

\* execute is over and its locals are gone.
Stopped(l) ==
    /\ phase' = [phase EXCEPT ![l] = "idle"]
    /\ question' = [question EXCEPT ![l] = Nothing]
    /\ copy' = [copy EXCEPT ![l] = Original]
    /\ UNCHANGED asks

\* MUTANT: the answer stays in the queue.
TakenNot(l) == UNCHANGED queues

\* The oldest answer in the tool's queue of the task, and what is left of it.
Queue(l) == queues[<<l[1], question[l].kind>>]
Taken(l) == queues' = [queues EXCEPT ![<<l[1], question[l].kind>>] = Tail(@)]

\* propose_alternatives and fetch_crash_report return what the answer says.
TakeAnswer(l) ==
    /\ phase[l] = "waiting" /\ Queue(l) # <<>> /\ question[l].kind # "charter"
    /\ Taken(l)
    /\ ClearSlots(l)
    /\ Stopped(l)
    /\ UNCHANGED <<charter, userVars, spent>>

\* MUTANT: the charter is saved before the answer is looked at.
DecideAfterSave(l) ==
    /\ phase[l] = "waiting" /\ Queue(l) # <<>> /\ question[l].kind = "charter"
    /\ charter' = [copy[l] EXCEPT ![question[l].field] = question[l]]
    /\ spent' = IF Head(Queue(l)).yes
                THEN spent \cup {[by |-> question[l], post |-> Head(Queue(l))]} ELSE spent
    /\ Taken(l)
    /\ ClearSlots(l)
    /\ Stopped(l)
    /\ UNCHANGED userVars

\* propose_charter_change: approved, the whole loaded charter is written back
\* with the one field changed.
Decide(l) ==
    /\ phase[l] = "waiting" /\ Queue(l) # <<>> /\ question[l].kind = "charter"
    /\ LET answer == Head(Queue(l)) IN
       IF answer.yes
       THEN /\ charter' = [copy[l] EXCEPT ![question[l].field] = question[l]]
            /\ spent' = spent \cup {[by |-> question[l], post |-> answer]}
       ELSE UNCHANGED <<charter, spent>>
    /\ Taken(l)
    /\ ClearSlots(l)
    /\ Stopped(l)
    /\ UNCHANGED userVars

\* The wait times out; an answer may have reached the queue just before.
TimeOut(l) ==
    /\ phase[l] = "waiting"
    /\ ClearSlots(l)
    /\ Stopped(l)
    /\ UNCHANGED <<queues, charter, userVars, spent>>

\* handle.cancel(): only the wait has a finally clause.
Cancelled(l) ==
    /\ \/ phase[l] = "waiting" /\ ClearSlots(l)
       \/ phase[l] = "announcing" /\ UNCHANGED slotVars
    /\ Stopped(l)
    /\ UNCHANGED <<queues, charter, userVars, spent>>

-----------------------------------------------------------------------------
(* The user and the server.                                                *)

Post(q, kind, yes) ==
    /\ posted < MaxPosts
    /\ posted' = posted + 1
    /\ queues' = [queues EXCEPT ![<<Task(q), kind>>] =
                     Append(@, [id |-> posted + 1, to |-> q, yes |-> yes])]
    /\ UNCHANGED <<loopVars, slotVars, charter, announced, spent>>

\* The route of the tool that asked: /discussion/input, /decide or /ack.  The
\* screens keep a question until the next one, so it may have ended.
AnswerOwnRoute(q) ==
    /\ q \in announced
    /\ \E yes \in BOOLEAN : Post(q, q.kind, yes)

\* The dashboard's discussion panel and the REPL's /discuss show the questions
\* of all three tools and post every answer to /discussion/input.
AnswerInPanel(q) ==
    /\ q \in announced /\ q.kind # "alternatives"
    /\ Post(q, "alternatives", TRUE)

\* The process dies; the charter and the user's screens stay.
Restart ==
    /\ phase' = [l \in Loops |-> "idle"]
    /\ question' = [l \in Loops |-> Nothing]
    /\ copy' = [l \in Loops |-> Original]
    /\ queues' = [x \in Tasks \X Kinds |-> <<>>]
    /\ discussions' = [t \in Tasks |-> Nothing]
    /\ pending' = [t \in Tasks |-> Nothing]
    /\ UNCHANGED <<asks, charter, userVars, spent>>

Next ==
    \/ \E q \in Questions : Announce(q) \/ AnswerOwnRoute(q) \/ AnswerInPanel(q)
    \/ \E l \in Loops : \/ Wait(l) \/ TakeAnswer(l) \/ Decide(l)
                        \/ TimeOut(l) \/ Cancelled(l)
    \/ Restart

Spec == Init /\ [][Next]_vars

-----------------------------------------------------------------------------
(* Properties.                                                             *)

\* Every variable has its type.
TypeOK ==
    /\ phase \in [Loops -> {"idle", "announcing", "waiting"}]
    /\ question \in [Loops -> Questions \cup {Nothing}]
    /\ copy \in [Loops -> [Fields -> Questions \cup {Nothing}]]
    /\ asks \in [Loops -> 0 .. MaxAsks]
    /\ queues \in [Tasks \X Kinds -> Seq(Posts)]
    /\ discussions \in [Tasks -> Questions \cup {Nothing}]
    /\ pending \in [Tasks -> Questions \cup {Nothing}]
    /\ charter \in [Fields -> Questions \cup {Nothing}]
    /\ announced \in SUBSET Questions
    /\ posted \in 0 .. MaxPosts
    /\ spent \in SUBSET [by : Questions, post : Posts]

\* No ghost proposals ("so that /discuss shows no zombie proposal",
\* propose_alternatives_tool.py 155): what a discussion slot shows is a question
\* that a loop of the task is still waiting on, also when two loops of the task
\* overwrite and clear each other's slot, or one of them is cancelled.
NoGhostProposal ==
    \A t \in Tasks : discussions[t] # Nothing =>
        /\ Task(discussions[t]) = t
        /\ phase[discussions[t].loop] = "waiting"
        /\ question[discussions[t].loop] = discussions[t]

\* One approval lets one change through: no answer is spent twice, however many
\* loops wait on the queue, and only an approval of the same task is spent.
ApprovalSpentOnce ==
    \A s \in spent :
        /\ s.post.yes /\ Task(s.post.to) = Task(s.by)
        /\ \A r \in spent : r.post.id = s.post.id => r = s

\* Every value in the charter is the original one or was proposed for that very
\* field and let through by an answer, also after one loop has written back the
\* copy it loaded before another loop changed the file.
EveryChangeWasLetThrough ==
    \A f \in Fields : charter[f] # Nothing =>
        /\ charter[f].field = f
        /\ \E s \in spent : s.by = charter[f]

-----------------------------------------------------------------------------
(* What the repository says and the code does not do.                      *)

\* "Treat as REJECT - do not change charter" (propose_charter_change_tool.py
\* 303): a change is written only if the user approved that very proposal.
ChangeWasApproved ==
    \A s \in spent : s.post.to = s.by
=============================================================================
