---------------------------- MODULE ReplSession ----------------------------
(***************************************************************************)
(* The command line (cli/repl.py; cli/repl_pt.py draws it differently and  *)
(* keeps its commands).  The thread of the prompt blocks in one HTTP       *)
(* request at a time and gives it up after ten seconds, whatever the       *)
(* server does with it.  Another thread hears of the tasks over a          *)
(* websocket: it gets events only while it is connected and none again,    *)
(* and after five failures in a row it no longer tries.  Both write the    *)
(* status bar.  What a task does is left to TaskLifecycle, how an event    *)
(* gets to a connection to EventFanout: here the tasks move as they like.  *)
(***************************************************************************)
EXTENDS Integers, Sequences

CONSTANTS
    Tasks,
    MaxRetry,    \* failures after which the listener gives up (5)
    MaxQueue,    \* bound: events on their way
    None

Moves == {"in_progress", "paused", "completed", "failed"}
Statuses == Moves \cup {"none", "pending"}
Final == {"completed", "failed"}
Asked == [checkpoint |-> "in_progress", stop |-> "failed", pause |-> "paused",
          resume |-> "in_progress"]
Commands == DOMAIN Asked \cup {"create", "chat"}
Requests == [what : Commands, task : Tasks \cup {None}]
Events == [kind : {"created", "status", "other"}, task : Tasks, status : Statuses]

ConstantsOK ==
    /\ MaxRetry \in Nat \ {0} /\ MaxQueue \in Nat \ {0}
    /\ None \notin Tasks /\ \A r \in Requests : r # None

VARIABLES
    status,      \* of the tasks of the server
    queue,       \* events sent to the REPL and not handled yet
    listener,    \* "up", "down", or "deaf" once it has given up
    retry,
    current,     \* current_task_id
    bar,         \* _sb: the task and the status shown
    request,     \* what the prompt waits for, None at the prompt
    reply,       \* "none", "waiting", "good", "bad"
    odd          \* history: what disturbed the picture since the last start of a task

vars == <<status, queue, listener, retry, current, bar, request, reply, odd>>
screenVars == <<current, bar>>
linkVars == <<listener, retry>>
askVars == <<request, reply>>

\* The server and its tasks may have been there before.
Init ==
    /\ status \in [Tasks -> {"none", "in_progress", "failed"}]
    /\ queue = <<>> /\ listener = "down" /\ retry = 0
    /\ current = None /\ bar = [task |-> None, status |-> "none"]
    /\ request = None /\ reply = "none"
    /\ odd = {}

AtPrompt == request = None

\* The task the user works on: the one being created, once it has an id.
Meant == IF request # None /\ request.what = "create" THEN request.task ELSE current

-----------------------------------------------------------------------------
(* The server.                                                             *)

Event(kind, t, s) == [kind |-> kind, task |-> t, status |-> s]

Publish(e) ==
    IF listener = "up"
    THEN /\ Len(queue) < MaxQueue
         /\ queue' = Append(queue, e)
         /\ UNCHANGED odd
    ELSE /\ odd' = odd \cup {"missed"}
         /\ UNCHANGED queue

\* update_status: no event if it is the same.
Move(t, s) ==
    /\ status' = [status EXCEPT ![t] = s]
    /\ IF status[t] = s THEN UNCHANGED <<queue, odd>> ELSE Publish(Event("status", t, s))

Create(t) ==
    /\ t # None
    /\ status[t] = "none"
    /\ status' = [status EXCEPT ![t] = "pending"]
    /\ Publish(Event("created", t, "pending"))

NoEffect == UNCHANGED <<status, queue, odd>>

\* What a request does, and the task it is answered with.
Effect(r, t) ==
    \/ r.what = "create" /\ Create(t)
    \/ r.what \in DOMAIN Asked /\ t = r.task /\ status[t] # "none"
       /\ IF r.what = "stop" /\ status[t] \in Final THEN NoEffect ELSE Move(t, Asked[r.what])
    \/ r.what = "chat" /\ t = r.task /\ NoEffect

Serve ==
    /\ reply = "waiting"
    /\ \/ reply' = "bad" /\ NoEffect /\ UNCHANGED request   \* no such task, no checkpoint, an exception
       \/ /\ reply' = "good"
          /\ \E t \in Tasks \cup {None} :
                 Effect(request, t) /\ request' = [request EXCEPT !.task = t]
    /\ UNCHANGED <<linkVars, screenVars>>

\* Loops move their tasks, other clients all of them.  A request the REPL has
\* given up and the server carries out all the same is one of another client.
TaskMoves(t, s) ==
    /\ status[t] \notin {"none", s}
    /\ Move(t, s)
    /\ UNCHANGED <<linkVars, screenVars, askVars>>

CreatedElsewhere(t) ==
    /\ Create(t)
    /\ UNCHANGED <<linkVars, screenVars, askVars>>

\* Any other event with the id of a task: steps, tools, replies of models.
TaskSpeaks(t) ==
    /\ status[t] # "none"
    /\ UNCHANGED status
    /\ Publish(Event("other", t, status[t]))
    /\ UNCHANGED <<linkVars, screenVars, askVars>>

-----------------------------------------------------------------------------
(* The thread that listens.                                                *)

Connect ==
    /\ listener = "down"
    /\ listener' = "up" /\ retry' = 0
    /\ UNCHANGED <<status, queue, screenVars, askVars, odd>>

Failed ==
    /\ retry' = retry + 1
    /\ listener' = IF retry' = MaxRetry THEN "deaf" ELSE "down"

ConnectFails ==
    /\ listener = "down"
    /\ Failed
    /\ UNCHANGED <<status, queue, screenVars, askVars, odd>>

\* What was on its way is lost.  A connection that the server closes as it
\* should is no failure.
Disconnect ==
    /\ listener = "up"
    /\ \/ Failed
       \/ listener' = "down" /\ UNCHANGED retry
    /\ queue' = <<>>
    /\ odd' = IF queue = <<>> THEN odd ELSE odd \cup {"missed"}
    /\ UNCHANGED <<status, screenVars, askVars>>

Foreign(t) == IF t = Meant THEN {} ELSE {"foreign"}

\* An empty bar takes the task of whatever comes.
HandleOther ==
    /\ queue # <<>> /\ Head(queue).kind = "other"
    /\ queue' = Tail(queue)
    /\ LET t == Head(queue).task IN
           IF bar.task = None
           THEN bar' = [bar EXCEPT !.task = t] /\ odd' = odd \cup Foreign(t)
           ELSE UNCHANGED <<bar, odd>>
    /\ UNCHANGED <<status, linkVars, current, askVars>>

\* Only an empty bar takes the new task.
MUTANT_HandleCreated ==
    /\ queue # <<>> /\ Head(queue).kind = "created"
    /\ queue' = Tail(queue)
    /\ LET t == Head(queue).task IN
           /\ bar' = [task |-> IF bar.task = None THEN t ELSE bar.task, status |-> "pending"]
           /\ odd' = IF t = Meant THEN {} ELSE odd \cup Foreign(t)
    /\ UNCHANGED <<status, linkVars, current, askVars>>

HandleCreated ==
    /\ queue # <<>> /\ Head(queue).kind = "created"
    /\ queue' = Tail(queue)
    /\ LET t == Head(queue).task IN
           /\ bar' = [task |-> t, status |-> "pending"]
           /\ odd' = IF t = Meant THEN {} ELSE odd \cup Foreign(t)
    /\ UNCHANGED <<status, linkVars, current, askVars>>

\* Whichever task it is about.
HandleStatus ==
    /\ queue # <<>> /\ Head(queue).kind = "status"
    /\ queue' = Tail(queue)
    /\ LET e == Head(queue) IN
           /\ bar' = [task |-> IF bar.task = None THEN e.task ELSE bar.task,
                      status |-> e.status]
           /\ odd' = odd \cup Foreign(e.task)
                         \cup IF request # None /\ request.what = "checkpoint" /\ reply = "good"
                              THEN {"overtaken"} ELSE {}
    /\ UNCHANGED <<status, linkVars, current, askVars>>

-----------------------------------------------------------------------------
(* The thread of the prompt.                                               *)

Post(what, t) ==
    /\ request' = [what |-> what, task |-> t]
    /\ reply' = "waiting"
    /\ UNCHANGED <<status, queue, linkVars>>

\* _create_task empties the bar first.
TypeTask ==
    /\ AtPrompt
    /\ bar' = [task |-> None, status |-> "pending"]
    /\ odd' = {}
    /\ Post("create", None)
    /\ UNCHANGED current

\* /continue, or an input that sounds like it: the task is the current one
\* before the server has been asked.
TypeContinue(t) ==
    /\ AtPrompt
    /\ current' = t
    /\ bar' = [task |-> t, status |-> "resuming"]
    /\ odd' = {}
    /\ Post("checkpoint", t)

\* /stop, Ctrl-C and ESC, /pause, /resume: of the current task, which stays the
\* current one after its end.
TypeControl(what) ==
    /\ AtPrompt /\ current # None
    /\ Post(what, current)
    /\ UNCHANGED <<screenVars, odd>>

TypeChat ==
    /\ AtPrompt
    /\ Post("chat", None)
    /\ UNCHANGED <<screenVars, odd>>

\* The request is over, answered or given up.
Take(answer) ==
    /\ request' = None /\ reply' = "none"
    /\ CASE request.what = "create" ->
              /\ current' = IF answer = "good" THEN request.task ELSE current
              /\ odd' = IF answer = "good" THEN odd ELSE odd \cup {"no answer"}
              /\ UNCHANGED bar
         [] request.what = "checkpoint" ->
              /\ bar' = [bar EXCEPT !.status = IF answer = "good" THEN "in_progress" ELSE "failed"]
              /\ odd' = IF answer = "good" THEN odd ELSE odd \cup {"no answer"}
              /\ UNCHANGED current
         [] OTHER -> UNCHANGED <<screenVars, odd>>
    /\ UNCHANGED <<status, queue, linkVars>>

TakeReply ==
    /\ reply \in {"good", "bad"}
    /\ Take(reply)

\* Not sent, or not answered in time.
GiveUp == reply # "none" /\ Take("bad")

\* The end of the input, /quit - and Ctrl-C while a request is out, since only
\* the prompt catches it.  The server goes on, and so does the next session.
Quit ==
    /\ queue' = <<>> /\ listener' = "down" /\ retry' = 0
    /\ current' = None /\ bar' = [task |-> None, status |-> "none"]
    /\ request' = None /\ reply' = "none"
    /\ odd' = {}
    /\ UNCHANGED status

Next ==
    \/ Serve
    \/ \E t \in Tasks, s \in Moves : TaskMoves(t, s)
    \/ \E t \in Tasks : CreatedElsewhere(t) \/ TaskSpeaks(t)
    \/ Connect \/ ConnectFails \/ Disconnect
    \/ HandleOther \/ HandleCreated \/ HandleStatus
    \/ TypeTask \/ TypeChat \/ TakeReply \/ GiveUp \/ Quit
    \/ \E t \in Tasks : TypeContinue(t)
    \/ \E what \in {"stop", "pause", "resume"} : TypeControl(what)

Spec == Init /\ [][Next]_vars
-----------------------------------------------------------------------------
(* Properties.                                                             *)

\* Every variable holds a value of its kind.
TypeOK ==
    /\ status \in [Tasks -> Statuses]
    /\ queue \in Seq(Events)
    /\ listener \in {"up", "down", "deaf"} /\ retry \in 0 .. MaxRetry
    /\ current \in Tasks \cup {None}
    /\ bar \in [task : Tasks \cup {None}, status : Statuses \cup {"resuming"}]
    /\ request \in Requests \cup {None} /\ reply \in {"none", "waiting", "good", "bad"}
    /\ odd \subseteq {"missed", "foreign", "overtaken", "no answer"}

\* When nothing is on its way, the bar shows the task that Ctrl-C would stop,
\* and the status it has - unless, since that task was started from here, an
\* event was missed, one of another task was taken for its own, its end was
\* overtaken by the answer to the request that resumed it, or the request to
\* start one was not answered.
BarShowsCurrentTask ==
    AtPrompt /\ queue = <<>> /\ odd = {} /\ current # None =>
        bar = [task |-> current, status |-> status[current]]

-----------------------------------------------------------------------------
(* Why the bar follows.                                                    *)

\* The prompt waits for a request, and an order is one about the current task.
RequestsInOrder ==
    /\ request = None <=> reply = "none"
    /\ request # None /\ request.what \in DOMAIN Asked
        => request.task = current /\ current # None

\* The places in the queue of what tells the status of a task.
Tells(t) == {i \in DOMAIN queue : queue[i].kind # "other" /\ queue[i].task = t}

\* A listener that still tries may fail once more; nothing is on its way to one
\* that is not connected, and nothing of a task that does not exist.
QueueInOrder ==
    /\ listener # "deaf" => retry < MaxRetry
    /\ queue # <<>> => listener = "up"
    /\ \A i \in DOMAIN queue : status[queue[i].task] # "none"

\* The birth of a task comes before all else about it.
BirthsFirst ==
    \A j \in DOMAIN queue : queue[j].kind = "created" =>
        /\ queue[j].status = "pending"
        /\ \A i \in DOMAIN queue : queue[i].task = queue[j].task => j <= i

\* The last that the queue tells of a task is the status it has.
LastWordIsTrue ==
    \A t \in Tasks : \A i \in Tells(t) :
        (\A j \in Tells(t) : j <= i) => queue[i].status = status[t]

Resuming == request # None /\ request.what = "checkpoint"
Resumed == Resuming /\ reply = "good"

\* A task that was resumed exists, and the queue tells more than its birth.
BirthIsNotLast ==
    Resumed =>
        /\ status[current] # "none"
        /\ \A j \in Tells(current) : queue[j].kind = "created" =>
               \E i \in Tells(current) : j < i

\* Undisturbed, the bar shows the task that is meant or will once its birth is
\* heard of, and what the queue does not tell of its status the bar knows - or,
\* if the task is being resumed, the request that is out.
BarFollows ==
    odd = {} /\ Meant # None =>
        /\ bar.task = Meant \/ \E i \in Tells(Meant) : queue[i].kind = "created"
        /\ Tells(Meant) = {} /\ ~Resuming => bar.status = status[Meant]
        /\ Tells(Meant) = {} /\ Resumed => status[Meant] = "in_progress"

\* The invariant that the steps keep.
IInv ==
    /\ TypeOK /\ RequestsInOrder /\ QueueInOrder /\ BirthsFirst
    /\ LastWordIsTrue /\ BirthIsNotLast /\ BarFollows
=============================================================================
