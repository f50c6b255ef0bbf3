---------------------------- MODULE EventFanout ----------------------------
(***************************************************************************)
(* Events on their way to the screens: EventBus.publish (state_manager.py) *)
(* awaits ConnectionManager.handle_event (api/websocket.py), which awaits  *)
(* one send after another; loop, inbox and permission messages go through  *)
(* ConnectionManager.broadcast.  Meanwhile connections come, subscribe and *)
(* go, and other coroutines publish.                                       *)
(*                                                                         *)
(* Both handlers walk over the list itself, not over a copy: the iterator  *)
(* is an index, and a removal in front of it moves a connection out of its *)
(* sight.                                                                  *)
(***************************************************************************)
EXTENDS Integers, Sequences, FiniteSets, FiniteSetsExt, SequencesExt

CONSTANTS
    Sockets,     \* one for every time a dashboard or REPL connects
    Tasks,
    Publishers,  \* coroutines that publish: loops of tasks and routes
    MaxEvents,   \* bound: events of all publishers
    MaxAsked,    \* bound: subscriptions of a client
    NoSocket

ConstantsOK == NoSocket \notin Sockets \cup Publishers /\ Tasks \cap {"idle", "all"} = {}

VARIABLES
    connections,    \* _connections
    subscriptions,  \* _task_subscriptions
    socket,         \* "new", "open", "stuck" (its client does not read),
                    \* "broken" (the client is gone), "left" (the server knows)
    at,             \* where a publisher is: "idle", in the pass over the
                    \* subscribers of a task, or in the one over "all"
    count,          \* how many events it has published
    to,             \* the connection it is sending to
    next,           \* the index its iterator stands at
    sent, dead,     \* the locals of handle_event
    got,            \* history: the events of a publisher a client has received
    owed,           \* history: connections that should get the event
    departures,     \* history: connections removed while it was sent
    asked           \* history: how often a client has subscribed

listVars == <<connections, subscriptions>>
sendVars == <<at, to, next, sent, dead>>
history == <<got, owed, departures, asked>>
vars == <<listVars, socket, sendVars, count, history>>

Init ==
    /\ connections = <<>>
    /\ subscriptions = [t \in Tasks |-> <<>>]
    /\ socket = [c \in Sockets |-> "new"]
    /\ at = [p \in Publishers |-> "idle"]
    /\ count = [p \in Publishers |-> 0]
    /\ to = [p \in Publishers |-> NoSocket]
    /\ next = [p \in Publishers |-> 1]
    /\ sent = [p \in Publishers |-> {}]
    /\ dead = [p \in Publishers |-> <<>>]
    /\ got = [c \in Sockets |-> [p \in Publishers |-> <<>>]]
    /\ owed = [p \in Publishers |-> {}]
    /\ departures = [p \in Publishers |-> 0]
    /\ asked = [c \in Sockets |-> 0]

\* client_state says so until the server has been told of the end.
Connected(c) == socket[c] \in {"open", "stuck", "broken"}

Busy(p) == at[p] # "idle"

-----------------------------------------------------------------------------
(* Connections.                                                            *)

Subscribed(c, t) ==
    /\ subscriptions' = [subscriptions EXCEPT ![t] = Append(@, c)]
    /\ asked' = [asked EXCEPT ![c] = @ + 1]

\* connect(), with or without a task_id.
Join(c) ==
    /\ socket[c] = "new"
    /\ socket' = [socket EXCEPT ![c] = "open"]
    /\ connections' = Append(connections, c)
    /\ \/ UNCHANGED <<subscriptions, asked>>
       \/ \E t \in Tasks : Subscribed(c, t)
    /\ UNCHANGED <<sendVars, count, got, owed, departures>>

\* The "subscribe" command of a client, which may follow a task_id.
Subscribe(c, t) ==
    /\ socket[c] = "open" /\ asked[c] < MaxAsked
    /\ Subscribed(c, t)
    /\ UNCHANGED <<connections, socket, sendVars, count, got, owed, departures>>

\* disconnect(), for each connection of a list: its first entry of every list goes.
Kept(list, gone) ==
    LET Times(c, l, n) == Cardinality({i \in 1 .. n : l[i] = c})
    IN  {i \in DOMAIN list : Times(list[i], list, i) > Times(list[i], gone, Len(gone))}

Without(list, gone) ==
    LET kept == Kept(list, gone)
        Kth(k) == CHOOSE i \in kept : Cardinality({j \in kept : j <= i}) = k
    IN  [k \in 1 .. Cardinality(kept) |-> list[Kth(k)]]

Disconnected(gone) ==
    /\ connections' = Without(connections, gone)
    /\ subscriptions' = [t \in Tasks |-> Without(subscriptions[t], gone)]

\* What a step of p (or of an endpoint) takes off the list under the others.
CountDepartures(p) ==
    LET removed == Cardinality(ToSet(connections) \ ToSet(connections'))
    IN  departures' = [q \in Publishers |->
            CASE q = p /\ ~Busy(p) -> 0
              [] q # p /\ Busy(q) -> departures[q] + removed
              [] OTHER -> departures[q]]

\* The client stops reading for good, or goes away.  One that reads slowly is one
\* whose SendDone takes its time.
Stall(c) ==
    /\ socket[c] = "open"
    /\ socket' = [socket EXCEPT ![c] = "stuck"]
    /\ UNCHANGED <<listVars, sendVars, count, history>>

Break(c) ==
    /\ socket[c] \in {"open", "stuck"}
    /\ socket' = [socket EXCEPT ![c] = "broken"]
    /\ owed' = [p \in Publishers |-> owed[p] \ {c}]
    /\ got' = [got EXCEPT ![c] = [p \in Publishers |-> <<>>]]
    /\ UNCHANGED <<listVars, sendVars, count, departures, asked>>

\* receive_json of the endpoint raises WebSocketDisconnect.  It need not come: an
\* endpoint that ends by another exception leaves the connection listed.
Leave(c) ==
    /\ socket[c] = "broken"
    /\ socket' = [socket EXCEPT ![c] = "left"]
    /\ Disconnected(<<c>>)
    /\ CountDepartures(NoSocket)
    /\ UNCHANGED <<sendVars, count, got, owed, asked>>

-----------------------------------------------------------------------------
(* Publishing.                                                             *)

\* Only the second pass of handle_event, and broadcast, pass somebody over.
MUTANT_Targets(phase, list, from, already) ==
    {i \in from .. Len(list) : Connected(list[i])}

\* The places of a list the iterator will stop at, if the list stays as it is.
Targets(phase, list, from, already) ==
    {i \in from .. Len(list) :
        Connected(list[i]) /\ (phase = "all" => list[i] \notin already)}

\* The send to the next of them begins.
Send(p, phase, list, places) ==
    LET i == Min(places) IN
    /\ at' = [at EXCEPT ![p] = phase]
    /\ to' = [to EXCEPT ![p] = list[i]]
    /\ next' = [next EXCEPT ![p] = i + 1]

Return(p) ==
    /\ at' = [at EXCEPT ![p] = "idle"]
    /\ to' = [to EXCEPT ![p] = NoSocket]
    /\ next' = [next EXCEPT ![p] = 1]
    /\ sent' = [sent EXCEPT ![p] = {}]
    /\ dead' = [dead EXCEPT ![p] = <<>>]

\* From one await to the next in the second pass, which broadcast begins with.
ToAll(p, from, already, failed) ==
    LET places == Targets("all", connections, from, already) IN
    \/ /\ places # {}
       /\ Send(p, "all", connections, places)
       /\ sent' = [sent EXCEPT ![p] = already]
       /\ dead' = [dead EXCEPT ![p] = failed]
       /\ UNCHANGED listVars
    \/ /\ places = {}
       /\ Return(p)
       /\ Disconnected(failed)

\* The same in the first pass, at whose end the dead are removed and the second
\* pass begins.
ToTask(p, t, from, already, failed) ==
    \E left \in {Without(connections, failed)},
       places \in {Targets(t, subscriptions[t], from, already)} :
        \/ /\ places # {}
           /\ Send(p, t, subscriptions[t], places)
           /\ sent' = [sent EXCEPT ![p] = already]
           /\ dead' = [dead EXCEPT ![p] = failed]
           /\ UNCHANGED listVars
        \/ \E others \in {Targets("all", left, 1, already)} :
           /\ places = {}
           /\ IF others = {} THEN Return(p)
              ELSE /\ Send(p, "all", left, others)
                   /\ sent' = [sent EXCEPT ![p] = already]
                   /\ dead' = [dead EXCEPT ![p] = <<>>]
           /\ Disconnected(failed)

Resume(p, already, failed) ==
    \/ at[p] \in Tasks /\ ToTask(p, at[p], next[p], already, failed)
    \/ at[p] = "all" /\ ToAll(p, next[p], already, failed)

\* Nothing is sent when nobody is there; then publish returns at once.
Begin(p) ==
    /\ ~Busy(p) /\ SumFunction(count) < MaxEvents
    /\ count' = [count EXCEPT ![p] = @ + 1]
    /\ owed' = [owed EXCEPT ![p] =
           {c \in ToSet(connections) : socket[c] \in {"open", "stuck"}}]
    /\ UNCHANGED <<socket, got, asked>>

\* EventBus.publish of an event of a task.
Publish(p, t) ==
    /\ Begin(p)
    /\ ToTask(p, t, 1, {}, <<>>)
    /\ CountDepartures(p)

\* ConnectionManager.broadcast.
Broadcast(p) ==
    /\ Begin(p)
    /\ ToAll(p, 1, {}, <<>>)
    /\ CountDepartures(p)

\* A send that is awaited succeeds as soon as the client reads, ...
SendDone(p) ==
    /\ Busy(p) /\ socket[to[p]] = "open"
    /\ got' = [got EXCEPT ![to[p]][p] = Append(@, count[p])]
    /\ owed' = [owed EXCEPT ![p] = @ \ {to[p]}]
    /\ \E already \in {sent[p] \cup IF at[p] \in Tasks THEN {to[p]} ELSE {}} :
           Resume(p, already, dead[p])
    /\ CountDepartures(p)
    /\ UNCHANGED <<socket, count, asked>>

\* A connection that fails is taken off the list at once.
MUTANT_SendFails(p) ==
    /\ Busy(p) /\ socket[to[p]] \in {"broken", "left"}
    /\ Disconnected(<<to[p]>>)
    /\ LET rest == Targets("all", connections', next[p], sent[p])
       IN  IF rest = {} THEN Return(p)
           ELSE Send(p, "all", connections', rest) /\ UNCHANGED <<sent, dead>>
    /\ CountDepartures(p)
    /\ UNCHANGED <<socket, count, got, owed, asked>>

\* The send is tried again.
MUTANT_Retry(p) ==
    /\ at[p] = "all" /\ socket[to[p]] \in {"broken", "left"}
    /\ ToAll(p, next[p] - 1, sent[p], dead[p])
    /\ CountDepartures(p)
    /\ UNCHANGED <<socket, count, got, owed, asked>>

\* ... and raises when the client is gone: the connection is noted as dead.
SendFails(p) ==
    /\ Busy(p) /\ socket[to[p]] \in {"broken", "left"}
    /\ \E failed \in {Append(dead[p], to[p])} : Resume(p, sent[p], failed)
    /\ CountDepartures(p)
    /\ UNCHANGED <<socket, count, got, owed, asked>>

\* The publishing coroutine is cancelled; CancelledError passes through, and
\* the dead are not removed.
CancelPublish(p) ==
    /\ Busy(p)
    /\ Return(p)
    /\ owed' = [owed EXCEPT ![p] = {}]
    /\ UNCHANGED <<listVars, socket, count, got, departures, asked>>

Next ==
    \/ \E c \in Sockets : Join(c) \/ Stall(c) \/ Break(c) \/ Leave(c)
    \/ \E c \in Sockets, t \in Tasks : Subscribe(c, t)
    \/ \E p \in Publishers :
           \/ Broadcast(p) \/ SendDone(p) \/ SendFails(p) \/ CancelPublish(p)
           \/ \E t \in Tasks : Publish(p, t)

Spec == Init /\ [][Next]_vars

\* A ready send goes on; uvicorn pings, so that a client which does not answer
\* is cut off.
Fairness ==
    /\ \A p \in Publishers : WF_vars(SendDone(p) \/ SendFails(p))
    /\ \A c \in Sockets : WF_vars(socket[c] = "stuck" /\ Break(c))

FairSpec == Spec /\ Fairness
-----------------------------------------------------------------------------
(* Properties.                                                             *)

\* Every variable holds a value of its kind; only connected sockets are listed
\* among the connections, and none twice.
TypeOK ==
    /\ connections \in Seq(Sockets) /\ IsInjective(connections)
    /\ \A c \in ToSet(connections) : Connected(c)
    /\ subscriptions \in [Tasks -> Seq(Sockets)]
    /\ socket \in [Sockets -> {"new", "open", "stuck", "broken", "left"}]
    /\ at \in [Publishers -> Tasks \cup {"idle", "all"}]
    /\ count \in [Publishers -> Nat]
    /\ to \in [Publishers -> Sockets \cup {NoSocket}]
    /\ next \in [Publishers -> Nat \ {0}]
    /\ sent \in [Publishers -> SUBSET Sockets]
    /\ dead \in [Publishers -> Seq(Sockets)]
    /\ got \in [Sockets -> [Publishers -> Seq(Nat)]]
    /\ owed \in [Publishers -> SUBSET Sockets]
    /\ departures \in [Publishers -> Nat]
    /\ asked \in [Sockets -> Nat]

\* "Connections subscribed to the task do not get the message again by
\* broadcast" (websocket.py 87): of every publisher a connection that has
\* subscribed at most once receives each event once and in the order published,
\* however the passes of several publishers and the changes of the two lists
\* interleave.
DeliveredOnceInOrder ==
    \A c \in Sockets, p \in Publishers : asked[c] <= 1 =>
        \A i, j \in DOMAIN got[c][p] : i < j => got[c][p][i] < got[c][p][j]

\* When a publish that was not cancelled has returned, every connection that was
\* there when it began and has not gone away since has got the event - except
\* at most one for every connection that somebody else took off the list
\* meanwhile, since that moves the rest under the index of the iterator.
MissedByDeparturesOnly ==
    \A p \in Publishers : ~Busy(p) => Cardinality(owed[p]) <= departures[p]

\* A client that does not read holds up the loops that publish, but not for
\* ever: every publish returns.
PublishReturns == \A p \in Publishers : Busy(p) ~> ~Busy(p)

-----------------------------------------------------------------------------
(* What makes them inductive.                                              *)

\* A connection that is still to come is known nowhere.
NewIsNowhere ==
    \A c \in Sockets : socket[c] = "new" =>
        asked[c] = 0 /\ \A p \in Publishers : got[c][p] = <<>> /\ to[p] # c

\* Who has subscribed at most once is in one place of one list.
SubscribedOnce ==
    \A t, u \in Tasks : \A i \in DOMAIN subscriptions[t], j \in DOMAIN subscriptions[u] :
        LET c == subscriptions[t][i] IN
        /\ asked[c] >= 1
        /\ asked[c] = 1 /\ subscriptions[u][j] = c => t = u /\ i = j

\* The iterator of p has no place of c before it.
Behind(p, c) ==
    LET list == IF at[p] = "all" THEN connections ELSE subscriptions[at[p]]
    IN  \A i \in DOMAIN list : list[i] = c => i < next[p]

\* p has sent its event to c.
Served(p, c) == \E i \in DOMAIN got[c][p] : got[c][p][i] = count[p]

\* What p owes, whom it notes as dead and whom it has sent to.
NotesInOrder(p) ==
    /\ Busy(p) => to[p] \in Sockets
    /\ \A c \in owed[p] :
        socket[c] \in {"open", "stuck"} /\ c \in ToSet(connections) /\ c \notin sent[p]
    /\ \A c \in ToSet(dead[p]) : socket[c] \in {"broken", "left"}
    /\ \A c \in sent[p] : asked[c] >= 1
    /\ at[p] \in Tasks => asked[to[p]] >= 1

\* p does not come back to the connection it sends to, nor to one it has sent to.
NoneTwice(p) ==
    /\ \A c \in Sockets : \A i \in DOMAIN got[c][p] : got[c][p][i] <= count[p]
    /\ Busy(p) /\ asked[to[p]] <= 1 => Behind(p, to[p])
    /\ \A c \in Sockets : Busy(p) /\ asked[c] <= 1 /\ Served(p, c) =>
        /\ to[p] # c
        /\ at[p] = "all" => c \in sent[p] \/ Behind(p, c)
        /\ at[p] \in Tasks => c \in sent[p] /\ Behind(p, c)

\* Whom p owes its event and does not come to any more.
Missed(p) == {c \in owed[p] : Busy(p) => to[p] # c /\ Behind(p, c)}

\* In its second pass p has missed no more than others have removed.
MissedIsPaid(p) == at[p] \notin Tasks => Cardinality(Missed(p)) <= departures[p]

\* The invariant that the steps keep.
IInv ==
    /\ TypeOK /\ NewIsNowhere /\ SubscribedOnce /\ DeliveredOnceInOrder
    /\ \A p \in Publishers : NotesInOrder(p) /\ NoneTwice(p) /\ MissedIsPaid(p)
=============================================================================
