--------------------------- MODULE MCLoopScheduler ---------------------------
(***************************************************************************)
(* The scheduler of loops, by EXTENDS, and the event bus that it and every *)
(* task report on (EventFanout).  LoopScheduler takes a broadcast as one   *)
(* await, and the bus does not look at what it sends, so each behaviour    *)
(* follows one of the two, chosen at the start; the other keeps its        *)
(* initial value, in which none of its coroutines is ready: the fairness   *)
(* of both can be assumed.                                                 *)
(*                                                                         *)
(* The bus has two screens that subscribe up to twice, and two publishers, *)
(* so that each pass over a list meets the changes of another.             *)
(***************************************************************************)
EXTENDS LoopScheduler

CONSTANTS Sockets, Publishers, Topics, MaxEvents, MaxAsked, NoSocket

\* pass is the list a publisher goes over, served whom it has sent to.
VARIABLES
    kind,
    connections, subscriptions, socket, pass, count, to, next, served, dead,
    got, owed, departures, asked

Fanout == INSTANCE EventFanout WITH Tasks <- Topics, at <- pass, sent <- served

ASSUME FanoutAssumption == Fanout!ConstantsOK

fanoutVars == <<connections, subscriptions, socket, pass, count, to, next, served, dead,
                got, owed, departures, asked>>
daemonVars == <<kind, vars, fanoutVars>>

DaemonInit == kind \in {"loops", "events"} /\ Init /\ Fanout!Init

LoopStep == kind = "loops" /\ Next /\ UNCHANGED <<kind, fanoutVars>>
EventStep == kind = "events" /\ Fanout!Next /\ UNCHANGED <<kind, vars>>

DaemonNext == LoopStep \/ EventStep

DaemonSpec ==
    /\ DaemonInit /\ [][DaemonNext]_daemonVars
    /\ Fairness /\ Fanout!Fairness

\* EventFanout says what these are (websocket.py).
DeliveredOnceInOrder == Fanout!DeliveredOnceInOrder
MissedByDeparturesOnly == Fanout!MissedByDeparturesOnly
PublishReturns == Fanout!PublishReturns

\* Every mode with room for a second run; iterate loops get it by default.
EveryMode == {<<"interval", 2>>, <<"daily", 2>>, <<"continuous", 2>>,
              <<"iterate", 0>>, <<"goal", 0>>}
=============================================================================
