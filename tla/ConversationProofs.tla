------------------------- MODULE ConversationProofs -------------------------
(***************************************************************************)
(* What Conversation promises, for any number of runs, turns, calls and    *)
(* errors.                                                                 *)
(***************************************************************************)
EXTENDS Conversation, TLAPS

AtTools == {"tools", "helper stream", "helper post"}

\* The calls without an answer are those of the reply that is being handled;
\* the calls that were cut off never joined the history.
OwedIsToDo == \A r \in Runs : owed[r] = IF pc[r] \in AtTools THEN todo[r] ELSE 0

\* What can be resumed owes nothing.
Resumable(saved) == saved.kind = "history" => saved.owed = 0
CheckpointsResumable == \A r \in Runs : Resumable(checkpoint[r])

\* What the request of a place has cost by then: a failed attempt three requests
\* at most, the first one of the turn three more; a stream that a chat may
\* follow is a single request.
Fits(q, place) ==
    /\ place \in {"new", "turn", "reply", "tools", "ended"} => q.failed = 0 /\ q.sent = 0
    /\ place \in {"probe", "native"} => q.failed = 0 /\ q.sent <= 3
    /\ place = "text" => q.failed <= 2 /\ q.sent <= 3 + 3 * q.failed
    /\ place = "stream" => /\ q.failed <= 2 /\ q.sent <= 6 + 3 * q.failed
                           /\ q.by = "openai" => q.sent <= 4 + 3 * q.failed
    /\ place = "chat" => q.failed <= 2 /\ q.sent <= 5 + 3 * q.failed
    /\ place = "helper stream" => /\ q.failed <= 1 /\ q.sent <= 3
                                  /\ q.by = "kimi" => q.sent <= 1 + 2 * q.failed
    /\ place = "helper post" => q.failed <= 1 /\ q.sent <= 2 + 2 * q.failed

RequestsFit == \A r \in Runs : Fits(request[r], pc[r])

IInv == TypeOK /\ OwedIsToDo /\ CheckpointsResumable /\ RequestsFit

-----------------------------------------------------------------------------
(* What a step does to one run.                                            *)

\* What one call of a client costs.
LEMMA SdkCost ==
    ASSUME NEW by, NEW n \in SdkRequests(by)
    PROVE  /\ n \in Nat /\ n <= 3
           /\ by # "anthropic" => n = 1
BY DEF SdkRequests

\* The first call of a turn or of a tool.
LEMMA FirstFits ==
    ASSUME NEW by \in Clients \cup {"nobody", "kimi"}, NEW n \in SdkRequests(by)
    PROVE  LET q == [by |-> by, failed |-> 0, sent |-> n]
           IN /\ q \in Request /\ Fits(q, "probe") /\ Fits(q, "native")
              /\ Fits(q, "helper stream")
<1> DEFINE q == [by |-> by, failed |-> 0, sent |-> n]
<1>0. n \in Nat /\ n <= 3 /\ (by = "kimi" => n = 1)
  BY SdkCost
<1>1. q \in Request
  BY <1>0 DEF Request
<1>2. q.failed = 0 /\ q.sent = n /\ q.by = by
  OBVIOUS
<1> HIDE DEF q
<1>3. /\ q.sent <= 3 /\ q.failed <= 1
      /\ q.by = "kimi" => q.sent <= 1 + 2 * q.failed
  BY <1>0, <1>2
<1>4. Fits(q, "probe") /\ Fits(q, "native")
  BY <1>2, <1>3 DEF Fits
<1>5. Fits(q, "helper stream")
  BY <1>3 DEF Fits
<1> QED BY <1>1, <1>4, <1>5 DEF q

LEMMA TextFits ==
    ASSUME NEW q \in Request, NEW place \in {"turn", "probe", "native"}, Fits(q, place)
    PROVE  Fits(q, "text")
<1>1. q.failed = 0
  BY DEF Fits
<1>2. q.sent = 0 \/ q.sent <= 3
  BY DEF Fits
<1>3. q.failed \in Nat /\ q.sent \in Nat
  BY DEF Request
<1>4. q.failed <= 2 /\ q.sent <= 3 + 3 * q.failed
  BY <1>1, <1>2, <1>3
<1> QED BY <1>4 DEF Fits

\* The call of an attempt, by the client of the moment.
LEMMA StreamFits ==
    ASSUME NEW q \in Request, NEW by \in Clients, NEW n \in SdkRequests(by), Fits(q, "text")
    PROVE  LET more == [by |-> by, failed |-> q.failed, sent |-> q.sent + n]
           IN more \in Request /\ Fits(more, "stream")
<1> DEFINE more == [by |-> by, failed |-> q.failed, sent |-> q.sent + n]
<1>1. q.failed \in Nat /\ q.sent \in Nat
  BY DEF Request
<1>2. n \in Nat /\ n <= 3 /\ (by = "openai" => n = 1)
  BY SdkCost
<1>3. more \in Request
  BY <1>1, <1>2 DEF Request
<1>4. more.failed = q.failed /\ more.sent = q.sent + n /\ more.by = by
  OBVIOUS
<1> HIDE DEF more
<1>5. q.failed <= 2 /\ q.sent <= 3 + 3 * q.failed
  BY DEF Fits
<1>6. /\ more.failed <= 2 /\ more.sent <= 6 + 3 * more.failed
      /\ more.by = "openai" => more.sent <= 4 + 3 * more.failed
  BY <1>1, <1>2, <1>4, <1>5
<1>7. Fits(more, "stream")
  BY <1>6 DEF Fits
<1> QED BY <1>3, <1>7 DEF more

\* The request without a stream that follows one with a stream.
LEMMA MoreFits ==
    ASSUME NEW q \in Request
    PROVE  LET more == [by |-> q.by, failed |-> q.failed, sent |-> q.sent + 1]
           IN /\ more \in Request
              /\ q.by = "openai" /\ Fits(q, "stream") => Fits(more, "chat")
              /\ q.by = "kimi" /\ Fits(q, "helper stream") => Fits(more, "helper post")
<1> DEFINE more == [by |-> q.by, failed |-> q.failed, sent |-> q.sent + 1]
<1>1. q.failed \in Nat /\ q.sent \in Nat
  BY DEF Request
<1>2. more \in Request
  BY <1>1 DEF Request
<1>3. more.failed = q.failed /\ more.sent = q.sent + 1
  OBVIOUS
<1> HIDE DEF more
<1>4. ASSUME q.by = "openai", Fits(q, "stream")
      PROVE  Fits(more, "chat")
  <2>1. q.failed <= 2 /\ q.sent <= 4 + 3 * q.failed
    BY <1>4 DEF Fits
  <2>2. more.failed <= 2 /\ more.sent <= 5 + 3 * more.failed
    BY <1>1, <1>3, <2>1
  <2> QED BY <2>2 DEF Fits
<1>5. ASSUME q.by = "kimi", Fits(q, "helper stream")
      PROVE  Fits(more, "helper post")
  <2>1. q.failed <= 1 /\ q.sent <= 1 + 2 * q.failed
    BY <1>5 DEF Fits
  <2>2. more.failed <= 1 /\ more.sent <= 2 + 2 * more.failed
    BY <1>1, <1>3, <2>1
  <2> QED BY <2>2 DEF Fits
<1> QED BY <1>2, <1>4, <1>5 DEF more

\* An attempt that has failed pays for three requests, one of a tool for two.
LEMMA FailedFits ==
    ASSUME NEW q \in Request, NEW n \in {0, 1}
    PROVE  LET again == [by |-> q.by, failed |-> q.failed + 1, sent |-> q.sent + n]
           IN /\ again \in Request
              /\ n = 0 /\ q.failed + 1 < TextAttempts /\ (Fits(q, "stream") \/ Fits(q, "chat"))
                 => Fits(again, "text")
              /\ n = 1 /\ q.failed + 1 < HelperAttempts /\ q.by = "kimi"
                 /\ (Fits(q, "helper stream") \/ Fits(q, "helper post"))
                 => Fits(again, "helper stream")
<1> DEFINE again == [by |-> q.by, failed |-> q.failed + 1, sent |-> q.sent + n]
<1>1. q.failed \in Nat /\ q.sent \in Nat
  BY DEF Request
<1>2. again \in Request
  BY <1>1 DEF Request
<1>3. again.failed = q.failed + 1 /\ again.sent = q.sent + n
  OBVIOUS
<1> HIDE DEF again
<1>4. ASSUME n = 0, q.failed + 1 < TextAttempts, Fits(q, "stream") \/ Fits(q, "chat")
      PROVE  Fits(again, "text")
  <2>1. q.sent <= 6 + 3 * q.failed \/ q.sent <= 5 + 3 * q.failed
    BY <1>4 DEF Fits
  <2>2. again.failed <= 2 /\ again.sent <= 3 + 3 * again.failed
    BY <1>1, <1>3, <1>4, <2>1 DEF TextAttempts
  <2> QED BY <2>2 DEF Fits
<1>5. ASSUME n = 1, q.failed + 1 < HelperAttempts, q.by = "kimi",
             Fits(q, "helper stream") \/ Fits(q, "helper post")
      PROVE  Fits(again, "helper stream")
  <2>1. q.sent <= 1 + 2 * q.failed \/ q.sent <= 2 + 2 * q.failed
    BY <1>5 DEF Fits
  <2>2. again.failed = q.failed + 1 /\ again.sent = q.sent + 1 /\ q.failed + 1 < 2
    BY <1>3, <1>5 DEF HelperAttempts
  <2>3. /\ again.failed <= 1 /\ again.sent <= 3
        /\ again.sent <= 1 + 2 * again.failed
    BY <1>1, <2>1, <2>2
  <2> QED BY <2>3 DEF Fits
<1> QED BY <1>2, <1>4, <1>5 DEF again

LEMMA SentBounded ==
    ASSUME NEW q \in Request, NEW place \in Places, Fits(q, place)
    PROVE  q.sent <= IF place \in {"helper stream", "helper post"} THEN 4 ELSE 12
<1>1. q.failed \in Nat /\ q.sent \in Nat
  BY DEF Request
<1>2. CASE place \in {"helper stream", "helper post"}
  <2>1. q.failed <= 1
    BY <1>2 DEF Fits
  <2>2. q.sent <= 3 \/ q.sent <= 2 + 2 * q.failed
    BY <1>2 DEF Fits
  <2>3. q.sent <= 4
    BY <1>1, <2>1, <2>2
  <2> QED BY <1>2, <2>3
<1>3. CASE place \in {"text", "stream", "chat"}
  <2>1. q.failed <= 2
    BY <1>3 DEF Fits
  <2>2. q.sent <= 3 + 3 * q.failed \/ q.sent <= 6 + 3 * q.failed \/ q.sent <= 5 + 3 * q.failed
    BY <1>3 DEF Fits
  <2>3. q.sent <= 12
    BY <1>1, <2>1, <2>2
  <2> QED BY <1>3, <2>3
<1>4. CASE place \in {"new", "turn", "reply", "tools", "ended", "probe", "native"}
  <2>1. q.sent = 0 \/ q.sent <= 3
    BY <1>4 DEF Fits
  <2>2. q.sent <= 12
    BY <1>1, <2>1
  <2> QED BY <1>4, <2>2
<1> QED BY <1>2, <1>3, <1>4 DEF Places

\* It makes a request, or takes its end.
LEMMA Asks ==
    ASSUME IInv, NEW r \in Runs, NEW place \in Places, NEW q \in Request,
           Goto(r, place), request' = [request EXCEPT ![r] = q],
           Fits(q, place), place \in AtTools <=> pc[r] \in AtTools,
           native' \in {"unknown", "yes", "no"}, reply' \in [Runs -> Received],
           UNCHANGED <<client, questioned, turn, errors, todo, historyVars, outcome,
                       checkpoint, doubted>>
    PROVE  IInv'
<1>1. pc'[r] = place /\ request'[r] = q
  BY DEF IInv, TypeOK, Goto
<1>2. \A s \in Runs \ {r} : pc'[s] = pc[s] /\ request'[s] = request[s]
  BY DEF IInv, TypeOK, Goto
<1>3. TypeOK'
  BY DEF IInv, TypeOK, Goto, historyVars
<1>4. OwedIsToDo'
  BY <1>1, <1>2 DEF IInv, OwedIsToDo, historyVars
<1>5. RequestsFit'
  BY <1>1, <1>2 DEF IInv, RequestsFit
<1> QED BY <1>3, <1>4, <1>5 DEF IInv, CheckpointsResumable

\* It ends it.
LEMMA Ends ==
    ASSUME IInv, NEW r \in Runs, NEW why, Outcome(why) \in Outcomes, End(r, why),
           questioned' \in BOOLEAN, UNCHANGED <<client, native, checkpoint, doubted>>
    PROVE  IInv'
<1>1. NoRequest \in Request /\ Fits(NoRequest, "ended")
  BY DEF NoRequest, Request, Fits
<1>2. NoReply \in Received
  BY DEF NoReply, Reply, Received
<1>3. /\ pc' = [pc EXCEPT ![r] = "ended"] /\ request' = [request EXCEPT ![r] = NoRequest]
      /\ owed' = [owed EXCEPT ![r] = 0]
      /\ todo' = [todo EXCEPT ![r] = 0]
  BY DEF End, Goto
<1>4. pc'[r] = "ended" /\ request'[r] = NoRequest /\ owed'[r] = 0
  BY <1>3 DEF IInv, TypeOK
<1>5. \A s \in Runs \ {r} : /\ pc'[s] = pc[s] /\ request'[s] = request[s]
                            /\ owed'[s] = owed[s] /\ todo'[s] = todo[s]
  BY <1>3 DEF IInv, TypeOK
<1>6. TypeOK'
  <2>1. /\ turn' = [turn EXCEPT ![r] = 0] /\ errors' = [errors EXCEPT ![r] = 0]
        /\ reply' = [reply EXCEPT ![r] = NoReply] /\ called' = [called EXCEPT ![r] = FALSE]
        /\ outcome' = [outcome EXCEPT ![r] = Outcome(why)]
    BY DEF End
  <2>2. /\ turn' \in [Runs -> Nat] /\ errors' \in [Runs -> Nat] /\ todo' \in [Runs -> Nat]
        /\ owed' \in [Runs -> Int] /\ called' \in [Runs -> BOOLEAN]
    BY <1>3, <2>1 DEF IInv, TypeOK
  <2>3. /\ request' \in [Runs -> Request] /\ reply' \in [Runs -> Received]
        /\ outcome' \in [Runs -> Outcomes]
    BY <1>1, <1>2, <1>3, <2>1 DEF IInv, TypeOK
  <2>4. pc' \in [Runs -> Places]
    BY <1>3 DEF IInv, TypeOK, Places
  <2> QED BY <2>2, <2>3, <2>4 DEF IInv, TypeOK
<1>7. OwedIsToDo'
  BY <1>4, <1>5 DEF IInv, OwedIsToDo, AtTools
<1>8. RequestsFit'
  BY <1>1, <1>4, <1>5 DEF IInv, RequestsFit
<1> QED BY <1>6, <1>7, <1>8 DEF IInv, CheckpointsResumable

\* It goes to its next turn.
LEMMA Turns ==
    ASSUME IInv, NEW r \in Runs, NextTurn(r), owed[r] = 0, pc[r] \in {"reply", "tools"},
           questioned' \in BOOLEAN, errors' \in [Runs -> Nat],
           doubted' \in [Runs -> SUBSET Runs],
           checkpoint' \in [Runs -> Saved], CheckpointsResumable',
           UNCHANGED <<client, native>>
    PROVE  IInv'
<1>1. NoReply \in Received
  BY DEF NoReply, Reply, Received
<1>2. pc' = [pc EXCEPT ![r] = "turn"] /\ UNCHANGED <<request, todo, owed>>
  BY DEF NextTurn, Goto, historyVars
<1>3. TypeOK'
  <2>1. /\ turn' = [turn EXCEPT ![r] = turn[r] + 1] /\ reply' = [reply EXCEPT ![r] = NoReply]
        /\ UNCHANGED <<called, outcome>>
    BY DEF NextTurn, historyVars
  <2>2. turn' \in [Runs -> Nat] /\ reply' \in [Runs -> Received]
    BY <1>1, <2>1 DEF IInv, TypeOK
  <2>3. pc' \in [Runs -> Places]
    BY <1>2 DEF IInv, TypeOK, Places
  <2> QED BY <1>2, <2>1, <2>2, <2>3 DEF IInv, TypeOK
<1>4. pc'[r] = "turn" /\ \A s \in Runs \ {r} : pc'[s] = pc[s]
  BY <1>2 DEF IInv, TypeOK
<1>5. OwedIsToDo'
  BY <1>2, <1>4 DEF IInv, OwedIsToDo, AtTools
<1>6. Fits(request[r], "turn")
  BY DEF IInv, RequestsFit, Fits
<1>7. RequestsFit'
  BY <1>2, <1>4, <1>6 DEF IInv, RequestsFit
<1> QED BY <1>3, <1>5, <1>7 DEF IInv

\* It answers a call.
LEMMA Answers ==
    ASSUME IInv, NEW r \in Runs, pc[r] = "tools", todo[r] > 0, Answered(r),
           errors' \in [Runs -> Nat], checkpoint' \in [Runs -> Saved],
           CheckpointsResumable', UNCHANGED <<sharedVars, doubted>>
    PROVE  IInv'
<1>1. /\ todo' = [todo EXCEPT ![r] = todo[r] - 1] /\ owed' = [owed EXCEPT ![r] = owed[r] - 1]
      /\ UNCHANGED <<pc, request>>
  BY DEF Answered
<1>2. todo[r] - 1 \in Nat /\ owed[r] - 1 \in Int
  BY DEF IInv, TypeOK
<1>3. TypeOK'
  BY <1>1, <1>2 DEF IInv, TypeOK, Answered, sharedVars
<1>4. todo'[r] = todo[r] - 1 /\ owed'[r] = owed[r] - 1
  BY <1>1 DEF IInv, TypeOK
<1>5. \A s \in Runs \ {r} : todo'[s] = todo[s] /\ owed'[s] = owed[s]
  BY <1>1 DEF IInv, TypeOK
<1>6. OwedIsToDo'
  BY <1>1, <1>4, <1>5 DEF IInv, OwedIsToDo, AtTools
<1>7. RequestsFit'
  BY <1>1 DEF IInv, RequestsFit
<1> QED BY <1>3, <1>6, <1>7 DEF IInv

-----------------------------------------------------------------------------
(* The steps.                                                              *)

LEMMA InitHolds == Init => IInv
<1> SUFFICES ASSUME Init PROVE IInv
  OBVIOUS
<1>1. NoRequest \in Request /\ Fits(NoRequest, "new")
  BY DEF NoRequest, Request, Fits
<1>2. NoReply \in Received
  BY DEF NoReply, Reply, Received
<1>3. NoHistory("none") \in Saved /\ Resumable(NoHistory("none"))
  BY DEF NoHistory, Saved, Resumable
<1>4. TypeOK
  <2>1. /\ client \in Clients /\ native \in {"unknown", "yes", "no"} /\ questioned \in BOOLEAN
    BY DEF Init
  <2>4. /\ turn \in [Runs -> Nat] /\ errors \in [Runs -> Nat] /\ todo \in [Runs -> Nat]
        /\ owed \in [Runs -> Int] /\ called \in [Runs -> BOOLEAN]
        /\ doubted \in [Runs -> SUBSET Runs]
    BY DEF Init
  <2>2. pc \in [Runs -> Places] /\ outcome \in [Runs -> Outcomes]
    BY DEF Init, Places, Outcomes
  <2>3. /\ request \in [Runs -> Request] /\ reply \in [Runs -> Received]
        /\ checkpoint \in [Runs -> Saved]
    BY <1>1, <1>2, <1>3 DEF Init
  <2> QED BY <2>1, <2>2, <2>3, <2>4 DEF TypeOK
<1> QED BY <1>1, <1>3, <1>4
        DEF Init, IInv, OwedIsToDo, CheckpointsResumable, RequestsFit, AtTools

\* A run begins; a history that is resumed owes nothing.
LEMMA BeginKeeps ==
    ASSUME IInv, NEW r \in Runs, Start(r) \/ ResumeFromCheckpoint(r)
    PROVE  IInv'
<1>1. /\ pc' = [pc EXCEPT ![r] = "turn"] /\ pc[r] \in {"new", "ended"}
      /\ outcome' = [outcome EXCEPT ![r] = "none"] /\ questioned' = FALSE
      /\ doubted' = [doubted EXCEPT ![r] = {}]
      /\ UNCHANGED <<client, native, turn, errors, request, reply, todo, checkpoint>>
  BY DEF Start, ResumeFromCheckpoint, Begin, Goto
<1>2. PICK h \in BOOLEAN :
          \/ UNCHANGED <<owed, called>>
          \/ owed' = [owed EXCEPT ![r] = 0] /\ called' = [called EXCEPT ![r] = h]
  <2>1. CASE Start(r)
    BY <2>1 DEF Start, historyVars
  <2>2. CASE ResumeFromCheckpoint(r)
    <3>1. checkpoint[r] \in Saved /\ checkpoint[r].owed = 0
      BY <2>2 DEF ResumeFromCheckpoint, IInv, TypeOK, CheckpointsResumable, Resumable
    <3>2. checkpoint[r].called \in BOOLEAN
      BY <3>1 DEF Saved
    <3> QED BY <2>2, <3>1, <3>2 DEF ResumeFromCheckpoint
  <2> QED BY <2>1, <2>2
<1>3. pc' \in [Runs -> Places] /\ outcome' \in [Runs -> Outcomes]
      /\ doubted' \in [Runs -> SUBSET Runs]
  BY <1>1 DEF IInv, TypeOK, Places, Outcomes
<1>4. owed' \in [Runs -> Int] /\ called' \in [Runs -> BOOLEAN]
  BY <1>2 DEF IInv, TypeOK
<1>5. TypeOK'
  BY <1>1, <1>3, <1>4 DEF IInv, TypeOK
<1>6. pc'[r] = "turn" /\ \A s \in Runs \ {r} : pc'[s] = pc[s] /\ owed'[s] = owed[s]
  BY <1>1, <1>2 DEF IInv, TypeOK
<1>7. owed'[r] = 0
  BY <1>1, <1>2 DEF IInv, TypeOK, OwedIsToDo, AtTools
<1>8. OwedIsToDo'
  BY <1>1, <1>6, <1>7 DEF IInv, OwedIsToDo, AtTools
<1>9. Fits(request[r], "turn")
  BY <1>1 DEF IInv, RequestsFit, Fits
<1>10. RequestsFit'
  BY <1>1, <1>6, <1>9 DEF IInv, RequestsFit
<1> QED BY <1>1, <1>5, <1>8, <1>10 DEF IInv, CheckpointsResumable

\* A step of the requests of a turn.
LEMMA RequestKeeps ==
    ASSUME IInv, NEW r \in Runs, BeginTurn(r) \/ Attempt(r) \/ NativeFails(r, TRUE)
                                 \/ NativeFails(r, FALSE)
    PROVE  IInv'
<1> request[r] \in Request /\ Fits(request[r], pc[r]) /\ reply \in [Runs -> Received]
  BY DEF IInv, TypeOK, RequestsFit
<1> client \in Clients /\ native \in {"unknown", "yes", "no"}
  BY DEF IInv, TypeOK
<1> DEFINE first(n) == [by |-> client, failed |-> 0, sent |-> n]
           more(n) == [by |-> client, failed |-> request[r].failed,
                       sent |-> request[r].sent + n]
<1>0. request[r].failed \in Nat /\ request[r].sent \in Nat
  BY DEF Request
<1>1. ASSUME NEW n \in SdkRequests(client)
      PROVE  first(n) \in Request /\ Fits(first(n), "probe") /\ Fits(first(n), "native")
  BY <1>1, FirstFits
<1>2. ASSUME NEW n \in SdkRequests(client), pc[r] = "text"
      PROVE  more(n) \in Request /\ Fits(more(n), "stream")
  BY <1>2, StreamFits
<1>3. pc[r] \in {"turn", "probe", "native"} => Fits(request[r], "text")
  BY TextFits
<1>4. pc \in [Runs -> Places] /\ request = [request EXCEPT ![r] = request[r]]
  BY DEF IInv, TypeOK
<1>5. CASE BeginTurn(r) /\ native # "no" /\ Sendable(r)
  <2>1. PICK place \in {"probe", "native"} : Goto(r, place)
    BY <1>5 DEF BeginTurn
  <2>2. PICK n \in SdkRequests(client) : request' = [request EXCEPT ![r] = first(n)]
    BY <1>5 DEF BeginTurn
  <2>3. /\ pc[r] = "turn"
        /\ UNCHANGED <<sharedVars, turn, errors, reply, todo, historyVars, outcome,
                       checkpoint, doubted>>
    BY <1>5 DEF BeginTurn
  <2>4. first(n) \in Request /\ Fits(first(n), "probe") /\ Fits(first(n), "native")
    BY <1>1
  <2> HIDE DEF first
  <2> QED BY <2>1, <2>2, <2>3, <2>4, Asks DEF sharedVars, Places, AtTools
<1>6. CASE BeginTurn(r) /\ ~(native # "no" /\ Sendable(r))
  <2>1. /\ Goto(r, "text") /\ request' = request /\ pc[r] = "turn"
        /\ UNCHANGED <<sharedVars, turn, errors, reply, todo, historyVars, outcome,
                       checkpoint, doubted>>
    BY <1>6 DEF BeginTurn
  <2> QED BY <1>3, <1>4, <2>1, Asks DEF sharedVars, Places, AtTools
<1>7. CASE Attempt(r)
  <2>1. /\ Goto(r, "stream") /\ pc[r] = "text"
        /\ UNCHANGED <<sharedVars, turn, errors, reply, todo, historyVars, outcome,
                       checkpoint, doubted>>
    BY <1>7 DEF Attempt
  <2>2. PICK n \in SdkRequests(client) : request' = [request EXCEPT ![r] = more(n)]
    BY <1>7 DEF Attempt
  <2>3. more(n) \in Request /\ Fits(more(n), "stream")
    BY <1>2, <2>1
  <2> HIDE DEF more
  <2> QED BY <2>1, <2>2, <2>3, Asks DEF sharedVars, Places, AtTools
<1>8. CASE NativeFails(r, TRUE) \/ NativeFails(r, FALSE)
  <2>1. /\ Goto(r, "text") /\ request' = request /\ pc[r] \in {"probe", "native"}
        /\ native' \in {"unknown", "yes", "no"}
        /\ UNCHANGED <<client, questioned, turn, errors, reply, todo, historyVars, outcome,
                       checkpoint, doubted>>
    BY <1>8 DEF NativeFails
  <2> QED BY <1>3, <1>4, <2>1, Asks DEF Places, AtTools
<1> QED BY <1>5, <1>6, <1>7, <1>8

\* A reply has come, or the last attempt has failed.
LEMMA GotKeeps ==
    ASSUME IInv, NEW r \in Runs, NEW answer \in Received, Got(r, answer),
           pc[r] \in {"probe", "native", "stream", "chat"},
           native' \in {"unknown", "yes", "no"},
           UNCHANGED <<client, questioned, turn, errors, todo, historyVars, outcome,
                       checkpoint, doubted>>
    PROVE  IInv'
<1>1. NoRequest \in Request /\ Fits(NoRequest, "reply")
  BY DEF NoRequest, Request, Fits
<1>2. reply' \in [Runs -> Received]
  BY DEF Got, IInv, TypeOK
<1> QED BY <1>1, <1>2, Asks DEF Got, Places, AtTools

LEMMA AnswersReceived == Texts \cup Called \subseteq Received /\ Reply("outage", 0) \in Received
<1>1. Texts \subseteq Received /\ Reply("outage", 0) \in Received
  BY DEF Texts, Reply, Received
<1>2. Called \subseteq Received
  BY ConversationAssumption DEF Called, Reply, Received, ConversationAssumption
<1> QED BY <1>1, <1>2

LEMMA RepliesKeep ==
    ASSUME IInv, NEW r \in Runs, NEW answer \in Texts \cup Called,
           NativeReplies(r, answer) \/ StreamReplies(r, answer) \/ ChatReplies(r, answer)
    PROVE  IInv'
<1>1. answer \in Received /\ native \in {"unknown", "yes", "no"}
  BY AnswersReceived DEF IInv, TypeOK
<1>2. /\ Got(r, answer) /\ pc[r] \in {"probe", "native", "stream", "chat"}
      /\ native' \in {"unknown", "yes", "no"}
      /\ UNCHANGED <<client, questioned, turn, errors, todo, historyVars, outcome,
                     checkpoint, doubted>>
  BY <1>1 DEF NativeReplies, StreamReplies, ChatReplies, sharedVars
<1> QED BY <1>1, <1>2, GotKeeps

\* An attempt fails, or its client makes up for it.
LEMMA FailuresKeep ==
    ASSUME IInv, NEW r \in Runs, StreamFails(r) \/ ChatFails(r)
    PROVE  IInv'
<1> request[r] \in Request /\ Fits(request[r], pc[r]) /\ reply \in [Runs -> Received]
  BY DEF IInv, TypeOK, RequestsFit
<1> DEFINE more == [by |-> request[r].by, failed |-> request[r].failed,
                    sent |-> request[r].sent + 1]
           again == [by |-> request[r].by, failed |-> request[r].failed + 1,
                     sent |-> request[r].sent + 0]
<1>0. request[r].failed \in Nat /\ request[r].sent \in Nat
      /\ request[r].by \in Clients \cup {"nobody", "kimi"}
  BY DEF Request
<1>1. /\ native \in {"unknown", "yes", "no"} /\ pc[r] \in {"stream", "chat"}
      /\ UNCHANGED <<sharedVars, turn, errors, todo, historyVars, outcome, checkpoint, doubted>>
  BY DEF StreamFails, ChatFails, IInv, TypeOK
<1>2. CASE pc[r] = "stream" /\ request[r].by = "openai"
  <2>1. Goto(r, "chat") /\ reply' = reply
    BY <1>2 DEF StreamFails, ChatFails
  <2>2. request' = [request EXCEPT ![r] = more]
    BY <1>2 DEF StreamFails, ChatFails, IInv, TypeOK, Request
  <2>3. more \in Request /\ Fits(more, "chat")
    BY <1>0, <1>2, MoreFits
  <2> HIDE DEF more
  <2> QED BY <1>1, <1>2, <2>1, <2>2, <2>3, Asks DEF sharedVars, Places, AtTools
<1>3. CASE AttemptFails(r) /\ request[r].failed + 1 < TextAttempts
  <2>1. Goto(r, "text") /\ reply' = reply
    BY <1>3 DEF AttemptFails
  <2>2. request' = [request EXCEPT ![r] = again]
    BY <1>0, <1>3 DEF AttemptFails, IInv, TypeOK, Request
  <2>3. again \in Request /\ Fits(again, "text")
    BY <1>1, <1>3, FailedFits
  <2> HIDE DEF again
  <2> QED BY <1>1, <2>1, <2>2, <2>3, Asks DEF sharedVars, Places, AtTools
<1>4. CASE AttemptFails(r) /\ ~(request[r].failed + 1 < TextAttempts)
  <2>1. Got(r, Reply("outage", 0))
    BY <1>4 DEF AttemptFails
  <2> QED BY <1>1, <2>1, GotKeeps, AnswersReceived DEF sharedVars
<1>5. AttemptFails(r) \/ (pc[r] = "stream" /\ request[r].by = "openai")
  BY DEF StreamFails, ChatFails
<1> QED BY <1>2, <1>3, <1>4, <1>5

\* The reply is prose, or of no use.
LEMMA TextKeeps ==
    ASSUME IInv, NEW r \in Runs, ReplyUnusable(r) \/ ReplyProse(r)
    PROVE  IInv'
<1>1. pc[r] = "reply" /\ owed[r] = 0 /\ UNCHANGED <<client, native, checkpoint>>
  BY DEF ReplyUnusable, ReplyProse, sharedVars, IInv, OwedIsToDo, AtTools
<1>2. errors \in [Runs -> Nat] /\ doubted \in [Runs -> SUBSET Runs] /\ questioned \in BOOLEAN
      /\ checkpoint' \in [Runs -> Saved] /\ CheckpointsResumable'
  BY <1>1 DEF IInv, TypeOK, CheckpointsResumable
<1>3. ASSUME NEW why \in {"stopped", "outage", "prose"}
      PROVE  Outcome(why) \in Outcomes
  BY DEF Outcome, Outcomes
<1>4. CASE ReplyUnusable(r)
  <2>1. CASE errors[r] + 1 >= MaxErrors
    BY <1>1, <1>2, <1>3, <1>4, <2>1, Ends DEF ReplyUnusable, sharedVars
  <2>2. CASE ~(errors[r] + 1 >= MaxErrors)
    <3>1. NextTurn(r) /\ errors' \in [Runs -> Nat] /\ UNCHANGED <<questioned, doubted>>
      BY <1>2, <1>4, <2>2 DEF ReplyUnusable, sharedVars
    <3> QED BY <1>1, <1>2, <3>1, Turns
  <2> QED BY <2>1, <2>2
<1>5. CASE ReplyProse(r)
  <2>1. CASE questioned
    <3>1. PICK why \in {"outage", "prose"} : End(r, why)
      BY <1>5, <2>1 DEF ReplyProse
    <3>2. questioned' \in BOOLEAN /\ UNCHANGED doubted
      BY <1>5, <2>1 DEF ReplyProse
    <3> QED BY <1>1, <1>3, <3>1, <3>2, Ends
  <2>2. CASE ~questioned
    <3>1. /\ NextTurn(r) /\ UNCHANGED errors /\ questioned' = TRUE
          /\ doubted' = [s \in Runs |-> doubted[s] \cup {r}]
      BY <1>5, <2>2 DEF ReplyProse
    <3>2. doubted' \in [Runs -> SUBSET Runs]
      BY <1>2, <3>1
    <3> QED BY <1>1, <1>2, <3>1, <3>2, Turns
  <2> QED BY <2>1, <2>2
<1> QED BY <1>4, <1>5

\* The calls that are kept join the history all together.
LEMMA CallsKeep ==
    ASSUME IInv, NEW r \in Runs, ReplyCalls(r)
    PROVE  IInv'
<1>1. NoReply \in Received
  BY DEF NoReply, Reply, Received
<1>2. reply[r].calls \in Nat /\ MaxCalls \in Nat
  BY ConversationAssumption DEF ConversationAssumption, IInv, TypeOK, Received
<1> DEFINE n == Fewer(reply[r].calls, MaxCalls)
<1>3. n \in Nat
  BY <1>2 DEF Fewer
<1>4. pc[r] = "reply" /\ owed[r] = 0
  BY DEF ReplyCalls, IInv, OwedIsToDo, AtTools
<1>5. /\ pc' = [pc EXCEPT ![r] = "tools"] /\ todo' = [todo EXCEPT ![r] = n]
      /\ owed' = [owed EXCEPT ![r] = owed[r] + todo'[r]]
      /\ called' = [called EXCEPT ![r] = TRUE] /\ reply' = [reply EXCEPT ![r] = NoReply]
      /\ UNCHANGED <<sharedVars, turn, errors, request, outcome, checkpoint, doubted>>
  BY DEF ReplyCalls, Goto
<1> HIDE DEF n
<1>6. todo'[r] = n /\ owed'[r] = n /\ pc'[r] = "tools"
  BY <1>3, <1>4, <1>5 DEF IInv, TypeOK
<1>7. owed' = [owed EXCEPT ![r] = n]
  BY <1>3, <1>4, <1>5, <1>6 DEF IInv, TypeOK
<1>8. TypeOK'
  <2>1. todo' \in [Runs -> Nat] /\ owed' \in [Runs -> Int] /\ called' \in [Runs -> BOOLEAN]
    BY <1>3, <1>5, <1>7 DEF IInv, TypeOK
  <2>2. pc' \in [Runs -> Places] /\ reply' \in [Runs -> Received]
    BY <1>1, <1>5 DEF IInv, TypeOK, Places
  <2> QED BY <1>5, <2>1, <2>2 DEF IInv, TypeOK, sharedVars
<1>9. \A s \in Runs \ {r} : pc'[s] = pc[s] /\ todo'[s] = todo[s] /\ owed'[s] = owed[s]
  BY <1>5, <1>7 DEF IInv, TypeOK
<1>10. OwedIsToDo'
  BY <1>6, <1>9 DEF IInv, OwedIsToDo, AtTools
<1>11. Fits(request[r], "tools")
  BY <1>4 DEF IInv, RequestsFit, Fits
<1>12. RequestsFit'
  BY <1>5, <1>6, <1>9, <1>11 DEF IInv, RequestsFit
<1> QED BY <1>5, <1>8, <1>10, <1>12 DEF IInv, CheckpointsResumable

\* A run ends, by itself or because it is stopped.
LEMMA EndsKeep ==
    ASSUME IInv, NEW r \in Runs, Cancel(r) \/ TurnLimit(r) \/ Respond(r)
    PROVE  IInv'
<1>1. PICK why \in {"cancelled", "limit", "respond"} : End(r, why)
  BY DEF Cancel, TurnLimit, Respond
<1>2. Outcome(why) \in Outcomes
  BY DEF Outcome, Outcomes
<1>3. questioned' \in BOOLEAN /\ UNCHANGED <<client, native, checkpoint, doubted>>
  BY DEF Cancel, TurnLimit, Respond, sharedVars, IInv, TypeOK
<1> QED BY <1>1, <1>2, <1>3, Ends

\* A call of the reply is handled.
LEMMA ToolKeeps ==
    ASSUME IInv, NEW r \in Runs, CallFails(r) \/ ToolSucceeds(r) \/ PlanSucceeds(r)
    PROVE  IInv'
<1>1. /\ pc[r] = "tools" /\ todo[r] > 0 /\ questioned' \in BOOLEAN
      /\ UNCHANGED <<sharedVars, doubted>>
  BY DEF CallFails, ToolSucceeds, PlanSucceeds, sharedVars, IInv, TypeOK
<1>2. errors \in [Runs -> Nat] /\ checkpoint \in [Runs -> Saved] /\ CheckpointsResumable
  BY DEF IInv, TypeOK
<1>3. CASE CallFails(r) /\ errors[r] + 1 >= MaxErrors
  <2>1. End(r, "stopped") /\ UNCHANGED checkpoint
    BY <1>3 DEF CallFails
  <2>2. Outcome("stopped") \in Outcomes
    BY DEF Outcome, Outcomes
  <2> QED BY <1>1, <2>1, <2>2, Ends DEF sharedVars
<1>4. CASE CallFails(r) /\ ~(errors[r] + 1 >= MaxErrors)
  <2>1. Answered(r) /\ UNCHANGED checkpoint /\ errors' \in [Runs -> Nat]
    BY <1>2, <1>4 DEF CallFails
  <2> QED BY <1>1, <1>2, <2>1, Answers DEF CheckpointsResumable
<1>5. CASE ToolSucceeds(r)
  <2>1. Answered(r) /\ UNCHANGED checkpoint /\ errors' \in [Runs -> Nat]
    BY <1>2, <1>5 DEF ToolSucceeds
  <2> QED BY <1>1, <1>2, <2>1, Answers DEF CheckpointsResumable
<1>6. CASE PlanSucceeds(r)
  <2>1. Answered(r) /\ errors' \in [Runs -> Nat]
    BY <1>2, <1>6 DEF PlanSucceeds
  <2>2. NoHistory("plan") \in Saved /\ Resumable(NoHistory("plan"))
    BY DEF NoHistory, Saved, Resumable
  <2>3. PICK saved \in Saved : /\ checkpoint' = [checkpoint EXCEPT ![r] = saved]
                               /\ Resumable(saved)
    BY <1>2, <1>6, <2>2 DEF PlanSucceeds, CheckpointsResumable
  <2>4. checkpoint' \in [Runs -> Saved] /\ CheckpointsResumable'
    BY <1>2, <2>3 DEF CheckpointsResumable
  <2> QED BY <1>1, <2>1, <2>4, Answers
<1> QED BY <1>3, <1>4, <1>5, <1>6

\* All calls are handled, so what is saved owes nothing.
LEMMA TurnDoneKeeps ==
    ASSUME IInv, NEW r \in Runs, TurnDone(r)
    PROVE  IInv'
<1>1. pc[r] = "tools" /\ owed[r] = 0 /\ called[r] \in BOOLEAN
  BY DEF TurnDone, IInv, TypeOK, OwedIsToDo, AtTools
<1>2. History(r) \in Saved /\ Resumable(History(r))
  BY <1>1 DEF History, Saved, Resumable
<1>3. checkpoint' = [checkpoint EXCEPT ![r] = History(r)] \/ checkpoint' = checkpoint
  BY DEF TurnDone
<1> HIDE DEF History
<1>4. checkpoint' \in [Runs -> Saved] /\ CheckpointsResumable'
  BY <1>2, <1>3 DEF IInv, TypeOK, CheckpointsResumable
<1>5. /\ NextTurn(r) /\ questioned' \in BOOLEAN /\ errors' \in [Runs -> Nat]
      /\ doubted' \in [Runs -> SUBSET Runs] /\ UNCHANGED <<client, native>>
  BY DEF TurnDone, IInv, TypeOK, sharedVars
<1> QED BY <1>1, <1>4, <1>5, Turns

\* A tool that asks an LLM.
LEMMA HelperKeeps ==
    ASSUME IInv, NEW r \in Runs,
           ToolAsks(r) \/ HelperStreamEmpty(r) \/ HelperRepeats(r) \/ HelperReturns(r)
    PROVE  IInv'
<1> request[r] \in Request /\ Fits(request[r], pc[r]) /\ reply \in [Runs -> Received]
  BY DEF IInv, TypeOK, RequestsFit
<1> DEFINE first(c, n) == [by |-> c, failed |-> 0, sent |-> n]
           more == [by |-> request[r].by, failed |-> request[r].failed,
                    sent |-> request[r].sent + 1]
           again == [by |-> request[r].by, failed |-> request[r].failed + 1,
                     sent |-> request[r].sent + 1]
<1>0. request[r].failed \in Nat /\ request[r].sent \in Nat
      /\ request[r].by \in Clients \cup {"nobody", "kimi"}
  BY DEF Request
<1>1. /\ native' \in {"unknown", "yes", "no"} /\ pc[r] \in AtTools /\ reply' = reply
      /\ UNCHANGED <<client, questioned, turn, errors, todo, historyVars, outcome,
                     checkpoint, doubted>>
  BY DEF ToolAsks, HelperStreamEmpty, HelperRepeats, HelperReturns, sharedVars, AtTools,
         IInv, TypeOK
<1>2. CASE ToolAsks(r)
  <2>1. PICK c \in Clients \cup {"kimi"} : \E n \in SdkRequests(c) :
            request' = [request EXCEPT ![r] = first(c, n)]
    BY <1>2 DEF ToolAsks
  <2>2. PICK n \in SdkRequests(c) : request' = [request EXCEPT ![r] = first(c, n)]
    BY <2>1
  <2>3. Goto(r, "helper stream")
    BY <1>2 DEF ToolAsks
  <2>4. first(c, n) \in Request /\ Fits(first(c, n), "helper stream")
    BY FirstFits
  <2> HIDE DEF first
  <2> QED BY <1>1, <2>2, <2>3, <2>4, Asks DEF Places, AtTools
<1>3. CASE HelperStreamEmpty(r)
  <2>1. pc[r] = "helper stream" /\ request[r].by = "kimi" /\ Goto(r, "helper post")
    BY <1>3 DEF HelperStreamEmpty
  <2>2. request' = [request EXCEPT ![r] = more]
    <3>1. request' = [request EXCEPT ![r] = [request[r] EXCEPT !.sent = request[r].sent + 1]]
      BY <1>3 DEF HelperStreamEmpty
    <3>2. [request[r] EXCEPT !.sent = request[r].sent + 1] = more
      BY DEF Request
    <3> QED BY <3>1, <3>2
  <2>3. more \in Request /\ Fits(more, "helper post")
    BY <1>0, <2>1, MoreFits
  <2> HIDE DEF more
  <2> QED BY <1>1, <2>1, <2>2, <2>3, Asks DEF Places, AtTools
<1>4. CASE HelperRepeats(r)
  <2>1. /\ pc[r] \in {"helper stream", "helper post"} /\ Goto(r, "helper stream")
        /\ request[r].failed + 1 < HelperAttempts /\ request[r].by = "kimi"
    BY <1>4 DEF HelperRepeats
  <2>2. request' = [request EXCEPT ![r] = again]
    BY <1>4 DEF HelperRepeats
  <2>3. again \in Request /\ Fits(again, "helper stream")
    BY <2>1, FailedFits
  <2> HIDE DEF again
  <2> QED BY <1>1, <2>1, <2>2, <2>3, Asks DEF Places, AtTools
<1>5. CASE HelperReturns(r)
  <2>1. request' = [request EXCEPT ![r] = NoRequest] /\ Goto(r, "tools")
    BY <1>5 DEF HelperReturns
  <2>2. NoRequest \in Request /\ Fits(NoRequest, "tools")
    BY DEF NoRequest, Request, Fits
  <2> QED BY <1>1, <2>1, <2>2, Asks DEF Places, AtTools
<1> QED BY <1>2, <1>3, <1>4, <1>5

\* A restart keeps the checkpoints, but for one that is torn.
LEMMA RestartKeeps ==
    ASSUME IInv, NEW torn \in SUBSET Runs, Restart(torn)
    PROVE  IInv'
<1>1. NoRequest \in Request /\ Fits(NoRequest, "new") /\ Fits(NoRequest, "ended")
  BY DEF NoRequest, Request, Fits
<1>2. NoReply \in Received
  BY DEF NoReply, Reply, Received
<1>3. NoHistory("torn") \in Saved /\ Resumable(NoHistory("torn"))
  BY DEF NoHistory, Saved, Resumable
<1>4. /\ client' \in Clients /\ native' = "unknown" /\ questioned' = FALSE
      /\ pc' = [r \in Runs |-> IF pc[r] = "new" THEN "new" ELSE "ended"]
      /\ outcome' = [r \in Runs |->
             IF pc[r] \in {"new", "ended"} THEN outcome[r] ELSE "failed"]
      /\ turn' = [r \in Runs |-> 0] /\ errors' = [r \in Runs |-> 0]
      /\ request' = [r \in Runs |-> NoRequest] /\ reply' = [r \in Runs |-> NoReply]
      /\ todo' = [r \in Runs |-> 0] /\ owed' = [r \in Runs |-> 0]
      /\ called' = [r \in Runs |-> FALSE] /\ UNCHANGED doubted
      /\ checkpoint' = [r \in Runs |-> IF r \in torn THEN NoHistory("torn") ELSE checkpoint[r]]
  BY DEF Restart
<1>5. TypeOK'
  <2>1. pc' \in [Runs -> Places] /\ outcome' \in [Runs -> Outcomes]
    BY <1>4 DEF IInv, TypeOK, Places, Outcomes
  <2>2. /\ turn' \in [Runs -> Nat] /\ errors' \in [Runs -> Nat] /\ todo' \in [Runs -> Nat]
        /\ owed' \in [Runs -> Int] /\ called' \in [Runs -> BOOLEAN]
        /\ doubted' \in [Runs -> SUBSET Runs]
    BY <1>4 DEF IInv, TypeOK
  <2>3. /\ request' \in [Runs -> Request] /\ reply' \in [Runs -> Received]
        /\ checkpoint' \in [Runs -> Saved]
    BY <1>1, <1>2, <1>3, <1>4 DEF IInv, TypeOK
  <2> QED BY <1>4, <2>1, <2>2, <2>3 DEF TypeOK
<1>6. OwedIsToDo' /\ RequestsFit'
  BY <1>1, <1>4 DEF OwedIsToDo, RequestsFit, AtTools
<1>7. CheckpointsResumable'
  BY <1>3, <1>4 DEF IInv, CheckpointsResumable
<1> QED BY <1>5, <1>6, <1>7 DEF IInv

LEMMA NextKeeps ==
    ASSUME IInv, [Next]_vars
    PROVE  IInv'
<1>1. ASSUME NEW r \in Runs, NEW forbidden \in BOOLEAN, NativeFails(r, forbidden)
      PROVE  IInv'
  BY <1>1, RequestKeeps
<1>2. ASSUME NEW c \in Clients, SwitchLlm(c)
      PROVE  IInv'
  BY <1>2 DEF SwitchLlm, IInv, TypeOK, OwedIsToDo, CheckpointsResumable, RequestsFit,
              localVars, historyVars
<1>3. CASE UNCHANGED vars
  BY <1>3 DEF IInv, TypeOK, OwedIsToDo, CheckpointsResumable, RequestsFit, vars, sharedVars,
              localVars, historyVars
<1> QED BY <1>1, <1>2, <1>3, BeginKeeps, RequestKeeps, RepliesKeep, FailuresKeep, TextKeeps,
           CallsKeep, EndsKeep, ToolKeeps, TurnDoneKeeps, HelperKeeps, RestartKeeps DEF Next

-----------------------------------------------------------------------------
(* The theorems.                                                           *)

\* The invariant holds for any number of runs, whatever the limits are.
THEOREM ConversationInvariance == Spec => []IInv
<1> QED BY InitHolds, NextKeeps, PTL DEF Spec

\* Whatever happens to the calls of a reply (react_agent.py 476), no request is
\* made and nothing is saved with a call that has no answer.
THEOREM HistoriesComplete == Spec => []EveryCallAnswered
<1>1. IInv => EveryCallAnswered
  BY DEF IInv, OwedIsToDo, AtTools, CheckpointsResumable, Resumable, EveryCallAnswered, Asking
<1> QED BY <1>1, ConversationInvariance, PTL

\* Retries and fallbacks (react_agent.py 809) end after twelve requests, or four.
THEOREM RequestsAreBounded == Spec => []RequestsBounded
<1>1. ASSUME IInv, NEW r \in Runs
      PROVE  request[r].sent <= IF pc[r] \in {"helper stream", "helper post"} THEN 4 ELSE 12
  <2>1. request[r] \in Request /\ pc[r] \in Places /\ Fits(request[r], pc[r])
    BY <1>1 DEF IInv, TypeOK, RequestsFit
  <2> QED BY <2>1, SentBounded
<1>2. IInv => RequestsBounded
  BY <1>1 DEF RequestsBounded
<1> QED BY <1>2, ConversationInvariance, PTL
=============================================================================
