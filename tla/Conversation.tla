---------------------------- MODULE Conversation ----------------------------
(***************************************************************************)
(* The talk of the ReAct loop with its LLM (core/react_agent.py, _loop,    *)
(* _call_llm and _text_react_call) and the clients it talks through        *)
(* (api/server.py).  All runs share one agent: its client, what it has     *)
(* found out about function calling, and the flag that says that prose has *)
(* been questioned once.  Between a request and the use of its reply other *)
(* runs take steps.                                                        *)
(*                                                                         *)
(* Of the message history only the calls count that have no answer in it;  *)
(* texts, tokens and arguments are left out.  Pause, stop and two loops of *)
(* one task are in TaskLifecycle, the reasons for an early stop after a    *)
(* failed tool in StuckDetection, the block of respond in ReviewGate.      *)
(***************************************************************************)
EXTENDS Integers, FiniteSets

CONSTANTS
    Runs,             \* one for each task
    Clients,          \* of openai (DeepSeek and ds4 too), anthropic, kimi, plain
    MaxTurns,
    MaxCalls,         \* max_tool_calls_per_turn
    MaxReplyCalls,    \* bound: calls in one reply
    MaxErrors,        \* max_consecutive_errors
    CheckpointEvery

ASSUME ConversationAssumption ==
    /\ Clients \subseteq {"openai", "anthropic", "kimi", "plain"} /\ Clients # {}
    /\ MaxTurns \in Nat \ {0} /\ MaxCalls \in Nat \ {0}
    /\ MaxReplyCalls \in Nat \ {0} /\ MaxErrors \in Nat \ {0}
    /\ CheckpointEvery \in Nat \ {0}

TextAttempts == 3
HelperAttempts == 2      \* KimiClient.MAX_RETRIES

\* The requests one call of an SDK may make: AsyncAnthropic is built with its
\* own two retries, AsyncOpenAI with none, the others use no SDK.
SdkRequests(c) == IF c = "anthropic" THEN 1 .. 3 ELSE {1}

VARIABLES
    client,      \* ReactAgent.llm
    native,      \* _function_calling_available: unknown, yes or no
    questioned,  \* _prose_retry_done
    pc, turn, errors,
    request,     \* the client object asked, attempts that have failed, and
                 \* (history) requests of the turn, or of the tool that asks
    reply,
    todo,        \* calls of the reply that are not handled yet
    owed,        \* calls in the history without an answer
    called,      \* the history has calls
    outcome,     \* failed, cancelled, or what completed the run
    checkpoint,
    doubted      \* history: runs whose prose was questioned since this one began

sharedVars == <<client, native, questioned>>
historyVars == <<owed, called>>
localVars == <<turn, errors, request, reply, todo, historyVars>>
vars == <<sharedVars, pc, localVars, outcome, checkpoint, doubted>>

Reply(kind, calls) == [kind |-> kind, calls |-> calls]
NoReply == Reply("none", 0)
NoRequest == [by |-> "nobody", failed |-> 0, sent |-> 0]
Texts == {Reply(kind, 0) : kind \in {"malformed", "empty", "prose"}}
Called == {Reply("calls", n) : n \in 1..MaxReplyCalls}

\* On disk: nothing, a plan without messages, a history, or half a file.
NoHistory(kind) == [kind |-> kind, owed |-> 0, called |-> FALSE]
History(r) == [kind |-> "history", owed |-> owed[r], called |-> called[r]]

Init ==
    /\ client \in Clients /\ native = "unknown" /\ questioned = FALSE
    /\ pc = [r \in Runs |-> "new"]
    /\ turn = [r \in Runs |-> 0]
    /\ errors = [r \in Runs |-> 0]
    /\ request = [r \in Runs |-> NoRequest]
    /\ reply = [r \in Runs |-> NoReply]
    /\ todo = [r \in Runs |-> 0]
    /\ owed = [r \in Runs |-> 0]
    /\ called = [r \in Runs |-> FALSE]
    /\ outcome = [r \in Runs |-> "none"]
    /\ checkpoint = [r \in Runs |-> NoHistory("none")]
    /\ doubted = [r \in Runs |-> {}]

Goto(r, place) == pc' = [pc EXCEPT ![r] = place]

-----------------------------------------------------------------------------
(* A run begins and ends.                                                  *)

Begin(r) ==
    /\ Goto(r, "turn")
    /\ outcome' = [outcome EXCEPT ![r] = "none"]
    /\ questioned' = FALSE
    /\ doubted' = [doubted EXCEPT ![r] = {}]
    /\ UNCHANGED <<client, native, turn, errors, request, reply, todo, checkpoint>>

Start(r) ==
    /\ pc[r] = "new"
    /\ Begin(r)
    /\ UNCHANGED historyVars

\* Only a checkpoint with messages can be resumed.
ResumeFromCheckpoint(r) ==
    /\ pc[r] = "ended" /\ checkpoint[r].kind = "history"
    /\ Begin(r)
    /\ owed' = [owed EXCEPT ![r] = checkpoint[r].owed]
    /\ called' = [called EXCEPT ![r] = checkpoint[r].called]

\* The same prefixes decide for run and _resume_run_safe.
Outcome(why) ==
    CASE why \in {"outage", "stopped", "limit"} -> "failed"
      [] why = "cancelled" -> "cancelled"
      [] OTHER -> why

\* What is local to the run goes with it.
End(r, why) ==
    /\ Goto(r, "ended")
    /\ outcome' = [outcome EXCEPT ![r] = Outcome(why)]
    /\ turn' = [turn EXCEPT ![r] = 0]
    /\ errors' = [errors EXCEPT ![r] = 0]
    /\ request' = [request EXCEPT ![r] = NoRequest]
    /\ reply' = [reply EXCEPT ![r] = NoReply]
    /\ todo' = [todo EXCEPT ![r] = 0]
    /\ owed' = [owed EXCEPT ![r] = 0]
    /\ called' = [called EXCEPT ![r] = FALSE]

\* A stop, at any await.
Cancel(r) ==
    /\ pc[r] \notin {"new", "ended"}
    /\ End(r, "cancelled")
    /\ UNCHANGED <<sharedVars, checkpoint, doubted>>

\* The process ends and starts again; an interrupted save leaves half a file.
Restart(torn) ==
    /\ \E r \in Runs : pc[r] # "new"
    /\ torn \subseteq {r \in Runs : pc[r] = "tools"} /\ Cardinality(torn) <= 1
    /\ client' \in Clients /\ native' = "unknown" /\ questioned' = FALSE
    /\ pc' = [r \in Runs |-> IF pc[r] = "new" THEN "new" ELSE "ended"]
    /\ outcome' = [r \in Runs |->
           IF pc[r] \in {"new", "ended"} THEN outcome[r] ELSE "failed"]
    /\ turn' = [r \in Runs |-> 0] /\ errors' = [r \in Runs |-> 0]
    /\ request' = [r \in Runs |-> NoRequest] /\ reply' = [r \in Runs |-> NoReply]
    /\ todo' = [r \in Runs |-> 0] /\ owed' = [r \in Runs |-> 0]
    /\ called' = [r \in Runs |-> FALSE]
    /\ checkpoint' = [r \in Runs |-> IF r \in torn THEN NoHistory("torn") ELSE checkpoint[r]]
    /\ UNCHANGED doubted

\* /llm/switch; what is known about function calling stays.
SwitchLlm(c) ==
    /\ c # client
    /\ client' = c
    /\ UNCHANGED <<native, questioned, pc, localVars, outcome, checkpoint, doubted>>

-----------------------------------------------------------------------------
(* One turn: the requests.                                                 *)

\* The Anthropic client fails on a history with calls before it sends it.
Sendable(r) == client = "anthropic" => ~called[r]

BeginTurn(r) ==
    /\ pc[r] = "turn" /\ turn[r] < MaxTurns
    /\ IF native # "no" /\ Sendable(r)
       THEN /\ Goto(r, IF native = "unknown" THEN "probe" ELSE "native")
            /\ \E n \in SdkRequests(client) :
                   request' = [request EXCEPT ![r] = [by |-> client, failed |-> 0, sent |-> n]]
       ELSE /\ Goto(r, "text")
            /\ UNCHANGED request
    /\ UNCHANGED <<sharedVars, turn, errors, reply, todo, historyVars, outcome,
                   checkpoint, doubted>>

Got(r, answer) ==
    /\ Goto(r, "reply")
    /\ reply' = [reply EXCEPT ![r] = answer]
    /\ request' = [request EXCEPT ![r] = NoRequest]

\* A client without function calling answers with its text.
NativeReplies(r, answer) ==
    /\ pc[r] \in {"probe", "native"}
    /\ answer.kind = "calls" => request[r].by # "plain"
    /\ native' = IF pc[r] = "probe" THEN "yes" ELSE native
    /\ Got(r, answer)
    /\ UNCHANGED <<client, questioned, turn, errors, todo, historyVars,
                   outcome, checkpoint, doubted>>

\* A probe that is forbidden is the last one; the turn goes on as text.
NativeFails(r, forbidden) ==
    /\ pc[r] \in {"probe", "native"}
    /\ forbidden => request[r].by # "plain"
    /\ native' = IF pc[r] = "probe" /\ forbidden THEN "no" ELSE native
    /\ Goto(r, "text")
    /\ UNCHANGED <<client, questioned, turn, errors, request, reply, todo,
                   historyVars, outcome, checkpoint, doubted>>

\* Each attempt takes the client of the moment.
Attempt(r) ==
    /\ pc[r] = "text"
    /\ \E n \in SdkRequests(client) :
           request' = [request EXCEPT ![r] =
               [by |-> client, failed |-> @.failed, sent |-> @.sent + n]]
    /\ Goto(r, "stream")
    /\ UNCHANGED <<sharedVars, turn, errors, reply, todo, historyVars,
                   outcome, checkpoint, doubted>>

\* A failed attempt is not counted when the client has a fallback.
MUTANT_AttemptFails(r) ==
    IF request[r].by = "openai" \/ request[r].failed + 1 < TextAttempts
    THEN /\ request' = [request EXCEPT ![r].failed = IF request[r].by = "openai" THEN @ ELSE @ + 1]
         /\ Goto(r, "text")
         /\ UNCHANGED reply
    ELSE Got(r, Reply("outage", 0))

AttemptFails(r) ==
    IF request[r].failed + 1 < TextAttempts
    THEN /\ request' = [request EXCEPT ![r].failed = @ + 1]
         /\ Goto(r, "text")
         /\ UNCHANGED reply
    ELSE Got(r, Reply("outage", 0))

\* A stream without content is an empty reply, but not of an OpenAI client.
StreamReplies(r, answer) ==
    /\ pc[r] = "stream"
    /\ answer.kind = "empty" => request[r].by # "openai"
    /\ Got(r, answer)
    /\ UNCHANGED <<sharedVars, turn, errors, todo, historyVars, outcome,
                   checkpoint, doubted>>

\* An OpenAI client asks again without a stream, after a failure as well as
\* after nothing; what had come before is kept and the answer added to it.
StreamFails(r) ==
    /\ pc[r] = "stream"
    /\ IF request[r].by = "openai"
       THEN /\ Goto(r, "chat")
            /\ request' = [request EXCEPT ![r].sent = @ + 1]
            /\ UNCHANGED reply
       ELSE AttemptFails(r)
    /\ UNCHANGED <<sharedVars, turn, errors, todo, historyVars, outcome, checkpoint, doubted>>

ChatReplies(r, answer) ==
    /\ pc[r] = "chat"
    /\ Got(r, answer)
    /\ UNCHANGED <<sharedVars, turn, errors, todo, historyVars, outcome,
                   checkpoint, doubted>>

ChatFails(r) ==
    /\ pc[r] = "chat"
    /\ AttemptFails(r)
    /\ UNCHANGED <<sharedVars, turn, errors, todo, historyVars, outcome, checkpoint, doubted>>

-----------------------------------------------------------------------------
(* One turn: the use of the reply.                                         *)

NextTurn(r) ==
    /\ Goto(r, "turn")
    /\ turn' = [turn EXCEPT ![r] = @ + 1]
    /\ reply' = [reply EXCEPT ![r] = NoReply]
    /\ UNCHANGED <<request, todo, historyVars, outcome>>

TurnLimit(r) ==
    /\ pc[r] = "turn" /\ turn[r] = MaxTurns
    /\ End(r, "limit")
    /\ UNCHANGED <<sharedVars, checkpoint, doubted>>

\* Without function calling a broken call is told from prose.
Unusable(r) ==
    reply[r].kind = "empty" \/ (reply[r].kind = "malformed" /\ native # "yes")

ReplyUnusable(r) ==
    /\ pc[r] = "reply" /\ Unusable(r)
    /\ IF errors[r] + 1 >= MaxErrors
       THEN End(r, "stopped")
       ELSE NextTurn(r) /\ errors' = [errors EXCEPT ![r] = @ + 1]
    /\ UNCHANGED <<sharedVars, checkpoint, doubted>>

ReplyProse(r) ==
    /\ pc[r] = "reply" /\ reply[r].kind \in {"prose", "malformed", "outage"} /\ ~Unusable(r)
    /\ IF questioned
       THEN /\ questioned' = FALSE
            /\ End(r, IF reply[r].kind = "outage" THEN "outage" ELSE "prose")
            /\ UNCHANGED doubted
       ELSE /\ questioned' = TRUE
            /\ doubted' = [s \in Runs |-> doubted[s] \cup {r}]
            /\ NextTurn(r) /\ UNCHANGED errors
    /\ UNCHANGED <<client, native, checkpoint>>

Fewer(a, b) == IF a < b THEN a ELSE b

\* The reply joins the history before its calls are cut off.
MUTANT_ReplyCalls(r) ==
    /\ pc[r] = "reply" /\ reply[r].kind = "calls"
    /\ Goto(r, "tools")
    /\ todo' = [todo EXCEPT ![r] = Fewer(reply[r].calls, MaxCalls)]
    /\ owed' = [owed EXCEPT ![r] = @ + reply[r].calls]
    /\ called' = [called EXCEPT ![r] = TRUE]
    /\ reply' = [reply EXCEPT ![r] = NoReply]
    /\ UNCHANGED <<sharedVars, turn, errors, request, outcome, checkpoint, doubted>>

ReplyCalls(r) ==
    /\ pc[r] = "reply" /\ reply[r].kind = "calls"
    /\ Goto(r, "tools")
    /\ todo' = [todo EXCEPT ![r] = Fewer(reply[r].calls, MaxCalls)]
    /\ owed' = [owed EXCEPT ![r] = @ + todo'[r]]
    /\ called' = [called EXCEPT ![r] = TRUE]
    /\ reply' = [reply EXCEPT ![r] = NoReply]
    /\ UNCHANGED <<sharedVars, turn, errors, request, outcome, checkpoint, doubted>>

Respond(r) ==
    /\ pc[r] = "tools" /\ todo[r] > 0
    /\ End(r, "respond")
    /\ UNCHANGED <<sharedVars, checkpoint, doubted>>

\* The answer of the call that is next joins the history.
Answered(r) ==
    /\ todo' = [todo EXCEPT ![r] = @ - 1]
    /\ owed' = [owed EXCEPT ![r] = @ - 1]
    /\ UNCHANGED <<pc, turn, request, reply, called, outcome>>

\* respond while the Reviewer's findings stand, or a tool that fails.
CallFails(r) ==
    /\ pc[r] = "tools" /\ todo[r] > 0
    /\ IF errors[r] + 1 >= MaxErrors
       THEN End(r, "stopped")
       ELSE Answered(r) /\ errors' = [errors EXCEPT ![r] = @ + 1]
    /\ UNCHANGED <<sharedVars, checkpoint, doubted>>

ToolSucceeds(r) ==
    /\ pc[r] = "tools" /\ todo[r] > 0
    /\ errors' = [errors EXCEPT ![r] = 0]
    /\ Answered(r)
    /\ UNCHANGED <<sharedVars, checkpoint, doubted>>

\* plan_development saves a checkpoint of its own, without messages.
PlanSucceeds(r) ==
    /\ pc[r] = "tools" /\ todo[r] > 0
    /\ errors' = [errors EXCEPT ![r] = 0]
    /\ Answered(r)
    /\ checkpoint' = [checkpoint EXCEPT ![r] =
           IF @.kind = "torn" THEN @ ELSE NoHistory("plan")]
    /\ UNCHANGED <<sharedVars, doubted>>

\* Every CheckpointEvery turns, once all calls are handled.
Saves(r) == turn[r] > 0 /\ turn[r] % CheckpointEvery = 0 /\ checkpoint[r].kind # "torn"

TurnDone(r) ==
    /\ pc[r] = "tools" /\ todo[r] = 0
    /\ checkpoint' = IF Saves(r) THEN [checkpoint EXCEPT ![r] = History(r)] ELSE checkpoint
    /\ NextTurn(r)
    /\ UNCHANGED <<sharedVars, errors, doubted>>

-----------------------------------------------------------------------------
(* A tool that asks an LLM itself, by chat of the client it holds, which    *)
(* need not be the agent's.  KimiClient.chat repeats a request that timed   *)
(* out or was refused for its rate, and asks without a stream after an      *)
(* empty one.                                                               *)

ToolAsks(r) ==
    /\ pc[r] = "tools" /\ todo[r] > 0
    /\ \E c \in Clients \cup {"kimi"} : \E n \in SdkRequests(c) :
           request' = [request EXCEPT ![r] = [by |-> c, failed |-> 0, sent |-> n]]
    /\ Goto(r, "helper stream")
    /\ UNCHANGED <<sharedVars, turn, errors, reply, todo, historyVars, outcome,
                   checkpoint, doubted>>

HelperStreamEmpty(r) ==
    /\ pc[r] = "helper stream" /\ request[r].by = "kimi"
    /\ request' = [request EXCEPT ![r].sent = @ + 1]
    /\ Goto(r, "helper post")
    /\ UNCHANGED <<sharedVars, turn, errors, reply, todo, historyVars,
                   outcome, checkpoint, doubted>>

HelperRepeats(r) ==
    /\ pc[r] \in {"helper stream", "helper post"}
    /\ request[r].by = "kimi" /\ request[r].failed + 1 < HelperAttempts
    /\ request' = [request EXCEPT ![r] =
           [by |-> @.by, failed |-> @.failed + 1, sent |-> @.sent + 1]]
    /\ Goto(r, "helper stream")
    /\ UNCHANGED <<sharedVars, turn, errors, reply, todo, historyVars, outcome,
                   checkpoint, doubted>>

\* The tool returns with the answer or, at any failure, without one.
HelperReturns(r) ==
    /\ pc[r] \in {"helper stream", "helper post"}
    /\ Goto(r, "tools")
    /\ request' = [request EXCEPT ![r] = NoRequest]
    /\ UNCHANGED <<sharedVars, turn, errors, reply, todo, historyVars, outcome,
                   checkpoint, doubted>>

Next ==
    \/ \E r \in Runs :
        \/ Start(r) \/ ResumeFromCheckpoint(r) \/ Cancel(r)
        \/ BeginTurn(r) \/ TurnLimit(r)
        \/ \E answer \in Texts \cup Called :
               NativeReplies(r, answer) \/ StreamReplies(r, answer) \/ ChatReplies(r, answer)
        \/ \E forbidden \in BOOLEAN : NativeFails(r, forbidden)
        \/ Attempt(r) \/ StreamFails(r) \/ ChatFails(r)
        \/ ReplyUnusable(r) \/ ReplyProse(r) \/ ReplyCalls(r)
        \/ Respond(r) \/ CallFails(r) \/ ToolSucceeds(r) \/ PlanSucceeds(r) \/ TurnDone(r)
        \/ ToolAsks(r) \/ HelperStreamEmpty(r) \/ HelperRepeats(r) \/ HelperReturns(r)
    \/ \E torn \in SUBSET Runs : Restart(torn)
    \/ \E c \in Clients : SwitchLlm(c)

Spec == Init /\ [][Next]_vars
-----------------------------------------------------------------------------
(* Properties.                                                             *)

Places == {"new", "turn", "probe", "native", "text", "stream", "chat", "reply",
           "tools", "helper stream", "helper post", "ended"}
Request == [by : Clients \cup {"nobody", "kimi"}, failed : Nat, sent : Nat]
Received == [kind : {"none", "malformed", "empty", "prose", "outage", "calls"}, calls : Nat]
Saved == [kind : {"none", "plan", "history", "torn"}, owed : Int, called : BOOLEAN]
Outcomes == {"none", "failed", "cancelled", "prose", "respond"}

\* Every variable holds a value of its kind.
TypeOK ==
    /\ client \in Clients /\ native \in {"unknown", "yes", "no"} /\ questioned \in BOOLEAN
    /\ pc \in [Runs -> Places]
    /\ turn \in [Runs -> Nat] /\ errors \in [Runs -> Nat]
    /\ request \in [Runs -> Request] /\ reply \in [Runs -> Received]
    /\ todo \in [Runs -> Nat] /\ owed \in [Runs -> Int] /\ called \in [Runs -> BOOLEAN]
    /\ outcome \in [Runs -> Outcomes] /\ checkpoint \in [Runs -> Saved]
    /\ doubted \in [Runs -> SUBSET Runs]

Asking == {"turn", "probe", "native", "text", "stream", "chat"}

\* The providers refuse a history with a call that has no result: whenever a
\* request is made, and in every history a task could be resumed from, each
\* call has one - after calls that were cut off, refused or failed, an early
\* stop, a kill in the middle of a tool, and any number of resumptions.
EveryCallAnswered ==
    \A r \in Runs :
        /\ pc[r] \in Asking => owed[r] = 0
        /\ checkpoint[r].kind = "history" => checkpoint[r].owed = 0

\* The retries of the loop, the fallbacks of the clients, their own retries and
\* those of the SDK below them multiply to no more than twelve requests a turn
\* (function calling and three streams, each repeated twice by AsyncAnthropic),
\* even if the client is switched between two attempts, and to four for a
\* question of a tool.
RequestsBounded ==
    \A r \in Runs :
        request[r].sent <= IF pc[r] \in {"helper stream", "helper post"} THEN 4 ELSE 12

\* "The first time the model is told to use respond; only when it happens again
\* is it taken for a true final answer" (react_agent.py 425): prose ends a run
\* only after its own prose was questioned.
ProseIsAskedBack ==
    \A r \in Runs : outcome[r] = "prose" => r \in doubted[r]
=============================================================================
