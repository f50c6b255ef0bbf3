---------------------------- MODULE BrowserBridge ----------------------------
(***************************************************************************)
(* The bridge to browsers (api/browser_bridge.py), the isolated Chrome the *)
(* server starts for itself (core/browser_profile.py) and the tools that   *)
(* send whole series of commands through them: browser_research and        *)
(* run_test_cases.                                                         *)
(*                                                                         *)
(* A plugin connects over a websocket and is registered as a session; its  *)
(* token decides whether it speaks for the user's browser or for the       *)
(* isolated one.  A run first ensures that the isolated Chrome is up and   *)
(* its plugin has registered, under a lock, and falls back to the user's   *)
(* browser otherwise; each of its commands then picks a session of the     *)
(* role it wants, or failing that any session.  One action is the code     *)
(* between two awaits; sending a command is not split from picking its     *)
(* session, a send either reaches the plugin or raises.                    *)
(***************************************************************************)
EXTENDS Integers, Sequences, SequencesExt

CONSTANTS UserConns, AgentConns,  \* websockets of the two browsers' plugins
          Runs,                   \* calls of browser_research or run_test_cases
          Tests,                  \* those of run_test_cases
          MaxCommands             \* bound: commands each run sends

ConstantsOK ==
    /\ UserConns \cap AgentConns = {}
    /\ Tests \subseteq Runs
    /\ MaxCommands \in [Runs -> Nat]

Conns == UserConns \cup AgentConns
RoleOf(c) == IF c \in AgentConns THEN "agent" ELSE "user"
Requests == UNION {{r} \X (1 .. MaxCommands[r]) : r \in Runs}

VARIABLES
    conn,      \* the websockets: closed, greeting (registered, hello_ack being
               \* sent), open, broken (gone, the handler has not noticed)
    sessions,  \* _sessions, in the order of the dictionary
    pending,   \* _pending: requests with a future in the table
    inFlight,  \* requests a plugin has received and not answered
    chrome,    \* is_running
    idle,      \* _last_activity is longer ago than idle_minutes
    queue,     \* _start_lock: the holder, then those who wait
    at,        \* where each run is suspended
    prefer,    \* prefer_role of the run
    sent,      \* commands the run has tried to send
    reached,   \* history: roles of the sessions its commands were sent to
    lost,      \* history: since it found the isolated browser up, a moment
               \* came when no session of it was registered
    unsent     \* history: requests whose send raised

bridgeVars == <<conn, sessions, pending, inFlight>>
chromeVars == <<chrome, idle>>
runVars == <<queue, at, prefer, sent>>
history == <<reached, unsent>>
vars == <<bridgeVars, chromeVars, runVars, history, lost>>

Init ==
    /\ conn = [c \in Conns |-> "closed"]
    /\ sessions = <<>> /\ pending = {} /\ inFlight = {}
    /\ chrome = FALSE /\ idle = FALSE
    /\ queue = <<>>
    /\ at = [r \in Runs |-> "off"]
    /\ prefer = [r \in Runs |-> "user"]
    /\ sent = [r \in Runs |-> 0]
    /\ reached = [r \in Runs |-> {}] /\ unsent = {}
    /\ lost = [r \in Runs |-> FALSE]

Registered(role) == \E i \in DOMAIN sessions : RoleOf(sessions[i]) = role

\* _has_agent_session
HasAgentSession == Registered("agent")

\* A run works with the isolated browser.
Isolated(r) == at[r] \in {"ready", "reply"} /\ prefer[r] = "agent"

\* history, part of every step
NoteLoss ==
    lost' = [r \in Runs |->
        Isolated(r)' /\ (lost[r] \/ ~HasAgentSession')]

-----------------------------------------------------------------------------
(* Sessions.                                                               *)

\* A plugin's hello is accepted: registered, then hello_ack is awaited.
Connect(c) ==
    /\ conn[c] = "closed" /\ ~Contains(sessions, c)
    /\ c \in AgentConns => chrome
    /\ conn' = [conn EXCEPT ![c] = "greeting"]
    /\ sessions' = Append(sessions, c)
    /\ UNCHANGED <<pending, inFlight, chromeVars, runVars, history>>

Greeted(c) ==
    /\ conn[c] = "greeting"
    /\ conn' = [conn EXCEPT ![c] = "open"]
    /\ UNCHANGED <<sessions, pending, inFlight, chromeVars, runVars, history>>

\* hello_ack cannot be sent: handle_ws has no session to remove, so the
\* registered one stays for good.
GreetingFails(c) ==
    /\ conn[c] = "greeting"
    /\ conn' = [conn EXCEPT ![c] = "closed"]
    /\ inFlight' = {f \in inFlight : f[1] # c}
    /\ UNCHANGED <<sessions, pending, chromeVars, runVars, history>>

Broken(some) ==
    /\ conn' = [c \in Conns |-> IF c \in some /\ conn[c] = "open"
                                THEN "broken" ELSE conn[c]]
    /\ inFlight' = {f \in inFlight : f[1] \notin some}

\* The browser, its plugin or the network goes away.
Break(c) ==
    /\ conn[c] = "open"
    /\ Broken({c})
    /\ UNCHANGED <<sessions, pending, chromeVars, runVars, history>>

\* The handler notices: finally removes the session.
Leave(c) ==
    /\ conn[c] = "broken"
    /\ conn' = [conn EXCEPT ![c] = "closed"]
    /\ sessions' = RemoveFirst(sessions, c)
    /\ UNCHANGED <<pending, inFlight, chromeVars, runVars, history>>

-----------------------------------------------------------------------------
(* ensure_running.                                                         *)

Begin(r) ==
    /\ at[r] = "off"
    /\ at' = [at EXCEPT ![r] = "locking"]
    /\ queue' = Append(queue, r)
    /\ UNCHANGED <<bridgeVars, chromeVars, prefer, sent, history>>

\* An exception leaves the lock held.
MUTANT_Proceed(r, role) ==
    /\ at' = [at EXCEPT ![r] = "ready"]
    /\ prefer' = [prefer EXCEPT ![r] = role]
    /\ queue' = IF role = "agent" THEN Tail(queue) ELSE queue
    /\ UNCHANGED sent

\* ensure_running returns or raises; both give the lock back.
Proceed(r, role) ==
    /\ at' = [at EXCEPT ![r] = "ready"]
    /\ prefer' = [prefer EXCEPT ![r] = role]
    /\ queue' = Tail(queue)
    /\ UNCHANGED sent

\* The lock is obtained: the browser is up, or is started, or is waited for.
Ensure(r) ==
    /\ at[r] = "locking" /\ queue[1] = r
    /\ \/ /\ chrome /\ HasAgentSession
          /\ idle' = FALSE
          /\ Proceed(r, "agent")
          /\ UNCHANGED chrome
       \/ /\ chrome => ~HasAgentSession
          /\ at' = [at EXCEPT ![r] = "starting"]
          /\ chrome' = TRUE
          /\ UNCHANGED <<idle, queue, prefer, sent>>
       \/ /\ ~chrome                   \* no Chrome or extension to start
          /\ Proceed(r, "user")
          /\ UNCHANGED <<chrome, idle>>
    /\ UNCHANGED <<bridgeVars, history>>

\* Polling every half second: the session of the isolated browser is there.
AgentConnected(r) ==
    /\ at[r] = "starting" /\ HasAgentSession
    /\ idle' = FALSE
    /\ Proceed(r, "agent")
    /\ UNCHANGED <<bridgeVars, chrome, history>>

\* Chrome has exited, or the time is up.
AgentUnavailable(r) ==
    /\ at[r] = "starting" /\ ~HasAgentSession
    /\ Proceed(r, "user")
    /\ UNCHANGED <<bridgeVars, chromeVars, history>>

-----------------------------------------------------------------------------
(* Commands.                                                               *)

\* The role is ignored.
MUTANT_PickSession(role) == sessions[1]

\* _pick_session: the first session of the role, or else the first of all.
PickSession(role) ==
    LET ofRole == {i \in DOMAIN sessions : RoleOf(sessions[i]) = role}
    IN  sessions[IF ofRole # {} THEN Min(ofRole) ELSE 1]

\* send_command: a future is entered in the table, the command is sent.
SendCommand(r) ==
    LET c == PickSession(prefer[r])
        q == <<r, sent[r] + 1>>
    IN  /\ at[r] = "ready" /\ sent[r] < MaxCommands[r] /\ sessions # <<>>
        /\ conn[c] \in {"greeting", "open"}
        /\ pending' = pending \cup {q}
        /\ inFlight' = inFlight \cup {<<c, q>>}
        /\ sent' = [sent EXCEPT ![r] = @ + 1]
        /\ at' = [at EXCEPT ![r] = "reply"]
        /\ reached' = [reached EXCEPT ![r] = @ \cup {RoleOf(c)}]
        /\ UNCHANGED <<conn, sessions, chromeVars, queue, prefer, unsent>>

\* The send raises, before the try whose finally would clear the table.
SendFails(r) ==
    LET q == <<r, sent[r] + 1>>
    IN  /\ at[r] = "ready" /\ sent[r] < MaxCommands[r] /\ sessions # <<>>
        /\ conn[PickSession(prefer[r])] \in {"broken", "closed"}
        /\ pending' = pending \cup {q} /\ unsent' = unsent \cup {q}
        /\ sent' = [sent EXCEPT ![r] = @ + 1]
        /\ UNCHANGED <<conn, sessions, inFlight, chromeVars, queue, at, prefer, reached>>

\* no_browser_session
NoSession(r) ==
    /\ at[r] = "ready" /\ sent[r] < MaxCommands[r] /\ sessions = <<>>
    /\ sent' = [sent EXCEPT ![r] = @ + 1]
    /\ UNCHANGED <<bridgeVars, chromeVars, queue, at, prefer, history>>

\* _dispatch of a result: the future is taken from the table and resolved, or
\* the result is too late and dropped.
Result(c, q) ==
    /\ <<c, q>> \in inFlight /\ conn[c] = "open"
    /\ inFlight' = inFlight \ {<<c, q>>}
    /\ pending' = pending \ {q}
    /\ at' = IF q \in pending THEN [at EXCEPT ![q[1]] = "ready"] ELSE at
    /\ UNCHANGED <<conn, sessions, chromeVars, queue, prefer, sent, history>>

\* The future stays in the table.
MUTANT_CommandTimesOut(r) ==
    /\ at[r] = "reply"
    /\ at' = [at EXCEPT ![r] = "ready"]
    /\ UNCHANGED <<bridgeVars, chromeVars, queue, prefer, sent, history>>

\* wait_for gives up; finally clears the table.
CommandTimesOut(r) ==
    /\ at[r] = "reply"
    /\ pending' = pending \ {<<r, sent[r]>>}
    /\ at' = [at EXCEPT ![r] = "ready"]
    /\ UNCHANGED <<conn, sessions, inFlight, chromeVars, queue, prefer, sent, history>>

\* The run is done, or gives up after a failed command; browser_research marks
\* its activity when it got through.
End(r) ==
    /\ at[r] = "ready"
    /\ at' = [at EXCEPT ![r] = "off"]
    /\ \/ r \notin Tests /\ prefer[r] = "agent" /\ idle' = FALSE
       \/ UNCHANGED idle
    /\ reached' = [reached EXCEPT ![r] = {}]
    /\ prefer' = [prefer EXCEPT ![r] = "user"]
    /\ UNCHANGED <<bridgeVars, chrome, queue, sent, unsent>>

\* The task is cancelled where it waits: the lock and the future are released.
Cancel(r) ==
    /\ at[r] # "off"
    /\ at' = [at EXCEPT ![r] = "off"]
    /\ queue' = RemoveFirst(queue, r)
    /\ pending' = IF at[r] = "reply" THEN pending \ {<<r, sent[r]>>} ELSE pending
    /\ reached' = [reached EXCEPT ![r] = {}]
    /\ prefer' = [prefer EXCEPT ![r] = "user"]
    /\ UNCHANGED <<conn, sessions, inFlight, chromeVars, sent, unsent>>

-----------------------------------------------------------------------------
(* The isolated Chrome.                                                    *)

ChromeExits ==
    /\ chrome /\ chrome' = FALSE
    /\ Broken(AgentConns)
    /\ UNCHANGED <<sessions, pending, idle, runVars, history>>

\* Nobody marked activity for idle_minutes.  browser_research is over before
\* that (at most five pages of 40 s each); run_test_cases has no limit.
TimePasses ==
    /\ \A r \in Runs \ Tests : ~Isolated(r)
    /\ ~idle /\ idle' = TRUE
    /\ UNCHANGED <<bridgeVars, chrome, runVars, history>>

\* The idle watcher, here alive whenever Chrome is, stops Chrome; it does not
\* take the lock.
WatcherStops ==
    /\ chrome /\ idle /\ chrome' = FALSE
    /\ Broken(AgentConns)
    /\ UNCHANGED <<sessions, pending, idle, runVars, history>>

Next ==
    /\ \/ \E c \in Conns :
             \/ Connect(c) \/ Greeted(c) \/ GreetingFails(c) \/ Break(c) \/ Leave(c)
             \/ \E q \in Requests : Result(c, q)
       \/ \E r \in Runs :
             \/ Begin(r) \/ Ensure(r) \/ AgentConnected(r) \/ AgentUnavailable(r)
             \/ SendCommand(r) \/ SendFails(r) \/ NoSession(r)
             \/ CommandTimesOut(r) \/ End(r) \/ Cancel(r)
       \/ ChromeExits \/ TimePasses \/ WatcherStops
    /\ NoteLoss

Spec == Init /\ [][Next]_vars

\* The event loop resumes what can go on: a coroutine that gets the lock, a
\* poll that succeeds or runs out of time, a wait_for whose time is up, and
\* the next command or the end of a run.
Resumes(r) ==
    /\ \/ Ensure(r) \/ AgentConnected(r) \/ AgentUnavailable(r)
       \/ SendCommand(r) \/ SendFails(r) \/ NoSession(r)
       \/ CommandTimesOut(r) \/ End(r)
    /\ NoteLoss

FairSpec == Spec /\ \A r \in Runs : WF_vars(Resumes(r))
-----------------------------------------------------------------------------
(* Properties.                                                             *)

\* Every variable holds a value of its kind.
TypeOK ==
    /\ conn \in [Conns -> {"closed", "greeting", "open", "broken"}]
    /\ sessions \in Seq(Conns)
    /\ pending \subseteq Requests /\ unsent \subseteq Requests
    /\ inFlight \subseteq Conns \X Requests
    /\ chrome \in BOOLEAN /\ idle \in BOOLEAN
    /\ queue \in Seq(Runs)
    /\ at \in [Runs -> {"off", "locking", "starting", "ready", "reply"}]
    /\ prefer \in [Runs -> {"user", "agent"}]
    /\ sent \in [Runs -> Nat] /\ \A r \in Runs : sent[r] <= MaxCommands[r]
    /\ reached \in [Runs -> SUBSET {"user", "agent"}]
    /\ lost \in [Runs -> BOOLEAN]

\* A future in the table is awaited by the run that sent the command, unless
\* the send itself raised: neither time-outs nor late answers, cancelled tasks
\* or lost connections leave one behind.
PendingIsAwaited ==
    \A q \in pending :
        q \in unsent \/ (at[q[1]] = "reply" /\ sent[q[1]] = q[2])

\* A run that was told it has the isolated browser sends a command to the
\* user's only after the isolated browser's session has gone - not because
\* sessions come in another order, nor because Chrome is up and its plugin is
\* not.
IsolatedUntilLost ==
    \A r \in Runs : Isolated(r) /\ ~lost[r] => "user" \notin reached[r]

\* However the browsers come and go, and although a session that was never
\* greeted keeps taking the commands, every run ends: nobody waits for the
\* lock, a session or an answer for ever.
RunEnds == \A r \in Runs : at[r] # "off" ~> at[r] = "off"

-----------------------------------------------------------------------------
(* What makes them inductive.                                              *)

\* Commands are numbered as they are sent, and one whose send raised has not
\* reached a plugin that could still answer it.
CommandsNumbered ==
    /\ \A q \in unsent : q[2] <= sent[q[1]]
    /\ \A f \in inFlight : f[2][2] <= sent[f[2][1]] /\ f[2] \notin unsent

\* A run starts with nothing reached.
FreshUntilReady == \A r \in Runs : at[r] \notin {"ready", "reply"} => reached[r] = {}

\* Those who hold or want the lock are in its queue once, its holder first.
LockInOrder ==
    /\ IsInjective(queue)
    /\ \A r \in Runs : Contains(queue, r) <=> at[r] \in {"locking", "starting"}
    /\ \A r \in Runs : at[r] = "starting" => queue[1] = r

\* The invariant that the steps keep.
IInv ==
    /\ TypeOK /\ LockInOrder /\ CommandsNumbered /\ FreshUntilReady
    /\ PendingIsAwaited /\ IsolatedUntilLost
=============================================================================
