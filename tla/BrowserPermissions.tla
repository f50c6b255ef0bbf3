-------------------------- MODULE BrowserPermissions --------------------------
(***************************************************************************)
(* Leave to act in the user's browser (core/browser_permissions.py) and    *)
(* the tools that ask for it before they navigate, scroll, click, type or  *)
(* submit (tools/browser_tools.py).                                        *)
(*                                                                         *)
(* A call learns the page it is about: the address it was given, or the    *)
(* one of the tab it names, or of the active tab.  If the user trusts the  *)
(* page's domain it goes ahead, else the user is asked on the dashboard;   *)
(* "trust" and "30 minutes" are kept and written to the state file.  The   *)
(* command then goes to the tab the call names, or else to the tab the     *)
(* last navigation ended in, or else to the active tab.  One action is the *)
(* code between two awaits.                                                *)
(*                                                                         *)
(* Pages of blocked schemes are refused at once and left out, as are the   *)
(* actions that need no leave.  The broadcast of a request is part of the  *)
(* wait for its answer, which counts from the first moment.  A cancelled   *)
(* call leaves its request in _pending; an answer to it has no effect, and *)
(* it is not kept here.                                                    *)
(***************************************************************************)
EXTENDS Naturals

CONSTANTS Navigations, \* tool calls of the agent's tasks: to navigate
          Acts,        \* and to scroll, click, type or submit
          Tabs,        \* tabs of the user's browser
          Domains,     \* domains of their pages
          Default,     \* those of _DEFAULT_ALLOWLIST
          None         \* no tab, no domain, no answer

Answers == {"allow_once", "allow_30min", "trust_persist", "deny"}

\* Of the constants; assumed by the module that instantiates this one.
ConstantsOK ==
    /\ Default \subseteq Domains /\ Navigations \cap Acts = {}
    /\ None \notin Tabs \cup Domains /\ \A a \in Answers : a # None
    /\ \A D \in SUBSET Domains : D # None

Calls == Navigations \cup Acts
Torn == [allow |-> None, window |-> None]   \* a state file that cannot be parsed

VARIABLES
    page,      \* the domain of the page in each tab
    active,    \* the active tab
    sticky,    \* last_navigated_tab
    allow,     \* permanent_allowlist in memory
    window,    \* domains of trust_window that have not expired
    disk,      \* the state file: its two fields, or Torn
    call,      \* where each call is suspended, and what it has learned
    answer,    \* the result of its future
    told,      \* history: domains of which the user was told that they are
               \* trusted from now on
    moved      \* history: what has changed under a call since it read the
               \* address: the page of its tab, the active tab

browser == <<page, active, sticky>>
trust == <<allow, window, disk>>
vars == <<browser, trust, call, answer, told, moved>>

Idle == [at |-> "off", tab |-> None, seen |-> None,
         url |-> None, used |-> None, where |-> None]
Defaults == [allow |-> Default, window |-> {}]

\* The server's first start, with one page in all tabs.
Init ==
    /\ \E d \in Domains : page = [t \in Tabs |-> d]
    /\ active \in Tabs /\ sticky = None
    /\ allow = Default /\ window = {} /\ disk = Defaults
    /\ call = [c \in Calls |-> Idle]
    /\ answer = [c \in Calls |-> None]
    /\ told = {} /\ moved = [c \in Calls |-> {}]

\* history, part of every step
NoteMoves ==
    moved' = [c \in Calls |->
        LET k == call[c]
        IN  IF k.seen = None THEN {}
            ELSE IF k.at = "done" THEN moved[c]
            ELSE moved[c]
                 \cup {m \in {"page"} : page'[k.seen] # page[k.seen]}
                 \cup {m \in {"active"} : k.tab = None /\ active' # active}]

-----------------------------------------------------------------------------
(* Asking.                                                                 *)

\* _send: the tab the command is sent to; navigate takes no other than its own.
Addressed(c, k) ==
    [k EXCEPT !.at = "sent",
              !.used = IF k.tab # None \/ c \in Navigations THEN k.tab ELSE sticky]

\* check and what the tool does at once: trusted domains need no question.
Checked(c, k) ==
    IF k.url \in allow \cup window THEN Addressed(c, k) ELSE [k EXCEPT !.at = "waiting"]

\* navigate has its address; the others first ask the plugin for it.
Begin(c) ==
    /\ call[c] = Idle
    /\ \/ /\ c \in Navigations
          /\ \E d \in Domains :
                call' = [call EXCEPT ![c] = Checked(c, [Idle EXCEPT !.url = d])]
       \/ /\ c \in Acts
          /\ \E t \in Tabs \cup {None} :
                call' = [call EXCEPT ![c] = [Idle EXCEPT !.at = "resolving", !.tab = t]]
    /\ UNCHANGED <<browser, trust, answer, told>>

\* The tab is not the one the call names.
MUTANT_Looked(k) == active

\* get_active_tab: the tab the call names, or the active one.
Looked(k) == IF k.tab = None THEN active ELSE k.tab

\* _resolve_target_url; an address that cannot be read has no domain.
Resolve(c) ==
    LET t == Looked(call[c])
    IN  /\ call[c].at = "resolving"
        /\ \E url \in {page[t], None} :
              call' = [call EXCEPT ![c] =
                  Checked(c, [call[c] EXCEPT !.seen = t, !.url = url])]
        /\ UNCHANGED <<browser, trust, answer, told>>

\* The route and resolve: the first answer is taken.
Answer(c) ==
    /\ call[c].at = "waiting" /\ answer[c] = None
    /\ \E a \in Answers :
          /\ answer' = [answer EXCEPT ![c] = a]
          /\ told' = told \cup {d \in Domains : d = call[c].url /\ a = "trust_persist"}
    /\ UNCHANGED <<browser, trust, call>>

\* What is trusted for good is only remembered.
MUTANT_Apply(c) ==
    LET d == {call[c].url} \ {None}
    IN  /\ allow' = IF answer[c] = "trust_persist" THEN allow \cup d ELSE allow
        /\ window' = IF answer[c] = "allow_30min" THEN window \cup d ELSE window
        /\ disk' = IF answer[c] # "allow_30min" THEN disk
                   ELSE [allow |-> allow', window |-> window']

\* _apply_decision and _save_state, whatever the decision.
Apply(c) ==
    LET d == {call[c].url} \ {None}
    IN  /\ allow' = IF answer[c] = "trust_persist" THEN allow \cup d ELSE allow
        /\ window' = IF answer[c] = "allow_30min" THEN window \cup d ELSE window
        /\ disk' = IF d = {} THEN disk ELSE [allow |-> allow', window |-> window']

\* The answer is applied; unless it is a refusal, the command is sent.
Decided(c) ==
    /\ call[c].at = "waiting" /\ answer[c] # None
    /\ Apply(c)
    /\ answer' = [answer EXCEPT ![c] = None]
    /\ call' = [call EXCEPT ![c] = IF answer[c] = "deny" THEN Idle ELSE Addressed(c, @)]
    /\ UNCHANGED <<browser, told>>

\* The answer of a call that ends without it is lost.
Forgotten(c) ==
    /\ call' = [call EXCEPT ![c] = Idle]
    /\ answer' = [answer EXCEPT ![c] = None]
    /\ told' = IF answer[c] = "trust_persist" THEN told \ ({call[c].url} \ allow) ELSE told

\* No answer in time, or one in the same turn of the event loop.
TimesOut(c) ==
    /\ call[c].at = "waiting"
    /\ Forgotten(c)
    /\ disk' = IF call[c].url = None THEN disk ELSE [allow |-> allow, window |-> window]
    /\ UNCHANGED <<browser, allow, window>>

\* The task is cancelled where it waits.
Cancel(c) ==
    /\ call[c].at # "off"
    /\ Forgotten(c)
    /\ UNCHANGED <<browser, trust>>

\* A window of 30 minutes ends.
Expire(d) ==
    /\ d \in window
    /\ window' = window \ {d}
    /\ disk' = IF disk = Torn THEN disk ELSE [disk EXCEPT !.window = @ \ {d}]
    /\ UNCHANGED <<browser, allow, call, answer, told>>

-----------------------------------------------------------------------------
(* Acting.                                                                 *)

\* The plugin executes the command: navigate opens a tab or takes one over.
Perform(c) ==
    LET k == call[c]
        target == IF k.used = None THEN active ELSE k.used
    IN  /\ k.at = "sent"
        /\ \/ /\ c \in Acts
              /\ call' = [call EXCEPT ![c].at = "done", ![c].where = page[target]]
              /\ UNCHANGED <<page, active>>
           \/ /\ c \in Navigations
              /\ \E t \in Tabs :
                    /\ page' = [page EXCEPT ![t] = k.url]
                    /\ active' \in {active, t}
                    /\ call' = [call EXCEPT ![c].at = "done", ![c].used = t,
                                            ![c].where = k.url]
        /\ UNCHANGED <<sticky, trust, answer, told>>

\* The result arrives; that of navigate names the tab.
Reply(c) ==
    /\ call[c].at = "done"
    /\ sticky' = IF c \in Navigations THEN call[c].used ELSE sticky
    /\ call' = [call EXCEPT ![c] = Idle]
    /\ UNCHANGED <<page, active, trust, answer, told>>

\* No session, a time-out or an error of the plugin.
Fails(c) ==
    /\ call[c].at \in {"sent", "done"}
    /\ call' = [call EXCEPT ![c] = Idle]
    /\ UNCHANGED <<browser, trust, answer, told>>

\* The user changes tabs, or follows a link.
Browse(t) ==
    /\ \/ active' = t /\ UNCHANGED page
       \/ \E d \in Domains : page' = [page EXCEPT ![t] = d] /\ UNCHANGED active
    /\ UNCHANGED <<sticky, trust, call, answer, told>>

\* _load_state: what cannot be parsed is replaced in memory only.
Loaded(file) == IF file = Torn THEN Defaults ELSE file

\* The server is killed, perhaps while it writes the state file, and started.
Restart ==
    /\ disk' \in {disk} \cup {Torn : c \in {c \in Calls :
                     call[c].at = "waiting" /\ call[c].url # None}}
    /\ allow' = Loaded(disk').allow /\ window' = Loaded(disk').window
    /\ told' = told \cap allow'
    /\ sticky' = None
    /\ call' = [c \in Calls |-> Idle] /\ answer' = [c \in Calls |-> None]
    /\ UNCHANGED <<page, active>>

Next ==
    /\ \/ \E c \in Calls :
             \/ Begin(c) \/ Resolve(c) \/ Answer(c) \/ Decided(c)
             \/ TimesOut(c) \/ Cancel(c) \/ Perform(c) \/ Reply(c) \/ Fails(c)
       \/ \E d \in Domains : Expire(d)
       \/ \E t \in Tabs : Browse(t)
       \/ Restart
    /\ NoteMoves

Spec == Init /\ [][Next]_vars
-----------------------------------------------------------------------------
(* Properties.                                                             *)

CallStates ==
    [at : {"off", "resolving", "waiting", "sent", "done"},
     tab : Tabs \cup {None}, seen : Tabs \cup {None}, url : Domains \cup {None},
     used : Tabs \cup {None}, where : Domains \cup {None}]

\* Every variable holds a value of its kind.
TypeOK ==
    /\ page \in [Tabs -> Domains] /\ active \in Tabs /\ sticky \in Tabs \cup {None}
    /\ allow \subseteq Domains /\ window \subseteq Domains
    /\ disk = Torn \/ disk \in [allow : SUBSET Domains, window : SUBSET Domains]
    /\ call \in [Calls -> CallStates]
    /\ answer \in [Calls -> Answers \cup {None}]
    /\ told \subseteq Domains
    /\ moved \in [Calls -> SUBSET {"page", "active"}]

\* The agent clicks, types and submits on a page the user was asked about or
\* trusts, unless the page was changed while the question stood, or the call
\* named no tab: then the page asked about is the active tab's, and the one
\* acted on is that of the last navigation, or of a tab made active since.
ActsWhereAllowed ==
    \A c \in Acts :
        LET k == call[c]
        IN  k.at = "done" /\ k.url # None /\ k.where # k.url
            => \/ "page" \in moved[c]
               \/ k.tab = None /\ (k.used # None \/ "active" \in moved[c])

\* Once the user was told that a domain is trusted for good it is, after every
\* restart too, until a crash tears the file that says so; the answer may still
\* have to be applied, and is lost with a call that ends before it is.
TrustLasts ==
    \A d \in told :
        \/ d \in allow /\ disk # Torn /\ d \in disk.allow
        \/ \E c \in Calls : call[c].url = d /\ answer[c] = "trust_persist"

-----------------------------------------------------------------------------
(* Why the trust lasts and the acts are where they may be.                 *)

\* Only who waits is answered, nobody asks about what kedo trusts itself, and a
\* navigation has its address from the start.
AsksInOrder ==
    \A c \in Calls :
        /\ c \in Navigations =>
              \/ call[c].at = "off"
              \/ call[c].at # "resolving" /\ call[c].url # None
        /\ answer[c] # None => call[c].at = "waiting"
        /\ call[c].at = "waiting" => call[c].url \notin Default

\* The file says what the memory holds, or nothing; then the memory was made
\* anew from the defaults.
FileIsMemory ==
    /\ Default \subseteq allow /\ told \cap Default = {}
    /\ disk = [allow |-> allow, window |-> window] \/ (disk = Torn /\ allow = Default)

\* A call that is to act has seen the tab it names, or the active one; what it
\* has seen there still holds, or has moved since.
SeenOrMoved(c) ==
    LET k == call[c] IN
    /\ k.seen = None <=> k.at \in {"off", "resolving"}
    /\ k.at \in {"waiting", "sent"} =>
        /\ k.tab # None => k.seen = k.tab
        /\ k.url # None /\ page[k.seen] # k.url => "page" \in moved[c]
        /\ k.tab = None /\ active # k.seen => "active" \in moved[c]
    /\ k.at = "sent" /\ k.tab # None => k.used = k.tab

\* The invariant that the steps keep.
IInv ==
    /\ TypeOK /\ AsksInOrder /\ FileIsMemory
    /\ TrustLasts /\ ActsWhereAllowed
    /\ \A c \in Acts : SeenOrMoved(c)
=============================================================================
