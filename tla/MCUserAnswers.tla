---------------------------- MODULE MCUserAnswers ----------------------------
(* The user at the other end: what the agent asks and is answered          *)
(* (UserAnswers), the leave it asks for to act in the user's browser       *)
(* (BrowserPermissions), and the command line with its status bar          *)
(* (ReplSession).  None of them reads what another wrote, so a behaviour   *)
(* follows one, chosen at the start; the others keep their initial value.  *)
EXTENDS UserAnswers, TLC

CONSTANTS
    Started, MaxRetry, MaxQueue,
    Navigations, Acts, Tabs, Domains, Default

VARIABLES
    side,
    status, queue, listener, retry, current, bar, request, reply, odd,
    page, active, sticky, allow, window, disk, call, answer, told, moved

Repl == INSTANCE ReplSession WITH Tasks <- Started, None <- Nothing
Permission == INSTANCE BrowserPermissions WITH None <- Nothing

replVars == <<status, queue, listener, retry, current, bar, request, reply, odd>>
permissionVars == <<page, active, sticky, allow, window, disk, call, answer, told, moved>>

ASSUME UserAssumption == Repl!ConstantsOK /\ Permission!ConstantsOK

UserInit ==
    /\ side \in {"answers", "permissions", "repl"}
    /\ Init /\ Repl!Init /\ Permission!Init
    /\ side # "repl" => status = [t \in Started |-> "none"]
    /\ side # "permissions" => active = CHOOSE t \in Tabs : TRUE
    /\ side # "permissions" => page = [t \in Tabs |-> CHOOSE d \in Domains : TRUE]

AnswersStep == side = "answers" /\ Next /\ UNCHANGED <<side, replVars, permissionVars>>
PermissionStep == side = "permissions" /\ Permission!Next /\ UNCHANGED <<side, vars, replVars>>
ReplStep == side = "repl" /\ Repl!Next /\ UNCHANGED <<side, vars, permissionVars>>

UserNext == AnswersStep \/ PermissionStep \/ ReplStep

UserSpec == UserInit /\ [][UserNext]_<<side, vars, replVars, permissionVars>>

\* Tasks are interchangeable, and so are fields; the two fields stand for the
\* two tasks of the command line as well.
AnswersSymmetry == Permutations(Tasks) \cup Permutations(Fields)

\* What they say is in ReplSession and BrowserPermissions.
BarShowsCurrentTask == Repl!BarShowsCurrentTask
ActsWhereAllowed == Permission!ActsWhereAllowed
TrustLasts == Permission!TrustLasts
=============================================================================
