---------------------------- MODULE LlmSettings ----------------------------
(***************************************************************************)
(* Which LLM works and which one reviews: the start of the server (kedo.py *)
(* load_config, server.py create_app), /llm/switch, /llm/switch-reviewer   *)
(* and /llm/swap-roles (api/routes.py), which REPL and dashboard call, and *)
(* the user's config file they keep for the next start.                    *)
(*                                                                         *)
(* A switch may wait for a probe of the new client; several can be under   *)
(* way.  The names of one provider's models are not told apart: a model,   *)
(* like an endpoint, is the provider it belongs to.  The automatic swap of *)
(* roles is in ReviewGate.                                                 *)
(***************************************************************************)
EXTENDS FiniteSets, Naturals

CONSTANTS
    Needy,            \* the providers that need a key
    Offered,          \* providers a user may switch to
    ReviewerOffered,  \* providers a user may choose for the reviewer
    Overrides,        \* providers of --provider and KEDO_PROVIDER, or Unset
    Keys,
    Requests,         \* switches that can be under way together
    Unset             \* not in the file, not in the environment, not given

Providers == Needy \cup {"kimi-code", "ds4", "ollama", "mock"}

ASSUME LlmSettingsAssumption ==
    /\ Needy \subseteq {"anthropic", "openai", "kimi", "deepseek"} /\ "kimi" \in Needy
    /\ Offered \subseteq Providers \ {"openai", "ollama"}
    /\ ReviewerOffered \subseteq Providers \ {"ollama"}
    /\ Overrides \subseteq Providers \cup {Unset}
    /\ Unset \notin Keys \cup Providers \cup {"none"}

VARIABLES
    file,       \* ~/.config/kedo/config.yaml
    shell,      \* keys in the environment kedo is started from
    env,        \* keys in os.environ of the server
    up,         \* the server runs
    producer,   \* ReactAgent.llm
    helpers,    \* the client of the code generator, auto_fix, the planner and the evaluator
    builders,   \* the client build, host_test and emulator_test make profiles with
    reviewer,   \* Reviewer._llm
    requests,   \* calls of /llm/switch that wait for their probe
    promised,   \* history: the client the next start has been promised
    cutOff      \* history: since then a save has emptied the file and not written it

clientVars == <<producer, helpers, builders, reviewer>>
vars == <<file, shell, env, up, clientVars, requests, promised, cutOff>>

Family(p) == IF p = "kimi-code" THEN "kimi" ELSE p

Client(p, model, key, url) == [provider |-> p, model |-> model, key |-> key, url |-> url]
MockClient == Client("mock", "mock", Unset, Unset)
NoClient == Client(Unset, Unset, Unset, Unset)

EmptyFile ==
    [provider |-> Unset, model |-> Unset, keys |-> [f \in Needy |-> Unset],
     kimiUrl |-> Unset, ds4Url |-> Unset,
     rProvider |-> Unset, rModel |-> Unset, rKey |-> Unset, rUrl |-> Unset]

Init ==
    /\ file = EmptyFile
    /\ shell \in [Needy -> Keys \cup {Unset}]
    /\ env = shell
    /\ up = FALSE
    /\ producer = NoClient /\ helpers = NoClient
    /\ builders = NoClient /\ reviewer = NoClient
    /\ requests = {}
    /\ promised = NoClient
    /\ cutOff = FALSE

-----------------------------------------------------------------------------
(* The two factories.                                                      *)

\* The first value that is there.
OrElse(value, other) == IF value = Unset THEN other ELSE value

\* create_llm_client without strict_mode.  Only a Kimi client refuses a model of
\* somebody else; an endpoint that is not configured is the provider's own.
Created(config, keys) ==
    LET p == config.provider
        f == Family(p)
        key == IF f \in Needy THEN OrElse(keys[f], config.keys[f]) ELSE Unset
        model == OrElse(config.model, f)
    IN  CASE f \in Needy /\ key = Unset -> MockClient
          [] f = "kimi" /\ key # Unset -> Client(f, f, key, OrElse(config.kimiUrl, p))
          [] f = "ds4" -> Client(f, model, key, OrElse(config.ds4Url, f))
          [] f \in Needy \ {"kimi"} /\ key # Unset -> Client(f, model, key, f)
          [] f = "ollama" -> Client(f, model, key, f)
          [] OTHER -> MockClient

\* create_reviewer_llm_client: no client rather than a mock one.
CreatedReviewer(config, keys) ==
    LET p == config.rProvider
        f == Family(p)
        key == IF f \in Needy
               THEN OrElse(config.rKey, OrElse(keys[f], config.keys[f])) ELSE Unset
        model == OrElse(config.rModel, f)
    IN  CASE p \in {Unset, "none"} \/ (f \in Needy /\ key = Unset) -> NoClient
          [] f = "mock" -> MockClient
          [] f \in {"anthropic", "openai"} /\ key # Unset -> Client(f, model, key, f)
          [] f = "kimi" /\ key # Unset -> Client(f, f, key, OrElse(config.rUrl, p))
          [] f = "deepseek" /\ key # Unset -> Client(f, model, key, OrElse(config.rUrl, f))
          [] f = "ds4" -> Client(f, model, key, OrElse(config.rUrl, OrElse(config.ds4Url, f)))
          [] OTHER -> Client(f, model, key, OrElse(config.rUrl, f))

-----------------------------------------------------------------------------
(* Start and end of the server.                                            *)

\* The user's file over config.yaml of the repository, which names kimi-code.
Loaded(override) ==
    [file EXCEPT !.provider = OrElse(override, OrElse(@, "kimi-code"))]

\* create_app: one client for the producer, the tools, the planner and the
\* evaluator, and one for the reviewer.
Wired(config) ==
    /\ producer' = Created(config, shell)
    /\ helpers' = producer' /\ builders' = producer'
    /\ reviewer' = CreatedReviewer(config, shell)

\* In strict mode a key that is missing ends the start.
Start(override, strictly) ==
    LET config == Loaded(override)
    IN  /\ ~up
        /\ strictly => (Created(config, shell) = MockClient => config.provider = "mock")
        /\ up' = TRUE
        /\ env' = shell
        /\ Wired(config)
        /\ UNCHANGED <<file, shell, requests, promised, cutOff>>

Down ==
    /\ up' = FALSE
    /\ requests' = {}
    /\ env' = shell
    /\ producer' = NoClient /\ helpers' = NoClient
    /\ builders' = NoClient /\ reviewer' = NoClient
    /\ UNCHANGED shell

Stop ==
    /\ up /\ Down
    /\ UNCHANGED <<file, promised, cutOff>>

-----------------------------------------------------------------------------
(* _persist_to_config_yaml.  The file is read, merged, truncated and       *)
(* written, without an await.  A file is far smaller than a write buffer,  *)
(* so it is written in one piece or not at all.                            *)

Saved(new) == file' = new /\ UNCHANGED cutOff

\* It fails before the file is opened for writing, or after it.
SaveFails ==
    \/ UNCHANGED <<file, cutOff>>
    \/ file' = EmptyFile /\ cutOff' = TRUE

\* The process ends between the truncation of the file and the write of it.
CrashInSave ==
    /\ up /\ Down
    /\ file' = EmptyFile
    /\ cutOff' = TRUE
    /\ UNCHANGED promised

-----------------------------------------------------------------------------
(* /llm/switch.                                                            *)

Request(p, key, save) == [provider |-> p, key |-> key, save |-> save]

\* What the temporary config of a switch says; it has no strict_mode.
SwitchConfig(r) ==
    LET f == Family(r.provider) IN
    [EmptyFile EXCEPT
        !.provider = f,
        !.model = f,
        !.keys = [g \in Needy |-> IF g = f THEN r.key ELSE Unset],
        !.kimiUrl = IF f = "kimi" THEN r.provider ELSE Unset,
        !.ds4Url = IF f = "ds4" THEN f ELSE Unset]

\* _persist_to_config_yaml: what the switch does not say stays as it is.
Merged(config) ==
    [file EXCEPT
        !.provider = OrElse(config.provider, @),
        !.model = OrElse(config.model, @),
        !.keys = [f \in Needy |-> OrElse(config.keys[f], @[f])],
        !.kimiUrl = OrElse(config.kimiUrl, @),
        !.ds4Url = OrElse(config.ds4Url, @)]

\* A client that is already there is kept for the tools.
MUTANT_Install(r) ==
    LET f == Family(r.provider) IN
    /\ env' = IF f \in Needy /\ r.key # Unset THEN [env EXCEPT ![f] = r.key] ELSE env
    /\ producer' = Created(SwitchConfig(r), env')
    /\ UNCHANGED <<shell, up, helpers, builders, reviewer>>

\* The key goes to the environment, and the client to the producer and to all
\* who keep theirs as _llm or llm_client; build, host_test and emulator_test
\* keep it as _llm_client, and so their old one.
Install(r) ==
    LET f == Family(r.provider) IN
    /\ env' = IF f \in Needy /\ r.key # Unset THEN [env EXCEPT ![f] = r.key] ELSE env
    /\ producer' = Created(SwitchConfig(r), env')
    /\ helpers' = producer'
    /\ UNCHANGED <<shell, up, builders, reviewer>>

\* The rest of the call after the probe, without an await.  A switch that
\* names no key promises none, and a save that fails is reported.
MUTANT_Finish(r) ==
    /\ Install(r)
    /\ \/ /\ r.save /\ r.provider # "mock"
          /\ file' = [Merged(SwitchConfig(r)) EXCEPT !.model = OrElse(file.model, r.provider)]
          /\ promised' = IF Family(r.provider) \in Needy /\ r.key = Unset
                         THEN NoClient ELSE producer'
          /\ cutOff' = FALSE
       \/ r.save /\ r.provider # "mock" /\ SaveFails /\ UNCHANGED promised
       \/ (r.save => r.provider = "mock") /\ UNCHANGED <<file, promised, cutOff>>

Finish(r) ==
    /\ Install(r)
    /\ \/ /\ r.save /\ r.provider # "mock"
          /\ file' = Merged(SwitchConfig(r))
          /\ promised' = IF Family(r.provider) \in Needy /\ r.key = Unset
                         THEN NoClient ELSE producer'
          /\ cutOff' = FALSE
       \/ r.save /\ r.provider # "mock" /\ SaveFails /\ UNCHANGED promised
       \/ (r.save => r.provider = "mock") /\ UNCHANGED <<file, promised, cutOff>>

Probed(r) == r.provider = "ds4" \/ (r.provider \in {"anthropic", "deepseek"} /\ r.key # Unset)

Switch(r) ==
    /\ up
    /\ IF Probed(r)
       THEN /\ Cardinality(requests) < Requests
            /\ requests' = requests \cup {r}
            /\ UNCHANGED <<file, shell, env, up, clientVars, promised, cutOff>>
       ELSE Finish(r) /\ UNCHANGED requests

ProbeSucceeds(r) ==
    /\ r \in requests
    /\ requests' = requests \ {r}
    /\ Finish(r)

ProbeFails(r) ==
    /\ r \in requests
    /\ requests' = requests \ {r}
    /\ UNCHANGED <<file, shell, env, up, clientVars, promised, cutOff>>

-----------------------------------------------------------------------------
(* /llm/switch-reviewer and /llm/swap-roles.                               *)

\* Only the file changes; what the call does not say stays as it is.
SwitchReviewer(p, key, model, url) ==
    /\ up
    /\ Family(p) \in Needy => key # Unset
    /\ \/ Saved([file EXCEPT
                  !.rProvider = p,
                  !.rKey = OrElse(key, @),
                  !.rModel = OrElse(model, @),
                  !.rUrl = OrElse(url, @)])
       \/ SaveFails
    /\ UNCHANGED <<shell, env, up, clientVars, requests, promised>>

DisableReviewer ==
    /\ up
    /\ Saved([file EXCEPT !.rProvider = "none"]) \/ SaveFails
    /\ UNCHANGED <<shell, env, up, clientVars, requests, promised>>

\* RoleSwapManager.manual_swap; everybody else keeps their client.
SwapRoles ==
    /\ up /\ reviewer # NoClient
    /\ producer' = reviewer /\ reviewer' = producer
    /\ UNCHANGED <<file, shell, env, up, helpers, builders, requests, promised, cutOff>>

\* What /login asks for: always a model, an endpoint only for ds4.
LoginReviewer(p) ==
    IF p = "ds4" THEN \E url \in {Unset, p} : SwitchReviewer(p, Unset, p, url)
    ELSE \E key \in Keys : SwitchReviewer(p, key, Family(p), Unset)

AllRequests == {Request(p, key, save) :
    p \in Offered, key \in Keys \cup {Unset}, save \in BOOLEAN}

Next ==
    \/ \E p \in Overrides, s \in BOOLEAN : Start(p, s)
    \/ Stop \/ CrashInSave \/ SwapRoles \/ DisableReviewer
    \/ \E r \in AllRequests : Switch(r) \/ ProbeSucceeds(r) \/ ProbeFails(r)
    \/ \E p \in ReviewerOffered : LoginReviewer(p)

Spec == Init /\ [][Next]_vars
-----------------------------------------------------------------------------
(* Properties.                                                             *)

Clients ==
    [provider : Providers \cup {Unset}, model : Providers \cup {Unset},
     key : Keys \cup {Unset}, url : Providers \cup {Unset}]

Files ==
    [provider : Providers \cup {Unset}, model : Providers \cup {Unset},
     keys : [Needy -> Keys \cup {Unset}],
     kimiUrl : {"kimi", "kimi-code", Unset}, ds4Url : {"ds4", Unset},
     rProvider : Providers \cup {"none", Unset}, rKey : Keys \cup {Unset},
     rModel : Providers \cup {Unset}, rUrl : Providers \cup {Unset}]

\* Every variable holds a value of its kind.
TypeOK ==
    /\ file \in Files
    /\ shell \in [Needy -> Keys \cup {Unset}] /\ env \in [Needy -> Keys \cup {Unset}]
    /\ up \in BOOLEAN
    /\ {producer, helpers, builders, reviewer, promised} \subseteq Clients
    /\ cutOff \in BOOLEAN
    /\ requests \subseteq AllRequests

\* What the next start creates is what was promised, unless the shell has a
\* key of that provider, which would come first.
StartKeepsPromise ==
    (promised # NoClient /\ (promised.provider \in Needy => shell[promised.provider] = Unset))
        => Created(Loaded(Unset), shell) = promised

\* "The next start restores this provider, key and model by itself" (routes.py
\* 1256): what the last saved switch with a key promised is what a start would
\* create, whichever switches, reviewer settings and starts followed.  The
\* exception is a later save of anything that failed or was killed after it
\* had truncated the file (routes.py 952): the file is empty then, the promise
\* and the other keys the save should have kept (docs/llm-providers.md 79) are
\* gone, and the next start takes the default.
RestartRestores == ~cutOff => StartKeepsPromise

\* A switch leaves none of those it refreshes with a client it has replaced:
\* the code generator, auto_fix, the planner and the evaluator work with that
\* of the producer or, when the roles have been swapped by hand, with that of
\* the reviewer.  It does not refresh build, host_test and emulator_test: routes.py
\* 1234 looks for _llm and llm_client, and they keep theirs as _llm_client
\* (build_tool.py 36), the client of the start, whatever README.md 9 says of hot
\* switching.
NobodyLeftBehind == up => helpers \in {producer, reviewer}

IInv == TypeOK /\ RestartRestores /\ NobodyLeftBehind
=============================================================================
