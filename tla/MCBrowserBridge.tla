--------------------------- MODULE MCBrowserBridge ---------------------------
(* The bridge with one websocket for each browser; a research of two        *)
(* commands and a test run of one, so that a command is answered late,      *)
(* fails to be sent, or finds another browser than the one before it.       *)
(* futures are the bridge's _pending, starters the queue of _start_lock.    *)
EXTENDS Naturals

CONSTANTS UserConns, AgentConns, Runs, Tests, MaxCommands
VARIABLES conn, sessions, futures, inFlight, chrome, idle, starters, at, prefer, sent,
          reached, lost, unsent

Bridge == INSTANCE BrowserBridge WITH pending <- futures, queue <- starters

ASSUME BridgeAssumption == Bridge!ConstantsOK

MCMaxCommands == [r \in Runs |-> IF r \in Tests THEN 1 ELSE 2]

BridgeSpec == Bridge!FairSpec

\* BrowserBridge says what these are (browser_bridge.py).
PendingIsAwaited == Bridge!PendingIsAwaited
IsolatedUntilLost == Bridge!IsolatedUntilLost
RunEnds == Bridge!RunEnds
=============================================================================
