SPECIFICATION BridgeSpec
CONSTANTS
    u = u
    a = a
    research = research
    tests = tests
    UserConns = {u}
    AgentConns = {a}
    Runs = {research, tests}
    Tests = {tests}
    MaxCommands <- MCMaxCommands
INVARIANTS PendingIsAwaited IsolatedUntilLost
PROPERTY RunEnds
