SPECIFICATION FilesSpec
CONSTANTS
    one = one
    two = two
    s = s
    t = t
    Processes = {one, two}
    Tasks = {s, t}
    Moves = {"in_progress"}
    Needy = {"anthropic", "kimi"}
    Offered = {"anthropic", "kimi"}
    ReviewerOffered = {"anthropic"}
    Overrides = {Unset}
    Keys = {one, two}
    Requests = 1
    Unset = Unset
    Calls = {one, two}
    MaxManifest = 2
    PriorCap = 2
    FixCap = 3
    Targets = {"server", "switch"}
    Detected = {"server"}
    Jobs = {one, two}
    Limit = 3
    MaxItems = 6
    MaxCrashes = 2
    TestRuns = {"monday"}
    Images = {s, t}
    MaxLogs = 2
SYMMETRY Symmetry
INVARIANTS NothingLost RestartRestores NobodyLeftBehind BuiltFromCurrent VerifiedStays BusyMeansRunning OneItemPerCrash HistorySurvives NothingLeftOver
CHECK_DEADLOCK FALSE
