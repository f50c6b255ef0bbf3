SPECIFICATION ReviewerSpec
CONSTANTS
    r1 = r1
    r2 = r2
    t1 = t1
    t2 = t2
    p = p
    r = r
    n = n
    Runs = {r1, r2}
    Tools = {"build", "auto_fix"}
    Fingerprints = {"same error"}
    MaxErrors = 2
    Window = 3
    Threshold = 2
    StuckBuilds = 2
    MaxInterventions = 1
    MaxCalls = 2
    Tasks = {t1, t2}
    LLMs = {p, r, n}
    Producer = p
    Reviewer = r
    SwapEnabled = TRUE
    RejectThreshold = 2
    MaxReviews = 3
    NoSnapshot = NoSnapshot
    CommitTasks <- OneTask
    TaskOf <- SameTask
    Codes <- TwoCodes
    Replies <- ThreeReplies
    Claims = {0, 80}
    MinScore = 70
    MaxCandidates = 3
SYMMETRY Symmetry
INVARIANTS StreakBounded InterventionsBounded NestedSwapsRestore RescueBeforeHuman NumberedBehindOthers
