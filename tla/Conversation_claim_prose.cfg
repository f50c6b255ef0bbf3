SPECIFICATION Spec
CONSTANTS
    a = a
    b = b
    Runs = {a, b}
    Clients = {"openai", "anthropic"}
    MaxTurns = 2
    MaxCalls = 1
    MaxReplyCalls = 2
    MaxErrors = 2
    CheckpointEvery = 1
SYMMETRY Symmetry
INVARIANTS ProseIsAskedBack
