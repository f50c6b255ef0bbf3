SPECIFICATION Spec
CONSTANTS
    Limit = 3
    MaxItems = 6
    MaxCrashes = 2
INVARIANT OnlyBadLinesSkipped
CHECK_DEADLOCK FALSE
