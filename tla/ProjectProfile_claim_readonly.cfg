SPECIFICATION Spec
CONSTANTS
    Calls = {one, two}
    MaxManifest = 2
    PriorCap = 2
    FixCap = 3
PROPERTY MarkedIsReadOnly
CHECK_DEADLOCK FALSE
