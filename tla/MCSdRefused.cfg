SPECIFICATION Spec
CHECK_DEADLOCK FALSE
CONSTANTS
    None = None
    Blocks = 3
    W = 2
    Depth = 3
    HalfWord = 6
    MmcTries = 2
    SdTries = 3
    MaxFaults = 3
    MaxCalls = 4
PROPERTIES
    RefusalReported
