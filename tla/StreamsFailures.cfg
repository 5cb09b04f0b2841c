CONSTANTS
    Paths <- AllPaths
    MaxText = 2
    MaxTools = 2
    MaxArgs = 2
    StreamRetries = 1
SPECIFICATION Spec
INVARIANTS
    FailuresAreTold
CHECK_DEADLOCK FALSE
