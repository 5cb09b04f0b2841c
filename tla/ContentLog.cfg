SPECIFICATION Spec
CONSTANTS
    MaxSize = 3
    RotateEvery = 1
    Compress = TRUE
    MaxBackups = 2
    MaxAge = 1
    MaxTotal = 4
    Sizes = {1, 4}
    MaxRecords = 5
    MaxTime = 2
    MaxFaults = 2
INVARIANTS
    AcceptedStaysReadable
    DiskBounded
CHECK_DEADLOCK FALSE
