SPECIFICATION Spec
CONSTANTS
    perRequest = perRequest
    perToken = perToken
    Keys = {perRequest, perToken}
    RPM <- MCRPM
    TPM <- MCTPM
    Minute = 2
    Callers = {c1, c2}
    TokenCounts <- MCTokenCounts
    MaxTime = 3
    MaxAdmitted = 2
SYMMETRY CallerSymmetry
CHECK_DEADLOCK FALSE
INVARIANTS
    TypeOK
    RequestsWithinCap
    UsageNeverOverstated
PROPERTIES
    RejectedOnlyAtCap
