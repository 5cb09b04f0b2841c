SPECIFICATION FairSpec
CONSTANTS
    chat = chat
    backup = backup
    spare = spare
    unknown = unknown
    direct = direct
    pooled = pooled
    Models <- MCModels
    Deps <- MCDeps
    Deployments <- MCDeployments
    Fallbacks <- MCFallbacks
    Capable <- MCCapable
    RPM <- ChatCap
    TPM <- NoCaps
    Minute = 2
    Cooldown = 1
    Hints <- NoHint
    TokenCounts <- OneCount
    Requests = {r1, r2}
    UsedModes <- ChatOnly
    BlockedSets <- NothingBlocked
    Timed <- DirectOnly
    MaxTime = 1
CHECK_DEADLOCK FALSE
INVARIANTS
    TypeOK
    GaveUpOnlyAfterAll
    LimitsSurfaceAs429
PROPERTIES
    EveryWalkEnds
