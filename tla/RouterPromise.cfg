SPECIFICATION Spec
CONSTANTS
    chat = chat
    backup = backup
    spare = spare
    unknown = unknown
    direct = direct
    pooled = pooled
    Models <- SmallModels
    Deps <- MCDeps
    Deployments <- SmallDeployments
    Fallbacks <- SmallFallbacks
    Capable <- MCCapable
    RPM <- ChatCap
    TPM <- NoCaps
    Minute = 1
    Cooldown = 1
    Hints <- LongHint
    TokenCounts <- OneCount
    Requests = {r1, r2}
    UsedModes <- OtherModes
    BlockedSets <- SpareBlocked
    Timed <- MCDeps
    MaxTime = 1
SYMMETRY Symmetry
CHECK_DEADLOCK FALSE
INVARIANTS
    BlockedNeverUsed
PROPERTIES
    KeepsPromise
    TokensGoToServer
