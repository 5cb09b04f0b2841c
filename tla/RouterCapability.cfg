SPECIFICATION Spec
CONSTANTS
    chat = chat
    backup = backup
    spare = spare
    unknown = unknown
    direct = direct
    pooled = pooled
    Models <- SmallModels
    Deps <- MCDeps
    Deployments <- SmallDeployments
    Fallbacks <- SmallFallbacks
    Capable <- MCCapable
    RPM <- NoCaps
    TPM <- NoCaps
    Minute = 1
    Cooldown = 1
    Hints <- NoHint
    TokenCounts <- OneCount
    Requests = {r1}
    UsedModes <- PassthroughOnly
    BlockedSets <- NothingBlocked
    Timed <- MCDeps
    MaxTime = 0
INVARIANT
    CapabilityMissHidesNoLimit
