SPECIFICATION Spec
CONSTANTS
    key = key
    outsider = outsider
    master = master
    small = small
    Requests = {r1, r2}
    Callers <- Tokens
    Models <- OneModel
    UsedKinds <- ChatAndStream
    Allowed <- Allowlists
    KeyCap <- CapOfKey
    KeyWindow <- WindowOfKey
    OrgCap = 1
    OrgWindow = 1
    Costs = {1}
    Period = 2
    Overrides = {3}
    MaxTime = 3
SYMMETRY Symmetry
INVARIANTS
    TypeOK
    SustainedSpendBounded
    PurgeSparesWindows
    OneRowPerRequest
