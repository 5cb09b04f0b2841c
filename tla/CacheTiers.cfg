SPECIFICATION Spec
CONSTANTS
    Keys = {k1, k2, k3}
    Callers = {c1, c2}
    Capacity = 2
    Ttl = 1
    Persistent = TRUE
    SlowPromotion = FALSE
    MaxTime = 3
SYMMETRY Symmetry
INVARIANTS
    TypeOK
    ListMatchesItems
    RecentlyUsedStays
    ServedWithinTwoLifetimes
