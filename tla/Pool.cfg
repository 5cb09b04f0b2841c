SPECIFICATION Spec
CONSTANTS
    N = 3
    Callers = {p1, p2}
    Methods <- AllMethods
    Capable <- MixedCapable
    Default = 1
    Hints <- HintOrNone
    MaxTime = 1
SYMMETRY Symmetry
INVARIANTS
    TypeOK
    ExhaustedOnlyWhenSpent
PROPERTIES
    MovesOnlyOffSpentAlone
