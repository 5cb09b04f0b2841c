CONSTANTS
    Dialects <- MCDialects
    MaxBreakpoints = 2
    MaxTurns = 3
    MaxCalls = 2
    Tallies <- MCTallies
SPECIFICATION ConvSpec
INVARIANTS
    ResultsStayMatched
    NothingLost
    WithinBreakpoints
    SessionPinned
    LedgerCountsOnce
CHECK_DEADLOCK FALSE
