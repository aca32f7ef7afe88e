SPECIFICATION Spec
CONSTANTS
    t1 = t1
    t2 = t2
    NoTurn = NoTurn
    Turns <- MCTwoTurns
    MaxCalls = 1
    MaxMore = 1
    MaxCrashes = 1
    DbFailures = FALSE
    SharedCompressor = TRUE
    LiveRecovery = TRUE
CHECK_DEADLOCK FALSE
SYMMETRY MCSymmetry
INVARIANTS
    NoAbandonedTurn
    FailureExplained
