SPECIFICATION Spec
CONSTANTS
    t1 = t1
    t2 = t2
    NoTurn = NoTurn
    Turns <- MCTwoTurns
    MaxCalls = 2
    MaxMore = 2
    MaxCrashes = 1
    DbFailures = TRUE
    SharedCompressor = FALSE
    LiveRecovery = FALSE
CHECK_DEADLOCK FALSE
SYMMETRY MCSymmetry
INVARIANTS
    TypeOK
    BooksStraight
PROPERTIES
    OnlyAbandonedRecovered
    ImplementsContract
