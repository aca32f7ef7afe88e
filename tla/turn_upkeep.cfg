SPECIFICATION Spec
CONSTANTS
    t1 = t1
    t2 = t2
    NoTurn = NoTurn
    Turns <- MCOneTurn
    MaxCalls = 1
    MaxMore = 1
    MaxCrashes = 0
    DbFailures = FALSE
    SharedCompressor = TRUE
    LiveRecovery = FALSE
CHECK_DEADLOCK FALSE
PROPERTY CompletedTurnStays
