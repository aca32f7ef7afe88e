SPECIFICATION Spec
CONSTANTS
    d1 = d1
    d2 = d2
    NoMessage = NoMessage
    Disconnected = Disconnected
    Domains <- MCOneDomain
    EmitSelf = FALSE
    LateReplies = TRUE
    MaxPosts = 3
    MaxReplies = 2
    MaxBreaks = 1
    MaxChanges = 0
    MaxCrashes = 0
    MaxFailures = 0
CHECK_DEADLOCK FALSE
PROPERTIES
    NothingLostAfterCheckpoint
