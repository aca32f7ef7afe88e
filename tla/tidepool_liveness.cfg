\* A domain of three messages, an agent that hears its own, a lost connection,
\* a changed subscription, a crash, a failed call.
SPECIFICATION FairSpec
CONSTANTS
    d1 = d1
    d2 = d2
    NoMessage = NoMessage
    Disconnected = Disconnected
    Domains <- MCOneDomain
    EmitSelf = TRUE
    LateReplies = FALSE
    MaxPosts = 3
    MaxReplies = 2
    MaxBreaks = 1
    MaxChanges = 1
    MaxCrashes = 1
    MaxFailures = 1
CHECK_DEADLOCK FALSE
INVARIANTS
    RepliedOnce
    ReconnectRepeatsNothing
PROPERTIES
    NewestHandled
    EveryMessageCovered
