\* The channel: two domains, two posts, a lost connection, a change of the
\* settings, a failed call. The tools: three agents, two of them at work, every
\* tool, a lost connection.
SPECIFICATION MCSpec
CONSTANTS
    d1 = d1
    d2 = d2
    NoMessage = NoMessage
    Disconnected = Disconnected
    NoHandle = NoHandle
    Domains <- MCTwoDomains
    EmitSelf = FALSE
    LateReplies = TRUE
    MaxPosts = 2
    MaxReplies = 1
    MaxBreaks = 1
    MaxChanges = 1
    MaxCrashes = 0
    MaxFailures = 1
    ag1 = ag1
    ag2 = ag2
    ag3 = ag3
    w1 = w1
    w2 = w2
    job = job
    Agents <- MCAgents
    Workers <- MCWorkers
    Owner <- MCOwner
    NumRooms = 2
    Tasks = {job}
    Ops <- MCOps
    PollFilter = 1
    ReadLimit = 1
    StatusLimit = 2
    ListLimit = 2
    MaxOps = 3
    MaxLosses = 1
SYMMETRY MCSymmetry
CHECK_DEADLOCK FALSE
INVARIANTS
    TypesOK
    ReadsSkipNothing
    WorkReachesItsOwn
PROPERTIES
    CursorsSound
