\* Two messages of others and two faults; three posts by two agents; every ledger
\* of three events and some of two conversations, a crash; two update requests.
SPECIFICATION MCSpec
CONSTANTS
    Self = "self"
    NoGuild = "none"
    Bots <- MCBots
    Posts <- MCPosts
    AllowedGuilds <- MCEveryone
    AllowedChannels <- MCChannels
    AllowedDmUsers <- MCEveryone
    AllowedGuildUsers <- MCEveryone
    MentionOnly = TRUE
    MaxLen = 2
    Replies <- MCReplies
    Failure <- MCFailure
    MaxHeard = 2
    MaxFaults = 2
    Authors = {"me", "other"}
    Me = "me"
    MyHandle <- MCHandle
    Areas = {1, 2}
    Says <- MCSays
    Calls <- MCCalls
    Idle = 0
    Stale = 1
    Silent = 2
    Skew = 1
    Window = 1
    ClaimLimit = 1
    PageLimit = 2
    MaxSaid = 3
    MaxTime = 2
    MaxMoves = 1
    Sources <- MCSources
    Later <- MCLater
    MaxSeconds = 1
    MaxCrashes = 1
    MaxWrites = 1
    Requests = {"r1", "r2"}
    Messages = {"t1", "t2"}
    Broken <- MCBroken
    MaxRevision = 2
    MaxProcesses = 3
    MaxStops = 1
CHECK_DEADLOCK FALSE
INVARIANTS
    TypesOK
    DispatchesHandled
    ConnectionsApart
    OverviewsTrue
    MigratedAsSaid
    FilesKept
PROPERTIES
    SessionComesBack
    UpdatesAreHonest
