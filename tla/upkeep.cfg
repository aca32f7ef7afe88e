\* Two turns of a thread, a fault, a crash and a rebuild; two chats of a few results.
SPECIFICATION MCSpec
CONSTANTS
    th1 = th1
    Threads <- MCOneThread
    AutoDistill = {"on", "off"}
    PromptLimit = 2
    ListLimit = 2
    OldLaws = 1
    MaxTurns = 2
    MaxLaws = 3
    MaxFacts = 3
    MaxNew = 1
    MaxItems = 2
    MaxFaults = 1
    MaxCrashes = 1
    MaxRebuilds = 1
    ch1 = ch1
    ch2 = ch2
    shell = shell
    rust = rust
    NoTool = NoTool
    Chats <- MCChats
    Tools <- MCTools
    Batches <- MCBatches
    WordsOf <- MCWordsOf
    MaxEntries = 8
    PatternThreshold = 1
    TopicThreshold = 2
    ManyResults = 1
    ManyAnswers = 0
    ObservationLimit = 1
    DriftLimit = 1
    MaxAge = 0
    MaxHours = 1
    MaxResults = 3
    MaxDrift = 1
    MaxObservations = 2
SYMMETRY MCSymmetry
CHECK_DEADLOCK FALSE
INVARIANTS
    TypesOK
    LawsSound
    StaleTurnsCaughtUp
    ObservationsApt
PROPERTIES
    AgeResolves
