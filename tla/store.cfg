\* Two handlers, three turns of one thread, a rate limit, a failing call.
SPECIFICATION StSpec
CONSTANTS
    h1 = h1
    h2 = h2
    Handlers <- MCHandlers
    NoHandler = NoHandler
    Inbound <- MCInbound
    NoMeta = "NULL"
    MaxHistory = 1
    Retention = 1
    MaxTurns = 3
    MaxUpsets = 1
    MaxTime = 2
SYMMETRY MCSymmetry
CHECK_DEADLOCK FALSE
INVARIANTS
    StTypeOK
    EventsNumbered
    PromptsOfThread
    TracesKept
