\* Three callers of the gate, one of them with an engine of its own; six
\* answers, cut anywhere; schemas of two properties, nested, and lists of objects.
SPECIFICATION MCSpec
CONSTANTS
    c1 = c1
    c2 = c2
    c3 = c3
    Callers <- MCCallers
    Dedicated <- MCOneDedicated
    BaseBackoff = 1
    RetryAfters <- MCRetryAfters
    MaxDuration = 8
    MaxLimits = 3
    DbFailures = TRUE
    Meant <- MCMeant
    Declared <- MCDeclared
    Values <- MCValues
INVARIANTS
    TypesOK
    GateKept
    AnswersAsSent
    EndsAsReported
    CallsSurvive
PROPERTIES
    RateLimitsKept
    ImplementsAccess
    EveryExchangeEnds
