CONSTANTS
    Callers = {c1, c2}
    FailureThreshold = 2
    ResetSeconds = 3
    HalfOpenMaxCalls = 1
    StatementTimeout = 1
    CallTimeout = 4
    Attempts = 3
    BackoffBase = 1
    BackoffMax = 2
SPECIFICATION FairSpec
INVARIANTS
    TypeOK
    EveryAttemptFits
PROPERTIES
    ImplementsBreaker
    CallsEnd
