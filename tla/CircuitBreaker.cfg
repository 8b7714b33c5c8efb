CONSTANTS
    Callers = {c1, c2, c3}
    FailureThreshold = 2
    ResetSeconds = 3
    HalfOpenMaxCalls = 2
    CallTimeout = 2
SPECIFICATION FairSpec
INVARIANTS
    TypeOK
    HalfOpenIsItsProbes
    OutageBounded
PROPERTIES
    FailsFast
    Recovery
