CONSTANTS
    Readers = {r1, r2}
    Writers = {w1}
    FairReaders = {r1}
    Targets = {"article"}
    Kinds = {"change"}
    CommandsMayFail = TRUE
    CountersMayVanish = TRUE
    NoValue = NoValue
    FailureThreshold = 2
    ResetSeconds = 1
    HalfOpenMaxCalls = 1
SPECIFICATION FairSpec
INVARIANTS
    TypeOK
    OneTimeoutPerRequest
PROPERTIES
    StaleOnlyByLateFill
    ReadsEnd
    CacheHeals
CHECK_DEADLOCK FALSE
