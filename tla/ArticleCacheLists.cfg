CONSTANTS
    Readers = {r1, r2}
    Writers = {w1, w2}
    FairReaders = {}
    Targets = {"author"}
    Kinds = {"create"}
    CommandsMayFail = TRUE
    CountersMayVanish = FALSE
    NoValue = NoValue
    FailureThreshold = 2
    ResetSeconds = 1
    HalfOpenMaxCalls = 1
SPECIFICATION Spec
SYMMETRY Symmetry
INVARIANTS
    ListReadsFresh
CHECK_DEADLOCK FALSE
