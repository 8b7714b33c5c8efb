CONSTANTS
    Requests = {r1, r2}
    Bodies = {b1, b2}
    ReadAttempts = 2
    NoRow = NoRow
    Nobody = Nobody
SPECIFICATION FairSpec
INVARIANTS
    TypeOK
    RefusedLeavesNoTrace
    RefusalsAreTrue
PROPERTIES
    NoLostUpdate
    ImplementsRegister
    Answered
CHECK_DEADLOCK FALSE
