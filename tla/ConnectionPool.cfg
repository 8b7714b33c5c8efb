CONSTANTS
    Requests = {q1, q2}
    Probes = {p1}
    PoolSize = 1
    MaxOverflow = 1
    Attempts = 2
    NoOne = NoOne
SPECIFICATION FairSpec
CHECK_DEADLOCK FALSE
INVARIANTS
    TypeOK
    SlotsAccounted
    RowLockHeld
    UnreadyOnlyForMySQL
PROPERTIES
    ConnectionsReturn
    RequestsEnd
