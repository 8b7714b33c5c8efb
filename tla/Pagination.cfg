CONSTANTS
    MaxId = 3
    Times <- MCTimes
    Authors = {a1, a2}
    Limits = {1, 2}
    Everyone = Everyone
    NoCursor = NoCursor
    NoRow = NoRow
SPECIFICATION FairSpec
INVARIANTS
    TypeOK
    Descending
    NothingSkipped
PROPERTIES
    WalkEnds
CHECK_DEADLOCK FALSE
