CONSTANTS
    Requests = {r1, r2}
    Bodies = {b1, b2}
    ReadAttempts = 2
    NoRow = NoRow
    Nobody = Nobody
SPECIFICATION Spec
INVARIANT AckedUpdateIsDurable
CHECK_DEADLOCK FALSE
