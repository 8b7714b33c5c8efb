CONSTANTS
    Requests = {q1}
    Probes = {p1}
    PoolSize = 1
    MaxOverflow = 0
    Attempts = 2
    NoOne = NoOne
SPECIFICATION SilentSpec
CHECK_DEADLOCK FALSE
PROPERTIES
    SilentMySQLBecomesAnAnswer
