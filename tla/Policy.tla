------------------------------- MODULE Policy -------------------------------
(***************************************************************************)
(* The budget of one dependency (app/resilience/policy.py), in clock       *)
(* ticks, and what build_policies refuses to start with.  The breaker's    *)
(* own parameters are Breaker's.  The Redis policy is the same with one    *)
(* attempt, REDIS_SOCKET_TIMEOUT for its budget and no statement timeout   *)
(* to sit inside.                                                          *)
(***************************************************************************)
EXTENDS Naturals

CONSTANTS
    StatementTimeout,   \* DB_STATEMENT_TIMEOUT_SECONDS
    CallTimeout,        \* DB_CALL_TIMEOUT_SECONDS
    Attempts,           \* DB_RETRY_ATTEMPTS: attempts, not retries
    BackoffBase,        \* RETRY_BACKOFF_BASE_SECONDS
    BackoffMax          \* RETRY_BACKOFF_MAX_SECONDS

\* min(..., max=backoff_max_seconds)
Capped(w) == IF w <= BackoffMax THEN w ELSE BackoffMax

\* 2 ** n, as a recursive function that the proofs can unfold.
PowerOfTwo[n \in 0 .. Attempts] == IF n = 0 THEN 1 ELSE 2 * PowerOfTwo[n - 1]

\* Mutant of Backoff: the exponent is the number of attempts made.
BackoffOneAhead(n) == Capped(BackoffBase * PowerOfTwo[n])

\* The longest wait after the n-th failed attempt: wait_random_exponential
\* draws from 0 up to it.
Backoff(n) == Capped(BackoffBase * PowerOfTwo[n - 1])

\* The longest that the waits after the first n attempts can add up to.
WaitsUpTo[n \in 0 .. Attempts] ==
    IF n = 0 THEN 0 ELSE WaitsUpTo[n - 1] + Capped(BackoffBase * PowerOfTwo[n - 1])

\* worst_case_backoff_seconds: every wait but none after the last attempt.
WorstCaseBackoff == WaitsUpTo[Attempts - 1]

\* build_policies starts, or a ValueError names the variable at fault.
Accepted ==
    /\ StatementTimeout > 0
    /\ CallTimeout > StatementTimeout
    /\ Attempts >= 1
    /\ BackoffBase > 0
    /\ BackoffMax >= BackoffBase
    /\ WorstCaseBackoff < CallTimeout

ASSUME PolicyAssumption ==
    /\ {StatementTimeout, CallTimeout, Attempts, BackoffBase, BackoffMax} \subseteq Nat
    /\ Accepted

=============================================================================
