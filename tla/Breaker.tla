------------------------------- MODULE Breaker -------------------------------
(***************************************************************************)
(* The circuit breaker of app/resilience/breaker.py as a value and the     *)
(* operators that move it.  The breaker runs on one event loop and never   *)
(* awaits, so every method is one atomic step on the record below; the     *)
(* specifications that share a breaker between concurrent callers          *)
(* (CircuitBreaker, GuardedCall, ArticleCache) are built on these          *)
(* operators.                                                              *)
(*                                                                         *)
(* Time.  The code keeps the instant _opened_at and only ever looks at     *)
(* clock() - _opened_at, against _reset_seconds.  The record keeps that    *)
(* difference, openAge, in clock ticks and saturated at ResetSeconds:      *)
(* every later instant answers the comparison the same way.                *)
(***************************************************************************)
EXTENDS Naturals

CONSTANTS
    FailureThreshold,   \* consecutive failures that open the circuit
    ResetSeconds,       \* ticks an open circuit fails fast before a probe
    HalfOpenMaxCalls    \* probes admitted while half-open

\* What build_policies refuses to start without.
ASSUME BreakerAssumption ==
    /\ FailureThreshold \in Nat \ {0}
    /\ ResetSeconds \in Nat \ {0}
    /\ HalfOpenMaxCalls \in Nat \ {0}

BreakerState == {"closed", "open", "half_open"}

BreakerRecord ==
    [state    : BreakerState,
     failures : 0 .. FailureThreshold - 1,
     openAge  : 0 .. ResetSeconds,
     probes   : 0 .. HalfOpenMaxCalls]

\* __init__: closed, nothing counted, _opened_at in the distant past.
NewBreaker ==
    [state |-> "closed", failures |-> 0, openAge |-> ResetSeconds, probes |-> 0]

ToOpen(b) ==
    [state |-> "open", failures |-> 0, openAge |-> 0, probes |-> 0]

\* The failure count is left alone here; both ways out of half-open clear it.
ToHalfOpen(b) ==
    [state |-> "half_open", failures |-> b.failures, openAge |-> b.openAge, probes |-> 0]

ToClosed(b) ==
    [state |-> "closed", failures |-> 0, openAge |-> b.openAge, probes |-> 0]

\* Mutant of Woken: the reset interval is not waited for.
WokenAtOnce(b) == IF b.state = "open" THEN ToHalfOpen(b) ELSE b

\* An open circuit whose reset interval has passed is half-open to the next
\* caller that asks.
Woken(b) ==
    IF b.state = "open" /\ b.openAge >= ResetSeconds THEN ToHalfOpen(b) ELSE b

\* allow(), as its answer and as what asking does to the breaker.
Admits(b) ==
    \/ b.state = "closed"
    \/ /\ Woken(b).state = "half_open"
       /\ Woken(b).probes < HalfOpenMaxCalls

\* Mutant of AfterAllow: the probe is admitted but not counted.
AfterAllowUncounted(b) ==
    IF Admits(b) /\ b.state # "closed" THEN Woken(b) ELSE b

\* Mutant of AfterAllow: a refused caller restarts the reset interval.
AfterAllowRestarts(b) ==
    IF b.state = "closed" THEN b
    ELSE IF Admits(b) THEN [Woken(b) EXCEPT !.probes = @ + 1]
    ELSE [b EXCEPT !.openAge = 0]

AfterAllow(b) ==
    IF Admits(b) /\ b.state # "closed"
    THEN [Woken(b) EXCEPT !.probes = @ + 1]
    ELSE b

\* Mutant of RecordSuccess: the half-open circuit is not closed.
RecordSuccessStaysHalfOpen(b) == [b EXCEPT !.failures = 0]

RecordSuccess(b) ==
    IF b.state = "half_open" THEN ToClosed(b) ELSE [b EXCEPT !.failures = 0]

\* Mutant of RecordFailure: opens one failure late.
RecordFailureLate(b) ==
    IF b.state = "half_open" \/ b.failures + 1 > FailureThreshold
    THEN ToOpen(b)
    ELSE [b EXCEPT !.failures = @ + 1]

RecordFailure(b) ==
    IF b.state = "half_open" \/ b.failures + 1 >= FailureThreshold
    THEN ToOpen(b)
    ELSE [b EXCEPT !.failures = @ + 1]

\* One tick of the injected monotonic clock.
Aged(b) ==
    [b EXCEPT !.openAge = IF @ < ResetSeconds THEN @ + 1 ELSE @]
=============================================================================
