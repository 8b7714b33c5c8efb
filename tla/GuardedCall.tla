----------------------------- MODULE GuardedCall -----------------------------
(***************************************************************************)
(* guarded_call: circuit breaker, then timeout, then retry, around one     *)
(* call of a dependency, for concurrent callers of one process.  A read    *)
(* (guarded_read) has policy.attempts attempts with the session rolled     *)
(* back before every attempt after the first; a write (guarded_write) has  *)
(* one attempt.                                                            *)
(*                                                                         *)
(* The operation itself is the environment's: it answers, raises an error  *)
(* that is the dependency's answer (a DomainError, a constraint            *)
(* violation), or meets a transient fault, which takes a dependency that   *)
(* was down at some moment of the call.                                    *)
(***************************************************************************)
EXTENDS Breaker, Policy, FiniteSets

CONSTANTS Callers       \* concurrent requests of one process

ASSUME GuardAssumption == IsFiniteSet(Callers)

VARIABLES
    breaker,      \* the dependency's shared breaker
    pc,           \* per caller: idle, attempt, backoff or done
    kind,         \* read or write
    attempts,     \* attempts made by the call so far
    age,          \* ticks since asyncio.timeout started
    wait,         \* ticks left of the wait before the next attempt
    worked,       \* observer: calls that spent a tick in an attempt
    outcome,      \* what guarded_call returned or raised
    healthy,      \* whether the dependency is answering now
    exposed,      \* running calls during which it was down
    openFor       \* observer: ticks since the circuit opened, 0 unless it is open

call == <<kind, attempts, age, wait, worked>>
vars == <<breaker, pc, call, outcome, healthy, exposed, openFor>>

Running == {c \in Callers : pc[c] \in {"attempt", "backoff"}}

\* effective.attempts
AttemptLimit(k) == IF k = "write" THEN 1 ELSE Attempts

OpenBound == ResetSeconds + CallTimeout

TypeOK ==
    /\ breaker \in BreakerRecord
    /\ pc \in [Callers -> {"idle", "attempt", "backoff", "done"}]
    /\ kind \in [Callers -> {"read", "write"}]
    /\ attempts \in [Callers -> 0 .. Attempts]
    /\ age \in [Callers -> 0 .. CallTimeout]
    /\ wait \in [Callers -> 0 .. BackoffMax]
    /\ worked \in SUBSET Running
    /\ outcome \in [Callers -> {"none", "answer", "error", "timeout", "unavailable"}]
    /\ healthy \in BOOLEAN
    /\ exposed \in SUBSET Running
    /\ openFor \in 0 .. OpenBound

Init ==
    /\ breaker = NewBreaker
    /\ pc = [c \in Callers |-> "idle"]
    /\ kind = [c \in Callers |-> "read"]
    /\ attempts = [c \in Callers |-> 0]
    /\ age = [c \in Callers |-> 0]
    /\ wait = [c \in Callers |-> 0]
    /\ worked = {}
    /\ outcome = [c \in Callers |-> "none"]
    /\ healthy = TRUE
    /\ exposed = {}
    /\ openFor = 0

-----------------------------------------------------------------------------
\* breaker.allow() is the first thing asked: the call starts ...
Start(c, k) ==
    /\ pc[c] = "idle"
    /\ Admits(breaker)
    /\ breaker' = AfterAllow(breaker)
    /\ pc' = [pc EXCEPT ![c] = "attempt"]
    /\ kind' = [kind EXCEPT ![c] = k]
    /\ attempts' = [attempts EXCEPT ![c] = 1]
    /\ exposed' = IF healthy THEN exposed ELSE exposed \cup {c}
    /\ openFor' = 0
    /\ UNCHANGED <<age, wait, worked, outcome, healthy>>

\* ... or fails fast.
FailFast(c) ==
    /\ pc[c] = "idle"
    /\ ~ Admits(breaker)
    /\ breaker' = AfterAllow(breaker)
    /\ pc' = [pc EXCEPT ![c] = "done"]
    /\ outcome' = [outcome EXCEPT ![c] = "unavailable"]
    /\ UNCHANGED <<call, healthy, exposed, openFor>>

\* guarded_call ends: the one report of this call to the breaker.
End(c, newBreaker, result) ==
    /\ breaker' = newBreaker
    /\ pc' = [pc EXCEPT ![c] = "done"]
    /\ outcome' = [outcome EXCEPT ![c] = result]
    /\ attempts' = [attempts EXCEPT ![c] = 0]
    /\ age' = [age EXCEPT ![c] = 0]
    /\ wait' = [wait EXCEPT ![c] = 0]
    /\ worked' = worked \ {c}
    /\ exposed' = exposed \ {c}
    /\ openFor' = IF breaker.state = "open" THEN openFor ELSE 0
    /\ UNCHANGED <<kind, healthy>>

\* The dependency answered, with a result or with an error that is an answer.
Answer(c) ==
    /\ pc[c] = "attempt"
    /\ \E result \in {"answer", "error"} : End(c, RecordSuccess(breaker), result)

\* Mutant of Retry: every failed attempt is reported to the breaker.
RetryReported(c) ==
    /\ pc[c] = "attempt" /\ c \in exposed
    /\ attempts[c] < AttemptLimit(kind[c])
    /\ breaker' = RecordFailure(breaker)
    /\ pc' = [pc EXCEPT ![c] = "backoff"]
    /\ UNCHANGED <<call, outcome, healthy, exposed, openFor>>

\* A transient fault with attempts left: wait_random_exponential.
Retry(c) ==
    /\ pc[c] = "attempt" /\ c \in exposed
    /\ attempts[c] < AttemptLimit(kind[c])
    /\ pc' = [pc EXCEPT ![c] = "backoff"]
    /\ \E w \in 0 .. BackoffMax :
          w <= Backoff(attempts[c]) /\ wait' = [wait EXCEPT ![c] = w]
    /\ UNCHANGED <<breaker, kind, attempts, age, worked, outcome, healthy, exposed, openFor>>

\* The wait is over: the next attempt runs, the rollback of on_retry() first.
NextAttempt(c) ==
    /\ pc[c] = "backoff" /\ wait[c] = 0
    /\ pc' = [pc EXCEPT ![c] = "attempt"]
    /\ attempts' = [attempts EXCEPT ![c] = @ + 1]
    /\ UNCHANGED <<breaker, kind, age, wait, worked, outcome, healthy, exposed, openFor>>

\* A transient fault of the last attempt: translate() tells a dependency that
\* answered late from one that refused.
Exhausted(c) ==
    /\ pc[c] = "attempt" /\ c \in exposed
    /\ attempts[c] = AttemptLimit(kind[c])
    /\ \E result \in {"timeout", "unavailable"} :
          End(c, RecordFailure(breaker), result)

\* Mutant of BudgetSpent: the timeout covers the attempts, not the waits.
BudgetSpentInAttempt(c) ==
    /\ pc[c] = "attempt" /\ c \in exposed
    /\ age[c] = CallTimeout
    /\ End(c, RecordFailure(breaker), "timeout")

\* asyncio.timeout ends the call, mid-attempt or mid-wait.
BudgetSpent(c) ==
    /\ c \in Running /\ c \in exposed
    /\ age[c] = CallTimeout
    /\ End(c, RecordFailure(breaker), "timeout")

\* The caller takes the outcome and may call again later.
Return(c) ==
    /\ pc[c] = "done"
    /\ pc' = [pc EXCEPT ![c] = "idle"]
    /\ kind' = [kind EXCEPT ![c] = "read"]
    /\ outcome' = [outcome EXCEPT ![c] = "none"]
    /\ UNCHANGED <<breaker, attempts, age, wait, worked, healthy, exposed, openFor>>

\* Time passes in the attempts and the waits; what is due happens before.
Tick ==
    /\ \A c \in Running :
          age[c] < CallTimeout /\ (pc[c] = "backoff" => wait[c] > 0)
    /\ breaker' = Aged(breaker)
    /\ age' = [c \in Callers |-> IF c \in Running THEN age[c] + 1 ELSE age[c]]
    /\ wait' = [c \in Callers |-> IF wait[c] > 0 THEN wait[c] - 1 ELSE 0]
    /\ worked' = worked \cup {c \in Running : pc[c] = "attempt"}
    /\ openFor' = IF breaker.state = "open" /\ openFor < OpenBound
                  THEN openFor + 1 ELSE openFor
    /\ UNCHANGED <<pc, kind, attempts, outcome, healthy, exposed>>

DependencyDown ==
    /\ healthy
    /\ healthy' = FALSE
    /\ exposed' = Running
    /\ UNCHANGED <<breaker, pc, call, outcome, openFor>>

DependencyUp ==
    /\ ~ healthy
    /\ healthy' = TRUE
    /\ UNCHANGED <<breaker, pc, call, outcome, exposed, openFor>>

CallStep(c) ==
    \/ Answer(c) \/ Retry(c) \/ NextAttempt(c) \/ Exhausted(c) \/ BudgetSpent(c)

Next ==
    \/ \E c \in Callers :
          \/ \E k \in {"read", "write"} : Start(c, k)
          \/ FailFast(c) \/ CallStep(c) \/ Return(c)
    \/ Tick \/ DependencyDown \/ DependencyUp

Spec == Init /\ [][Next]_vars

\* The clock advances, though another call may ever have something due first;
\* asyncio.timeout fires, a wait that is over ends, and a dependency that is up
\* all through a call answers it.  One that was down owes nothing: an attempt
\* on it may stay silent.
FairSpec ==
    /\ Spec
    /\ SF_vars(Tick)
    /\ \A c \in Callers :
          /\ WF_vars(BudgetSpent(c)) /\ WF_vars(NextAttempt(c))
          /\ WF_vars(c \notin exposed /\ Answer(c))

-----------------------------------------------------------------------------
\* Whatever a call does in between (attempts, waits, rollbacks), the breaker
\* sees one admission and one report of it, and takes an answer that is an
\* error for a success: guarded calls implement CircuitBreaker.
CB == INSTANCE CircuitBreaker WITH running <- Running
ImplementsBreaker == CB!Spec

\* A call that started ends, also against a dependency that never answers:
\* attempts, waits and rollbacks all lie inside the one budget.
CallsEnd ==
    \A c \in Callers : pc[c] = "attempt" ~> pc[c] = "done"

\* The waits alone never use the budget up: a call whose attempts fail at once
\* has every attempt its policy names.
EveryAttemptFits ==
    \A c \in Callers :
        pc[c] = "backoff" /\ age[c] = CallTimeout => c \in worked

=============================================================================
