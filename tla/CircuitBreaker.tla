---------------------------- MODULE CircuitBreaker ----------------------------
(***************************************************************************)
(* One process-wide circuit breaker (get_breaker) shared by the callers of *)
(* one dependency.  A caller asks allow() before its call and reports the  *)
(* call's fate with record_success() or record_failure() when the call     *)
(* ends, which is any number of interleaved steps later: by then the       *)
(* breaker may have opened, probed and closed under other callers' feet.   *)
(*                                                                         *)
(* The call itself is abstract here (GuardedCall refines it): it ends      *)
(* within CallTimeout ticks, it can fail only if the dependency was down   *)
(* at some moment while it ran, and otherwise its fate is a choice.        *)
(***************************************************************************)
EXTENDS Breaker, FiniteSets

CONSTANTS
    Callers,       \* concurrent requests of one process
    CallTimeout    \* policy.call_timeout_seconds, in ticks

ASSUME CallersAssumption ==
    /\ IsFiniteSet(Callers)
    /\ CallTimeout \in Nat \ {0}

VARIABLES
    breaker,    \* the shared CircuitBreaker object
    running,    \* callers that were admitted and have not reported yet
    age,        \* how long ago each running call was admitted
    healthy,    \* whether the dependency is answering now
    exposed,    \* running calls during which the dependency was down
    openFor     \* observer: ticks since the circuit opened, 0 unless it is open

vars == <<breaker, running, age, healthy, exposed, openFor>>

\* As far as openFor counts: no property looks beyond it.
OpenBound == ResetSeconds + CallTimeout

TypeOK ==
    /\ breaker \in BreakerRecord
    /\ running \in SUBSET Callers
    /\ age \in [Callers -> 0 .. CallTimeout]
    /\ healthy \in BOOLEAN
    /\ exposed \in SUBSET running
    /\ openFor \in 0 .. OpenBound

Init ==
    /\ breaker = NewBreaker
    /\ running = {}
    /\ age = [c \in Callers |-> 0]
    /\ healthy = TRUE
    /\ exposed = {}
    /\ openFor = 0

\* allow() answers True.
Admit(c) ==
    /\ c \notin running
    /\ Admits(breaker)
    /\ breaker' = AfterAllow(breaker)
    /\ running' = running \cup {c}
    /\ age' = [age EXCEPT ![c] = 0]
    /\ exposed' = IF healthy THEN exposed ELSE exposed \cup {c}
    /\ openFor' = 0
    /\ UNCHANGED healthy

\* allow() answers False: the caller fails fast and its call never starts.
Refuse(c) ==
    /\ c \notin running
    /\ ~ Admits(breaker)
    /\ breaker' = AfterAllow(breaker)
    /\ UNCHANGED <<running, age, healthy, exposed, openFor>>

\* The call ended and its caller reports it, to whatever the breaker has
\* become since the call was admitted.
Report(c, newBreaker) ==
    /\ c \in running
    /\ breaker' = newBreaker
    /\ running' = running \ {c}
    /\ exposed' = exposed \ {c}
    /\ age' = [age EXCEPT ![c] = 0]
    /\ openFor' = IF breaker.state = "open" THEN openFor ELSE 0
    /\ UNCHANGED healthy

Succeed(c) == Report(c, RecordSuccess(breaker))

Fail(c) == c \in exposed /\ Report(c, RecordFailure(breaker))

\* Time passes, never beyond the moment the timeout ends a running call.
Tick ==
    /\ \A c \in running : age[c] < CallTimeout
    /\ breaker' = Aged(breaker)
    /\ age' = [c \in Callers |-> IF c \in running THEN age[c] + 1 ELSE age[c]]
    /\ openFor' = IF breaker.state = "open" /\ openFor < OpenBound
                  THEN openFor + 1 ELSE openFor
    /\ UNCHANGED <<running, healthy, exposed>>

DependencyDown ==
    /\ healthy
    /\ healthy' = FALSE
    /\ exposed' = running
    /\ UNCHANGED <<breaker, running, age, openFor>>

DependencyUp ==
    /\ ~ healthy
    /\ healthy' = TRUE
    /\ UNCHANGED <<breaker, running, age, exposed, openFor>>

Next ==
    \/ \E c \in Callers : Admit(c) \/ Refuse(c) \/ Succeed(c) \/ Fail(c)
    \/ Tick
    \/ DependencyDown
    \/ DependencyUp

Spec == Init /\ [][Next]_vars

(***************************************************************************)
(* Fairness: the clock advances; an admitted call ends (asyncio.timeout    *)
(* and the socket timeouts bound every one); requests keep arriving.       *)
(***************************************************************************)
FairSpec ==
    /\ Spec
    /\ WF_vars(Tick)
    /\ \A c \in Callers : WF_vars(Succeed(c) \/ Fail(c))
    /\ WF_vars(\E c \in Callers : Admit(c))

-----------------------------------------------------------------------------
\* A half-open circuit is exactly its probes: as many calls are running as it
\* has admitted since it woke, so a report that closes or re-opens it comes
\* from a probe and never from a call that was already running when it opened,
\* and a probe whose report is still to come always exists, so half-open is
\* never a state the circuit is stuck in.  Holds when a call ends before the
\* reset interval does, as with the defaults (3 s and 2 s against 10 s).
HalfOpenIsItsProbes ==
    breaker.state = "half_open" =>
        /\ breaker.probes > 0
        /\ Cardinality(running) = breaker.probes

\* Late failures of calls admitted before the circuit opened restart its reset
\* interval (record_failure in the open state), but only for as long as such
\* calls can run: CallTimeout after the interval the circuit admits a probe.
OutageBounded ==
    openFor = OpenBound => Admits(breaker)

\* An open circuit costs no call: for ResetSeconds after it opens, no step
\* admits anybody, whatever late reports reach it meanwhile.
FailsFast ==
    [][breaker.state = "open" /\ openFor < ResetSeconds
         => running' \subseteq running]_vars

\* A dependency that comes back for good is used again: from some point on the
\* circuit is closed for ever.
Recovery ==
    <>[]healthy => <>[](breaker.state = "closed")

=============================================================================
