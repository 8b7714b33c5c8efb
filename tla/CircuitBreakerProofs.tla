------------------------- MODULE CircuitBreakerProofs -------------------------
(***************************************************************************)
(* The safety of the shared circuit breaker for any number of callers, any *)
(* threshold, reset interval, probe limit and call timeout.  First what    *)
(* the breaker's methods do to the record.                                 *)
(***************************************************************************)
EXTENDS CircuitBreaker, FiniteSetTheorems, TLAPS

-----------------------------------------------------------------------------
\* The three moves keep the type of a breaker.
LEMMA MoveTypes ==
    ASSUME NEW b \in BreakerRecord
    PROVE  /\ ToOpen(b) \in BreakerRecord
           /\ ToHalfOpen(b) \in BreakerRecord
           /\ ToClosed(b) \in BreakerRecord
<1>1. ToOpen(b) \in BreakerRecord
  BY BreakerAssumption DEF BreakerRecord, BreakerState, ToOpen
<1>2. ToHalfOpen(b) \in BreakerRecord
  BY BreakerAssumption DEF BreakerRecord, BreakerState, ToHalfOpen
<1>3. ToClosed(b) \in BreakerRecord
  BY BreakerAssumption DEF BreakerRecord, BreakerState, ToClosed
<1> QED  BY <1>1, <1>2, <1>3

\* Asking leaves a closed breaker alone, and an open or half-open one that
\* admits the caller is half-open with that caller counted as a probe.
LEMMA AllowFacts ==
    ASSUME NEW b \in BreakerRecord
    PROVE  /\ AfterAllow(b) \in BreakerRecord
           /\ ~ Admits(b) => AfterAllow(b) = b
           /\ b.state = "closed" => AfterAllow(b) = b
           /\ Admits(b) /\ b.state = "open" =>
                 /\ b.openAge = ResetSeconds
                 /\ AfterAllow(b).state = "half_open"
                 /\ AfterAllow(b).probes = 1
           /\ Admits(b) /\ b.state = "half_open" =>
                 /\ AfterAllow(b).state = "half_open"
                 /\ AfterAllow(b).probes = b.probes + 1
<1>1. Woken(b) \in BreakerRecord
  BY MoveTypes DEF Woken
<1>2. CASE Admits(b) /\ b.state # "closed"
  <2>1. AfterAllow(b) = [Woken(b) EXCEPT !.probes = Woken(b).probes + 1]
    BY <1>2 DEF AfterAllow
  <2>2. Woken(b).state = "half_open" /\ Woken(b).probes < HalfOpenMaxCalls
    BY <1>2 DEF Admits
  <2>3. AfterAllow(b) \in BreakerRecord
    BY <1>1, <2>1, <2>2, BreakerAssumption DEF BreakerRecord, BreakerState
  <2>4. /\ AfterAllow(b).state = "half_open"
        /\ AfterAllow(b).probes = Woken(b).probes + 1
    BY <1>1, <2>1, <2>2 DEF BreakerRecord
  <2>5. b.state = "open" => b.openAge = ResetSeconds /\ Woken(b).probes = 0
    BY <2>2, BreakerAssumption DEF Woken, ToHalfOpen, BreakerRecord
  <2>6. b.state = "half_open" => Woken(b) = b
    BY DEF Woken
  <2> QED  BY <1>2, <2>3, <2>4, <2>5, <2>6
<1>3. CASE ~ (Admits(b) /\ b.state # "closed")
  BY <1>3 DEF AfterAllow, BreakerRecord, BreakerState
<1> QED  BY <1>2, <1>3

\* Reporting a success never opens the circuit and never leaves it half-open.
LEMMA SuccessFacts ==
    ASSUME NEW b \in BreakerRecord
    PROVE  /\ RecordSuccess(b) \in BreakerRecord
           /\ RecordSuccess(b).state # "half_open"
           /\ RecordSuccess(b).state = "open" =>
                 b.state = "open" /\ RecordSuccess(b).openAge = b.openAge
           /\ b.state = "open" => RecordSuccess(b).state = "open"
  BY MoveTypes, BreakerAssumption
  DEF RecordSuccess, ToClosed, BreakerRecord, BreakerState

\* Reporting a failure never leaves the circuit half-open and never takes an
\* open one out of it; it starts the reset interval anew or leaves it alone.
LEMMA FailureFacts ==
    ASSUME NEW b \in BreakerRecord
    PROVE  /\ RecordFailure(b) \in BreakerRecord
           /\ RecordFailure(b).state # "half_open"
           /\ b.state = "open" => RecordFailure(b).state = "open"
           /\ RecordFailure(b).state = "open" =>
                 \/ RecordFailure(b).openAge = 0
                 \/ b.state = "open" /\ RecordFailure(b).openAge = b.openAge
<1>1. CASE b.state = "half_open" \/ b.failures + 1 >= FailureThreshold
  BY <1>1, MoveTypes DEF RecordFailure, ToOpen, BreakerRecord
<1>2. CASE ~ (b.state = "half_open" \/ b.failures + 1 >= FailureThreshold)
  BY <1>2, BreakerAssumption DEF RecordFailure, BreakerRecord, BreakerState
<1> QED  BY <1>1, <1>2

\* A tick only ages the opening.
LEMMA AgedFacts ==
    ASSUME NEW b \in BreakerRecord
    PROVE  /\ Aged(b) \in BreakerRecord
           /\ Aged(b).state = b.state
           /\ Aged(b).probes = b.probes
           /\ Aged(b).openAge = IF b.openAge < ResetSeconds THEN b.openAge + 1 ELSE b.openAge
  BY BreakerAssumption DEF Aged, BreakerRecord, BreakerState

-----------------------------------------------------------------------------
\* Every call running through an open circuit was admitted before it opened,
\* so it is at least as old as the opening.
StragglersAreOld ==
    breaker.state = "open" => \A c \in running : age[c] >= openFor

\* The reset interval the breaker measures started no earlier than the
\* opening, and no later than CallTimeout after it.
IntervalTracksOpening ==
    breaker.state = "open" =>
        /\ openFor >= breaker.openAge
        /\ openFor <= breaker.openAge + CallTimeout \/ breaker.openAge = ResetSeconds

OnlyOpenCounts ==
    breaker.state # "open" => openFor = 0

Inv == TypeOK /\ StragglersAreOld /\ IntervalTracksOpening /\ OnlyOpenCounts

-----------------------------------------------------------------------------
\* A breaker just constructed (CLOSED, nothing in flight) satisfies the invariant.
LEMMA InitInv == Init => Inv
  BY BreakerAssumption, CallersAssumption
  DEF Init, Inv, TypeOK, StragglersAreOld, IntervalTracksOpening, OnlyOpenCounts,
      NewBreaker, BreakerRecord, BreakerState, OpenBound

\* Inv is inductive.
LEMMA NextInv == Inv /\ [Next]_vars => Inv'
<1> SUFFICES ASSUME Inv, [Next]_vars PROVE Inv'
  OBVIOUS
<1> USE BreakerAssumption, CallersAssumption
<1>t. /\ breaker \in BreakerRecord
      /\ breaker.openAge \in 0 .. ResetSeconds
      /\ openFor \in Nat
      /\ ResetSeconds \in Nat /\ CallTimeout \in Nat
      /\ \A c \in running : age[c] \in 0 .. CallTimeout
  BY DEF Inv, TypeOK, BreakerRecord, OpenBound
<1>1. ASSUME NEW c \in Callers, Admit(c) PROVE Inv'
  <2>1. TypeOK'
    BY <1>1, <1>t, AllowFacts DEF Admit, Inv, TypeOK, OpenBound
  <2>2. breaker'.state # "open" /\ openFor' = 0
    BY <1>1, <1>t, AllowFacts DEF Admit, BreakerRecord, BreakerState
  <2> QED  BY <2>1, <2>2 DEF Inv, StragglersAreOld, IntervalTracksOpening, OnlyOpenCounts
<1>2. ASSUME NEW c \in Callers, Refuse(c) PROVE Inv'
  <2>1. UNCHANGED vars
    BY <1>2, <1>t, AllowFacts DEF Refuse, vars
  <2> QED
    BY <2>1 DEF Inv, TypeOK, StragglersAreOld, IntervalTracksOpening, OnlyOpenCounts, vars
<1>3. ASSUME NEW c \in Callers, Succeed(c) PROVE Inv'
  <2>1. TypeOK'
    BY <1>3, <1>t, SuccessFacts DEF Succeed, Report, Inv, TypeOK, OpenBound
  <2>2. StragglersAreOld'
    BY <1>3, <1>t, SuccessFacts DEF Succeed, Report, Inv, TypeOK, StragglersAreOld
  <2>3. IntervalTracksOpening'
    BY <1>3, <1>t, SuccessFacts DEF Succeed, Report, Inv, IntervalTracksOpening
  <2>4. OnlyOpenCounts'
    BY <1>3, <1>t, SuccessFacts DEF Succeed, Report, Inv, OnlyOpenCounts
  <2> QED  BY <2>1, <2>2, <2>3, <2>4 DEF Inv
<1>4. ASSUME NEW c \in Callers, Fail(c) PROVE Inv'
  <2>1. TypeOK'
    BY <1>4, <1>t, FailureFacts DEF Fail, Report, Inv, TypeOK, OpenBound
  <2>2. StragglersAreOld'
    BY <1>4, <1>t, FailureFacts DEF Fail, Report, Inv, TypeOK, StragglersAreOld
  <2>3. IntervalTracksOpening'
    <3>1. breaker.state = "open" => openFor <= CallTimeout
      BY <1>4, <1>t DEF Fail, Report, Inv, StragglersAreOld
    <3> QED  BY <1>4, <1>t, <3>1, FailureFacts DEF Fail, Report, Inv, IntervalTracksOpening
  <2>4. OnlyOpenCounts'
    BY <1>4, <1>t, FailureFacts DEF Fail, Report, Inv, OnlyOpenCounts
  <2> QED  BY <2>1, <2>2, <2>3, <2>4 DEF Inv
<1>5. ASSUME Tick PROVE Inv'
  <2>1. TypeOK'
    BY <1>5, <1>t, AgedFacts DEF Tick, Inv, TypeOK, OpenBound
  <2>2. StragglersAreOld'
    BY <1>5, <1>t, AgedFacts DEF Tick, Inv, TypeOK, StragglersAreOld
  <2>3. IntervalTracksOpening'
    BY <1>5, <1>t, AgedFacts DEF Tick, Inv, IntervalTracksOpening, OpenBound
  <2>4. OnlyOpenCounts'
    BY <1>5, <1>t, AgedFacts DEF Tick, Inv, OnlyOpenCounts
  <2> QED  BY <2>1, <2>2, <2>3, <2>4 DEF Inv
<1>6. ASSUME DependencyDown \/ DependencyUp PROVE Inv'
  BY <1>6 DEF DependencyDown, DependencyUp, Inv, TypeOK, StragglersAreOld,
              IntervalTracksOpening, OnlyOpenCounts
<1>7. CASE UNCHANGED vars
  BY <1>7 DEF Inv, TypeOK, StragglersAreOld, IntervalTracksOpening, OnlyOpenCounts, vars
<1> QED  BY <1>1, <1>2, <1>3, <1>4, <1>5, <1>6, <1>7 DEF Next

\* The breaker and its callers keep their types: in particular the failure
\* count stays under the threshold and the probes within their limit, whatever
\* the order in which calls are admitted and reported.
THEOREM TypeCorrect == Spec => []TypeOK
<1>1. Inv => TypeOK
  BY DEF Inv
<1> QED  BY <1>1, InitInv, NextInv, PTL DEF Spec

\* A circuit that opened admits a probe again at the latest CallTimeout after
\* its reset interval, however many late failures restart the interval.
THEOREM OutageIsBounded == Spec => []OutageBounded
<1>1. Inv => OutageBounded
  <2> SUFFICES ASSUME Inv, openFor = OpenBound PROVE Admits(breaker)
    BY DEF OutageBounded
  <2>1. breaker.state = "open"
    BY BreakerAssumption, CallersAssumption DEF Inv, OnlyOpenCounts, OpenBound
  <2>2. breaker.openAge = ResetSeconds
    BY <2>1, BreakerAssumption, CallersAssumption
    DEF Inv, TypeOK, BreakerRecord, IntervalTracksOpening, OpenBound
  <2>3. Woken(breaker) = ToHalfOpen(breaker)
    BY <2>1, <2>2, BreakerAssumption DEF Woken
  <2>4. ToHalfOpen(breaker).state = "half_open" /\ ToHalfOpen(breaker).probes = 0
    BY DEF ToHalfOpen, Inv, TypeOK, BreakerRecord
  <2> QED  BY <2>3, <2>4, BreakerAssumption DEF Admits
<1> QED  BY <1>1, InitInv, NextInv, PTL DEF Spec

\* For ResetSeconds after the circuit opens no step admits a call.
THEOREM OpenFailsFast == Spec => FailsFast
<1>1. Inv /\ [Next]_vars =>
        [breaker.state = "open" /\ openFor < ResetSeconds => running' \subseteq running]_vars
  <2> SUFFICES ASSUME Inv, Next, breaker.state = "open", openFor < ResetSeconds
               PROVE  running' \subseteq running
    BY DEF vars
  <2>1. ASSUME NEW c \in Callers, Admit(c) PROVE FALSE
    <3>1. breaker.openAge = ResetSeconds
      BY <2>1, AllowFacts DEF Admit, Inv, TypeOK
    <3> QED
      BY <3>1, BreakerAssumption, CallersAssumption
      DEF Inv, IntervalTracksOpening, TypeOK, OpenBound
  <2> QED
    BY <2>1 DEF Next, Refuse, Succeed, Fail, Report, Tick, DependencyDown, DependencyUp
<1> QED  BY <1>1, InitInv, NextInv, PTL DEF Spec, FailsFast

\* With calls that end before the reset interval does, the only calls running
\* in a half-open circuit are its probes, and at least one is.
THEOREM HalfOpenSound ==
    ASSUME CallTimeout < ResetSeconds
    PROVE  Spec => []HalfOpenIsItsProbes
<1>1. Init => HalfOpenIsItsProbes
  BY DEF Init, NewBreaker, HalfOpenIsItsProbes
<1>2. Inv /\ HalfOpenIsItsProbes /\ [Next]_vars => HalfOpenIsItsProbes'
  <2> SUFFICES ASSUME Inv, HalfOpenIsItsProbes, [Next]_vars PROVE HalfOpenIsItsProbes'
    OBVIOUS
  <2>t. breaker \in BreakerRecord /\ breaker.probes \in Nat /\ IsFiniteSet(running)
    BY CallersAssumption, BreakerAssumption, FS_Subset DEF Inv, TypeOK, BreakerRecord
  <2>1. ASSUME NEW c \in Callers, Admit(c) PROVE HalfOpenIsItsProbes'
    <3>1. CASE breaker.state = "closed"
      BY <3>1, <2>1, <2>t, AllowFacts DEF Admit, HalfOpenIsItsProbes
    <3>2. CASE breaker.state = "open"
      <4>1. breaker.openAge = ResetSeconds /\ breaker'.probes = 1
        BY <3>2, <2>1, <2>t, AllowFacts DEF Admit
      <4>2. running = {}
        <5> SUFFICES ASSUME NEW d \in running PROVE FALSE
          OBVIOUS
        <5>1. age[d] >= openFor /\ openFor >= ResetSeconds
          BY <3>2, <4>1 DEF Inv, StragglersAreOld, IntervalTracksOpening
        <5>2. age[d] \in 0 .. CallTimeout /\ openFor \in Nat
          BY BreakerAssumption, CallersAssumption DEF Inv, TypeOK, OpenBound
        <5> QED  BY <5>1, <5>2, BreakerAssumption, CallersAssumption
      <4>3. running' = {c}
        BY <2>1, <4>2 DEF Admit
      <4>4. Cardinality(running') = 1
        BY <4>3, FS_Singleton
      <4> QED  BY <4>1, <4>4 DEF HalfOpenIsItsProbes
    <3>3. CASE breaker.state = "half_open"
      <4>1. breaker'.probes = breaker.probes + 1
        BY <3>3, <2>1, <2>t, AllowFacts DEF Admit
      <4>2. Cardinality(running') = Cardinality(running) + 1
        BY <2>1, <2>t, FS_AddElement DEF Admit
      <4> QED  BY <3>3, <4>1, <4>2, <2>t DEF HalfOpenIsItsProbes
    <3> QED  BY <3>1, <3>2, <3>3, <2>t DEF BreakerRecord, BreakerState
  <2>2. ASSUME NEW c \in Callers, Refuse(c) PROVE HalfOpenIsItsProbes'
    BY <2>2, <2>t, AllowFacts DEF Refuse, HalfOpenIsItsProbes
  <2>3. ASSUME NEW c \in Callers, Succeed(c) \/ Fail(c) PROVE HalfOpenIsItsProbes'
    BY <2>3, <2>t, SuccessFacts, FailureFacts DEF Succeed, Fail, Report, HalfOpenIsItsProbes
  <2>4. ASSUME Tick PROVE HalfOpenIsItsProbes'
    BY <2>4, <2>t, AgedFacts DEF Tick, HalfOpenIsItsProbes
  <2>5. ASSUME DependencyDown \/ DependencyUp \/ UNCHANGED vars PROVE HalfOpenIsItsProbes'
    BY <2>5 DEF DependencyDown, DependencyUp, vars, HalfOpenIsItsProbes
  <2> QED  BY <2>1, <2>2, <2>3, <2>4, <2>5 DEF Next
<1> QED  BY <1>1, <1>2, InitInv, NextInv, PTL DEF Spec
=============================================================================
