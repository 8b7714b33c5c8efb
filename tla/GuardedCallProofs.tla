-------------------------- MODULE GuardedCallProofs --------------------------
(***************************************************************************)
(* Guarded calls for any number of callers and any policy that             *)
(* build_policies accepts: their types, that the waits leave room for      *)
(* every attempt, and that they implement CircuitBreaker.                  *)
(***************************************************************************)
EXTENDS GuardedCall, FiniteSetTheorems, TLAPS

\* The type of every variable but the breaker's record and the observers.
CallsTyped ==
    /\ pc \in [Callers -> {"idle", "attempt", "backoff", "done"}]
    /\ kind \in [Callers -> {"read", "write"}]
    /\ attempts \in [Callers -> 0 .. Attempts]
    /\ age \in [Callers -> 0 .. CallTimeout]
    /\ wait \in [Callers -> 0 .. BackoffMax]
    /\ outcome \in [Callers -> {"none", "answer", "error", "timeout", "unavailable"}]

\* A call that is not running has no age, and a wait has an attempt to come.
CallsAtRest ==
    \A c \in Callers :
        /\ c \notin Running => age[c] = 0
        /\ pc[c] = "backoff" => attempts[c] < Attempts

SharedTyped ==
    /\ breaker \in BreakerRecord
    /\ healthy \in BOOLEAN
    /\ exposed \subseteq Running
    /\ worked \subseteq Running
    /\ openFor \in 0 .. OpenBound

Inv == CallsTyped /\ CallsAtRest /\ SharedTyped

\* A new breaker is one, and asking it, reporting to it and time keep it one.
LEMMA BreakerTyped ==
    /\ NewBreaker \in BreakerRecord
    /\ \A b \in BreakerRecord :
          /\ AfterAllow(b) \in BreakerRecord
          /\ RecordSuccess(b) \in BreakerRecord
          /\ RecordFailure(b) \in BreakerRecord
          /\ Aged(b) \in BreakerRecord
<1> USE BreakerAssumption DEF BreakerRecord, BreakerState
<1>1. NewBreaker \in BreakerRecord
  BY DEF NewBreaker
<1>2. ASSUME NEW b \in BreakerRecord
      PROVE  /\ AfterAllow(b) \in BreakerRecord
             /\ RecordSuccess(b) \in BreakerRecord
             /\ RecordFailure(b) \in BreakerRecord
             /\ Aged(b) \in BreakerRecord
  <2>1. AfterAllow(b) \in BreakerRecord
    BY DEF AfterAllow, Admits, Woken, ToHalfOpen
  <2>2. RecordSuccess(b) \in BreakerRecord
    BY DEF RecordSuccess, ToClosed
  <2>3. RecordFailure(b) \in BreakerRecord
    BY DEF RecordFailure, ToOpen
  <2>4. Aged(b) \in BreakerRecord
    BY DEF Aged
  <2> QED  BY <2>1, <2>2, <2>3, <2>4
<1> QED  BY <1>1, <1>2

\* The numbers of an accepted policy.
LEMMA PolicyNumbers ==
    /\ StatementTimeout \in Nat /\ CallTimeout \in Nat \ {0}
    /\ Attempts \in Nat \ {0} /\ BackoffBase \in Nat /\ BackoffMax \in Nat
    /\ OpenBound \in Nat /\ OpenBound >= 0
  BY PolicyAssumption, BreakerAssumption DEF Accepted, OpenBound

\* No kind of call has more attempts than the policy names.
LEMMA LimitBounded ==
    ASSUME NEW k PROVE AttemptLimit(k) \in Nat /\ AttemptLimit(k) <= Attempts
  BY PolicyNumbers DEF AttemptLimit

\* A process starts with no call under way and a closed circuit.
LEMMA InitInv == Init => Inv
  BY BreakerTyped, PolicyNumbers
  DEF Init, Inv, CallsTyped, CallsAtRest, SharedTyped, Running

\* A call that ends leaves nothing behind.
LEMMA EndInv ==
    ASSUME Inv, NEW c \in Callers, c \in Running,
           NEW b \in BreakerRecord,
           NEW result \in {"answer", "error", "timeout", "unavailable"},
           End(c, b, result)
    PROVE  Inv'
<1> USE PolicyNumbers
<1>1. CallsTyped'
  BY DEF End, Inv, CallsTyped
<1>2. Running' = Running \ {c}
  BY DEF End, Inv, CallsTyped, Running
<1>3. CallsAtRest'
  BY <1>2 DEF End, Inv, CallsTyped, CallsAtRest
<1>4. SharedTyped'
  BY <1>2 DEF End, Inv, SharedTyped
<1> QED  BY <1>1, <1>3, <1>4 DEF Inv

\* Every step keeps the invariant.
LEMMA NextInv == Inv /\ [Next]_vars => Inv'
<1> SUFFICES ASSUME Inv, [Next]_vars PROVE Inv'
  OBVIOUS
<1> USE PolicyNumbers
<1>1. ASSUME NEW c \in Callers, NEW k \in {"read", "write"}, Start(c, k) PROVE Inv'
  <2>1. AfterAllow(breaker) \in BreakerRecord
    BY BreakerTyped DEF Inv, SharedTyped
  <2>2. Running' = Running \cup {c}
    BY <1>1 DEF Start, Inv, CallsTyped, Running
  <2>3. CallsTyped'
    BY <1>1 DEF Start, Inv, CallsTyped
  <2>4. CallsAtRest'
    BY <1>1, <2>2 DEF Start, Inv, CallsTyped, CallsAtRest
  <2>5. SharedTyped'
    BY <1>1, <2>1, <2>2 DEF Start, Inv, SharedTyped
  <2> QED  BY <2>3, <2>4, <2>5 DEF Inv
<1>2. ASSUME NEW c \in Callers, FailFast(c) PROVE Inv'
  <2>1. AfterAllow(breaker) \in BreakerRecord
    BY BreakerTyped DEF Inv, SharedTyped
  <2>2. Running' = Running
    BY <1>2 DEF FailFast, Inv, CallsTyped, Running
  <2> QED
    BY <1>2, <2>1, <2>2
    DEF FailFast, call, Inv, CallsTyped, CallsAtRest, SharedTyped
<1>3. ASSUME NEW c \in Callers, Answer(c) \/ Exhausted(c) \/ BudgetSpent(c) PROVE Inv'
  <2>1. c \in Running
    BY <1>3 DEF Answer, Exhausted, BudgetSpent, Running
  <2>2. RecordSuccess(breaker) \in BreakerRecord /\ RecordFailure(breaker) \in BreakerRecord
    BY BreakerTyped DEF Inv, SharedTyped
  <2> QED  BY <1>3, <2>1, <2>2, EndInv DEF Answer, Exhausted, BudgetSpent
<1>4. ASSUME NEW c \in Callers, Retry(c) PROVE Inv'
  <2>1. PICK w \in 0 .. BackoffMax : wait' = [wait EXCEPT ![c] = w]
    BY <1>4 DEF Retry
  <2>2. Running' = Running
    BY <1>4 DEF Retry, Inv, CallsTyped, Running
  <2>3. attempts[c] < Attempts
    BY <1>4, LimitBounded DEF Retry, Inv, CallsTyped
  <2>4. CallsTyped'
    BY <1>4, <2>1 DEF Retry, Inv, CallsTyped
  <2>5. CallsAtRest' /\ SharedTyped'
    BY <1>4, <2>2, <2>3 DEF Retry, Inv, CallsTyped, CallsAtRest, SharedTyped
  <2> QED  BY <2>4, <2>5 DEF Inv
<1>5. ASSUME NEW c \in Callers, NextAttempt(c) PROVE Inv'
  <2>1. Running' = Running
    BY <1>5 DEF NextAttempt, Inv, CallsTyped, Running
  <2>2. CallsTyped'
    BY <1>5 DEF NextAttempt, Inv, CallsTyped, CallsAtRest
  <2>3. CallsAtRest' /\ SharedTyped'
    BY <1>5, <2>1 DEF NextAttempt, Inv, CallsTyped, CallsAtRest, SharedTyped
  <2> QED  BY <2>2, <2>3 DEF Inv
<1>6. ASSUME NEW c \in Callers, Return(c) PROVE Inv'
  <2>1. Running' = Running
    BY <1>6 DEF Return, Inv, CallsTyped, Running
  <2> QED
    BY <1>6, <2>1 DEF Return, Inv, CallsTyped, CallsAtRest, SharedTyped
<1>7. CASE Tick
  <2>1. Aged(breaker) \in BreakerRecord
    BY BreakerTyped DEF Inv, SharedTyped
  <2>2. Running' = Running
    BY <1>7 DEF Tick, Running
  <2>3. CallsTyped'
    BY <1>7 DEF Tick, Inv, CallsTyped
  <2>4. CallsAtRest'
    BY <1>7, <2>2 DEF Tick, Inv, CallsAtRest
  <2>5. SharedTyped'
    BY <1>7, <2>1, <2>2 DEF Tick, Inv, SharedTyped
  <2> QED  BY <2>3, <2>4, <2>5 DEF Inv
<1>8. CASE DependencyDown \/ DependencyUp
  <2>1. Running' = Running
    BY <1>8 DEF DependencyDown, DependencyUp, Running
  <2> QED
    BY <1>8, <2>1
    DEF DependencyDown, DependencyUp, call, Inv, CallsTyped, CallsAtRest, SharedTyped
<1>9. CASE UNCHANGED vars
  BY <1>9 DEF vars, call, Inv, CallsTyped, CallsAtRest, SharedTyped, Running
<1> QED
  BY <1>1, <1>2, <1>3, <1>4, <1>5, <1>6, <1>7, <1>8, <1>9 DEF Next, CallStep

\* Calls and their breaker keep their types: no call makes more attempts, waits
\* longer or lives longer than its policy allows.
THEOREM TypeCorrect == Spec => []TypeOK
<1>1. Inv => TypeOK
  BY DEF Inv, CallsTyped, SharedTyped, TypeOK
<1> QED  BY <1>1, InitInv, NextInv, PTL DEF Spec

-----------------------------------------------------------------------------
\* A set of naturals that has a member has a least one: the intervals 1 .. n
\* are well founded by inclusion.
LEMMA LeastNatural ==
    ASSUME NEW T, T \subseteq Nat, T # {}
    PROVE  \E n \in T : \A m \in T : n <= m
<1> DEFINE Below == {1 .. n : n \in T}
           R == StrictSubsetOrdering(Nat)
<1>1. ASSUME NEW n \in Nat PROVE 1 .. n \in FiniteSubsetsOf(Nat)
  <2>1. IsFiniteSet(1 .. n)
    BY FS_Interval
  <2> QED  BY <2>1 DEF FiniteSubsetsOf
<1>2. Below \subseteq FiniteSubsetsOf(Nat) /\ Below # {}
  BY <1>1
<1>3. \E s \in Below : \A u \in Below : <<u, s>> \notin R
  <2>1. IsWellFoundedOn(R, FiniteSubsetsOf(Nat))
    BY FS_StrictSubsetOrderingWellFounded
  <2> HIDE DEF Below, R
  <2> QED  BY <1>2, <2>1, WFMin, Zenon
<1>4. PICK n \in T : \A u \in Below : <<u, 1 .. n>> \notin R
  BY <1>3
<1>5. ASSUME NEW m \in T PROVE n <= m
  <2>1. m \in Nat /\ n \in Nat /\ <<1 .. m, 1 .. n>> \notin R
    BY <1>4
  <2>2. CASE m < n
    <3>1. 1 .. m \subseteq 1 .. n /\ n \in 1 .. n /\ n \notin 1 .. m
      BY <2>1, <2>2
    <3> QED  BY <2>1, <3>1 DEF StrictSubsetOrdering
  <2> QED  BY <2>1, <2>2
<1> QED  BY <1>5

\* Induction up to N, with the set of the numbers that have the property.
LEMMA IntervalInduction ==
    ASSUME NEW N \in Nat, NEW S, 0 \in S,
           \A n \in 1 .. N : n - 1 \in S => n \in S
    PROVE  0 .. N \subseteq S
<1> DEFINE T == {n \in 0 .. N : n \notin S}
<1> SUFFICES ASSUME T # {} PROVE FALSE
  OBVIOUS
<1>1. PICK n \in T : \A m \in T : n <= m
  <2>1. T \subseteq Nat
    OBVIOUS
  <2> HIDE DEF T
  <2> QED  BY <2>1, LeastNatural
<1>2. n \in 1 .. N /\ n - 1 \in 0 .. N /\ n - 1 < n
  OBVIOUS
<1>3. n - 1 \in S
  BY <1>1, <1>2
<1> QED  BY <1>2, <1>3

\* g obeys the recursion that starts with first and goes on by step.
Obeys(g, N, first, step) ==
    \A n \in 0 .. N : g[n] = IF n = 0 THEN first ELSE step[n][g[n - 1]]

\* A recursion over 0 .. N by a step on the naturals has a solution.
LEMMA RecursionSolvable ==
    ASSUME NEW N \in Nat, NEW first \in Nat, NEW step \in [1 .. N -> [Nat -> Nat]]
    PROVE  \E g \in [0 .. N -> Nat] : Obeys(g, N, first, step)
<1> DEFINE Solves(g, k) ==
              \A n \in 0 .. k : g[n] = IF n = 0 THEN first ELSE step[n][g[n - 1]]
           S == {k \in 0 .. N : \E g \in [0 .. k -> Nat] : Solves(g, k)}
<1>1. 0 \in S
  <2> DEFINE g == [n \in 0 .. 0 |-> first]
  <2>1. g \in [0 .. 0 -> Nat] /\ Solves(g, 0)
    OBVIOUS
  <2>2. 0 \in 0 .. N
    OBVIOUS
  <2> HIDE DEF g, Solves
  <2> QED  BY <2>1, <2>2
<1>2. ASSUME NEW k \in 1 .. N, k - 1 \in S PROVE k \in S
  <2>1. PICK g \in [0 .. k - 1 -> Nat] : Solves(g, k - 1)
    BY <1>2
  <2> DEFINE h == [n \in 0 .. k |-> IF n = k THEN step[k][g[k - 1]] ELSE g[n]]
  <2>2. k \in Nat /\ k - 1 \in 0 .. k - 1 /\ step[k] \in [Nat -> Nat]
    OBVIOUS
  <2>3. h \in [0 .. k -> Nat]
    <3>1. ASSUME NEW n \in 0 .. k, n # k PROVE g[n] \in Nat
      <4>1. n \in 0 .. k - 1
        BY <2>2, <3>1
      <4> QED  BY <4>1
    <3>2. g[k - 1] \in Nat
      BY <2>2
    <3>3. step[k][g[k - 1]] \in Nat
      BY <2>2, <3>2
    <3> QED  BY <3>1, <3>3
  <2>4. ASSUME NEW n \in 0 .. k
        PROVE  h[n] = IF n = 0 THEN first ELSE step[n][h[n - 1]]
    <3>1. CASE n = k
      <4>1. h[n - 1] = g[k - 1] /\ n # 0
        BY <2>2, <3>1
      <4> QED  BY <3>1, <4>1
    <3>2. CASE n # k
      <4>1. n \in 0 .. k - 1 /\ h[n] = g[n]
        BY <2>2, <3>2
      <4>2. n # 0 => n - 1 \in 0 .. k - 1 /\ h[n - 1] = g[n - 1]
        BY <2>2, <4>1
      <4> QED  BY <2>1, <4>1, <4>2
    <3> QED  BY <3>1, <3>2
  <2>5. Solves(h, k)
    <3> HIDE DEF h
    <3> QED  BY <2>4
  <2>6. k \in 0 .. N
    OBVIOUS
  <2> HIDE DEF h, Solves
  <2> QED  BY <2>3, <2>5, <2>6
<1>3. 0 .. N \subseteq S
  <2> HIDE DEF S
  <2> QED  BY <1>1, <1>2, IntervalInduction
<1>4. PICK g \in [0 .. N -> Nat] : Solves(g, N)
  <2>1. N \in S
    <3> HIDE DEF S
    <3> QED  BY <1>3
  <2> HIDE DEF Solves
  <2> QED  BY <2>1
<1> QED  BY <1>4 DEF Obeys

\* BackoffBase times a product is a natural number.
LEMMA CappedType ==
    ASSUME NEW n \in Nat PROVE Capped(BackoffBase * n) \in Nat
<1>1. BackoffBase * n \in Nat
  BY PolicyNumbers
<1> QED  BY <1>1, PolicyNumbers DEF Capped

\* The powers that the waits are computed with are natural numbers.
LEMMA PowersOfTwo == \A n \in 0 .. Attempts : PowerOfTwo[n] \in Nat
<1> DEFINE Doubles(g) == g = [n \in 0 .. Attempts |-> IF n = 0 THEN 1 ELSE 2 * g[n - 1]]
           double == [n \in 1 .. Attempts |-> [v \in Nat |-> 2 * v]]
           S == {n \in 0 .. Attempts : PowerOfTwo[n] \in Nat}
<1> USE PolicyNumbers
<1>1. PICK g \in [0 .. Attempts -> Nat] : Obeys(g, Attempts, 1, double)
  <2>1. double \in [1 .. Attempts -> [Nat -> Nat]]
    OBVIOUS
  <2>2. Attempts \in Nat /\ 0 \in Nat /\ 1 \in Nat
    OBVIOUS
  <2> HIDE DEF double
  <2> QED  BY <2>1, <2>2, RecursionSolvable, Zenon
<1>2. Doubles(g)
  <2>1. ASSUME NEW n \in 0 .. Attempts
        PROVE  g[n] = IF n = 0 THEN 1 ELSE 2 * g[n - 1]
    <3>1. n # 0 => n \in 1 .. Attempts /\ n - 1 \in 0 .. Attempts
      OBVIOUS
    <3> QED  BY <1>1, <3>1 DEF Obeys
  <2> QED  BY <2>1
<1>3. Doubles(PowerOfTwo)
  BY <1>2, Zenon DEF PowerOfTwo
<1>4. 0 \in S
  BY <1>3
<1>5. ASSUME NEW n \in 1 .. Attempts, n - 1 \in S PROVE n \in S
  <2>1. n \in 0 .. Attempts /\ n # 0 /\ PowerOfTwo[n - 1] \in Nat
    BY <1>5
  <2>2. PowerOfTwo[n] = 2 * PowerOfTwo[n - 1]
    BY <1>3, <2>1
  <2> QED  BY <2>1, <2>2
<1>6. 0 .. Attempts \subseteq S
  <2> HIDE DEF S
  <2> QED  BY <1>4, <1>5, IntervalInduction
<1> QED  BY <1>6

\* The sum that worst_case_backoff_seconds takes adds the bound of every wait.
LEMMA WaitsAddUp ==
    /\ \A n \in 0 .. Attempts : WaitsUpTo[n] \in Nat
    /\ WaitsUpTo[0] = 0
    /\ \A n \in 1 .. Attempts :
          Backoff(n) \in Nat /\ WaitsUpTo[n] = WaitsUpTo[n - 1] + Backoff(n)
<1> DEFINE Bound(n) == Capped(BackoffBase * PowerOfTwo[n - 1])
           Adds(g) == g = [n \in 0 .. Attempts |->
                             IF n = 0 THEN 0 ELSE g[n - 1] + Bound(n)]
           add == [n \in 1 .. Attempts |-> [v \in Nat |-> v + Bound(n)]]
           S == {n \in 0 .. Attempts : WaitsUpTo[n] \in Nat}
<1> USE PolicyNumbers
<1>1. ASSUME NEW n \in 1 .. Attempts PROVE Bound(n) \in Nat
  <2>1. PowerOfTwo[n - 1] \in Nat
    BY PowersOfTwo
  <2> QED  BY <2>1, CappedType
<1> HIDE DEF Bound
<1>2. PICK g \in [0 .. Attempts -> Nat] : Obeys(g, Attempts, 0, add)
  <2>1. add \in [1 .. Attempts -> [Nat -> Nat]]
    BY <1>1
  <2>2. Attempts \in Nat /\ 0 \in Nat /\ 1 \in Nat
    OBVIOUS
  <2> HIDE DEF add
  <2> QED  BY <2>1, <2>2, RecursionSolvable, Zenon
<1>3. Adds(g)
  <2>1. ASSUME NEW n \in 0 .. Attempts
        PROVE  g[n] = IF n = 0 THEN 0 ELSE g[n - 1] + Bound(n)
    <3>1. n # 0 => n \in 1 .. Attempts /\ n - 1 \in 0 .. Attempts
      OBVIOUS
    <3> QED  BY <1>2, <3>1 DEF Obeys
  <2> QED  BY <2>1
<1>4. Adds(WaitsUpTo)
  BY <1>3, Zenon DEF WaitsUpTo, Bound
<1>5. 0 \in S
  BY <1>4
<1>6. ASSUME NEW n \in 1 .. Attempts
      PROVE  WaitsUpTo[n] = WaitsUpTo[n - 1] + Bound(n)
  <2>1. n \in 0 .. Attempts /\ n # 0
    OBVIOUS
  <2> QED  BY <1>4, <2>1
<1>7. ASSUME NEW n \in 1 .. Attempts, n - 1 \in S PROVE n \in S
  BY <1>1, <1>6, <1>7
<1>8. 0 .. Attempts \subseteq S
  <2> HIDE DEF S
  <2> QED  BY <1>5, <1>7, IntervalInduction
<1>9. WaitsUpTo[0] = 0
  BY <1>4
<1> QED  BY <1>1, <1>6, <1>8, <1>9 DEF Bound, Backoff

\* No prefix of the waits exceeds their sum, which an accepted policy keeps
\* below the budget.
LEMMA WaitsBelowBudget ==
    \A n \in 0 .. Attempts - 1 : WaitsUpTo[n] < CallTimeout
<1> DEFINE last == Attempts - 1
           S == {j \in 0 .. last : WaitsUpTo[last - j] <= WaitsUpTo[last]}
<1> USE PolicyNumbers
<1>1. last \in Nat /\ last <= Attempts
  OBVIOUS
<1>2. 0 \in S
  BY <1>1, WaitsAddUp
<1>3. ASSUME NEW j \in 1 .. last, j - 1 \in S PROVE j \in S
  <2>1. /\ last - (j - 1) \in 1 .. Attempts
        /\ (last - (j - 1)) - 1 = last - j
        /\ last - j \in 0 .. Attempts /\ last \in 0 .. Attempts
    BY <1>1
  <2>2. /\ Backoff(last - (j - 1)) \in Nat
        /\ WaitsUpTo[last - (j - 1)] = WaitsUpTo[last - j] + Backoff(last - (j - 1))
    BY <2>1, WaitsAddUp
  <2>3. WaitsUpTo[last - (j - 1)] <= WaitsUpTo[last]
    BY <1>3
  <2>4. WaitsUpTo[last - j] \in Nat /\ WaitsUpTo[last] \in Nat
    BY <2>1, WaitsAddUp
  <2>5. WaitsUpTo[last - j] <= WaitsUpTo[last]
    <3> HIDE DEF last
    <3> QED  BY <2>2, <2>3, <2>4
  <2> QED  BY <2>5
<1>4. 0 .. last \subseteq S
  <2> HIDE DEF S, last
  <2> QED  BY <1>1, <1>2, <1>3, IntervalInduction
<1>5. ASSUME NEW n \in 0 .. last PROVE WaitsUpTo[n] <= WaitsUpTo[last]
  <2>1. last - n \in S
    <3> HIDE DEF S
    <3> QED  BY <1>1, <1>4
  <2>2. last - (last - n) = n
    BY <1>1
  <2> QED  BY <2>1, <2>2
<1>6. WaitsUpTo[last] < CallTimeout /\ WaitsUpTo[last] \in Nat
  BY <1>1, WaitsAddUp, PolicyAssumption DEF Accepted, WorstCaseBackoff
<1>7. ASSUME NEW n \in 0 .. last PROVE WaitsUpTo[n] < CallTimeout
  <2>1. WaitsUpTo[n] \in Nat
    BY <1>1, WaitsAddUp
  <2>2. WaitsUpTo[n] <= WaitsUpTo[last]
    BY <1>5
  <2> HIDE DEF last
  <2> QED  BY <1>6, <2>1, <2>2
<1> QED  BY <1>7

\* A call that has not spent a tick in an attempt is no older than the waits
\* behind it, and the one it is in, can add up to.
WaitsFit ==
    \A c \in Running \ worked :
        /\ attempts[c] > 0
        /\ pc[c] = "attempt" => age[c] <= WaitsUpTo[attempts[c] - 1]
        /\ pc[c] = "backoff" => age[c] + wait[c] <= WaitsUpTo[attempts[c]]

\* What a step leaves alone of a call keeps its part of WaitsFit.
LEMMA WaitsFitOthers ==
    ASSUME WaitsFit, NEW c,
           /\ Running' \ {c} \subseteq Running /\ worked \ {c} \subseteq worked'
           /\ \A d \in Callers \ {c} :
                 /\ pc'[d] = pc[d] /\ attempts'[d] = attempts[d]
                 /\ age'[d] = age[d] /\ wait'[d] = wait[d]
    PROVE  \A d \in (Running' \ worked') \ {c} :
              /\ attempts'[d] > 0
              /\ pc'[d] = "attempt" => age'[d] <= WaitsUpTo[attempts'[d] - 1]
              /\ pc'[d] = "backoff" => age'[d] + wait'[d] <= WaitsUpTo[attempts'[d]]
<1> SUFFICES ASSUME NEW d \in (Running' \ worked') \ {c}
             PROVE  /\ attempts'[d] > 0
                    /\ pc'[d] = "attempt" => age'[d] <= WaitsUpTo[attempts'[d] - 1]
                    /\ pc'[d] = "backoff" => age'[d] + wait'[d] <= WaitsUpTo[attempts'[d]]
  OBVIOUS
<1>1. d \in Running \ worked /\ d \in Callers \ {c}
  BY DEF Running
<1> QED  BY <1>1 DEF WaitsFit

\* Every step keeps it: a wait that begins fits below the bound of its place
\* in the sum, and the tick that ages a waiting call shortens its wait.
LEMMA WaitsFitNext == Inv /\ WaitsFit /\ [Next]_vars => WaitsFit'
<1> SUFFICES ASSUME Inv, WaitsFit, [Next]_vars PROVE WaitsFit'
  OBVIOUS
<1> USE PolicyNumbers
<1>1. ASSUME NEW c \in Callers, NEW k \in {"read", "write"}, Start(c, k) PROVE WaitsFit'
  <2>1. /\ pc' = [pc EXCEPT ![c] = "attempt"] /\ attempts' = [attempts EXCEPT ![c] = 1]
        /\ age' = age /\ wait' = wait /\ worked' = worked /\ age[c] = 0
    BY <1>1 DEF Start, Inv, CallsAtRest, Running
  <2>2. Running' \ {c} \subseteq Running
    BY <2>1 DEF Running, Inv, CallsTyped
  <2>3. pc'[c] = "attempt" /\ attempts'[c] = 1 /\ age'[c] = 0
    BY <2>1 DEF Inv, CallsTyped
  <2>4. age'[c] <= WaitsUpTo[attempts'[c] - 1]
    BY <2>3, WaitsAddUp
  <2> QED  BY <2>1, <2>2, <2>3, <2>4, WaitsFitOthers DEF WaitsFit, Inv, CallsTyped
<1>2. ASSUME NEW c \in Callers, FailFast(c) \/ Return(c) PROVE WaitsFit'
  <2>1. /\ attempts' = attempts /\ age' = age /\ wait' = wait /\ worked' = worked
        /\ Running' = Running
        /\ \A d \in Running : pc'[d] = pc[d]
    BY <1>2 DEF FailFast, Return, call, Inv, CallsTyped, Running
  <2> QED  BY <2>1 DEF WaitsFit
<1>3. ASSUME NEW c \in Callers, NEW b, NEW result, End(c, b, result) PROVE WaitsFit'
  <2>1. Running' = Running \ {c}
    BY <1>3 DEF End, Inv, CallsTyped, Running
  <2> QED  BY <1>3, <2>1, WaitsFitOthers DEF End, WaitsFit, Inv, CallsTyped
<1>4. ASSUME NEW c \in Callers, Retry(c) PROVE WaitsFit'
  <2>1. PICK w \in 0 .. BackoffMax :
           w <= Backoff(attempts[c]) /\ wait' = [wait EXCEPT ![c] = w]
    BY <1>4 DEF Retry
  <2>2. /\ pc' = [pc EXCEPT ![c] = "backoff"]
        /\ attempts' = attempts /\ age' = age /\ worked' = worked
        /\ Running' = Running /\ c \in Running
    BY <1>4 DEF Retry, Inv, CallsTyped, Running
  <2>3. ASSUME c \notin worked
        PROVE  attempts[c] > 0 /\ age[c] + w <= WaitsUpTo[attempts[c]]
    <3>1. attempts[c] > 0 /\ age[c] <= WaitsUpTo[attempts[c] - 1]
      BY <1>4, <2>2, <2>3 DEF Retry, WaitsFit
    <3>2. attempts[c] \in 1 .. Attempts /\ age[c] \in Nat
      BY <3>1, <2>2 DEF Inv, CallsTyped, Running
    <3>3. /\ WaitsUpTo[attempts[c]] = WaitsUpTo[attempts[c] - 1] + Backoff(attempts[c])
          /\ WaitsUpTo[attempts[c] - 1] \in Nat /\ Backoff(attempts[c]) \in Nat
      BY <3>2, WaitsAddUp
    <3> QED  BY <2>1, <3>1, <3>2, <3>3
  <2>4. pc'[c] = "backoff" /\ wait'[c] = w
    BY <2>1, <2>2 DEF Inv, CallsTyped, Running
  <2>5. ASSUME NEW d \in Callers \ {c} PROVE pc'[d] = pc[d] /\ wait'[d] = wait[d]
    BY <2>1, <2>2 DEF Inv, CallsTyped
  <2> QED  BY <2>2, <2>3, <2>4, <2>5, WaitsFitOthers DEF WaitsFit
<1>5. ASSUME NEW c \in Callers, NextAttempt(c) PROVE WaitsFit'
  <2>1. /\ pc' = [pc EXCEPT ![c] = "attempt"]
        /\ attempts' = [attempts EXCEPT ![c] = attempts[c] + 1]
        /\ age' = age /\ wait' = wait /\ worked' = worked
        /\ Running' = Running /\ c \in Running
    BY <1>5 DEF NextAttempt, Inv, CallsTyped, Running
  <2>2. ASSUME c \notin worked
        PROVE  attempts[c] + 1 > 0 /\ age[c] <= WaitsUpTo[(attempts[c] + 1) - 1]
    <3>1. attempts[c] > 0 /\ age[c] + wait[c] <= WaitsUpTo[attempts[c]] /\ wait[c] = 0
      BY <1>5, <2>1, <2>2 DEF NextAttempt, WaitsFit
    <3>2. attempts[c] \in Nat /\ age[c] \in Nat
      BY <2>1 DEF Inv, CallsTyped, Running
    <3> QED  BY <3>1, <3>2
  <2>3. pc'[c] = "attempt" /\ attempts'[c] = attempts[c] + 1
    BY <2>1 DEF Inv, CallsTyped, Running
  <2>4. ASSUME NEW d \in Callers \ {c} PROVE pc'[d] = pc[d] /\ attempts'[d] = attempts[d]
    BY <2>1 DEF Inv, CallsTyped
  <2> QED  BY <2>1, <2>2, <2>3, <2>4, WaitsFitOthers DEF WaitsFit
<1>6. CASE Tick
  <2>1. /\ pc' = pc /\ attempts' = attempts /\ Running' = Running
        /\ worked' = worked \cup {c \in Running : pc[c] = "attempt"}
    BY <1>6 DEF Tick, Running
  <2>2. ASSUME NEW d \in Running' \ worked'
        PROVE  /\ attempts'[d] > 0
               /\ pc'[d] = "attempt" => age'[d] <= WaitsUpTo[attempts'[d] - 1]
               /\ pc'[d] = "backoff" => age'[d] + wait'[d] <= WaitsUpTo[attempts'[d]]
    <3>1. d \in Running \ worked /\ d \in Callers /\ pc[d] = "backoff"
      BY <2>1 DEF Running
    <3>2. attempts[d] > 0 /\ age[d] + wait[d] <= WaitsUpTo[attempts[d]]
      BY <3>1 DEF WaitsFit
    <3>3. wait[d] > 0 /\ age'[d] = age[d] + 1 /\ wait'[d] = wait[d] - 1
      BY <1>6, <3>1 DEF Tick
    <3>4. age[d] \in Nat /\ wait[d] \in Nat /\ (age[d] + 1) + (wait[d] - 1) = age[d] + wait[d]
      BY <3>1 DEF Inv, CallsTyped
    <3> QED  BY <2>1, <3>1, <3>2, <3>3, <3>4
  <2> QED  BY <2>2 DEF WaitsFit
<1>7. CASE DependencyDown \/ DependencyUp \/ UNCHANGED vars
  <2>1. pc' = pc /\ attempts' = attempts /\ age' = age /\ wait' = wait /\ worked' = worked
    BY <1>7 DEF DependencyDown, DependencyUp, call, vars
  <2> QED  BY <2>1 DEF WaitsFit, Running
<1> QED
  BY <1>1, <1>2, <1>3, <1>4, <1>5, <1>6, <1>7
  DEF Next, CallStep, Answer, Exhausted, BudgetSpent

\* A policy that build_policies accepts leaves room for every attempt: the
\* budget never runs out in a wait between attempts that failed at once.
THEOREM AttemptsFit == Spec => []EveryAttemptFits
<1>1. Init => WaitsFit
  BY DEF Init, WaitsFit, Running
<1>2. Inv /\ WaitsFit => EveryAttemptFits
  <2> SUFFICES ASSUME Inv, WaitsFit, NEW c \in Callers,
                      pc[c] = "backoff", age[c] = CallTimeout, c \notin worked
               PROVE  FALSE
    BY DEF EveryAttemptFits
  <2>1. c \in Running \ worked
    BY DEF Running
  <2>2. attempts[c] > 0 /\ age[c] + wait[c] <= WaitsUpTo[attempts[c]]
    BY <2>1 DEF WaitsFit
  <2>3. /\ attempts[c] \in 0 .. Attempts - 1
        /\ age[c] \in Nat /\ wait[c] \in Nat
    BY PolicyNumbers DEF Inv, CallsTyped, CallsAtRest
  <2>4. WaitsUpTo[attempts[c]] < CallTimeout /\ WaitsUpTo[attempts[c]] \in Nat
    BY <2>3, WaitsBelowBudget, WaitsAddUp, PolicyNumbers
  <2> QED  BY <2>2, <2>3, <2>4, PolicyNumbers
<1> QED  BY <1>1, <1>2, InitInv, NextInv, WaitsFitNext, PTL DEF Spec

-----------------------------------------------------------------------------
\* CircuitBreaker's operators on a breaker are the ones used here.
LEMMA SameBreaker ==
    /\ CB!NewBreaker = NewBreaker
    /\ \A b : /\ CB!Admits(b) = Admits(b) /\ CB!AfterAllow(b) = AfterAllow(b)
              /\ CB!RecordSuccess(b) = RecordSuccess(b)
              /\ CB!RecordFailure(b) = RecordFailure(b)
              /\ CB!Aged(b) = Aged(b)
  BY DEF CB!NewBreaker, NewBreaker, CB!Admits, Admits, CB!AfterAllow, AfterAllow,
         CB!RecordSuccess, RecordSuccess, CB!RecordFailure, RecordFailure,
         CB!Aged, Aged, CB!Woken, Woken, CB!ToHalfOpen, ToHalfOpen,
         CB!ToClosed, ToClosed, CB!ToOpen, ToOpen

\* A call's end is its one report.
LEMMA EndReports ==
    ASSUME Inv, NEW c \in Callers, c \in Running, NEW b, NEW result, End(c, b, result)
    PROVE  CB!Report(c, b)
<1>1. Running' = Running \ {c}
  BY DEF End, Inv, CallsTyped, Running
<1> QED  BY <1>1 DEF End, CB!Report

\* Every step of a guarded call is one of CircuitBreaker, or none: attempts,
\* waits and retries in between are not seen.
LEMMA NextImplements == Inv /\ [Next]_vars => [CB!Next]_(CB!vars)
<1> SUFFICES ASSUME Inv, [Next]_vars PROVE CB!Next \/ UNCHANGED CB!vars
  OBVIOUS
<1>1. ASSUME NEW c \in Callers, NEW k \in {"read", "write"}, Start(c, k)
      PROVE  CB!Admit(c)
  <2>1. c \notin Running /\ Running' = Running \cup {c}
    BY <1>1 DEF Start, Inv, CallsTyped, Running
  <2>2. age' = [age EXCEPT ![c] = 0]
    BY <1>1, <2>1 DEF Start, Inv, CallsTyped, CallsAtRest
  <2> QED  BY <1>1, <2>1, <2>2, SameBreaker DEF Start, CB!Admit
<1>2. ASSUME NEW c \in Callers, FailFast(c) PROVE CB!Refuse(c)
  <2>1. c \notin Running /\ Running' = Running
    BY <1>2 DEF FailFast, Inv, CallsTyped, Running
  <2> QED  BY <1>2, <2>1, SameBreaker DEF FailFast, call, CB!Refuse
<1>3. ASSUME NEW c \in Callers, Answer(c) PROVE CB!Succeed(c)
  <2>1. c \in Running
    BY <1>3 DEF Answer, Running
  <2> QED  BY <1>3, <2>1, EndReports, SameBreaker DEF Answer, CB!Succeed
<1>4. ASSUME NEW c \in Callers, Exhausted(c) \/ BudgetSpent(c) PROVE CB!Fail(c)
  <2>1. c \in Running /\ c \in exposed
    BY <1>4 DEF Exhausted, BudgetSpent, Running
  <2> QED  BY <1>4, <2>1, EndReports, SameBreaker DEF Exhausted, BudgetSpent, CB!Fail
<1>5. ASSUME NEW c \in Callers, Retry(c) \/ NextAttempt(c) \/ Return(c)
      PROVE  UNCHANGED CB!vars
  <2>1. Running' = Running
    BY <1>5 DEF Retry, NextAttempt, Return, Inv, CallsTyped, Running
  <2> QED  BY <1>5, <2>1 DEF Retry, NextAttempt, Return, CB!vars
<1>6. CASE Tick
  <2>1. Running' = Running
    BY <1>6 DEF Tick, Running
  <2> QED  BY <1>6, <2>1, SameBreaker DEF Tick, CB!Next, CB!Tick, OpenBound, CB!OpenBound
<1>7. CASE DependencyDown \/ DependencyUp
  <2>1. Running' = Running
    BY <1>7 DEF DependencyDown, DependencyUp, Running
  <2> QED
    BY <1>7, <2>1
    DEF DependencyDown, DependencyUp, call, CB!Next, CB!DependencyDown, CB!DependencyUp
<1>8. CASE UNCHANGED vars
  BY <1>8 DEF vars, call, CB!vars, Running
<1> QED
  BY <1>1, <1>2, <1>3, <1>4, <1>5, <1>6, <1>7, <1>8 DEF Next, CallStep, CB!Next

\* Guarded calls implement CircuitBreaker: the breaker sees one admission and
\* one report of every call, whatever happens within it.
THEOREM Refinement == Spec => ImplementsBreaker
<1>1. Init => CB!Init
  BY SameBreaker DEF Init, CB!Init, Running
<1> QED  BY <1>1, InitInv, NextInv, NextImplements, PTL DEF Spec, ImplementsBreaker, CB!Spec

=============================================================================
