------------------------ MODULE ConnectionPoolProofs ------------------------
(***************************************************************************)
(* The connection pool for any number of requests and probes, any size,    *)
(* any overflow and any number of attempts.                                *)
(***************************************************************************)
EXTENDS ConnectionPool, FiniteSetTheorems, TLAPS

\* The pool's counters, its holders and the owner of the row lock.
PoolOK ==
    /\ idle \in 0 .. PoolSize
    /\ overflow \in -PoolSize .. MaxOverflow
    /\ holders \subseteq Actors
    /\ rowLock \in Requests \cup {NoOne}
    /\ PoolSize - idle + overflow = Cardinality(holders)

\* Where an actor must hold a connection, and where else it may.
Holding == {"connecting", "statement", "undo", "cache", "commit", "rollback"}

\* An actor's place tells whether it holds a connection, except between two
\* attempts; the owner of the row lock holds one that is connected.
InPlace ==
    /\ pc \in [Actors -> Phase]
    /\ \A a \in Actors : pc[a] \in Holding => a \in holders
    /\ \A a \in holders : pc[a] \in Holding \cup {"backoff"}
    /\ rowLock # NoOne => rowLock \in holders /\ pc[rowLock] # "connecting"

\* A read makes one guarded call, and a wait has an attempt to come.
WorkOK ==
    /\ kind \in [Requests -> {"read", "write"}]
    /\ call \in [Requests -> 1 .. 3]
    /\ attempts \in [Requests -> 1 .. Attempts]
    /\ \A r \in Requests : kind[r] = "read" => call[r] = 1
    /\ \A r \in Requests : pc[r] = "backoff" => attempts[r] < Attempts

HealthOK ==
    /\ mysqlUp \in BOOLEAN
    /\ mysqlCheck \in [Probes -> {"none", "ok", "error"}]
    /\ verdict \in [Probes -> {"none", "ready", "degraded", "unready"}]
    /\ suspect \subseteq Probes

Inv == PoolOK /\ InPlace /\ WorkOK /\ HealthOK

\* A process starts with an empty pool.
LEMMA InitInv == Init => Inv
<1> SUFFICES ASSUME Init PROVE Inv
  OBVIOUS
<1> USE PoolAssumption DEF Init
<1>1. PoolOK
  BY FS_EmptySet DEF PoolOK
<1>2. InPlace
  BY DEF InPlace, Phase, Guarded, Holding
<1>3. WorkOK /\ HealthOK
  BY DEF WorkOK, HealthOK, Actors
<1> QED  BY <1>1, <1>2, <1>3 DEF Inv

\* The holders are finitely many.
LEMMA HoldersFinite ==
    ASSUME Inv PROVE IsFiniteSet(holders) /\ Cardinality(holders) \in Nat
  BY PoolAssumption, FS_Subset, FS_CardinalityType DEF Inv, PoolOK

\* A new holder adds one to their number.
LEMMA OneMore ==
    ASSUME Inv, NEW a \in Actors, a \notin holders
    PROVE  Cardinality(holders \cup {a}) = Cardinality(holders) + 1
  BY HoldersFinite, FS_AddElement

\* One that gives its connection up takes one from their number.
LEMMA OneLess ==
    ASSUME Inv, NEW a \in holders
    PROVE  Cardinality(holders \ {a}) = Cardinality(holders) - 1
  BY HoldersFinite, FS_RemoveElement

\* At least one connection is out while somebody holds one.
LEMMA SomeOut ==
    ASSUME Inv, NEW a \in holders PROVE Cardinality(holders) >= 1
<1>1. Cardinality(holders \ {a}) \in Nat
  BY HoldersFinite, FS_RemoveElement, FS_CardinalityType
<1> QED  BY <1>1, OneLess, HoldersFinite

\* Giving a connection back keeps the count, and frees the row of a's
\* transaction and no other.
LEMMA GiveBackCounts ==
    ASSUME Inv, NEW a \in Actors, a \in holders, GiveBack(a)
    PROVE  /\ PoolOK' /\ holders' = holders \ {a}
           /\ rowLock' # NoOne => rowLock' = rowLock /\ rowLock # a
<1>1. Cardinality(holders') = Cardinality(holders) - 1 /\ Cardinality(holders) >= 1
  BY OneLess, SomeOut DEF GiveBack
<1>2. idle' \in 0 .. PoolSize /\ overflow' \in -PoolSize .. MaxOverflow
  <2>1. CASE idle < PoolSize
    BY <2>1, PoolAssumption DEF GiveBack, Inv, PoolOK
  <2>2. CASE ~ idle < PoolSize
    <3>1. idle = PoolSize /\ overflow = Cardinality(holders)
      BY <2>2, PoolAssumption DEF Inv, PoolOK
    <3> QED  BY <2>2, <3>1, <1>1, PoolAssumption DEF GiveBack, Inv, PoolOK
  <2> QED  BY <2>1, <2>2
<1>3. PoolSize - idle' + overflow' = Cardinality(holders')
  BY <1>1, HoldersFinite, PoolAssumption DEF GiveBack, Inv, PoolOK
<1>4. holders' \subseteq Actors /\ rowLock' \in Requests \cup {NoOne}
  BY DEF GiveBack, Inv, PoolOK
<1> QED  BY <1>2, <1>3, <1>4 DEF GiveBack, PoolOK

\* So does giving up a connection that was being made.
LEMMA DiscardCounts ==
    ASSUME Inv, NEW a \in Actors, a \in holders, Discard(a)
    PROVE  PoolOK' /\ holders' = holders \ {a} /\ rowLock' = rowLock
<1>1. Cardinality(holders') = Cardinality(holders) - 1 /\ Cardinality(holders) >= 1
  BY OneLess, SomeOut DEF Discard
<1>2. idle' = idle /\ overflow' \in -PoolSize .. MaxOverflow
  BY <1>1, HoldersFinite, PoolAssumption DEF Discard, Inv, PoolOK
<1>3. PoolSize - idle' + overflow' = Cardinality(holders')
  BY <1>1, HoldersFinite, PoolAssumption DEF Discard, Inv, PoolOK
<1> QED  BY <1>2, <1>3 DEF Discard, Inv, PoolOK

\* Whatever an actor holds, letting go of it keeps the count.
LEMMA LetGoCounts ==
    ASSUME Inv, NEW a \in Actors, LetGo(a)
    PROVE  /\ PoolOK' /\ holders' = holders \ {a}
           /\ rowLock' # NoOne => rowLock' = rowLock /\ rowLock # a
<1>1. CASE a \notin holders
  BY <1>1 DEF LetGo, KeepAll, pool, Inv, PoolOK, InPlace
<1>2. CASE a \in holders /\ pc[a] = "connecting"
  BY <1>2, DiscardCounts DEF LetGo, Inv, InPlace
<1>3. CASE a \in holders /\ pc[a] # "connecting"
  BY <1>3, GiveBackCounts DEF LetGo
<1> QED  BY <1>1, <1>2, <1>3

\* A step that leaves the pool alone keeps what is true of it.
LEMMA KeepAllCounts == ASSUME Inv, KeepAll PROVE PoolOK' /\ holders' = holders
  BY DEF KeepAll, pool, Inv, PoolOK

\* An actor that goes where what it holds belongs is in its place, and so are
\* the others, whose connections and row lock the step left alone.
LEMMA Moves ==
    ASSUME Inv, NEW a \in Actors, NEW phase \in Phase, Go(a, phase),
           holders' \subseteq Actors, holders' \ {a} = holders \ {a},
           phase \in Holding => a \in holders',
           a \in holders' => phase \in Holding \cup {"backoff"},
           rowLock' # NoOne =>
              \/ rowLock' = rowLock /\ rowLock # a
              \/ rowLock' = a /\ a \in holders' /\ phase # "connecting"
    PROVE  InPlace'
<1>1. pc' \in [Actors -> Phase] /\ pc'[a] = phase
      /\ \A b \in Actors : b # a => pc'[b] = pc[b]
  BY DEF Go, Inv, InPlace
<1>2. \A b \in Actors : pc'[b] \in Holding => b \in holders'
  BY <1>1 DEF Inv, InPlace
<1>3. \A b \in holders' : pc'[b] \in Holding \cup {"backoff"}
  BY <1>1 DEF Inv, InPlace
<1>4. rowLock' # NoOne => rowLock' \in holders' /\ pc'[rowLock'] # "connecting"
  BY <1>1 DEF Inv, InPlace, PoolOK
<1> QED  BY <1>1, <1>2, <1>3, <1>4 DEF InPlace

\* A step of one actor that touches no call and enters no wait keeps WorkOK.
LEMMA WorkKept ==
    ASSUME Inv, NEW a \in Actors, NEW phase \in Phase, Go(a, phase),
           UNCHANGED work, phase # "backoff"
    PROVE  WorkOK'
  BY DEF Go, work, Inv, InPlace, WorkOK, Actors

-----------------------------------------------------------------------------
\* Going for a connection, getting one, giving up the wait for one.
LEMMA PoolSteps ==
    ASSUME Inv, NEW a \in Actors,
           Start(a) \/ Reuse(a) \/ Create(a) \/ Queue(a) \/ Connected(a)
    PROVE  Inv'
<1> USE DEF Phase, Guarded, Holding
<1>1. CASE Start(a) \/ Queue(a) \/ Connected(a)
  <2>1. PICK phase \in {"checkout", "waiting", "statement"} :
           /\ Go(a, phase)
           /\ phase = "statement" <=> pc[a] = "connecting"
           /\ pc[a] \in {"ready", "checkout", "connecting"}
    BY <1>1 DEF Start, Queue, Connected
  <2>2. UNCHANGED <<pool, work, rowLock, mysqlUp, mysqlCheck, verdict>>
    BY <1>1 DEF Start, Queue, Connected, health
  <2>3. PoolOK' /\ holders' = holders
    BY <2>2, KeepAllCounts DEF KeepAll
  <2>4. InPlace'
    BY <2>1, <2>2, <2>3, Moves DEF Inv, InPlace, PoolOK
  <2>5. suspect' \subseteq Probes
    BY <1>1 DEF Start, Queue, Connected, Suspect, health, Inv, HealthOK
  <2>6. WorkOK' /\ HealthOK'
    BY <2>1, <2>2, <2>5, WorkKept DEF HealthOK, Inv
  <2> QED  BY <2>3, <2>4, <2>6 DEF Inv
<1>2. CASE Reuse(a) \/ Create(a)
  <2>1. PICK phase \in {"statement", "connecting"} : Go(a, phase)
    BY <1>2 DEF Reuse, Create
  <2>2. a \notin holders /\ holders' = holders \cup {a}
    BY <1>2 DEF Reuse, Create, Inv, InPlace
  <2>3. Cardinality(holders') = Cardinality(holders) + 1
    BY <2>2, OneMore
  <2>4. PoolOK'
    <3>1. idle' \in 0 .. PoolSize /\ overflow' \in -PoolSize .. MaxOverflow
      BY <1>2, PoolAssumption DEF Reuse, Create, Inv, PoolOK
    <3>2. PoolSize - idle' + overflow' = Cardinality(holders')
      BY <1>2, <2>3, HoldersFinite, PoolAssumption DEF Reuse, Create, Inv, PoolOK
    <3> QED  BY <1>2, <2>2, <3>1, <3>2 DEF Reuse, Create, Inv, PoolOK
  <2>5. InPlace'
    <3>1. rowLock' = rowLock /\ (rowLock # NoOne => rowLock # a)
      BY <1>2, <2>2 DEF Reuse, Create, Inv, InPlace
    <3> QED  BY <2>1, <2>2, <2>4, <3>1, Moves DEF PoolOK
  <2>6. WorkOK' /\ HealthOK'
    BY <1>2, <2>1, WorkKept DEF Reuse, Create, health, Inv, HealthOK
  <2> QED  BY <2>4, <2>5, <2>6 DEF Inv
<1> QED  BY <1>1, <1>2

\* What MySQL answers a request, and where the request goes from there.
LEMMA AnswerSteps ==
    ASSUME Inv, NEW r \in Requests,
           LoadAnswers(r) \/ CasAnswers(r) \/ ReadBackAnswers(r)
    PROVE  Inv'
<1> USE DEF Phase, Guarded, Holding
<1>1. r \in Actors /\ r \in holders /\ pc[r] = "statement"
  BY DEF LoadAnswers, CasAnswers, ReadBackAnswers, Inv, InPlace, Actors
<1>2. UNCHANGED <<pool, health, mysqlUp>>
  BY DEF LoadAnswers, CasAnswers, ReadBackAnswers
<1>3. rowLock' = rowLock \/ (rowLock' = r /\ rowLock = NoOne)
  BY DEF LoadAnswers, CasAnswers, ReadBackAnswers
<1>4. PoolOK' /\ HealthOK' /\ holders' = holders
  BY <1>2, <1>3 DEF pool, health, Inv, PoolOK, HealthOK
<1>5. CASE NextCall(r)
  <2>1. kind[r] = "write" /\ call[r] < 3
    BY <1>5, PoolAssumption
    DEF LoadAnswers, CasAnswers, ReadBackAnswers, NextCall, Teardown, Go, work,
        Calling, Plan, Inv, WorkOK
  <2>2. WorkOK'
    BY <1>5, <2>1, PoolAssumption DEF NextCall, Inv, WorkOK
  <2>3. InPlace'
    BY <1>1, <1>3, <1>4, <1>5 DEF NextCall, Inv, InPlace
  <2> QED  BY <1>4, <2>2, <2>3 DEF Inv
<1>6. CASE \E phase \in {"cache", "commit", "rollback"} : Teardown(r, phase)
  <2>1. PICK phase \in {"cache", "commit", "rollback"} : Teardown(r, phase)
    BY <1>6
  <2>2. InPlace'
    BY <1>1, <1>3, <1>4, <2>1, Moves DEF Teardown, PoolOK
  <2>3. WorkOK'
    BY <1>1, <2>1, WorkKept DEF Teardown
  <2> QED  BY <1>4, <2>2, <2>3 DEF Inv
<1> QED  BY <1>5, <1>6 DEF LoadAnswers, CasAnswers, ReadBackAnswers

\* An attempt fails: the connection stays or is let go, and a wait that begins
\* has an attempt to come.
LEMMA FailSteps ==
    ASSUME Inv, NEW r \in Requests, ConnectionLost(r) \/ StatementFails(r)
    PROVE  Inv'
<1> USE DEF Phase, Guarded, Holding
<1>1. r \in Actors /\ r \in holders
  BY DEF ConnectionLost, StatementFails, Inv, InPlace, Actors
<1>2. PICK phase \in {"backoff", "rollback", "done"} :
         /\ Go(r, phase)
         /\ phase = "backoff" => attempts[r] < AttemptLimit(r)
         /\ phase = "rollback" => StatementFails(r)
         /\ phase = "done" => ConnectionLost(r)
  BY DEF ConnectionLost, StatementFails, AttemptFails
<1>3. /\ PoolOK' /\ holders' \ {r} = holders \ {r}
      /\ StatementFails(r) => r \in holders'
      /\ ConnectionLost(r) => r \notin holders'
      /\ rowLock' # NoOne =>
            rowLock' = rowLock /\ (rowLock # r \/ StatementFails(r))
  <2>1. CASE ConnectionLost(r)
    <3>1. LetGo(r) /\ ~ mysqlUp
      BY <2>1 DEF ConnectionLost
    <3>2. ~ StatementFails(r)
      BY <3>1 DEF StatementFails
    <3> QED  BY <1>1, <3>1, <3>2, LetGoCounts
  <2>2. CASE StatementFails(r)
    <3>1. mysqlUp /\ KeepAll
      BY <2>2 DEF StatementFails, KeepAll
    <3>2. ~ ConnectionLost(r)
      BY <3>1 DEF ConnectionLost
    <3> QED  BY <1>1, <2>2, <3>1, <3>2, KeepAllCounts DEF KeepAll
  <2> QED  BY <2>1, <2>2
<1>4. InPlace'
  <2>1. phase \in Holding => r \in holders'
    BY <1>2, <1>3
  <2>2. r \in holders' => phase \in Holding \cup {"backoff"}
    BY <1>2, <1>3
  <2>3. rowLock' # NoOne =>
           \/ rowLock' = rowLock /\ rowLock # r
           \/ rowLock' = r /\ r \in holders' /\ phase # "connecting"
    BY <1>2, <1>3
  <2> QED  BY <1>1, <1>2, <1>3, <2>1, <2>2, <2>3, Moves DEF PoolOK
<1>5. attempts[r] < AttemptLimit(r) => attempts[r] < Attempts
  BY PoolAssumption DEF AttemptLimit, Inv, WorkOK
<1>6. UNCHANGED <<work, health, mysqlUp>>
  BY DEF ConnectionLost, StatementFails
<1>7. WorkOK' /\ HealthOK'
  BY <1>1, <1>2, <1>5, <1>6 DEF Go, work, health, Inv, InPlace, WorkOK, HealthOK
<1> QED  BY <1>3, <1>4, <1>7 DEF Inv

\* Between two attempts: the wait ends, and the rollback gives the connection
\* back.
LEMMA RetrySteps ==
    ASSUME Inv, NEW r \in Requests, NextAttempt(r) \/ Undone(r)
    PROVE  Inv'
<1> USE DEF Phase, Guarded, Holding
<1>0. r \in Actors
  BY DEF Actors
<1>1. CASE NextAttempt(r)
  <2>1. PICK phase \in {"undo", "checkout"} :
           Go(r, phase) /\ (phase = "undo" <=> r \in holders)
    BY <1>1 DEF NextAttempt
  <2>2. PoolOK' /\ holders' = holders /\ rowLock' = rowLock
    BY <1>1, KeepAllCounts DEF NextAttempt, KeepAll
  <2>3. InPlace'
    BY <1>0, <2>1, <2>2, Moves DEF Inv, PoolOK, InPlace
  <2>4. pc[r] = "backoff" /\ pc' = [pc EXCEPT ![r] = phase]
        /\ attempts' = [attempts EXCEPT ![r] = @ + 1] /\ UNCHANGED <<kind, call>>
    BY <1>1, <2>1 DEF NextAttempt, Go
  <2>5. WorkOK'
    BY <1>0, <2>1, <2>4, PoolAssumption DEF Inv, InPlace, WorkOK
  <2>6. HealthOK'
    BY <1>1 DEF NextAttempt, health, Inv, HealthOK
  <2> QED  BY <2>2, <2>3, <2>5, <2>6 DEF Inv
<1>2. CASE Undone(r)
  <2>1. r \in holders /\ GiveBack(r) /\ Go(r, "checkout")
    BY <1>0, <1>2 DEF Undone, Inv, InPlace
  <2>2. /\ PoolOK' /\ holders' = holders \ {r}
        /\ rowLock' # NoOne => rowLock' = rowLock /\ rowLock # r
    BY <1>0, <2>1, GiveBackCounts
  <2>3. InPlace'
    BY <1>0, <2>1, <2>2, Moves DEF PoolOK
  <2>4. WorkOK' /\ HealthOK'
    BY <1>0, <1>2, <2>1, WorkKept DEF Undone, health, Inv, HealthOK
  <2> QED  BY <2>2, <2>3, <2>4 DEF Inv
<1> QED  BY <1>1, <1>2

\* The ends of a request: a timeout, the end of its transaction, the cache.
LEMMA EndSteps ==
    ASSUME Inv, NEW r \in Requests,
           GuardTimeout(r) \/ EndTransaction(r) \/ FillCache(r) \/ Drain(r)
    PROVE  Inv'
<1> USE DEF Phase, Guarded, Holding
<1>0. r \in Actors
  BY DEF Actors
<1>1. UNCHANGED <<work, health, mysqlUp>>
  BY DEF GuardTimeout, EndTransaction, FillCache, Drain, Teardown, health
<1>2. HealthOK'
  BY <1>1 DEF health, Inv, HealthOK
<1>3. CASE KeepAll /\ Go(r, "rollback") /\ pc[r] = "backoff" /\ r \in holders
  <2>1. PoolOK' /\ holders' = holders /\ rowLock' = rowLock
    BY <1>3, KeepAllCounts DEF KeepAll
  <2>2. InPlace'
    BY <1>0, <1>3, <2>1, Moves DEF PoolOK
  <2>3. WorkOK'
    BY <1>0, <1>1, <1>3, WorkKept
  <2> QED  BY <1>2, <2>1, <2>2, <2>3 DEF Inv
<1>4. CASE LetGo(r) /\ Go(r, "done")
  <2>1. /\ PoolOK' /\ holders' = holders \ {r}
        /\ rowLock' # NoOne => rowLock' = rowLock /\ rowLock # r
    BY <1>0, <1>4, LetGoCounts
  <2>2. InPlace'
    BY <1>0, <1>4, <2>1, Moves DEF PoolOK
  <2>3. WorkOK'
    BY <1>0, <1>1, <1>4, WorkKept
  <2> QED  BY <1>2, <2>1, <2>2, <2>3 DEF Inv
<1>5. CASE EndTransaction(r)
  <2>1. r \in holders /\ GiveBack(r)
    BY <1>0, <1>5 DEF EndTransaction, Inv, InPlace
  <2>2. PICK phase \in {"drain", "done"} : Go(r, phase)
    BY <1>5 DEF EndTransaction
  <2>3. /\ PoolOK' /\ holders' = holders \ {r}
        /\ rowLock' # NoOne => rowLock' = rowLock /\ rowLock # r
    BY <1>0, <2>1, GiveBackCounts
  <2>4. InPlace'
    BY <1>0, <2>2, <2>3, Moves DEF PoolOK
  <2>5. WorkOK'
    BY <1>0, <1>1, <2>2, WorkKept
  <2> QED  BY <1>2, <2>3, <2>4, <2>5 DEF Inv
<1>6. CASE FillCache(r) \/ Drain(r)
  <2>1. PICK phase \in {"commit", "done"} :
           /\ Go(r, phase)
           /\ phase = "commit" <=> pc[r] = "cache"
           /\ pc[r] \in {"cache", "drain"}
    BY <1>6 DEF FillCache, Drain, Teardown
  <2>2. KeepAll
    BY <1>6 DEF FillCache, Drain, KeepAll
  <2>3. PoolOK' /\ holders' = holders /\ rowLock' = rowLock
    BY <2>2, KeepAllCounts DEF KeepAll
  <2>4. InPlace'
    BY <1>0, <2>1, <2>3, Moves DEF Inv, InPlace, PoolOK
  <2>5. WorkOK'
    BY <1>0, <1>1, <2>1, WorkKept
  <2> QED  BY <1>2, <2>3, <2>4, <2>5 DEF Inv
<1> QED  BY <1>3, <1>4, <1>5, <1>6 DEF GuardTimeout

\* A probe: its connection is back before Redis is asked, on every way out.
LEMMA ProbeSteps ==
    ASSUME Inv, NEW p \in Probes,
           Selected(p) \/ CheckFails(p) \/ CheckTimesOut(p) \/ Ping(p)
    PROVE  Inv'
<1> USE DEF Phase, Guarded, Holding
<1>0. p \in Actors
  BY DEF Actors
<1>1. CASE Selected(p) \/ CheckFails(p) \/ CheckTimesOut(p)
  <2>1. PICK result \in {"ok", "error"} : MySQLChecked(p, result)
    BY <1>1 DEF Selected, CheckFails, CheckTimesOut
  <2>2. /\ PoolOK' /\ holders' = holders \ {p}
        /\ rowLock' # NoOne => rowLock' = rowLock /\ rowLock # p
    <3>1. CASE Selected(p)
      BY <1>0, <3>1, GiveBackCounts DEF Selected, Inv, InPlace
    <3>2. CASE CheckFails(p) \/ CheckTimesOut(p)
      BY <1>0, <3>2, LetGoCounts DEF CheckFails, CheckTimesOut
    <3> QED  BY <1>1, <3>1, <3>2
  <2>3. InPlace'
    BY <1>0, <2>1, <2>2, Moves DEF MySQLChecked, PoolOK
  <2>4. WorkOK'
    BY <1>0, <2>1, WorkKept DEF MySQLChecked
  <2>5. HealthOK'
    BY <2>1 DEF MySQLChecked, Inv, HealthOK
  <2> QED  BY <2>2, <2>3, <2>4, <2>5 DEF Inv
<1>2. CASE Ping(p)
  <2>1. PoolOK' /\ holders' = holders /\ rowLock' = rowLock
    BY <1>2, KeepAllCounts DEF Ping, KeepAll
  <2>2. InPlace'
    BY <1>0, <1>2, <2>1, Moves DEF Ping, Inv, InPlace, PoolOK
  <2>3. WorkOK'
    BY <1>0, <1>2, WorkKept DEF Ping
  <2>4. HealthOK'
    BY <1>2 DEF Ping, Verdict, Inv, HealthOK
  <2> QED  BY <2>1, <2>2, <2>3, <2>4 DEF Inv
<1> QED  BY <1>1, <1>2

\* Every step keeps the invariant.
LEMMA NextInv == Inv /\ [Next]_vars => Inv'
<1> SUFFICES ASSUME Inv, [Next]_vars PROVE Inv'
  OBVIOUS
<1>1. ASSUME NEW r \in Requests, RequestRuns(r) \/ RequestHears(r) \/ StatementFails(r)
      PROVE  Inv'
  BY <1>1, PoolSteps, AnswerSteps, FailSteps, RetrySteps, EndSteps
  DEF RequestRuns, RequestHears, Actors
<1>2. ASSUME NEW p \in Probes, ProbeRuns(p) \/ ProbeHears(p) \/ Ping(p)
      PROVE  Inv'
  BY <1>2, PoolSteps, ProbeSteps DEF ProbeRuns, ProbeHears, Actors
<1>3. CASE MySQLDown \/ MySQLUp
  <2>1. UNCHANGED <<pool, pc, work, rowLock, mysqlCheck, verdict>>
    BY <1>3 DEF MySQLDown, MySQLUp, health
  <2>2. PoolOK' /\ InPlace' /\ WorkOK'
    BY <2>1 DEF pool, work, Inv, PoolOK, InPlace, WorkOK
  <2>3. HealthOK'
    BY <1>3, <2>1 DEF MySQLDown, MySQLUp, Suspect, health, Inv, HealthOK
  <2> QED  BY <2>2, <2>3 DEF Inv
<1>4. CASE UNCHANGED vars
  BY <1>4 DEF vars, pool, work, health, Inv, PoolOK, InPlace, WorkOK, HealthOK
<1> QED  BY <1>1, <1>2, <1>3, <1>4 DEF Next

\* Actors, transactions, probes and the pool's counters keep their types: the
\* counters stay between an empty pool and its ceiling.
THEOREM TypeCorrect == Spec => []TypeOK
<1>1. Inv => TypeOK
  BY DEF Inv, PoolOK, InPlace, WorkOK, HealthOK, TypeOK
<1> QED  BY <1>1, InitInv, NextInv, PTL DEF Spec

\* No slot leaks and none is counted twice: the gauge is the number of holders,
\* whatever faults and timeouts the actors met.
THEOREM SlotsNeverLeak == Spec => []SlotsAccounted
<1>1. Inv => SlotsAccounted
  <2> SUFFICES ASSUME Inv PROVE SlotsAccounted
    OBVIOUS
  <2> QED
    BY HoldersFinite, PoolAssumption DEF Inv, PoolOK, SlotsAccounted, PoolGauge
<1> QED  BY <1>1, InitInv, NextInv, PTL DEF Spec

\* The owner of the row lock has the connection it needs to end its
\* transaction, so nobody who waits for the row waits for the pool.
THEOREM RowLockSound == Spec => []RowLockHeld
<1>1. Inv => RowLockHeld
  BY DEF Inv, InPlace, Holding, RowLockHeld
<1> QED  BY <1>1, InitInv, NextInv, PTL DEF Spec
-----------------------------------------------------------------------------
\* A probe is suspect from the moment a fault or a full pool meets its check,
\* and only such a check ends in an error.
Suspected ==
    \A p \in Probes :
        /\ pc[p] \in Guarded /\ ~ mysqlUp => p \in suspect
        /\ pc[p] = "ping" => mysqlCheck[p] # "none"
        /\ mysqlCheck[p] = "error" => p \in suspect
        /\ verdict[p] = "unready" => p \in suspect

\* Other actors' steps do not touch a probe.
LEMMA RequestsLeaveProbes ==
    ASSUME Inv, Suspected, NEW r \in Requests,
           RequestRuns(r) \/ RequestHears(r) \/ StatementFails(r)
    PROVE  Suspected'
<1>1. UNCHANGED <<mysqlUp, mysqlCheck, verdict>>
  BY DEF RequestRuns, RequestHears, StatementFails, Start, Reuse, Create, Queue,
         FillCache, NextAttempt, GuardTimeout, Drain, Connected, LoadAnswers,
         CasAnswers, ReadBackAnswers, ConnectionLost, Undone, EndTransaction, health
<1>2. suspect' = suspect \/ Suspect({r})
  BY DEF RequestRuns, RequestHears, StatementFails, Start, Reuse, Create, Queue,
         FillCache, NextAttempt, GuardTimeout, Drain, Connected, LoadAnswers,
         CasAnswers, ReadBackAnswers, ConnectionLost, Undone, EndTransaction, health
<1>3. pc' = pc \/ \E phase : Go(r, phase)
  BY DEF RequestRuns, RequestHears, StatementFails, Start, Reuse, Create, Queue,
         FillCache, NextAttempt, GuardTimeout, Drain, Connected, LoadAnswers, Teardown,
         CasAnswers, ReadBackAnswers, ConnectionLost, Undone, EndTransaction, NextCall,
         AttemptFails
<1>4. \A p \in Probes : pc'[p] = pc[p]
  BY <1>3, PoolAssumption DEF Go, Inv, InPlace, Actors
<1> QED  BY <1>1, <1>2, <1>4 DEF Suspected, Suspect

\* A probe's own steps.
LEMMA ProbesAreSuspected ==
    ASSUME Inv, Suspected, NEW p \in Probes,
           ProbeRuns(p) \/ ProbeHears(p) \/ Ping(p)
    PROVE  Suspected'
<1> USE DEF Go, Inv, InPlace, HealthOK, Actors, Suspected
<1>1. CASE Start(p) \/ Reuse(p) \/ Create(p) \/ Queue(p) \/ Connected(p)
  <2>1. UNCHANGED <<mysqlUp, mysqlCheck, verdict>>
    BY <1>1 DEF Start, Reuse, Create, Queue, Connected, health
  <2>2. PICK phase \in Guarded : Go(p, phase)
    BY <1>1 DEF Start, Reuse, Create, Queue, Connected, Guarded
  <2>3. \/ suspect' = suspect \cup {p}
        \/ suspect' = suspect /\ (pc[p] \in Guarded \/ mysqlUp)
    BY <1>1 DEF Start, Reuse, Create, Queue, Connected, Suspect, health, Guarded
  <2> QED  BY <2>1, <2>2, <2>3 DEF Guarded
<1>2. CASE Selected(p)
  BY <1>2 DEF Selected, MySQLChecked, Guarded
<1>3. CASE CheckFails(p) \/ CheckTimesOut(p)
  <2>1. MySQLChecked(p, "error") /\ p \in suspect
    BY <1>3 DEF CheckFails, CheckTimesOut, Guarded
  <2> QED  BY <2>1 DEF MySQLChecked, Guarded
<1>4. CASE Ping(p)
  <2>1. PICK redis \in {"ok", "error"} :
           verdict' = [verdict EXCEPT ![p] = Verdict(mysqlCheck[p], redis)]
    BY <1>4 DEF Ping
  <2>2. mysqlCheck[p] = "ok" \/ p \in suspect
    BY <1>4 DEF Ping
  <2> QED  BY <1>4, <2>1, <2>2 DEF Ping, Verdict, Guarded
<1> QED  BY <1>1, <1>2, <1>3, <1>4 DEF ProbeRuns, ProbeHears

\* A cache outage never takes the replica out: whoever answers 503 met a MySQL
\* that was down or a pool that was full.
THEOREM ReadinessIsTrue == Spec => []UnreadyOnlyForMySQL
<1>1. Init => Suspected
  BY DEF Init, Suspected, Actors, Guarded
<1>2. Inv /\ Suspected /\ [Next]_vars => Suspected'
  <2> SUFFICES ASSUME Inv, Suspected, [Next]_vars PROVE Suspected'
    OBVIOUS
  <2>1. CASE MySQLDown \/ MySQLUp
    BY <2>1 DEF MySQLDown, MySQLUp, Suspect, health, Suspected
  <2>2. CASE UNCHANGED vars
    BY <2>2 DEF vars, health, Suspected
  <2> QED  BY <2>1, <2>2, RequestsLeaveProbes, ProbesAreSuspected DEF Next
<1>3. Suspected => UnreadyOnlyForMySQL
  BY DEF Suspected, UnreadyOnlyForMySQL
<1> QED  BY <1>1, <1>2, <1>3, InitInv, NextInv, PTL DEF Spec

=============================================================================
