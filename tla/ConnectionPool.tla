--------------------------- MODULE ConnectionPool ---------------------------
(***************************************************************************)
(* Who holds a database connection, and for how long.  One replica's       *)
(* requests and readiness probes share one bounded pool; a writer also     *)
(* takes the lock of the one row the writes of this model contend for.     *)
(* A request keeps its connection from its first statement to the end of   *)
(* its transaction (get_session), across the cache fill; a readiness probe *)
(* takes a connection of its own and gives it back before it asks Redis    *)
(* (_probe_mysql).                                                         *)
(*                                                                         *)
(* A guarded call (GuardedCall) is ended by its timeout wherever it is: in *)
(* the pool's queue, connecting, waiting for the row.  The commit and the  *)
(* rollback of get_session lie outside every guarded call.                 *)
(*                                                                         *)
(* Time is abstract: a timeout may fire at any moment of what it bounds,   *)
(* and the pool's own timeout (10 s) never comes before the guard's (3 s)  *)
(* or the probe's (2 s).  A request enters and leaves once.                *)
(***************************************************************************)
EXTENDS Integers, FiniteSets

CONSTANTS
    Requests,       \* requests of the articles API
    Probes,         \* GET /health/ready
    PoolSize,       \* DB_POOL_SIZE
    MaxOverflow,    \* DB_MAX_OVERFLOW
    Attempts,       \* policy.attempts
    NoOne           \* no owner of the row lock

Actors == Requests \cup Probes

\* build_engine_kwargs refuses a negative max_overflow, which SQLAlchemy would
\* read as no ceiling.
ASSUME PoolAssumption ==
    /\ IsFiniteSet(Actors)
    /\ Requests \cap Probes = {}
    /\ PoolSize \in Nat \ {0}
    /\ MaxOverflow \in Nat
    /\ Attempts \in Nat \ {0}
    /\ NoOne \notin Actors

VARIABLES
    idle,           \* connections in the pool's queue
    overflow,       \* QueuePool._overflow: from -PoolSize up
    holders,        \* actors a connection is checked out to
    pc,             \* where each actor is
    kind,           \* per request: a GET that misses, or a PUT or DELETE
    call,           \* per request: the guarded call it is in
    attempts,       \* per request: attempts of that call so far
    rowLock,        \* the writer whose transaction locks the row, or NoOne
    mysqlUp,        \* whether MySQL answers now
    mysqlCheck,     \* per probe: the verdict on MySQL
    verdict,        \* per probe: what /health/ready answered
    suspect         \* observer: probes whose MySQL check met a fault or a full pool

pool == <<idle, overflow, holders>>
work == <<kind, call, attempts>>
health == <<mysqlCheck, verdict, suspect>>
vars == <<pool, pc, work, rowLock, mysqlUp, health>>

\* Where asyncio.timeout of a guarded call, or of a probe's check, may strike.
Guarded == {"checkout", "waiting", "connecting", "statement", "backoff", "undo"}
Phase == Guarded \cup {"ready", "cache", "commit", "rollback", "drain", "ping", "done"}

\* The guarded calls of a request, in order.
Plan(r) == IF kind[r] = "write" THEN <<"load", "cas", "readback">> ELSE <<"load">>

Calling(r, name) == Plan(r)[call[r]] = name

\* Mutant of AttemptLimit: the policy's attempts taken for retries.
AttemptLimitRetries(r) == IF Calling(r, "cas") THEN 1 ELSE Attempts + 1

\* guarded_write has one attempt.
AttemptLimit(r) == IF Calling(r, "cas") THEN 1 ELSE Attempts

TypeOK ==
    /\ idle \in 0 .. PoolSize
    /\ overflow \in -PoolSize .. MaxOverflow
    /\ holders \subseteq Actors
    /\ pc \in [Actors -> Phase]
    /\ kind \in [Requests -> {"read", "write"}]
    /\ call \in [Requests -> 1 .. 3]
    /\ attempts \in [Requests -> 1 .. Attempts]
    /\ rowLock \in Requests \cup {NoOne}
    /\ mysqlUp \in BOOLEAN
    /\ mysqlCheck \in [Probes -> {"none", "ok", "error"}]
    /\ verdict \in [Probes -> {"none", "ready", "degraded", "unready"}]
    /\ suspect \subseteq Probes

Init ==
    /\ idle = 0
    /\ overflow = -PoolSize
    /\ holders = {}
    /\ pc = [a \in Actors |-> "ready"]
    /\ kind \in [Requests -> {"read", "write"}]
    /\ call = [r \in Requests |-> 1]
    /\ attempts = [r \in Requests |-> 1]
    /\ rowLock = NoOne
    /\ mysqlUp = TRUE
    /\ mysqlCheck = [p \in Probes |-> "none"]
    /\ verdict = [p \in Probes |-> "none"]
    /\ suspect = {}

-----------------------------------------------------------------------------
(* The pool *)

Go(a, phase) == pc' = [pc EXCEPT ![a] = phase]

Suspect(S) == suspect' = suspect \cup (S \cap Probes)

\* A connection comes back: into the queue, or closed when the queue is full.
\* The transaction it carried is over, and with it the row lock.
GiveBack(a) ==
    /\ holders' = holders \ {a}
    /\ IF idle < PoolSize
       THEN idle' = idle + 1 /\ UNCHANGED overflow
       ELSE overflow' = overflow - 1 /\ UNCHANGED idle
    /\ rowLock' = IF rowLock = a THEN NoOne ELSE rowLock

\* A connection that was being made is given up: _dec_overflow, and nobody
\* who waits on the queue is told.
Discard(a) ==
    /\ holders' = holders \ {a}
    /\ overflow' = overflow - 1
    /\ UNCHANGED <<idle, rowLock>>

\* db_pool_connections{state}, sampled at a scrape.
PoolGauge ==
    [in_use    |-> PoolSize - idle + overflow,
     available |-> idle,
     overflow  |-> IF overflow > 0 THEN overflow ELSE 0]

KeepAll == UNCHANGED <<pool, rowLock>>

\* What a holds, whatever that is.
LetGo(a) ==
    IF a \notin holders THEN KeepAll
    ELSE IF pc[a] = "connecting" THEN Discard(a) ELSE GiveBack(a)

Start(a) ==
    /\ pc[a] = "ready"
    /\ Go(a, "checkout")
    /\ IF mysqlUp THEN UNCHANGED suspect ELSE Suspect({a})
    /\ UNCHANGED <<pool, work, rowLock, mysqlUp, mysqlCheck, verdict>>

\* An idle connection: at once, or by an actor in the queue.  A newcomer may
\* take it before those who wait.
Reuse(a) ==
    /\ pc[a] \in {"checkout", "waiting"}
    /\ idle > 0
    /\ idle' = idle - 1
    /\ holders' = holders \cup {a}
    /\ Go(a, "statement")
    /\ UNCHANGED <<overflow, work, rowLock, mysqlUp, health>>

Create(a) ==
    /\ pc[a] = "checkout"
    /\ idle = 0 /\ overflow < MaxOverflow
    /\ overflow' = overflow + 1
    /\ holders' = holders \cup {a}
    /\ Go(a, "connecting")
    /\ UNCHANGED <<idle, work, rowLock, mysqlUp, health>>

Queue(a) ==
    /\ pc[a] = "checkout"
    /\ idle = 0 /\ overflow = MaxOverflow
    /\ Go(a, "waiting")
    /\ Suspect({a})
    /\ UNCHANGED <<pool, work, rowLock, mysqlUp, mysqlCheck, verdict>>

Connected(a) ==
    /\ pc[a] = "connecting"
    /\ mysqlUp
    /\ Go(a, "statement")
    /\ UNCHANGED <<pool, work, rowLock, mysqlUp, health>>

-----------------------------------------------------------------------------
(* A request *)

\* The call answered; the next one runs on the connection the request holds.
NextCall(r) ==
    /\ call' = [call EXCEPT ![r] = @ + 1]
    /\ attempts' = [attempts EXCEPT ![r] = 1]
    /\ UNCHANGED <<pc, kind>>

\* The handler returns, or raises through get_session.
Teardown(r, phase) == Go(r, phase) /\ UNCHANGED work

LoadAnswers(r) ==
    /\ pc[r] = "statement" /\ Calling(r, "load") /\ mysqlUp
    /\ \/ kind[r] = "write" /\ NextCall(r)
       \/ kind[r] = "read" /\ Teardown(r, "cache")
       \/ Teardown(r, "rollback")
    /\ UNCHANGED <<pool, rowLock, mysqlUp, health>>

\* The CAS locks the row, whatever its rowcount.  A PUT that matched and a
\* write that did not go on to a read; a DELETE that matched is done.
CasAnswers(r) ==
    /\ pc[r] = "statement" /\ Calling(r, "cas") /\ mysqlUp
    /\ rowLock = NoOne
    /\ rowLock' = r
    /\ NextCall(r) \/ Teardown(r, "commit")
    /\ UNCHANGED <<pool, mysqlUp, health>>

ReadBackAnswers(r) ==
    /\ pc[r] = "statement" /\ Calling(r, "readback") /\ mysqlUp
    /\ \E phase \in {"commit", "rollback"} : Teardown(r, phase)
    /\ UNCHANGED <<pool, rowLock, mysqlUp, health>>

\* SET of the page or article, under the cache's own guard: it answers or
\* fails within REDIS_SOCKET_TIMEOUT, the connection checked out meanwhile.
FillCache(r) ==
    /\ pc[r] = "cache"
    /\ Teardown(r, "commit")
    /\ UNCHANGED <<pool, rowLock, mysqlUp, health>>

\* An attempt fails: wait for the next one, or raise through get_session,
\* which has a transaction to roll back only on a connection.
AttemptFails(r, connected) ==
    Go(r, IF attempts[r] < AttemptLimit(r) THEN "backoff"
          ELSE IF connected THEN "rollback" ELSE "done")

\* MySQL is gone: the connection is invalidated, which returns it.
ConnectionLost(r) ==
    /\ pc[r] \in {"connecting", "statement", "undo"} /\ ~ mysqlUp
    /\ LetGo(r)
    /\ AttemptFails(r, FALSE)
    /\ UNCHANGED <<work, mysqlUp, health>>

\* A transient error that leaves the connection usable: a deadlock victim, a
\* statement stopped by max_execution_time.
StatementFails(r) ==
    /\ pc[r] = "statement" /\ mysqlUp
    /\ AttemptFails(r, TRUE)
    /\ UNCHANGED <<pool, work, rowLock, mysqlUp, health>>

\* Mutant of NextAttempt: the next attempt checks a connection out without
\* having rolled the session back.
NextAttemptDirty(r) ==
    /\ pc[r] = "backoff"
    /\ attempts' = [attempts EXCEPT ![r] = @ + 1]
    /\ Go(r, "checkout")
    /\ UNCHANGED <<pool, kind, call, rowLock, mysqlUp, health>>

\* The wait is over: on_retry() is session.rollback(), one more statement for
\* a session that still has a connection.
NextAttempt(r) ==
    /\ pc[r] = "backoff"
    /\ attempts' = [attempts EXCEPT ![r] = @ + 1]
    /\ Go(r, IF r \in holders THEN "undo" ELSE "checkout")
    /\ UNCHANGED <<pool, kind, call, rowLock, mysqlUp, health>>

\* The rollback gave the connection up, so the attempt checks out afresh,
\* behind whoever came first.
Undone(r) ==
    /\ pc[r] = "undo" /\ mysqlUp
    /\ GiveBack(r)
    /\ Go(r, "checkout")
    /\ UNCHANGED <<work, mysqlUp, health>>

\* Mutant of GuardTimeout: the timeout covers the statement, not the wait for
\* a connection.
GuardTimeoutInStatement(r) ==
    /\ pc[r] \in {"connecting", "statement", "undo"}
    /\ LetGo(r)
    /\ Go(r, "done")
    /\ UNCHANGED <<work, mysqlUp, health>>

\* asyncio.timeout: a statement it cancels takes its connection with it, a
\* wait between attempts leaves a transaction to roll back.
GuardTimeout(r) ==
    /\ pc[r] \in Guarded
    /\ IF pc[r] = "backoff" /\ r \in holders
       THEN KeepAll /\ Go(r, "rollback")
       ELSE LetGo(r) /\ Go(r, "done")
    /\ UNCHANGED <<work, mysqlUp, health>>

\* Mutant of EndTransaction: the rollback is left to the garbage collector.
EndTransactionLeaks(r) ==
    /\ pc[r] \in {"commit", "rollback"}
    /\ IF pc[r] = "commit" THEN GiveBack(r) ELSE KeepAll
    /\ Go(r, IF pc[r] = "commit" /\ kind[r] = "write" /\ mysqlUp THEN "drain" ELSE "done")
    /\ UNCHANGED <<work, mysqlUp, health>>

\* session.commit() or session.rollback(): under no guarded call.  A commit
\* that fails is rolled back, without a connection by then.
EndTransaction(r) ==
    /\ pc[r] \in {"commit", "rollback"}
    /\ GiveBack(r)
    /\ Go(r, IF pc[r] = "commit" /\ kind[r] = "write" /\ mysqlUp THEN "drain" ELSE "done")
    /\ UNCHANGED <<work, mysqlUp, health>>

\* drain_after_commit: the invalidations, under the cache's guard.
Drain(r) ==
    /\ pc[r] = "drain"
    /\ Go(r, "done")
    /\ UNCHANGED <<pool, work, rowLock, mysqlUp, health>>

-----------------------------------------------------------------------------
(* A readiness probe *)

MySQLChecked(p, result) ==
    /\ mysqlCheck' = [mysqlCheck EXCEPT ![p] = result]
    /\ Go(p, "ping")
    /\ UNCHANGED <<work, mysqlUp, verdict, suspect>>

\* Mutant of Selected: the probe's connection is given back after the answer.
SelectedHolding(p) ==
    /\ pc[p] = "statement" /\ mysqlUp
    /\ KeepAll
    /\ MySQLChecked(p, "ok")

\* SELECT 1, in autocommit; the connection is back before Redis is asked.
Selected(p) ==
    /\ pc[p] = "statement" /\ mysqlUp
    /\ GiveBack(p)
    /\ MySQLChecked(p, "ok")

CheckFails(p) ==
    /\ pc[p] \in {"connecting", "statement"} /\ ~ mysqlUp
    /\ LetGo(p)
    /\ MySQLChecked(p, "error")

\* READINESS_TIMEOUT_SECONDS is enough for a connection and a SELECT 1 when
\* there is a slot and MySQL answers.
CheckTimesOut(p) ==
    /\ pc[p] \in Guarded /\ p \in suspect
    /\ LetGo(p)
    /\ MySQLChecked(p, "error")

\* Mutant of Verdict: any failed check takes the replica out.
VerdictAll(mysql, redis) ==
    IF mysql = "ok" /\ redis = "ok" THEN "ready" ELSE "unready"

Verdict(mysql, redis) ==
    IF mysql # "ok" THEN "unready"
    ELSE IF redis # "ok" THEN "degraded" ELSE "ready"

\* redis.ping() answered, failed or timed out.
Ping(p) ==
    /\ pc[p] = "ping"
    /\ \E redis \in {"ok", "error"} :
          verdict' = [verdict EXCEPT ![p] = Verdict(mysqlCheck[p], redis)]
    /\ Go(p, "done")
    /\ UNCHANGED <<pool, work, rowLock, mysqlUp, mysqlCheck, suspect>>

-----------------------------------------------------------------------------
(* MySQL *)

MySQLDown ==
    /\ mysqlUp
    /\ mysqlUp' = FALSE
    /\ Suspect({p \in Probes : pc[p] \in Guarded})
    /\ UNCHANGED <<pool, pc, work, rowLock, mysqlCheck, verdict>>

MySQLUp ==
    /\ ~ mysqlUp
    /\ mysqlUp' = TRUE
    /\ UNCHANGED <<pool, pc, work, rowLock, health>>

\* What the event loop does by itself, timers included ...
RequestRuns(r) ==
    \/ Start(r) \/ Reuse(r) \/ Create(r) \/ Queue(r)
    \/ FillCache(r) \/ NextAttempt(r) \/ GuardTimeout(r) \/ Drain(r)

ProbeRuns(p) ==
    Start(p) \/ Reuse(p) \/ Create(p) \/ Queue(p) \/ CheckTimesOut(p)

\* ... and what it does when MySQL has answered, or the connection broke.
RequestHears(r) ==
    \/ Connected(r) \/ LoadAnswers(r) \/ CasAnswers(r) \/ ReadBackAnswers(r)
    \/ ConnectionLost(r) \/ Undone(r) \/ EndTransaction(r)

ProbeHears(p) == Connected(p) \/ Selected(p) \/ CheckFails(p)

Next ==
    \/ \E r \in Requests : RequestRuns(r) \/ RequestHears(r) \/ StatementFails(r)
    \/ \E p \in Probes : ProbeRuns(p) \/ ProbeHears(p) \/ Ping(p)
    \/ MySQLDown \/ MySQLUp

Spec == Init /\ [][Next]_vars

\* The event loop runs what is runnable and its timers fire; MySQL answers a
\* statement or its connection breaks.  A ping owes nothing.
FairSpec ==
    /\ Spec
    /\ \A r \in Requests : WF_vars(RequestRuns(r) \/ RequestHears(r))
    /\ \A p \in Probes : WF_vars(ProbeRuns(p) \/ ProbeHears(p))

\* MySQL may fall silent with its connections open; everything of the
\* process's own, every timer included, goes on.
SilentSpec ==
    /\ Spec
    /\ \A r \in Requests : WF_vars(RequestRuns(r))
    /\ \A p \in Probes : WF_vars(ProbeRuns(p))

-----------------------------------------------------------------------------
(* Properties *)

\* No slot of the pool leaks or is counted twice, whichever way an actor lost
\* its connection: db_pool_connections{in_use} is the number of actors that
\* hold one, overflow is what the pool has beyond its size, and the ceiling of
\* the capacity model is never passed.
SlotsAccounted ==
    /\ PoolGauge.in_use = Cardinality(holders)
    /\ Cardinality(holders) + idle <= PoolSize + PoolGauge.overflow
    /\ PoolGauge.overflow <= MaxOverflow

\* A row lock never outlives the connection of the transaction that took it:
\* its owner can still end that transaction, and needs nothing for it that
\* another request may hold.
RowLockHeld ==
    rowLock # NoOne =>
        /\ rowLock \in holders
        /\ pc[rowLock] \notin {"checkout", "waiting", "connecting", "drain", "done"}

\* Readiness answers 503 only for a MySQL that was down, or a pool that was
\* full, during its check; never for a cache outage.
UnreadyOnlyForMySQL ==
    \A p \in Probes : verdict[p] = "unready" => p \in suspect

\* Every connection comes back, of a probe also when Redis never answers its
\* ping: a readiness probe cannot use the pool up.
ConnectionsReturn ==
    \A a \in Actors : a \in holders ~> a \notin holders

\* Every request ends, also one that waits in the queue of a pool whose
\* connections were all given up while being made, which wakes nobody.
RequestsEnd ==
    \A r \in Requests : pc[r] # "ready" ~> pc[r] = "done"

\* README.md: every dependency failure becomes a status code instead of a
\* hang; a MySQL that answers nothing included.
SilentMySQLBecomesAnAnswer == RequestsEnd

=============================================================================
