# TLA+ verification of the content platform

A FastAPI service over MySQL and Redis: accounts, articles with optimistic
concurrency, a cache-aside read path, and a resilience layer (circuit breakers,
budgets, retries, load shedding). This directory holds TLA+ models of its core,
the TLC configurations that check them on small instances, and proofs that TLAPS
checks for every value of the constants. Paths below are relative to `src/`;
`app/` is the program.

## 1. Inventory

| Component | State it keeps | Operations | Talks to |
|---|---|---|---|
| Circuit breaker (`app/resilience/breaker.py`) | state, consecutive failures, instant of opening, probes admitted; one per dependency and process | `allow`, `record_success`, `record_failure` | called by guarded calls and by the cache |
| Guarded calls (`guard.py`, `retry.py`, `policy.py`) | per call: attempts, elapsed budget | breaker, then timeout, then retries with a session rollback in between | repositories → MySQL |
| Article write path (`services/article_service.py`, `repositories/article_repo.py`, `db/session.py`, `db/after_commit.py`) | one transaction and one after-commit queue per request; the `articles` row | POST, PUT, DELETE with If-Match compare-and-set; commit in the dependency's teardown; invalidation after it | guarded calls, MySQL, cache |
| Article read path and cache (`article_service.py`, `cache/`) | Redis: bodies, list pages, two generation counters, single-flight locks; per request: the latch `_degraded` | GET one, GET a list; DEL and INCR after writes | Redis, Redis breaker, MySQL |
| Keyset pagination (`api/pagination.py`, `build_list_query`, `_load_page`) | the client's cursor | list pages, newest first | MySQL or the cache |
| Database engine and pool (`db/session.py`) | the pool: idle connections, overflow; per request one session, its connection, its row lock | take a connection (idle, new, or queue), commit or roll back, give it back | every request and readiness probe; MySQL |
| Health and readiness (`api/routers/health.py`) | none | `/health/ready`: MySQL, then Redis, each with its own timeout | the pool, MySQL, Redis |
| Accounts (`auth_service.py`, `user_repo.py`, `core/security.py`) | `users` with a unique email; a bounded pool of hashing threads; a memoized throwaway hash | register, login | guarded calls, MySQL, thread pool |
| Middleware (`api/middleware.py`, `main.py`) | in-flight counter, metrics | request id, access log, metrics, shedding, authentication and route policy | every request |
| Error mapping (`api/errors.py`, `services/exceptions.py`) | none | exception → status | every request |
| Observability (`app/observability/`) | counters and gauges | the pool gauge, request counters, logs, traces | read by a scrape |
| Configuration, password policy, schemas, migrations, scripts | none on the request path, or pure I/O | | |

What is hard in this system:

* **Interleaving.** One event loop runs many requests; every `await` lets others
  in. Breaker reports arrive long after admission; two writes race between load,
  compare-and-set and commit; two registrations race for one email; cache fills
  race with invalidations; pages are requested while the list changes.
* **Transactions seen from outside.** A request's reads share one REPEATABLE READ
  snapshot, its UPDATE reads the latest row and waits for the row lock, and a
  retry rolls back whatever the transaction held.
* **Failures.** Commits fail or succeed without an answer, Redis commands time out
  before or after they took effect, replicas die between commit and invalidation,
  Redis evicts counters, dependencies hang.
* **Limits.** One budget per call, one socket timeout per request, one ceiling of
  requests in flight, a few hashing threads, a bounded pool whose connections a
  request keeps from its first statement to the end of its transaction.
* **Timeouts that strike anywhere.** `asyncio.timeout` ends a guarded call in the
  pool's queue, while connecting, inside a statement, between attempts or in the
  rollback between them; the commit and the rollback of `get_session` have none.

What makes each component correct is listed with its module in section 3. The
hazards, each at its line and with the properties that watch it, are in
`PROJECT.json`.

## 2. Modules and how they compose

```
Breaker                 the breaker as a value and its methods
 ├── CircuitBreaker     the breaker shared by concurrent callers (abstract calls)
 │    └── CircuitBreakerProofs
 ├── GuardedCall        guarded_call in full; refines CircuitBreaker
 │    └── GuardedCallProofs
 └── ArticleCache       reads, fills and invalidations through the Redis breaker
      ├── MCArticleCache   symmetry for the safety run
      └── ArticleCacheProofs
Policy                  the budget, the waits, what build_policies accepts
 └── GuardedCall
ArticleRegister         what the write path promises (abstract)
 └── ArticleWrites      the write path; implements it;        ArticleWritesProofs
ConnectionPool          who holds a connection, and readiness;  ConnectionPoolProofs
Pagination              a walk over a changing list by cursors; PaginationProofs
 └── MCPagination       its creation times for TLC
Accounts                registration and login;               AccountsProofs
 └── MCAccounts         what two spellings of an address become
Gateway                 the middleware chain around requests; GatewayProofs
```

`CircuitBreaker` is the abstract specification of a guarded dependency: a call is
admitted, runs for at most `CallTimeout`, and reports once. `GuardedCall` has the
attempts, waits and outcomes, and implements it (`ImplementsBreaker`, the
refinement mapping sends the admitted calls to `running`). The other modules take
a guarded call as one step that answers or gives up, which is what `GuardedCall`
shows it to be. `ArticleRegister` is the abstract specification of the write path, a
register with compare-and-set whose writes happen at one instant; `ArticleWrites` has
the transactions and implements it (`ImplementsRegister`, every place between arrival
and answer is `open`). `ArticleCache` takes a committed write as one step (`ArticleWrites`
shows what a commit is). `Pagination` asks nothing of the cache: a page may be of any
earlier moment, also from before the walk, since the bump of a committed write may be
pending, dropped (`article_cache.py:212`) or lost in a crash, a reader may be kept
from the generations, and a counter may be evicted; `ListReadsFresh` holds of
confirmed bumps and kept counters only. `ConnectionPool` takes the guarded calls of the
write path as a plan (`load`, `cas`, `readback`) and looks at what each holds while
it runs; what the statements do to the row is `ArticleWrites`' concern.

## 3. Modules against the code

### Breaker, CircuitBreaker

The record `breaker` is the object's fields. The code looks at the clock only
through `clock() - _opened_at >= reset`, so the record keeps that difference,
saturated (`openAge`). Each method is atomic, as on one event loop. `Admit` and
`Refuse` are the two answers of `allow()`; `Report` is the end of a call. The
dependency goes down and comes back as it pleases; a call can fail only if the
dependency was down while it ran (`exposed`). `Tick` lets time pass but never past
a running call's timeout, as `asyncio.timeout` guarantees.

* `HalfOpenIsItsProbes`: a half-open circuit is exactly its probes. No call that
  was running when the circuit opened can close or reopen it, and the probe that
  will decide it exists. Needs `CallTimeout < ResetSeconds`, which the defaults
  have (2 s and 3 s against 10 s) but `build_policies` does not enforce.
* `OutageBounded`, `FailsFast`: the circuit refuses for its whole interval, and
  late failures extend it by at most one call timeout.
* `Recovery`: a dependency that comes back for good is used again for good.

### Policy

The numbers of one dependency in clock ticks. `Accepted` is what `build_policies`
starts with; it is the module's assumption, so every instance and every proof is
about an accepted policy. `Backoff(n)` bounds the wait after the n-th attempt,
`WorstCaseBackoff` is the sum the code compares with the budget. Powers of two and
the sum are recursive functions on `0 .. Attempts`, because the prover's arithmetic
has no exponents.

### GuardedCall

`Start`/`FailFast` ask the breaker; `Retry`, `NextAttempt` are `with_retry` with
its waits; `Exhausted`, `BudgetSpent`, `Answer` are the ways out, each with its one
report. An error that is the dependency's answer reports success. A wait is drawn
from `0 .. Backoff(n)`, and the budget runs on meanwhile.

* `ImplementsBreaker`: the breaker sees one admission and one report, whatever the
  call does in between.
* `EveryAttemptFits`: the waits alone never use the budget up, so an accepted policy
  has no attempt that can never run. It ties the waits `with_retry` makes to the sum
  `build_policies` checked, which are computed in two files.
* `CallsEnd`: every call ends although an attempt may hang for ever.

### ArticleRegister, ArticleWrites

One article, any number of write requests, on any number of replicas (nothing they
share is in a process). Every await of the handler is a step: the actor's read,
the load, the compare-and-set (which waits for the row lock), the check or the
read-back, the commit, the drain. InnoDB is external: a snapshot at the first
SELECT, own writes overlaid, UPDATE on the latest row, a lock that is kept although
nothing matched, and `updated_at` advanced only if a column changed. `RetryRead` is
a transient fault inside a `guarded_read`: it rolls the session back, and with it
the request's own compare-and-set, while the queue on `session.info` survives; and
it expires the actor. `Crash` kills the replica. `RollbackAndAnswer` is the except
branch of `get_session`: its rollback may itself raise, on a connection that died
unnoticed, and then the response is a 500 whatever it was to be and the queue is not
discarded; the server is taken to have ended the transaction. `GiveUp` is a guard that
gives up (503) or passes on a database error that is not transient (500).

* `ImplementsRegister`: to its clients the whole is one register. A write takes effect
  at one instant (`Apply`, the commit), as what its request says of the row at that
  instant, on the version the client named, and at most once; a 201 or 204 comes after
  it, a refusal never, and what a 404 or 409 says holds when it is said. A 500, and
  because of finding 1 a 200, says nothing of the effect.
* `NoLostUpdate`: a commit replaces the very version its client named. That it never
  replaces a deleted one (`DeletedIsFinal`), and that a 201 or 204 is durable
  (`AckedIsDurable`), follow and are proved only.
* `RefusedLeavesNoTrace`: a 4xx or 503 committed and invalidated nothing.
* `RefusalsAreTrue`: a 404 names a deleted article, a 409 an outdated token.
* `Answered`: nobody waits for the row lock for ever.

### ArticleCache, MCArticleCache

Three cached things, the article, a page of the unfiltered list and a page of its
author's list, as version numbers; the codecs are the identity of versions, and an
unparsable body is a miss. A page's key carries the generation its reader saw. A
Redis command is two steps (`Send`, then one of the answers or `CommandFails`,
which may or may not have taken effect). The latch, the breaker, the single-flight
lock with blind DEL and expiry, polling, and both INCRs of one bump are there.
`Crash` kills the replica at any point: its requests are gone, so is its breaker,
and Redis keeps what was written, the lock and the stale body included.

* `ListReadsFresh`: a page is at least as new as every write whose bump Redis had
  confirmed before the reader arrived. It excludes readers the open circuit kept
  from reading the generation (a finding) and counters Redis lost (section 7).
* `StaleOnlyByLateFill`: the article key goes stale only by the SET of a reader
  that loaded before the commit and stored after the DEL.
* `OneTimeoutPerRequest`: a request waits for one failed command at most.
* `ReadsEnd`: a reader ends although the lock's holder stalls for ever.
* `CacheHeals`: whatever crashed when, in the end no lock is left and the article key
  is empty or current, provided that Redis expires what has a TTL (`RedisExpires`).

### ConnectionPool

SQLAlchemy's QueuePool is external and is kept as its own two counters, `idle` and
`overflow`, with every way a connection is taken (`Reuse`, `Create`, `Queue`) and
lost (`GiveBack`, `Discard`, `LetGo`). A request goes through the guarded calls of
its `Plan`, each with its attempts, and between attempts rolls back, which returns
the connection, so that the next attempt queues anew. Its transaction ends in
`Teardown`/`EndTransaction`, then the after-commit queue drains without a
connection. A writer takes the row lock and may wait for it with a connection in its
hand. A readiness probe takes a connection, selects, gives it back and asks Redis.
MySQL goes down and comes back; a guard's timeout may fire at any moment of what it
bounds.

* `SlotsAccounted`: the pool's two counters say exactly how many actors hold a
  connection, whichever way one was lost, and the ceiling is kept.
* `RowLockHeld`: the owner of the row lock holds a connection for as long as it owns
  it, so it never waits for one that a waiter of its row holds.
* `UnreadyOnlyForMySQL`: a 503 of `/health/ready` means that MySQL failed or the pool
  was full while it was checked, never that Redis is out.
* `ConnectionsReturn`, `RequestsEnd`: every connection comes back, every request
  ends, also one queued behind connections that were given up while being made.
* `SilentMySQLBecomesAnAnswer`: the subject of a finding.

### Pagination, MCPagination

Rows are placed in id order with any `created_at`, become visible at commit and
disappear at delete. `views` is what the list has held at any moment so far. A walk
reads page after page, each from any of them and in no order of age, with the filter,
the strict keyset order and the sentinel row of the code. The observer `steady` is the
rows that every view a page was taken from holds. `UpTo` is the LIMIT of the ordered
query. `created_at` is a `DATETIME(6)` as `timedelta` splits it (days, seconds, microseconds); a response
carries `EncodeCursor` of the last row's position and the next request starts at
`DecodeCursor` of it. `MCTimes` has two times a microsecond apart across a second.

* `Descending`: each page lies wholly past the earlier ones, so nothing is listed
  twice. `NothingSkipped`: a finished walk has listed every matching row that is in
  each list its pages were taken from, so no page boundary, tie or cursor skips one,
  however those lists differ. Rows that a page's own list lacks are not promised: a
  cached page older than the walk can miss a row that lived throughout (section 7).
  `WalkEnds`: following cursors ends.

### Accounts, MCAccounts

What a client types becomes an email in two ways: `RegisterForm` is `EmailStr` and
`lower()`, which trims, `LoginForm` is `lower()` alone. Both are constants, functions
about which nothing is assumed; `MCAccounts` gives them two spellings of one address,
of which the padded one logs in as an email that nobody stores.

Each request is one transaction. `Submit`/`Hashed` are the bounded pool, first
come, first served. `inserted` is the uncommitted row on which a second INSERT of
the email waits. `Commit` precedes the answer, because `SessionDep` has
`scope="function"`. The end of a session that wrote nothing may raise (`Close`), and so
may the database with an error the guard passes on: a 500 each.

* `OneOwner`, `RegisteredCanLogIn`: a 201 owns its email alone, and a login that
  arrives after it with the email that answer names and the password of that account
  is never refused as wrong. With the email as typed it may be (section 7).
* `Answered`: threads and the unique index are never waited for in a circle.

### Gateway

The layers in the order `create_app` gives them, each await a step. Paths are the
classes the layers tell apart. A handler answers, answers 503, raises, or hangs.
`counted` is what `http_requests_total` gained by a request, a number per status.

* `SlotsAreHeld`: a slot is held exactly by the requests inside.
* `NobodyWaits`: overload is refused and not queued. A request comes to an answer or to
  its own handler although the handlers of others hang and keep every slot.
* `CountedAsAnswered`: metrics count each answer exactly once, under its status and no
  other, unhandled exceptions included, and probes and scrapes not at all.
* `OnlyAuthorizedRun`: no handler runs for a caller the policy excludes.

## 4. Runs

| Run | Instance | Shows |
|---|---|---|
| `breaker` | 3 callers, threshold 2, reset 3, timeout 2, 2 probes | safety and `Recovery` |
| `guard` | 2 callers, 3 attempts, waits of 1 and 2, timeout 4 | refinement of `CircuitBreaker`, `EveryAttemptFits`, `CallsEnd` |
| `writes` | 2 requests, 2 bodies, 2 attempts per read | the properties of section 3 |
| `cache_article` | 2 readers, 1 writer, counters may vanish | the article key, latch, termination, healing after a crash |
| `cache_lists` | 2 readers, 2 writers, symmetric | `ListReadsFresh`, without lost counters; blind readers are excepted |
| `pool` | 2 requests, 1 probe, size 1, overflow 1, 2 attempts | the five properties above |
| `accounts` | 3 requests, 2 spellings of an address, 2 emails, 2 passwords, 1 thread | the three properties above |
| `gateway` | 2 clients, ceiling 1 | the four properties above |
| `pagination` | 3 rows, 2 times, 2 authors, pages of 1 or 2, of any age | the three properties above |
| `writes_lost_put`, `writes_healed_500` | 2 writers | findings 1 and 2 of section 7 |
| `pool_silent` | 1 request, 1 probe, a pool of 1 | finding 3 |

Bounds and why they suffice. A race needs two actors; `breaker` and `accounts`
have three, so that a third party acts between the two. A threshold of 2 tells
consecutive failures from single ones. The reset of 3 ticks against a timeout of 2
keeps stragglers reporting into an open circuit and out of the half-open one. In
`guard` the waits of an accepted policy (1 + 2) fill the budget of 4 up to the last
tick, so that a doubled exponent no longer fits. Two attempts are the least with a
retry; the first attempt after a rollback is the case that matters. One connection
and one of overflow for three actors let one of them queue, one connection be
closed rather than kept, and a probe find the pool full. Two contents give both an update that changes the row and one that
does not. Pages of 1 and 2 over 3 rows give full pages, last pages and a tie inside
and across pages. `Generations` and `Versions` are bounded by the number of
writers, `openFor` by `OpenBound`, beyond which no property looks; no other bound
cuts a behaviour off. `MCArticleCache` uses symmetry for a safety property only.

`CHECK_DEADLOCK FALSE` is set where all requests may be done (writes, cache,
accounts, pool, pagination); the breaker, guard and gateway models never stop, and TLC
checks that they do not.

## 5. Fairness

* `breaker`, `guard`: the clock advances; an admitted call ends (asyncio.timeout);
  requests keep arriving. A call that met a silent dependency is owed only its
  timeout, never an answer or a retry. In `guard` the clock is strongly fair: it
  stands still whenever a call out of budget has yet to be ended, again and again.
* `pool`: the event loop runs what is runnable and its timers fire, and MySQL answers
  a statement or its connection breaks. That a timer fires while it can is what
  `asyncio.timeout` does; a Redis ping is owed nothing. `pool_silent` keeps all of it
  but the answers of MySQL, which is the fairness the process itself can give.
* `writes`, `accounts`: the event loop runs what is ready (weak fairness of each
  request's own steps), and MySQL answers, commits and rollbacks included; what
  becomes of a request when it does not is finding 3. Faults, timeouts and crashes are
  never required, so no property relies on one. Hashing threads finish.
* `gateway`: every layer of the middleware goes on when the one inside it is done
  (`Layer`). Nothing is owed by handlers, whose commit and rollback no timeout covers.
* `cache_article`: only reader `r1` is scheduled fairly; the other may stop
  anywhere, also holding the lock. `Deadline` is strongly fair because polling
  disables it again and again while the deadline is already past; it is the check
  at the head of the loop in `_await_loader`, which the clock makes true for good.
  `CacheHeals` assumes in its own antecedent that Redis expires bodies and locks; no
  other property needs it.
* `pagination`: the client keeps following its cursor.

## 6. Proofs

Assumptions are the named ASSUMEs of the modules: what `build_policies` and
`build_engine_kwargs` refuse to start without, finite sets of requests, and null
values outside their types. Every safety property of a passing run is a theorem.

**CircuitBreakerProofs**, for any number of callers and any policy: `TypeCorrect`,
`OpenFailsFast`, `OutageIsBounded`, and, for call timeouts shorter than the reset
interval, `HalfOpenSound`. None of them is inductive as it stands. The invariant
adds that a call running while the circuit is open is at least as old as the
circuit has been open (`StragglersAreOld`), that the interval has run for as long
as the circuit has been open unless such a straggler restarted it
(`IntervalTracksOpening`), and that `openFor` counts in the open state only
(`OnlyOpenCounts`); what the breaker's methods do to it is stated once, as lemmas
(`AllowFacts`, `SuccessFacts`, `FailureFacts`, `AgedFacts`). At the reset interval every straggler would be older than its
timeout, so there is none, and the calls that run are the probes.

**GuardedCallProofs**, for any number of callers and any accepted policy:
`TypeCorrect` and `Refinement`, that GuardedCall implements CircuitBreaker. The
mapping sends the callers in an attempt or a wait to `running` and keeps the breaker.
`Start`, `FailFast` and every way out are `Admit`, `Refuse` and `Report`; `Retry` and
`NextAttempt` stutter. The invariant it needs is small: a call at rest has no age
(`CallsAtRest`), since the abstract specification gives a call's age only while it
runs. (`OutageBounded` and the others of CircuitBreaker thereby hold of guarded calls
too; the prover cannot cite a theorem through INSTANCE, so that is not stated again.)
`AttemptsFit` is that under every accepted policy the waits leave time for every
attempt. Its invariant says that a call that has spent no tick inside an attempt is no
older than the waits behind it, and the one it is in, can add up to (`WaitsFit`); the
lemmas under it say that the recursive functions obey their equations (`PowersOfTwo`, `WaitsAddUp`) and
that the sum of fewer waits is at most `WorstCaseBackoff` (`WaitsBelowBudget`). The
induction they need is made by hand, on the least element of a set of counterexamples
(`LeastNatural`, `IntervalInduction`), since the library's induction theorems cannot
be instantiated here.

**ArticleWritesProofs**, for any number of requests, contents and attempts:
`TypeCorrect`, `LostUpdatesImpossible`, `DeletionIsFinal`, `AcksAreDurable`,
`RefusalsLeaveNoTrace`, `RefusalsTellTheTruth`, `Refinement`. The invariant: an uncommitted write
belongs to the holder of the row lock and the row is still the version its client
named (`WriterOwnsRow`); nothing is durable or invalidated before its commit
(`NothingBeforeCommit`); a delete that reached its commit still has its write,
because no read comes between (`DeleteKeepsWrite`).
`UpdatesAreDurableWithoutRetries` proves that with one attempt per read a 200 is
durable too: the retried read-back is the only cause of the lost update below.
`RefusalsTellTheTruth` needs its own invariant (`Truthful`): the client's token, the
transaction's snapshot and the row are versions in that order, a write is the row's
next version, and a compare-and-set that missed would miss again. A 409 then cannot
come from a snapshot in which the article still lived while its row is deleted under
the very token the client named, because that token would have to be older than the
snapshot's. `Refinement`, that ArticleWrites implements ArticleRegister, adds that an
uncommitted write is still what its statement would make of the row (`WritesReplace`):
the compare-and-set may be seen as happening at the commit. Commits are `Apply`, answers
are `Succeed`, `Refuse` and `Fail`, a crash is `Fail` without an answer, and the reads,
retries and statements in between stutter.

**GatewayProofs**, for any number of requests and any ceiling: `TypeCorrect`,
`SlotsNeverLeak`, `MetricsAreTrue`, `HandlersAreAuthorized`. The counter moves by
one exactly when the set of requests inside gains or loses one, so it stays the
set's cardinality (`SlotsAreHeld` carries itself once types are known).
`CountedAsAnswered` does not: the invariant adds what is true on the way, that every
count is 0 before the metrics layer and that from there on it is 1 for the status of
the response still to be sent and 0 for every other (`CountsMatch`).

**ConnectionPoolProofs**, for any number of requests and probes, any pool, overflow
and number of attempts: `TypeCorrect`, `SlotsNeverLeak`, `RowLockSound`,
`ReadinessIsTrue`. `SlotsAccounted` is inductive only together with where actors
are: the invariant adds that the places that need a connection have one and the
others none, but for a wait between attempts, which may or may not (`InPlace`), and
that a wait has an attempt to come (`WorkOK`). Every step then moves `idle`,
`overflow` and the cardinality of `holders` together. `ReadinessIsTrue` adds that a
probe is suspect from the moment a fault or a full pool meets its check (`Suspected`).

**AccountsProofs**, for any number of requests, emails, passwords and threads, and
whatever the two schemas make of a typed email:
`TypeCorrect`, `EmailsHaveOneOwner`, `RegistrationsAreUsable`. An uncommitted row
belongs to the one transaction about to commit it, and its email has no account yet
(`RowsOwned`); so a commit never touches an email that a 201, a registration about to
answer, or a known login names (`CommittedFacts`), which keeps `Owners` and
`KnownOnTrack`. The hashing queue lists the requests being hashed, each once
(`Queued`); lemmas on `Append` and `RemoveAt` show that submitting and finishing keep
it so, in whatever order threads finish.

**PaginationProofs**, for any rows, creation times, authors and page sizes:
`TypeCorrect`, `NoRowTwice`, `NoRowSkipped`. `UpTo` is declarative, so no induction
over pages is needed. The invariant says that the cursor is the oldest row shown
(`CursorPassed`), and that a matching row of every view so far a page was taken from
was shown or lies ahead of the cursor (`SteadyAhead`; when the walk ends nothing lies
ahead, `SteadyFound`). That the order is
total (`OlderTotal`, the id breaks ties) puts a row that a full page left out ahead
of the new cursor; that it is transitive (`OlderTransitive`) puts the next page
behind everything shown; that no write moves a row is `RowsStay`. `CursorRoundTrip`
and `CursorInjective` show for every time and id that a decoded cursor is the position
it was made from and that no two positions share one; the walk's proof rests on the
first, the cache keys of list pages on the second.

**ArticleCacheProofs**, for any number of readers and writers, any targets and kinds
of writes, and with or without failing commands: `TypeCorrect`, `OneTimeout`,
`PagesAreFresh`, `LateFillOnly`. Types already need an argument: a version is bounded
by the writes that have begun and a generation by those that have bumped it
(`Counted`), and each may only grow when its set does. `OneFailure` says that a command
is in flight only before its request's first failure. For `PagesAreFresh` the
invariant `Fresh` relates the store to the generations: nothing is filed under a
generation to come (`NothingAhead`), so the bump that settles a write opens an empty
one; what the current generation holds, or a reader is about to file there, is as new
as what is settled (`CurrentFresh`); and a reader that knows its generation finds
nothing older than its own arrival under its key, even if that generation has long
been bumped past (`KeyFresh`). The theorem assumes `CountersMayVanish = FALSE`, as the
run does, because with a counter that starts again it is false (section 7).
`LateFillOnly` needs no such assumption: what is confirmed of the article grows only in
the step that empties its key (`ArticleSettled`).

Only model-checked: liveness (`Recovery`, `CallsEnd`, `Answered`, `ReadsEnd`,
`CacheHeals`, `NobodyWaits`, `WalkEnds`, `ConnectionsReturn`, `RequestsEnd`),
because the proof system does not do fairness. The three findings are runs;
what the first refutes is proved for one attempt per read, where nothing is retried.

## 7. Findings

Each of the three has a run that ends in a counterexample.

1. **A PUT is answered 200 and lost** (`writes_lost_put`). `update()` reads the
   article back inside the transaction that holds the compare-and-set; a transient
   fault there rolls it back, the second attempt reads the old row, and the commit
   commits nothing. `guard.py:123` says a retried read "risks nothing".
2. **A healed read ends in a 500** (`writes_healed_500`). The rollback between
   attempts of the first load expires the actor; `_authorize` then reads its id
   outside the greenlet.
3. **A silent MySQL holds a request for ever** (`pool_silent`). The commit and the
   rollback of `get_session` (`session.py:128`, `:130`) run outside every guarded
   call, aiomysql has no read timeout, and `max_execution_time` covers SELECT only. A
   MySQL that stops answering with its connections open therefore holds the request,
   its connection and its row lock for as long as TCP does, although `README.md:10`
   says that every dependency failure becomes a status code instead of a hang, and
   ADR-0012:133 that it costs a bounded amount of time. In the scaled deployment
   nginx answers the client after 30 s; slot, connection and lock stay taken.

Smaller disagreements met while modelling, without a run of their own:

* Late failures restart an open circuit's interval, although ADR-0012:106 says ten
  seconds; `OutageBounded` bounds the excess.
* `seconds_until_probe` returns 0.0 for a half-open circuit although its docstring
  says never zero (`breaker.py:106`); the header is floored at one second.
* A call timeout at or above the reset interval is accepted, although then a late
  failure can reach a half-open circuit.
* The retries counter misses a retried call that the outer budget ended.
* A write that lost against a delete is answered 409, not 404, when the delete
  came after its snapshot (`article_service.py:233`).
* A generation counter that Redis lost counts through generations whose pages may
  still be cached; ADR-0010:96 says a lost counter never costs a stale read.
* When the open circuit refuses `get_generations` and admits the next command as its
  probe, the reader looks under generation 0, which `article_cache.py:152` calls a
  key nobody has written; it was written before the author's first bump.
* A late fill of the article key is stale for its TTL, although
  `docs/data/caching-strategy.md:110` says not the full TTL.
* A GET that misses keeps its connection while it fills the cache.
* A connection that fails while it is made frees a slot without waking who waits in
  the pool's queue, who then waits for the guard's timeout (`RequestsEnd` allows it).
* `health.py:4` says 503 only when MySQL is down; a full pool gives one as well.
* `metrics.py:403` says the overflow counts from `-max_overflow`; SQLAlchemy starts
  at `-pool_size`. The gauges are right either way.
* `DB_POOL_SIZE=0` is accepted, although `session.py:28` says that the forms
  SQLAlchemy reads as unbounded are refused.
* Of two registrations of one email that race, the loser is a 500 (`auth_service.py:31`)
  where FR-001 promises 409. The account is still unique.
* Registering `" a@b.com "` is a 201, since `EmailStr` trims (`schemas/auth.py:17`);
  logging in with the same input is a 401, since `LoginIn.email` is a plain `str` that
  is only lower-cased (`schemas/auth.py:33`). `docs/data/data-model.md:83` calls the
  login identifier "Normalized (trimmed, lowercased) by the application".
* A page of a walk may come from the cache and be older than the walk
  (`article_service.py:115`), so that a row which lived throughout is missing from the
  page it belongs to; the next cursor is past it and the walk never lists it.
* A rollback that raises (`session.py:130`) turns a refusal into a 500, and the
  after-commit queue is not discarded by `discard_after_commit` but goes with its
  session.
* A cursor with too many microseconds raises OverflowError (`pagination.py:39`), a
  500 where the module promises a 422.

## 8. Not modelled

* Task cancellation. A cancelled call reports nothing to its breaker; the server
  cancels requests only when it shuts down.
* `pool_pre_ping` and recycling, which are part of taking a connection.
* Codecs: JSON bodies, the decimal and base64 text of a cursor, JWTs, Argon2, ETag
  parsing beyond "missing or malformed".
* Read-only transactions' commits: a login or a GET commits nothing that any
  property could miss.
* The password policy (a pure function), configuration loading, the metrics, logs and
  traces no path reads, migrations, load-test scripts, nginx and containers.
* An article's foreign keys and users' deletion: no code path deletes a user.

## 9. Plan

Done: all modules of section 2, with eight proof modules.

Left, models:

1. A composition of ArticleWrites and ArticleCache: read-your-writes from a 200
   through the cache, with the lost invalidation of a crash.
2. Cancellation of requests at shutdown, and what it leaves uncounted in a breaker.

Left, proofs: of the two compositions, once they are modelled, that ArticleCache's
committed write is ArticleRegister's `Apply`.
