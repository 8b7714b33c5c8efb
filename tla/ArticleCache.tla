----------------------------- MODULE ArticleCache -----------------------------
(***************************************************************************)
(* The cache-aside read path and the invalidation of committed writes:     *)
(* ArticleService.get and list_articles, the callback that                 *)
(* _invalidate_after_commit queues, and ArticleCache with its per-request  *)
(* latch and the process-wide Redis breaker.                               *)
(*                                                                         *)
(* Three cached things stand for all of them: one article ("article"), a   *)
(* page of the unfiltered list ("all") and a page of that article's author *)
(* ("author").  What the database holds of each is a version number that   *)
(* a commit advances.  A page's key carries the generation counter that    *)
(* its reader saw; the article's key does not change and is written as     *)
(* generation 0.                                                           *)
(*                                                                         *)
(* A Redis command is two steps: Send asks the breaker, and the command    *)
(* takes effect when it is answered, any number of other steps later, or   *)
(* fails having taken effect or not.  Redis itself (external) may expire   *)
(* a page or a lock at any moment, and loses a counter only if             *)
(* CountersMayVanish.                                                      *)
(***************************************************************************)
EXTENDS Breaker, FiniteSets

CONSTANTS
    Readers, Writers,    \* GET requests, committed writes
    FairReaders,         \* readers that keep being scheduled; the others may stall
    Targets,             \* what the readers may ask for
    Kinds,               \* which writes happen
    CommandsMayFail,     \* whether a Redis command may fail or time out
    CountersMayVanish,   \* whether Redis may lose a generation counter
    NoValue              \* no such key; no answer

ASSUME CacheAssumption ==
    /\ IsFiniteSet(Readers) /\ IsFiniteSet(Writers)
    /\ Readers \cap Writers = {} /\ FairReaders \subseteq Readers
    /\ Targets \subseteq {"article", "all", "author"}
    /\ Kinds \subseteq {"create", "change"}
    /\ CommandsMayFail \in BOOLEAN /\ CountersMayVanish \in BOOLEAN

Cached == {"article", "all", "author"}
Lists  == {"all", "author"}
Agents == Readers \cup Writers

\* What a write changes: a create adds a row to the lists, an update or delete
\* changes the article too.
Affected(k) ==
    CASE k = "create" -> {"all", "author"}
      [] k = "change" -> {"article", "all", "author"}

\* One generation per write is the most a counter reaches.
Generations == 0 .. Cardinality(Writers)
Keys == Cached \X Generations
ArticleKey == <<"article", 0>>

VARIABLES
    db,        \* version of each cached thing in MySQL
    store,     \* the cached bodies, as the version they were built from
    locks,     \* keys whose single-flight lock is set
    gens,      \* the generation counters
    breaker,   \* the Redis breaker of this process
    pc, sent, latched,     \* per request: its place, a command in flight, _degraded
    target, gen, won, result,   \* per reader: what it asks for, the generation in
                                \* its key, whether it loads, the version it has
    kind, version,   \* per writer: what it does, what its commit made of db
    settled,   \* observer: the newest version whose invalidation Redis confirmed
    floor,     \* observer: settled when the reader of a list arrived
    blind,     \* observer: the open circuit kept the reader from the generations
    paid       \* observer: failed commands a request waited for

redis   == <<store, locks, gens>>
reading == <<target, gen, won, result>>
writing == <<kind, version>>
seen    == <<settled, floor, blind, paid>>
vars    == <<db, redis, breaker, pc, sent, latched, reading, writing, seen>>

ReaderCommands == {"gens", "get", "lock", "peek", "set", "release"}
WriterCommands == {"del", "incr_all", "incr_author"}
Commands == ReaderCommands \cup WriterCommands
Places == Commands \cup {"idle", "wait", "load", "commit", "done"}

Versions == 0 .. Cardinality(Writers)

TypeOK ==
    /\ db \in [Cached -> Versions]
    /\ store \in [Keys -> Versions \cup {NoValue}]
    /\ locks \in SUBSET Keys
    /\ gens \in [Lists -> Generations]
    /\ breaker \in BreakerRecord
    /\ pc \in [Agents -> Places]
    /\ sent \in [Agents -> BOOLEAN]
    /\ latched \in [Agents -> BOOLEAN]
    /\ target \in [Readers -> Cached]
    /\ gen \in [Readers -> Generations]
    /\ won \in [Readers -> BOOLEAN]
    /\ result \in [Readers -> Versions \cup {NoValue}]
    /\ kind \in [Writers -> {"create", "change"}]
    /\ version \in [Writers -> [Cached -> Versions]]
    /\ settled \in [Cached -> Versions]
    /\ floor \in [Readers -> Versions]
    /\ blind \in [Readers -> BOOLEAN]
    /\ paid \in [Agents -> Nat]

Init ==
    /\ db = [t \in Cached |-> 0]
    /\ store = [k \in Keys |-> NoValue]
    /\ locks = {}
    /\ gens = [l \in Lists |-> 0]
    /\ breaker = NewBreaker
    /\ pc = [a \in Agents |-> "idle"]
    /\ sent = [a \in Agents |-> FALSE]
    /\ latched = [a \in Agents |-> FALSE]
    /\ target = [r \in Readers |-> "article"]
    /\ gen = [r \in Readers |-> 0]
    /\ won = [r \in Readers |-> FALSE]
    /\ result = [r \in Readers |-> NoValue]
    /\ kind = [w \in Writers |-> "create"]
    /\ version = [w \in Writers |-> [t \in Cached |-> 0]]
    /\ floor = [r \in Readers |-> 0]
    /\ blind = [r \in Readers |-> FALSE]
    /\ paid = [a \in Agents |-> 0]
    /\ settled = [t \in Cached |-> 0]

-----------------------------------------------------------------------------
Key(r) == <<target[r], gen[r]>>

\* Mutant of StoreAfter: the DEL misses the article's key.
StoreAfterNoDelete(a) ==
    IF pc[a] = "set" THEN [store EXCEPT ![Key(a)] = result[a]] ELSE store

\* Mutant of StoreAfter: the page is filed under the generation of the moment.
StoreAfterRekeyed(a) ==
    CASE pc[a] = "set" /\ target[a] \in Lists ->
            [store EXCEPT ![<<target[a], gens[target[a]]>>] = result[a]]
      [] pc[a] = "set" /\ target[a] \notin Lists -> [store EXCEPT ![Key(a)] = result[a]]
      [] pc[a] = "del" /\ kind[a] = "change" -> [store EXCEPT ![ArticleKey] = NoValue]
      [] OTHER -> store

\* What the command a request has in flight does to Redis.
StoreAfter(a) ==
    CASE pc[a] = "set" -> [store EXCEPT ![Key(a)] = result[a]]
      [] pc[a] = "del" /\ kind[a] = "change" -> [store EXCEPT ![ArticleKey] = NoValue]
      [] OTHER -> store

LocksAfter(a) ==
    CASE pc[a] = "lock"    -> locks \cup {Key(a)}
      [] pc[a] = "release" -> locks \ {Key(a)}      \* DEL, whoever holds it now
      [] OTHER -> locks

GensAfter(a) ==
    CASE pc[a] = "incr_all" -> [gens EXCEPT !["all"] = @ + 1]
      [] pc[a] = "incr_author" -> [gens EXCEPT !["author"] = @ + 1]
      [] OTHER -> gens

TakeEffect(a) ==
    /\ store' = StoreAfter(a)
    /\ locks' = LocksAfter(a)
    /\ gens' = GensAfter(a)

\* Where a request goes when a command was not sent or was not answered: every
\* read is a miss, the generations are 0, the lock counts as won.
Onward(a) ==
    CASE pc[a] = "gens" -> "get"
      [] pc[a] = "get"  -> "lock"
      [] pc[a] = "lock" -> "load"
      [] pc[a] = "peek" -> "wait"
      [] pc[a] = "set" /\ won[a] -> "release"
      [] pc[a] = "del"  -> "incr_all"
      [] OTHER -> "done"

GoOnWithout(a) ==
    /\ pc' = [pc EXCEPT ![a] = Onward(a)]
    /\ won' = IF pc[a] = "lock" THEN [won EXCEPT ![a] = TRUE] ELSE won
    /\ UNCHANGED <<db, target, gen, result, writing, settled, floor>>

-----------------------------------------------------------------------------
\* A GET arrives: the article, or a list, which starts with its generation.
ReadArrives(r) ==
    /\ pc[r] = "idle"
    /\ \E t \in Targets :
          /\ target' = [target EXCEPT ![r] = t]
          /\ pc' = [pc EXCEPT ![r] = IF t \in Lists THEN "gens" ELSE "get"]
          /\ floor' = [floor EXCEPT ![r] = IF t \in Lists THEN settled[t] ELSE 0]
    /\ UNCHANGED <<db, redis, breaker, sent, latched, gen, won, result, writing,
                   settled, blind, paid>>

\* A write commits (ArticleWrites) and get_session drains its queue.
WriteCommits(w) ==
    /\ pc[w] = "idle"
    /\ \E k \in Kinds :
          /\ kind' = [kind EXCEPT ![w] = k]
          /\ db' = [t \in Cached |-> IF t \in Affected(k) THEN db[t] + 1 ELSE db[t]]
          /\ pc' = [pc EXCEPT ![w] = IF k = "create" THEN "incr_all" ELSE "del"]
    /\ version' = [version EXCEPT ![w] = db']
    /\ UNCHANGED <<redis, breaker, sent, latched, reading, seen>>

\* _live() says yes and the command goes out.
Send(a) ==
    /\ pc[a] \in Commands /\ ~ sent[a]
    /\ ~ latched[a]
    /\ Admits(breaker)
    /\ breaker' = AfterAllow(breaker)
    /\ sent' = [sent EXCEPT ![a] = TRUE]
    /\ UNCHANGED <<db, redis, pc, latched, reading, writing, seen>>

\* _live() says no: latched by an earlier failure, or the circuit is open.
Skip(a) ==
    /\ pc[a] \in Commands /\ ~ sent[a]
    /\ latched[a] \/ ~ Admits(breaker)
    /\ GoOnWithout(a)
    /\ blind' = IF pc[a] = "gens" THEN [blind EXCEPT ![a] = TRUE] ELSE blind
    /\ UNCHANGED <<redis, breaker, sent, latched, paid>>

\* Mutant of CommandFails: no latch.
CommandFailsUnlatched(a) ==
    /\ CommandsMayFail
    /\ sent[a]
    /\ TakeEffect(a) \/ UNCHANGED redis
    /\ breaker' = RecordFailure(breaker)
    /\ sent' = [sent EXCEPT ![a] = FALSE]
    /\ paid' = [paid EXCEPT ![a] = @ + 1]
    /\ GoOnWithout(a)
    /\ UNCHANGED <<latched, blind>>

\* _degrade(): the command failed, before or after Redis carried it out.
CommandFails(a) ==
    /\ CommandsMayFail
    /\ sent[a]
    /\ TakeEffect(a) \/ UNCHANGED redis
    /\ breaker' = RecordFailure(breaker)
    /\ sent' = [sent EXCEPT ![a] = FALSE]
    /\ latched' = [latched EXCEPT ![a] = TRUE]
    /\ paid' = [paid EXCEPT ![a] = @ + 1]
    /\ GoOnWithout(a)
    /\ UNCHANGED blind

\* Redis answered: the command took effect and _succeed() reports it.
CommandAnswered(a, next) ==
    /\ sent[a]
    /\ sent' = [sent EXCEPT ![a] = FALSE]
    /\ breaker' = RecordSuccess(breaker)
    /\ pc' = [pc EXCEPT ![a] = next]
    /\ UNCHANGED <<db, latched, target, writing, floor, blind, paid>>

GotGenerations(r) ==
    /\ pc[r] = "gens"
    /\ CommandAnswered(r, "get")
    /\ gen' = [gen EXCEPT ![r] = gens[target[r]]]
    /\ UNCHANGED <<redis, won, result, settled>>

\* get_article, get_list_page or peek: a hit ends the read.
Hit(r) ==
    /\ pc[r] \in {"get", "peek"}
    /\ store[Key(r)] # NoValue
    /\ CommandAnswered(r, "done")
    /\ result' = [result EXCEPT ![r] = store[Key(r)]]
    /\ UNCHANGED <<redis, gen, won, settled>>

Miss(r) ==
    /\ pc[r] \in {"get", "peek"}
    /\ store[Key(r)] = NoValue
    /\ CommandAnswered(r, Onward(r))
    /\ UNCHANGED <<redis, gen, won, result, settled>>

\* acquire_lock: SET NX.
LockWon(r) ==
    /\ pc[r] = "lock"
    /\ Key(r) \notin locks
    /\ CommandAnswered(r, "load")
    /\ TakeEffect(r)
    /\ won' = [won EXCEPT ![r] = TRUE]
    /\ UNCHANGED <<gen, result, settled>>

LockLost(r) ==
    /\ pc[r] = "lock"
    /\ Key(r) \in locks
    /\ CommandAnswered(r, "wait")
    /\ UNCHANGED <<redis, gen, won, result, settled>>

\* _await_loader: sleep and poll, until the deadline.
Poll(r) ==
    /\ pc[r] = "wait"
    /\ pc' = [pc EXCEPT ![r] = "peek"]
    /\ UNCHANGED <<db, redis, breaker, sent, latched, reading, writing, seen>>

\* Mutant of Deadline: wait until the loader releases its lock.
DeadlineAwaitsRelease(r) ==
    /\ pc[r] = "wait"
    /\ Key(r) \notin locks
    /\ pc' = [pc EXCEPT ![r] = "load"]
    /\ UNCHANGED <<db, redis, breaker, sent, latched, reading, writing, seen>>

Deadline(r) ==
    /\ pc[r] = "wait"
    /\ pc' = [pc EXCEPT ![r] = "load"]
    /\ UNCHANGED <<db, redis, breaker, sent, latched, reading, writing, seen>>

\* _load or _load_page reads MySQL; it may raise (404, 503, 504), and then only
\* the finally clause runs.
Load(r) ==
    /\ pc[r] = "load"
    /\ result' = [result EXCEPT ![r] = db[target[r]]]
    /\ pc' = [pc EXCEPT ![r] = "set"]
    /\ UNCHANGED <<db, redis, breaker, sent, latched, target, gen, won, writing, seen>>

LoadFails(r) ==
    /\ pc[r] = "load"
    /\ pc' = [pc EXCEPT ![r] = IF won[r] THEN "release" ELSE "done"]
    /\ UNCHANGED <<db, redis, breaker, sent, latched, reading, writing, seen>>

Stored(r) ==
    /\ pc[r] \in {"set", "release"}
    /\ CommandAnswered(r, Onward(r))
    /\ TakeEffect(r)
    /\ UNCHANGED <<gen, won, result, settled>>

\* An invalidation command was carried out: what the readers may ask for is
\* settled up to w's write.
Settle(w, t) ==
    settled' = [settled EXCEPT ![t] =
                  IF t \in Targets /\ version[w][t] > @ THEN version[w][t] ELSE @]

ArticleDeleted(w) ==
    /\ pc[w] = "del"
    /\ CommandAnswered(w, "incr_all")
    /\ TakeEffect(w)
    /\ IF kind[w] = "change" THEN Settle(w, "article") ELSE UNCHANGED settled
    /\ UNCHANGED <<gen, won, result>>

\* bump_generations sends both INCRs under one admission of the breaker.
GlobalBumped(w) ==
    /\ pc[w] = "incr_all" /\ sent[w]
    /\ pc' = [pc EXCEPT ![w] = "incr_author"]
    /\ TakeEffect(w)
    /\ Settle(w, "all")
    /\ UNCHANGED <<db, breaker, sent, latched, reading, writing, floor, blind, paid>>

AuthorBumped(w) ==
    /\ pc[w] = "incr_author"
    /\ CommandAnswered(w, "done")
    /\ TakeEffect(w)
    /\ Settle(w, "author")
    /\ UNCHANGED <<gen, won, result>>

\* Redis and the clock, on their own.
Expire(k) ==
    /\ store[k] # NoValue
    /\ store' = [store EXCEPT ![k] = NoValue]
    /\ UNCHANGED <<db, locks, gens, breaker, pc, sent, latched, reading, writing, seen>>

\* Mutant of LockExpires: SET NX without EX.
LockStays(k) ==
    /\ k \in locks
    /\ UNCHANGED vars

LockExpires(k) ==
    /\ k \in locks
    /\ locks' = locks \ {k}
    /\ UNCHANGED <<db, store, gens, breaker, pc, sent, latched, reading, writing, seen>>

CounterVanishes(l) ==
    /\ CountersMayVanish
    /\ gens[l] > 0
    /\ gens' = [gens EXCEPT ![l] = 0]
    /\ UNCHANGED <<db, store, locks, breaker, pc, sent, latched, reading, writing, seen>>

\* The replica dies and starts again: what it was doing ends where it was, also
\* between a commit and its invalidation, and its breaker is new.  A command in
\* flight that Redis carries out all the same is a CommandFails before this.
Crash ==
    /\ \E a \in Agents : pc[a] \notin {"idle", "done"}
    /\ pc' = [a \in Agents |-> IF pc[a] = "idle" THEN "idle" ELSE "done"]
    /\ sent' = [a \in Agents |-> FALSE]
    /\ latched' = [a \in Agents |-> FALSE]
    /\ target' = [r \in Readers |-> "article"]
    /\ gen' = [r \in Readers |-> 0]
    /\ won' = [r \in Readers |-> FALSE]
    /\ result' = [r \in Readers |-> NoValue]
    /\ kind' = [w \in Writers |-> "create"]
    /\ version' = [w \in Writers |-> [t \in Cached |-> 0]]
    /\ floor' = [r \in Readers |-> 0]
    /\ blind' = [r \in Readers |-> FALSE]
    /\ paid' = [a \in Agents |-> 0]
    /\ breaker' = NewBreaker
    /\ UNCHANGED <<db, redis, settled>>

Tick ==
    /\ breaker' = Aged(breaker)
    /\ UNCHANGED <<db, redis, pc, sent, latched, reading, writing, seen>>

ReaderStep(r) ==
    \/ Send(r) \/ Skip(r) \/ CommandFails(r)
    \/ GotGenerations(r) \/ Hit(r) \/ Miss(r) \/ LockWon(r) \/ LockLost(r)
    \/ Poll(r) \/ Deadline(r) \/ Load(r) \/ LoadFails(r) \/ Stored(r)

WriterStep(w) ==
    \/ Send(w) \/ Skip(w) \/ CommandFails(w)
    \/ ArticleDeleted(w) \/ GlobalBumped(w) \/ AuthorBumped(w)

Next ==
    \/ \E r \in Readers : ReadArrives(r) \/ ReaderStep(r)
    \/ \E w \in Writers : WriteCommits(w) \/ WriterStep(w)
    \/ \E k \in Keys : Expire(k) \/ LockExpires(k)
    \/ \E l \in Lists : CounterVanishes(l)
    \/ Crash \/ Tick

Spec == Init /\ [][Next]_vars

\* A fair reader's own steps: its coroutine is scheduled, a command is answered
\* or times out, and the deadline of _await_loader, once past, is seen.  Nothing
\* is assumed of the other requests, in particular of one that holds the lock.
FairSpec ==
    /\ Spec
    /\ \A r \in FairReaders : WF_vars(ReaderStep(r)) /\ SF_vars(Deadline(r))

-----------------------------------------------------------------------------
\* A list page is never older than the writes that were invalidated before its
\* reader arrived, although fills, bumps, expiries, failed commands and blind
\* lock releases interleave freely: generations only grow, and a page under a
\* generation was loaded after that generation was read.
ListReadsFresh ==
    \A r \in Readers :
        pc[r] = "done" /\ target[r] \in Lists /\ ~ blind[r] /\ result[r] # NoValue
            => result[r] >= floor[r]

\* The article's key has no generation.  It holds a body older than a confirmed
\* DEL only through one step: the SET of a reader that loaded before the commit
\* and was still on its way when the DEL ran.
ArticleStale ==
    store[ArticleKey] # NoValue /\ store[ArticleKey] < settled["article"]

StaleOnlyByLateFill ==
    [][~ ArticleStale /\ ArticleStale' =>
         \E r \in Readers :
            pc[r] = "set" /\ target[r] = "article" /\ result[r] < settled["article"]]_vars

\* A request waits for at most one failed command, however many it makes.
OneTimeoutPerRequest ==
    \A a \in Agents : paid[a] <= 1

\* A read ends whatever the other requests do: a loader that never releases its
\* lock costs the loser a duplicate query, not its answer.
ReadsEnd ==
    \A r \in FairReaders : pc[r] \in {"gens", "get"} ~> pc[r] = "done"

\* Every key that was written with a TTL goes, unless it is written again.
RedisExpires ==
    WF_vars(\E k \in Keys : Expire(k)) /\ WF_vars(\E k \in Keys : LockExpires(k))

\* A replica may die between a commit and its invalidation, or with a lock in
\* its hand.  Redis outlives it, but as everything a request writes there has a
\* TTL, neither the old body nor the lock stays.
CacheHeals ==
    RedisExpires => <>[](locks = {} /\ store[ArticleKey] \in {NoValue, db["article"]})

=============================================================================
