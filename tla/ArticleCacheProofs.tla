-------------------------- MODULE ArticleCacheProofs --------------------------
(*****************************************************************************)
(* The cache-aside read path for any number of readers and writers, any      *)
(* set of targets and kinds of writes, with and without command failures.    *)
(*                                                                           *)
(* Inv is what every step keeps: the types, where a request can be, one      *)
(* failed command per request, and that neither a version nor a generation   *)
(* outgrows the writes that made it.  Fresh, on top of it, is why a list     *)
(* page is not stale: nothing is filed under a generation to come, and what  *)
(* is filed, or about to be, under the current one is as new as what is      *)
(* settled.                                                                  *)
(*****************************************************************************)
EXTENDS ArticleCache, FiniteSetTheorems, TLAPS

\* Where the two kinds of requests can be, and what has not happened yet there.
InPlace ==
    /\ \A r \in Readers : pc[r] \in ReaderCommands \cup {"idle", "wait", "load", "done"}
    /\ \A w \in Writers : pc[w] \in WriterCommands \cup {"idle", "done"}
    /\ \A r \in Readers :
          /\ pc[r] = "idle" => gen[r] = 0 /\ result[r] = NoValue
          /\ pc[r] = "gens" => target[r] \in Lists
          /\ pc[r] = "set" => result[r] \in Versions

\* A command is in flight only before the request's first failure.
OneFailure ==
    \A a \in Agents :
        /\ sent[a] => ~ latched[a] /\ pc[a] \in Commands
        /\ paid[a] <= 1
        /\ paid[a] = 1 => latched[a]

\* Every version is a write that committed, every generation one that went on
\* to bump the counter.
Begun == {w \in Writers : pc[w] # "idle"}
Bumped(l) ==
    {w \in Writers : pc[w] = "done" \/ (l = "all" /\ pc[w] = "incr_author")}

Counted ==
    /\ \A t \in Cached : db[t] <= Cardinality(Begun)
    /\ \A l \in Lists : gens[l] <= Cardinality(Bumped(l))

Inv == TypeOK /\ InPlace /\ OneFailure /\ Counted

-----------------------------------------------------------------------------
\* What is settled, and what a writer settles, the database has.
SettledCommitted ==
    \A t \in Cached :
        /\ settled[t] <= db[t]
        /\ \A w \in Writers : version[w][t] <= db[t]

\* Nothing is filed under a generation to come.
NothingAhead ==
    /\ \A l \in Lists, g \in Generations : g > gens[l] => store[<<l, g>>] = NoValue
    /\ \A r \in Readers : target[r] \in Lists => gen[r] <= gens[target[r]]

\* What the current generation holds, or is about to get, is as new as what is
\* settled.
CurrentFresh ==
    \A l \in Lists :
        /\ store[<<l, gens[l]>>] # NoValue => store[<<l, gens[l]>>] >= settled[l]
        /\ \A q \in Readers :
              pc[q] = "set" /\ target[q] = l /\ gen[q] = gens[l] => result[q] >= settled[l]

\* A reader that got its generation from Redis and may still ask.
Knows(r) ==
    /\ target[r] \in Lists /\ ~ blind[r] /\ ~ latched[r]
    /\ pc[r] \in {"get", "lock", "wait", "peek"}

\* What it may find under its key is no older than its arrival, nor is what
\* anybody is about to put there.
KeyFresh ==
    \A r \in Readers : Knows(r) =>
        /\ store[Key(r)] # NoValue => store[Key(r)] >= floor[r]
        /\ \A q \in Readers : pc[q] = "set" /\ Key(q) = Key(r) => result[q] >= floor[r]

\* What it has is no older, and its arrival was no later than now.
ReadFresh ==
    \A r \in Readers : target[r] \in Lists =>
        /\ floor[r] <= settled[target[r]]
        /\ ~ blind[r] /\ result[r] # NoValue => result[r] >= floor[r]

Fresh == SettledCommitted /\ NothingAhead /\ CurrentFresh /\ KeyFresh /\ ReadFresh
-----------------------------------------------------------------------------
ReaderPlaces == ReaderCommands \cup {"idle", "wait", "load", "done"}
WriterPlaces == WriterCommands \cup {"idle", "done"}

\* A new breaker is one, and asking it, reporting to it and time keep it one.
LEMMA BreakerTyped ==
    /\ NewBreaker \in BreakerRecord
    /\ \A b \in BreakerRecord :
          /\ AfterAllow(b) \in BreakerRecord
          /\ RecordSuccess(b) \in BreakerRecord
          /\ RecordFailure(b) \in BreakerRecord
          /\ Aged(b) \in BreakerRecord
<1> USE BreakerAssumption DEF BreakerRecord, BreakerState
<1>1. NewBreaker \in BreakerRecord
  BY DEF NewBreaker
<1>2. ASSUME NEW b \in BreakerRecord
      PROVE  /\ AfterAllow(b) \in BreakerRecord
             /\ RecordSuccess(b) \in BreakerRecord
             /\ RecordFailure(b) \in BreakerRecord
             /\ Aged(b) \in BreakerRecord
  <2>1. AfterAllow(b) \in BreakerRecord
    BY DEF AfterAllow, Admits, Woken, ToHalfOpen
  <2>2. RecordSuccess(b) \in BreakerRecord
    BY DEF RecordSuccess, ToClosed
  <2>3. RecordFailure(b) \in BreakerRecord
    BY DEF RecordFailure, ToOpen
  <2>4. Aged(b) \in BreakerRecord
    BY DEF Aged
  <2> QED  BY <2>1, <2>2, <2>3, <2>4
<1> QED  BY <1>1, <1>2

\* The writers can be counted, and a larger set of them is more writers.
LEMMA WritersCounted ==
    /\ Cardinality(Writers) \in Nat
    /\ 0 \in Versions /\ 0 \in Generations
    /\ \A S \in SUBSET Writers :
          /\ Cardinality(S) \in 0 .. Cardinality(Writers)
          /\ \A T \in SUBSET S : Cardinality(T) <= Cardinality(S)
          /\ \A w \in Writers \ S : Cardinality(S \cup {w}) = Cardinality(S) + 1
<1>1. IsFiniteSet(Writers) /\ Cardinality(Writers) \in Nat
  BY CacheAssumption, FS_CardinalityType
<1>2. ASSUME NEW S \in SUBSET Writers
      PROVE  /\ Cardinality(S) \in 0 .. Cardinality(Writers)
             /\ \A T \in SUBSET S : Cardinality(T) <= Cardinality(S)
             /\ \A w \in Writers \ S : Cardinality(S \cup {w}) = Cardinality(S) + 1
  <2>1. IsFiniteSet(S) /\ Cardinality(S) <= Cardinality(Writers)
    BY <1>1, FS_Subset
  <2>2. Cardinality(S) \in Nat
    BY <2>1, FS_CardinalityType
  <2>3. \A T \in SUBSET S : Cardinality(T) <= Cardinality(S)
    BY <2>1, FS_Subset
  <2>4. \A w \in Writers \ S : Cardinality(S \cup {w}) = Cardinality(S) + 1
    BY <2>1, FS_AddElement
  <2> QED  BY <1>1, <2>1, <2>2, <2>3, <2>4
<1> QED  BY <1>1, <1>2 DEF Versions, Generations

\* Where a command that was not answered sends its request.
LEMMA Onwards ==
    ASSUME NEW a
    PROVE  /\ pc[a] = "gens" => Onward(a) = "get"
           /\ pc[a] = "get" => Onward(a) = "lock"
           /\ pc[a] = "lock" => Onward(a) = "load"
           /\ pc[a] = "peek" => Onward(a) = "wait"
           /\ pc[a] = "set" => Onward(a) \in {"release", "done"}
           /\ pc[a] = "del" => Onward(a) = "incr_all"
           /\ pc[a] \in {"release", "incr_all", "incr_author"} => Onward(a) = "done"
  BY DEF Onward

\* A reader's command writes under its own key, if it is the SET.
LEMMA ReaderEffect ==
    ASSUME TypeOK, InPlace, NEW r \in Readers, TakeEffect(r)
    PROVE  /\ gens' = gens
           /\ locks' \in SUBSET Keys
           /\ pc[r] = "set" => store' = [store EXCEPT ![Key(r)] = result[r]]
           /\ pc[r] # "set" => store' = store
           /\ store' \in [Keys -> Versions \cup {NoValue}]
<1>1. pc[r] \notin {"del", "incr_all", "incr_author"}
  BY DEF InPlace, ReaderCommands
<1>2. gens' = gens
  BY <1>1 DEF TakeEffect, GensAfter
<1>3. Key(r) \in Keys
  BY DEF TypeOK, Key, Keys
<1>4. locks' \in SUBSET Keys
  BY <1>3 DEF TakeEffect, LocksAfter, TypeOK
<1>5. /\ pc[r] = "set" => store' = [store EXCEPT ![Key(r)] = result[r]]
      /\ pc[r] # "set" => store' = store
  BY <1>1 DEF TakeEffect, StoreAfter
<1>6. store' \in [Keys -> Versions \cup {NoValue}]
  BY <1>3, <1>5 DEF TypeOK
<1> QED  BY <1>2, <1>4, <1>5, <1>6

\* A writer's command deletes the article or bumps a counter.
LEMMA WriterEffect ==
    ASSUME TypeOK, InPlace, NEW w \in Writers, TakeEffect(w)
    PROVE  /\ locks' = locks
           /\ pc[w] = "del" /\ kind[w] = "change" =>
                 store' = [store EXCEPT ![ArticleKey] = NoValue]
           /\ ~ (pc[w] = "del" /\ kind[w] = "change") => store' = store
           /\ pc[w] = "incr_all" => gens' = [gens EXCEPT !["all"] = gens["all"] + 1]
           /\ pc[w] = "incr_author" =>
                 gens' = [gens EXCEPT !["author"] = gens["author"] + 1]
           /\ pc[w] \notin {"incr_all", "incr_author"} => gens' = gens
           /\ store' \in [Keys -> Versions \cup {NoValue}]
<1>1. pc[w] \notin {"set", "lock", "release"}
  BY DEF InPlace, WriterCommands
<1>2. locks' = locks
  BY <1>1 DEF TakeEffect, LocksAfter
<1>3. /\ pc[w] = "incr_all" => gens' = [gens EXCEPT !["all"] = gens["all"] + 1]
      /\ pc[w] = "incr_author" => gens' = [gens EXCEPT !["author"] = gens["author"] + 1]
      /\ pc[w] \notin {"incr_all", "incr_author"} => gens' = gens
  BY DEF TakeEffect, GensAfter
<1>4. /\ pc[w] = "del" /\ kind[w] = "change" =>
            store' = [store EXCEPT ![ArticleKey] = NoValue]
      /\ ~ (pc[w] = "del" /\ kind[w] = "change") => store' = store
  BY <1>1 DEF TakeEffect, StoreAfter
<1>5. store' \in [Keys -> Versions \cup {NoValue}]
  BY <1>4 DEF TypeOK
<1> QED  BY <1>2, <1>3, <1>4, <1>5

\* Nothing is stored, counted or under way at first.
LEMMA InitInv == Init => Inv
<1> SUFFICES ASSUME Init PROVE Inv
  OBVIOUS
<1> USE WritersCounted, BreakerTyped
<1>1. TypeOK
  BY DEF Init, TypeOK, Lists, Cached, Places
<1>2. InPlace /\ OneFailure
  BY DEF Init, InPlace, OneFailure, Agents
<1>3. Counted
  <2>1. \A l : Cardinality(Bumped(l)) >= 0 /\ Cardinality(Begun) >= 0
    BY DEF Bumped, Begun
  <2> QED  BY <2>1 DEF Init, Counted
<1> QED  BY <1>1, <1>2, <1>3 DEF Inv

-----------------------------------------------------------------------------
\* A request that goes on without its command, answered or not, goes where its
\* kind can be, and never back to its beginning or to a SET.
LEMMA OnwardPlaces ==
    ASSUME Inv
    PROVE  /\ \A r \in Readers : pc[r] \in Commands =>
                 Onward(r) \in {"get", "lock", "load", "wait", "release", "done"}
           /\ \A w \in Writers : pc[w] \in Commands => Onward(w) \in {"incr_all", "done"}
<1>1. ASSUME NEW r \in Readers, pc[r] \in Commands
      PROVE  Onward(r) \in {"get", "lock", "load", "wait", "release", "done"}
  <2>1. pc[r] \in ReaderCommands
    BY <1>1 DEF Inv, InPlace, Commands, ReaderCommands, WriterCommands
  <2> QED  BY <2>1, Onwards DEF ReaderCommands
<1>2. ASSUME NEW w \in Writers, pc[w] \in Commands PROVE Onward(w) \in {"incr_all", "done"}
  <2>1. pc[w] \in WriterCommands
    BY <1>2 DEF Inv, InPlace, Commands, ReaderCommands, WriterCommands
  <2> QED  BY <2>1, Onwards DEF WriterCommands
<1> QED  BY <1>1, <1>2

\* What a step must do to a request's place, and to a reader's own variables,
\* for everybody to stay in place.
LEMMA StaysInPlace ==
    ASSUME Inv, NEW a \in Agents, NEW p, pc' = [pc EXCEPT ![a] = p],
           a \in Readers => p \in ReaderPlaces \ {"idle"},
           a \in Writers => p \in WriterPlaces,
           \A r \in Readers \ {a} :
              gen'[r] = gen[r] /\ result'[r] = result[r] /\ target'[r] = target[r],
           p = "gens" => target'[a] \in Lists,
           p = "set" => result'[a] \in Versions
    PROVE  InPlace'
<1> USE DEF Inv, TypeOK
<1>1. pc'[a] = p /\ \A b \in Agents \ {a} : pc'[b] = pc[b]
  OBVIOUS
<1>2. \A r \in Readers : pc'[r] \in ReaderPlaces
  BY <1>1 DEF InPlace, ReaderPlaces, Agents
<1>3. \A w \in Writers : pc'[w] \in WriterPlaces
  BY <1>1 DEF InPlace, WriterPlaces, Agents
<1>4. ASSUME NEW r \in Readers
      PROVE  /\ pc'[r] = "idle" => gen'[r] = 0 /\ result'[r] = NoValue
             /\ pc'[r] = "gens" => target'[r] \in Lists
             /\ pc'[r] = "set" => result'[r] \in Versions
  BY <1>1 DEF InPlace, Agents
<1> QED  BY <1>2, <1>3, <1>4 DEF InPlace, ReaderPlaces, WriterPlaces

\* A request asks, or goes on unasked.
LEMMA AskInv ==
    ASSUME Inv, NEW a \in Agents, Send(a) \/ Skip(a)
    PROVE  TypeOK' /\ InPlace' /\ OneFailure'
<1>1. CASE Send(a)
  <2>1. TypeOK'
    BY <1>1, BreakerTyped DEF Send, Inv, TypeOK, redis, reading, writing, seen
  <2>2. InPlace'
    BY <1>1 DEF Send, Inv, InPlace, redis, reading, writing, seen
  <2>3. OneFailure'
    BY <1>1 DEF Send, Inv, TypeOK, OneFailure, seen
  <2> QED  BY <2>1, <2>2, <2>3
<1>2. CASE Skip(a)
  <2>1. /\ a \in Readers => Onward(a) \in {"get", "lock", "load", "wait", "release", "done"}
        /\ a \in Writers => Onward(a) \in {"incr_all", "done"}
    BY <1>2, OnwardPlaces DEF Skip
  <2>2. a \notin Readers => pc[a] \notin {"gens", "lock"}
    BY DEF Inv, InPlace, Agents, WriterCommands
  <2>3. TypeOK'
    BY <1>2, <2>1, <2>2 DEF Skip, GoOnWithout, Inv, TypeOK, redis, writing, Agents,
       Places, Commands, ReaderCommands, WriterCommands
  <2>4. InPlace'
    <3>1. Onward(a) \notin {"idle", "gens", "set"}
      BY <2>1 DEF Agents
    <3>2. /\ pc' = [pc EXCEPT ![a] = Onward(a)]
          /\ gen' = gen /\ result' = result /\ target' = target
      BY <1>2 DEF Skip, GoOnWithout
    <3> QED
      BY <2>1, <3>1, <3>2, StaysInPlace
      DEF ReaderPlaces, WriterPlaces, ReaderCommands, WriterCommands
  <2>5. OneFailure'
    BY <1>2 DEF Skip, GoOnWithout, Inv, TypeOK, OneFailure
  <2> QED  BY <2>3, <2>4, <2>5
<1> QED  BY <1>1, <1>2

\* A command that fails is the request's first to fail, and its last to go out.
LEMMA FailureInv ==
    ASSUME Inv, NEW a \in Agents, CommandFails(a),
           store' \in [Keys -> Versions \cup {NoValue}],
           locks' \in SUBSET Keys, gens' \in [Lists -> Generations]
    PROVE  TypeOK' /\ InPlace' /\ OneFailure'
<1>1. pc[a] \in Commands /\ ~ latched[a]
  BY DEF CommandFails, Inv, OneFailure
<1>2. /\ a \in Readers => Onward(a) \in {"get", "lock", "load", "wait", "release", "done"}
      /\ a \in Writers => Onward(a) \in {"incr_all", "done"}
  BY <1>1, OnwardPlaces
<1>3. a \notin Readers => pc[a] # "lock"
  BY DEF Inv, InPlace, Agents, WriterCommands
<1>4. TypeOK'
  BY <1>2, <1>3, BreakerTyped
  DEF CommandFails, GoOnWithout, Inv, TypeOK, writing, Agents,
      Places, Commands, ReaderCommands, WriterCommands
<1>5. InPlace'
  <2>1. Onward(a) \notin {"idle", "gens", "set"}
    BY <1>2 DEF Agents
  <2>2. /\ pc' = [pc EXCEPT ![a] = Onward(a)]
        /\ gen' = gen /\ result' = result /\ target' = target
    BY DEF CommandFails, GoOnWithout
  <2> QED
    BY <1>2, <2>1, <2>2, StaysInPlace
    DEF ReaderPlaces, WriterPlaces, ReaderCommands, WriterCommands
<1>6. OneFailure'
  <2>1. paid[a] = 0
    <3>1. paid[a] \in Nat
      BY DEF Inv, TypeOK
    <3>2. paid[a] <= 1 /\ paid[a] # 1
      BY <1>1 DEF Inv, OneFailure
    <3> QED  BY <3>1, <3>2
  <2>2. /\ sent'[a] = FALSE /\ latched'[a] = TRUE /\ paid'[a] = 1
        /\ \A b \in Agents \ {a} : /\ sent'[b] = sent[b] /\ latched'[b] = latched[b]
                                    /\ paid'[b] = paid[b] /\ pc'[b] = pc[b]
    BY <2>1 DEF CommandFails, GoOnWithout, Inv, TypeOK
  <2> QED  BY <2>2 DEF Inv, OneFailure
<1> QED  BY <1>4, <1>5, <1>6

\* So is one that was answered.
LEMMA AnswerInv ==
    ASSUME Inv, NEW a \in Agents, NEW p, CommandAnswered(a, p),
           a \in Readers => p \in ReaderPlaces \ {"idle", "gens", "set"},
           a \in Writers => p \in WriterPlaces,
           store' \in [Keys -> Versions \cup {NoValue}],
           locks' \in SUBSET Keys, gens' \in [Lists -> Generations],
           gen' \in [Readers -> Generations], won' \in [Readers -> BOOLEAN],
           result' \in [Readers -> Versions \cup {NoValue}],
           settled' \in [Cached -> Versions],
           \A r \in Readers \ {a} : gen'[r] = gen[r] /\ result'[r] = result[r]
    PROVE  TypeOK' /\ InPlace' /\ OneFailure'
<1>1. TypeOK'
  BY BreakerTyped
  DEF CommandAnswered, Inv, TypeOK, writing, Agents, Places, Commands,
      ReaderPlaces, WriterPlaces
<1>2. InPlace'
  BY StaysInPlace DEF CommandAnswered, WriterPlaces, WriterCommands, Agents
<1>3. OneFailure'
  BY DEF CommandAnswered, Inv, TypeOK, OneFailure
<1> QED  BY <1>1, <1>2, <1>3

\* A reader's own step keeps every type and place.
LEMMA ReaderInv ==
    ASSUME Inv, NEW r \in Readers, ReadArrives(r) \/ ReaderStep(r)
    PROVE  TypeOK' /\ InPlace' /\ OneFailure'
<1>a. r \in Agents /\ r \notin Writers
  BY CacheAssumption DEF Agents
<1> USE <1>a
<1>1. CASE ReadArrives(r)
  <2>1. PICK t \in Targets :
           /\ target' = [target EXCEPT ![r] = t]
           /\ pc' = [pc EXCEPT ![r] = IF t \in Lists THEN "gens" ELSE "get"]
           /\ floor' = [floor EXCEPT ![r] = IF t \in Lists THEN settled[t] ELSE 0]
    BY <1>1 DEF ReadArrives
  <2>2. t \in Cached
    BY CacheAssumption DEF Cached
  <2>3. TypeOK'
    BY <1>1, <2>1, <2>2, WritersCounted
    DEF ReadArrives, redis, writing, Inv, TypeOK, Places, Commands, ReaderCommands
  <2>4. InPlace'
    <3>1. target'[r] = t
      BY <2>1 DEF Inv, TypeOK
    <3> QED
      BY <1>1, <2>1, <3>1, StaysInPlace
      DEF ReadArrives, Inv, TypeOK, ReaderPlaces, ReaderCommands
  <2>5. OneFailure'
    BY <1>1, <2>1 DEF ReadArrives, Inv, TypeOK, OneFailure, Commands, ReaderCommands
  <2> QED  BY <2>3, <2>4, <2>5
<1>2. CASE Send(r) \/ Skip(r)
  BY <1>2, AskInv
<1>3. CASE CommandFails(r)
  <2>1. /\ store' \in [Keys -> Versions \cup {NoValue}]
        /\ locks' \in SUBSET Keys /\ gens' \in [Lists -> Generations]
    BY <1>3, ReaderEffect DEF CommandFails, redis, Inv, TypeOK
  <2> QED  BY <1>3, <2>1, FailureInv
<1>4. CASE GotGenerations(r)
  <2>1. gens[target[r]] \in Generations
    BY <1>4 DEF GotGenerations, Inv, InPlace, TypeOK
  <2> QED
    BY <1>4, <2>1, AnswerInv
    DEF GotGenerations, redis, Inv, TypeOK, ReaderPlaces, ReaderCommands
<1>5. CASE Hit(r)
  <2>1. store[Key(r)] \in Versions \cup {NoValue}
    BY DEF Inv, TypeOK, Key, Keys
  <2> QED
    BY <1>5, <2>1, AnswerInv DEF Hit, redis, Inv, TypeOK, ReaderPlaces
<1>6. CASE Miss(r)
  <2>1. Onward(r) \in {"lock", "wait"}
    BY <1>6, Onwards DEF Miss
  <2> QED
    BY <1>6, <2>1, AnswerInv DEF Miss, redis, Inv, TypeOK, ReaderPlaces, ReaderCommands
<1>7. CASE LockWon(r)
  <2>1. /\ store' \in [Keys -> Versions \cup {NoValue}]
        /\ locks' \in SUBSET Keys /\ gens' \in [Lists -> Generations]
    BY <1>7, ReaderEffect DEF LockWon, Inv, TypeOK
  <2> QED  BY <1>7, <2>1, AnswerInv DEF LockWon, Inv, TypeOK, ReaderPlaces
<1>8. CASE LockLost(r)
  BY <1>8, AnswerInv DEF LockLost, redis, Inv, TypeOK, ReaderPlaces
<1>9. CASE Stored(r)
  <2>1. /\ store' \in [Keys -> Versions \cup {NoValue}]
        /\ locks' \in SUBSET Keys /\ gens' \in [Lists -> Generations]
    BY <1>9, ReaderEffect DEF Stored, Inv, TypeOK
  <2>2. Onward(r) \in {"release", "done"}
    BY <1>9, Onwards DEF Stored
  <2> QED
    BY <1>9, <2>1, <2>2, AnswerInv DEF Stored, Inv, TypeOK, ReaderPlaces, ReaderCommands
<1>10. CASE Poll(r) \/ Deadline(r) \/ Load(r) \/ LoadFails(r)
  <2>1. PICK p \in {"peek", "load", "set", "release", "done"} :
           /\ pc' = [pc EXCEPT ![r] = p]
           /\ p = "set" => result' = [result EXCEPT ![r] = db[target[r]]]
           /\ p # "set" => result' = result
           /\ ~ (pc[r] \in Commands)
    BY <1>10
    DEF Poll, Deadline, Load, LoadFails, reading, Commands, ReaderCommands, WriterCommands
  <2>2. db[target[r]] \in Versions
    BY DEF Inv, TypeOK
  <2>3. UNCHANGED <<db, redis, breaker, sent, latched, target, gen, won, writing, seen>>
    BY <1>10 DEF Poll, Deadline, Load, LoadFails, reading
  <2>4. TypeOK'
    BY <2>1, <2>2, <2>3
    DEF Inv, TypeOK, redis, writing, seen, Places, Commands, ReaderCommands
  <2>5. InPlace'
    <3>1. p = "set" => result'[r] \in Versions
      BY <2>1, <2>2 DEF Inv, TypeOK
    <3> QED
      BY <2>1, <2>3, <3>1, StaysInPlace DEF Inv, TypeOK, ReaderPlaces, ReaderCommands
  <2>6. OneFailure'
    <3>1. ~ sent[r]
      BY <2>1 DEF Inv, TypeOK, OneFailure
    <3> QED  BY <2>1, <2>3, <3>1 DEF Inv, TypeOK, OneFailure, seen
  <2> QED  BY <2>4, <2>5, <2>6
<1> QED
  BY <1>1, <1>2, <1>3, <1>4, <1>5, <1>6, <1>7, <1>8, <1>9, <1>10 DEF ReaderStep

-----------------------------------------------------------------------------
\* Writers only move forward, so the counts of them only grow.
LEMMA CountsKept ==
    ASSUME Inv, db' = db, gens' = gens, Begun \subseteq Begun',
           \A l \in Lists : Bumped(l) \subseteq Bumped(l)'
    PROVE  Counted'
<1>1. Begun' \in SUBSET Writers /\ \A l \in Lists : Bumped(l)' \in SUBSET Writers
  BY DEF Begun, Bumped
<1>2. /\ Cardinality(Begun) \in Nat /\ Cardinality(Begun') \in Nat
      /\ Cardinality(Begun) <= Cardinality(Begun')
  BY <1>1, WritersCounted
<1>3. ASSUME NEW l \in Lists
      PROVE  /\ Cardinality(Bumped(l)) \in Nat /\ Cardinality(Bumped(l)') \in Nat
             /\ Cardinality(Bumped(l)) <= Cardinality(Bumped(l)')
  BY <1>1, WritersCounted
<1>4. ASSUME NEW t \in Cached PROVE db[t] \in Nat /\ db[t] <= Cardinality(Begun)
  BY WritersCounted DEF Inv, TypeOK, Counted, Versions
<1>5. ASSUME NEW l \in Lists PROVE gens[l] \in Nat /\ gens[l] <= Cardinality(Bumped(l))
  BY WritersCounted DEF Inv, TypeOK, Counted, Generations
<1>6. ASSUME NEW t \in Cached PROVE db'[t] <= Cardinality(Begun')
  BY <1>2, <1>4
<1>7. ASSUME NEW l \in Lists PROVE gens'[l] <= Cardinality(Bumped(l)')
  BY <1>3, <1>5
<1> QED  BY <1>6, <1>7 DEF Counted

\* A writer that bumps a counter had not bumped it before.
LEMMA BumpCounted ==
    ASSUME Inv, NEW w \in Writers, pc[w] \in WriterCommands, TakeEffect(w), db' = db,
           NEW p \in {"incr_all", "incr_author", "done"}, pc' = [pc EXCEPT ![w] = p],
           pc[w] = "incr_all" => p \in {"incr_author", "done"},
           pc[w] = "incr_author" => p = "done"
    PROVE  Counted' /\ gens' \in [Lists -> Generations]
<1>1. pc'[w] = p /\ \A x \in Writers \ {w} : pc'[x] = pc[x]
  BY DEF Inv, TypeOK, Agents
<1>2. Begun \subseteq Begun' /\ \A l \in Lists : Bumped(l) \subseteq Bumped(l)'
  BY <1>1 DEF Begun, Bumped, WriterCommands
<1>3. CASE pc[w] = "del"
  <2>1. gens' = gens
    BY <1>3, WriterEffect DEF Inv
  <2> QED  BY <1>2, <2>1, CountsKept DEF Inv, TypeOK
<1>4. ASSUME NEW l \in Lists, pc[w] = IF l = "all" THEN "incr_all" ELSE "incr_author"
      PROVE  Counted' /\ gens' \in [Lists -> Generations]
  <2>1. gens' = [gens EXCEPT ![l] = gens[l] + 1]
    BY <1>4, WriterEffect DEF Inv, Lists
  <2>2. w \notin Bumped(l) /\ w \in Bumped(l)'
    BY <1>1, <1>4 DEF Bumped, Lists
  <2>3. /\ Bumped(l) \in SUBSET Writers /\ Bumped(l)' \in SUBSET Writers
        /\ Bumped(l) \cup {w} \in SUBSET (Bumped(l)')
    BY <1>2, <2>2 DEF Bumped
  <2>4. /\ Cardinality(Bumped(l) \cup {w}) = Cardinality(Bumped(l)) + 1
        /\ Cardinality(Bumped(l) \cup {w}) <= Cardinality(Bumped(l)')
        /\ Cardinality(Bumped(l)) \in Nat /\ Cardinality(Bumped(l)') \in Nat
        /\ Cardinality(Bumped(l)') <= Cardinality(Writers)
    BY <2>2, <2>3, WritersCounted
  <2>5. gens[l] \in Nat /\ gens[l] <= Cardinality(Bumped(l))
    BY WritersCounted DEF Inv, TypeOK, Counted, Generations
  <2>6. gens[l] + 1 <= Cardinality(Bumped(l)') /\ gens[l] + 1 \in Generations
    BY <2>4, <2>5, WritersCounted DEF Generations
  <2>7. gens' \in [Lists -> Generations]
    BY <2>1, <2>6 DEF Inv, TypeOK
  <2>8. ASSUME NEW m \in Lists PROVE gens'[m] <= Cardinality(Bumped(m)')
    <3>1. CASE m = l
      BY <2>1, <2>6, <3>1 DEF Inv, TypeOK
    <3>2. CASE m # l
      <4>1. gens'[m] = gens[m] /\ gens[m] \in Nat /\ gens[m] <= Cardinality(Bumped(m))
        BY <2>1, <3>2, WritersCounted DEF Inv, TypeOK, Counted, Generations
      <4>2. Bumped(m)' \in SUBSET Writers /\ Bumped(m) \in SUBSET (Bumped(m)')
        BY <1>2 DEF Bumped
      <4>3. /\ Cardinality(Bumped(m)) <= Cardinality(Bumped(m)')
            /\ Cardinality(Bumped(m)) \in Nat /\ Cardinality(Bumped(m)') \in Nat
        BY <4>2, WritersCounted
      <4> QED  BY <4>1, <4>3
    <3> QED  BY <3>1, <3>2
  <2>9. ASSUME NEW t \in Cached PROVE db'[t] <= Cardinality(Begun')
    <3>1. Begun' \in SUBSET Writers /\ Begun \in SUBSET (Begun')
      BY <1>2 DEF Begun
    <3>2. /\ Cardinality(Begun) <= Cardinality(Begun')
          /\ Cardinality(Begun) \in Nat /\ Cardinality(Begun') \in Nat
      BY <3>1, WritersCounted
    <3>3. db[t] \in Nat /\ db[t] <= Cardinality(Begun)
      BY WritersCounted DEF Inv, TypeOK, Counted, Versions
    <3> QED  BY <3>2, <3>3
  <2> QED  BY <2>7, <2>8, <2>9 DEF Counted
<1>5. pc[w] = "del" \/ \E l \in Lists : pc[w] = IF l = "all" THEN "incr_all" ELSE "incr_author"
  BY DEF WriterCommands, Lists
<1> QED  BY <1>3, <1>4, <1>5

\* What a writer settles is a version of the database.
LEMMA SettleTyped ==
    ASSUME Inv, NEW w \in Writers, NEW t \in Cached, Settle(w, t)
    PROVE  settled' \in [Cached -> Versions]
  BY DEF Inv, TypeOK, Settle

\* A writer's own step keeps the types, the places and the counts.
LEMMA WriterInv ==
    ASSUME Inv, NEW w \in Writers, WriteCommits(w) \/ WriterStep(w)
    PROVE  Inv'
<1>a. w \in Agents /\ w \notin Readers
  BY CacheAssumption DEF Agents
<1> USE <1>a
<1>1. CASE WriteCommits(w)
  <2>1. PICK k \in Kinds :
           /\ kind' = [kind EXCEPT ![w] = k]
           /\ db' = [t \in Cached |-> IF t \in Affected(k) THEN db[t] + 1 ELSE db[t]]
           /\ pc' = [pc EXCEPT ![w] = IF k = "create" THEN "incr_all" ELSE "del"]
    BY <1>1 DEF WriteCommits
  <2>2. pc'[w] \in {"incr_all", "del"} /\ \A x \in Writers \ {w} : pc'[x] = pc[x]
    BY <2>1 DEF Inv, TypeOK
  <2>3. w \notin Begun /\ Begun' = Begun \cup {w}
    BY <1>1, <2>2 DEF WriteCommits, Begun
  <2>4. \A l \in Lists : Bumped(l)' = Bumped(l)
    BY <1>1, <2>2 DEF WriteCommits, Bumped
  <2>5. /\ Cardinality(Begun') = Cardinality(Begun) + 1
        /\ Cardinality(Begun) \in Nat /\ Cardinality(Begun') <= Cardinality(Writers)
    <3>1. Begun \in SUBSET Writers /\ Begun' \in SUBSET Writers /\ w \in Writers \ Begun
      BY <2>3 DEF Begun
    <3> QED  BY <2>3, <3>1, WritersCounted
  <2>6. ASSUME NEW t \in Cached
        PROVE  /\ db'[t] \in Versions /\ db'[t] <= Cardinality(Begun')
    <3>1. db[t] \in Nat /\ db[t] <= Cardinality(Begun)
      BY WritersCounted DEF Inv, TypeOK, Counted, Versions
    <3>2. db'[t] = db[t] + 1 \/ db'[t] = db[t]
      BY <2>1
    <3> QED  BY <2>5, <3>1, <3>2, WritersCounted DEF Versions
  <2>7. db' \in [Cached -> Versions]
    BY <2>1, <2>6
  <2>8. /\ version' = [version EXCEPT ![w] = db'] /\ k \in {"create", "change"}
        /\ UNCHANGED <<redis, breaker, sent, latched, reading, seen>>
    BY <1>1, CacheAssumption DEF WriteCommits
  <2>9. TypeOK'
    BY <2>1, <2>7, <2>8
    DEF Inv, TypeOK, redis, reading, seen, Places, Commands, WriterCommands
  <2>10. InPlace'
    <3>1. PICK p \in {"incr_all", "del"} : pc' = [pc EXCEPT ![w] = p]
      BY <2>1
    <3> QED  BY <2>8, <3>1, StaysInPlace DEF reading, WriterPlaces, WriterCommands
  <2>11. OneFailure'
    BY <2>1, <2>8 DEF seen, Inv, TypeOK, OneFailure, Commands, WriterCommands
  <2>12. Counted'
    BY <2>4, <2>6, <2>8 DEF Inv, Counted, redis
  <2> QED  BY <2>9, <2>10, <2>11, <2>12 DEF Inv
<1>2. CASE Send(w)
  <2>1. pc' = pc /\ db' = db /\ gens' = gens
    BY <1>2 DEF Send, redis
  <2> QED  BY <1>2, <2>1, AskInv, CountsKept DEF Inv, Begun, Bumped
<1>3. CASE Skip(w)
  <2>1. /\ pc' = [pc EXCEPT ![w] = Onward(w)] /\ db' = db /\ gens' = gens
        /\ pc[w] \in WriterCommands
    BY <1>3
    DEF Skip, GoOnWithout, redis, Inv, InPlace, Commands, ReaderCommands, WriterCommands
  <2>2. Onward(w) \in {"incr_all", "done"} /\ (pc[w] # "del" => Onward(w) = "done")
    BY <2>1, Onwards DEF WriterCommands
  <2>3. Begun \subseteq Begun' /\ \A l \in Lists : Bumped(l) \subseteq Bumped(l)'
    BY <2>1, <2>2 DEF Inv, TypeOK, Begun, Bumped, WriterCommands
  <2> QED  BY <1>3, <2>1, <2>3, AskInv, CountsKept DEF Inv
<1>4. CASE CommandFails(w)
  <2>1. /\ pc' = [pc EXCEPT ![w] = Onward(w)] /\ db' = db /\ pc[w] \in WriterCommands
    BY <1>4
    DEF CommandFails, GoOnWithout, Inv, OneFailure, InPlace, Commands, ReaderCommands,
        WriterCommands
  <2>2. Onward(w) \in {"incr_all", "done"} /\ (pc[w] # "del" => Onward(w) = "done")
    BY <2>1, Onwards DEF WriterCommands
  <2>3. CASE TakeEffect(w)
    <3>1. Counted' /\ gens' \in [Lists -> Generations]
      BY <2>1, <2>2, <2>3, BumpCounted
    <3>2. store' \in [Keys -> Versions \cup {NoValue}] /\ locks' \in SUBSET Keys
      BY <2>3, WriterEffect DEF Inv, TypeOK
    <3> QED  BY <1>4, <3>1, <3>2, FailureInv DEF Inv
  <2>4. CASE UNCHANGED redis
    <3>1. Begun \subseteq Begun' /\ \A l \in Lists : Bumped(l) \subseteq Bumped(l)'
      BY <2>1, <2>2 DEF Inv, TypeOK, Begun, Bumped, WriterCommands
    <3>2. Counted'
      BY <2>1, <2>4, <3>1, CountsKept DEF redis
    <3> QED  BY <1>4, <2>4, <3>2, FailureInv DEF redis, Inv, TypeOK
  <2> QED  BY <1>4, <2>3, <2>4 DEF CommandFails
<1>5. CASE ArticleDeleted(w)
  <2>1. /\ pc[w] = "del" /\ CommandAnswered(w, "incr_all") /\ TakeEffect(w)
        /\ UNCHANGED <<gen, won, result>>
    BY <1>5 DEF ArticleDeleted
  <2>2. Counted' /\ gens' \in [Lists -> Generations]
    BY <2>1, BumpCounted DEF CommandAnswered, WriterCommands
  <2>3. store' \in [Keys -> Versions \cup {NoValue}] /\ locks' \in SUBSET Keys
    BY <2>1, WriterEffect DEF Inv, TypeOK
  <2>4. settled' \in [Cached -> Versions]
    BY <1>5, SettleTyped DEF ArticleDeleted, Cached, Inv, TypeOK
  <2> QED
    BY <2>1, <2>2, <2>3, <2>4, AnswerInv DEF Inv, TypeOK, WriterPlaces, WriterCommands
<1>6. CASE AuthorBumped(w)
  <2>1. /\ pc[w] = "incr_author" /\ CommandAnswered(w, "done") /\ TakeEffect(w)
        /\ UNCHANGED <<gen, won, result>>
    BY <1>6 DEF AuthorBumped
  <2>2. Counted' /\ gens' \in [Lists -> Generations]
    BY <2>1, BumpCounted DEF CommandAnswered, WriterCommands
  <2>3. store' \in [Keys -> Versions \cup {NoValue}] /\ locks' \in SUBSET Keys
    BY <2>1, WriterEffect DEF Inv, TypeOK
  <2>4. settled' \in [Cached -> Versions]
    BY <1>6, SettleTyped DEF AuthorBumped, Cached
  <2> QED
    BY <2>1, <2>2, <2>3, <2>4, AnswerInv DEF Inv, TypeOK, WriterPlaces, WriterCommands
<1>7. CASE GlobalBumped(w)
  <2>1. /\ pc[w] = "incr_all" /\ TakeEffect(w) /\ pc' = [pc EXCEPT ![w] = "incr_author"]
        /\ UNCHANGED <<db, breaker, sent, latched, reading, writing, floor, blind, paid>>
    BY <1>7 DEF GlobalBumped
  <2>2. Counted' /\ gens' \in [Lists -> Generations]
    BY <2>1, BumpCounted DEF WriterCommands
  <2>3. store' \in [Keys -> Versions \cup {NoValue}] /\ locks' \in SUBSET Keys
    BY <2>1, WriterEffect DEF Inv, TypeOK
  <2>4. settled' \in [Cached -> Versions]
    BY <1>7, SettleTyped DEF GlobalBumped, Cached
  <2>5. TypeOK'
    BY <2>1, <2>2, <2>3, <2>4
    DEF Inv, TypeOK, reading, writing, Places, Commands, WriterCommands
  <2>6. InPlace'
    BY <2>1, StaysInPlace DEF reading, WriterPlaces, WriterCommands
  <2>7. OneFailure'
    BY <2>1 DEF Inv, TypeOK, OneFailure, Commands, WriterCommands
  <2> QED  BY <2>2, <2>5, <2>6, <2>7 DEF Inv
<1> QED
  BY <1>1, <1>2, <1>3, <1>4, <1>5, <1>6, <1>7 DEF WriterStep

\* A crash takes every request that is under way with it.
LEMMA CrashInv == Inv /\ Crash => Inv'
<1> SUFFICES ASSUME Inv, Crash PROVE Inv'
  OBVIOUS
<1>1. /\ pc' = [a \in Agents |-> IF pc[a] = "idle" THEN "idle" ELSE "done"]
      /\ db' = db /\ gens' = gens
  BY DEF Crash, redis
<1>2. TypeOK'
  BY <1>1, WritersCounted, BreakerTyped DEF Crash, redis, Inv, TypeOK, Cached, Places
<1>3. InPlace'
  BY <1>1 DEF Crash, InPlace, Agents
<1>4. OneFailure'
  BY DEF Crash, OneFailure
<1>5. Begun \subseteq Begun' /\ \A l \in Lists : Bumped(l) \subseteq Bumped(l)'
  BY <1>1 DEF Begun, Bumped, Agents
<1> QED  BY <1>1, <1>2, <1>3, <1>4, <1>5, CountsKept DEF Inv

\* Inv is inductive.
LEMMA NextInv == Inv /\ [Next]_vars => Inv'
<1> SUFFICES ASSUME Inv, [Next]_vars PROVE Inv'
  OBVIOUS
<1>1. ASSUME NEW r \in Readers, ReadArrives(r) \/ ReaderStep(r) PROVE Inv'
  <2>1. db' = db /\ gens' = gens /\ \A w \in Writers : pc'[w] = pc[w]
    <3>1. r \notin Writers
      BY CacheAssumption
    <3>2. UNCHANGED redis \/ TakeEffect(r) => gens' = gens
      BY ReaderEffect DEF redis, Inv
    <3> QED
      BY <1>1, <3>1, <3>2
      DEF ReadArrives, ReaderStep, Send, Skip, CommandFails, GoOnWithout, CommandAnswered,
          GotGenerations, Hit, Miss, LockWon, LockLost, Poll, Deadline, Load, LoadFails,
          Stored, redis, Inv, TypeOK, Agents
  <2>2. Begun \subseteq Begun' /\ \A l \in Lists : Bumped(l) \subseteq Bumped(l)'
    BY <2>1 DEF Begun, Bumped
  <2> QED  BY <1>1, <2>1, <2>2, ReaderInv, CountsKept DEF Inv
<1>2. ASSUME NEW w \in Writers, WriteCommits(w) \/ WriterStep(w) PROVE Inv'
  BY <1>2, WriterInv
<1>3. ASSUME NEW k \in Keys, Expire(k) \/ LockExpires(k) PROVE Inv'
  <2>1. /\ store' \in [Keys -> Versions \cup {NoValue}] /\ locks' \in SUBSET Keys
        /\ UNCHANGED <<db, gens, breaker, pc, sent, latched, reading, writing, seen>>
    BY <1>3 DEF Expire, LockExpires, Inv, TypeOK
  <2>2. TypeOK' /\ InPlace' /\ OneFailure'
    BY <2>1 DEF reading, writing, seen, Inv, TypeOK, InPlace, OneFailure
  <2> QED  BY <2>1, <2>2, CountsKept DEF Inv, Begun, Bumped
<1>4. ASSUME NEW l \in Lists, CounterVanishes(l) PROVE Inv'
  <2>1. /\ gens' = [gens EXCEPT ![l] = 0]
        /\ UNCHANGED <<db, store, locks, breaker, pc, sent, latched, reading, writing, seen>>
    BY <1>4 DEF CounterVanishes
  <2>2. TypeOK' /\ InPlace' /\ OneFailure'
    BY <2>1, WritersCounted DEF reading, writing, seen, Inv, TypeOK, InPlace, OneFailure
  <2>3. ASSUME NEW m \in Lists PROVE gens'[m] <= Cardinality(Bumped(m)')
    <3>1. Bumped(m)' = Bumped(m) /\ Bumped(m) \in SUBSET Writers
      BY <2>1 DEF Bumped
    <3>2. Cardinality(Bumped(m)) \in Nat
      BY <3>1, WritersCounted
    <3> QED  BY <2>1, <3>1, <3>2 DEF Inv, TypeOK, Counted
  <2>4. ASSUME NEW t \in Cached PROVE db'[t] <= Cardinality(Begun')
    BY <2>1 DEF Begun, Inv, Counted
  <2> QED  BY <2>2, <2>3, <2>4 DEF Inv, Counted
<1>5. CASE Crash
  BY <1>5, CrashInv
<1>6. CASE Tick \/ UNCHANGED vars
  <2>1. /\ breaker' \in BreakerRecord
        /\ UNCHANGED <<db, redis, pc, sent, latched, reading, writing, seen>>
    BY <1>6, BreakerTyped DEF Tick, vars, Inv, TypeOK
  <2>2. TypeOK' /\ InPlace' /\ OneFailure'
    BY <2>1 DEF redis, reading, writing, seen, Inv, TypeOK, InPlace, OneFailure
  <2> QED  BY <2>1, <2>2, CountsKept DEF redis, Inv, Begun, Bumped
<1> QED  BY <1>1, <1>2, <1>3, <1>4, <1>5, <1>6 DEF Next

\* The variables keep their types, for any number of readers and writers: no
\* counter or version outgrows the writes that made it.
THEOREM TypeCorrect == Spec => []TypeOK
<1>1. Inv => TypeOK
  BY DEF Inv
<1> QED  BY <1>1, InitInv, NextInv, PTL DEF Spec

\* The first command that fails latches its request, which sends no other: a
\* request waits for one Redis timeout at most.
THEOREM OneTimeout == Spec => []OneTimeoutPerRequest
<1>1. Inv => OneTimeoutPerRequest
  BY DEF Inv, OneFailure, OneTimeoutPerRequest
<1> QED  BY <1>1, InitInv, NextInv, PTL DEF Spec

-----------------------------------------------------------------------------
\* What a reader's step leaves alone, and the one way it writes to the store.
LEMMA ReaderFrame ==
    ASSUME Inv, NEW r \in Readers, ReadArrives(r) \/ ReaderStep(r)
    PROVE  /\ UNCHANGED <<db, gens, version, settled>>
           /\ \/ store' = store
              \/ pc[r] = "set" /\ store' = [store EXCEPT ![Key(r)] = result[r]]
           /\ \A q \in Readers \ {r} :
                 /\ pc'[q] = pc[q] /\ latched'[q] = latched[q]
                 /\ target'[q] = target[q] /\ gen'[q] = gen[q] /\ result'[q] = result[q]
                 /\ floor'[q] = floor[q] /\ blind'[q] = blind[q]
<1>1. UNCHANGED <<db, version, settled>>
  BY DEF ReadArrives, ReaderStep, Send, Skip, CommandFails, GoOnWithout, CommandAnswered,
         GotGenerations, Hit, Miss, LockWon, LockLost, Poll, Deadline, Load, LoadFails,
         Stored, writing, seen
<1>2. UNCHANGED redis \/ TakeEffect(r)
  BY DEF ReadArrives, ReaderStep, Send, Skip, CommandFails,
         GotGenerations, Hit, Miss, LockWon, LockLost, Poll, Deadline, Load, LoadFails,
         Stored
<1>3. /\ gens' = gens
      /\ \/ store' = store
         \/ pc[r] = "set" /\ store' = [store EXCEPT ![Key(r)] = result[r]]
  BY <1>2, ReaderEffect DEF redis, Inv
<1>4. ASSUME NEW q \in Readers \ {r}
      PROVE  /\ pc'[q] = pc[q] /\ latched'[q] = latched[q]
             /\ target'[q] = target[q] /\ gen'[q] = gen[q] /\ result'[q] = result[q]
             /\ floor'[q] = floor[q] /\ blind'[q] = blind[q]
  <2>1. CASE ReadArrives(r) \/ Send(r) \/ Skip(r) \/ CommandFails(r)
    BY <2>1 DEF ReadArrives, Send, Skip, CommandFails, GoOnWithout, reading, seen,
                Inv, TypeOK, Agents
  <2>2. CASE GotGenerations(r) \/ Hit(r) \/ Miss(r) \/ LockWon(r) \/ LockLost(r) \/ Stored(r)
    BY <2>2 DEF GotGenerations, Hit, Miss, LockWon, LockLost, Stored, CommandAnswered,
                Inv, TypeOK, Agents
  <2>3. CASE Poll(r) \/ Deadline(r) \/ Load(r) \/ LoadFails(r)
    BY <2>3 DEF Poll, Deadline, Load, LoadFails, reading, seen, Inv, TypeOK, Agents
  <2> QED  BY <2>1, <2>2, <2>3 DEF ReaderStep
<1> QED  BY <1>1, <1>3, <1>4

\* The steps that matter to freshness: arriving, getting the generation, a hit
\* and a load.  No other brings a reader anything new.
LEMMA ReaderOwn ==
    ASSUME Inv, NEW r \in Readers, ReadArrives(r) \/ ReaderStep(r)
    PROVE  \/ /\ gen'[r] = 0 /\ result'[r] = NoValue
              /\ pc'[r] # "set" /\ (target'[r] \in Lists => pc'[r] = "gens")
              /\ target'[r] \in Lists => floor'[r] = settled[target'[r]]
           \/ /\ target'[r] = target[r] /\ floor'[r] = floor[r]
              /\ blind[r] => blind'[r]
              /\ \/ /\ pc[r] = "gens" /\ pc'[r] = "get"
                    /\ gen'[r] = gens[target[r]] /\ result'[r] = result[r]
                 \/ /\ pc[r] \in {"get", "peek"} /\ ~ latched[r] /\ pc'[r] = "done"
                    /\ gen'[r] = gen[r] /\ result'[r] = store[Key(r)]
                 \/ /\ pc'[r] = "set" /\ pc[r] = "load"
                    /\ gen'[r] = gen[r] /\ result'[r] = db[target[r]]
                 \/ /\ gen'[r] = gen[r] /\ result'[r] = result[r]
                    /\ pc'[r] = "set" => pc[r] = "set"
                    /\ Knows(r)' => Knows(r)
<1>a. r \in Agents
  BY DEF Agents
<1> USE <1>a
<1>1. CASE ReadArrives(r)
  <2>1. PICK t \in Targets :
           /\ target' = [target EXCEPT ![r] = t]
           /\ pc' = [pc EXCEPT ![r] = IF t \in Lists THEN "gens" ELSE "get"]
           /\ floor' = [floor EXCEPT ![r] = IF t \in Lists THEN settled[t] ELSE 0]
           /\ pc[r] = "idle" /\ gen' = gen /\ result' = result
    BY <1>1 DEF ReadArrives
  <2>2. gen[r] = 0 /\ result[r] = NoValue
    BY <2>1 DEF Inv, InPlace
  <2> QED  BY <2>1, <2>2 DEF Inv, TypeOK
<1>2. CASE Send(r)
  BY <1>2 DEF Send, reading, seen, Knows
<1>3. CASE Skip(r)
  <2>1. /\ pc[r] \in Commands /\ pc' = [pc EXCEPT ![r] = Onward(r)] /\ latched' = latched
        /\ target' = target /\ gen' = gen /\ result' = result /\ floor' = floor
        /\ blind' = IF pc[r] = "gens" THEN [blind EXCEPT ![r] = TRUE] ELSE blind
    BY <1>3 DEF Skip, GoOnWithout
  <2>2. pc[r] \in ReaderCommands
    BY <2>1 DEF Inv, InPlace, Commands, ReaderCommands, WriterCommands
  <2>3. pc'[r] = Onward(r) /\ Onward(r) # "set"
    BY <2>1, <2>2, Onwards DEF Inv, TypeOK, ReaderCommands
  <2>4. (blind[r] => blind'[r]) /\ (pc[r] = "gens" => blind'[r])
    BY <2>1 DEF Inv, TypeOK
  <2>5. Knows(r)' => Knows(r)
    <3>1. Onward(r) \in {"get", "lock", "wait", "peek"} => pc[r] \in {"gens", "get", "peek"}
      BY <2>2, Onwards DEF ReaderCommands
    <3> QED  BY <2>1, <2>3, <2>4, <3>1 DEF Knows
  <2> QED  BY <2>1, <2>3, <2>4, <2>5
<1>4. CASE CommandFails(r)
  <2>1. /\ pc[r] \in ReaderCommands /\ pc' = [pc EXCEPT ![r] = Onward(r)]
        /\ latched' = [latched EXCEPT ![r] = TRUE] /\ blind' = blind
        /\ target' = target /\ gen' = gen /\ result' = result /\ floor' = floor
    BY <1>4 DEF CommandFails, GoOnWithout, Inv, OneFailure, InPlace, Commands,
                ReaderCommands, WriterCommands
  <2>2. pc'[r] = Onward(r) /\ Onward(r) # "set" /\ latched'[r]
    BY <2>1, Onwards DEF Inv, TypeOK, ReaderCommands
  <2> QED  BY <2>1, <2>2 DEF Knows
<1>5. CASE GotGenerations(r)
  BY <1>5 DEF GotGenerations, CommandAnswered, Inv, TypeOK
<1>6. CASE Hit(r)
  <2>1. ~ latched[r]
    BY <1>6 DEF Hit, CommandAnswered, Inv, OneFailure
  <2> QED  BY <1>6, <2>1 DEF Hit, CommandAnswered, Inv, TypeOK
<1>7. CASE Miss(r)
  <2>1. Onward(r) \in {"lock", "wait"}
    BY <1>7, Onwards DEF Miss
  <2> QED  BY <1>7, <2>1 DEF Miss, CommandAnswered, Knows, Inv, TypeOK
<1>8. CASE LockWon(r) \/ LockLost(r)
  BY <1>8 DEF LockWon, LockLost, CommandAnswered, Knows, Inv, TypeOK
<1>9. CASE Stored(r)
  <2>1. Onward(r) \in {"release", "done"}
    BY <1>9, Onwards DEF Stored
  <2> QED  BY <1>9, <2>1 DEF Stored, CommandAnswered, Knows, Inv, TypeOK
<1>10. CASE Poll(r) \/ Deadline(r) \/ LoadFails(r)
  BY <1>10 DEF Poll, Deadline, LoadFails, reading, seen, Knows, Inv, TypeOK
<1>11. CASE Load(r)
  BY <1>11 DEF Load, seen, Inv, TypeOK
<1> QED
  BY <1>1, <1>2, <1>3, <1>4, <1>5, <1>6, <1>7, <1>8, <1>9, <1>10, <1>11 DEF ReaderStep

\* What a writer's step does to what the readers of lists see: it may commit
\* versions, and whatever it settles of a list, it does with a new generation.
LEMMA WriterFrame ==
    ASSUME Inv, SettledCommitted, NEW w \in Writers, WriteCommits(w) \/ WriterStep(w)
    PROVE  /\ UNCHANGED <<target, gen, result, floor, blind>>
           /\ \A r \in Readers : pc'[r] = pc[r] /\ latched'[r] = latched[r]
           /\ \A l \in Lists, g \in Generations : store'[<<l, g>>] = store[<<l, g>>]
           /\ \A t \in Cached : settled[t] <= settled'[t]
           /\ SettledCommitted'
           /\ \A l \in Lists :
                 \/ gens'[l] = gens[l] /\ settled'[l] = settled[l]
                 \/ gens'[l] = gens[l] + 1
<1>a. w \in Agents /\ w \notin Readers /\ Readers \subseteq Agents
  BY CacheAssumption DEF Agents
<1>b. /\ \A t \in Cached : db[t] \in Nat /\ settled[t] \in Nat
      /\ \A x \in Writers, t \in Cached : version[x][t] \in Nat
  BY WritersCounted DEF Inv, TypeOK, Versions
<1> USE <1>a, <1>b
<1>1. CASE WriteCommits(w)
  <2>1. PICK k \in Kinds :
           /\ db' = [t \in Cached |-> IF t \in Affected(k) THEN db[t] + 1 ELSE db[t]]
           /\ pc' = [pc EXCEPT ![w] = IF k = "create" THEN "incr_all" ELSE "del"]
    BY <1>1 DEF WriteCommits
  <2>2. /\ version' = [version EXCEPT ![w] = db']
        /\ UNCHANGED <<redis, breaker, sent, latched, reading, seen>>
    BY <1>1 DEF WriteCommits
  <2>3. \A t \in Cached : db'[t] \in Nat /\ db[t] <= db'[t]
    BY <2>1
  <2>4. SettledCommitted'
    BY <2>2, <2>3 DEF SettledCommitted, seen, Inv, TypeOK
  <2> QED  BY <2>1, <2>2, <2>4 DEF redis, reading, seen, Inv, TypeOK
<1>2. CASE Send(w) \/ Skip(w)
  <2>1. pc[w] # "gens"
    BY DEF Inv, InPlace, WriterCommands
  <2>2. pc[w] # "lock"
    BY DEF Inv, InPlace, WriterCommands
  <2>3. /\ UNCHANGED <<db, store, gens, latched, target, gen, result, version,
                        settled, floor, blind>>
        /\ \A r \in Readers : pc'[r] = pc[r]
    BY <1>2, <2>1, <2>2
    DEF Send, Skip, GoOnWithout, redis, reading, writing, seen, Inv, TypeOK
  <2>4. SettledCommitted'
    BY <2>3 DEF SettledCommitted
  <2> QED  BY <2>3, <2>4
<1>3. ASSUME TakeEffect(w) \/ UNCHANGED redis
      PROVE  /\ \A l \in Lists, g \in Generations : store'[<<l, g>>] = store[<<l, g>>]
             /\ \A l \in Lists : gens'[l] = gens[l] \/ gens'[l] = gens[l] + 1
             /\ pc[w] = "incr_all" /\ TakeEffect(w) => gens'["all"] = gens["all"] + 1
             /\ pc[w] = "incr_author" /\ TakeEffect(w) => gens'["author"] = gens["author"] + 1
  <2>1. CASE ~ TakeEffect(w)
    BY <1>3, <2>1 DEF redis, Inv, TypeOK
  <2>2. CASE TakeEffect(w)
    <3>1. store' = [store EXCEPT ![ArticleKey] = NoValue] \/ store' = store
      BY <2>2, WriterEffect DEF Inv
    <3>2. \A l \in Lists, g \in Generations : <<l, g>> \in Keys /\ <<l, g>> # ArticleKey
      BY DEF Keys, Lists, Cached, ArticleKey
    <3>3. \A l \in Lists, g \in Generations : store'[<<l, g>>] = store[<<l, g>>]
      BY <3>1, <3>2 DEF Inv, TypeOK
    <3>4. /\ pc[w] = "incr_all" => gens' = [gens EXCEPT !["all"] = gens["all"] + 1]
          /\ pc[w] = "incr_author" =>
                gens' = [gens EXCEPT !["author"] = gens["author"] + 1]
          /\ pc[w] \notin {"incr_all", "incr_author"} => gens' = gens
      BY <2>2, WriterEffect DEF Inv
    <3>5. gens \in [Lists -> Generations] /\ Lists = {"all", "author"}
      BY DEF Inv, TypeOK, Lists
    <3> QED  BY <3>3, <3>4, <3>5
  <2> QED  BY <1>3, <2>1, <2>2
<1>4. CASE CommandFails(w)
  <2>1. pc[w] # "lock"
    BY DEF Inv, InPlace, WriterCommands
  <2>2. /\ UNCHANGED <<db, target, gen, result, version, settled, floor, blind>>
        /\ \A r \in Readers : pc'[r] = pc[r] /\ latched'[r] = latched[r]
        /\ TakeEffect(w) \/ UNCHANGED redis
    BY <1>4, <2>1 DEF CommandFails, GoOnWithout, writing, Inv, TypeOK
  <2>3. SettledCommitted'
    BY <2>2 DEF SettledCommitted
  <2> QED  BY <1>3, <2>2, <2>3
<1>5. ASSUME NEW t \in Cached, Settle(w, t)
      PROVE  /\ \A u \in Cached : settled[u] <= settled'[u] /\ settled'[u] <= db[u]
             /\ \A u \in Cached \ {t} : settled'[u] = settled[u]
  BY <1>5 DEF Settle, SettledCommitted, Inv, TypeOK
<1>6. CASE ArticleDeleted(w)
  <2>1. /\ \A u \in Cached : settled[u] <= settled'[u] /\ settled'[u] <= db[u]
        /\ \A l \in Lists : settled'[l] = settled[l]
    BY <1>5, <1>6 DEF ArticleDeleted, Cached, Lists, SettledCommitted
  <2>2. gens' = gens
    BY <1>6, WriterEffect DEF ArticleDeleted, Inv
  <2> QED
    BY <1>3, <1>6, <2>1, <2>2
    DEF ArticleDeleted, CommandAnswered, writing, SettledCommitted, Inv, TypeOK
<1>7. CASE GlobalBumped(w)
  <2>1. /\ \A u \in Cached : settled[u] <= settled'[u] /\ settled'[u] <= db[u]
        /\ \A l \in Lists \ {"all"} : settled'[l] = settled[l]
        /\ gens'["all"] = gens["all"] + 1
    BY <1>3, <1>5, <1>7 DEF GlobalBumped, Cached, Lists
  <2>2. gens'["author"] = gens["author"]
    BY <1>7, WriterEffect DEF GlobalBumped, Inv, TypeOK, Lists
  <2> QED
    BY <1>3, <1>7, <2>1, <2>2
    DEF GlobalBumped, reading, writing, SettledCommitted, Lists, Inv, TypeOK
<1>8. CASE AuthorBumped(w)
  <2>1. /\ \A u \in Cached : settled[u] <= settled'[u] /\ settled'[u] <= db[u]
        /\ \A l \in Lists \ {"author"} : settled'[l] = settled[l]
        /\ gens'["author"] = gens["author"] + 1
    BY <1>3, <1>5, <1>8 DEF AuthorBumped, Cached, Lists
  <2>2. gens'["all"] = gens["all"]
    BY <1>8, WriterEffect DEF AuthorBumped, Inv, TypeOK, Lists
  <2> QED
    BY <1>3, <1>8, <2>1, <2>2
    DEF AuthorBumped, CommandAnswered, writing, SettledCommitted, Lists, Inv, TypeOK
<1> QED  BY <1>1, <1>2, <1>4, <1>6, <1>7, <1>8 DEF WriterStep

-----------------------------------------------------------------------------
\* The numbers that freshness compares, and where the keys of a list lie.
LEMMA ListNumbers ==
    ASSUME Inv
    PROVE  /\ \A t \in Cached : db[t] \in Nat /\ settled[t] \in Nat
           /\ \A l \in Lists : l \in Cached /\ gens[l] \in Generations /\ gens[l] \in Nat
           /\ \A l \in Lists, g \in Generations :
                 /\ <<l, g>> \in Keys /\ g \in Nat
                 /\ store[<<l, g>>] # NoValue => store[<<l, g>>] \in Nat
           /\ \A r \in Readers :
                 /\ gen[r] \in Generations /\ gen[r] \in Nat /\ floor[r] \in Nat
                 /\ result[r] # NoValue => result[r] \in Nat
                 /\ pc[r] = "set" => result[r] \in Nat
  BY WritersCounted
  DEF Inv, TypeOK, InPlace, Versions, Generations, Keys, Lists, Cached

\* Nothing has happened yet that could be stale.
LEMMA InitFresh == Init => Fresh
<1> SUFFICES ASSUME Init PROVE Fresh
  OBVIOUS
<1>1. \A l \in Lists, g \in Generations : store[<<l, g>>] = NoValue
  BY DEF Init, Keys, Lists, Cached
<1>2. SettledCommitted
  BY DEF Init, SettledCommitted
<1>3. NothingAhead
  BY <1>1 DEF Init, NothingAhead, Lists
<1>4. CurrentFresh
  BY <1>1, WritersCounted DEF Init, CurrentFresh, Agents
<1>5. KeyFresh /\ ReadFresh
  BY DEF Init, KeyFresh, ReadFresh, Knows, Lists
<1> QED  BY <1>2, <1>3, <1>4, <1>5 DEF Fresh

\* A writer's step takes nothing from the readers: what it settles of a list
\* it settles for a generation under which nothing is filed yet.
LEMMA WriterFresh ==
    ASSUME Inv, Inv', Fresh, NEW w \in Writers, WriteCommits(w) \/ WriterStep(w)
    PROVE  Fresh'
<1>1. /\ UNCHANGED <<target, gen, result, floor, blind>>
      /\ \A r \in Readers : pc'[r] = pc[r] /\ latched'[r] = latched[r]
      /\ \A l \in Lists, g \in Generations : store'[<<l, g>>] = store[<<l, g>>]
      /\ \A t \in Cached : settled[t] <= settled'[t]
      /\ SettledCommitted'
      /\ \A l \in Lists :
            \/ gens'[l] = gens[l] /\ settled'[l] = settled[l]
            \/ gens'[l] = gens[l] + 1
  BY WriterFrame DEF Fresh
<1>2. \A l \in Lists : gens'[l] \in Generations /\ gens'[l] \in Nat
  BY WritersCounted DEF Inv, TypeOK, Generations
<1>3. \A l \in Lists : gens[l] <= gens'[l]
  BY <1>1, ListNumbers
<1>4. NothingAhead'
  <2>1. ASSUME NEW l \in Lists, NEW g \in Generations, g > gens'[l]
        PROVE  store'[<<l, g>>] = NoValue
    <3>1. /\ g \in Nat /\ gens[l] \in Nat /\ gens'[l] \in Nat
          /\ gens[l] <= gens'[l]
      BY <1>2, <1>3, ListNumbers
    <3>2. g > gens[l]
      BY <2>1, <3>1
    <3> QED  BY <1>1, <3>2 DEF Fresh, NothingAhead
  <2>2. ASSUME NEW r \in Readers, target'[r] \in Lists PROVE gen'[r] <= gens'[target'[r]]
    <3>1. gen[r] <= gens[target[r]]
      BY <1>1, <2>2 DEF Fresh, NothingAhead
    <3> QED  BY <1>1, <1>2, <1>3, <2>2, <3>1, ListNumbers
  <2> QED  BY <2>1, <2>2 DEF NothingAhead
<1>5. CurrentFresh'
  <2>1. ASSUME NEW l \in Lists
        PROVE  /\ store'[<<l, gens'[l]>>] # NoValue =>
                     store'[<<l, gens'[l]>>] >= settled'[l]
               /\ \A q \in Readers :
                     pc'[q] = "set" /\ target'[q] = l /\ gen'[q] = gens'[l]
                        => result'[q] >= settled'[l]
    <3>1. CASE gens'[l] = gens[l] /\ settled'[l] = settled[l]
      BY <1>1, <1>2, <3>1 DEF Fresh, CurrentFresh
    <3>2. CASE gens'[l] = gens[l] + 1
      <4>1. gens'[l] > gens[l]
        BY <3>2, ListNumbers
      <4>2. store'[<<l, gens'[l]>>] = NoValue
        BY <1>1, <1>2, <4>1 DEF Fresh, NothingAhead
      <4>3. ASSUME NEW q \in Readers, target'[q] = l PROVE gen'[q] # gens'[l]
        <5>1. gen[q] <= gens[l]
          BY <1>1, <4>3 DEF Fresh, NothingAhead
        <5> QED  BY <1>1, <4>1, <5>1, ListNumbers
      <4> QED  BY <4>2, <4>3
    <3> QED  BY <1>1, <3>1, <3>2
  <2> QED  BY <2>1 DEF CurrentFresh
<1>6. KeyFresh'
  <2>1. ASSUME NEW r \in Readers, Knows(r)'
        PROVE  /\ store'[Key(r)'] # NoValue => store'[Key(r)'] >= floor'[r]
               /\ \A q \in Readers : pc'[q] = "set" /\ Key(q)' = Key(r)'
                     => result'[q] >= floor'[r]
    <3>1. Knows(r)
      BY <1>1, <2>1 DEF Knows
    <3>2. Key(r)' = Key(r) /\ \A q \in Readers : Key(q)' = Key(q)
      BY <1>1 DEF Key
    <3>3. store'[Key(r)] = store[Key(r)]
      BY <1>1, <3>1, ListNumbers DEF Key, Knows
    <3> QED  BY <1>1, <3>1, <3>2, <3>3 DEF Fresh, KeyFresh
  <2> QED  BY <2>1 DEF KeyFresh
<1>7. ReadFresh'
  <2>1. ASSUME NEW r \in Readers, target'[r] \in Lists
        PROVE  /\ floor'[r] <= settled'[target'[r]]
               /\ ~ blind'[r] /\ result'[r] # NoValue => result'[r] >= floor'[r]
    <3>1. /\ floor[r] <= settled[target[r]]
          /\ ~ blind[r] /\ result[r] # NoValue => result[r] >= floor[r]
      BY <1>1, <2>1 DEF Fresh, ReadFresh
    <3>2. settled[target[r]] <= settled'[target[r]] /\ target[r] \in Cached
      BY <1>1, <2>1, ListNumbers
    <3>3. settled'[target[r]] \in Nat
      BY <3>2, WritersCounted DEF Inv, TypeOK, Versions
    <3> QED  BY <1>1, <3>1, <3>2, <3>3, ListNumbers
  <2> QED  BY <2>1 DEF ReadFresh
<1> QED  BY <1>1, <1>4, <1>5, <1>6, <1>7 DEF Fresh

\* A reader files a page under the generation it read, and what it finds there
\* is as new as what was settled when it arrived.
LEMMA ReaderFresh ==
    ASSUME Inv, Fresh, NEW r \in Readers, ReadArrives(r) \/ ReaderStep(r)
    PROVE  Fresh'
<1>1. /\ UNCHANGED <<db, gens, version, settled>>
      /\ \/ store' = store
         \/ pc[r] = "set" /\ store' = [store EXCEPT ![Key(r)] = result[r]]
      /\ \A q \in Readers \ {r} :
            /\ pc'[q] = pc[q] /\ latched'[q] = latched[q]
            /\ target'[q] = target[q] /\ gen'[q] = gen[q] /\ result'[q] = result[q]
            /\ floor'[q] = floor[q] /\ blind'[q] = blind[q]
  BY ReaderFrame
<1> DEFINE Arrives == /\ gen'[r] = 0 /\ result'[r] = NoValue
                      /\ pc'[r] # "set" /\ (target'[r] \in Lists => pc'[r] = "gens")
                      /\ target'[r] \in Lists => floor'[r] = settled[target'[r]]
           Stays   == /\ target'[r] = target[r] /\ floor'[r] = floor[r]
                      /\ blind[r] => blind'[r]
           Looks   == /\ pc[r] = "gens" /\ pc'[r] = "get"
                      /\ gen'[r] = gens[target[r]] /\ result'[r] = result[r]
           Finds   == /\ pc[r] \in {"get", "peek"} /\ ~ latched[r] /\ pc'[r] = "done"
                      /\ gen'[r] = gen[r] /\ result'[r] = store[Key(r)]
           Loads   == /\ pc'[r] = "set" /\ pc[r] = "load"
                      /\ gen'[r] = gen[r] /\ result'[r] = db[target[r]]
           GoesOn  == /\ gen'[r] = gen[r] /\ result'[r] = result[r]
                      /\ pc'[r] = "set" => pc[r] = "set"
                      /\ Knows(r)' => Knows(r)
<1>2. Arrives \/ (Stays /\ (Looks \/ Finds \/ Loads \/ GoesOn))
  BY ReaderOwn
<1>3. \A l \in Lists, g \in Generations :
         \/ store'[<<l, g>>] = store[<<l, g>>]
         \/ /\ pc[r] = "set" /\ target[r] = l /\ gen[r] = g
            /\ store'[<<l, g>>] = result[r]
  BY <1>1, ListNumbers DEF Key, Inv, TypeOK
<1>4. /\ SettledCommitted /\ NothingAhead /\ CurrentFresh /\ KeyFresh /\ ReadFresh
      /\ \A t \in Cached : db[t] >= settled[t] /\ db[t] \in Nat /\ settled[t] \in Nat
      /\ Lists \subseteq Cached
      /\ \A l \in Lists : gens[l] \in Generations /\ gens[l] \in Nat
      /\ \A q \in Readers : gen[q] \in Generations /\ gen[q] \in Nat /\ floor[q] \in Nat
  BY ListNumbers DEF Fresh, SettledCommitted
<1>5. SettledCommitted'
  BY <1>1, <1>4 DEF SettledCommitted
<1>6. NothingAhead'
  <2>1. ASSUME NEW l \in Lists, NEW g \in Generations, g > gens'[l]
        PROVE  store'[<<l, g>>] = NoValue
    <3>1. g > gens[l]
      BY <1>1, <2>1
    <3>2. store[<<l, g>>] = NoValue
      BY <1>4, <3>1 DEF NothingAhead
    <3>3. ASSUME target[r] = l PROVE gen[r] # g
      <4>1. gen[r] <= gens[l]
        BY <1>4, <3>3 DEF NothingAhead
      <4> QED  BY <1>4, <3>1, <4>1
    <3> QED  BY <1>3, <3>2, <3>3
  <2>2. ASSUME NEW q \in Readers, target'[q] \in Lists PROVE gen'[q] <= gens'[target'[q]]
    <3>1. CASE q # r
      BY <1>1, <1>4, <2>2, <3>1 DEF NothingAhead
    <3>2. CASE q = r
      <4>1. gens[target'[r]] \in Nat
        BY <1>4, <2>2, <3>2
      <4>2. CASE Arrives
        BY <1>1, <3>2, <4>1, <4>2
      <4>3. CASE Stays /\ Looks
        BY <1>1, <3>2, <4>1, <4>3
      <4>4. CASE Stays /\ gen'[r] = gen[r]
        BY <1>1, <1>4, <2>2, <3>2, <4>4 DEF NothingAhead
      <4> QED  BY <1>2, <4>2, <4>3, <4>4
    <3> QED  BY <3>1, <3>2
  <2> QED  BY <2>1, <2>2 DEF NothingAhead
<1>7. CurrentFresh'
  <2>1. ASSUME NEW l \in Lists, store'[<<l, gens[l]>>] # NoValue
        PROVE  store'[<<l, gens[l]>>] >= settled[l]
    BY <1>3, <1>4, <2>1 DEF CurrentFresh
  <2>2. ASSUME NEW l \in Lists, NEW q \in Readers,
               pc'[q] = "set", target'[q] = l, gen'[q] = gens[l]
        PROVE  result'[q] >= settled[l]
    <3>1. CASE q # r
      BY <1>1, <1>4, <2>2, <3>1 DEF CurrentFresh
    <3>2. CASE q = r /\ Loads
      BY <1>2, <1>4, <2>2, <3>2
    <3>3. CASE q = r /\ ~ Loads
      <4>1. Stays /\ GoesOn
        BY <1>2, <2>2, <3>3
      <4> QED  BY <1>4, <2>2, <3>3, <4>1 DEF CurrentFresh
    <3> QED  BY <3>1, <3>2, <3>3
  <2> QED  BY <1>1, <2>1, <2>2 DEF CurrentFresh
<1>8. KeyFresh'
  <2>1. ASSUME NEW p \in Readers, Knows(p)', p # r
        PROVE  /\ store'[Key(p)'] # NoValue => store'[Key(p)'] >= floor'[p]
               /\ \A q \in Readers : pc'[q] = "set" /\ Key(q)' = Key(p)'
                     => result'[q] >= floor'[p]
    <3>1. Knows(p) /\ Key(p)' = Key(p) /\ floor'[p] = floor[p] /\ target[p] \in Lists
      BY <1>1, <2>1 DEF Knows, Key
    <3>2. store'[Key(p)] # NoValue => store'[Key(p)] >= floor[p]
      BY <1>3, <1>4, <3>1 DEF KeyFresh, Key
    <3>3. ASSUME NEW q \in Readers, pc'[q] = "set", Key(q)' = Key(p)
          PROVE  result'[q] >= floor[p]
      <4>1. CASE q # r
        BY <1>1, <1>4, <3>1, <3>3, <4>1 DEF KeyFresh, Key
      <4>2. CASE q = r /\ Loads
        <5>1. target[r] = target[p] /\ result'[q] = db[target[p]]
          BY <1>2, <3>3, <4>2 DEF Key
        <5>2. floor[p] <= settled[target[p]] /\ settled[target[p]] <= db[target[p]]
          BY <1>4, <3>1 DEF ReadFresh
        <5> QED  BY <1>4, <3>1, <5>1, <5>2
      <4>3. CASE q = r /\ ~ Loads
        <5>1. Stays /\ GoesOn
          BY <1>2, <3>3, <4>3
        <5> QED  BY <1>4, <3>1, <3>3, <4>3, <5>1 DEF KeyFresh, Key
      <4> QED  BY <4>1, <4>2, <4>3
    <3> QED  BY <3>1, <3>2, <3>3
  <2>2. ASSUME Knows(r)'
        PROVE  /\ store'[Key(r)'] # NoValue => store'[Key(r)'] >= floor'[r]
               /\ \A q \in Readers : pc'[q] = "set" /\ Key(q)' = Key(r)'
                     => result'[q] >= floor'[r]
    <3>1. Stays /\ (Looks \/ GoesOn) /\ target[r] \in Lists /\ pc'[r] # "set"
      BY <1>2, <2>2 DEF Knows
    <3>2. pc[r] # "set" /\ store' = store
      BY <1>1, <2>2, <3>1 DEF Knows
    <3>3. floor'[r] = floor[r] /\ floor[r] <= settled[target[r]]
      BY <1>4, <3>1 DEF ReadFresh
    <3>4. CASE Looks
      <4>1. Key(r)' = <<target[r], gens[target[r]]>>
        BY <3>1, <3>4 DEF Key
      <4>2. store[Key(r)'] # NoValue => store[Key(r)'] >= floor[r]
        <5>1. SUFFICES ASSUME store[Key(r)'] # NoValue PROVE store[Key(r)'] >= floor[r]
          OBVIOUS
        <5>2. store[Key(r)'] >= settled[target[r]] /\ store[Key(r)'] \in Nat
          BY <1>4, <3>1, <4>1, <5>1, ListNumbers DEF CurrentFresh
        <5> QED  BY <1>4, <3>1, <3>3, <5>2
      <4>3. ASSUME NEW q \in Readers, pc'[q] = "set", Key(q)' = Key(r)'
            PROVE  result'[q] >= floor[r]
        <5>1. /\ pc[q] = "set" /\ target[q] = target[r] /\ gen[q] = gens[target[r]]
              /\ result'[q] = result[q]
          BY <1>1, <3>1, <4>1, <4>3 DEF Key
        <5>2. result[q] >= settled[target[r]] /\ result[q] \in Nat
          BY <1>4, <3>1, <5>1, ListNumbers DEF CurrentFresh
        <5> QED  BY <1>4, <3>1, <3>3, <5>1, <5>2
      <4> QED  BY <3>2, <3>3, <4>2, <4>3
    <3>5. CASE GoesOn
      <4>1. Knows(r) /\ Key(r)' = Key(r)
        BY <2>2, <3>1, <3>5 DEF Key
      <4>2. ASSUME NEW q \in Readers, pc'[q] = "set", Key(q)' = Key(r)'
            PROVE  pc[q] = "set" /\ Key(q) = Key(r) /\ result'[q] = result[q]
        BY <1>1, <3>1, <4>1, <4>2 DEF Key
      <4> QED  BY <1>4, <3>2, <3>3, <4>1, <4>2 DEF KeyFresh
    <3> QED  BY <3>1, <3>4, <3>5
  <2>3. ASSUME NEW p \in Readers, Knows(p)'
        PROVE  /\ store'[Key(p)'] # NoValue => store'[Key(p)'] >= floor'[p]
               /\ \A q \in Readers : pc'[q] = "set" /\ Key(q)' = Key(p)'
                     => result'[q] >= floor'[p]
    BY <2>1, <2>2, <2>3
  <2> QED  BY <2>3 DEF KeyFresh
<1>9. ReadFresh'
  <2>1. ASSUME NEW q \in Readers, target'[q] \in Lists, q # r
        PROVE  /\ floor'[q] <= settled[target'[q]]
               /\ ~ blind'[q] /\ result'[q] # NoValue => result'[q] >= floor'[q]
    BY <1>1, <1>4, <2>1 DEF ReadFresh
  <2>2. ASSUME target'[r] \in Lists
        PROVE  /\ floor'[r] <= settled[target'[r]]
               /\ ~ blind'[r] /\ result'[r] # NoValue => result'[r] >= floor'[r]
    <3>1. CASE Arrives
      BY <1>4, <2>2, <3>1
    <3>2. ASSUME Stays
          PROVE  /\ target[r] \in Lists /\ floor[r] <= settled[target[r]]
                 /\ ~ blind[r] /\ result[r] # NoValue => result[r] >= floor[r]
      BY <1>4, <2>2, <3>2 DEF ReadFresh
    <3>3. CASE Stays /\ (Looks \/ GoesOn)
      BY <3>2, <3>3
    <3>4. CASE Stays /\ Finds
      <4>1. ~ blind[r] => Knows(r)
        BY <3>2, <3>4 DEF Knows
      <4> QED  BY <1>4, <3>2, <3>4, <4>1 DEF KeyFresh
    <3>5. CASE Stays /\ Loads
      <4>1. db[target[r]] >= settled[target[r]] /\ floor[r] <= settled[target[r]]
        BY <1>4, <3>2, <3>5
      <4>2. db[target[r]] \in Nat /\ settled[target[r]] \in Nat /\ floor[r] \in Nat
        BY <1>4, <3>2, <3>5
      <4>3. db[target[r]] >= floor[r]
        BY <4>1, <4>2
      <4> QED  BY <3>2, <3>5, <4>1, <4>3
    <3> QED  BY <1>2, <3>1, <3>3, <3>4, <3>5
  <2> QED  BY <1>1, <2>1, <2>2 DEF ReadFresh
<1> QED  BY <1>5, <1>6, <1>7, <1>8, <1>9 DEF Fresh

\* Losing a page or a lock, and losing every request, brings nothing stale.
LEMMA LossFresh ==
    ASSUME Inv, Fresh, (\E k \in Keys : Expire(k) \/ LockExpires(k)) \/ Crash
    PROVE  Fresh'
<1>1. /\ UNCHANGED <<db, gens, settled>>
      /\ \A k \in Keys : store'[k] = store[k] \/ store'[k] = NoValue
  BY DEF Expire, LockExpires, Crash, redis, seen, Inv, TypeOK
<1>2. \A l \in Lists, g \in Generations : <<l, g>> \in Keys
  BY ListNumbers
<1>3. \A l \in Lists : gens[l] \in Generations
  BY ListNumbers
<1>4. CASE \E k \in Keys : Expire(k) \/ LockExpires(k)
  <2>1. UNCHANGED <<pc, latched, target, gen, result, version, floor, blind>>
    BY <1>4 DEF Expire, LockExpires, reading, writing, seen
  <2>2. SettledCommitted' /\ ReadFresh'
    BY <1>1, <2>1 DEF Fresh, SettledCommitted, ReadFresh
  <2>3. NothingAhead' /\ CurrentFresh'
    BY <1>1, <1>2, <1>3, <2>1 DEF Fresh, NothingAhead, CurrentFresh
  <2>4. KeyFresh'
    <3>1. ASSUME NEW p \in Readers, Knows(p)'
          PROVE  Knows(p) /\ Key(p)' = Key(p) /\ Key(p) \in Keys
      BY <1>2, <2>1, <3>1, ListNumbers DEF Knows, Key
    <3>2. \A q \in Readers : Key(q)' = Key(q)
      BY <2>1 DEF Key
    <3> QED  BY <1>1, <2>1, <3>1, <3>2 DEF Fresh, KeyFresh
  <2> QED  BY <2>2, <2>3, <2>4 DEF Fresh
<1>5. CASE Crash
  <2>1. /\ \A r \in Readers : pc'[r] \in {"idle", "done"} /\ target'[r] \notin Lists
        /\ store' = store
        /\ version' = [w \in Writers |-> [t \in Cached |-> 0]]
    BY <1>5 DEF Crash, Agents, Lists, redis
  <2>2. SettledCommitted'
    BY <1>1, <2>1, ListNumbers DEF Fresh, SettledCommitted
  <2>3. NothingAhead' /\ CurrentFresh' /\ KeyFresh' /\ ReadFresh'
    BY <1>1, <2>1
    DEF Fresh, NothingAhead, CurrentFresh, KeyFresh, ReadFresh, Knows
  <2> QED  BY <2>2, <2>3 DEF Fresh
<1> QED  BY <1>4, <1>5

\* Fresh is inductive as long as Redis keeps its counters.
LEMMA NextFresh ==
    ASSUME CountersMayVanish = FALSE
    PROVE  Inv /\ Inv' /\ Fresh /\ [Next]_vars => Fresh'
<1> SUFFICES ASSUME Inv, Inv', Fresh, [Next]_vars PROVE Fresh'
  OBVIOUS
<1>1. ASSUME NEW r \in Readers, ReadArrives(r) \/ ReaderStep(r) PROVE Fresh'
  BY <1>1, ReaderFresh
<1>2. ASSUME NEW w \in Writers, WriteCommits(w) \/ WriterStep(w) PROVE Fresh'
  BY <1>2, WriterFresh
<1>3. CASE (\E k \in Keys : Expire(k) \/ LockExpires(k)) \/ Crash
  BY <1>3, LossFresh
<1>4. ASSUME NEW l \in Lists, CounterVanishes(l) PROVE Fresh'
  BY <1>4 DEF CounterVanishes
<1>5. CASE Tick \/ UNCHANGED vars
  BY <1>5
  DEF Tick, vars, redis, reading, writing, seen, Fresh, SettledCommitted, NothingAhead,
      CurrentFresh, KeyFresh, ReadFresh, Knows, Key
<1> QED  BY <1>1, <1>2, <1>3, <1>4, <1>5 DEF Next

\* While Redis keeps its counters, no list page is older than the writes that
\* were invalidated before its reader arrived, for any number of readers and
\* writers, whatever fails, expires or crashes in between.
THEOREM PagesAreFresh ==
    ASSUME CountersMayVanish = FALSE
    PROVE  Spec => []ListReadsFresh
<1>1. Fresh => ListReadsFresh
  BY DEF Fresh, ReadFresh, ListReadsFresh
<1> QED  BY <1>1, InitInv, NextInv, InitFresh, NextFresh, PTL DEF Spec

-----------------------------------------------------------------------------
\* What is confirmed of the article grows only in the DEL that empties its key.
LEMMA ArticleSettled ==
    ASSUME Inv, NEW w \in Writers, WriteCommits(w) \/ WriterStep(w)
    PROVE  store'[ArticleKey] = NoValue
           \/ (store'[ArticleKey] = store[ArticleKey] /\ settled'["article"] = settled["article"])
<1>1. ArticleKey \in Keys /\ "article" \in Cached
  BY WritersCounted DEF ArticleKey, Keys, Cached
<1>2. UNCHANGED redis \/ TakeEffect(w)
         => store'[ArticleKey] = NoValue \/ store'[ArticleKey] = store[ArticleKey]
  BY <1>1, WriterEffect DEF redis, Inv, TypeOK
<1>3. CASE WriteCommits(w) \/ Send(w) \/ Skip(w) \/ CommandFails(w)
  BY <1>2, <1>3 DEF WriteCommits, Send, Skip, CommandFails, GoOnWithout, seen
<1>4. CASE ArticleDeleted(w) /\ kind[w] = "change"
  BY <1>1, <1>4, WriterEffect DEF ArticleDeleted, Inv, TypeOK
<1>5. CASE ArticleDeleted(w) /\ kind[w] # "change"
  BY <1>2, <1>5 DEF ArticleDeleted
<1>6. CASE GlobalBumped(w) \/ AuthorBumped(w)
  <2>1. settled'["article"] = settled["article"]
    BY <1>1, <1>6 DEF GlobalBumped, AuthorBumped, Settle, Inv, TypeOK
  <2> QED  BY <1>2, <1>6, <2>1 DEF GlobalBumped, AuthorBumped
<1> QED  BY <1>3, <1>4, <1>5, <1>6 DEF WriterStep

\* The article's key gets a body older than a confirmed DEL only from the SET
\* of a reader that had loaded it before.
LEMMA StaleStep ==
    ASSUME Inv, [Next]_vars, ~ ArticleStale, ArticleStale'
    PROVE  \E r \in Readers :
              pc[r] = "set" /\ target[r] = "article" /\ result[r] < settled["article"]
<1>1. ArticleKey \in Keys /\ "article" \in Cached
  BY WritersCounted DEF ArticleKey, Keys, Cached
<1>2. ASSUME /\ \/ store'[ArticleKey] = NoValue
                \/ store'[ArticleKey] = store[ArticleKey]
             /\ \/ store'[ArticleKey] = NoValue
                \/ settled'["article"] = settled["article"]
      PROVE  FALSE
  BY <1>2 DEF ArticleStale
<1>3. ASSUME NEW r \in Readers, ReadArrives(r) \/ ReaderStep(r)
      PROVE  pc[r] = "set" /\ target[r] = "article" /\ result[r] < settled["article"]
  <2>1. /\ settled' = settled
        /\ \/ store' = store
           \/ pc[r] = "set" /\ store' = [store EXCEPT ![Key(r)] = result[r]]
    BY <1>3, ReaderFrame
  <2>2. pc[r] = "set" /\ Key(r) = ArticleKey /\ store'[ArticleKey] = result[r]
    BY <1>1, <1>2, <2>1 DEF Inv, TypeOK
  <2> QED  BY <2>1, <2>2 DEF ArticleStale, Key, ArticleKey
<1>4. ASSUME NEW w \in Writers, WriteCommits(w) \/ WriterStep(w) PROVE FALSE
  BY <1>2, <1>4, ArticleSettled
<1>5. CASE \E k \in Keys : Expire(k) \/ LockExpires(k)
  BY <1>1, <1>2, <1>5 DEF Expire, LockExpires, seen, Inv, TypeOK
<1>6. CASE Crash \/ Tick \/ UNCHANGED vars \/ \E l \in Lists : CounterVanishes(l)
  BY <1>2, <1>6 DEF Crash, Tick, CounterVanishes, vars, redis, seen
<1> QED  BY <1>3, <1>4, <1>5, <1>6 DEF Next

\* A stale article body comes from a late fill and from nothing else, whether
\* or not Redis keeps its counters.
THEOREM LateFillOnly == Spec => StaleOnlyByLateFill
<1>1. Inv /\ [Next]_vars =>
        [~ ArticleStale /\ ArticleStale' =>
           \E r \in Readers :
              pc[r] = "set" /\ target[r] = "article" /\ result[r] < settled["article"]]_vars
  BY StaleStep
<1> QED  BY <1>1, InitInv, NextInv, PTL DEF Spec, StaleOnlyByLateFill

===============================================================================
