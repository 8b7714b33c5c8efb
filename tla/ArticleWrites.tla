---------------------------- MODULE ArticleWrites ----------------------------
(***************************************************************************)
(* The write path of one article: POST, PUT and DELETE requests that run   *)
(* concurrently on any number of replicas, each in one MySQL transaction   *)
(* that get_session opens, commits or rolls back, with the optimistic      *)
(* compare-and-set of ArticleRepository and the after-commit queue.        *)
(*                                                                         *)
(* Every await of the handler is a step of its own, so other requests run  *)
(* in between; what happens between two awaits is one step.                *)
(*                                                                         *)
(* MySQL (external) is modelled as InnoDB at its default isolation level,  *)
(* REPEATABLE READ, which build_engine_kwargs leaves in place: a plain     *)
(* SELECT reads the snapshot that the transaction's first SELECT took,     *)
(* overlaid with the transaction's own write; an UPDATE reads the latest   *)
(* committed row and takes its lock until the transaction ends, whether or *)
(* not the row matches; an UPDATE that changes no column matches the row   *)
(* but does not advance updated_at.  updated_at is a number that grows     *)
(* with every change of the row.                                           *)
(***************************************************************************)
EXTENDS Naturals, FiniteSets

CONSTANTS
    Requests,       \* the write requests
    Bodies,         \* contents a PUT may carry
    ReadAttempts,   \* DB_RETRY_ATTEMPTS: attempts of a guarded_read
    NoRow,          \* no row version: none snapshotted, none written
    Nobody          \* the row lock is free

ASSUME WritesAssumption ==
    /\ IsFiniteSet(Requests)
    /\ ReadAttempts \in Nat \ {0}
    /\ Nobody \notin Requests

VARIABLES
    row,          \* the committed row: content, updated_at, deleted_at set or not
    lock,         \* the transaction that holds the row lock
    pc,           \* where each request is
    method,       \* POST, PUT or DELETE
    ifMatch,      \* the If-Match token, 0 when the header is missing or malformed
    payload,      \* the content a PUT carries
    allowed,      \* whether the actor is the article's author or an admin
    snap,         \* the transaction's snapshot of the row
    write,        \* the transaction's uncommitted version of the row
    attempts,     \* attempts spent on the current read
    expired,      \* a rollback has expired the actor's loaded attributes
    queued,       \* an invalidation waits in the after-commit queue
    committed,    \* requests whose write is durable
    invalidated,  \* requests whose invalidation ran
    status        \* the answer, 0 until there is one

input == <<method, ifMatch, payload, allowed>>
tx    == <<snap, write, attempts, expired, queued>>
vars  == <<row, lock, pc, input, tx, committed, invalidated, status>>

Methods == {"POST", "PUT", "DELETE"}
Reading == {"auth", "load", "check", "reload"}       \* inside a guarded_read
Working == Reading \cup {"insert", "cas", "commit"}  \* inside the transaction
Places  == Working \cup {"idle", "drain", "done", "crashed"}
Success == [m \in Methods |->
              CASE m = "POST" -> 201 [] m = "PUT" -> 200 [] m = "DELETE" -> 204]

Row == [body : Bodies, token : Nat \ {0}, deleted : BOOLEAN]

ASSUME NoRowAssumption == NoRow \notin Row

Init ==
    /\ \E b \in Bodies : row = [body |-> b, token |-> 1, deleted |-> FALSE]
    /\ lock = Nobody
    /\ pc = [r \in Requests |-> "idle"]
    /\ method = [r \in Requests |-> "POST"]
    /\ ifMatch = [r \in Requests |-> 0]
    /\ payload = [r \in Requests |-> row.body]
    /\ allowed = [r \in Requests |-> FALSE]
    /\ snap = [r \in Requests |-> NoRow]
    /\ write = [r \in Requests |-> NoRow]
    /\ attempts = [r \in Requests |-> 0]
    /\ expired = [r \in Requests |-> FALSE]
    /\ queued = [r \in Requests |-> FALSE]
    /\ committed = {}
    /\ invalidated = {}
    /\ status = [r \in Requests |-> 0]

-----------------------------------------------------------------------------
\* The row a SELECT of r's transaction returns; the first one takes the snapshot.
Snapshot(r) == IF snap[r] = NoRow THEN row ELSE snap[r]
Visible(r)  == IF write[r] # NoRow THEN write[r] ELSE Snapshot(r)

Unlocked(r) == IF lock = r THEN Nobody ELSE lock

\* What the guarded UPDATE of update_cas and soft_delete_cas would write.
Replaced(r) ==
    CASE method[r] = "DELETE" ->
            [body |-> row.body, token |-> row.token + 1, deleted |-> TRUE]
      [] method[r] # "DELETE" /\ payload[r] = row.body -> row
      [] OTHER ->
            [body |-> payload[r], token |-> row.token + 1, deleted |-> row.deleted]

\* Mutant of RollbackAndAnswer: the transaction is left open.
RollbackAndAnswerNoRollback(r, code) ==
    /\ pc' = [pc EXCEPT ![r] = "done"]
    /\ status' = [status EXCEPT ![r] = code]
    /\ attempts' = [attempts EXCEPT ![r] = 0]
    /\ UNCHANGED <<row, lock, input, snap, write, expired, queued, committed, invalidated>>

\* The end of get_session's except branch: session.rollback(), the queue is
\* discarded, and the exception becomes the response.  On a connection that has
\* died the rollback itself may raise: MySQL has rolled back, nothing is
\* discarded (the queue goes with its session), and the answer is a 500.
RollbackAndAnswer(r, code) ==
    /\ pc' = [pc EXCEPT ![r] = "done"]
    /\ \/ status' = [status EXCEPT ![r] = code] /\ queued' = [queued EXCEPT ![r] = FALSE]
       \/ status' = [status EXCEPT ![r] = 500] /\ UNCHANGED queued
    /\ write' = [write EXCEPT ![r] = NoRow]
    /\ snap' = [snap EXCEPT ![r] = NoRow]
    /\ lock' = Unlocked(r)
    /\ attempts' = [attempts EXCEPT ![r] = 0]
    /\ UNCHANGED <<row, input, expired, committed, invalidated>>

\* A guarded read answered: go on with the transaction open.
Proceed(r, next) ==
    /\ pc' = [pc EXCEPT ![r] = next]
    /\ snap' = [snap EXCEPT ![r] = Snapshot(r)]
    /\ attempts' = [attempts EXCEPT ![r] = 0]
    /\ UNCHANGED <<row, lock, input, write, expired, queued, committed, invalidated, status>>

-----------------------------------------------------------------------------
\* A request arrives.  Its client names a token some read returned to it, or none.
Arrive(r) ==
    /\ pc[r] = "idle"
    /\ pc' = [pc EXCEPT ![r] = "auth"]
    /\ \E m \in Methods : method' = [method EXCEPT ![r] = m]
    /\ \E t \in 0 .. row.token : ifMatch' = [ifMatch EXCEPT ![r] = t]
    /\ \E b \in Bodies : payload' = [payload EXCEPT ![r] = b]
    /\ \E a \in BOOLEAN : allowed' = [allowed EXCEPT ![r] = a]
    /\ UNCHANGED <<row, lock, tx, committed, invalidated, status>>

\* get_current_user, then _parse_if_match before the service is called.
Authenticate(r) ==
    /\ pc[r] = "auth"
    /\ \/ RollbackAndAnswer(r, 401)        \* the user row is gone
       \/ method[r] = "POST" /\ Proceed(r, "insert")
       \/ method[r] # "POST" /\ ifMatch[r] = 0 /\ RollbackAndAnswer(r, 422)
       \/ method[r] # "POST" /\ ifMatch[r] # 0 /\ Proceed(r, "load")

\* ArticleRepository.create: INSERT and refresh, both inside one guarded_write.
Insert(r) ==
    /\ pc[r] = "insert"
    /\ pc' = [pc EXCEPT ![r] = "commit"]
    /\ queued' = [queued EXCEPT ![r] = TRUE]
    /\ UNCHANGED <<row, lock, input, snap, write, attempts, expired, committed, invalidated, status>>

\* _load and _authorize.  An actor whose attributes a rollback expired cannot
\* be read outside the greenlet: MissingGreenlet, a 500.
Load(r) ==
    /\ pc[r] = "load"
    /\ \/ Visible(r).deleted /\ RollbackAndAnswer(r, 404)
       \/ ~ Visible(r).deleted /\ expired[r] /\ RollbackAndAnswer(r, 500)
       \/ ~ Visible(r).deleted /\ ~ expired[r] /\ ~ allowed[r] /\ RollbackAndAnswer(r, 403)
       \/ ~ Visible(r).deleted /\ ~ expired[r] /\ allowed[r] /\ Proceed(r, "cas")

\* Mutant of CasMatches: the WHERE clause is the id alone.
CasMatchesById(r) ==
    /\ pc[r] = "cas"
    /\ lock = Nobody
    /\ lock' = r
    /\ write' = [write EXCEPT ![r] = Replaced(r)]
    /\ queued' = [queued EXCEPT ![r] = TRUE]
    /\ pc' = [pc EXCEPT ![r] = IF method[r] = "PUT" THEN "reload" ELSE "commit"]
    /\ UNCHANGED <<row, input, snap, attempts, expired, committed, invalidated, status>>

\* update_cas or soft_delete_cas, once the row lock is free: a row matched, and
\* its invalidation is queued.
CasMatches(r) ==
    /\ pc[r] = "cas"
    /\ lock = Nobody
    /\ row.token = ifMatch[r] /\ ~ row.deleted
    /\ lock' = r
    /\ write' = [write EXCEPT ![r] = Replaced(r)]
    /\ queued' = [queued EXCEPT ![r] = TRUE]
    /\ pc' = [pc EXCEPT ![r] = IF method[r] = "PUT" THEN "reload" ELSE "commit"]
    /\ UNCHANGED <<row, input, snap, attempts, expired, committed, invalidated, status>>

\* No row matched; InnoDB keeps the lock all the same.
CasMisses(r) ==
    /\ pc[r] = "cas"
    /\ lock = Nobody
    /\ row.token # ifMatch[r] \/ row.deleted
    /\ lock' = r
    /\ pc' = [pc EXCEPT ![r] = "check"]
    /\ UNCHANGED <<row, input, tx, committed, invalidated, status>>

\* Mutant of Check: no row matched, so it must be gone.
CheckAlwaysGone(r) == pc[r] = "check" /\ RollbackAndAnswer(r, 404)

\* _raise_conflict_or_not_found
Check(r) ==
    /\ pc[r] = "check"
    /\ RollbackAndAnswer(r, IF Visible(r).deleted THEN 404 ELSE 409)

\* update() reads the article back for the response body.
Reload(r) ==
    /\ pc[r] = "reload"
    /\ \/ Visible(r).deleted /\ RollbackAndAnswer(r, 404)
       \/ ~ Visible(r).deleted /\ Proceed(r, "commit")

\* session.commit() in get_session's teardown.
Commit(r) ==
    /\ pc[r] = "commit"
    /\ pc' = [pc EXCEPT ![r] = "drain"]
    /\ row' = IF write[r] = NoRow THEN row ELSE write[r]
    /\ committed' = IF method[r] = "POST" \/ write[r] # NoRow
                    THEN committed \cup {r} ELSE committed
    /\ lock' = Unlocked(r)
    /\ write' = [write EXCEPT ![r] = NoRow]
    /\ snap' = [snap EXCEPT ![r] = NoRow]
    /\ UNCHANGED <<input, attempts, expired, queued, invalidated, status>>

\* drain_after_commit, and the response leaves.  The callback swallows a cache
\* failure: the invalidation is then dropped.
Drain(r) ==
    /\ pc[r] = "drain"
    /\ pc' = [pc EXCEPT ![r] = "done"]
    /\ status' = [status EXCEPT ![r] = Success[method[r]]]
    /\ queued' = [queued EXCEPT ![r] = FALSE]
    /\ \/ invalidated' = IF queued[r] THEN invalidated \cup {r} ELSE invalidated
       \/ UNCHANGED invalidated
    /\ UNCHANGED <<row, lock, input, snap, write, attempts, expired, committed>>

-----------------------------------------------------------------------------
\* Mutant of RetryRead: counts retries where the setting counts attempts.
RetryReadOnceMore(r) ==
    /\ pc[r] \in Reading
    /\ attempts[r] < ReadAttempts
    /\ attempts' = [attempts EXCEPT ![r] = @ + 1]
    /\ write' = [write EXCEPT ![r] = NoRow]
    /\ snap' = [snap EXCEPT ![r] = NoRow]
    /\ lock' = Unlocked(r)
    /\ expired' = [expired EXCEPT ![r] = pc[r] # "auth"]
    /\ UNCHANGED <<row, pc, input, queued, committed, invalidated, status>>

\* A guarded read meets a transient fault and has attempts left: with_retry
\* calls session.rollback() and the next attempt runs in a new transaction.
\* The queue lives on session.info and survives.
RetryRead(r) ==
    /\ pc[r] \in Reading
    /\ attempts[r] + 1 < ReadAttempts
    /\ attempts' = [attempts EXCEPT ![r] = @ + 1]
    /\ write' = [write EXCEPT ![r] = NoRow]
    /\ snap' = [snap EXCEPT ![r] = NoRow]
    /\ lock' = Unlocked(r)
    /\ expired' = [expired EXCEPT ![r] = pc[r] # "auth"]
    /\ UNCHANGED <<row, pc, input, queued, committed, invalidated, status>>

\* Mutant of GiveUp: the teardown commits what the transaction holds.
GiveUpCommits(r) ==
    /\ pc[r] \in Reading \cup {"insert", "cas"}
    /\ pc' = [pc EXCEPT ![r] = "done"]
    /\ status' = [status EXCEPT ![r] = 503]
    /\ row' = IF write[r] = NoRow THEN row ELSE write[r]
    /\ committed' = IF write[r] = NoRow THEN committed ELSE committed \cup {r}
    /\ write' = [write EXCEPT ![r] = NoRow]
    /\ snap' = [snap EXCEPT ![r] = NoRow]
    /\ lock' = Unlocked(r)
    /\ queued' = [queued EXCEPT ![r] = FALSE]
    /\ attempts' = [attempts EXCEPT ![r] = 0]
    /\ UNCHANGED <<input, expired, invalidated>>

\* The guard gives up on a read (attempts spent, budget spent, circuit open) or
\* on a write, which it never retries: 503 or 504, told apart in GuardedCall.  Or
\* the database answers with an error that is not transient: the guard passes it
\* on, and a 500 it is.
GiveUp(r) ==
    /\ pc[r] \in Reading \cup {"insert", "cas"}
    /\ RollbackAndAnswer(r, 503) \/ RollbackAndAnswer(r, 500)

\* Mutant of CommitFails: the failure is swallowed.
CommitFailsSilently(r) ==
    /\ pc[r] = "commit"
    /\ RollbackAndAnswer(r, Success[method[r]])

\* The commit is not guarded.  Its failure is a 500, and the server may have
\* committed before the answer was lost.
CommitFails(r) ==
    /\ pc[r] = "commit"
    /\ RollbackAndAnswer(r, 500)

CommitAnswerLost(r) ==
    /\ pc[r] = "commit"
    /\ pc' = [pc EXCEPT ![r] = "done"]
    /\ status' = [status EXCEPT ![r] = 500]
    /\ row' = IF write[r] = NoRow THEN row ELSE write[r]
    /\ committed' = IF method[r] = "POST" \/ write[r] # NoRow
                    THEN committed \cup {r} ELSE committed
    /\ write' = [write EXCEPT ![r] = NoRow]
    /\ snap' = [snap EXCEPT ![r] = NoRow]
    /\ lock' = Unlocked(r)
    /\ queued' = [queued EXCEPT ![r] = FALSE]
    /\ UNCHANGED <<input, attempts, expired, invalidated>>

\* The replica dies.  MySQL rolls the transaction back; the queue is lost.
Crash(r) ==
    /\ pc[r] \in Working \cup {"drain"}
    /\ pc' = [pc EXCEPT ![r] = "crashed"]
    /\ write' = [write EXCEPT ![r] = NoRow]
    /\ snap' = [snap EXCEPT ![r] = NoRow]
    /\ lock' = Unlocked(r)
    /\ queued' = [queued EXCEPT ![r] = FALSE]
    /\ attempts' = [attempts EXCEPT ![r] = 0]
    /\ UNCHANGED <<row, input, expired, committed, invalidated, status>>

Step(r) ==
    \/ Authenticate(r) \/ Insert(r) \/ Load(r) \/ CasMatches(r) \/ CasMisses(r)
    \/ Check(r) \/ Reload(r) \/ Commit(r) \/ Drain(r)

Fault(r) ==
    RetryRead(r) \/ GiveUp(r) \/ CommitFails(r) \/ CommitAnswerLost(r) \/ Crash(r)

Next == \E r \in Requests : Arrive(r) \/ Step(r) \/ Fault(r)

Spec == Init /\ [][Next]_vars

\* The event loop keeps running every request it has started; no fault, and so
\* no timeout, is needed to get a request through.
FairSpec == Spec /\ \A r \in Requests : WF_vars(Step(r))

-----------------------------------------------------------------------------
TypeOK ==
    /\ row \in Row
    /\ lock \in Requests \cup {Nobody}
    /\ pc \in [Requests -> Places]
    /\ method \in [Requests -> Methods]
    /\ ifMatch \in [Requests -> Nat]
    /\ payload \in [Requests -> Bodies]
    /\ allowed \in [Requests -> BOOLEAN]
    /\ snap \in [Requests -> Row \cup {NoRow}]
    /\ write \in [Requests -> Row \cup {NoRow}]
    /\ attempts \in [Requests -> 0 .. ReadAttempts - 1]
    /\ expired \in [Requests -> BOOLEAN]
    /\ queued \in [Requests -> BOOLEAN]
    /\ committed \in SUBSET Requests
    /\ invalidated \in SUBSET Requests
    /\ status \in [Requests -> {0, 200, 201, 204, 401, 403, 404, 409, 422, 500, 503}]

\* No lost update: whatever is interleaved between a client's read and its
\* request's commit, the version that a commit replaces is the version the
\* client named in If-Match, and it is not a deleted one.
NoLostUpdate ==
    [][\A r \in committed' \ committed :
         method[r] # "POST" => row.token = ifMatch[r] /\ ~ row.deleted]_vars

\* Where a request is, seen from outside.
Place ==
    [r \in Requests |->
        CASE pc[r] = "idle" -> "new"
          [] pc[r] \in Working \cup {"drain"} -> "open"
          [] pc[r] \in {"done", "crashed"} -> "closed"]

Register == INSTANCE ArticleRegister WITH place <- Place

\* Seen from outside, the transactions, locks, snapshots and retries of all the
\* replicas are one register with compare-and-set: a write takes effect at its
\* commit, on the version its client named, and no answer lies about it.
ImplementsRegister == Register!Spec

\* A deleted article stays deleted and its row is never written again.
DeletedIsFinal ==
    [][row.deleted => row' = row]_vars

\* A client told 201 or 204 has a durable write.
AckedIsDurable ==
    \A r \in Requests : status[r] \in {201, 204} => r \in committed

\* A refused request (4xx or 503) changed no row and invalidated no cache
\* entry, also when the refusal came after the compare-and-set had matched.
RefusedLeavesNoTrace ==
    \A r \in Requests :
        status[r] \in {401, 403, 404, 409, 422, 503} =>
            r \notin committed \cup invalidated

\* The precondition answers are true of the row: 404 only for a deleted
\* article, 409 only for a token that is no longer the article's.
RefusalsAreTrue ==
    \A r \in Requests :
        /\ status[r] = 404 => row.deleted
        /\ status[r] = 409 => row.token # ifMatch[r]

\* Every request that arrived is answered or dies with its replica: waiting
\* for the row lock never lasts for ever.
Answered ==
    \A r \in Requests : pc[r] = "auth" ~> pc[r] \in {"done", "crashed"}

\* guard.py: a retried read "costs a round trip and risks nothing".  So a PUT
\* that is answered 200 is durable, or carried what the row holds anyway.
AckedUpdateIsDurable ==
    \A r \in Requests :
        status[r] = 200 => r \in committed \/ payload[r] = row.body

\* The same claim for the request: a read that a retry healed is a read.  An
\* article that was found, and that the actor may modify, goes on to its
\* compare-and-set, and not to an internal error.
HealedReadIsNo500 ==
    [][\A r \in Requests :
         Load(r) /\ ~ Visible(r).deleted /\ allowed[r] => pc'[r] = "cas"]_vars

=============================================================================
