------------------------------ MODULE Accounts ------------------------------
(***************************************************************************)
(* Registration and login: AuthService.register and AuthService.login,     *)
(* each in one get_session transaction, with their password hashes in the  *)
(* bounded thread pool.                                                    *)
(*                                                                         *)
(* What a client types as its email becomes the value that is stored or    *)
(* looked up in one of two ways: RegisterIn normalizes it as an address    *)
(* (EmailStr) and lower-cases it, LoginIn only lower-cases it.  The two    *)
(* are functions about which nothing is assumed.  Emails are the values    *)
(* the column's collation tells apart; passwords have passed the policy.   *)
(* The unique index on users.email (external) lets a second INSERT of an   *)
(* email wait for the transaction that holds the first, and then refuses   *)
(* it if that one committed.  No account is ever deleted.                  *)
(***************************************************************************)
EXTENDS SequencesExt

CONSTANTS
    Requests,
    Spellings,      \* what clients type, as far as RegisterIn accepts it
    Emails,         \* values of users.email
    RegisterForm,   \* spelling -> email: EmailStr, then lower()
    LoginForm,      \* spelling -> email: lower()
    Passwords,
    MaxThreads,   \* password_hash_max_threads
    NoAccount,    \* no account has the email
    Nobody        \* no transaction holds an uncommitted row of the email

ASSUME AccountsAssumption ==
    /\ IsFiniteSet(Requests) /\ Nobody \notin Requests
    /\ MaxThreads \in Nat \ {0}
    /\ Emails # {} /\ Passwords # {}
    /\ RegisterForm \in [Spellings -> Emails]
    /\ LoginForm \in [Spellings -> Emails]
    /\ NoAccount \notin Passwords

VARIABLES
    account,    \* email -> the password its committed account was hashed from
    inserted,   \* email -> the transaction with an uncommitted row of it
    queue,      \* work of the password pool: the first MaxThreads items run
    dummyReady, \* _dummy_hash_cache is filled
    pc,
    method, email, password,   \* the payload, as its schema has left it
    status,     \* its answer, 0 before
    known       \* observer: logins that arrived after a 201 for what they look up

pool  == <<queue, dummyReady>>
input == <<method, email, password>>
vars  == <<account, inserted, pool, pc, input, status, known>>

\* The two hashes an unknown email costs a login come one after the other.
Hashes == {"hash", "dummy", "dummy_verify", "verify"}
Places == Hashes \cup {"idle", "lookup", "insert", "commit", "respond", "refuse", "done"}

Hashing == {r \in Requests : pc[r] \in Hashes}

TypeOK ==
    /\ account \in [Emails -> Passwords \cup {NoAccount}]
    /\ inserted \in [Emails -> Requests \cup {Nobody}]
    /\ queue \in [1 .. Cardinality(Hashing) -> Hashing]
    /\ Hashing = {queue[i] : i \in DOMAIN queue}
    /\ dummyReady \in BOOLEAN
    /\ pc \in [Requests -> Places]
    /\ method \in [Requests -> {"register", "login"}]
    /\ email \in [Requests -> Emails]
    /\ password \in [Requests -> Passwords]
    /\ status \in [Requests -> {0, 200, 201, 401, 409, 500, 503}]
    /\ known \in SUBSET Requests

Init ==
    /\ account = [e \in Emails |-> NoAccount]
    /\ inserted = [e \in Emails |-> Nobody]
    /\ queue = <<>>
    /\ dummyReady = FALSE
    /\ pc = [r \in Requests |-> "idle"]
    /\ method = [r \in Requests |-> "login"]
    /\ email = [r \in Requests |-> CHOOSE e \in Emails : TRUE]
    /\ password = [r \in Requests |-> CHOOSE p \in Passwords : TRUE]
    /\ status = [r \in Requests |-> 0]
    /\ known = {}

-----------------------------------------------------------------------------
Goto(r, place) == pc' = [pc EXCEPT ![r] = place]

\* run_in_executor queues the work, behind all that was queued before.
Submit(r, place) ==
    /\ Goto(r, place)
    /\ queue' = Append(queue, r)

\* The session ends, what it did not commit is rolled back, and the response leaves.
Answer(r, code) ==
    /\ Goto(r, "done")
    /\ status' = [status EXCEPT ![r] = code]
    /\ inserted' = [e \in Emails |-> IF inserted[e] = r THEN Nobody ELSE inserted[e]]
    /\ UNCHANGED <<account, pool, input, known>>

\* session.rollback(), or the commit of nothing: the answer leaves, or the 500 of
\* what that raised.
Close(r, code) == Answer(r, code) \/ Answer(r, 500)

\* Somebody has been told 201 for an account of this email and password.
Announced(e, p) ==
    \E q \in Requests : status[q] = 201 /\ email[q] = e /\ password[q] = p

\* A payload passes its schema's validators and the handler starts.
Arrive(r, m, e, p) ==
    /\ pc[r] = "idle"
    /\ Goto(r, "lookup")
    /\ method' = [method EXCEPT ![r] = m]
    /\ email' = [email EXCEPT ![r] = e]
    /\ password' = [password EXCEPT ![r] = p]
    /\ known' = IF m = "login" /\ Announced(e, p) THEN known \cup {r} ELSE known
    /\ UNCHANGED <<account, inserted, pool, status>>

ArriveRegister(r, s, p) == Arrive(r, "register", RegisterForm[s], p)
ArriveLogin(r, s, p)    == Arrive(r, "login", LoginForm[s], p)

\* register: get_by_email finds the account, or the password is hashed next.
CheckFree(r) ==
    /\ pc[r] = "lookup" /\ method[r] = "register"
    /\ \/ account[email[r]] # NoAccount /\ Close(r, 409)
       \/ /\ account[email[r]] = NoAccount
          /\ Submit(r, "hash")
          /\ UNCHANGED <<account, inserted, dummyReady, input, status, known>>

\* login: an unknown email costs a verification too, against a throwaway hash
\* that the first such login of the process computes.
LookUp(r) ==
    /\ pc[r] = "lookup" /\ method[r] = "login"
    /\ Submit(r, CASE account[email[r]] # NoAccount -> "verify"
                   [] account[email[r]] = NoAccount /\ dummyReady -> "dummy_verify"
                   [] OTHER -> "dummy")
    /\ UNCHANGED <<account, inserted, dummyReady, input, status, known>>

\* Mutant of Hashed: the thread is not given back.
HashedKeepsThread(r) ==
    /\ \E i \in DOMAIN queue : i <= MaxThreads /\ queue[i] = r
    /\ CASE pc[r] = "hash"   -> Goto(r, "insert") /\ UNCHANGED pool
         [] pc[r] = "verify" -> Goto(r, "respond") /\ UNCHANGED pool
         [] pc[r] = "dummy"  -> Goto(r, "dummy_verify") /\ UNCHANGED pool
         [] OTHER            -> Goto(r, "refuse") /\ UNCHANGED pool
    /\ UNCHANGED <<account, inserted, input, status, known>>

\* A thread has done its work and the coroutine goes on; after the dummy hash
\* it queues the verification.
Hashed(r) ==
    /\ \E i \in DOMAIN queue :
          /\ i <= MaxThreads /\ queue[i] = r
          /\ \/ /\ pc[r] = "dummy"
                /\ Goto(r, "dummy_verify")
                /\ queue' = Append(RemoveAt(queue, i), r)
                /\ dummyReady' = TRUE
             \/ /\ pc[r] # "dummy"
                /\ Goto(r, CASE pc[r] = "hash"   -> "insert"
                             [] pc[r] = "verify" -> "respond"
                             [] OTHER            -> "refuse")
                /\ queue' = RemoveAt(queue, i)
                /\ UNCHANGED dummyReady
    /\ UNCHANGED <<account, inserted, input, status, known>>

\* login's answer; create_access_token signs without a further await.  The
\* account a password was verified against was committed before and is kept.  A
\* login's transaction wrote nothing, so its commit is not a step of its own.
AnswerLogin(r) ==
    \/ pc[r] = "refuse" /\ Close(r, 401)
    \/ /\ pc[r] = "respond" /\ method[r] = "login"
       /\ \/ account[email[r]] = password[r] /\ Close(r, 200)
          \/ account[email[r]] # password[r] /\ Close(r, 401)

\* Mutant of Insert: a schema whose users.email is not unique.
InsertUnchecked(r) ==
    /\ pc[r] = "insert"
    /\ inserted[email[r]] = Nobody
    /\ inserted' = [inserted EXCEPT ![email[r]] = r]
    /\ Goto(r, "commit")
    /\ UNCHANGED <<account, pool, input, status, known>>

\* UserRepository.create: the flush waits for a competing transaction, then
\* inserts, or raises IntegrityError, which nothing translates.
Insert(r) ==
    /\ pc[r] = "insert"
    /\ inserted[email[r]] = Nobody
    /\ \/ /\ account[email[r]] = NoAccount
          /\ inserted' = [inserted EXCEPT ![email[r]] = r]
          /\ Goto(r, "commit")
          /\ UNCHANGED <<account, pool, input, status, known>>
       \/ account[email[r]] # NoAccount /\ Answer(r, 500)

Committed(r) ==
    /\ account' = [account EXCEPT ![email[r]] = password[r]]
    /\ inserted' = [inserted EXCEPT ![email[r]] = Nobody]

\* Mutant of Commit: the dependency ends with scope="request", after the
\* response was sent.
CommitAfterResponse(r) ==
    /\ pc[r] \in {"commit", "done"} /\ inserted[email[r]] = r
    /\ \/ /\ pc[r] = "commit"
          /\ Goto(r, "done")
          /\ status' = [status EXCEPT ![r] = 201]
          /\ UNCHANGED <<account, inserted>>
       \/ pc[r] = "done" /\ Committed(r) /\ UNCHANGED <<pc, status>>
    /\ UNCHANGED <<pool, input, known>>

\* session.commit() in get_session's teardown; SessionDep has scope="function",
\* so the response leaves afterwards.
Commit(r) ==
    /\ pc[r] = "commit"
    /\ Committed(r)
    /\ Goto(r, "respond")
    /\ UNCHANGED <<pool, input, status, known>>

AnswerRegister(r) ==
    /\ pc[r] = "respond" /\ method[r] = "register"
    /\ Answer(r, 201)

-----------------------------------------------------------------------------
\* The guard gives up on a lookup or an insert (503 or 504), or the database
\* answers with an error that is not transient, which nothing translates.
GiveUp(r) ==
    /\ pc[r] \in {"lookup", "insert"}
    /\ Close(r, 503)

\* Mutant of CommitFails: the transaction is left as it is.
CommitFailsNoRollback(r) ==
    /\ pc[r] = "commit"
    /\ Goto(r, "done")
    /\ status' = [status EXCEPT ![r] = 500]
    /\ UNCHANGED <<account, inserted, pool, input, known>>

\* The commit fails, or its answer is lost after the server has committed.
CommitFails(r) ==
    /\ pc[r] = "commit"
    /\ Answer(r, 500)

CommitAnswerLost(r) ==
    /\ pc[r] = "commit"
    /\ Committed(r)
    /\ Goto(r, "done")
    /\ status' = [status EXCEPT ![r] = 500]
    /\ UNCHANGED <<pool, input, known>>

Step(r) ==
    \/ CheckFree(r) \/ LookUp(r) \/ Hashed(r) \/ Insert(r)
    \/ Commit(r) \/ AnswerLogin(r) \/ AnswerRegister(r)

Next ==
    \E r \in Requests :
        \/ \E s \in Spellings, p \in Passwords : ArriveRegister(r, s, p) \/ ArriveLogin(r, s, p)
        \/ Step(r)
        \/ GiveUp(r) \/ CommitFails(r) \/ CommitAnswerLost(r)

Spec == Init /\ [][Next]_vars

\* The event loop runs what is ready and the pool's threads finish their work,
\* which is taken first come, first served.
FairSpec == Spec /\ \A r \in Requests : WF_vars(Step(r))

-----------------------------------------------------------------------------
\* An email belongs to whom it was given to, whichever registrations of it race:
\* a client told 201 owns the account, and nobody else was told so.
OneOwner ==
    \A r \in Requests : status[r] = 201 =>
        /\ account[email[r]] = password[r]
        /\ \A q \in Requests : status[q] = 201 /\ email[q] = email[r] => q = r

\* A client told 201 can log in at once with the email that answer names and the
\* password it chose: the commit comes before the response, and no hash, pool
\* or race of registrations makes a login of a known account a wrong one.  (With
\* the spelling it typed, if LoginForm makes the same email of it.)
RegisteredCanLogIn ==
    \A r \in known : status[r] # 401

\* Every request is answered: threads are taken by requests that wait for
\* nothing else, and the unique index is waited for by requests that hold no thread.
Answered ==
    \A r \in Requests : pc[r] = "lookup" ~> pc[r] = "done"

=============================================================================
