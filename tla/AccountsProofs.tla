--------------------------- MODULE AccountsProofs ---------------------------
(***************************************************************************)
(* Registration and login for any number of requests, spellings, emails,   *)
(* passwords and hashing threads, and any two schemas.                     *)
(***************************************************************************)
EXTENDS Accounts, FiniteSetTheorems, SequenceTheorems, TLAPS

Typed ==
    /\ account \in [Emails -> Passwords \cup {NoAccount}]
    /\ inserted \in [Emails -> Requests \cup {Nobody}]
    /\ dummyReady \in BOOLEAN
    /\ pc \in [Requests -> Places]
    /\ method \in [Requests -> {"register", "login"}]
    /\ email \in [Requests -> Emails]
    /\ password \in [Requests -> Passwords]
    /\ status \in [Requests -> {0, 200, 201, 401, 409, 500, 503}]
    /\ known \in SUBSET Requests

\* s lists the members of S, each once.
Lists(s, S) ==
    /\ s \in Seq(S)
    /\ \A i, j \in DOMAIN s : s[i] = s[j] => i = j
    /\ \A x \in S : \E i \in DOMAIN s : s[i] = x

\* A request waits in the pool once, and exactly while it is being hashed.
Queued == Lists(queue, Hashing)

\* A request's place tells its method, and only a finished one has a status.
InPlace ==
    \A r \in Requests :
        /\ pc[r] \in {"hash", "insert", "commit"} => method[r] = "register"
        /\ pc[r] \in {"dummy", "dummy_verify", "verify", "refuse"} => method[r] = "login"
        /\ status[r] # 0 => pc[r] = "done"

\* An uncommitted row belongs to the one transaction that is about to commit
\* it, and its email has no account yet.
RowsOwned ==
    /\ \A e \in Emails : inserted[e] # Nobody =>
          /\ pc[inserted[e]] = "commit" /\ email[inserted[e]] = e
          /\ account[e] = NoAccount
    /\ \A r \in Requests : pc[r] = "commit" => inserted[email[r]] = r

\* A registration has committed its account, answered or not.
Claims(r) == status[r] = 201 \/ (pc[r] = "respond" /\ method[r] = "register")

\* A committed account is its registration's for good.
Owners ==
    \A r \in Requests : Claims(r) =>
        /\ account[email[r]] = password[r]
        /\ \A q \in Requests : Claims(q) /\ email[q] = email[r] => q = r

\* A login with known credentials takes the path of an account that exists.
KnownOnTrack ==
    \A r \in known :
        /\ method[r] = "login" /\ account[email[r]] = password[r]
        /\ pc[r] \in {"lookup", "verify", "respond", "done"}
        /\ status[r] # 401

Inv == Typed /\ Queued /\ InPlace /\ RowsOwned /\ Owners /\ KnownOnTrack

-----------------------------------------------------------------------------
\* What run_in_executor appends is listed last.
LEMMA AppendLists ==
    ASSUME NEW s, NEW S, NEW x, Lists(s, S), x \notin S
    PROVE  Lists(Append(s, x), S \cup {x})
<1> DEFINE t == Append(s, x)
<1>1. s \in Seq(S) /\ Len(s) \in Nat /\ DOMAIN s = 1 .. Len(s)
  BY DEF Lists
<1>2. /\ t \in Seq(S \cup {x}) /\ DOMAIN t = 1 .. Len(s) + 1
      /\ t[Len(s) + 1] = x
      /\ \A i \in DOMAIN s : t[i] = s[i] /\ s[i] \in S
  BY <1>1
<1> HIDE DEF t
<1>3. \A i, j \in DOMAIN t : t[i] = t[j] => i = j
  BY <1>1, <1>2 DEF Lists
<1>4. \A y \in S \cup {x} : \E i \in DOMAIN t : t[i] = y
  BY <1>1, <1>2 DEF Lists
<1> QED  BY <1>2, <1>3, <1>4 DEF Lists, t

\* The index an item had in s that is the i-th of those left.
LEMMA RemoveAtFacts ==
    ASSUME NEW S, NEW s \in Seq(S), NEW i \in DOMAIN s
    PROVE  /\ RemoveAt(s, i) \in Seq(S)
           /\ DOMAIN RemoveAt(s, i) = 1 .. Len(s) - 1
           /\ \A j \in 1 .. Len(s) - 1 :
                 RemoveAt(s, i)[j] = IF j < i THEN s[j] ELSE s[j + 1]
<1> DEFINE a == SubSeq(s, 1, i - 1)
           b == SubSeq(s, i + 1, Len(s))
<1>1. Len(s) \in Nat /\ i \in 1 .. Len(s)
  OBVIOUS
<1>2. a \in Seq(S) /\ Len(a) = i - 1 /\ \A j \in 1 .. i - 1 : a[j] = s[j]
  BY <1>1
<1>3. b \in Seq(S) /\ Len(b) = Len(s) - i /\ \A j \in 1 .. Len(s) - i : b[j] = s[i + j]
  BY <1>1
<1> HIDE DEF a, b
<1>4. /\ a \o b \in Seq(S) /\ Len(a \o b) = Len(s) - 1
      /\ \A j \in 1 .. Len(s) - 1 : (a \o b)[j] = IF j < i THEN a[j] ELSE b[j - (i - 1)]
  <2>1. /\ a \o b \in Seq(S) /\ Len(a \o b) = Len(a) + Len(b)
        /\ \A j \in 1 .. Len(a) + Len(b) :
              (a \o b)[j] = IF j <= Len(a) THEN a[j] ELSE b[j - Len(a)]
    BY <1>2, <1>3, ConcatProperties, Zenon
  <2>2. /\ Len(a) + Len(b) = Len(s) - 1
        /\ \A j \in 1 .. Len(s) - 1 : j <= Len(a) <=> j < i
    BY <1>1, <1>2, <1>3
  <2> QED  BY <1>2, <2>1, <2>2
<1>5. \A j \in 1 .. Len(s) - 1 : (a \o b)[j] = IF j < i THEN s[j] ELSE s[j + 1]
  <2> TAKE j \in 1 .. Len(s) - 1
  <2>1. CASE j < i
    BY <1>1, <1>2, <1>4, <2>1
  <2>2. CASE ~ j < i
    <3>1. j - (i - 1) \in 1 .. Len(s) - i /\ i + (j - (i - 1)) = j + 1
      BY <1>1, <2>2
    <3> QED  BY <1>3, <1>4, <2>2, <3>1
  <2> QED  BY <2>1, <2>2
<1>6. RemoveAt(s, i) = a \o b
  BY DEF RemoveAt, a, b
<1>7. DOMAIN (a \o b) = 1 .. Len(s) - 1
  BY <1>4, LenProperties
<1> QED  BY <1>4, <1>5, <1>6, <1>7

\* A finished item leaves the list, whichever thread had it.
LEMMA RemoveLists ==
    ASSUME NEW s, NEW S, Lists(s, S), NEW i \in DOMAIN s
    PROVE  Lists(RemoveAt(s, i), S \ {s[i]})
<1> DEFINE t == RemoveAt(s, i)
           Old(j) == IF j < i THEN j ELSE j + 1
<1>1. s \in Seq(S) /\ Len(s) \in Nat /\ DOMAIN s = 1 .. Len(s)
  BY DEF Lists
<1>2. t \in Seq(S) /\ DOMAIN t = 1 .. Len(s) - 1
  BY <1>1, RemoveAtFacts
<1>3. \A j \in DOMAIN t : Old(j) \in DOMAIN s /\ Old(j) # i /\ t[j] = s[Old(j)]
  <2>1. \A j \in 1 .. Len(s) - 1 : t[j] = IF j < i THEN s[j] ELSE s[j + 1]
    BY <1>1, RemoveAtFacts
  <2>2. \A j \in 1 .. Len(s) - 1 : Old(j) \in DOMAIN s /\ Old(j) # i
    BY <1>1
  <2>3. \A j \in 1 .. Len(s) - 1 : t[j] = s[Old(j)]
    BY <2>1
  <2> QED  BY <1>2, <2>2, <2>3
<1>4. \A k \in DOMAIN s : k # i => \E j \in DOMAIN t : t[j] = s[k]
  <2> SUFFICES ASSUME NEW k \in DOMAIN s, k # i
               PROVE  \E j \in DOMAIN t : Old(j) = k
    BY <1>3
  <2>1. CASE k < i
    BY <1>1, <1>2, <2>1
  <2>2. CASE k > i
    <3>1. k - 1 \in DOMAIN t /\ Old(k - 1) = k
      BY <1>1, <1>2, <2>2
    <3> QED  BY <3>1
  <2> QED  BY <1>1, <2>1, <2>2
<1>5. \A j, k \in DOMAIN t : Old(j) = Old(k) => j = k
  BY <1>1, <1>2
<1> HIDE DEF t, Old
<1>6. \A j, k \in DOMAIN t : t[j] = t[k] => j = k
  BY <1>3, <1>5 DEF Lists
<1>7. \A j \in DOMAIN t : t[j] \in S \ {s[i]}
  BY <1>1, <1>3 DEF Lists
<1>8. t \in Seq(S \ {s[i]})
  BY <1>2, <1>7
<1>9. \A x \in S \ {s[i]} : \E j \in DOMAIN t : t[j] = x
  BY <1>4 DEF Lists
<1> QED  BY <1>6, <1>8, <1>9 DEF Lists, t

\* A list is as long as its set.
LEMMA ListLength ==
    ASSUME NEW s, NEW S, Lists(s, S)
    PROVE  /\ Len(s) = Cardinality(S)
           /\ s \in [1 .. Cardinality(S) -> S]
           /\ S = {s[i] : i \in DOMAIN s}
<1>1. s \in [1 .. Len(s) -> S] /\ Len(s) \in Nat /\ DOMAIN s = 1 .. Len(s)
  BY DEF Lists
<1>2. s \in Bijection(1 .. Len(s), S)
  BY <1>1 DEF Lists, Bijection, Injection, IsInjective, Surjection
<1>3. ExistsBijection(1 .. Len(s), S)
  BY <1>2 DEF ExistsBijection
<1>4. IsFiniteSet(1 .. Len(s)) /\ Cardinality(1 .. Len(s)) = Len(s)
  <2>1. 1 \in Int /\ Len(s) \in Int
    BY <1>1
  <2>2. /\ IsFiniteSet(1 .. Len(s))
        /\ Cardinality(1 .. Len(s)) = IF 1 > Len(s) THEN 0 ELSE Len(s) - 1 + 1
    BY <2>1, FS_Interval, Zenon
  <2> QED  BY <1>1, <2>2
<1>5. Cardinality(S) = Len(s)
  BY <1>3, <1>4, FS_Bijection
<1> QED  BY <1>1, <1>5 DEF Lists
-----------------------------------------------------------------------------
\* A fresh process over an empty table.
LEMMA InitInv == Init => Inv
<1> SUFFICES ASSUME Init PROVE Inv
  OBVIOUS
<1> USE DEF Init
<1>1. Typed /\ InPlace
  BY AccountsAssumption DEF Typed, InPlace, Places, Hashes
<1>2. Queued
  <2>1. Hashing = {}
    BY DEF Hashing, Hashes
  <2> QED  BY <2>1 DEF Queued, Lists
<1>3. RowsOwned /\ Owners /\ KnownOnTrack
  BY AccountsAssumption DEF RowsOwned, Owners, Claims, KnownOnTrack
<1> QED  BY <1>1, <1>2, <1>3 DEF Inv

\* What a step outside the pool keeps of its queue.
LEMMA QueueKept ==
    ASSUME Typed, Queued, UNCHANGED queue, NEW r \in Requests, NEW p,
           Goto(r, p), pc[r] \notin Hashes, p \notin Hashes
    PROVE  Queued'
<1>1. Hashing' = Hashing
  BY DEF Hashing, Goto, Typed
<1> QED  BY <1>1 DEF Queued, Lists

\* What a submission makes of the queue.
LEMMA QueueGrows ==
    ASSUME Typed, Queued, NEW r \in Requests, NEW p,
           Submit(r, p), pc[r] \notin Hashes, p \in Hashes
    PROVE  Queued'
<1>1. Hashing' = Hashing \cup {r} /\ r \notin Hashing
  BY DEF Hashing, Submit, Goto, Typed
<1>2. Lists(Append(queue, r), Hashing \cup {r})
  BY <1>1, AppendLists DEF Queued
<1>3. Lists(queue', Hashing')
  BY <1>1, <1>2 DEF Submit
<1> QED  BY <1>3 DEF Queued, Lists

\* An answer that ends a request without an account of its own.
LEMMA AnswerInv ==
    ASSUME Inv, NEW r \in Requests, NEW code \in {200, 201, 401, 409, 500, 503},
           Answer(r, code), pc[r] \notin Hashes \cup {"done"},
           code = 201 => pc[r] = "respond" /\ method[r] = "register",
           code = 401 => r \notin known
    PROVE  Inv'
<1> USE DEF Inv
<1>1. Typed'
  BY DEF Typed, Answer, Goto, Places, pool, input
<1>2. Queued'
  BY QueueKept DEF Answer, pool, Hashes
<1>3. InPlace'
  BY DEF InPlace, Answer, Goto, Typed, input
<1>4. RowsOwned'
  BY AccountsAssumption DEF RowsOwned, Answer, Goto, Typed, input
<1>5. Owners'
  <2>1. \A q \in Requests : Claims(q)' => Claims(q)
    BY DEF Claims, Answer, Goto, Typed, input
  <2> QED  BY <2>1 DEF Owners, Answer, input
<1>6. KnownOnTrack'
  BY DEF KnownOnTrack, Answer, Goto, Typed, input
<1> QED  BY <1>1, <1>2, <1>3, <1>4, <1>5, <1>6

\* The same when the transaction may end in an exception of its own.
LEMMA CloseInv ==
    ASSUME Inv, NEW r \in Requests, NEW code \in {200, 401, 409, 503},
           Close(r, code), pc[r] \notin Hashes \cup {"done"},
           code = 401 => r \notin known
    PROVE  Inv'
<1>1. CASE Answer(r, code)
  BY <1>1, AnswerInv
<1>2. CASE Answer(r, 500)
  BY <1>2, AnswerInv
<1> QED  BY <1>1, <1>2 DEF Close

-----------------------------------------------------------------------------
\* A request that has not started has no part in what the invariant says; a
\* login that becomes known names an account that a 201 claimed.
LEMMA ArriveInv ==
    ASSUME Inv, NEW r \in Requests, NEW m \in {"register", "login"},
           NEW e \in Emails, NEW p \in Passwords, Arrive(r, m, e, p)
    PROVE  Inv'
<1> USE DEF Inv
<1>1. pc[r] = "idle" /\ status[r] = 0 /\ r \notin known /\ ~ Claims(r)
  BY DEF Arrive, InPlace, KnownOnTrack, Claims
<1>2. \A q \in Requests \ {r} :
         /\ pc'[q] = pc[q] /\ method'[q] = method[q]
         /\ email'[q] = email[q] /\ password'[q] = password[q]
  BY DEF Arrive, Goto, Typed
<1>3. pc'[r] = "lookup" /\ method'[r] = m /\ email'[r] = e /\ password'[r] = p
  BY DEF Arrive, Goto, Typed
<1>4. UNCHANGED <<account, inserted, queue, dummyReady, status>>
  BY DEF Arrive, pool
<1>5. Typed'
  BY <1>1, <1>4 DEF Typed, Arrive, Goto, Places
<1>6. InPlace'
  BY <1>1, <1>2, <1>3, <1>4 DEF InPlace
<1>7. RowsOwned'
  BY <1>1, <1>2, <1>3, <1>4 DEF RowsOwned, Typed
<1>8. Queued'
  BY <1>1, <1>4, QueueKept DEF Arrive, Hashes
<1>9. \A q \in Requests : Claims(q)' => q # r /\ Claims(q)
  BY <1>1, <1>2, <1>3, <1>4 DEF Claims
<1>10. Owners'
  BY <1>2, <1>4, <1>9 DEF Owners
<1>11. KnownOnTrack'
  <2>1. ASSUME r \in known'
        PROVE  m = "login" /\ account[e] = p
    <3>1. m = "login" /\ Announced(e, p)
      BY <1>1, <2>1 DEF Arrive
    <3> QED  BY <3>1 DEF Announced, Owners, Claims
  <2>2. \A q \in known' : q = r \/ (q # r /\ q \in known)
    BY DEF Arrive
  <2>3. known' \subseteq Requests
    BY <1>5 DEF Typed
  <2> QED  BY <1>1, <1>2, <1>3, <1>4, <2>1, <2>2, <2>3 DEF KnownOnTrack
<1> QED  BY <1>5, <1>6, <1>7, <1>8, <1>10, <1>11

\* Either arrival is one of these.
LEMMA ArrivalsInv ==
    ASSUME Inv, NEW r \in Requests, NEW s \in Spellings, NEW p \in Passwords,
           ArriveRegister(r, s, p) \/ ArriveLogin(r, s, p)
    PROVE  Inv'
<1>1. RegisterForm[s] \in Emails /\ LoginForm[s] \in Emails
  BY AccountsAssumption
<1>2. CASE ArriveRegister(r, s, p)
  BY <1>1, <1>2, ArriveInv DEF ArriveRegister
<1>3. CASE ArriveLogin(r, s, p)
  BY <1>1, <1>3, ArriveInv DEF ArriveLogin
<1> QED  BY <1>2, <1>3

\* An email that is taken is refused, a free one is hashed for.
LEMMA CheckFreeInv ==
    ASSUME Inv, NEW r \in Requests, CheckFree(r) PROVE Inv'
<1>1. CASE account[email[r]] # NoAccount /\ Close(r, 409)
  BY <1>1, CloseInv DEF CheckFree, Hashes
<1>2. CASE /\ account[email[r]] = NoAccount
           /\ Submit(r, "hash")
           /\ UNCHANGED <<account, inserted, dummyReady, input, status, known>>
  <2> USE <1>2 DEF Inv
  <2>1. Typed' /\ InPlace' /\ RowsOwned'
    BY DEF Typed, InPlace, RowsOwned, CheckFree, Submit, Goto, Places, Hashes, input
  <2>2. Queued'
    BY QueueGrows DEF CheckFree, Hashes
  <2>3. Owners'
    <3>1. \A q \in Requests : Claims(q)' => Claims(q)
      BY DEF Claims, Submit, Goto, Typed, input
    <3> QED  BY <3>1 DEF Owners, input
  <2>4. KnownOnTrack'
    BY DEF KnownOnTrack, CheckFree, Submit, Goto, Typed, input
  <2> QED  BY <2>1, <2>2, <2>3, <2>4
<1> QED  BY <1>1, <1>2 DEF CheckFree

\* A login of an account that exists verifies its hash.
LEMMA LookUpInv ==
    ASSUME Inv, NEW r \in Requests, LookUp(r) PROVE Inv'
<1> USE DEF Inv
<1>1. PICK p \in {"verify", "dummy_verify", "dummy"} :
         /\ Submit(r, p)
         /\ account[email[r]] # NoAccount => p = "verify"
  BY DEF LookUp
<1> USE <1>1
<1>2. Typed' /\ InPlace' /\ RowsOwned'
  BY DEF Typed, InPlace, RowsOwned, LookUp, Submit, Goto, Places, Hashes, input
<1>3. Queued'
  BY QueueGrows DEF LookUp, Hashes
<1>4. Owners'
  <2>1. \A q \in Requests : Claims(q)' => Claims(q)
    BY DEF Claims, LookUp, Submit, Goto, Typed, input
  <2> QED  BY <2>1 DEF Owners, LookUp, input
<1>5. KnownOnTrack'
  <2>1. r \in known => p = "verify"
    BY AccountsAssumption DEF KnownOnTrack, Typed
  <2> QED  BY <2>1 DEF KnownOnTrack, LookUp, Submit, Goto, Typed, input
<1> QED  BY <1>2, <1>3, <1>4, <1>5

\* A thread's end, with the pool's queue seen as the set it lists.
LEMMA HashedInv ==
    ASSUME Inv, NEW r \in Requests, Hashed(r) PROVE Inv'
<1> USE DEF Inv
<1>1. PICK i \in DOMAIN queue :
         /\ queue[i] = r
         /\ \/ /\ pc[r] = "dummy"
               /\ Goto(r, "dummy_verify")
               /\ queue' = Append(RemoveAt(queue, i), r)
               /\ dummyReady' = TRUE
            \/ /\ pc[r] # "dummy"
               /\ Goto(r, CASE pc[r] = "hash"   -> "insert"
                            [] pc[r] = "verify" -> "respond"
                            [] OTHER            -> "refuse")
               /\ queue' = RemoveAt(queue, i)
               /\ UNCHANGED dummyReady
  BY DEF Hashed
<1>2. r \in Hashing /\ pc[r] \in Hashes
  BY <1>1 DEF Queued, Lists, Hashing
<1>3. Lists(RemoveAt(queue, i), Hashing \ {r})
  BY <1>1, RemoveLists DEF Queued
<1>4. PICK p \in {"dummy_verify", "insert", "respond", "refuse"} :
         /\ Goto(r, p)
         /\ p = "insert" => pc[r] = "hash"
         /\ p = "respond" => pc[r] = "verify"
         /\ p \in {"dummy_verify", "refuse"} => pc[r] \in {"dummy", "dummy_verify"}
         /\ p = "dummy_verify" <=> pc[r] = "dummy"
  BY <1>1, <1>2 DEF Hashes
<1>5. UNCHANGED <<account, inserted, input, status, known>> /\ dummyReady' \in BOOLEAN
  BY <1>1 DEF Hashed, Typed
<1>6. Typed' /\ InPlace' /\ RowsOwned'
  BY <1>2, <1>4, <1>5 DEF Typed, InPlace, RowsOwned, Goto, Places, Hashes, input
<1>7. Queued'
  <2>1. CASE pc[r] = "dummy"
    <3>1. Lists(Append(RemoveAt(queue, i), r), (Hashing \ {r}) \cup {r})
      BY <1>3, AppendLists
    <3>2. Hashing' = (Hashing \ {r}) \cup {r}
      BY <1>2, <1>4, <2>1 DEF Hashing, Goto, Typed, Hashes
    <3>3. Lists(queue', Hashing')
      BY <1>1, <2>1, <3>1, <3>2
    <3> QED  BY <3>3 DEF Queued, Lists
  <2>2. CASE pc[r] # "dummy"
    <3>1. Hashing' = Hashing \ {r}
      BY <1>2, <1>4, <2>2 DEF Hashing, Goto, Typed, Hashes
    <3>2. Lists(queue', Hashing')
      BY <1>1, <1>3, <2>2, <3>1
    <3> QED  BY <3>2 DEF Queued, Lists
  <2> QED  BY <2>1, <2>2
<1>8. Owners'
  <2>1. \A q \in Requests : Claims(q)' => Claims(q)
    BY <1>4, <1>5 DEF Claims, Goto, Typed, input, InPlace
  <2> QED  BY <2>1, <1>5 DEF Owners, input
<1>9. KnownOnTrack'
  BY <1>4, <1>5 DEF KnownOnTrack, Goto, Typed, input
<1> QED  BY <1>6, <1>7, <1>8, <1>9
\* A row is inserted for an email without an account and without a row.
LEMMA InsertInv ==
    ASSUME Inv, NEW r \in Requests, Insert(r) PROVE Inv'
<1>1. CASE account[email[r]] # NoAccount /\ Answer(r, 500)
  BY <1>1, AnswerInv DEF Insert, Hashes
<1>2. CASE /\ account[email[r]] = NoAccount
           /\ inserted' = [inserted EXCEPT ![email[r]] = r]
           /\ Goto(r, "commit")
           /\ UNCHANGED <<account, pool, input, status, known>>
  <2> USE <1>2 DEF Inv
  <2>1. Typed' /\ InPlace'
    BY DEF Typed, InPlace, Insert, Goto, Places, pool, input
  <2>2. Queued'
    BY QueueKept DEF Insert, pool, Hashes
  <2>3. RowsOwned'
    BY AccountsAssumption DEF RowsOwned, Insert, Goto, Typed, input
  <2>4. Owners'
    <3>1. \A q \in Requests : Claims(q)' => Claims(q)
      BY DEF Claims, Goto, Typed, input
    <3> QED  BY <3>1 DEF Owners, input
  <2>5. KnownOnTrack'
    BY DEF KnownOnTrack, Insert, Goto, Typed, input
  <2> QED  BY <2>1, <2>2, <2>3, <2>4, <2>5
<1> QED  BY <1>1, <1>2 DEF Insert

\* The email had no account until now, so no earlier claim and no known login
\* names it.
LEMMA CommittedFacts ==
    ASSUME Inv, NEW r \in Requests, pc[r] = "commit", Committed(r), UNCHANGED input
    PROVE  /\ account[email[r]] = NoAccount
           /\ account' = [account EXCEPT ![email[r]] = password[r]]
           /\ \A q \in Requests : Claims(q) => email[q] # email[r]
           /\ \A q \in known : email[q] # email[r]
           /\ \A q \in Requests : q # r /\ pc[q] = "commit" => email[q] # email[r]
<1> USE DEF Inv
<1>1. inserted[email[r]] = r /\ account[email[r]] = NoAccount
  BY AccountsAssumption DEF RowsOwned, Typed
<1>2. \A q \in Requests : password[q] # NoAccount
  BY AccountsAssumption DEF Typed
<1> QED  BY <1>1, <1>2 DEF Committed, Owners, KnownOnTrack, RowsOwned, Typed

\* The commit, with the place and the status its caller sees after it.
LEMMA CommittedInv ==
    ASSUME Inv, NEW r \in Requests, pc[r] = "commit", Committed(r),
           UNCHANGED <<pool, input, known>>,
           \/ Goto(r, "respond") /\ UNCHANGED status
           \/ Goto(r, "done") /\ status' = [status EXCEPT ![r] = 500]
    PROVE  Inv'
<1> USE CommittedFacts DEF Inv
<1>1. Typed' /\ InPlace'
  BY DEF Typed, InPlace, Committed, Goto, Places, pool, input
<1>2. Queued'
  BY QueueKept DEF pool, Hashes
<1>3. RowsOwned'
  BY AccountsAssumption DEF RowsOwned, Committed, Goto, Typed, input
<1>4. \A q \in Requests : Claims(q)' => Claims(q) \/ q = r
  BY DEF Claims, Goto, Typed, input
<1>5. Owners'
  BY <1>4 DEF Owners, Typed, input
<1>6. KnownOnTrack'
  BY DEF KnownOnTrack, Goto, Typed, input
<1> QED  BY <1>1, <1>2, <1>3, <1>5, <1>6

\* Commits, their failures, and the answers.
LEMMA StepsInv ==
    ASSUME Inv, NEW r \in Requests,
           \/ Commit(r) \/ CommitAnswerLost(r) \/ CommitFails(r)
           \/ GiveUp(r) \/ AnswerLogin(r) \/ AnswerRegister(r)
    PROVE  Inv'
<1>1. CASE Commit(r)
  BY <1>1, CommittedInv DEF Commit
<1>2. CASE CommitAnswerLost(r)
  BY <1>2, CommittedInv DEF CommitAnswerLost
<1>3. CASE CommitFails(r)
  BY <1>3, AnswerInv DEF CommitFails, Hashes
<1>4. CASE GiveUp(r)
  BY <1>4, CloseInv DEF GiveUp, Hashes
<1>5. CASE AnswerRegister(r)
  BY <1>5, AnswerInv DEF AnswerRegister, Hashes
<1>6. CASE pc[r] = "refuse" /\ Close(r, 401)
  <2>1. r \notin known
    BY <1>6 DEF Inv, KnownOnTrack
  <2> QED  BY <1>6, <2>1, CloseInv DEF Hashes
<1>7. CASE pc[r] = "respond" /\ account[email[r]] = password[r] /\ Close(r, 200)
  BY <1>7, CloseInv DEF Hashes
<1>8. CASE pc[r] = "respond" /\ account[email[r]] # password[r] /\ Close(r, 401)
  <2>1. r \notin known
    BY <1>8 DEF Inv, KnownOnTrack
  <2> QED  BY <1>8, <2>1, CloseInv DEF Hashes
<1> QED
  BY <1>1, <1>2, <1>3, <1>4, <1>5, <1>6, <1>7, <1>8 DEF AnswerLogin

\* Every step keeps the invariant.
LEMMA NextInv == Inv /\ [Next]_vars => Inv'
<1> SUFFICES ASSUME Inv, [Next]_vars PROVE Inv'
  OBVIOUS
<1>1. CASE Next
  <2>1. PICK r \in Requests :
           \/ \E s \in Spellings, p \in Passwords :
                 ArriveRegister(r, s, p) \/ ArriveLogin(r, s, p)
           \/ Step(r)
           \/ GiveUp(r) \/ CommitFails(r) \/ CommitAnswerLost(r)
    BY <1>1 DEF Next
  <2> QED
    BY <2>1, ArrivalsInv, CheckFreeInv, LookUpInv, HashedInv, InsertInv, StepsInv DEF Step
<1>2. CASE UNCHANGED vars
  BY <1>2 DEF vars, pool, input, Inv, Typed, Queued, Lists, Hashing, InPlace,
              RowsOwned, Owners, Claims, KnownOnTrack
<1> QED  BY <1>1, <1>2

\* The invariant of every behaviour.
LEMMA Invariance == Spec => []Inv
  BY InitInv, NextInv, PTL DEF Spec

-----------------------------------------------------------------------------
\* The variables keep their types, and the pool's queue lists each request that
\* is being hashed exactly once, however the hashes interleave.
THEOREM TypeCorrect == Spec => []TypeOK
<1>1. Inv => TypeOK
  <2> SUFFICES ASSUME Inv PROVE TypeOK
    OBVIOUS
  <2>1. /\ queue \in [1 .. Cardinality(Hashing) -> Hashing]
        /\ Hashing = {queue[i] : i \in DOMAIN queue}
    BY ListLength DEF Inv, Queued
  <2> QED  BY <2>1 DEF Inv, Typed, TypeOK
<1> QED  BY <1>1, Invariance, PTL

\* A 201 owns its email, and no two of them share one: registrations of an email
\* race through lookup, hash, insert and commit, and the unique index decides.
THEOREM EmailsHaveOneOwner == Spec => []OneOwner
<1>1. Inv => OneOwner
  BY DEF Inv, Owners, Claims, OneOwner
<1> QED  BY <1>1, Invariance, PTL

\* A login that arrives with the email a 201 named and the password chosen for it
\* is never refused as wrong: the commit comes before the 201, and an account is
\* kept.  Nothing is assumed of what a login's schema makes of a spelling.
THEOREM RegistrationsAreUsable == Spec => []RegisteredCanLogIn
<1>1. Inv => RegisteredCanLogIn
  BY DEF Inv, KnownOnTrack, RegisteredCanLogIn
<1> QED  BY <1>1, Invariance, PTL

=============================================================================
