-------------------------- MODULE ArticleWritesProofs --------------------------
(***************************************************************************)
(* The compare-and-set write path for any number of concurrent requests,   *)
(* any contents and any number of read attempts.                           *)
(***************************************************************************)
EXTENDS ArticleWrites, TLAPS

\* The heart of the argument: an uncommitted write belongs to the transaction
\* that holds the row lock, and the row is still the version its client named.
WriterOwnsRow ==
    \A r \in Requests :
        /\ write[r] # NoRow =>
              /\ lock = r
              /\ row.token = ifMatch[r]
              /\ ~ row.deleted
              /\ pc[r] \in {"reload", "commit"}
              /\ method[r] # "POST"
        /\ pc[r] \in {"load", "cas"} => method[r] # "POST"

\* Nothing of a request is durable or invalidated before its commit.
NothingBeforeCommit ==
    \A r \in Requests :
        /\ pc[r] \in Working \cup {"idle"} => r \notin committed \cup invalidated
        /\ pc[r] = "drain" => r \notin invalidated
        /\ status[r] # 0 <=> pc[r] = "done"

\* A delete that reached its commit still has its write: no read, and so no
\* retry's rollback, comes between.  Past the commit it is durable.
DeleteKeepsWrite ==
    \A r \in Requests :
        /\ pc[r] = "commit" /\ method[r] = "DELETE" => write[r] # NoRow
        /\ pc[r] = "reload" => method[r] = "PUT"
        /\ pc[r] = "insert" => method[r] = "POST"
        /\ pc[r] = "drain" /\ method[r] # "PUT" => r \in committed

Safe == AckedIsDurable /\ RefusedLeavesNoTrace

Inv == TypeOK /\ WriterOwnsRow /\ NothingBeforeCommit /\ DeleteKeepsWrite /\ Safe

\* The process starts with idle requests, no lock held and a well-typed row.
LEMMA InitType == Init => TypeOK
<1> SUFFICES ASSUME Init PROVE TypeOK
  OBVIOUS
<1>1. row \in Row
  BY DEF Init, Row
<1>2. row.body \in Bodies
  BY <1>1 DEF Row
<1> QED  BY <1>1, <1>2, WritesAssumption DEF Init, TypeOK, Methods, Places

\* Every answer the handlers and get_session give by rolling back keeps types.
LEMMA RollbackType ==
    ASSUME TypeOK, NEW r \in Requests,
           NEW code \in {401, 403, 404, 409, 422, 500, 503},
           RollbackAndAnswer(r, code)
    PROVE  TypeOK'
<1>1. PICK c \in {401, 403, 404, 409, 422, 500, 503} : status' = [status EXCEPT ![r] = c]
  BY DEF RollbackAndAnswer
<1>2. status' \in [Requests -> {0, 200, 201, 204, 401, 403, 404, 409, 422, 500, 503}]
  BY <1>1 DEF TypeOK
<1>3. queued' \in [Requests -> BOOLEAN]
  <2>1. queued \in [Requests -> BOOLEAN]
    BY DEF TypeOK
  <2>2. [queued EXCEPT ![r] = FALSE] \in [Requests -> BOOLEAN]
    BY <2>1
  <2>3. queued' = queued \/ queued' = [queued EXCEPT ![r] = FALSE]
    BY DEF RollbackAndAnswer
  <2>4. CASE queued' = queued
    BY <2>1, <2>4
  <2>5. CASE queued' = [queued EXCEPT ![r] = FALSE]
    BY <2>2, <2>5
  <2> QED  BY <2>3, <2>4, <2>5
<1> QED
  BY <1>2, <1>3, WritesAssumption DEF RollbackAndAnswer, TypeOK, Unlocked, input, Places

\* Moving a request to its next step (the await returns normally) keeps types.
LEMMA ProceedType ==
    ASSUME TypeOK, NEW r \in Requests, NEW next \in Places, Proceed(r, next)
    PROVE  TypeOK'
  BY WritesAssumption DEF Proceed, TypeOK, Snapshot, input

\* The row a committed update or delete leaves behind is a row.
LEMMA ReplacedType ==
    ASSUME TypeOK, NEW r \in Requests
    PROVE  Replaced(r) \in Row
  BY DEF TypeOK, Replaced, Row

\* Every step of a handler, of get_session and of the database keeps types.
LEMMA NextType == TypeOK /\ [Next]_vars => TypeOK'
<1> SUFFICES ASSUME TypeOK, [Next]_vars PROVE TypeOK'
  OBVIOUS
<1> USE WritesAssumption
<1>1. ASSUME NEW r \in Requests, Arrive(r) PROVE TypeOK'
  BY <1>1 DEF Arrive, TypeOK, tx, Row, Places, Working, Reading
<1>2. ASSUME NEW r \in Requests, Authenticate(r) PROVE TypeOK'
  BY <1>2, RollbackType, ProceedType DEF Authenticate, Places, Working, Reading
<1>3. ASSUME NEW r \in Requests, Insert(r) PROVE TypeOK'
  BY <1>3 DEF Insert, TypeOK, input, Places, Working
<1>4. ASSUME NEW r \in Requests, Load(r) PROVE TypeOK'
  BY <1>4, RollbackType, ProceedType DEF Load, Places, Working
<1>5. ASSUME NEW r \in Requests, CasMatches(r) PROVE TypeOK'
  <2>1. write' \in [Requests -> Row \cup {NoRow}]
    BY <1>5, ReplacedType DEF CasMatches, TypeOK
  <2>2. pc' \in [Requests -> Places]
    BY <1>5 DEF CasMatches, TypeOK, Places, Working, Reading
  <2> QED  BY <1>5, <2>1, <2>2 DEF CasMatches, TypeOK, input
<1>m. ASSUME NEW r \in Requests, CasMisses(r) PROVE TypeOK'
  BY <1>m DEF CasMisses, TypeOK, input, tx, Places, Working, Reading
<1>6. ASSUME NEW r \in Requests, Check(r) \/ GiveUp(r) \/ CommitFails(r) PROVE TypeOK'
  BY <1>6, RollbackType DEF Check, GiveUp, CommitFails
<1>7. ASSUME NEW r \in Requests, Reload(r) PROVE TypeOK'
  BY <1>7, RollbackType, ProceedType DEF Reload, Places, Working
<1>8. ASSUME NEW r \in Requests, Commit(r) PROVE TypeOK'
  BY <1>8 DEF Commit, TypeOK, Unlocked, input, Places
<1>9. ASSUME NEW r \in Requests, Drain(r) PROVE TypeOK'
  <2>1. Success[method[r]] \in {200, 201, 204}
    BY DEF TypeOK, Success, Methods
  <2> QED  BY <1>9, <2>1 DEF Drain, TypeOK, input, Places
<1>10. ASSUME NEW r \in Requests, RetryRead(r) PROVE TypeOK'
  BY <1>10 DEF RetryRead, TypeOK, Unlocked, input
<1>11. ASSUME NEW r \in Requests, CommitAnswerLost(r) PROVE TypeOK'
  BY <1>11 DEF CommitAnswerLost, TypeOK, Unlocked, input, Places
<1>12. ASSUME NEW r \in Requests, Crash(r) PROVE TypeOK'
  BY <1>12 DEF Crash, TypeOK, Unlocked, input, Places
<1>13. CASE UNCHANGED vars
  BY <1>13 DEF TypeOK, vars, input, tx
<1> QED
  BY <1>1, <1>2, <1>3, <1>4, <1>5, <1>m, <1>6, <1>7, <1>8, <1>9, <1>10, <1>11, <1>12, <1>13
  DEF Next, Step, Fault

\* A transaction with an uncommitted write keeps its lock and its row.
LEMMA NextOwner ==
    TypeOK /\ WriterOwnsRow /\ [Next]_vars => WriterOwnsRow'
<1> SUFFICES ASSUME TypeOK, WriterOwnsRow, [Next]_vars PROVE WriterOwnsRow'
  OBVIOUS
<1> USE WritesAssumption, NoRowAssumption DEF TypeOK, WriterOwnsRow
<1>1. ASSUME NEW r \in Requests, Arrive(r) PROVE WriterOwnsRow'
  BY <1>1 DEF Arrive, tx
<1>2. ASSUME NEW r \in Requests, Authenticate(r) PROVE WriterOwnsRow'
  BY <1>2 DEF Authenticate, Proceed, RollbackAndAnswer, Unlocked, input
<1>3. ASSUME NEW r \in Requests, Insert(r) PROVE WriterOwnsRow'
  BY <1>3 DEF Insert, input
<1>4. ASSUME NEW r \in Requests, Load(r) PROVE WriterOwnsRow'
  BY <1>4 DEF Load, Proceed, RollbackAndAnswer, Unlocked, input
<1>5. ASSUME NEW r \in Requests, CasMatches(r) PROVE WriterOwnsRow'
  BY <1>5 DEF CasMatches, input
<1>6. ASSUME NEW r \in Requests, CasMisses(r) PROVE WriterOwnsRow'
  BY <1>6 DEF CasMisses, input, tx
<1>7. ASSUME NEW r \in Requests, Check(r) PROVE WriterOwnsRow'
  BY <1>7 DEF Check, RollbackAndAnswer, Unlocked, input
<1>8. ASSUME NEW r \in Requests, Reload(r) PROVE WriterOwnsRow'
  BY <1>8 DEF Reload, Proceed, RollbackAndAnswer, Unlocked, input
<1>9. ASSUME NEW r \in Requests, Commit(r) PROVE WriterOwnsRow'
  BY <1>9 DEF Commit, Unlocked, input
<1>10. ASSUME NEW r \in Requests, Drain(r) PROVE WriterOwnsRow'
  BY <1>10 DEF Drain, input
<1>11. ASSUME NEW r \in Requests, RetryRead(r) PROVE WriterOwnsRow'
  BY <1>11 DEF RetryRead, Unlocked, input, Reading
<1>12. ASSUME NEW r \in Requests, GiveUp(r) PROVE WriterOwnsRow'
  BY <1>12 DEF GiveUp, RollbackAndAnswer, Unlocked, input
<1>13. ASSUME NEW r \in Requests, CommitFails(r) PROVE WriterOwnsRow'
  BY <1>13 DEF CommitFails, RollbackAndAnswer, Unlocked, input
<1>14. ASSUME NEW r \in Requests, CommitAnswerLost(r) PROVE WriterOwnsRow'
  BY <1>14 DEF CommitAnswerLost, Unlocked, input
<1>15. ASSUME NEW r \in Requests, Crash(r) PROVE WriterOwnsRow'
  BY <1>15 DEF Crash, Unlocked, input
<1>16. CASE UNCHANGED vars
  BY <1>16 DEF vars, input, tx
<1> QED
  BY <1>1, <1>2, <1>3, <1>4, <1>5, <1>6, <1>7, <1>8, <1>9,
     <1>10, <1>11, <1>12, <1>13, <1>14, <1>15, <1>16 DEF Next, Step, Fault

\* Only a commit makes a write durable, and only a drain invalidates.
LEMMA NextBefore ==
    TypeOK /\ NothingBeforeCommit /\ [Next]_vars => NothingBeforeCommit'
<1> SUFFICES ASSUME TypeOK, NothingBeforeCommit, [Next]_vars PROVE NothingBeforeCommit'
  OBVIOUS
<1> USE WritesAssumption, NoRowAssumption DEF TypeOK, NothingBeforeCommit, Working, Reading, Places
<1>1. ASSUME NEW r \in Requests, Arrive(r) PROVE NothingBeforeCommit'
  BY <1>1 DEF Arrive, tx
<1>2. ASSUME NEW r \in Requests, Authenticate(r) PROVE NothingBeforeCommit'
  BY <1>2 DEF Authenticate, Proceed, RollbackAndAnswer, Unlocked, input
<1>3. ASSUME NEW r \in Requests, Insert(r) PROVE NothingBeforeCommit'
  BY <1>3 DEF Insert, input
<1>4. ASSUME NEW r \in Requests, Load(r) PROVE NothingBeforeCommit'
  BY <1>4 DEF Load, Proceed, RollbackAndAnswer, Unlocked, input
<1>5. ASSUME NEW r \in Requests, CasMatches(r) PROVE NothingBeforeCommit'
  BY <1>5 DEF CasMatches, input
<1>6. ASSUME NEW r \in Requests, CasMisses(r) PROVE NothingBeforeCommit'
  BY <1>6 DEF CasMisses, input, tx
<1>7. ASSUME NEW r \in Requests, Check(r) PROVE NothingBeforeCommit'
  BY <1>7 DEF Check, RollbackAndAnswer, Unlocked, input
<1>8. ASSUME NEW r \in Requests, Reload(r) PROVE NothingBeforeCommit'
  BY <1>8 DEF Reload, Proceed, RollbackAndAnswer, Unlocked, input
<1>9. ASSUME NEW r \in Requests, Commit(r) PROVE NothingBeforeCommit'
  BY <1>9 DEF Commit, Unlocked, input
<1>10. ASSUME NEW r \in Requests, Drain(r) PROVE NothingBeforeCommit'
  BY <1>10 DEF Drain, input, Success, Methods
<1>11. ASSUME NEW r \in Requests, RetryRead(r) PROVE NothingBeforeCommit'
  BY <1>11 DEF RetryRead, Unlocked, input
<1>12. ASSUME NEW r \in Requests, GiveUp(r) PROVE NothingBeforeCommit'
  BY <1>12 DEF GiveUp, RollbackAndAnswer, Unlocked, input
<1>13. ASSUME NEW r \in Requests, CommitFails(r) PROVE NothingBeforeCommit'
  BY <1>13 DEF CommitFails, RollbackAndAnswer, Unlocked, input
<1>14. ASSUME NEW r \in Requests, CommitAnswerLost(r) PROVE NothingBeforeCommit'
  BY <1>14 DEF CommitAnswerLost, Unlocked, input
<1>15. ASSUME NEW r \in Requests, Crash(r) PROVE NothingBeforeCommit'
  BY <1>15 DEF Crash, Unlocked, input
<1>16. CASE UNCHANGED vars
  BY <1>16 DEF vars, input, tx
<1> QED
  BY <1>1, <1>2, <1>3, <1>4, <1>5, <1>6, <1>7, <1>8, <1>9,
     <1>10, <1>11, <1>12, <1>13, <1>14, <1>15, <1>16 DEF Next, Step, Fault

\* A delete's write survives from its compare-and-set to its commit.
LEMMA NextDelete ==
    TypeOK /\ WriterOwnsRow /\ DeleteKeepsWrite /\ [Next]_vars => DeleteKeepsWrite'
<1> SUFFICES ASSUME TypeOK, WriterOwnsRow, DeleteKeepsWrite, [Next]_vars PROVE DeleteKeepsWrite'
  OBVIOUS
<1> USE WritesAssumption, NoRowAssumption
    DEF TypeOK, WriterOwnsRow, DeleteKeepsWrite, Methods, Reading
<1>1. ASSUME NEW r \in Requests, Arrive(r) PROVE DeleteKeepsWrite'
  BY <1>1, ReplacedType DEF Arrive, tx
<1>2. ASSUME NEW r \in Requests, Authenticate(r) PROVE DeleteKeepsWrite'
  BY <1>2, ReplacedType DEF Authenticate, Proceed, RollbackAndAnswer, Unlocked, input
<1>3. ASSUME NEW r \in Requests, Insert(r) PROVE DeleteKeepsWrite'
  BY <1>3, ReplacedType DEF Insert, input
<1>4. ASSUME NEW r \in Requests, Load(r) PROVE DeleteKeepsWrite'
  BY <1>4, ReplacedType DEF Load, Proceed, RollbackAndAnswer, Unlocked, input
<1>5. ASSUME NEW r \in Requests, CasMatches(r) PROVE DeleteKeepsWrite'
  BY <1>5, ReplacedType DEF CasMatches, input
<1>6. ASSUME NEW r \in Requests, CasMisses(r) PROVE DeleteKeepsWrite'
  BY <1>6, ReplacedType DEF CasMisses, input, tx
<1>7. ASSUME NEW r \in Requests, Check(r) PROVE DeleteKeepsWrite'
  BY <1>7, ReplacedType DEF Check, RollbackAndAnswer, Unlocked, input
<1>8. ASSUME NEW r \in Requests, Reload(r) PROVE DeleteKeepsWrite'
  BY <1>8, ReplacedType DEF Reload, Proceed, RollbackAndAnswer, Unlocked, input
<1>9. ASSUME NEW r \in Requests, Commit(r) PROVE DeleteKeepsWrite'
  BY <1>9, ReplacedType DEF Commit, Unlocked, input
<1>10. ASSUME NEW r \in Requests, Drain(r) PROVE DeleteKeepsWrite'
  BY <1>10, ReplacedType DEF Drain, input
<1>11. ASSUME NEW r \in Requests, RetryRead(r) PROVE DeleteKeepsWrite'
  BY <1>11, ReplacedType DEF RetryRead, Unlocked, input
<1>12. ASSUME NEW r \in Requests, GiveUp(r) PROVE DeleteKeepsWrite'
  BY <1>12, ReplacedType DEF GiveUp, RollbackAndAnswer, Unlocked, input
<1>13. ASSUME NEW r \in Requests, CommitFails(r) PROVE DeleteKeepsWrite'
  BY <1>13, ReplacedType DEF CommitFails, RollbackAndAnswer, Unlocked, input
<1>14. ASSUME NEW r \in Requests, CommitAnswerLost(r) PROVE DeleteKeepsWrite'
  BY <1>14, ReplacedType DEF CommitAnswerLost, Unlocked, input
<1>15. ASSUME NEW r \in Requests, Crash(r) PROVE DeleteKeepsWrite'
  BY <1>15, ReplacedType DEF Crash, Unlocked, input
<1>16. CASE UNCHANGED vars
  BY <1>16 DEF vars, input, tx
<1> QED
  BY <1>1, <1>2, <1>3, <1>4, <1>5, <1>6, <1>7, <1>8, <1>9,
     <1>10, <1>11, <1>12, <1>13, <1>14, <1>15, <1>16 DEF Next, Step, Fault

\* Answers stay true: what was acknowledged stays durable, what was refused stays absent.
LEMMA NextSafe ==
    TypeOK /\ NothingBeforeCommit /\ DeleteKeepsWrite /\ Safe /\ [Next]_vars => Safe'
<1> SUFFICES ASSUME TypeOK, NothingBeforeCommit, DeleteKeepsWrite, Safe, [Next]_vars PROVE Safe'
  OBVIOUS
<1> USE WritesAssumption, NoRowAssumption
    DEF TypeOK, NothingBeforeCommit, DeleteKeepsWrite, Safe, AckedIsDurable,
        RefusedLeavesNoTrace, Working, Reading
<1>1. ASSUME NEW r \in Requests, Arrive(r) PROVE Safe'
  BY <1>1 DEF Arrive, tx
<1>2. ASSUME NEW r \in Requests, Authenticate(r) PROVE Safe'
  BY <1>2 DEF Authenticate, Proceed, RollbackAndAnswer, Unlocked, input
<1>3. ASSUME NEW r \in Requests, Insert(r) PROVE Safe'
  BY <1>3 DEF Insert, input
<1>4. ASSUME NEW r \in Requests, Load(r) PROVE Safe'
  BY <1>4 DEF Load, Proceed, RollbackAndAnswer, Unlocked, input
<1>5. ASSUME NEW r \in Requests, CasMatches(r) PROVE Safe'
  BY <1>5 DEF CasMatches, input
<1>6. ASSUME NEW r \in Requests, CasMisses(r) PROVE Safe'
  BY <1>6 DEF CasMisses, input, tx
<1>7. ASSUME NEW r \in Requests, Check(r) PROVE Safe'
  BY <1>7 DEF Check, RollbackAndAnswer, Unlocked, input
<1>8. ASSUME NEW r \in Requests, Reload(r) PROVE Safe'
  BY <1>8 DEF Reload, Proceed, RollbackAndAnswer, Unlocked, input
<1>9. ASSUME NEW r \in Requests, Commit(r) PROVE Safe'
  BY <1>9 DEF Commit, Unlocked, input
<1>10. ASSUME NEW r \in Requests, Drain(r) PROVE Safe'
  BY <1>10 DEF Drain, input, Success, Methods
<1>11. ASSUME NEW r \in Requests, RetryRead(r) PROVE Safe'
  BY <1>11 DEF RetryRead, Unlocked, input
<1>12. ASSUME NEW r \in Requests, GiveUp(r) PROVE Safe'
  BY <1>12 DEF GiveUp, RollbackAndAnswer, Unlocked, input
<1>13. ASSUME NEW r \in Requests, CommitFails(r) PROVE Safe'
  BY <1>13 DEF CommitFails, RollbackAndAnswer, Unlocked, input
<1>14. ASSUME NEW r \in Requests, CommitAnswerLost(r) PROVE Safe'
  BY <1>14 DEF CommitAnswerLost, Unlocked, input
<1>15. ASSUME NEW r \in Requests, Crash(r) PROVE Safe'
  BY <1>15 DEF Crash, Unlocked, input
<1>16. CASE UNCHANGED vars
  BY <1>16 DEF vars, input, tx
<1> QED
  BY <1>1, <1>2, <1>3, <1>4, <1>5, <1>6, <1>7, <1>8, <1>9,
     <1>10, <1>11, <1>12, <1>13, <1>14, <1>15, <1>16 DEF Next, Step, Fault

-----------------------------------------------------------------------------
\* The inductive invariant holds of every behaviour of the write path.
LEMMA Inductive == Spec => []Inv
<1>1. Init => Inv
  <2>1. Init => WriterOwnsRow /\ DeleteKeepsWrite
    BY DEF Init, WriterOwnsRow, DeleteKeepsWrite
  <2>2. Init => NothingBeforeCommit /\ Safe
    BY DEF Init, NothingBeforeCommit, Safe, AckedIsDurable, RefusedLeavesNoTrace
  <2> QED  BY InitType, <2>1, <2>2 DEF Inv
<1>2. Inv /\ [Next]_vars => Inv'
  BY NextType, NextOwner, NextBefore, NextDelete, NextSafe DEF Inv
<1> QED  BY <1>1, <1>2, PTL DEF Spec

\* Requests, transactions and the row keep their types.
THEOREM TypeCorrect == Spec => []TypeOK
<1>1. Inv => TypeOK
  BY DEF Inv
<1> QED  BY <1>1, Inductive, PTL

\* Optimistic concurrency holds: every committed update and delete replaced
\* exactly the version its client named, whatever else was interleaved, retried,
\* rolled back or lost on the way.
THEOREM LostUpdatesImpossible == Spec => NoLostUpdate
<1>1. Inv /\ [Next]_vars =>
        [\A r \in committed' \ committed :
           method[r] # "POST" => row.token = ifMatch[r] /\ ~ row.deleted]_vars
  <2> SUFFICES ASSUME Inv, Next, NEW q \in committed' \ committed, method[q] # "POST"
               PROVE  row.token = ifMatch[q] /\ ~ row.deleted
    BY DEF vars
  <2>1. PICK r \in Requests : Arrive(r) \/ Step(r) \/ Fault(r)
    BY DEF Next
  <2>2. CASE Commit(r) \/ CommitAnswerLost(r)
    BY <2>2 DEF Commit, CommitAnswerLost, Inv, WriterOwnsRow
  <2>3. CASE ~ (Commit(r) \/ CommitAnswerLost(r))
    BY <2>1, <2>3
    DEF Step, Fault, Arrive, Authenticate, Insert, Load, CasMatches, CasMisses, Check, Reload,
        Drain, RetryRead, GiveUp, CommitFails, Crash, RollbackAndAnswer, Proceed
  <2> QED  BY <2>2, <2>3
<1> QED  BY <1>1, Inductive, PTL DEF Spec, NoLostUpdate

\* Deletion is final: no later write, whatever token it names, touches the row.
THEOREM DeletionIsFinal == Spec => DeletedIsFinal
<1>1. Inv /\ [Next]_vars => [row.deleted => row' = row]_vars
  <2> SUFFICES ASSUME Inv, Next, row.deleted PROVE row' = row
    BY DEF vars
  <2>1. PICK r \in Requests : Arrive(r) \/ Step(r) \/ Fault(r)
    BY DEF Next
  <2>2. CASE Commit(r) \/ CommitAnswerLost(r)
    BY <2>2 DEF Commit, CommitAnswerLost, Inv, WriterOwnsRow
  <2>3. CASE ~ (Commit(r) \/ CommitAnswerLost(r))
    BY <2>1, <2>3
    DEF Step, Fault, Arrive, Authenticate, Insert, Load, CasMatches, CasMisses, Check, Reload,
        Drain, RetryRead, GiveUp, CommitFails, Crash, RollbackAndAnswer, Proceed
  <2> QED  BY <2>2, <2>3
<1> QED  BY <1>1, Inductive, PTL DEF Spec, DeletedIsFinal

\* A 201 or a 204 announces a durable write, however many reads were retried.
THEOREM AcksAreDurable == Spec => []AckedIsDurable
<1>1. Inv => AckedIsDurable
  BY DEF Inv, Safe
<1> QED  BY <1>1, Inductive, PTL

\* A request refused with a 4xx or a 503 committed nothing and invalidated
\* nothing, at whichever of its steps it was refused.
THEOREM RefusalsLeaveNoTrace == Spec => []RefusedLeavesNoTrace
<1>1. Inv => RefusedLeavesNoTrace
  BY DEF Inv, Safe
<1> QED  BY <1>1, Inductive, PTL

\* The write of a PUT, which only a retried read-back can drop.
UpdateKeepsWrite ==
    \A r \in Requests :
        /\ pc[r] \in {"reload", "commit"} /\ method[r] = "PUT" => write[r] # NoRow
        /\ pc[r] = "insert" => method[r] = "POST"
        /\ pc[r] = "drain" /\ method[r] = "PUT" => r \in committed
        /\ status[r] = 200 => r \in committed

\* Without retries nothing comes between a PUT's write and its commit.
LEMMA NextUpdate ==
    ReadAttempts = 1 /\ TypeOK /\ NothingBeforeCommit /\ UpdateKeepsWrite /\ [Next]_vars
        => UpdateKeepsWrite'
<1> SUFFICES ASSUME ReadAttempts = 1, TypeOK, NothingBeforeCommit, UpdateKeepsWrite,
                    [Next]_vars
             PROVE  UpdateKeepsWrite'
  OBVIOUS
<1> USE WritesAssumption, NoRowAssumption DEF TypeOK, NothingBeforeCommit, UpdateKeepsWrite, Methods
<1>1. ASSUME NEW r \in Requests, Arrive(r) PROVE UpdateKeepsWrite'
  BY <1>1, ReplacedType DEF Arrive, tx
<1>2. ASSUME NEW r \in Requests, Authenticate(r) PROVE UpdateKeepsWrite'
  BY <1>2, ReplacedType DEF Authenticate, Proceed, RollbackAndAnswer, Unlocked, input
<1>3. ASSUME NEW r \in Requests, Insert(r) PROVE UpdateKeepsWrite'
  BY <1>3, ReplacedType DEF Insert, input
<1>4. ASSUME NEW r \in Requests, Load(r) PROVE UpdateKeepsWrite'
  BY <1>4, ReplacedType DEF Load, Proceed, RollbackAndAnswer, Unlocked, input
<1>5. ASSUME NEW r \in Requests, CasMatches(r) PROVE UpdateKeepsWrite'
  BY <1>5, ReplacedType DEF CasMatches, input
<1>6. ASSUME NEW r \in Requests, CasMisses(r) PROVE UpdateKeepsWrite'
  BY <1>6, ReplacedType DEF CasMisses, input, tx
<1>7. ASSUME NEW r \in Requests, Check(r) PROVE UpdateKeepsWrite'
  BY <1>7, ReplacedType DEF Check, RollbackAndAnswer, Unlocked, input
<1>8. ASSUME NEW r \in Requests, Reload(r) PROVE UpdateKeepsWrite'
  BY <1>8, ReplacedType DEF Reload, Proceed, RollbackAndAnswer, Unlocked, input
<1>9. ASSUME NEW r \in Requests, Commit(r) PROVE UpdateKeepsWrite'
  BY <1>9, ReplacedType DEF Commit, Unlocked, input
<1>10. ASSUME NEW r \in Requests, Drain(r) PROVE UpdateKeepsWrite'
  BY <1>10, ReplacedType DEF Drain, input, Success
<1>11. ASSUME NEW r \in Requests, RetryRead(r) PROVE UpdateKeepsWrite'
  BY <1>11, ReplacedType DEF RetryRead, Unlocked, input
<1>12. ASSUME NEW r \in Requests, GiveUp(r) PROVE UpdateKeepsWrite'
  BY <1>12, ReplacedType DEF GiveUp, RollbackAndAnswer, Unlocked, input
<1>13. ASSUME NEW r \in Requests, CommitFails(r) PROVE UpdateKeepsWrite'
  BY <1>13, ReplacedType DEF CommitFails, RollbackAndAnswer, Unlocked, input
<1>14. ASSUME NEW r \in Requests, CommitAnswerLost(r) PROVE UpdateKeepsWrite'
  BY <1>14, ReplacedType DEF CommitAnswerLost, Unlocked, input
<1>15. ASSUME NEW r \in Requests, Crash(r) PROVE UpdateKeepsWrite'
  BY <1>15, ReplacedType DEF Crash, Unlocked, input
<1>16. CASE UNCHANGED vars
  BY <1>16 DEF vars, input, tx
<1> QED
  BY <1>1, <1>2, <1>3, <1>4, <1>5, <1>6, <1>7, <1>8, <1>9,
     <1>10, <1>11, <1>12, <1>13, <1>14, <1>15, <1>16 DEF Next, Step, Fault

\* With a single attempt per read a 200 announces a durable write as well: the
\* retry of the read-back is the only way an acknowledged update is lost.
THEOREM UpdatesAreDurableWithoutRetries ==
    ASSUME ReadAttempts = 1
    PROVE  Spec => []AckedUpdateIsDurable
<1>1. Init => UpdateKeepsWrite
  BY DEF Init, UpdateKeepsWrite
<1>2. Inv /\ UpdateKeepsWrite /\ [Next]_vars => UpdateKeepsWrite'
  BY NextUpdate DEF Inv
<1>3. UpdateKeepsWrite => AckedUpdateIsDurable
  BY DEF UpdateKeepsWrite, AckedUpdateIsDurable
<1> QED  BY <1>1, <1>2, <1>3, Inductive, PTL DEF Spec

-----------------------------------------------------------------------------
\* What makes a refusal of r true: its client's token and its snapshot are
\* versions the row had, in that order; its write is the row's next version;
\* and a compare-and-set that missed would miss again.
Truthful(r) ==
    /\ ifMatch[r] <= row.token
    /\ pc[r] = "idle" => snap[r] = NoRow
    /\ snap[r] # NoRow =>
          /\ ifMatch[r] <= snap[r].token /\ snap[r].token <= row.token
          /\ snap[r].deleted => row.deleted
          /\ snap[r].token = row.token => snap[r].deleted = row.deleted
    /\ write[r] # NoRow =>
          /\ write[r] = row \/ write[r].token > row.token
          /\ method[r] = "PUT" => ~ write[r].deleted
    /\ pc[r] = "check" => row.token # ifMatch[r] \/ row.deleted
    /\ status[r] = 404 => row.deleted
    /\ status[r] = 409 => row.token # ifMatch[r]

AllTruthful == \A r \in Requests : Truthful(r)

\* A step of r leaves the others' places, inputs, transactions and answers alone.
LEMMA OthersUntouched ==
    ASSUME TypeOK, NEW r \in Requests, Arrive(r) \/ Step(r) \/ Fault(r),
           NEW q \in Requests, q # r
    PROVE  /\ pc'[q] = pc[q] /\ method'[q] = method[q] /\ ifMatch'[q] = ifMatch[q]
           /\ snap'[q] = snap[q] /\ write'[q] = write[q] /\ status'[q] = status[q]
<1> USE DEF TypeOK, RollbackAndAnswer, Proceed, input, tx
<1>1. CASE Arrive(r)
  BY <1>1 DEF Arrive
<1>2. CASE Authenticate(r) \/ Insert(r) \/ Load(r) \/ CasMatches(r) \/ CasMisses(r)
  BY <1>2 DEF Authenticate, Insert, Load, CasMatches, CasMisses
<1>3. CASE Check(r) \/ Reload(r) \/ Commit(r) \/ Drain(r)
  BY <1>3 DEF Check, Reload, Commit, Drain
<1>4. CASE Fault(r)
  BY <1>4 DEF Fault, RetryRead, GiveUp, CommitFails, CommitAnswerLost, Crash
<1> QED  BY <1>1, <1>2, <1>3, <1>4 DEF Step

\* The row only moves on, by the commit of the one transaction that has a write.
LEMMA RowMovesOn ==
    ASSUME Inv, AllTruthful, NEW r \in Requests, Arrive(r) \/ Step(r) \/ Fault(r)
    PROVE  \/ row' = row
           \/ /\ row' \in Row /\ row'.token > row.token /\ ~ row.deleted
              /\ \A q \in Requests : q # r => write[q] = NoRow
<1>1. CASE Commit(r) \/ CommitAnswerLost(r)
  <2>1. row' = row \/ (write[r] # NoRow /\ row' = write[r])
    BY <1>1 DEF Commit, CommitAnswerLost
  <2>2. write[r] # NoRow =>
           /\ write[r] = row \/ write[r].token > row.token
           /\ write[r] \in Row /\ ~ row.deleted
           /\ \A q \in Requests : q # r => write[q] = NoRow
    BY DEF Inv, TypeOK, WriterOwnsRow, AllTruthful, Truthful
  <2> QED  BY <2>1, <2>2
<1>2. CASE ~ (Commit(r) \/ CommitAnswerLost(r))
  BY <1>2
  DEF Step, Fault, Arrive, Authenticate, Insert, Load, CasMatches, CasMisses, Check, Reload,
      Drain, RetryRead, GiveUp, CommitFails, Crash, RollbackAndAnswer, Proceed
<1> QED  BY <1>1, <1>2

\* What was true of another request stays true while the row moves on.
LEMMA OthersTruthful ==
    ASSUME Inv, AllTruthful, NEW r \in Requests, Arrive(r) \/ Step(r) \/ Fault(r),
           NEW q \in Requests, q # r
    PROVE  Truthful(q)'
<1>1. /\ row.token \in Nat /\ ifMatch[q] \in Nat
      /\ snap[q] # NoRow => snap[q].token \in Nat
      /\ row' \in Row => row'.token \in Nat
      /\ row \in Row
  BY DEF Inv, TypeOK, Row
<1>2. /\ pc'[q] = pc[q] /\ method'[q] = method[q] /\ ifMatch'[q] = ifMatch[q]
      /\ snap'[q] = snap[q] /\ write'[q] = write[q] /\ status'[q] = status[q]
  BY OthersUntouched DEF Inv
<1>3. Truthful(q)
  BY DEF AllTruthful
<1>4. CASE row' = row
  BY <1>2, <1>3, <1>4 DEF Truthful
<1>5. CASE /\ row' \in Row /\ row'.token > row.token /\ ~ row.deleted
           /\ write[q] = NoRow
  BY <1>1, <1>2, <1>3, <1>5 DEF Truthful
<1> QED  BY <1>4, <1>5, RowMovesOn
\* The numbers an own step of r compares.
LEMMA Versions ==
    ASSUME Inv, NEW r \in Requests
    PROVE  /\ row \in Row /\ row.token \in Nat /\ ifMatch[r] \in Nat
           /\ Snapshot(r) \in Row /\ Snapshot(r).token \in Nat
           /\ snap[r] # NoRow => snap[r] \in Row
           /\ write[r] # NoRow => write[r] \in Row
  BY DEF Inv, TypeOK, Row, Snapshot

\* A refusal that names the row, or one that does not.
LEMMA RefusalTruthful ==
    ASSUME Inv, AllTruthful, NEW r \in Requests,
           NEW code \in {401, 403, 404, 409, 422, 500, 503}, RollbackAndAnswer(r, code),
           code = 404 => row.deleted,
           code = 409 => row.token # ifMatch[r]
    PROVE  Truthful(r)'
<1>1. /\ pc'[r] = "done" /\ snap'[r] = NoRow /\ write'[r] = NoRow
      /\ row' = row /\ ifMatch' = ifMatch
  BY DEF RollbackAndAnswer, Inv, TypeOK, input
<1>2. status'[r] \in {code, 500}
  BY DEF RollbackAndAnswer, Inv, TypeOK
<1> QED  BY <1>1, <1>2 DEF AllTruthful, Truthful

\* A read that goes on, with the snapshot it has or takes.
LEMMA ProceedTruthful ==
    ASSUME Inv, AllTruthful, NEW r \in Requests,
           NEW next \in {"insert", "load", "cas", "commit"}, Proceed(r, next)
    PROVE  Truthful(r)'
<1>1. /\ pc'[r] = next /\ snap'[r] = Snapshot(r) /\ write' = write
      /\ status' = status /\ row' = row /\ ifMatch' = ifMatch /\ method' = method
  BY DEF Proceed, Inv, TypeOK, input
<1>2. /\ ifMatch[r] <= Snapshot(r).token /\ Snapshot(r).token <= row.token
      /\ Snapshot(r).deleted => row.deleted
      /\ Snapshot(r).token = row.token => Snapshot(r).deleted = row.deleted
  BY Versions DEF AllTruthful, Truthful, Snapshot
<1> QED  BY <1>1, <1>2 DEF AllTruthful, Truthful

\* Reads and the answers they give.
LEMMA ReadsTruthful ==
    ASSUME Inv, AllTruthful, NEW r \in Requests,
           Authenticate(r) \/ Load(r) \/ Check(r) \/ Reload(r) \/ GiveUp(r)
    PROVE  Truthful(r)'
<1>1. Truthful(r)
  BY DEF AllTruthful
<1>2. pc[r] \in {"load", "check"} => Visible(r) = Snapshot(r)
  BY DEF Visible, Inv, WriterOwnsRow
<1>3. Snapshot(r).deleted => row.deleted
  BY <1>1 DEF Snapshot, Truthful
<1>4. CASE Authenticate(r)
  BY <1>4, RefusalTruthful, ProceedTruthful DEF Authenticate
<1>5. CASE Load(r)
  BY <1>2, <1>3, <1>5, RefusalTruthful, ProceedTruthful DEF Load
<1>6. CASE Check(r)
  <2>1. CASE Visible(r).deleted
    BY <1>2, <1>3, <1>6, <2>1, RefusalTruthful DEF Check
  <2>2. CASE ~ Visible(r).deleted
    <3>1. row.token # ifMatch[r] \/ row.deleted
      BY <1>1, <1>6 DEF Check, Truthful
    <3>2. row.deleted => Snapshot(r).token # row.token
      BY <1>1, <1>2, <1>6, <2>2 DEF Check, Truthful, Snapshot
    <3>3. snap[r] # NoRow => ifMatch[r] <= snap[r].token /\ snap[r].token <= row.token
      BY <1>1 DEF Truthful
    <3>4. row.token # ifMatch[r]
      BY <3>1, <3>2, <3>3, Versions DEF Snapshot
    <3> QED  BY <1>6, <2>2, <3>4, RefusalTruthful DEF Check
  <2> QED  BY <2>1, <2>2
<1>7. CASE Reload(r)
  <2>1. method[r] = "PUT"
    BY <1>7 DEF Reload, Inv, DeleteKeepsWrite
  <2>2. Visible(r).deleted => row.deleted
    BY <1>1, <1>3, <2>1 DEF Visible, Truthful
  <2> QED  BY <1>7, <2>2, RefusalTruthful, ProceedTruthful DEF Reload
<1>8. CASE GiveUp(r)
  BY <1>8, RefusalTruthful DEF GiveUp
<1> QED  BY <1>4, <1>5, <1>6, <1>7, <1>8

\* The compare-and-set, the commit and what ends without a refusal.
LEMMA WritesTruthful ==
    ASSUME Inv, AllTruthful, NEW r \in Requests,
           \/ Arrive(r) \/ Insert(r) \/ CasMatches(r) \/ CasMisses(r) \/ Commit(r)
           \/ Drain(r) \/ RetryRead(r) \/ CommitFails(r) \/ CommitAnswerLost(r) \/ Crash(r)
    PROVE  Truthful(r)'
<1>1. Truthful(r)
  BY DEF AllTruthful
<1>2. row' = row \/ (row'.token > row.token /\ row' \in Row /\ row'.token \in Nat)
  BY RowMovesOn DEF Step, Fault, Row
<1>3. status[r] # 0 <=> pc[r] = "done"
  BY DEF Inv, NothingBeforeCommit
<1> USE DEF Inv, TypeOK
<1>4. CASE Arrive(r)
  <2>1. /\ row' = row /\ ifMatch'[r] \in 0 .. row.token /\ pc'[r] = "auth"
        /\ snap'[r] = NoRow /\ write'[r] = NoRow /\ status'[r] = 0
    BY <1>1, <1>3, <1>4 DEF Arrive, tx, Truthful, WriterOwnsRow
  <2> QED  BY <2>1, Versions DEF Truthful
<1>5. CASE Insert(r) \/ Drain(r)
  <2>1. /\ row' = row /\ ifMatch' = ifMatch /\ method' = method
        /\ snap' = snap /\ write' = write /\ pc'[r] \in {"commit", "done"}
        /\ status'[r] \notin {404, 409}
    BY <1>3, <1>5 DEF Insert, Drain, input, Success, Methods
  <2> QED  BY <1>1, <2>1 DEF Truthful
<1>6. CASE CasMatches(r)
  <2>1. /\ Replaced(r) = row \/ Replaced(r).token = row.token + 1
        /\ method[r] = "PUT" => ~ Replaced(r).deleted
    BY <1>6 DEF CasMatches, Replaced
  <2>2. /\ row' = row /\ ifMatch' = ifMatch /\ method' = method
        /\ snap' = snap /\ write'[r] = Replaced(r) /\ pc'[r] \in {"reload", "commit"}
        /\ status'[r] = 0
    BY <1>3, <1>6 DEF CasMatches, input
  <2> QED  BY <1>1, <2>1, <2>2, Versions DEF Truthful
<1>7. CASE CasMisses(r)
  <2>1. /\ row' = row /\ ifMatch' = ifMatch /\ method' = method
        /\ snap' = snap /\ write' = write /\ pc'[r] = "check" /\ status'[r] = 0
        /\ row.token # ifMatch[r] \/ row.deleted
    BY <1>3, <1>7 DEF CasMisses, input, tx
  <2> QED  BY <1>1, <2>1 DEF Truthful
<1>8. CASE RetryRead(r)
  <2>1. /\ row' = row /\ ifMatch' = ifMatch /\ pc' = pc
        /\ snap'[r] = NoRow /\ write'[r] = NoRow /\ status' = status
    BY <1>8 DEF RetryRead, input
  <2> QED  BY <1>1, <2>1 DEF Truthful
<1>9. CASE CommitFails(r)
  BY <1>9, RefusalTruthful DEF CommitFails
<1>10. CASE Commit(r) \/ CommitAnswerLost(r) \/ Crash(r)
  <2>1. /\ ifMatch' = ifMatch /\ pc'[r] \in {"drain", "done", "crashed"}
        /\ snap'[r] = NoRow /\ write'[r] = NoRow /\ status'[r] \in {0, 500}
    BY <1>3, <1>10 DEF Commit, CommitAnswerLost, Crash, input, Working, Reading
  <2> QED  BY <1>1, <1>2, <2>1, Versions DEF Truthful
<1> QED  BY <1>4, <1>5, <1>6, <1>7, <1>8, <1>9, <1>10

\* What the clients and the transactions know of the row stays true of it.
LEMMA StaysTruthful == Spec => []AllTruthful
<1>1. Init => AllTruthful
  BY DEF Init, AllTruthful, Truthful
<1>2. Inv /\ AllTruthful /\ [Next]_vars => AllTruthful'
  <2> SUFFICES ASSUME Inv, AllTruthful, [Next]_vars PROVE AllTruthful'
    OBVIOUS
  <2>1. CASE UNCHANGED vars
    BY <2>1 DEF vars, input, tx, AllTruthful, Truthful
  <2>2. ASSUME NEW r \in Requests, Arrive(r) \/ Step(r) \/ Fault(r)
        PROVE  AllTruthful'
    <3>1. Truthful(r)'
      BY <2>2, ReadsTruthful, WritesTruthful DEF Step, Fault
    <3>2. \A q \in Requests : q # r => Truthful(q)'
      BY <2>2, OthersTruthful
    <3> QED  BY <3>1, <3>2 DEF AllTruthful
  <2> QED  BY <2>1, <2>2 DEF Next
<1> QED  BY <1>1, <1>2, Inductive, PTL DEF Spec

\* A 404 is answered for a deleted article only, and a 409 for a token that is
\* not the article's any more, whatever snapshot or retry the answer came from.
THEOREM RefusalsTellTheTruth == Spec => []RefusalsAreTrue
<1>1. AllTruthful => RefusalsAreTrue
  BY DEF AllTruthful, Truthful, RefusalsAreTrue
<1> QED  BY <1>1, StaysTruthful, PTL

-----------------------------------------------------------------------------
\* An uncommitted write is what the statement makes of the row as it still is.
WritesReplace == \A r \in Requests : write[r] # NoRow => write[r] = Replaced(r)

\* No commit comes between a compare-and-set and its own.
LEMMA NextReplace ==
    Inv /\ AllTruthful /\ WritesReplace /\ [Next]_vars => WritesReplace'
<1> SUFFICES ASSUME Inv, AllTruthful, WritesReplace, [Next]_vars PROVE WritesReplace'
  OBVIOUS
<1>1. CASE UNCHANGED vars
  BY <1>1 DEF vars, input, tx, WritesReplace, Replaced
<1>2. ASSUME NEW r \in Requests, Arrive(r) \/ Step(r) \/ Fault(r)
      PROVE  WritesReplace'
  <2>1. ASSUME NEW q \in Requests, q # r, write'[q] # NoRow PROVE write'[q] = Replaced(q)'
    <3>1. write'[q] = write[q] /\ method'[q] = method[q] /\ payload'[q] = payload[q]
      <4>1. write'[q] = write[q] /\ method'[q] = method[q]
        BY <1>2, <2>1, OthersUntouched DEF Inv
      <4>2. payload'[q] = payload[q]
        BY <1>2, <2>1
        DEF Step, Fault, Arrive, Authenticate, Insert, Load, CasMatches, CasMisses, Check,
            Reload, Commit, Drain, RetryRead, GiveUp, CommitFails, CommitAnswerLost, Crash,
            RollbackAndAnswer, Proceed, input, Inv, TypeOK
      <4> QED  BY <4>1, <4>2
    <3>2. row' = row
      BY <1>2, <2>1, <3>1, RowMovesOn
    <3> QED  BY <2>1, <3>1, <3>2 DEF WritesReplace, Replaced
  <2>2. ASSUME write'[r] # NoRow PROVE write'[r] = Replaced(r)'
    <3>1. CASE CasMatches(r)
      <4>1. write'[r] = Replaced(r)
        BY <3>1 DEF CasMatches, Inv, TypeOK
      <4>2. Replaced(r)' = Replaced(r)
        BY <3>1 DEF CasMatches, input, Replaced
      <4> QED  BY <4>1, <4>2
    <3>2. CASE ~ CasMatches(r)
      <4>1. ~ Arrive(r)
        BY <2>2 DEF Arrive, tx, Inv, WriterOwnsRow
      <4>2. write'[r] = write[r] /\ UNCHANGED <<row, input>>
        BY <1>2, <2>2, <3>2, <4>1
        DEF Step, Fault, Authenticate, Insert, Load, CasMisses, Check,
            Reload, Commit, Drain, RetryRead, GiveUp, CommitFails, CommitAnswerLost, Crash,
            RollbackAndAnswer, Proceed, tx, Inv, TypeOK
      <4> QED  BY <2>2, <4>2 DEF WritesReplace, Replaced, input
    <3> QED  BY <3>1, <3>2
  <2> QED  BY <2>1, <2>2 DEF WritesReplace
<1> QED  BY <1>1, <1>2 DEF Next

\* r goes to p.
Moves(r, p) == pc' = [pc EXCEPT ![r] = p]

\* A request that moves within its transaction stays open to its client, one
\* that is answered or dies is closed.
LEMMA PlaceMoves ==
    ASSUME TypeOK, NEW r \in Requests, NEW p \in Places, Moves(r, p)
    PROVE  /\ pc[r] = "idle" => Place[r] = "new"
           /\ pc[r] \in Working \cup {"drain"} => Place[r] = "open"
           /\ p \in Working \cup {"drain"} => Place' = [Place EXCEPT ![r] = "open"]
           /\ p \in {"done", "crashed"} => Place' = [Place EXCEPT ![r] = "closed"]
           /\ p \in Working \cup {"drain"} /\ pc[r] \in Working \cup {"drain"}
                 => Place' = Place
<1> DEFINE PlaceOf(x) ==
        CASE x = "idle" -> "new"
          [] x \in Working \cup {"drain"} -> "open"
          [] x \in {"done", "crashed"} -> "closed"
<1>1. /\ PlaceOf("idle") = "new"
      /\ \A x \in Working \cup {"drain"} : PlaceOf(x) = "open"
      /\ \A x \in {"done", "crashed"} : PlaceOf(x) = "closed"
  BY DEF Working, Reading
<1>2. /\ Place = [q \in Requests |-> PlaceOf(pc[q])]
      /\ Place' = [q \in Requests |-> PlaceOf(pc'[q])]
  BY DEF Place
<1> HIDE DEF PlaceOf
<1>3. pc'[r] = p /\ \A q \in Requests \ {r} : pc'[q] = pc[q]
  BY DEF Moves, TypeOK
<1>4. Place' = [Place EXCEPT ![r] = PlaceOf(p)]
  BY <1>2, <1>3
<1>5. Place[r] = PlaceOf(pc[r])
  BY <1>2
<1>6. PlaceOf(p) = PlaceOf(pc[r]) => Place' = Place
  BY <1>2, <1>3
<1> QED  BY <1>1, <1>4, <1>5, <1>6

\* Moving on within the transaction is not seen from outside.
LEMMA Unseen ==
    ASSUME TypeOK, NEW r \in Requests, NEW p \in Working \cup {"drain"},
           pc[r] \in Working, Moves(r, p),
           UNCHANGED <<row, input, committed, status>>
    PROVE  UNCHANGED Register!vars
<1>1. Place' = Place
  BY PlaceMoves DEF Places
<1> QED  BY <1>1 DEF input, Register!vars, Register!asked

\* Before the commit, an answer that rolls back is a refusal, or a 500.
LEMMA AnswerImplements ==
    ASSUME Inv, AllTruthful', NEW r \in Requests, pc[r] \in Working,
           NEW code \in {401, 403, 404, 409, 422, 500, 503}, RollbackAndAnswer(r, code)
    PROVE  Register!Refuse(r) \/ Register!Fail(r)
<1>1. PICK c \in {code, 500} : status' = [status EXCEPT ![r] = c]
  BY DEF RollbackAndAnswer
<1>2. /\ Place[r] = "open" /\ Place' = [Place EXCEPT ![r] = "closed"]
      /\ UNCHANGED <<row, input, committed>>
  <2>1. Moves(r, "done")
    BY DEF RollbackAndAnswer, Moves
  <2>2. Place[r] = "open" /\ Place' = [Place EXCEPT ![r] = "closed"]
    BY <2>1, PlaceMoves DEF Places, Inv
  <2> QED  BY <2>2 DEF RollbackAndAnswer
<1>3. r \notin committed
  BY DEF Inv, NothingBeforeCommit
<1>4. /\ c = 404 => row.deleted
      /\ c = 409 => row.token # ifMatch[r]
  BY <1>1, <1>2 DEF AllTruthful, Truthful, Inv, TypeOK, input
<1>5. CASE c = 500
  BY <1>1, <1>2, <1>5 DEF Register!Fail, Register!Close, Register!asked, input
<1>6. CASE c # 500
  <2>1. c \in Register!Refusals
    BY <1>6 DEF Register!Refusals
  <2>2. Register!Close(r, c)
    BY <1>1, <1>2 DEF Register!Close
  <2> QED  BY <1>2, <1>3, <1>4, <2>1, <2>2 DEF Register!Refuse, Register!asked, input
<1> QED  BY <1>5, <1>6

\* A commit applies the write, if a retry has not taken it away.
LEMMA CommitImplements ==
    ASSUME Inv, WritesReplace, NEW r \in Requests, Commit(r) \/ CommitAnswerLost(r)
    PROVE  Register!Apply(r) \/ Register!Fail(r) \/ UNCHANGED Register!vars
<1>1. /\ pc[r] = "commit" /\ r \notin committed
      /\ Place[r] = "open"
  BY PlaceMoves
  DEF Moves, Commit, CommitAnswerLost, Inv, NothingBeforeCommit, Working, Places
<1>2. /\ row' = IF write[r] = NoRow THEN row ELSE write[r]
      /\ committed' = IF method[r] = "POST" \/ write[r] # NoRow
                      THEN committed \cup {r} ELSE committed
      /\ UNCHANGED input
  BY DEF Commit, CommitAnswerLost
<1>3. \/ Place' = Place /\ status' = status
      \/ Place' = [Place EXCEPT ![r] = "closed"] /\ status' = [status EXCEPT ![r] = 500]
  <2>1. CASE Commit(r)
    BY <2>1, PlaceMoves DEF Moves, Commit, Places, Working, Inv
  <2>2. CASE CommitAnswerLost(r)
    BY <2>2, PlaceMoves DEF Moves, CommitAnswerLost, Places, Inv
  <2> QED  BY <2>1, <2>2
<1>4. CASE write[r] # NoRow
  <2>1. row.token = ifMatch[r] /\ ~ row.deleted /\ method[r] \in {"PUT", "DELETE"}
    BY <1>4 DEF Inv, WriterOwnsRow, TypeOK, Methods
  <2>2. write[r] = Register!Successor(r)
    <3>1. row.deleted = FALSE
      BY <2>1 DEF Inv, TypeOK, Row
    <3> QED  BY <1>4, <2>1, <3>1 DEF WritesReplace, Replaced, Register!Successor
  <2> QED  BY <1>1, <1>2, <1>3, <1>4, <2>1, <2>2
           DEF Register!Apply, Register!Close, Register!asked, input
<1>5. CASE write[r] = NoRow /\ method[r] = "POST"
  BY <1>1, <1>2, <1>3, <1>5 DEF Register!Apply, Register!Close, Register!asked, input
<1>6. CASE write[r] = NoRow /\ method[r] # "POST"
  BY <1>1, <1>2, <1>3, <1>6
  DEF Register!Fail, Register!Close, Register!vars, Register!asked, input
<1> QED  BY <1>4, <1>5, <1>6

\* Every step of a handler, of get_session and of the database is one of the
\* register, or none.
LEMMA NextImplements ==
    Inv /\ AllTruthful' /\ WritesReplace /\ [Next]_vars
        => [Register!Next]_(Register!vars)
<1> SUFFICES ASSUME Inv, AllTruthful', WritesReplace, [Next]_vars
             PROVE  Register!Next \/ UNCHANGED Register!vars
  OBVIOUS
<1> USE DEF Working, Reading, Places
<1>1. ASSUME NEW r \in Requests, Arrive(r) PROVE Register!Ask(r)
  <2>1. Place[r] = "new" /\ Place' = [Place EXCEPT ![r] = "open"]
    BY <1>1, PlaceMoves DEF Moves, Arrive, Inv
  <2> QED  BY <1>1, <2>1 DEF Arrive, Register!Ask, Register!Methods, Methods
<1>2. ASSUME NEW r \in Requests, NEW code \in {401, 403, 404, 409, 422, 500, 503},
             RollbackAndAnswer(r, code), pc[r] \in Working
      PROVE  Register!Next
  BY <1>2, AnswerImplements DEF Register!Next
<1>3. ASSUME NEW r \in Requests, NEW next \in Working, Proceed(r, next), pc[r] \in Working
      PROVE  UNCHANGED Register!vars
  BY <1>3, Unseen DEF Moves, Proceed, Inv
<1>4. ASSUME NEW r \in Requests, Authenticate(r) \/ Load(r) \/ Reload(r)
      PROVE  Register!Next \/ UNCHANGED Register!vars
  BY <1>2, <1>3, <1>4 DEF Authenticate, Load, Reload
<1>5. ASSUME NEW r \in Requests, Check(r) \/ GiveUp(r) \/ CommitFails(r)
      PROVE  Register!Next
  BY <1>2, <1>5 DEF Check, GiveUp, CommitFails
<1>6. ASSUME NEW r \in Requests, Insert(r) \/ CasMatches(r) \/ CasMisses(r)
      PROVE  UNCHANGED Register!vars
  BY <1>6, Unseen DEF Moves, Insert, CasMatches, CasMisses, Inv
<1>7. ASSUME NEW r \in Requests, RetryRead(r) PROVE UNCHANGED Register!vars
  BY <1>7 DEF RetryRead, Place, input, Register!vars, Register!asked
<1>8. ASSUME NEW r \in Requests, Commit(r) \/ CommitAnswerLost(r)
      PROVE  Register!Next \/ UNCHANGED Register!vars
  BY <1>8, CommitImplements DEF Register!Next
<1>9. ASSUME NEW r \in Requests, Drain(r) PROVE Register!Succeed(r)
  <2>1. Place[r] = "open" /\ Place' = [Place EXCEPT ![r] = "closed"]
    BY <1>9, PlaceMoves DEF Moves, Drain, Inv
  <2>2. method[r] # "PUT" => r \in committed
    BY <1>9 DEF Drain, Inv, DeleteKeepsWrite
  <2> QED
    BY <1>9, <2>1, <2>2
    DEF Drain, input, Success, Methods, Register!Succeed, Register!Close,
        Register!Success, Register!Methods, Register!asked
<1>10. ASSUME NEW r \in Requests, Crash(r) PROVE Register!Fail(r)
  <2>1. Place[r] = "open" /\ Place' = [Place EXCEPT ![r] = "closed"]
    BY <1>10, PlaceMoves DEF Moves, Crash, Inv
  <2>2. status' = [status EXCEPT ![r] = status[r]]
    BY <1>10 DEF Crash, Inv, TypeOK
  <2> QED  BY <1>10, <2>1, <2>2 DEF Crash, input, Register!Fail, Register!Close, Register!asked
<1>11. CASE UNCHANGED vars
  BY <1>11 DEF vars, input, Place, Register!vars, Register!asked
<1> QED
  BY <1>1, <1>4, <1>5, <1>6, <1>7, <1>8, <1>9, <1>10, <1>11
  DEF Next, Step, Fault, Register!Next

\* The write path implements a register with compare-and-set, for any number
\* of requests, replicas and retries.
THEOREM Refinement == Spec => ImplementsRegister
<1>1. Init => Register!Init
  <2> SUFFICES ASSUME Init PROVE Register!Init
    OBVIOUS
  <2>1. Place = [r \in Requests |-> "new"]
    BY DEF Init, Place, Working, Reading
  <2> QED  BY <2>1 DEF Init, Register!Init
<1>2. Init => WritesReplace
  BY DEF Init, WritesReplace
<1>3. Spec => [](Inv /\ AllTruthful)
  BY Inductive, StaysTruthful, PTL
<1> QED
  BY <1>1, <1>2, <1>3, NextReplace, NextImplements, PTL
  DEF Spec, ImplementsRegister, Register!Spec

=============================================================================
