---------------------------- MODULE ArticleRegister ----------------------------
(***************************************************************************)
(* What the write path promises about one article, whatever runs at the    *)
(* same time: a register with compare-and-set.  A write takes effect at    *)
(* one instant between its arrival and its answer, or not at all, and only *)
(* on the version its client named; the answer tells which.  Transactions, *)
(* snapshots, row locks and retries are ArticleWrites', which implements   *)
(* this.                                                                   *)
(*                                                                         *)
(* A 500 says nothing of the effect.  Nor does a 200: what update()        *)
(* answers once its read-back was retried is the subject of                *)
(* AckedUpdateIsDurable.                                                   *)
(***************************************************************************)
EXTENDS Naturals

CONSTANTS
    Requests,   \* the write requests
    Bodies      \* contents a PUT may carry

VARIABLES
    row,         \* the article: content, version token, deleted or not
    place,       \* of each request: "new", "open" or "closed"
    method, ifMatch, payload,   \* what it asks for, fixed when it arrives
    committed,   \* requests whose write took effect
    status       \* the answer, 0 until there is one

asked == <<method, ifMatch, payload>>
vars  == <<row, place, asked, committed, status>>

Methods == {"POST", "PUT", "DELETE"}
Success == [m \in Methods |->
              CASE m = "POST" -> 201 [] m = "PUT" -> 200 [] m = "DELETE" -> 204]
Refusals == {401, 403, 404, 409, 422, 503}

Init ==
    /\ \E b \in Bodies : row = [body |-> b, token |-> 1, deleted |-> FALSE]
    /\ place = [r \in Requests |-> "new"]
    /\ method = [r \in Requests |-> "POST"]
    /\ ifMatch = [r \in Requests |-> 0]
    /\ payload = [r \in Requests |-> row.body]
    /\ committed = {}
    /\ status = [r \in Requests |-> 0]

-----------------------------------------------------------------------------
\* A client asks; the token it names, if any, is one the article has had.
Ask(r) ==
    /\ place[r] = "new"
    /\ place' = [place EXCEPT ![r] = "open"]
    /\ \E m \in Methods : method' = [method EXCEPT ![r] = m]
    /\ \E t \in 0 .. row.token : ifMatch' = [ifMatch EXCEPT ![r] = t]
    /\ \E b \in Bodies : payload' = [payload EXCEPT ![r] = b]
    /\ UNCHANGED <<row, committed, status>>

Close(r, code) ==
    /\ place' = [place EXCEPT ![r] = "closed"]
    /\ status' = [status EXCEPT ![r] = code]

\* The version after r's: its own content, or its mark, on the next token; the
\* same one if it says what the row says already.
Successor(r) ==
    CASE method[r] = "DELETE" ->
            [body |-> row.body, token |-> row.token + 1, deleted |-> TRUE]
      [] method[r] = "PUT" /\ payload[r] = row.body -> row
      [] method[r] = "PUT" /\ payload[r] # row.body ->
            [body |-> payload[r], token |-> row.token + 1, deleted |-> FALSE]

\* r's write takes effect, once, and no earlier answer says it did not.  (The
\* rows that POSTs create are other articles'.)
Apply(r) ==
    /\ place[r] = "open" /\ r \notin committed
    /\ committed' = committed \cup {r}
    /\ \/ method[r] = "POST" /\ row' = row
       \/ /\ method[r] # "POST"
          /\ row.token = ifMatch[r] /\ ~ row.deleted
          /\ row' = Successor(r)
    /\ \/ UNCHANGED <<place, status>>
       \/ Close(r, 500)
    /\ UNCHANGED asked

Succeed(r) ==
    /\ place[r] = "open"
    /\ method[r] # "PUT" => r \in committed
    /\ Close(r, Success[method[r]])
    /\ UNCHANGED <<row, asked, committed>>

\* A refusal: it has not taken effect and never will, and what the code says of
\* the article is true.
Refuse(r) ==
    /\ place[r] = "open" /\ r \notin committed
    /\ \E code \in Refusals :
          /\ code = 404 => row.deleted
          /\ code = 409 => row.token # ifMatch[r]
          /\ Close(r, code)
    /\ UNCHANGED <<row, asked, committed>>

\* Something failed on the way: a 500, or, if the replica died, no answer.
Fail(r) ==
    /\ place[r] = "open"
    /\ Close(r, 500) \/ Close(r, status[r])
    /\ UNCHANGED <<row, asked, committed>>

Next == \E r \in Requests : Ask(r) \/ Apply(r) \/ Succeed(r) \/ Refuse(r) \/ Fail(r)

Spec == Init /\ [][Next]_vars

=============================================================================
