------------------------------- MODULE Gateway -------------------------------
(***************************************************************************)
(* The middleware chain of one process: access log and RED metrics, load   *)
(* shedding, authentication and the route policy, around the routers.      *)
(* Every layer awaits the one inside it, so requests interleave between    *)
(* any two layers.                                                         *)
(*                                                                         *)
(* Paths and methods are the classes the layers tell apart: "probe" is the *)
(* health probes and the metrics scrape, "GET" reads and "PUT" is any      *)
(* writing method.  What a handler does is the other modules' business;    *)
(* here it answers well, answers that a dependency is down, raises what no *)
(* handler catches, or hangs: the commit and the rollback of get_session   *)
(* are part of it, and no timeout is over them.  A client may send another *)
(* request when it has its answer.                                         *)
(***************************************************************************)
EXTENDS Integers, FiniteSets

CONSTANTS
    Requests,      \* concurrent clients' requests
    MaxInflight    \* MAX_INFLIGHT_REQUESTS

ASSUME GatewayAssumption ==
    /\ IsFiniteSet(Requests)
    /\ MaxInflight \in Nat \ {0}

Paths   == {"probe", "auth", "articles", "admin", "other"}
Methods == {"GET", "PUT"}
Tokens  == {"none", "invalid", "user", "admin"}
Answers == {200, 401, 403, 500, 503}

VARIABLES
    inflight,   \* LoadShedMiddleware._inflight
    pc,         \* the layer the request is in
    method, path, token,
    response,   \* what the inner layer answered, 0 while it has not or it raised
    counted,    \* status -> what http_requests_total counted for the request
    answer      \* what the client got, 0 before

input == <<method, path, token>>
vars  == <<inflight, pc, input, response, counted, answer>>

Layers == {"idle", "shed", "auth", "handler", "release", "observe", "send"}

TypeOK ==
    /\ inflight \in 0 .. MaxInflight
    /\ pc \in [Requests -> Layers]
    /\ method \in [Requests -> Methods]
    /\ path \in [Requests -> Paths]
    /\ token \in [Requests -> Tokens]
    /\ response \in [Requests -> Answers \cup {0}]
    /\ counted \in [Requests -> [Answers -> Nat]]
    /\ answer \in [Requests -> Answers \cup {0}]

Nothing == [status \in Answers |-> 0]
Once(code) == [status \in Answers |-> IF status = code THEN 1 ELSE 0]

Init ==
    /\ inflight = 0
    /\ pc = [r \in Requests |-> "idle"]
    /\ method = [r \in Requests |-> "GET"]
    /\ path = [r \in Requests |-> "probe"]
    /\ token = [r \in Requests |-> "none"]
    /\ response = [r \in Requests |-> 0]
    /\ counted = [r \in Requests |-> Nothing]
    /\ answer = [r \in Requests |-> 0]

-----------------------------------------------------------------------------
Exempt(r) == path[r] = "probe"

\* Mutant of Requirement: the article routes are public.
RequirementOfReads(m, p) ==
    CASE p \in {"probe", "auth", "articles"} -> "public"
      [] p = "admin" -> "admin"
      [] OTHER -> "authenticated"

\* route_requirement: a route nobody thought of needs a token.
Requirement(m, p) ==
    CASE p \in {"probe", "auth"} -> "public"
      [] p = "admin" -> "admin"
      [] p = "articles" /\ m = "GET" -> "public"
      [] OTHER -> "authenticated"

\* AuthMiddleware's verdict, 0 for go on.  A token that does not decode is
\* refused on every route, and a missing identity before a missing role.
Denial(r) ==
    LET needs == Requirement(method[r], path[r]) IN
    CASE token[r] = "invalid" -> 401
      [] needs # "public" /\ token[r] = "none" -> 401
      [] needs = "admin" /\ token[r] = "user" -> 403
      [] OTHER -> 0

Goto(r, layer) == pc' = [pc EXCEPT ![r] = layer]

Arrive(r, m, p, t) ==
    /\ pc[r] = "idle"
    /\ Goto(r, "shed")
    /\ method' = [method EXCEPT ![r] = m]
    /\ path' = [path EXCEPT ![r] = p]
    /\ token' = [token EXCEPT ![r] = t]
    /\ response' = [response EXCEPT ![r] = 0]
    /\ counted' = [counted EXCEPT ![r] = Nothing]
    /\ answer' = [answer EXCEPT ![r] = 0]
    /\ UNCHANGED inflight

\* LoadShedMiddleware.dispatch up to its first await.
Pass(r) ==
    /\ pc[r] = "shed" /\ Exempt(r)
    /\ Goto(r, "auth")
    /\ UNCHANGED <<inflight, input, response, counted, answer>>

\* Mutant of Shed: a semaphore, at which the request waits.
ShedWaits(r) ==
    /\ pc[r] = "shed" /\ ~ Exempt(r)
    /\ inflight >= MaxInflight
    /\ UNCHANGED vars

Shed(r) ==
    /\ pc[r] = "shed" /\ ~ Exempt(r)
    /\ inflight >= MaxInflight
    /\ Goto(r, "observe")
    /\ response' = [response EXCEPT ![r] = 503]
    /\ UNCHANGED <<inflight, input, counted, answer>>

Admit(r) ==
    /\ pc[r] = "shed" /\ ~ Exempt(r)
    /\ inflight < MaxInflight
    /\ inflight' = inflight + 1
    /\ Goto(r, "auth")
    /\ UNCHANGED <<input, response, counted, answer>>

Deny(r) ==
    /\ pc[r] = "auth" /\ Denial(r) # 0
    /\ Goto(r, "release")
    /\ response' = [response EXCEPT ![r] = Denial(r)]
    /\ UNCHANGED <<inflight, input, counted, answer>>

Authorize(r) ==
    /\ pc[r] = "auth" /\ Denial(r) = 0
    /\ Goto(r, "handler")
    /\ UNCHANGED <<inflight, input, response, counted, answer>>

\* The handler answers (its domain errors are answers), or raises.
Respond(r) ==
    /\ pc[r] = "handler"
    /\ Goto(r, "release")
    /\ \E status \in {200, 503} : response' = [response EXCEPT ![r] = status]
    /\ UNCHANGED <<inflight, input, counted, answer>>

Raise(r) ==
    /\ pc[r] = "handler"
    /\ Goto(r, "release")
    /\ UNCHANGED <<inflight, input, response, counted, answer>>

\* Mutant of Release: no finally, so an exception keeps the slot.
ReleaseIfAnswered(r) ==
    /\ pc[r] = "release"
    /\ inflight' = IF Exempt(r) \/ response[r] = 0 THEN inflight ELSE inflight - 1
    /\ Goto(r, "observe")
    /\ UNCHANGED <<input, response, counted, answer>>

\* Mutant of Release: requests that took no slot give one back.
ReleaseAlways(r) ==
    /\ pc[r] = "release"
    /\ inflight' = inflight - 1
    /\ Goto(r, "observe")
    /\ UNCHANGED <<input, response, counted, answer>>

\* The finally clause of LoadShedMiddleware.dispatch.
Release(r) ==
    /\ pc[r] = "release"
    /\ inflight' = IF Exempt(r) THEN inflight ELSE inflight - 1
    /\ Goto(r, "observe")
    /\ UNCHANGED <<input, response, counted, answer>>

\* What the client gets: what the inner layer answered, or the 500 that the
\* application makes of an exception.
Outcome(r) == IF response[r] = 0 THEN 500 ELSE response[r]

\* http_requests_total{status=code} goes up by one.
Count(r, code) == [counted[r] EXCEPT ![code] = @ + 1]

\* Mutant of Observe: a finally clause that counts what the except clause counted.
ObserveTwice(r) ==
    /\ pc[r] = "observe"
    /\ counted' = [counted EXCEPT ![r] =
                     CASE Exempt(r) -> @
                       [] ~ Exempt(r) /\ response[r] = 0 -> [@ EXCEPT ![500] = @ + 2]
                       [] OTHER -> Count(r, response[r])]
    /\ Goto(r, "send")
    /\ UNCHANGED <<inflight, input, response, answer>>

\* MetricsMiddleware._observe, on the way of an answer or, from the except
\* clause, of an exception.
Observe(r) ==
    /\ pc[r] = "observe"
    /\ counted' = [counted EXCEPT ![r] = IF Exempt(r) THEN @ ELSE Count(r, Outcome(r))]
    /\ Goto(r, "send")
    /\ UNCHANGED <<inflight, input, response, answer>>

\* The response leaves, or the application's handler of Exception makes one.
Send(r) ==
    /\ pc[r] = "send"
    /\ answer' = [answer EXCEPT ![r] = Outcome(r)]
    /\ Goto(r, "idle")
    /\ UNCHANGED <<inflight, input, response, counted>>

\* What the middleware does, and what the handler does.
Layer(r) ==
    \/ Pass(r) \/ Shed(r) \/ Admit(r) \/ Deny(r) \/ Authorize(r)
    \/ Release(r) \/ Observe(r) \/ Send(r)

Step(r) == Layer(r) \/ Respond(r) \/ Raise(r)

Next ==
    \E r \in Requests :
        \/ \E m \in Methods, p \in Paths, t \in Tokens : Arrive(r, m, p, t)
        \/ Step(r)

Spec == Init /\ [][Next]_vars

\* Every layer goes on when the inner one is done.  Nothing is assumed of the
\* handlers, which hang with a MySQL that leaves a commit unanswered.
FairSpec == Spec /\ \A r \in Requests : WF_vars(Layer(r))

-----------------------------------------------------------------------------
\* The slots taken are the requests inside, on every way out (a denial, an
\* answer, an exception), and never more than the ceiling.
Holding == {r \in Requests : pc[r] \in {"auth", "handler", "release"} /\ ~ Exempt(r)}

SlotsAreHeld == inflight = Cardinality(Holding) /\ inflight <= MaxInflight

\* The metrics agree with what clients got: an answer was counted exactly once,
\* under its own status and no other (sheds, denials and unhandled errors
\* included), and that of a probe or a scrape was not counted.
CountedAsAnswered ==
    \A r \in Requests :
        answer[r] # 0 => counted[r] = IF Exempt(r) THEN Nothing ELSE Once(answer[r])

\* No handler runs for a caller the route's policy does not admit: FR-003.
OnlyAuthorizedRun ==
    \A r \in Requests : pc[r] = "handler" =>
        /\ token[r] # "invalid"
        /\ path[r] = "admin" => token[r] = "admin"
        /\ path[r] \in {"articles", "other"} /\ method[r] # "GET" =>
               token[r] \in {"user", "admin"}
        /\ path[r] = "other" => token[r] # "none"

\* Overload is refused, not queued: a request is answered or comes to its own
\* handler, and is answered once that has ended, also when the handlers of
\* others hang and keep every slot.
NobodyWaits ==
    \A r \in Requests : pc[r] \notin {"idle", "handler"} ~> pc[r] \in {"idle", "handler"}
=============================================================================
