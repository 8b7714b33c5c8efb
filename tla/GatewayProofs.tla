----------------------------- MODULE GatewayProofs -----------------------------
(***************************************************************************)
(* The middleware chain for any number of concurrent requests and any      *)
(* ceiling.                                                                *)
(***************************************************************************)
EXTENDS Gateway, FiniteSetTheorems, TLAPS

\* A request under way has not been counted or answered; from the metrics layer
\* on, what was counted is what will be answered.
CountsMatch ==
    \A r \in Requests :
        /\ pc[r] \notin {"idle", "send"} => counted[r] = Nothing /\ answer[r] = 0
        /\ pc[r] = "send" =>
              /\ answer[r] = 0
              /\ counted[r] = IF Exempt(r) THEN Nothing ELSE Once(Outcome(r))

Inv == TypeOK /\ SlotsAreHeld /\ CountsMatch /\ CountedAsAnswered

\* A process starts with no request under way and every slot free.
LEMMA InitInv == Init => Inv
<1> SUFFICES ASSUME Init PROVE Inv
  OBVIOUS
<1>1. TypeOK
  BY GatewayAssumption DEF Init, TypeOK, Layers, Methods, Paths, Tokens, Nothing
<1>2. Holding = {}
  BY DEF Init, Holding
<1>3. SlotsAreHeld
  BY <1>2, FS_EmptySet, GatewayAssumption DEF Init, SlotsAreHeld
<1>4. CountsMatch /\ CountedAsAnswered
  BY DEF Init, CountsMatch, CountedAsAnswered
<1> QED  BY <1>1, <1>3, <1>4 DEF Inv

\* Of the requests there are, finitely many hold a slot.
LEMMA HoldingFinite == IsFiniteSet(Holding) /\ Cardinality(Holding) \in Nat
  BY FS_Subset, FS_CardinalityType, GatewayAssumption DEF Holding

\* The slot counter follows the requests inside through every layer.
LEMMA NextSlots ==
    ASSUME TypeOK, SlotsAreHeld, [Next]_vars
    PROVE  SlotsAreHeld' /\ inflight' \in 0 .. MaxInflight
<1> USE GatewayAssumption
<1>1. ASSUME NEW r \in Requests, Admit(r)
      PROVE  SlotsAreHeld' /\ inflight' \in 0 .. MaxInflight
  <2>1. r \notin Holding /\ Holding' = Holding \cup {r}
    BY <1>1 DEF Admit, Goto, Holding, Exempt, input, TypeOK
  <2>2. inflight' = inflight + 1 /\ inflight < MaxInflight /\ inflight \in Nat
    BY <1>1 DEF Admit, TypeOK
  <2>3. Cardinality(Holding') = Cardinality(Holding) + 1
    BY <2>1, HoldingFinite, FS_AddElement
  <2> QED  BY <2>2, <2>3 DEF SlotsAreHeld
<1>2. ASSUME NEW r \in Requests, Release(r)
      PROVE  SlotsAreHeld' /\ inflight' \in 0 .. MaxInflight
  <2>1. CASE Exempt(r)
    <3>1. Holding' = Holding /\ inflight' = inflight
      BY <1>2, <2>1 DEF Release, Goto, Holding, Exempt, input, TypeOK
    <3> QED  BY <3>1 DEF SlotsAreHeld, TypeOK
  <2>2. CASE ~ Exempt(r)
    <3>1. r \in Holding /\ Holding' = Holding \ {r}
      BY <1>2, <2>2 DEF Release, Goto, Holding, Exempt, input, TypeOK
    <3>2. inflight' = inflight - 1 /\ inflight \in 0 .. MaxInflight
      BY <1>2, <2>2 DEF Release, TypeOK
    <3>3. Cardinality(Holding') = Cardinality(Holding) - 1 /\ Cardinality(Holding) # 0
      BY <3>1, HoldingFinite, FS_RemoveElement, FS_EmptySet
    <3> QED  BY <3>2, <3>3 DEF SlotsAreHeld
  <2> QED  BY <2>1, <2>2
<1>3. ASSUME Holding' = Holding, inflight' = inflight
      PROVE  SlotsAreHeld' /\ inflight' \in 0 .. MaxInflight
  BY <1>3 DEF SlotsAreHeld, TypeOK
<1>4. ASSUME NEW r \in Requests, NEW m, NEW p, NEW t, Arrive(r, m, p, t)
      PROVE  Holding' = Holding /\ inflight' = inflight
  BY <1>4 DEF Arrive, Goto, Holding, Exempt, TypeOK
<1>5. ASSUME NEW r \in Requests,
             Pass(r) \/ Shed(r) \/ Deny(r) \/ Authorize(r) \/ Respond(r)
                \/ Raise(r) \/ Observe(r) \/ Send(r)
      PROVE  Holding' = Holding /\ inflight' = inflight
  BY <1>5 DEF Pass, Shed, Deny, Authorize, Respond, Raise, Observe, Send,
              Goto, Holding, Exempt, input, TypeOK
<1>6. ASSUME UNCHANGED vars
      PROVE  Holding' = Holding /\ inflight' = inflight
  BY <1>6 DEF vars, input, Holding, Exempt
<1> QED  BY <1>1, <1>2, <1>3, <1>4, <1>5, <1>6 DEF Next, Step, Layer

\* A denial is one of the two statuses.
LEMMA DenialType ==
    ASSUME NEW r \in Requests
    PROVE  Denial(r) \in {0, 401, 403}
  BY DEF Denial

\* A request ends under one of the statuses, and its first count is the count of that.
LEMMA FirstCount ==
    ASSUME TypeOK, NEW r \in Requests
    PROVE  /\ Outcome(r) \in Answers
           /\ Count(r, Outcome(r)) \in [Answers -> Nat]
           /\ counted[r] = Nothing => Count(r, Outcome(r)) = Once(Outcome(r))
<1>1. Outcome(r) \in Answers
  BY DEF TypeOK, Outcome, Answers
<1>2. counted[r] \in [Answers -> Nat]
  BY DEF TypeOK
<1>3. Count(r, Outcome(r)) = [counted[r] EXCEPT ![Outcome(r)] = counted[r][Outcome(r)] + 1]
  BY DEF Count
<1>4. ASSUME counted[r] = Nothing
      PROVE  Count(r, Outcome(r)) = Once(Outcome(r))
  BY <1>1, <1>3, <1>4 DEF Nothing, Once
<1> QED  BY <1>1, <1>2, <1>3, <1>4

\* Every layer keeps types.
LEMMA NextType ==
    ASSUME TypeOK, SlotsAreHeld, [Next]_vars
    PROVE  TypeOK'
<1>1. inflight' \in 0 .. MaxInflight
  BY NextSlots
<1>2. ASSUME NEW r \in Requests, NEW m \in Methods, NEW p \in Paths, NEW t \in Tokens,
             Arrive(r, m, p, t)
      PROVE  TypeOK'
  BY <1>1, <1>2 DEF Arrive, Goto, TypeOK, Layers, Nothing
<1>o. ASSUME NEW r \in Requests, Observe(r) PROVE TypeOK'
  <2>1. counted' \in [Requests -> [Answers -> Nat]]
    BY <1>o, FirstCount DEF Observe, TypeOK
  <2> QED  BY <1>1, <1>o, <2>1 DEF Observe, Goto, TypeOK, Layers, input
<1>s. ASSUME NEW r \in Requests, Send(r) PROVE TypeOK'
  BY <1>1, <1>s, FirstCount DEF Send, Goto, TypeOK, Layers, input
<1>c. 200 \in Answers /\ 503 \in Answers
  BY DEF Answers
<1>l. ASSUME NEW r \in Requests,
             Pass(r) \/ Shed(r) \/ Admit(r) \/ Authorize(r) \/ Raise(r) \/ Release(r)
      PROVE  TypeOK'
  BY <1>1, <1>c, <1>l DEF Pass, Shed, Admit, Authorize, Raise, Release, Goto, TypeOK,
     Layers, input
<1>d. ASSUME NEW r \in Requests, Deny(r) \/ Respond(r) PROVE TypeOK'
  <2>1. Denial(r) \in Answers \cup {0}
    BY DenialType DEF Answers
  <2>2. response' \in [Requests -> Answers \cup {0}]
    <3>1. PICK code \in Answers \cup {0} : response' = [response EXCEPT ![r] = code]
      BY <1>c, <1>d, <2>1 DEF Deny, Respond
    <3> QED  BY <3>1 DEF TypeOK
  <2>3. pc' \in [Requests -> Layers]
    BY <1>d DEF Deny, Respond, Goto, TypeOK, Layers
  <2> QED  BY <1>1, <1>d, <2>2, <2>3 DEF Deny, Respond, TypeOK, input
<1>3. ASSUME NEW r \in Requests, Step(r) PROVE TypeOK'
  BY <1>3, <1>l, <1>d, <1>o, <1>s DEF Step, Layer
<1>4. CASE UNCHANGED vars
  BY <1>4 DEF vars, input, TypeOK
<1> QED  BY <1>2, <1>3, <1>4 DEF Next

\* The state one request has to itself, which no step of another touches.
Same(q) ==
    /\ pc'[q] = pc[q]
    /\ path'[q] = path[q]
    /\ response'[q] = response[q]
    /\ counted'[q] = counted[q]
    /\ answer'[q] = answer[q]

\* Middleware keeps its state per request: a step of r changes that of r only.
LEMMA OthersSame ==
    ASSUME TypeOK, NEW r \in Requests, NEW q \in Requests, q # r,
           \/ \E m, p, t : Arrive(r, m, p, t)
           \/ Step(r)
    PROVE  Same(q)
<1>1. CASE \E m, p, t : Arrive(r, m, p, t)
  BY <1>1 DEF Arrive, Goto, TypeOK, Same
<1>2. CASE Pass(r) \/ Shed(r) \/ Admit(r) \/ Deny(r) \/ Authorize(r)
  BY <1>2 DEF Pass, Shed, Admit, Deny, Authorize, Goto, TypeOK, input, Same
<1>3. CASE Respond(r) \/ Raise(r) \/ Release(r) \/ Observe(r) \/ Send(r)
  BY <1>3 DEF Respond, Raise, Release, Observe, Send, Goto, TypeOK, input, Same
<1> QED  BY <1>1, <1>2, <1>3 DEF Step, Layer

\* CountsMatch and CountedAsAnswered, of one request.
Agrees(q) ==
    /\ pc[q] \notin {"idle", "send"} => counted[q] = Nothing /\ answer[q] = 0
    /\ pc[q] = "send" =>
          /\ answer[q] = 0
          /\ counted[q] = IF Exempt(q) THEN Nothing ELSE Once(Outcome(q))
    /\ answer[q] # 0 => counted[q] = IF Exempt(q) THEN Nothing ELSE Once(answer[q])

\* Each layer leaves the count of its request alone until the metrics layer
\* sets it, and the answer that leaves is the one that was counted.
LEMMA OwnAgrees ==
    ASSUME TypeOK, NEW r \in Requests, Agrees(r),
           \/ \E m, p, t : Arrive(r, m, p, t)
           \/ Step(r)
    PROVE  Agrees(r)'
<1>1. CASE \E m, p, t : Arrive(r, m, p, t)
  <2>1. pc'[r] = "shed" /\ counted'[r] = Nothing /\ answer'[r] = 0
    BY <1>1 DEF Arrive, Goto, TypeOK
  <2> QED  BY <2>1 DEF Agrees
<1>2. ASSUME pc[r] \notin {"idle", "send"}, pc'[r] \notin {"idle", "send"},
             UNCHANGED <<counted, answer>>
      PROVE  Agrees(r)'
  BY <1>2 DEF Agrees
<1>3. CASE Pass(r) \/ Shed(r) \/ Admit(r) \/ Deny(r) \/ Authorize(r)
  BY <1>2, <1>3 DEF Pass, Shed, Admit, Deny, Authorize, Goto, TypeOK
<1>4. CASE Respond(r) \/ Raise(r) \/ Release(r)
  BY <1>2, <1>4 DEF Respond, Raise, Release, Goto, TypeOK
<1>5. CASE Observe(r)
  <2>1. pc'[r] = "send" /\ answer'[r] = 0 /\ counted[r] = Nothing
    BY <1>5 DEF Observe, Goto, TypeOK, Agrees
  <2>2. path'[r] = path[r] /\ response'[r] = response[r]
    BY <1>5 DEF Observe, input
  <2>3. counted'[r] = IF Exempt(r) THEN counted[r] ELSE Count(r, Outcome(r))
    BY <1>5 DEF Observe, TypeOK
  <2>4. counted'[r] = IF Exempt(r) THEN Nothing ELSE Once(Outcome(r))
    BY <2>1, <2>3, FirstCount
  <2>5. (Exempt(r)' <=> Exempt(r)) /\ Outcome(r)' = Outcome(r)
    BY <2>2 DEF Exempt, Outcome
  <2> QED  BY <2>1, <2>4, <2>5 DEF Agrees, Nothing, Once
<1>6. CASE Send(r)
  <2>1. /\ pc[r] = "send" /\ pc'[r] = "idle" /\ answer'[r] = Outcome(r)
        /\ counted'[r] = counted[r]
    BY <1>6 DEF Send, Goto, TypeOK
  <2>2. Exempt(r)' <=> Exempt(r)
    BY <1>6 DEF Send, input, Exempt
  <2> QED  BY <2>1, <2>2 DEF Agrees, Nothing, Once
<1> QED  BY <1>1, <1>3, <1>4, <1>5, <1>6 DEF Step, Layer

\* A request that took no step agrees as before.
LEMMA SameAgrees ==
    ASSUME NEW q \in Requests, Agrees(q), Same(q)
    PROVE  Agrees(q)'
  BY DEF Agrees, Same, Exempt, Outcome, Nothing, Once

\* Counts and answers keep agreeing, whichever request takes a step.
LEMMA NextCounts ==
    ASSUME TypeOK, CountsMatch, CountedAsAnswered, [Next]_vars
    PROVE  CountsMatch' /\ CountedAsAnswered'
<1>1. \A q \in Requests : Agrees(q)
  BY DEF CountsMatch, CountedAsAnswered, Agrees
<1>2. ASSUME NEW q \in Requests PROVE Agrees(q)'
  <2>1. CASE Same(q)
    BY <1>1, <2>1, SameAgrees
  <2>2. CASE UNCHANGED vars
    BY <2>1, <2>2 DEF vars, input, Same
  <2>3. CASE Next
    BY <1>1, <2>1, <2>3, OthersSame, OwnAgrees DEF Next
  <2> QED  BY <2>2, <2>3
<1> QED  BY <1>2 DEF CountsMatch, CountedAsAnswered, Agrees, Exempt, Outcome, Nothing, Once

\* The invariant of the whole chain.
LEMMA Inductive == Spec => []Inv
<1>1. Inv /\ [Next]_vars => Inv'
  BY NextType, NextSlots, NextCounts DEF Inv
<1> QED  BY InitInv, <1>1, PTL DEF Spec

\* No layer ever leaves the types of the gateway's state, the slot counter's
\* range in particular (LoadShedMiddleware._inflight).
THEOREM TypeCorrect == Spec => []TypeOK
<1>1. Inv => TypeOK
  BY DEF Inv
<1> QED  BY Inductive, <1>1, PTL

\* LoadShedMiddleware leaks no slot and hands out none twice, with any number
\* of concurrent requests and any ceiling.
THEOREM SlotsNeverLeak == Spec => []SlotsAreHeld
<1>1. Inv => SlotsAreHeld
  BY DEF Inv
<1> QED  BY Inductive, <1>1, PTL

\* MetricsMiddleware counts every answer exactly once, under the status the
\* client got and no other.
THEOREM MetricsAreTrue == Spec => []CountedAsAnswered
<1>1. Inv => CountedAsAnswered
  BY DEF Inv
<1> QED  BY Inductive, <1>1, PTL

\* AuthMiddleware lets a request through to a handler only with the identity
\* and role its route demands.
THEOREM HandlersAreAuthorized == Spec => []OnlyAuthorizedRun
<1>1. Init => OnlyAuthorizedRun
  BY DEF Init, OnlyAuthorizedRun
<1>2. TypeOK /\ OnlyAuthorizedRun /\ [Next]_vars => OnlyAuthorizedRun'
  <2> SUFFICES ASSUME TypeOK, OnlyAuthorizedRun, [Next]_vars PROVE OnlyAuthorizedRun'
    OBVIOUS
  <2>1. ASSUME NEW r \in Requests, Authorize(r) PROVE OnlyAuthorizedRun'
    <3>1. pc' = [pc EXCEPT ![r] = "handler"] /\ UNCHANGED input /\ Denial(r) = 0
      BY <2>1 DEF Authorize, Goto
    <3>2. /\ token[r] # "invalid"
          /\ path[r] = "admin" => token[r] = "admin"
          /\ path[r] \in {"articles", "other"} /\ method[r] # "GET" =>
                 token[r] \in {"user", "admin"}
          /\ path[r] = "other" => token[r] # "none"
      BY <3>1 DEF Denial, Requirement, TypeOK, Tokens
    <3> QED  BY <3>1, <3>2 DEF OnlyAuthorizedRun, TypeOK, input
  <2>2. ASSUME NEW r \in Requests, NEW m, NEW p, NEW t, Arrive(r, m, p, t)
        PROVE  OnlyAuthorizedRun'
    BY <2>2 DEF Arrive, Goto, OnlyAuthorizedRun, TypeOK
  <2>3. ASSUME NEW r \in Requests,
               Pass(r) \/ Shed(r) \/ Admit(r) \/ Deny(r) \/ Respond(r) \/ Raise(r)
                  \/ Release(r) \/ Observe(r) \/ Send(r)
        PROVE  OnlyAuthorizedRun'
    BY <2>3 DEF Pass, Shed, Admit, Deny, Respond, Raise, Release, Observe, Send,
                Goto, OnlyAuthorizedRun, TypeOK, input
  <2>4. CASE UNCHANGED vars
    BY <2>4 DEF vars, input, OnlyAuthorizedRun
  <2> QED  BY <2>1, <2>2, <2>3, <2>4 DEF Next, Step, Layer
<1> QED  BY <1>1, <1>2, TypeCorrect, PTL DEF Spec
=============================================================================
