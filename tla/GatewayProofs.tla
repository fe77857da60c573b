----------------------------- MODULE GatewayProofs -----------------------------
(***************************************************************************)
(* Proofs about module Gateway, for any number of calls at a time: what    *)
(* the breaker counts is warranted, one probe at a time goes through, and  *)
(* the status a client gets is true.                                       *)
(***************************************************************************)
EXTENDS Gateway, TLAPS

-------------------------------------------------------------------------------
(* The operations of the breaker *)

(* A new generation starts with nothing counted.                           *)
LEMMA SetStateFacts ==
  ASSUME NEW s \in {"closed", "half-open", "open"}
  PROVE  /\ SetState(s) \in BreakerType
         /\ SetState(s).state = s
         /\ SetState(s).current = {}
         /\ SetState(s).requests = 0
         /\ SetState(s).failures = 0
BY DEF SetState, BreakerType, MaxRequests

(* A breaker is as it was, or half-open and new because its timeout is     *)
(* over.                                                                   *)
LEMMA CurrentStateFacts ==
  ASSUME breaker \in BreakerType
  PROVE  /\ CurrentState \in BreakerType
         /\ \/ CurrentState = breaker
            \/ /\ breaker.state = "open"
               /\ CurrentState.state = "half-open"
               /\ CurrentState.current = {}
               /\ CurrentState.requests = 0
BY SetStateFacts DEF CurrentState

(* Letting a call through adds it to the generation, and a probe is        *)
(* counted.                                                                *)
LEMMA OnRequestFacts ==
  ASSUME NEW b \in BreakerType, NEW h \in Handlers,
         b.state = "half-open" => b.requests = 0
  PROVE  /\ OnRequest(b, h) \in BreakerType
         /\ OnRequest(b, h).state = b.state
         /\ OnRequest(b, h).current = b.current \union {h}
         /\ OnRequest(b, h).failures = b.failures
         /\ b.state = "half-open" => OnRequest(b, h).requests = 1
<1> DEFINE n == IF b.state = "half-open" THEN b.requests + 1 ELSE b.requests
<1>1. n \in 0..MaxRequests /\ (b.state = "half-open" => n = 1)
  BY DEF BreakerType, MaxRequests
<1>2. OnRequest(b, h) = [b EXCEPT !.current = b.current \union {h}, !.requests = n]
  BY DEF OnRequest
<1> HIDE DEF n
<1>3. OnRequest(b, h) = [state |-> b.state, elapsed |-> b.elapsed, current |-> b.current \union {h},
                         requests |-> n, successes |-> b.successes, failures |-> b.failures]
  BY <1>2 DEF BreakerType
<1> QED  BY <1>1, <1>3 DEF BreakerType

(* A success closes a half-open breaker and resets the failures of a       *)
(* closed one.                                                             *)
LEMMA OnSuccessFacts ==
  ASSUME NEW b \in BreakerType, b.state # "open"
  PROVE  /\ OnSuccess(b) \in BreakerType
         /\ OnSuccess(b).state = "closed"
         /\ OnSuccess(b).failures = 0
         /\ OnSuccess(b).current \subseteq b.current
<1>1. CASE b.state = "half-open"
  <2>1. OnSuccess(b) = SetState("closed")
    BY <1>1 DEF OnSuccess, BreakerType, MaxRequests
  <2> QED  BY <2>1, SetStateFacts
<1>2. CASE b.state = "closed"
  <2>1. OnSuccess(b) = [state |-> b.state, elapsed |-> b.elapsed, current |-> b.current,
                        requests |-> b.requests, successes |-> b.successes, failures |-> 0]
    BY <1>2 DEF OnSuccess, BreakerType
  <2> QED  BY <1>2, <2>1 DEF BreakerType
<1> QED  BY <1>1, <1>2 DEF BreakerType

(* A failure opens the breaker, or adds to the failures of a closed one.   *)
LEMMA OnFailureFacts ==
  ASSUME NEW b \in BreakerType, b.state # "open"
  PROVE  /\ OnFailure(b) \in BreakerType
         /\ OnFailure(b).current \subseteq b.current
         /\ \/ /\ OnFailure(b).state = "open"
               /\ OnFailure(b).current = {}
               /\ b.state = "half-open" \/ b.failures = 4
            \/ /\ OnFailure(b).state = "closed"
               /\ b.state = "closed"
               /\ OnFailure(b).failures = b.failures + 1
<1>1. CASE b.state = "half-open" \/ ReadyToTrip(b.failures + 1)
  <2>1. OnFailure(b) = SetState("open")
    BY <1>1 DEF OnFailure
  <2>2. b.state = "half-open" \/ b.failures = 4
    BY <1>1 DEF ReadyToTrip, BreakerType
  <2> QED  BY <2>1, <2>2, SetStateFacts
<1>2. CASE ~(b.state = "half-open" \/ ReadyToTrip(b.failures + 1))
  <2>1. OnFailure(b) = [b EXCEPT !.failures = @ + 1, !.successes = 0]
    BY <1>2 DEF OnFailure
  <2>2. b.state = "closed" /\ b.failures + 1 \in 0..4
    BY <1>2 DEF ReadyToTrip, BreakerType
  <2> QED  BY <2>1, <2>2 DEF BreakerType
<1> QED  BY <1>1, <1>2

(* The end of a call counts only in the generation it belongs to.          *)
LEMMA CountFacts ==
  ASSUME NEW b \in BreakerType, NEW h \in Handlers, NEW ok \in BOOLEAN,
         b.state = "open" => b.current = {}
  PROVE  /\ Count(b, h, ok) \in BreakerType
         /\ Count(b, h, ok).current \subseteq b.current \ {h}
         /\ \/ h \notin b.current /\ Count(b, h, ok) = b
            \/ /\ h \in b.current /\ ok
               /\ Count(b, h, ok).state = "closed"
               /\ Count(b, h, ok).failures = 0
            \/ /\ h \in b.current /\ ~ok
               /\ Count(b, h, ok).state = "open"
               /\ Count(b, h, ok).current = {}
               /\ b.state = "half-open" \/ b.failures = 4
            \/ /\ h \in b.current /\ ~ok
               /\ Count(b, h, ok).state = "closed" /\ b.state = "closed"
               /\ Count(b, h, ok).failures = b.failures + 1
<1>1. CASE h \notin b.current
  BY <1>1 DEF Count, BreakerType
<1>2. CASE h \in b.current
  <2> DEFINE ended == [b EXCEPT !.current = b.current \ {h}]
  <2>1. ended = [state |-> b.state, elapsed |-> b.elapsed, current |-> b.current \ {h},
                 requests |-> b.requests, successes |-> b.successes, failures |-> b.failures]
    BY DEF BreakerType
  <2>2. /\ ended \in BreakerType
        /\ ended.state = b.state /\ ended.failures = b.failures
        /\ ended.current = b.current \ {h}
    BY <2>1 DEF BreakerType
  <2>3. Count(b, h, ok) = IF ok THEN OnSuccess(ended) ELSE OnFailure(ended)
    BY <1>2 DEF Count
  <2> HIDE DEF ended
  <2>4. ended.state # "open"
    BY <1>2, <2>2
  <2>5. CASE ok
    BY <1>2, <2>2, <2>3, <2>4, <2>5, OnSuccessFacts
  <2>6. CASE ~ok
    BY <1>2, <2>2, <2>3, <2>4, <2>6, OnFailureFacts
  <2> QED  BY <2>5, <2>6
<1> QED  BY <1>1, <1>2

-------------------------------------------------------------------------------
(* Calls *)

(* Refusals: the method has not run, or has done nothing.                  *)
Refused ==
  {"InvalidArgument", "FailedPrecondition", "Unauthenticated", "AlreadyExists", "ResourceExhausted"}

(* Every outcome has a status: success, refusal, or neither.               *)
LEMMA HttpStatusFacts ==
  ASSUME NEW r, NEW c \in Codes \ {"none"}
  PROVE  \/ c = "OK" /\ HttpStatus(r, c) \in {200, 201}
         \/ c \in Refused /\ HttpStatus(r, c) \in {400, 401, 409, 429}
         \/ HttpStatus(r, c) \in {500, 503}
<1>1. CASE c = "OK"
  BY <1>1 DEF HttpStatus
<1>2. CASE c \in Refused
  <2>1. CASE c \in {"InvalidArgument", "FailedPrecondition"}
    <3>1. HttpStatus(r, c) = 400  BY <2>1 DEF HttpStatus
    <3> QED  BY <2>1, <3>1 DEF Refused
  <2>2. CASE c = "Unauthenticated"
    <3>1. HttpStatus(r, c) = 401  BY <2>2 DEF HttpStatus
    <3> QED  BY <2>2, <3>1 DEF Refused
  <2>3. CASE c = "AlreadyExists"
    <3>1. HttpStatus(r, c) = 409  BY <2>3 DEF HttpStatus
    <3> QED  BY <2>3, <3>1 DEF Refused
  <2>4. CASE c = "ResourceExhausted"
    <3>1. HttpStatus(r, c) = 429  BY <2>4 DEF HttpStatus
    <3> QED  BY <2>4, <3>1 DEF Refused
  <2> QED  BY <1>2, <2>1, <2>2, <2>3, <2>4 DEF Refused
<1>3. CASE c \in {"ErrOpenState", "ErrTooManyRequests"} \union Uncertain
  <2>1. CASE c \in {"ErrOpenState", "Unavailable"}
    <3>1. HttpStatus(r, c) = 503  BY <2>1 DEF HttpStatus
    <3> QED  BY <3>1
  <2>2. CASE c \in {"ErrTooManyRequests", "Internal", "Canceled"}
    <3>1. HttpStatus(r, c) = 500  BY <2>2 DEF HttpStatus
    <3> QED  BY <3>1
  <2> QED  BY <1>3, <2>1, <2>2 DEF Uncertain, Faults
<1> QED  BY <1>1, <1>2, <1>3 DEF Codes, Faults, Uncertain, Refused

(* What a step of h leaves alone: the backend and the other calls.         *)
Untouched(h) ==
  /\ backend' = backend
  /\ \A g \in Handlers \ {h} :
       /\ pc'[g] = pc[g] /\ req'[g] = req[g] /\ user'[g] = user[g]
       /\ effect'[g] = effect[g] /\ code'[g] = code[g] /\ status'[g] = status[g]

CallOK(h) ==
  /\ CallInv(h)
  /\ pc[h] = "answered" =>
       /\ status[h] < 300 => Settled(h) /\ user[h] = UserOf(req[h])
       /\ status[h] \in 400..499 => effect[h] # "done"

(* If a step of h leaves the others alone and its own call in order, all   *)
(* calls are in order.                                                     *)
LEMMA CallsKept ==
  ASSUME IInv, NEW h \in Handlers, Untouched(h), CallOK(h)'
  PROVE  (\A g \in Handlers : CallInv(g))' /\ StatusIsTrue'
<1>1. ASSUME NEW g \in Handlers PROVE CallOK(g)'
  <2>1. CASE g = h  BY <2>1
  <2>2. CASE g # h
    <3>1. CallOK(g)
      BY DEF CallOK, IInv, StatusIsTrue
    <3>2. /\ pc'[g] = pc[g] /\ req'[g] = req[g] /\ user'[g] = user[g]
          /\ effect'[g] = effect[g] /\ code'[g] = code[g] /\ status'[g] = status[g]
      BY <2>2 DEF Untouched
    <3>3. Settled(g)' <=> Settled(g)
      BY <3>2 DEF Settled
    <3>4. CallInv(g)'
      BY <3>1, <3>2, <3>3 DEF CallOK, CallInv, UserOf
    <3> QED  BY <3>1, <3>2, <3>3, <3>4 DEF CallOK, UserOf
  <2> QED  BY <2>1, <2>2
<1> QED  BY <1>1 DEF CallOK, StatusIsTrue

(* The breaker does not notice a step of h outside of a call.              *)
LEMMA BreakerKept ==
  ASSUME IInv, NEW h \in Handlers, Untouched(h), UNCHANGED <<breaker, since, faults>>,
         InFlight(h) => InFlight(h)'
  PROVE  BreakerInv' /\ TripsWarranted'
<1>1. \A g \in Handlers : InFlight(g) => InFlight(g)'
  BY DEF Untouched, InFlight
<1>2. BreakerInv'
  BY <1>1 DEF IInv, BreakerInv
<1> QED  BY <1>2 DEF IInv, TripsWarranted

-------------------------------------------------------------------------------
(* One lemma for each action *)

Labels == {"idle", "execute", "call", "return", "answered"}
Statuses == {0, 200, 201, 400, 401, 409, 429, 500, 503}

(* A step of h keeps the types of the calls if it keeps those of h.        *)
CallType(h) ==
  /\ pc \in [Handlers -> Labels] /\ req \in [Handlers -> Requests \union {NoRequest}]
  /\ user \in [Handlers -> Users \union {NoUser}] /\ effect \in [Handlers -> Effects]
  /\ code \in [Handlers -> Codes] /\ status \in [Handlers -> Statuses]
  /\ pc[h] = "idle" <=> req[h] = NoRequest

(* Types of calls in terms of the call that moves.                         *)
LEMMA TypeKept ==
  ASSUME IInv, NEW h \in Handlers, Untouched(h), CallType(h)', calm' \in BOOLEAN,
         breaker' \in BreakerType, since' \subseteq Handlers, faults' \in 0..5
  PROVE  TypeOK'
<1>1. \A g \in Handlers : pc'[g] = "idle" <=> req'[g] = NoRequest
  BY DEF Untouched, CallType, IInv, TypeOK
<1>2. backend' \in {"auth", "billing"}
  BY DEF Untouched, IInv, TypeOK
<1> QED  BY <1>1, <1>2 DEF CallType, TypeOK, Labels, Statuses

(* A request that is turned away has done nothing.                         *)
LEMMA ReceiveStep ==
  ASSUME IInv, NEW h \in Handlers, NEW r \in Requests, Receive(h, r)
  PROVE  IInv'
<1> USE DEF IInv, TypeOK
<1>1. r # NoRequest
  BY GatewayAssumption
<1>2. \/ pc'[h] = "answered" /\ status'[h] \in {400, 401}
      \/ pc'[h] = "execute" /\ status'[h] = status[h]
  BY DEF Receive, Answer, Goto
<1>3. pc' \in [Handlers -> Labels] /\ status' \in [Handlers -> Statuses]
  BY DEF Receive, Answer, Goto, Labels, Statuses
<1>4. Untouched(h)
  BY DEF Untouched, Receive, Answer, Goto
<1>5. CallType(h)'
  BY <1>1, <1>2, <1>3 DEF Receive, CallType
<1>6. TypeOK'
  BY <1>4, <1>5, TypeKept DEF Receive
<1>7. CallOK(h)'
  <2>1. code'[h] = "none" /\ effect'[h] = "none"
    BY DEF Receive, CallInv
  <2>2. status'[h] < 300 => pc'[h] # "answered"
    BY <1>2
  <2> QED  BY <1>2, <2>1, <2>2 DEF CallOK, CallInv
<1>8. BreakerInv' /\ TripsWarranted'
  BY <1>4, BreakerKept DEF Receive, InFlight
<1> QED  BY <1>4, <1>6, <1>7, <1>8, CallsKept

(* A call is let through only by a closed breaker or as the only probe.    *)
LEMMA ExecuteStep ==
  ASSUME IInv, NEW h \in Handlers, Execute(h)
  PROVE  IInv'
<1> USE DEF IInv, TypeOK
<1> DEFINE b == CurrentState
           refused == b.state = "open" \/ (b.state = "half-open" /\ b.requests >= MaxRequests)
           why == IF b.state = "open" THEN "ErrOpenState" ELSE "ErrTooManyRequests"
<1>1. /\ b \in BreakerType
      /\ \/ b = breaker
         \/ b.state = "half-open" /\ b.current = {} /\ b.requests = 0 /\ breaker.state = "open"
  BY CurrentStateFacts
<1>2. Untouched(h)
  BY DEF Untouched, Execute, Answer, Goto
<1>3. code[h] = "none" /\ effect[h] = "none" /\ ~InFlight(h) /\ pc[h] # "idle"
  BY DEF Execute, CallInv, InFlight
<1>4. \A g \in Handlers : InFlight(g) => InFlight(g)'
  BY <1>2, <1>3 DEF Untouched, InFlight
<1>5. CASE refused
  <2>1. /\ breaker' = b /\ code' = [code EXCEPT ![h] = why]
        /\ pc' = [pc EXCEPT ![h] = "answered"]
        /\ status' = [status EXCEPT ![h] = HttpStatus(req[h], why)]
        /\ UNCHANGED <<since, calm, req, user, effect, faults>>
    BY <1>5 DEF Execute, Answer, Goto
  <2>2. why \in Codes \ {"none"} /\ why \in {"ErrOpenState", "ErrTooManyRequests"}
    BY DEF Codes
  <2> HIDE DEF why
  <2>3. HttpStatus(req[h], why) \in {500, 503}
    BY <2>2, HttpStatusFacts DEF Refused
  <2>4. CallType(h)'
    <3>1. code' \in [Handlers -> Codes]
      BY <2>1, <2>2
    <3>2. status' \in [Handlers -> Statuses]
      <4>1. HttpStatus(req[h], why) \in Statuses
        BY <2>3 DEF Statuses
      <4>2. status \in [Handlers -> Statuses]
        BY DEF Statuses
      <4> QED  BY <2>1, <4>1, <4>2
    <3>3. pc' \in [Handlers -> Labels] /\ pc'[h] # "idle"
      BY <2>1 DEF Labels
    <3> QED  BY <1>3, <2>1, <3>1, <3>2, <3>3 DEF CallType
  <2>5. CallOK(h)'
    <3>1. pc'[h] = "answered" /\ status'[h] \in {500, 503}
      BY <2>1, <2>3
    <3>2. ~(status'[h] < 300) /\ status'[h] \notin 400..499
      BY <3>1
    <3> QED  BY <3>1, <3>2 DEF CallOK, CallInv
  <2>6. BreakerInv'
    BY <1>1, <1>4, <2>1 DEF BreakerInv
  <2>7. TypeOK' /\ TripsWarranted'
    BY <1>1, <1>2, <2>1, <2>4, TypeKept DEF TripsWarranted
  <2> QED  BY <1>2, <2>5, <2>6, <2>7, CallsKept
<1>6. CASE ~refused
  <2>1. /\ breaker' = OnRequest(b, h) /\ pc' = [pc EXCEPT ![h] = "call"]
        /\ since' = IF b.state = "closed" THEN since \union {h} ELSE since
        /\ UNCHANGED <<code, status, calm, req, user, effect, faults>>
    BY <1>6 DEF Execute, Goto
  <2>2. b.state = "half-open" => b.requests = 0
    BY <1>1, <1>6 DEF MaxRequests, BreakerType
  <2>3. /\ breaker' \in BreakerType /\ breaker'.state = b.state
        /\ breaker'.current = b.current \union {h} /\ breaker'.failures = b.failures
        /\ b.state = "half-open" => breaker'.requests = 1
    BY <1>1, <2>1, <2>2, OnRequestFacts
  <2>4. CallType(h)'
    BY <1>3, <2>1 DEF CallType, Labels, Statuses
  <2>5. CallOK(h)'
    BY <1>3, <2>1 DEF CallOK, CallInv
  <2>6. b.state \in {"closed", "half-open"} /\ (b.state = "closed" => b = breaker)
    BY <1>1, <1>6 DEF BreakerType
  <2>7. BreakerInv'
    <3>1. InFlight(h)'
      BY <2>1 DEF InFlight
    <3>2. breaker'.current \subseteq {g \in Handlers : InFlight(g)'}
      BY <1>1, <1>4, <2>3, <3>1 DEF BreakerInv
    <3>3. CASE b.state = "half-open"
      <4>1. b.current = {}
        BY <1>1, <2>2, <3>3 DEF BreakerInv
      <4> QED  BY <2>3, <3>2, <3>3, <4>1 DEF BreakerInv
    <3>4. CASE b.state = "closed"
      BY <2>1, <2>3, <2>6, <3>2, <3>4 DEF BreakerInv
    <3> QED  BY <2>6, <3>3, <3>4
  <2>8. TypeOK' /\ TripsWarranted'
    <3>1. since' \subseteq Handlers /\ faults' \in 0..5 /\ calm' \in BOOLEAN
      BY <2>1
    <3>2. TypeOK'
      BY <1>2, <2>3, <2>4, <3>1, TypeKept
    <3>3. TripsWarranted'
      BY <1>1, <2>1, <2>3, <2>6 DEF TripsWarranted
    <3> QED  BY <3>2, <3>3
  <2> QED  BY <1>2, <2>5, <2>7, <2>8, CallsKept
<1> QED  BY <1>5, <1>6

(* The method refuses a call before it has done anything.                  *)
LEMMA ServeStep ==
  ASSUME IInv, NEW h \in Handlers, Serve(h)
  PROVE  IInv'
<1> USE DEF IInv, TypeOK
<1> DEFINE r == req[h]
           u == IF Intercepted(r) \/ r.body = "oversize" THEN NoUser ELSE UserOf(r)
<1>1. r \in RequestType /\ r # NoRequest
  BY GatewayAssumption DEF Serve
<1>2. PICK c \in Answers(r) : \E e \in Outcomes(r, c) :
        /\ code' = [code EXCEPT ![h] = c]
        /\ effect' = [effect EXCEPT ![h] = e]
  BY DEF Serve
<1>12. PICK e \in Outcomes(r, c) : effect' = [effect EXCEPT ![h] = e]
  BY <1>2
<1>3. Refusals(r) \subseteq {"AlreadyExists", "InvalidArgument", "FailedPrecondition"}
  <2>1. r.route \in {"register", "login", "refresh", "me", "deposit", "withdraw"}
    BY <1>1 DEF RequestType, Public, Protected
  <2>2. CASE r.route = "register"  BY <2>2 DEF Refusals
  <2>3. CASE r.route = "withdraw"  BY <2>3 DEF Refusals
  <2>4. CASE r.route \in {"login", "refresh", "deposit"}  BY <2>4 DEF Refusals
  <2>5. CASE r.route = "me"  BY <2>5 DEF Refusals
  <2> QED  BY <2>1, <2>2, <2>3, <2>4, <2>5
<1>4. /\ c \in {"OK", "Internal"} \union Refused
      /\ c = "OK" => ~Intercepted(r) /\ r.body # "oversize"
  BY <1>3 DEF Answers, Refused
<1>13. /\ c = "OK" => e = "done" \/ (e = "booked before" /\ Backend(r.route) = "billing")
       /\ c = "Internal" => e \in {"done", "none"}
       /\ c \notin {"OK", "Internal"} => e = "none"
  <2>1. CASE c = "OK"
    BY <2>1 DEF Outcomes
  <2>2. CASE c = "Internal"
    BY <2>2 DEF Outcomes
  <2>3. CASE c \notin {"OK", "Internal"}
    BY <2>3 DEF Outcomes
  <2> QED  BY <2>1, <2>2, <2>3
<1>5. UserOf(r) \in Users \union {NoUser, NotUuid}
  BY <1>1 DEF UserOf, RequestType
<1>6. /\ pc' = [pc EXCEPT ![h] = "return"] /\ pc[h] = "call"
      /\ user' = [user EXCEPT ![h] = u]
      /\ UNCHANGED <<backend, breaker, calm, req, status, since, faults>>
  BY DEF Serve, Goto
<1>14. u \in Users \union {NoUser} /\ (c = "OK" => u = UserOf(r))
  BY <1>4, <1>5 DEF Intercepted
<1> HIDE DEF u
<1>7. Untouched(h)
  BY <1>2, <1>6 DEF Untouched
<1>8. CallType(h)'
  <2>1. c \in Codes /\ e \in Effects
    BY <1>4, <1>13 DEF Codes, Faults, Refused, Effects
  <2> QED  BY <1>1, <1>2, <1>6, <1>12, <1>14, <2>1 DEF CallType, Labels, Statuses
<1>9. CallOK(h)'
  <2>1. c \in Codes \ {"none", "ErrOpenState", "ErrTooManyRequests"}
    BY <1>4 DEF Codes, Faults, Refused
  <2>2. c \notin Uncertain \union {"OK"} => e = "none"
    BY <1>13 DEF Uncertain, Faults
  <2>3. /\ pc'[h] = "return" /\ code'[h] = c /\ effect'[h] = e /\ req'[h] = r
        /\ c = "OK" => user'[h] = UserOf(r)
    BY <1>2, <1>6, <1>12, <1>14
  <2>4. c = "OK" => Settled(h)' /\ (user[h] = UserOf(req[h]))'
    BY <1>13, <2>3 DEF Settled, UserOf, Backend
  <2> HIDE DEF r
  <2> QED  BY <2>1, <2>2, <2>3, <2>4 DEF CallOK, CallInv
<1>10. BreakerInv' /\ TripsWarranted'
  BY <1>6, <1>7, BreakerKept DEF InFlight
<1>11. TypeOK'
  BY <1>6, <1>7, <1>8, TypeKept
<1> QED  BY <1>7, <1>9, <1>10, <1>11, CallsKept

(* A lost answer leaves open what the method has done.                     *)
LEMMA CallLostStep ==
  ASSUME IInv, NEW h \in Handlers, CallLost(h)
  PROVE  IInv'
<1> USE DEF IInv, TypeOK
<1>1. PICK c \in {"Unavailable", "Canceled"} : code' = [code EXCEPT ![h] = c]
  BY DEF CallLost
<1>2. /\ pc' = [pc EXCEPT ![h] = "return"] /\ InFlight(h)
      /\ UNCHANGED <<backend, breaker, calm, req, user, effect, status, since, faults>>
  BY DEF CallLost, Goto, InFlight
<1>3. Untouched(h)
  BY <1>1, <1>2 DEF Untouched
<1>4. c \in Codes \ {"none", "OK", "ErrOpenState", "ErrTooManyRequests"} /\ c \in Uncertain
  BY DEF Codes, Faults, Uncertain
<1>5. CallType(h)'
  BY <1>1, <1>2, <1>4 DEF CallType, Labels, Statuses, InFlight
<1>6. CallOK(h)'
  <2>1. pc'[h] = "return" /\ code'[h] = c
    BY <1>1, <1>2
  <2> QED  BY <1>4, <2>1 DEF CallOK, CallInv
<1>7. BreakerInv' /\ TripsWarranted'
  BY <1>2, <1>3, BreakerKept DEF InFlight
<1>8. TypeOK'
  BY <1>2, <1>3, <1>5, TypeKept
<1> QED  BY <1>3, <1>6, <1>7, <1>8, CallsKept

(* The fifth failure in a row that opens the breaker is at least the fifth *)
(* fault among the calls it let through.                                   *)
LEMMA ReturnStep ==
  ASSUME IInv, NEW h \in Handlers, Return(h)
  PROVE  IInv'
<1> USE DEF IInv, TypeOK
<1> DEFINE b == CurrentState
           ok == IsSuccessful(code[h])
           closes == breaker'.state = "closed" /\ breaker.state # "closed"
<1>1. /\ b \in BreakerType
      /\ \/ b = breaker
         \/ b.state = "half-open" /\ b.current = {} /\ b.requests = 0 /\ breaker.state = "open"
  BY CurrentStateFacts
<1>2. /\ pc[h] = "return" /\ pc' = [pc EXCEPT ![h] = "answered"]
      /\ status' = [status EXCEPT ![h] = HttpStatus(req[h], code[h])]
      /\ breaker' = Count(b, h, ok)
      /\ UNCHANGED <<calm, req, user, effect, code>>
      /\ closes => since' = {} /\ faults' = 0
      /\ ~closes =>
           /\ since' = since \ {h}
           /\ faults' = IF h \in since /\ code[h] \in Faults /\ faults < 5 THEN faults + 1 ELSE faults
  BY DEF Return, Answer, Goto
<1>3. code[h] \in Codes \ {"none", "ErrOpenState", "ErrTooManyRequests"}
  BY <1>2 DEF CallInv
<1>14. ok \in BOOLEAN
  BY DEF IsSuccessful
<1>4. ~ok <=> code[h] \in Faults
  BY <1>3 DEF IsSuccessful, Codes, Faults
<1> HIDE DEF ok
<1>5. b.state = "open" => b.current = {}
  BY <1>1 DEF BreakerInv
<1> HIDE DEF b
<1>6. Count(b, h, ok) \in BreakerType /\ Count(b, h, ok).current \subseteq b.current \ {h}
  BY <1>1, <1>5, <1>14, CountFacts
<1>7. \/ h \notin b.current /\ breaker' = b
      \/ h \in b.current /\ ok /\ breaker'.state = "closed" /\ breaker'.failures = 0
      \/ /\ h \in b.current /\ ~ok
         /\ breaker'.state = "open" /\ breaker'.current = {}
         /\ b.state = "half-open" \/ b.failures = 4
      \/ /\ h \in b.current /\ ~ok
         /\ breaker'.state = "closed" /\ b.state = "closed"
         /\ breaker'.failures = b.failures + 1
  BY <1>1, <1>2, <1>5, <1>14, CountFacts
<1>8. breaker' \in BreakerType /\ breaker'.current \subseteq b.current \ {h}
  BY <1>2, <1>6
<1>9. Untouched(h)
  BY <1>2 DEF Untouched, Return
<1>10. CallType(h)' /\ CallOK(h)'
  <2> DEFINE c == code[h]
             s == HttpStatus(req[h], code[h])
  <2>7. \/ c = "OK" /\ s \in {200, 201}
        \/ c \in Refused /\ s \in {400, 401, 409, 429}
        \/ s \in {500, 503}
    BY <1>3, HttpStatusFacts
  <2> HIDE DEF s, c
  <2>1. s \in Statuses
    BY <2>7 DEF Statuses
  <2>2. status \in [Handlers -> Statuses]
    BY DEF Statuses
  <2>3. status' \in [Handlers -> Statuses] /\ status'[h] = s
    BY <1>2, <2>1, <2>2 DEF s
  <2>4. CallType(h)'
    BY <1>2, <2>3 DEF CallType, Labels
  <2>5. (s < 300 => c = "OK") /\ (s \in 400..499 => c \notin Uncertain \union {"OK"})
    <3>1. CASE c = "OK" /\ s \in {200, 201}
      <4>1. s \notin 400..499  BY <3>1
      <4> QED  BY <3>1, <4>1
    <3>2. CASE c \in Refused /\ s \in {400, 401, 409, 429}
      <4>1. ~(s < 300)  BY <3>2
      <4> QED  BY <3>2, <4>1 DEF Faults, Uncertain, Refused
    <3>3. CASE s \in {500, 503}
      <4>1. ~(s < 300) /\ s \notin 400..499  BY <3>3
      <4> QED  BY <4>1
    <3> QED  BY <2>7, <3>1, <3>2, <3>3
  <2>6. CallOK(h)'
    <3>1. pc'[h] = "answered" /\ UNCHANGED <<effect, user, req>>
      BY <1>2
    <3>2. c = "OK" => Settled(h) /\ user[h] = UserOf(req[h])
      BY <1>2 DEF CallInv, c
    <3>3. c \notin Uncertain \union {"OK"} => effect[h] = "none"
      BY <1>2 DEF CallInv, c
    <3> QED  BY <2>3, <2>5, <3>1, <3>2, <3>3 DEF CallOK, CallInv, UserOf, Settled
  <2> QED  BY <2>4, <2>6
<1>11. since' \subseteq Handlers /\ faults' \in 0..5 /\ calm' \in BOOLEAN
  BY <1>2
<1>12. BreakerInv' /\ TripsWarranted'
  <2>1. breaker'.current \subseteq {g \in Handlers : InFlight(g)'}
    <3>1. b.current \subseteq {g \in Handlers : InFlight(g)}
      BY <1>1 DEF BreakerInv
    <3> QED  BY <1>8, <1>9, <3>1 DEF Untouched, InFlight
  <2>2. CASE b # breaker
    BY <1>1, <1>2, <1>7, <2>1, <2>2 DEF BreakerInv, TripsWarranted
  <2>3. CASE b = breaker /\ h \notin b.current
    <3>1. breaker' = breaker /\ ~closes
      BY <1>7, <2>3
    <3>2. since' = since \ {h} /\ faults <= faults' /\ (faults = 5 => faults' = 5)
      BY <1>2, <3>1
    <3>3. TripsWarranted'
      BY <3>1, <3>2 DEF TripsWarranted
    <3>4. breaker.state = "closed" => breaker.current \subseteq since' /\ breaker.failures <= faults'
      <4>1. breaker.failures \in 0..4 /\ faults' \in 0..5
        BY <1>11 DEF BreakerType
      <4> QED  BY <2>3, <3>2, <4>1 DEF BreakerInv
    <3> QED  BY <2>1, <3>1, <3>3, <3>4 DEF BreakerInv
  <2>4. CASE b = breaker /\ h \in b.current /\ breaker.state = "half-open"
    <3>1. breaker'.current = {}
      BY <1>8, <2>4 DEF BreakerInv
    <3>2. CASE ok
      <4>1. breaker'.state = "closed" /\ breaker'.failures = 0 /\ faults' = 0
        BY <1>2, <1>7, <2>4, <3>2
      <4> QED  BY <3>1, <4>1 DEF BreakerInv, TripsWarranted
    <3>3. CASE ~ok
      BY <1>2, <1>7, <2>1, <2>4, <3>1, <3>3 DEF BreakerInv, TripsWarranted
    <3> QED  BY <3>2, <3>3
  <2>5. CASE b = breaker /\ h \in b.current /\ breaker.state = "closed"
    <3>1. h \in since /\ breaker.failures <= faults /\ breaker.failures \in 0..4 /\ ~closes
      BY <2>5 DEF BreakerInv, BreakerType
    <3>2. breaker'.current \subseteq since' /\ faults <= faults'
      BY <1>2, <1>8, <2>5, <3>1 DEF BreakerInv
    <3>3. CASE ok
      BY <1>7, <2>1, <2>5, <3>2, <3>3, <1>11 DEF BreakerInv, TripsWarranted
    <3>4. CASE ~ok
      <4>1. faults' = IF faults < 5 THEN faults + 1 ELSE faults
        BY <1>2, <1>4, <3>1, <3>4
      <4>2. CASE breaker'.state = "open"
        BY <1>7, <1>8, <2>1, <2>5, <3>1, <3>4, <4>1, <4>2 DEF BreakerInv, TripsWarranted
      <4>3. CASE breaker'.state = "closed"
        BY <1>7, <1>8, <2>1, <2>5, <3>1, <3>2, <3>4, <4>1, <4>3 DEF BreakerInv, TripsWarranted
      <4> QED  BY <1>7, <2>5, <3>4, <4>2, <4>3
    <3> QED  BY <3>3, <3>4
  <2>6. b.state \in {"closed", "half-open", "open"}
    BY <1>1 DEF BreakerType
  <2> QED  BY <1>5, <2>2, <2>3, <2>4, <2>5, <2>6
<1>13. TypeOK'
  BY <1>8, <1>9, <1>10, <1>11, TypeKept
<1> QED  BY <1>9, <1>10, <1>12, <1>13, CallsKept

(* The end of a call leaves nothing behind.                                *)
LEMMA FinishStep ==
  ASSUME IInv, NEW h \in Handlers, Finish(h)
  PROVE  IInv'
<1> USE DEF IInv, TypeOK
<1>1. /\ pc'[h] = "idle" /\ code'[h] = "none" /\ effect'[h] = "none"
      /\ UNCHANGED <<breaker, since, faults, calm>>
  <2>1. pc'[h] = "idle"  BY DEF Finish, Goto
  <2>3. code'[h] = "none"
    <3>1. code' = [code EXCEPT ![h] = "none"] /\ code \in [Handlers -> Codes]  BY DEF Finish
    <3> QED  BY <3>1
  <2>2. effect'[h] = "none"
    <3>1. effect' = [effect EXCEPT ![h] = "none"] /\ effect \in [Handlers -> Effects]  BY DEF Finish
    <3> QED  BY <3>1
  <2> QED  BY <2>1, <2>2, <2>3 DEF Finish
<1>2. Untouched(h)
  <2> SUFFICES ASSUME NEW g \in Handlers \ {h}
               PROVE  /\ pc'[g] = pc[g] /\ req'[g] = req[g] /\ user'[g] = user[g]
                      /\ effect'[g] = effect[g] /\ code'[g] = code[g] /\ status'[g] = status[g]
    BY DEF Untouched, Finish
  <2>1. pc'[g] = pc[g]  BY DEF Finish, Goto
  <2>2. req'[g] = req[g]  BY DEF Finish
  <2>3. user'[g] = user[g]  BY DEF Finish
  <2>4. effect'[g] = effect[g]  BY DEF Finish
  <2>5. code'[g] = code[g]  BY DEF Finish
  <2>6. status'[g] = status[g]  BY DEF Finish
  <2> QED  BY <2>1, <2>2, <2>3, <2>4, <2>5, <2>6
<1>3. CallType(h)'
  <2>1. pc' \in [Handlers -> Labels] /\ status' \in [Handlers -> Statuses]
    BY DEF Finish, Goto, Labels, Statuses
  <2>2. code' \in [Handlers -> Codes]
    BY DEF Finish, Codes
  <2>3. effect' \in [Handlers -> Effects]
    BY DEF Finish, Effects
  <2>4. /\ user' \in [Handlers -> Users \union {NoUser}]
        /\ req' \in [Handlers -> Requests \union {NoRequest}] /\ req'[h] = NoRequest
    BY DEF Finish
  <2> QED  BY <1>1, <2>1, <2>2, <2>3, <2>4 DEF CallType
<1>4. CallOK(h)'
  BY <1>1 DEF CallOK, CallInv
<1>5. BreakerInv' /\ TripsWarranted'
  BY <1>1, <1>2, BreakerKept DEF Finish, InFlight
<1>6. TypeOK'
  BY <1>1, <1>2, <1>3, TypeKept
<1> QED  BY <1>2, <1>4, <1>5, <1>6, CallsKept

(* Calls that nothing happens to remain in order.                          *)
LEMMA CallsStill ==
  ASSUME IInv, UNCHANGED <<pc, req, user, effect, code, status>>
  PROVE  (\A h \in Handlers : CallInv(h))' /\ StatusIsTrue'
<1>1. ASSUME NEW h \in Handlers PROVE CallOK(h)'
  <2>1. CallOK(h)
    BY DEF CallOK, IInv, StatusIsTrue
  <2> QED  BY <2>1 DEF CallOK, CallInv, UserOf, Settled
<1> QED  BY <1>1 DEF CallOK, StatusIsTrue

(* Time and outages pass the calls by.                                     *)
LEMMA EnvironmentStep ==
  ASSUME IInv, Timeout \/ Outage
  PROVE  IInv'
<1> USE DEF IInv, TypeOK
<1>1. UNCHANGED <<backend, callVars, since, faults>> /\ calm' \in BOOLEAN
  BY DEF Timeout, Outage
<1>2. /\ breaker' \in BreakerType
      /\ breaker'.state = breaker.state /\ breaker'.current = breaker.current
      /\ breaker'.failures = breaker.failures /\ breaker'.requests = breaker.requests
  <2>1. CASE Timeout
    <3>1. breaker' = [state |-> breaker.state, elapsed |-> TRUE, current |-> breaker.current,
                      requests |-> breaker.requests, successes |-> breaker.successes,
                      failures |-> breaker.failures]
      BY <2>1 DEF Timeout, BreakerType
    <3> QED  BY <3>1 DEF BreakerType
  <2>2. CASE Outage
    BY <2>2 DEF Outage
  <2> QED  BY <2>1, <2>2
<1>3. TypeOK'
  BY <1>1, <1>2 DEF callVars
<1>4. BreakerInv' /\ TripsWarranted'
  BY <1>1, <1>2 DEF callVars, BreakerInv, InFlight, TripsWarranted
<1>5. (\A h \in Handlers : CallInv(h))' /\ StatusIsTrue'
  BY <1>1, CallsStill DEF callVars
<1> QED  BY <1>3, <1>4, <1>5

-------------------------------------------------------------------------------
(* Theorems *)

(* Breaker, history and calls agree in every reachable state.              *)
THEOREM GatewayInvariance == Spec => []IInv
<1>1. Init => IInv
  <2> SUFFICES ASSUME Init PROVE IInv
    OBVIOUS
  <2>4. /\ breaker \in BreakerType /\ breaker.state = "closed"
        /\ breaker.current = {} /\ breaker.failures = 0
    BY SetStateFacts DEF Init
  <2>1. TypeOK
    <3>1. code \in [Handlers -> Codes]
      BY DEF Init, Codes
    <3>2. \A h \in Handlers : pc[h] = "idle" /\ req[h] = NoRequest
      BY DEF Init
    <3>8. backend \in {"auth", "billing"}
      BY DEF Init
    <3>6. since = {} /\ faults = 0 /\ calm
      BY DEF Init
    <3>7. calm \in BOOLEAN
      BY DEF Init
    <3>3. since \subseteq Handlers /\ faults \in 0..5 /\ calm \in BOOLEAN
      BY <3>6, <3>7
    <3>4. /\ pc \in [Handlers -> {"idle", "execute", "call", "return", "answered"}]
          /\ status \in [Handlers -> {0, 200, 201, 400, 401, 409, 429, 500, 503}]
      BY DEF Init
    <3>5. /\ req \in [Handlers -> Requests \union {NoRequest}]
          /\ user \in [Handlers -> Users \union {NoUser}]
          /\ effect \in [Handlers -> Effects]
      BY DEF Init, Effects
    <3> QED  BY <2>4, <3>1, <3>2, <3>3, <3>4, <3>5, <3>8 DEF TypeOK
  <2>2. BreakerInv /\ TripsWarranted
    <3>1. since = {} /\ faults = 0
      BY DEF Init
    <3> QED  BY <2>4, <3>1 DEF BreakerInv, TripsWarranted
  <2>3. (\A h \in Handlers : CallInv(h)) /\ StatusIsTrue
    BY DEF Init, CallInv, StatusIsTrue
  <2> QED  BY <2>1, <2>2, <2>3 DEF IInv
<1>2. IInv /\ [Next]_vars => IInv'
  <2> SUFFICES ASSUME IInv, [Next]_vars PROVE IInv'
    OBVIOUS
  <2>1. ASSUME NEW h \in Handlers, Progress(h) \/ CallLost(h) PROVE IInv'
    BY <2>1, ReceiveStep, ExecuteStep, ServeStep, ReturnStep, FinishStep, CallLostStep DEF Progress
  <2>2. CASE Timeout \/ Outage
    BY <2>2, EnvironmentStep
  <2>3. CASE UNCHANGED vars
    <3>1. UNCHANGED <<backend, breaker, calm, since, faults>> /\ UNCHANGED <<pc, req, user, effect, code, status>>
      BY <2>3 DEF vars, callVars
    <3>2. TypeOK'
      BY <3>1 DEF IInv, TypeOK
    <3>3. BreakerInv' /\ TripsWarranted'
      BY <3>1 DEF IInv, BreakerInv, InFlight, TripsWarranted
    <3> QED  BY <3>1, <3>2, <3>3, CallsStill DEF IInv
  <2> QED  BY <2>1, <2>2, <2>3 DEF Next
<1> QED  BY <1>1, <1>2, PTL DEF Spec

(* The variables of Gateway have their types.                              *)
THEOREM GatewayTypeCorrect == Spec => []TypeOK
<1>1. IInv => TypeOK  BY DEF IInv
<1> QED  BY <1>1, GatewayInvariance, PTL

(* However many calls there are, a half-open breaker lets one through.     *)
THEOREM OneProbeCorrect == Spec => []OneProbe
<1>1. IInv => OneProbe  BY DEF IInv, BreakerInv, OneProbe
<1> QED  BY <1>1, GatewayInvariance, PTL

(* The breaker leaves its closed state only after five faults of calls it  *)
(* has let through since it was closed.                                    *)
THEOREM TripsWarrantedCorrect == Spec => []TripsWarranted
<1>1. IInv => TripsWarranted  BY DEF IInv
<1> QED  BY <1>1, GatewayInvariance, PTL

(* What a client concludes from a status below 500 is true.                *)
THEOREM StatusIsTrueCorrect == Spec => []StatusIsTrue
<1>1. IInv => StatusIsTrue  BY DEF IInv
<1> QED  BY <1>1, GatewayInvariance, PTL
===============================================================================
