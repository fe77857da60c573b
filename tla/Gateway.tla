-------------------------------- MODULE Gateway --------------------------------
(***************************************************************************)
(* HTTP calls through the gateway to one of the backends: AuthMiddleware   *)
(* (gateway/middleware/jwt.go), the handlers (gateway/handlers), the       *)
(* circuit breaker all calls to the backend share (gateway/lib/breaker),   *)
(* the gRPC method behind it and the status the client gets.               *)
(*                                                                         *)
(* Each backend has a breaker of its own and its own connection; calls to  *)
(* the two share nothing here, so the module follows those to one of them. *)
(*                                                                         *)
(* The breaker is gobreaker's.  Its generation number serves to tell calls *)
(* it let through in an earlier state: here it keeps the set of calls that *)
(* are of its present generation, which is all the number is compared for. *)
(***************************************************************************)
EXTENDS Naturals, FiniteSets

CONSTANTS
  Users,       \* user ids
  HasAccount,  \* those with a row in table accounts
  NoUser,      \* the subject of a missing or invalid token
  NotUuid,     \* a subject that is no UUID
  Requests,    \* what clients send
  NoRequest,
  Handlers     \* goroutines of the HTTP server

Public == {"register", "login", "refresh"}
Protected == {"me", "deposit", "withdraw"}

(* The backend behind a route. *)
Backend(route) == IF route \in {"deposit", "withdraw"} THEN "billing" ELSE "auth"

(* What a client may send as body: something else than JSON, a message     *)
(* longer than the backend receives, or a value that the backend may fail  *)
(* on though it works, as it does on a text with a null byte or a deposit  *)
(* that exceeds the largest balance.                                       *)
Bodies == {"ok", "malformed", "oversize", "unfit"}

(* token: the subject of the bearer token                                  *)
RequestType ==
  [route : Public \union Protected, token : Users \union {NoUser, NotUuid}, body : Bodies]

ASSUME GatewayAssumption ==
  /\ HasAccount \subseteq Users
  /\ NoUser \notin Users /\ NotUuid \notin Users /\ NoUser # NotUuid
  /\ Requests \subseteq RequestType
  /\ \A r \in Requests : r.route = "me" => r.body = "ok"  \* its body is not read
  /\ NoRequest \notin RequestType
  /\ IsFiniteSet(Handlers)

VARIABLES
  backend,  \* the backend in question
  breaker,  \* its circuit breaker
  calm,     \* backend and network work and clients wait for their answers
  pc, req,  \* [Handlers -> ...]: what a goroutine does, and for which request
  user,     \* the user id in the context of the gRPC method
  effect,   \* the method did what it was asked to do, nothing, or nothing
            \* because the request's idempotency key is booked already
  code,     \* the outcome of cb.Execute
  status,   \* the HTTP status of the answer
  (* history of the time since the breaker was last closed *)
  since,    \* calls let through since
  faults    \* how many of them failed, counted up to 5

callVars == <<pc, req, user, effect, code, status>>
vars == <<backend, breaker, calm, callVars, since, faults>>

Goto(h, label) == pc' = [pc EXCEPT ![h] = label]

-------------------------------------------------------------------------------
(* The circuit breaker *)

MutantMaxRequests == 2

MaxRequests == 1

ReadyToTrip(failures) == failures >= 5

(* Mutant: refusals of the backend count as failures. *)
MutantIsSuccessful(c) == c = "OK"

IsSuccessful(c) ==
  c \in {"OK", "InvalidArgument", "NotFound", "AlreadyExists", "Unauthenticated",
         "PermissionDenied", "FailedPrecondition"}

(* setState: a new generation with cleared counts.  elapsed says whether   *)
(* the timeout of the open state is over.  Requests matter, and are        *)
(* counted, in the half-open state only.                                   *)
SetState(s) ==
  [state |-> s, elapsed |-> FALSE, current |-> {}, requests |-> 0, successes |-> 0, failures |-> 0]

CurrentState == IF breaker.state = "open" /\ breaker.elapsed THEN SetState("half-open") ELSE breaker

OnRequest(b, h) ==
  [b EXCEPT !.current = @ \union {h}, !.requests = IF b.state = "half-open" THEN @ + 1 ELSE @]

OnSuccess(b) ==
  IF b.state = "half-open" /\ b.successes + 1 >= MaxRequests
  THEN SetState("closed")
  ELSE [b EXCEPT !.successes = IF b.state = "half-open" THEN @ + 1 ELSE @, !.failures = 0]

OnFailure(b) ==
  IF b.state = "half-open" \/ ReadyToTrip(b.failures + 1)
  THEN SetState("open")
  ELSE [b EXCEPT !.failures = @ + 1, !.successes = 0]

(* Mutant: the outcome counts whenever the call began. *)
MutantCount(b, h, success) == IF success THEN OnSuccess(b) ELSE OnFailure(b)

(* The outcome of a call of an earlier generation changes nothing.         *)
Count(b, h, success) ==
  LET ended == [b EXCEPT !.current = @ \ {h}]
  IN  IF h \notin b.current THEN b ELSE IF success THEN OnSuccess(ended) ELSE OnFailure(ended)

Timeout ==
  /\ breaker.state = "open" /\ ~breaker.elapsed
  /\ breaker' = [breaker EXCEPT !.elapsed = TRUE]
  /\ UNCHANGED <<backend, calm, callVars, since, faults>>

-------------------------------------------------------------------------------
(* A call *)

(* Mutant: an error of the backend that says nothing is taken for success. *)
MutantHttpStatus(r, c) == IF c \in {"OK", "Internal"} THEN 200 ELSE 500

(* The handlers' answers and HandleGRPCError: errors of the breaker are no *)
(* gRPC status.                                                            *)
HttpStatus(r, c) ==
  CASE c = "OK" -> IF r.route = "register" THEN 201 ELSE 200
    [] c = "ErrOpenState" -> 503
    [] c \in {"InvalidArgument", "FailedPrecondition"} -> 400
    [] c = "Unauthenticated" -> 401
    [] c = "PermissionDenied" -> 403
    [] c = "NotFound" -> 404
    [] c = "AlreadyExists" -> 409
    [] c = "ResourceExhausted" -> 429
    [] c = "Unimplemented" -> 501
    [] c = "Unavailable" -> 503
    [] c = "DeadlineExceeded" -> 504
    [] OTHER -> 500

Answer(h, s) == Goto(h, "answered") /\ status' = [status EXCEPT ![h] = s]

(* ValidateToken: the subject of a token that is signed and has not        *)
(* expired goes on to the backend as x-user-id.                            *)
Unauthorized(r) == r.route \in Protected /\ r.token = NoUser

Undecodable(r) == r.body = "malformed"

Receive(h, r) ==
  /\ pc[h] = "idle"
  /\ Backend(r.route) = backend
  /\ req' = [req EXCEPT ![h] = r]
  /\ IF Unauthorized(r) THEN Answer(h, 401)
     ELSE IF Undecodable(r) THEN Answer(h, 400)
     ELSE Goto(h, "execute") /\ UNCHANGED status
  /\ UNCHANGED <<backend, breaker, calm, user, effect, code, since, faults>>

(* beforeRequest *)
Execute(h) ==
  LET b == CurrentState
      refused == \/ b.state = "open"
                 \/ b.state = "half-open" /\ b.requests >= MaxRequests
      why == IF b.state = "open" THEN "ErrOpenState" ELSE "ErrTooManyRequests"
  IN
  /\ pc[h] = "execute"
  /\ IF refused
     THEN /\ breaker' = b
          /\ code' = [code EXCEPT ![h] = why]
          /\ Answer(h, HttpStatus(req[h], why))
          /\ UNCHANGED since
     ELSE /\ breaker' = OnRequest(b, h)
          /\ Goto(h, "call")
          /\ since' = IF b.state = "closed" THEN since \union {h} ELSE since
          /\ UNCHANGED <<code, status>>
  /\ UNCHANGED <<backend, calm, req, user, effect, faults>>

(* AuthInterceptor: public methods go without a user, the others get the   *)
(* one of the metadata, or nowhere if it is no UUID.                       *)
UserOf(r) == IF r.route \in Protected THEN r.token ELSE NoUser

Intercepted(r) == UserOf(r) = NotUuid

(* The statuses with which the methods refuse a call.  What login and      *)
(* refresh refuse is taken to be ErrInvalidInput of package auth/services. *)
Refusals(r) ==
  CASE r.route = "register" -> {"AlreadyExists", "InvalidArgument"}
    [] r.route = "withdraw" -> {"InvalidArgument", "FailedPrecondition"}
    [] r.route \in {"login", "refresh", "deposit"} -> {"InvalidArgument"}
    [] r.route = "me" -> {}

NoAccount(r) == r.route = "withdraw" /\ r.token \notin HasAccount

(* What the method may answer.  A message that is too long is not even     *)
(* received, and who has no account gets no further than the amount.       *)
Answers(r) ==
  IF r.body = "oversize" THEN {"ResourceExhausted"}
  ELSE IF Intercepted(r) THEN {"Unauthenticated"}
  ELSE IF NoAccount(r) THEN {"InvalidArgument", "Internal"}
  ELSE {"OK", "Internal"} \union Refusals(r)

(* Requests on which a backend that works may fail                         *)
Doomed(r) == NoAccount(r) \/ r.body \in {"oversize", "unfit"}

(* Mutant: billing takes any failure to insert for a key that is booked.   *)
MutantOutcomes(r, c) ==
  CASE c = "OK" ->
         IF Backend(r.route) = "billing" THEN {"done", "booked before", "none"} ELSE {"done"}
    [] c = "Internal" -> IF NoAccount(r) THEN {"none"} ELSE {"done", "none"}
    [] OTHER -> {"none"}

(* What it has then done.  Billing answers OK also when another request    *)
(* has booked the key.  Internal may come after the effect, when the reply *)
(* to COMMIT is lost.                                                      *)
Outcomes(r, c) ==
  CASE c = "OK" -> IF Backend(r.route) = "billing" THEN {"done", "booked before"} ELSE {"done"}
    [] c = "Internal" -> IF NoAccount(r) THEN {"none"} ELSE {"done", "none"}
    [] OTHER -> {"none"}

(* The gRPC method runs.  It fails with Internal when something in the     *)
(* backend fails, and may do so for requests that are doomed.              *)
Serve(h) ==
  LET r == req[h] IN
  /\ pc[h] = "call"
  /\ user' = [user EXCEPT ![h] = IF Intercepted(r) \/ r.body = "oversize" THEN NoUser ELSE UserOf(r)]
  /\ \E c \in Answers(r) : \E e \in Outcomes(r, c) :
       /\ c = "Internal" => ~calm \/ (Doomed(r) /\ e = "none")
       /\ code' = [code EXCEPT ![h] = c]
       /\ effect' = [effect EXCEPT ![h] = e]
  /\ Goto(h, "return")
  /\ UNCHANGED <<backend, breaker, calm, req, status, since, faults>>

(* The call or its answer is lost, or the client hangs up, which cancels   *)
(* r.Context(): the method may have run or not.                            *)
CallLost(h) ==
  /\ ~calm
  /\ pc[h] \in {"call", "return"}
  /\ code[h] \notin {"Unavailable", "Canceled"}
  /\ \E c \in {"Unavailable", "Canceled"} : code' = [code EXCEPT ![h] = c]
  /\ Goto(h, "return")
  /\ UNCHANGED <<backend, breaker, calm, req, user, effect, status, since, faults>>

Faults == {"Internal", "ResourceExhausted", "Unavailable", "Canceled"}

(* afterRequest, and the end of the handler *)
Return(h) ==
  /\ pc[h] = "return"
  /\ breaker' = Count(CurrentState, h, IsSuccessful(code[h]))
  /\ IF breaker'.state = "closed" /\ breaker.state # "closed"
     THEN since' = {} /\ faults' = 0
     ELSE /\ since' = since \ {h}
          /\ faults' = IF h \in since /\ code[h] \in Faults /\ faults < 5 THEN faults + 1 ELSE faults
  /\ Answer(h, HttpStatus(req[h], code[h]))
  /\ UNCHANGED <<backend, calm, req, user, effect, code>>

(* The connection is served: the goroutine takes the next request.         *)
Finish(h) ==
  /\ pc[h] = "answered"
  /\ Goto(h, "idle")
  /\ req' = [req EXCEPT ![h] = NoRequest]
  /\ user' = [user EXCEPT ![h] = NoUser]
  /\ effect' = [effect EXCEPT ![h] = "none"]
  /\ code' = [code EXCEPT ![h] = "none"]
  /\ status' = [status EXCEPT ![h] = 0]
  /\ UNCHANGED <<backend, breaker, calm, since, faults>>

-------------------------------------------------------------------------------
(* The backend or the network fails, or a client gives up; and all that    *)
(* is over again.                                                          *)
Outage ==
  /\ calm' = ~calm
  /\ UNCHANGED <<backend, breaker, callVars, since, faults>>

Init ==
  /\ backend \in {"auth", "billing"}
  /\ breaker = SetState("closed")
  /\ calm = TRUE
  /\ pc = [h \in Handlers |-> "idle"]
  /\ req = [h \in Handlers |-> NoRequest]
  /\ user = [h \in Handlers |-> NoUser]
  /\ effect = [h \in Handlers |-> "none"]
  /\ code = [h \in Handlers |-> "none"]
  /\ status = [h \in Handlers |-> 0]
  /\ since = {}
  /\ faults = 0

Progress(h) ==
  \/ \E r \in Requests : Receive(h, r)
  \/ Execute(h)
  \/ Serve(h)
  \/ Return(h)
  \/ Finish(h)

Next ==
  \/ \E h \in Handlers : Progress(h) \/ CallLost(h)
  \/ Timeout
  \/ Outage

Spec == Init /\ [][Next]_vars

(* The clock runs.  Clients keep calling, not only with requests that are  *)
(* turned away at the door, and a backend that works answers, which the    *)
(* gateway, whose calls have no deadline, cannot enforce.                  *)
Fairness ==
  /\ WF_vars(Timeout)
  /\ \A h \in Handlers :
       /\ WF_vars(Progress(h))
       /\ SF_vars(\E r \in Requests : ~Unauthorized(r) /\ ~Undecodable(r) /\ Receive(h, r))

FairSpec == Spec /\ Fairness

-------------------------------------------------------------------------------
(* Properties *)

Codes ==
  {"none", "OK", "InvalidArgument", "AlreadyExists", "Unauthenticated", "FailedPrecondition",
   "ErrOpenState", "ErrTooManyRequests"} \union Faults

Effects == {"none", "done", "booked before"}

BreakerType ==
  [state : {"closed", "half-open", "open"}, elapsed : BOOLEAN, current : SUBSET Handlers,
   requests : 0..MaxRequests, successes : {0}, failures : 0..4]

(* Every variable has its type.                                            *)
TypeOK ==
  /\ backend \in {"auth", "billing"}
  /\ breaker \in BreakerType
  /\ calm \in BOOLEAN
  /\ pc \in [Handlers -> {"idle", "execute", "call", "return", "answered"}]
  /\ req \in [Handlers -> Requests \union {NoRequest}]
  /\ user \in [Handlers -> Users \union {NoUser}]
  /\ effect \in [Handlers -> Effects]
  /\ code \in [Handlers -> Codes]
  /\ status \in [Handlers -> {0, 200, 201, 400, 401, 409, 429, 500, 503}]
  /\ since \subseteq Handlers
  /\ faults \in 0..5
  /\ \A h \in Handlers : pc[h] = "idle" <=> req[h] = NoRequest

InFlight(h) == pc[h] \in {"call", "return"}

(* While the breaker is half-open at most one call that it has let through *)
(* in this state is under way, however many late answers, timeouts and     *)
(* calls meet; and while it refuses the others on account of this call,    *)
(* the call is under way and will decide: no probe is given up unnoticed.  *)
OneProbe ==
  breaker.state = "half-open" =>
    IF breaker.requests = 0
    THEN breaker.current = {}
    ELSE \E h \in Handlers : InFlight(h) /\ breaker.current = {h}

(* The breaker is not closed only after at least five faults among the     *)
(* calls it has let through since it was last closed: refusals and answers *)
(* to older calls never add up to it.                                      *)
TripsWarranted == breaker.state # "closed" => faults = 5

(* A request is settled when what it asked for was done, or its key booked *)
(* by another request, which only the routes of billing know.              *)
Settled(h) ==
  \/ effect[h] = "done"
  \/ effect[h] = "booked before" /\ Backend(req[h].route) = "billing"

(* What a client can conclude from a status: of a success, that the backend *)
(* settled it for the subject of its token; of a refusal, that nothing was *)
(* done.  A 5xx says nothing.                                              *)
StatusIsTrue ==
  \A h \in Handlers : pc[h] = "answered" =>
    /\ status[h] < 300 => Settled(h) /\ user[h] = UserOf(req[h])
    /\ status[h] \in 400..499 => effect[h] # "done"

(* The inductive invariant behind these properties (GatewayProofs).        *)

(* The breaker: calls of its generation are under way, in half-open state  *)
(* it counts the only one, and in closed state it has not counted more     *)
(* failures than there were faults.                                        *)
BreakerInv ==
  /\ breaker.current \subseteq {h \in Handlers : InFlight(h)}
  /\ breaker.state = "half-open" =>
       /\ \A g, h \in breaker.current : g = h
       /\ breaker.requests = 0 <=> breaker.current = {}
  /\ breaker.state = "open" => breaker.current = {}
  /\ breaker.state = "closed" => breaker.current \subseteq since /\ breaker.failures <= faults

(* Outcomes that leave open what the method has done                       *)
Uncertain == Faults \ {"ResourceExhausted"}

(* A call: what it has done so far agrees with its outcome.                *)
CallInv(h) ==
  /\ pc[h] \in {"idle", "execute", "call"} => code[h] = "none" /\ effect[h] = "none"
  /\ pc[h] = "return" =>
       /\ code[h] \in Codes \ {"none", "ErrOpenState", "ErrTooManyRequests"}
       /\ code[h] = "OK" => Settled(h) /\ user[h] = UserOf(req[h])
       /\ code[h] \notin Uncertain \union {"OK"} => effect[h] = "none"

(* Breaker, history and calls agree.                                       *)
IInv ==
  /\ TypeOK
  /\ BreakerInv
  /\ \A h \in Handlers : CallInv(h)
  /\ TripsWarranted
  /\ StatusIsTrue

(* When outages end, and requests on which a backend that works may fail   *)
(* do too, the breaker is some time closed and remains so.                 *)
Recovers ==
  <>[](calm /\ \A h \in Handlers : req[h] # NoRequest => ~Doomed(req[h]))
    => <>[](breaker.state = "closed")
===============================================================================
