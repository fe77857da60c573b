------------------------------ MODULE RateLimiter ------------------------------
(***************************************************************************)
(* The rate limiter of the gateway (gateway/middleware/limiter.go) and the *)
(* keys it keeps in Redis.  A key is made of r.RemoteAddr, which is IP and *)
(* port: one key for each connection of a client.                          *)
(*                                                                         *)
(* Calls with the same key can overlap: the handler of a connection that   *)
(* was closed may still run when its port is used again, and gateways      *)
(* share the Redis.  Each command to Redis is atomic and may fail, with or *)
(* without having been executed.  The client sends a command again whose   *)
(* answer it does not get (go-redis, Options.MaxRetries), so that a call   *)
(* which notices no failure may have been executed more than once.         *)
(***************************************************************************)
EXTENDS Integers, FiniteSets, FiniteSetsExt

CONSTANTS
  Handlers,     \* calls in the gateway
  Connections,  \* values of r.RemoteAddr
  NoConnection,
  Ip,           \* [Connections -> IP address]
  Limit,        \* 50
  Window,       \* a minute, in ticks of the clock
  MaxRetries,   \* 3: how often the client repeats a command
  MaxCount      \* bound: a key counts no further, all beyond Limit is alike

ASSUME LimiterAssumption ==
  /\ NoConnection \notin Connections
  /\ Limit \in Nat /\ MaxCount \in Nat /\ MaxCount > Limit
  /\ Window \in Nat \ {0}
  /\ MaxRetries \in Nat
  /\ IsFiniteSet(Handlers)

VARIABLES
  counter,   \* [Connections -> value of the key], 0 for no key
  ttl,       \* [Connections -> ticks the key has to live], 0 for ever
  pc, conn,  \* [Handlers -> ...]
  val,       \* what INCR returned
  tries,     \* how often the present command has been repeated
  (* history *)
  counted,   \* calls that the present key has counted and that go on
  admitted,  \* [Connections -> counted calls let through]
  unlimited  \* keys whose Expire was lost, or is never sent since the answer
             \* to the INCR that made the key was

redis == <<counter, ttl>>
calls == <<pc, conn, val, tries>>
history == <<counted, admitted, unlimited>>
vars == <<redis, calls, history>>

Goto(h, label) == pc' = [pc EXCEPT ![h] = label]

-------------------------------------------------------------------------------
Receive(h, c) ==
  /\ pc[h] = "idle"
  /\ conn' = [conn EXCEPT ![h] = c]
  /\ Goto(h, "incr")
  /\ UNCHANGED <<redis, val, tries, history>>

(* The value of the key that INCR returns.                                 *)
Incremented(c) == IF counter[c] < MaxCount THEN counter[c] + 1 ELSE MaxCount

(* INCR is executed and answered.  The call that is told so that it made   *)
(* the key also sets its time to live.                                     *)
IncrAnswered(h, answer, first) ==
  LET c == conn[h] IN
  /\ pc[h] = "incr"
  /\ counter' = [counter EXCEPT ![c] = Incremented(c)]
  /\ val' = [val EXCEPT ![h] = answer]
  /\ tries' = [tries EXCEPT ![h] = 0]
  /\ counted' = counted \union {h}
  /\ Goto(h, IF first THEN "expire" ELSE "decide")
  /\ UNCHANGED <<ttl, conn, admitted, unlimited>>

(* Mutants: the Expire is sent by the second call of a window; by all; the *)
(* call goes by the value before its own.                                  *)
MutantIncrLate(h) == IncrAnswered(h, Incremented(conn[h]), Incremented(conn[h]) = 2)

MutantIncrSliding(h) == IncrAnswered(h, Incremented(conn[h]), TRUE)

MutantIncrBefore(h) == IncrAnswered(h, counter[conn[h]], counter[conn[h]] = 0)

Incr(h) == IncrAnswered(h, Incremented(conn[h]), Incremented(conn[h]) = 1)

(* INCR is executed, its answer is lost, and the client sends it again:    *)
(* should this have made the key, no call will be told so.                 *)
IncrRepeated(h) ==
  LET c == conn[h] IN
  /\ pc[h] = "incr" /\ tries[h] < MaxRetries
  /\ counter' = [counter EXCEPT ![c] = Incremented(c)]
  /\ tries' = [tries EXCEPT ![h] = @ + 1]
  /\ unlimited' = IF counter[c] = 0 THEN unlimited \union {c} ELSE unlimited
  /\ UNCHANGED <<ttl, pc, conn, val, counted, admitted>>

Leave(h) ==
  /\ Goto(h, "idle")
  /\ conn' = [conn EXCEPT ![h] = NoConnection]
  /\ val' = [val EXCEPT ![h] = 0]
  /\ tries' = [tries EXCEPT ![h] = 0]
  /\ counted' = counted \ {h}

(* Without an answer the call is let through; the key may have been        *)
(* incremented, and made, all the same.                                    *)
IncrFails(h) ==
  LET c == conn[h] IN
  /\ pc[h] = "incr"
  /\ \/ UNCHANGED <<counter, unlimited>>
     \/ /\ counter' = [counter EXCEPT ![c] = Incremented(c)]
        /\ unlimited' = IF counter[c] = 0 THEN unlimited \union {c} ELSE unlimited
  /\ Leave(h)
  /\ UNCHANGED <<ttl, admitted>>

(* EXPIRE is executed; of a key that is gone it does nothing.              *)
SetTtl(c) ==
  /\ ttl' = [ttl EXCEPT ![c] = IF counter[c] > 0 THEN Window ELSE 0]
  /\ unlimited' = unlimited \ {c}

Expire(h) ==
  /\ pc[h] = "expire"
  /\ SetTtl(conn[h])
  /\ tries' = [tries EXCEPT ![h] = 0]
  /\ Goto(h, "decide")
  /\ UNCHANGED <<counter, conn, val, counted, admitted>>

(* It is executed, its answer is lost, and the client sends it again.      *)
ExpireRepeated(h) ==
  /\ pc[h] = "expire" /\ tries[h] < MaxRetries
  /\ SetTtl(conn[h])
  /\ tries' = [tries EXCEPT ![h] = @ + 1]
  /\ UNCHANGED <<counter, pc, conn, val, counted, admitted>>

(* Its error is not looked at.                                             *)
ExpireFails(h) ==
  LET c == conn[h] IN
  /\ pc[h] = "expire"
  /\ unlimited' = IF h \in counted /\ ttl[c] = 0 THEN unlimited \union {c} ELSE unlimited
  /\ tries' = [tries EXCEPT ![h] = 0]
  /\ Goto(h, "decide")
  /\ UNCHANGED <<redis, conn, val, counted, admitted>>

(* Mutant: without the return a refused call goes on to the handler. *)
MutantDecide(h) ==
  /\ pc[h] = "decide"
  /\ admitted' = IF h \in counted THEN [admitted EXCEPT ![conn[h]] = @ + 1] ELSE admitted
  /\ Leave(h)
  /\ UNCHANGED <<redis, unlimited>>

Decide(h) ==
  /\ pc[h] = "decide"
  /\ admitted' = IF val[h] <= Limit /\ h \in counted
                 THEN [admitted EXCEPT ![conn[h]] = @ + 1] ELSE admitted
  /\ Leave(h)
  /\ UNCHANGED <<redis, unlimited>>

-------------------------------------------------------------------------------
(* Redis *)

Delete(C) ==
  /\ counter' = [c \in Connections |-> IF c \in C THEN 0 ELSE counter[c]]
  /\ counted' = {h \in counted : conn[h] \notin C}
  /\ admitted' = [c \in Connections |-> IF c \in C THEN 0 ELSE admitted[c]]
  /\ unlimited' = unlimited \ C

(* Time passes; keys whose time is over go.                                *)
Tick ==
  /\ \E c \in Connections : ttl[c] > 0
  /\ ttl' = [c \in Connections |-> IF ttl[c] > 0 THEN ttl[c] - 1 ELSE 0]
  /\ Delete({c \in Connections : ttl[c] = 1})
  /\ UNCHANGED calls

(* Redis restarts without its data.  A restart from a snapshot that has a  *)
(* key without its time to live is not modelled.                           *)
RedisRestarts ==
  /\ \E c \in Connections : counter[c] > 0
  /\ ttl' = [c \in Connections |-> 0]
  /\ Delete(Connections)
  /\ UNCHANGED calls

-------------------------------------------------------------------------------
Init ==
  /\ counter = [c \in Connections |-> 0]
  /\ ttl = [c \in Connections |-> 0]
  /\ pc = [h \in Handlers |-> "idle"]
  /\ conn = [h \in Handlers |-> NoConnection]
  /\ val = [h \in Handlers |-> 0]
  /\ tries = [h \in Handlers |-> 0]
  /\ counted = {}
  /\ admitted = [c \in Connections |-> 0]
  /\ unlimited = {}

Progress(h) == Incr(h) \/ Expire(h) \/ Decide(h)

Next ==
  \/ \E h \in Handlers : \/ \E c \in Connections : Receive(h, c)
                         \/ Progress(h)
                         \/ IncrRepeated(h) \/ IncrFails(h)
                         \/ ExpireRepeated(h) \/ ExpireFails(h)
  \/ Tick
  \/ RedisRestarts

Spec == Init /\ [][Next]_vars

(* The clock runs and calls go on.                                         *)
FairSpec ==
  Spec /\ WF_vars(Tick) /\ \A h \in Handlers : WF_vars(Progress(h) \/ IncrFails(h) \/ ExpireFails(h))

-------------------------------------------------------------------------------
(* Properties *)

(* Every variable has its type.                                            *)
TypeOK ==
  /\ counter \in [Connections -> 0..MaxCount]
  /\ ttl \in [Connections -> 0..Window]
  /\ pc \in [Handlers -> {"idle", "incr", "expire", "decide"}]
  /\ conn \in [Handlers -> Connections \union {NoConnection}]
  /\ val \in [Handlers -> 0..MaxCount]
  /\ tries \in [Handlers -> 0..MaxRetries]
  /\ counted \subseteq Handlers
  /\ admitted \in [Connections -> Nat]
  /\ unlimited \subseteq Connections
  /\ \A h \in Handlers : pc[h] = "idle" <=> conn[h] = NoConnection

(* However calls overlap, at most Limit of those that a key counts go      *)
(* through before it expires.  A call that the key does not count, since   *)
(* it was answered by a key that is gone by now, is exempt.                *)
LimitHolds == \A c \in Connections : admitted[c] <= Limit

(* A key that lives for ever is one whose Expire is still to come, or was  *)
(* lost, or that was made by an INCR whose answer was lost: no other order *)
(* of calls, repeats, expiries and restarts leaves it so.                  *)
KeysExpire ==
  \A c \in Connections : (counter[c] > 0 /\ ttl[c] = 0) =>
    c \in unlimited \/ \E h \in counted : conn[h] = c /\ pc[h] = "expire"

(* The inductive invariant behind these two (RateLimiterProofs): the       *)
(* counter covers the calls let through and those that will be.            *)
Admissible(c) == {h \in counted : conn[h] = c /\ val[h] <= Limit}

CountInv(c) ==
  LET n == admitted[c] + Cardinality(Admissible(c)) IN n <= counter[c] /\ n <= Limit

IInv ==
  /\ TypeOK
  /\ \A h \in counted : pc[h] \in {"expire", "decide"}
  /\ \A c \in Connections : CountInv(c)
  /\ KeysExpire

(* A client that is refused is let through again some time, if it goes on  *)
(* calling or not, unless the key was made to live for ever by a loss.     *)
BlockedIsReleased ==
  \A c \in Connections : counter[c] > Limit ~> counter[c] = 0 \/ c \in unlimited

(* "rate_limit:ip:%s" (gateway/middleware/limiter.go:15): the limit is one *)
(* for each IP address.                                                    *)
LimitPerIp ==
  \A c \in Connections :
    MapThenSumSet(LAMBDA d : admitted[d], {d \in Connections : Ip[d] = Ip[c]}) <= Limit
===============================================================================
