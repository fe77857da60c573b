--------------------------- MODULE RateLimiterProofs ---------------------------
(***************************************************************************)
(* Proofs about module RateLimiter, for any number of calls and            *)
(* connections: the limit holds, and only lost commands leave a key        *)
(* without a time to live.                                                 *)
(***************************************************************************)
EXTENDS RateLimiter, FiniteSetTheorems, TLAPS

-------------------------------------------------------------------------------
(* The calls that a key has counted and that it lets through are finitely  *)
(* many.                                                                   *)
LEMMA AdmissibleFinite ==
  ASSUME TypeOK, NEW c \in Connections
  PROVE  IsFiniteSet(Admissible(c)) /\ Cardinality(Admissible(c)) \in Nat
<1>1. Admissible(c) \subseteq Handlers
  BY DEF Admissible, TypeOK
<1> QED  BY <1>1, LimiterAssumption, FS_Subset, FS_CardinalityType

(* A count that does not grow, of a key that is not gone, keeps the        *)
(* invariant of the key.                                                   *)
LEMMA CountKept ==
  ASSUME IInv, TypeOK', NEW c \in Connections,
         Admissible(c)' \subseteq Admissible(c), admitted'[c] = admitted[c],
         counter[c] <= counter'[c]
  PROVE  CountInv(c)'
<1> DEFINE A == Admissible(c)
           B == Admissible(c)'
<1>1. IsFiniteSet(A) /\ Cardinality(A) \in Nat
  BY AdmissibleFinite DEF IInv
<1>2. Cardinality(B) \in Nat /\ Cardinality(B) <= Cardinality(A)
  BY <1>1, FS_Subset, FS_CardinalityType
<1>3. admitted[c] + Cardinality(A) <= counter[c] /\ admitted[c] + Cardinality(A) <= Limit
  BY DEF IInv, CountInv
<1>4. admitted[c] \in Nat /\ counter[c] \in Nat /\ counter'[c] \in Nat /\ Limit \in Nat
  BY LimiterAssumption DEF IInv, TypeOK
<1> HIDE DEF A, B
<1>5. admitted'[c] + Cardinality(B) <= counter'[c] /\ admitted'[c] + Cardinality(B) <= Limit
  BY <1>1, <1>2, <1>3, <1>4
<1> QED  BY <1>5 DEF CountInv, B

-------------------------------------------------------------------------------
(* One lemma for each action *)

(* A call that comes in is not counted yet.                                *)
LEMMA ReceiveStep ==
  ASSUME IInv, NEW h \in Handlers, NEW c \in Connections, Receive(h, c)
  PROVE  IInv'
<1> USE DEF IInv
<1>1. /\ pc[h] = "idle" /\ pc' = [pc EXCEPT ![h] = "incr"] /\ conn' = [conn EXCEPT ![h] = c]
      /\ UNCHANGED <<counter, ttl, val, tries, counted, admitted, unlimited>>
  BY DEF Receive, Goto, redis, history
<1>2. h \notin counted
  BY <1>1
<1>3. TypeOK'
  BY <1>1, LimiterAssumption DEF TypeOK
<1>4. \A g \in counted' : pc'[g] \in {"expire", "decide"}
  BY <1>1, <1>2 DEF TypeOK
<1>5. ASSUME NEW d \in Connections PROVE CountInv(d)'
  <2>1. Admissible(d)' \subseteq Admissible(d)
    BY <1>1, <1>2 DEF Admissible, TypeOK
  <2>2. counter[d] <= counter'[d]
    BY <1>1 DEF TypeOK
  <2> QED  BY <1>1, <1>3, <2>1, <2>2, CountKept
<1>6. KeysExpire'
  BY <1>1, <1>2 DEF KeysExpire, TypeOK
<1> QED  BY <1>3, <1>4, <1>5, <1>6

(* A value up to Limit is given to one call only.                          *)
LEMMA IncrStep ==
  ASSUME IInv, NEW h \in Handlers, Incr(h)
  PROVE  IInv'
<1> USE DEF IInv
<1> DEFINE c == conn[h]
           n == Incremented(c)
<1>1. /\ pc[h] = "incr" /\ pc' = [pc EXCEPT ![h] = IF n = 1 THEN "expire" ELSE "decide"]
      /\ counter' = [counter EXCEPT ![c] = n] /\ val' = [val EXCEPT ![h] = n]
      /\ counted' = counted \union {h} /\ tries' = [tries EXCEPT ![h] = 0]
      /\ UNCHANGED <<ttl, conn, admitted, unlimited>>
  BY DEF Incr, IncrAnswered, Goto
<1>2. c \in Connections /\ h \notin counted
  BY <1>1 DEF TypeOK
<1>3. /\ n \in 1..MaxCount /\ counter[c] \in 0..MaxCount /\ counter[c] <= n
      /\ counter[c] < Limit => n = counter[c] + 1
      /\ counter[c] >= Limit => n > Limit
      /\ counter[c] = 0 => n = 1
  BY <1>2, LimiterAssumption DEF Incremented, TypeOK
<1> HIDE DEF n
<1>4. TypeOK'
  <2>1. pc' \in [Handlers -> {"idle", "incr", "expire", "decide"}] /\ pc'[h] # "idle"
    BY <1>1 DEF TypeOK
  <2>2. counter' \in [Connections -> 0..MaxCount] /\ val' \in [Handlers -> 0..MaxCount]
    BY <1>1, <1>3 DEF TypeOK
  <2>3. tries' \in [Handlers -> 0..MaxRetries]
    BY <1>1, LimiterAssumption DEF TypeOK
  <2> QED  BY <1>1, <1>2, <2>1, <2>2, <2>3, LimiterAssumption DEF TypeOK
<1>5. \A g \in counted' : pc'[g] \in {"expire", "decide"}
  BY <1>1 DEF TypeOK
<1>6. ASSUME NEW d \in Connections PROVE CountInv(d)'
  <2>1. CASE d # c \/ n > Limit
    <3>1. Admissible(d)' \subseteq Admissible(d)
      <4>1. h \notin Admissible(d)'
        BY <1>1, <1>3, <2>1, LimiterAssumption DEF Admissible, TypeOK
      <4> QED  BY <1>1, <1>2, <4>1 DEF Admissible, TypeOK
    <3>2. counter[d] <= counter'[d]
      BY <1>1, <1>3 DEF TypeOK
    <3>3. admitted'[d] = admitted[d]
      BY <1>1
    <3> QED  BY <1>4, <3>1, <3>2, <3>3, CountKept
  <2>2. CASE d = c /\ ~(n > Limit)
    <3>1. Admissible(d)' = Admissible(d) \union {h} /\ h \notin Admissible(d)
      BY <1>1, <1>2, <1>3, <2>2, LimiterAssumption DEF Admissible, TypeOK
    <3>2. IsFiniteSet(Admissible(d)) /\ Cardinality(Admissible(d)) \in Nat
      BY AdmissibleFinite
    <3>3. Cardinality(Admissible(d)') = Cardinality(Admissible(d)) + 1
      BY <3>1, <3>2, FS_AddElement
    <3>4. counter[d] < Limit /\ n = counter[d] + 1 /\ counter'[d] = n /\ admitted'[d] = admitted[d]
      BY <1>1, <1>2, <1>3, <2>2, LimiterAssumption DEF TypeOK
    <3>5. admitted[d] + Cardinality(Admissible(d)) <= counter[d] /\ admitted[d] \in Nat
      BY DEF CountInv, TypeOK
    <3>6. /\ admitted'[d] + Cardinality(Admissible(d)') <= counter'[d]
          /\ admitted'[d] + Cardinality(Admissible(d)') <= Limit
      BY <1>3, <2>2, <3>2, <3>3, <3>4, <3>5, LimiterAssumption
    <3> QED  BY <3>6 DEF CountInv
  <2> QED  BY <2>1, <2>2
<1>7. KeysExpire'
  <2> SUFFICES ASSUME NEW d \in Connections, counter'[d] > 0, ttl'[d] = 0
               PROVE  d \in unlimited' \/ \E g \in counted' : conn'[g] = d /\ pc'[g] = "expire"
    BY DEF KeysExpire
  <2>1. CASE counter[d] > 0
    BY <1>1, <1>2, <2>1 DEF KeysExpire, TypeOK
  <2>2. CASE counter[d] = 0
    <3>1. d = c /\ n = 1
      BY <1>1, <1>3, <2>2 DEF TypeOK
    <3>2. h \in counted' /\ conn'[h] = d /\ pc'[h] = "expire"
      BY <1>1, <3>1 DEF TypeOK
    <3> QED  BY <3>2
  <2> QED  BY <2>1, <2>2 DEF TypeOK
<1> QED  BY <1>4, <1>5, <1>6, <1>7

(* An INCR without an answer, repeated or given up, lets no call through.  *)
LEMMA IncrUnansweredStep ==
  ASSUME IInv, NEW h \in Handlers, IncrRepeated(h) \/ IncrFails(h)
  PROVE  IInv'
<1> USE DEF IInv
<1> DEFINE c == conn[h]
<1>1. /\ pc[h] = "incr"
      /\ \/ UNCHANGED <<pc, conn, val, counted>>
         \/ /\ pc' = [pc EXCEPT ![h] = "idle"] /\ conn' = [conn EXCEPT ![h] = NoConnection]
            /\ val' = [val EXCEPT ![h] = 0] /\ counted' = counted \ {h}
      /\ UNCHANGED <<ttl, admitted>>
  BY DEF IncrRepeated, IncrFails, Leave, Goto
<1>2. c \in Connections /\ h \notin counted
  BY <1>1 DEF TypeOK
<1>3. \/ counter' = counter /\ unlimited' = unlimited
      \/ /\ counter' = [counter EXCEPT ![c] = Incremented(c)]
         /\ unlimited' = IF counter[c] = 0 THEN unlimited \union {c} ELSE unlimited
  BY DEF IncrRepeated, IncrFails
<1>4. Incremented(c) \in 1..MaxCount /\ counter[c] <= Incremented(c)
  BY <1>2, LimiterAssumption DEF Incremented, TypeOK
<1> HIDE DEF c
<1>5. counter' \in [Connections -> 0..MaxCount] /\ unlimited' \subseteq Connections
  BY <1>2, <1>3, <1>4 DEF TypeOK
<1>10. tries' \in [Handlers -> 0..MaxRetries]
  <2>1. tries' = [tries EXCEPT ![h] = 0] \/ (tries' = [tries EXCEPT ![h] = @ + 1] /\ tries[h] < MaxRetries)
    BY DEF IncrRepeated, IncrFails, Leave
  <2> QED  BY <2>1, LimiterAssumption DEF TypeOK
<1>6. TypeOK'
  BY <1>1, <1>5, <1>10, LimiterAssumption DEF TypeOK
<1>11. counted' = counted /\ \A g \in counted : pc'[g] = pc[g] /\ conn'[g] = conn[g] /\ val'[g] = val[g]
  BY <1>1, <1>2 DEF TypeOK
<1>7. \A g \in counted' : pc'[g] \in {"expire", "decide"}
  BY <1>11
<1>8. ASSUME NEW d \in Connections PROVE CountInv(d)'
  <2>1. Admissible(d)' \subseteq Admissible(d)
    BY <1>11 DEF Admissible
  <2>2. counter[d] <= counter'[d]
    BY <1>2, <1>3, <1>4 DEF TypeOK
  <2>3. admitted'[d] = admitted[d]
    BY <1>1
  <2> QED  BY <1>6, <2>1, <2>2, <2>3, CountKept
<1>9. KeysExpire'
  <2> SUFFICES ASSUME NEW d \in Connections, counter'[d] > 0, ttl'[d] = 0
               PROVE  d \in unlimited' \/ \E g \in counted' : conn'[g] = d /\ pc'[g] = "expire"
    BY DEF KeysExpire
  <2>1. CASE counter[d] > 0
    <3>1. d \in unlimited \/ \E g \in counted : conn[g] = d /\ pc[g] = "expire"
      BY <1>1, <2>1 DEF KeysExpire
    <3>2. unlimited \subseteq unlimited'
      BY <1>3
    <3> QED  BY <1>11, <3>1, <3>2
  <2>2. CASE counter[d] = 0
    BY <1>2, <1>3, <2>2 DEF TypeOK
  <2> QED  BY <2>1, <2>2 DEF TypeOK
<1> QED  BY <1>6, <1>7, <1>8, <1>9

(* Setting the time to live, once or again, or failing to, touches no      *)
(* count.                                                                  *)
LEMMA ExpireStep ==
  ASSUME IInv, NEW h \in Handlers, Expire(h) \/ ExpireRepeated(h) \/ ExpireFails(h)
  PROVE  IInv'
<1> USE DEF IInv
<1> DEFINE c == conn[h]
           set == /\ ttl' = [ttl EXCEPT ![c] = IF counter[c] > 0 THEN Window ELSE 0]
                  /\ unlimited' = unlimited \ {c}
           lost == /\ ttl' = ttl
                   /\ unlimited' = IF h \in counted /\ ttl[c] = 0 THEN unlimited \union {c} ELSE unlimited
<1>1. /\ pc[h] = "expire"
      /\ pc' = pc \/ pc' = [pc EXCEPT ![h] = "decide"]
      /\ UNCHANGED <<counter, conn, val, counted, admitted>>
  BY DEF Expire, ExpireRepeated, ExpireFails, Goto, redis
<1>2. c \in Connections
  BY <1>1 DEF TypeOK
<1>3. set \/ lost
  BY DEF Expire, ExpireRepeated, ExpireFails, SetTtl, redis
<1> HIDE DEF c
<1>4. TypeOK'
  <2>1. ttl' \in [Connections -> 0..Window] /\ unlimited' \subseteq Connections
    BY <1>2, <1>3, LimiterAssumption DEF TypeOK
  <2>2. tries' \in [Handlers -> 0..MaxRetries]
    <3>1. tries' = [tries EXCEPT ![h] = 0] \/ (tries' = [tries EXCEPT ![h] = @ + 1] /\ tries[h] < MaxRetries)
      BY DEF Expire, ExpireRepeated, ExpireFails
    <3> QED  BY <3>1, LimiterAssumption DEF TypeOK
  <2> QED  BY <1>1, <2>1, <2>2 DEF TypeOK
<1>5. \A g \in counted' : pc'[g] \in {"expire", "decide"}
  BY <1>1 DEF TypeOK
<1>6. ASSUME NEW d \in Connections PROVE CountInv(d)'
  <2>1. Admissible(d)' \subseteq Admissible(d) /\ admitted'[d] = admitted[d]
    BY <1>1 DEF Admissible
  <2>2. counter[d] <= counter'[d]
    BY <1>1 DEF TypeOK
  <2> QED  BY <1>4, <2>1, <2>2, CountKept
<1>7. KeysExpire'
  <2> SUFFICES ASSUME NEW d \in Connections, counter'[d] > 0, ttl'[d] = 0
               PROVE  d \in unlimited' \/ \E g \in counted' : conn'[g] = d /\ pc'[g] = "expire"
    BY DEF KeysExpire
  <2>1. CASE d = c
    <3>1. CASE set
      BY <1>1, <1>2, <2>1, <3>1, LimiterAssumption DEF TypeOK
    <3>2. CASE lost /\ h \in counted
      BY <2>1, <3>2
    <3>3. CASE lost /\ h \notin counted
      <4>1. d \in unlimited \/ \E g \in counted : conn[g] = d /\ pc[g] = "expire"
        BY <1>1, <3>3 DEF KeysExpire
      <4> QED  BY <1>1, <3>3, <4>1 DEF TypeOK
    <3> QED  BY <1>3, <3>1, <3>2, <3>3
  <2>2. CASE d # c
    <3>1. ttl'[d] = ttl[d] /\ (d \in unlimited => d \in unlimited')
      BY <1>2, <1>3, <2>2 DEF TypeOK
    <3>2. d \in unlimited \/ \E g \in counted : conn[g] = d /\ pc[g] = "expire"
      BY <1>1, <3>1 DEF KeysExpire
    <3>3. \A g \in counted : conn[g] = d => g # h
      BY <2>2 DEF c
    <3> QED  BY <1>1, <3>1, <3>2, <3>3 DEF TypeOK
  <2> QED  BY <2>1, <2>2
<1> QED  BY <1>4, <1>5, <1>6, <1>7

(* A call that is let through was among those its key covers.              *)
LEMMA DecideStep ==
  ASSUME IInv, NEW h \in Handlers, Decide(h)
  PROVE  IInv'
<1> USE DEF IInv
<1> DEFINE c == conn[h]
<1>1. /\ pc[h] = "decide" /\ pc' = [pc EXCEPT ![h] = "idle"]
      /\ conn' = [conn EXCEPT ![h] = NoConnection] /\ val' = [val EXCEPT ![h] = 0]
      /\ counted' = counted \ {h} /\ tries' = [tries EXCEPT ![h] = 0]
      /\ admitted' = IF val[h] <= Limit /\ h \in counted
                     THEN [admitted EXCEPT ![c] = @ + 1] ELSE admitted
      /\ UNCHANGED <<counter, ttl, unlimited>>
  BY DEF Decide, Leave, Goto, redis
<1>2. c \in Connections
  BY <1>1 DEF TypeOK
<1>3. admitted' \in [Connections -> Nat]
  BY <1>1, <1>2 DEF TypeOK
<1>4. TypeOK'
  BY <1>1, <1>3, LimiterAssumption DEF TypeOK
<1>5. \A g \in counted' : pc'[g] \in {"expire", "decide"}
  BY <1>1 DEF TypeOK
<1>6. ASSUME NEW d \in Connections PROVE CountInv(d)'
  <2>1. Admissible(d)' = Admissible(d) \ {h}
    BY <1>1 DEF Admissible, TypeOK
  <2>2. CASE d = c /\ val[h] <= Limit /\ h \in counted
    <3>1. h \in Admissible(d)
      BY <2>2 DEF Admissible
    <3>2. IsFiniteSet(Admissible(d)) /\ Cardinality(Admissible(d)) \in Nat
      BY AdmissibleFinite
    <3>3. Cardinality(Admissible(d)') = Cardinality(Admissible(d)) - 1
      BY <2>1, <3>1, <3>2, FS_RemoveElement
    <3>4. admitted'[d] = admitted[d] + 1 /\ admitted[d] \in Nat /\ counter'[d] = counter[d]
      BY <1>1, <1>2, <2>2 DEF TypeOK
    <3>5. /\ admitted[d] + Cardinality(Admissible(d)) <= counter[d]
          /\ admitted[d] + Cardinality(Admissible(d)) <= Limit
      BY DEF CountInv
    <3>6. /\ admitted'[d] + Cardinality(Admissible(d)') <= counter'[d]
          /\ admitted'[d] + Cardinality(Admissible(d)') <= Limit
      BY <3>2, <3>3, <3>4, <3>5
    <3> QED  BY <3>6 DEF CountInv
  <2>3. CASE ~(d = c /\ val[h] <= Limit /\ h \in counted)
    <3>1. admitted'[d] = admitted[d] /\ counter[d] <= counter'[d]
      BY <1>1, <1>2, <2>3 DEF TypeOK
    <3> QED  BY <1>4, <2>1, <3>1, CountKept
  <2> QED  BY <2>2, <2>3
<1>7. KeysExpire'
  BY <1>1 DEF KeysExpire, TypeOK
<1> QED  BY <1>4, <1>5, <1>6, <1>7

(* A key that goes takes its counts with it.                               *)
LEMMA DeleteStep ==
  ASSUME IInv, NEW C \in SUBSET Connections, Delete(C), UNCHANGED calls,
         ttl' \in [Connections -> 0..Window],
         \A c \in Connections \ C : ttl'[c] = 0 => ttl[c] = 0
  PROVE  IInv'
<1> USE DEF IInv
<1>1. /\ counter' = [c \in Connections |-> IF c \in C THEN 0 ELSE counter[c]]
      /\ counted' = {h \in counted : conn[h] \notin C}
      /\ admitted' = [c \in Connections |-> IF c \in C THEN 0 ELSE admitted[c]]
      /\ unlimited' = unlimited \ C
      /\ UNCHANGED <<pc, conn, val, tries>>
  BY DEF Delete, calls
<1>2. TypeOK'
  <2>1. counter' \in [Connections -> 0..MaxCount] /\ admitted' \in [Connections -> Nat]
    BY <1>1, LimiterAssumption DEF TypeOK
  <2> QED  BY <1>1, <2>1 DEF TypeOK
<1>3. \A g \in counted' : pc'[g] \in {"expire", "decide"}
  BY <1>1
<1>4. ASSUME NEW d \in Connections PROVE CountInv(d)'
  <2>1. CASE d \in C
    <3>1. Admissible(d)' = {}
      BY <1>1, <2>1 DEF Admissible
    <3>2. Cardinality(Admissible(d)') = 0
      BY <3>1, FS_EmptySet
    <3>3. admitted'[d] = 0 /\ counter'[d] = 0
      BY <1>1, <2>1
    <3> QED  BY <3>2, <3>3, LimiterAssumption DEF CountInv
  <2>2. CASE d \notin C
    <3>1. Admissible(d)' \subseteq Admissible(d)
      BY <1>1 DEF Admissible
    <3>2. admitted'[d] = admitted[d] /\ counter[d] <= counter'[d]
      BY <1>1, <2>2 DEF TypeOK
    <3> QED  BY <1>2, <3>1, <3>2, CountKept
  <2> QED  BY <2>1, <2>2
<1>5. KeysExpire'
  <2> SUFFICES ASSUME NEW d \in Connections, counter'[d] > 0, ttl'[d] = 0
               PROVE  d \in unlimited' \/ \E g \in counted' : conn'[g] = d /\ pc'[g] = "expire"
    BY DEF KeysExpire
  <2>1. d \notin C /\ counter[d] > 0 /\ ttl[d] = 0
    BY <1>1
  <2>2. d \in unlimited \/ \E g \in counted : conn[g] = d /\ pc[g] = "expire"
    BY <2>1 DEF KeysExpire
  <2> QED  BY <1>1, <2>1, <2>2
<1> QED  BY <1>2, <1>3, <1>4, <1>5

-------------------------------------------------------------------------------
(* Theorems *)

(* The counter of a key covers the calls let through and those that will   *)
(* be, and a key without a time to live has an Expire to come or a loss.   *)
THEOREM RateLimiterInvariance == Spec => []IInv
<1>1. Init => IInv
  <2> SUFFICES ASSUME Init PROVE IInv
    OBVIOUS
  <2>1. TypeOK
    BY LimiterAssumption DEF Init, TypeOK
  <2>2. ASSUME NEW c \in Connections PROVE CountInv(c)
    <3>1. Admissible(c) = {}
      BY DEF Init, Admissible
    <3>2. Cardinality(Admissible(c)) = 0
      BY <3>1, FS_EmptySet
    <3> QED  BY <3>2, LimiterAssumption DEF Init, CountInv
  <2> QED  BY <2>1, <2>2 DEF Init, IInv, KeysExpire
<1>2. IInv /\ [Next]_vars => IInv'
  <2> SUFFICES ASSUME IInv, [Next]_vars PROVE IInv'
    OBVIOUS
  <2>1. ASSUME NEW h \in Handlers, NEW c \in Connections, Receive(h, c) PROVE IInv'
    BY <2>1, ReceiveStep
  <2>2. ASSUME NEW h \in Handlers, Incr(h) PROVE IInv'
    BY <2>2, IncrStep
  <2>3. ASSUME NEW h \in Handlers, IncrRepeated(h) \/ IncrFails(h) PROVE IInv'
    BY <2>3, IncrUnansweredStep
  <2>4. ASSUME NEW h \in Handlers, Expire(h) \/ ExpireRepeated(h) \/ ExpireFails(h) PROVE IInv'
    BY <2>4, ExpireStep
  <2>5. ASSUME NEW h \in Handlers, Decide(h) PROVE IInv'
    BY <2>5, DecideStep
  <2>6. CASE Tick
    <3> DEFINE C == {c \in Connections : ttl[c] = 1}
    <3>1. ttl' = [c \in Connections |-> IF ttl[c] > 0 THEN ttl[c] - 1 ELSE 0]
      BY <2>6 DEF Tick
    <3>2. ttl' \in [Connections -> 0..Window]
      BY <3>1, LimiterAssumption DEF IInv, TypeOK
    <3>3. \A c \in Connections \ C : ttl'[c] = 0 => ttl[c] = 0
      BY <3>1, LimiterAssumption DEF IInv, TypeOK
    <3>4. Delete(C) /\ UNCHANGED calls
      BY <2>6 DEF Tick
    <3> HIDE DEF C
    <3>5. C \in SUBSET Connections
      BY DEF C
    <3> QED  BY <3>2, <3>3, <3>4, <3>5, DeleteStep
  <2>7. CASE RedisRestarts
    <3>1. ttl' \in [Connections -> 0..Window] /\ Delete(Connections) /\ UNCHANGED calls
      BY <2>7, LimiterAssumption DEF RedisRestarts
    <3> QED  BY <3>1, DeleteStep
  <2>8. CASE UNCHANGED vars
    BY <2>8 DEF vars, redis, calls, history, IInv, TypeOK, CountInv, Admissible, KeysExpire
  <2> QED  BY <2>1, <2>2, <2>3, <2>4, <2>5, <2>6, <2>7, <2>8 DEF Next, Progress
<1> QED  BY <1>1, <1>2, PTL DEF Spec

(* Every variable always has its type.                                     *)
THEOREM RateLimiterTypeCorrect == Spec => []TypeOK
<1>1. IInv => TypeOK
  BY DEF IInv
<1> QED  BY <1>1, RateLimiterInvariance, PTL

(* However calls, expiries and restarts of Redis interleave, no more than  *)
(* Limit of the calls a key counts get through.                            *)
THEOREM LimitHoldsCorrect == Spec => []LimitHolds
<1>1. ASSUME IInv PROVE LimitHolds
  <2> SUFFICES ASSUME NEW c \in Connections PROVE admitted[c] <= Limit
    BY DEF LimitHolds
  <2>1. Cardinality(Admissible(c)) \in Nat
    BY <1>1, AdmissibleFinite DEF IInv
  <2>2. admitted[c] + Cardinality(Admissible(c)) <= Limit /\ admitted[c] \in Nat
    BY <1>1 DEF IInv, CountInv, TypeOK
  <2> QED  BY <2>1, <2>2, LimiterAssumption
<1> QED  BY <1>1, RateLimiterInvariance, PTL

(* A key lives for ever only if its Expire is to come or was lost, or if   *)
(* the answer to the INCR that made it was.                                *)
THEOREM KeysExpireCorrect == Spec => []KeysExpire
<1>1. IInv => KeysExpire
  BY DEF IInv
<1> QED  BY <1>1, RateLimiterInvariance, PTL
===============================================================================
