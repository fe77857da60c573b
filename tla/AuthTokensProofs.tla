---------------------------- MODULE AuthTokensProofs ----------------------------
(***************************************************************************)
(* Proofs about module AuthTokens, for any number of handlers, users and   *)
(* tokens: row locks keep a token that is being rotated as it was read,    *)
(* hence sessions never have two live tokens; who can wait in a circle;    *)
(* and that module TokenStore is implemented.                              *)
(***************************************************************************)
EXTENDS AuthTokens, TLAPS

-------------------------------------------------------------------------------
(* What a step of h leaves to the others when it stores the tokens N.      *)
Frame(h, N) ==
  /\ \A g \in Handlers \ {h} :
       /\ pc'[g] = pc[g] /\ presented'[g] = presented[g] /\ fresh'[g] = fresh[g]
       /\ now'[g] = now[g] /\ seen'[g] = seen[g] /\ todo'[g] = todo[g] /\ hit'[g] = hit[g]
       /\ \A t \in Tokens : lock[t] = g => lock'[t] = g /\ (t \in Live => t \in Live')
       /\ fresh[g] # 0 => fresh[g] \notin N
  /\ issued' = issued \union N
  /\ stored' \subseteq stored \union N
  /\ N \intersect issued = {}
  /\ revoked \subseteq revoked'
  /\ made \in Nat /\ made' \in Nat /\ made <= made'
  /\ \A t \in 1..made : owner'[t] = owner[t] /\ session'[t] = session[t]
  /\ expired <= expired' /\ expired' \in Nat

(* Such a step keeps what is known of the other handlers.                  *)
LEMMA OthersKept ==
  ASSUME IInv, NEW h, NEW N, Frame(h, N), NEW g \in Handlers \ {h}
  PROVE  HandlerInv(g)'
<1> USE DEF IInv, TypeOK
<1>1. HandlerInv(g)
  OBVIOUS
<1>2. /\ presented[g] \in 0..MaxToken /\ fresh[g] \in 0..MaxToken /\ now[g] \in 0..MaxToken
      /\ issued \subseteq 1..made /\ issued \subseteq Tokens
  BY AuthAssumption DEF Tokens
<1>3. /\ pc'[g] = pc[g] /\ presented'[g] = presented[g] /\ fresh'[g] = fresh[g]
      /\ now'[g] = now[g] /\ seen'[g] = seen[g] /\ todo'[g] = todo[g] /\ hit'[g] = hit[g]
  BY DEF Frame
<1>4. Rotating(g)' => presented'[g] \in Live' /\ lock'[presented'[g]] = g
  <2>1. Rotating(g) => presented[g] \in Live /\ lock[presented[g]] = g /\ presented[g] \in Tokens
    BY <1>1, <1>2 DEF HandlerInv, Live
  <2> QED  BY <1>3, <2>1 DEF Frame, Rotating
<1>5. fresh'[g] # 0 => fresh'[g] \in 1..made' /\ fresh'[g] \notin issued'
  BY <1>1, <1>2, <1>3 DEF HandlerInv, Frame
<1>6. /\ pc'[g] \in {"insert", "mark", "commit"} <=> fresh'[g] # 0
      /\ pc'[g] = "insert" => session'[fresh'[g]] = fresh'[g]
      /\ pc'[g] \in {"mark", "commit"} => session'[fresh'[g]] = session'[presented'[g]]
      /\ pc'[g] \notin {"idle", "insert"} => presented'[g] \in issued'
  BY <1>1, <1>2, <1>3 DEF HandlerInv, Frame
<1>7. now'[g] <= expired'
  BY <1>1, <1>2, <1>3 DEF HandlerInv, Frame
<1>8. /\ seen'[g] \union todo'[g] \union hit'[g] \subseteq issued'
      /\ \A t \in hit'[g] : lock'[t] = g
  <2>1. /\ seen[g] \union todo[g] \union hit[g] \subseteq issued
        /\ \A t \in hit[g] : lock[t] = g
    BY <1>1 DEF HandlerInv
  <2>2. issued \subseteq issued'
    BY DEF Frame
  <2>3. \A t \in hit[g] : lock'[t] = g
    BY <1>2, <2>1 DEF Frame
  <2> QED  BY <1>3, <2>1, <2>2, <2>3
<1>9. pc'[g] = "revoke" =>
        \A t \in seen'[g] \intersect stored' :
          owner'[t] = owner'[presented'[g]] =>
            t \in revoked' \union hit'[g] \union todo'[g] \/ t <= now'[g]
  <2> SUFFICES ASSUME pc'[g] = "revoke", NEW t \in seen'[g] \intersect stored',
                      owner'[t] = owner'[presented'[g]]
               PROVE  t \in revoked' \union hit'[g] \union todo'[g] \/ t <= now'[g]
    OBVIOUS
  <2>1. t \in issued /\ t \in stored /\ presented[g] \in issued
    <3>1. t \in seen[g] /\ pc[g] = "revoke"
      BY <1>3
    <3>2. t \in issued /\ presented[g] \in issued
      BY <1>1, <3>1 DEF HandlerInv
    <3> QED  BY <3>2 DEF Frame
  <2>2. owner[t] = owner[presented[g]]
    BY <1>2, <1>3, <2>1 DEF Frame
  <2> QED  BY <1>1, <1>3, <2>1, <2>2 DEF HandlerInv, Frame
<1> QED  BY <1>4, <1>5, <1>6, <1>7, <1>8, <1>9 DEF HandlerInv

-------------------------------------------------------------------------------
(* Handlers one at a time *)

(* The variables of the handlers and the locks have their types, as far as *)
(* h changes them.                                                         *)
TxType ==
  /\ lock \in [Tokens -> Handlers \union {NoHandler}]
  /\ pc \in [Handlers -> Labels]
  /\ presented \in [Handlers -> 0..MaxToken]
  /\ fresh \in [Handlers -> 0..MaxToken]
  /\ now \in [Handlers -> 0..MaxToken]
  /\ seen \in [Handlers -> SUBSET Tokens]
  /\ todo \in [Handlers -> SUBSET Tokens]
  /\ at \in [Handlers -> 0..MaxToken]
  /\ hit \in [Handlers -> SUBSET Tokens]
  /\ \A t \in Tokens : lock[t] # NoHandler => pc[lock[t]] \notin {"idle", "insert", "get"}

RowType ==
  /\ made \in 0..MaxToken /\ expired \in 0..made
  /\ stored \subseteq issued /\ issued \subseteq 1..made /\ revoked \subseteq issued
  /\ owner \in [Tokens -> Users \union {NoUser}]
  /\ session \in [Tokens -> 0..MaxToken]
  /\ successor \in [Tokens -> 0..MaxToken]

(* The end of a transaction frees its rows and forgets what it was about.  *)
LEMMA EndFacts ==
  ASSUME TypeOK, NEW h \in Handlers, End(h)
  PROVE  /\ TxType'
         /\ pc'[h] = "idle" /\ fresh'[h] = 0 /\ now'[h] = 0
         /\ seen'[h] = {} /\ todo'[h] = {} /\ hit'[h] = {}
         /\ \A g \in Handlers \ {h} :
              /\ pc'[g] = pc[g] /\ presented'[g] = presented[g] /\ fresh'[g] = fresh[g]
              /\ now'[g] = now[g] /\ seen'[g] = seen[g] /\ todo'[g] = todo[g] /\ hit'[g] = hit[g]
              /\ \A t \in Tokens : lock[t] = g => lock'[t] = g
<1> USE DEF TypeOK, End, Goto, Unlock
<1>1. pc' = [pc EXCEPT ![h] = "idle"] /\ pc' \in [Handlers -> Labels]
  BY DEF Labels
<1>2. presented' \in [Handlers -> 0..MaxToken] /\ fresh' \in [Handlers -> 0..MaxToken]
      /\ now' \in [Handlers -> 0..MaxToken] /\ at' \in [Handlers -> 0..MaxToken]
  BY AuthAssumption
<1>3. seen' \in [Handlers -> SUBSET Tokens] /\ todo' \in [Handlers -> SUBSET Tokens]
      /\ hit' \in [Handlers -> SUBSET Tokens]
  OBVIOUS
<1>4. lock' = [t \in Tokens |-> IF lock[t] = h THEN NoHandler ELSE lock[t]]
  OBVIOUS
<1>5. /\ lock' \in [Tokens -> Handlers \union {NoHandler}]
      /\ \A t \in Tokens : lock'[t] # NoHandler => lock'[t] = lock[t] /\ lock[t] # h
  BY <1>4
<1>6. \A t \in Tokens : lock'[t] # NoHandler => pc'[lock'[t]] \notin {"idle", "insert", "get"}
  BY <1>1, <1>5
<1>7. TxType'
  BY <1>1, <1>2, <1>3, <1>5, <1>6 DEF TxType
<1>8. \A g \in Handlers \ {h}, t \in Tokens : lock[t] = g => lock'[t] = g
  BY <1>4
<1>9. \A g \in Handlers \ {h} :
        /\ pc'[g] = pc[g] /\ presented'[g] = presented[g] /\ fresh'[g] = fresh[g]
        /\ now'[g] = now[g] /\ seen'[g] = seen[g] /\ todo'[g] = todo[g] /\ hit'[g] = hit[g]
  OBVIOUS
<1>10. /\ pc'[h] = "idle" /\ fresh'[h] = 0 /\ now'[h] = 0
       /\ seen'[h] = {} /\ todo'[h] = {} /\ hit'[h] = {}
  OBVIOUS
<1> QED  BY <1>7, <1>8, <1>9, <1>10

(* An idle handler is in order.                                            *)
LEMMA IdleInOrder ==
  ASSUME NEW h \in Handlers, pc[h] = "idle", fresh[h] = 0, now[h] = 0, expired \in Nat,
         seen[h] = {}, todo[h] = {}, hit[h] = {}
  PROVE  HandlerInv(h)
BY DEF HandlerInv, Rotating

(* The parts of the invariant that are not about a single handler.         *)
Sessions == SessionInv /\ ConsumedIsRevoked /\ OneLivePerSession

(* IInv from its parts.                                                    *)
LEMMA Assembled ==
  ASSUME TxType, RowType, \A h \in Handlers : HandlerInv(h), FreshDistinct, Sessions
  PROVE  IInv
BY DEF TxType, RowType, Sessions, IInv, TypeOK

(* No row changes and no token is made: the sessions stay as they are.     *)
LEMMA SessionsKept ==
  ASSUME IInv, issued' = issued, revoked \subseteq revoked', session' = session, successor' = successor
  PROVE  Sessions'
BY DEF IInv, Sessions, SessionInv, ConsumedIsRevoked, OneLivePerSession

(* Tokens that are made but not stored remain distinct.                    *)
LEMMA FreshKept ==
  ASSUME IInv, NEW h \in Handlers, \A g \in Handlers \ {h} : fresh'[g] = fresh[g],
         fresh'[h] \in {0, fresh[h], made + 1}
  PROVE  FreshDistinct'
<1>1. \A g \in Handlers : fresh[g] # 0 => fresh[g] \in 1..made
  BY DEF IInv, HandlerInv
<1>2. \A g \in Handlers : fresh[g] # made + 1
  BY <1>1 DEF IInv, TypeOK
<1> QED  BY <1>2 DEF IInv, FreshDistinct

(* Where the step of h is only about h.                                    *)
LEMMA Stepped ==
  ASSUME IInv, NEW h \in Handlers, NEW N, Frame(h, N), TxType', RowType', HandlerInv(h)',
         FreshDistinct', Sessions'
  PROVE  IInv'
<1>1. \A g \in Handlers : HandlerInv(g)'
  BY OthersKept
<1> QED  BY <1>1 DEF TxType, RowType, Sessions, IInv, TypeOK

(* A transaction that ends and leaves the rows as they are.                *)
LEMMA EndStep ==
  ASSUME IInv, NEW h \in Handlers, End(h), UNCHANGED <<madeVars, expired, rowVars>>
  PROVE  IInv'
<1> USE DEF IInv
<1>1. UNCHANGED <<made, owner, session, expired, stored, issued, revoked, successor>>
  BY DEF madeVars, rowVars
<1>2. RowType'
  BY <1>1 DEF TypeOK, RowType
<1>3. Frame(h, {})
  BY <1>1, EndFacts, AuthAssumption DEF Frame, Live, TypeOK
<1>4. HandlerInv(h)'
  BY <1>1, EndFacts DEF TypeOK, HandlerInv, Rotating
<1>5. FreshDistinct'
  BY EndFacts, FreshKept
<1>6. Sessions'
  BY <1>1, SessionsKept
<1> QED  BY <1>2, <1>3, <1>4, <1>5, <1>6, EndFacts, Stepped

-------------------------------------------------------------------------------
(* One lemma for each action *)

(* The token a handler makes is new.                                       *)
LEMMA GeneratePairFacts ==
  ASSUME IInv, NEW h \in Handlers, NEW user \in Users \union {NoUser}, NEW first \in 0..MaxToken,
         GeneratePair(h, user, first)
  PROVE  /\ made + 1 \in Tokens /\ made' = made + 1 /\ made + 1 \notin issued
         /\ owner' \in [Tokens -> Users \union {NoUser}] /\ session' \in [Tokens -> 0..MaxToken]
         /\ session'[made + 1] = first
         /\ \A t \in 1..made : owner'[t] = owner[t] /\ session'[t] = session[t]
         /\ fresh' \in [Handlers -> 0..MaxToken] /\ fresh'[h] = made + 1
         /\ \A g \in Handlers \ {h} : fresh'[g] = fresh[g]
<1> USE DEF IInv, TypeOK, GeneratePair, Tokens
<1>1. made + 1 \in Tokens /\ made' = made + 1 /\ made + 1 \notin issued
  BY AuthAssumption
<1>2. owner' \in [Tokens -> Users \union {NoUser}] /\ session' \in [Tokens -> 0..MaxToken]
  OBVIOUS
<1>3. session'[made + 1] = first
  BY <1>1
<1>4. \A t \in 1..made : owner'[t] = owner[t] /\ session'[t] = session[t]
  BY <1>1
<1>5. fresh' \in [Handlers -> 0..MaxToken] /\ fresh'[h] = made + 1
  BY <1>1
<1>6. \A g \in Handlers \ {h} : fresh'[g] = fresh[g]
  OBVIOUS
<1> QED  BY <1>1, <1>2, <1>3, <1>4, <1>5, <1>6

(* Login starts a session with a token of its own.                         *)
LEMMA LoginStep ==
  ASSUME IInv, NEW h \in Handlers, NEW user \in Users, Login(h, user)
  PROVE  IInv'
<1> USE DEF IInv
<1>1. /\ pc[h] = "idle" /\ pc' = [pc EXCEPT ![h] = "insert"] /\ GeneratePair(h, user, made + 1)
      /\ UNCHANGED <<expired, stored, issued, revoked, successor, lock, presented, now, seen, todo, at, hit>>
  BY DEF Login, Goto, rowVars
<1>2. made + 1 \in 0..MaxToken
  BY <1>1, AuthAssumption DEF GeneratePair, TypeOK
<1>3. /\ made + 1 \in Tokens /\ made' = made + 1
      /\ owner' \in [Tokens -> Users \union {NoUser}] /\ session' \in [Tokens -> 0..MaxToken]
      /\ session'[made + 1] = made + 1 /\ made + 1 \notin issued
      /\ \A t \in 1..made : owner'[t] = owner[t] /\ session'[t] = session[t]
      /\ fresh' \in [Handlers -> 0..MaxToken] /\ fresh'[h] = made + 1
      /\ \A g \in Handlers \ {h} : fresh'[g] = fresh[g]
  BY <1>1, <1>2, GeneratePairFacts
<1>4. \A t \in Tokens : lock[t] # h
  BY <1>1, AuthAssumption DEF TypeOK
<1>5. TxType'
  BY <1>1, <1>3, <1>4 DEF TypeOK, TxType, Labels
<1>6. RowType'
  BY <1>1, <1>2, <1>3 DEF TypeOK, RowType
<1>7. Frame(h, {})
  BY <1>1, <1>3, AuthAssumption DEF Frame, Live, TypeOK
<1>8. HandlerInv(h)'
  BY <1>1, <1>3 DEF HandlerInv, Rotating, TypeOK
<1>9. FreshDistinct'
  BY <1>3, FreshKept
<1>10. Sessions'
  BY <1>1, <1>3 DEF TypeOK, Sessions, SessionInv, ConsumedIsRevoked, OneLivePerSession
<1> QED  BY <1>5, <1>6, <1>7, <1>8, <1>9, <1>10, Stepped

(* The session of the token that is stored is new.                         *)
LEMMA SaveRefreshStep ==
  ASSUME IInv, NEW h \in Handlers, SaveRefresh(h)
  PROVE  IInv'
<1> USE DEF IInv
<1> DEFINE f == fresh[h]
<1>1. /\ pc[h] = "insert" /\ End(h)
      /\ stored' = stored \union {f} /\ issued' = issued \union {f}
      /\ UNCHANGED <<made, owner, session, expired, revoked, successor>>
  BY DEF SaveRefresh, madeVars
<1>2. f \in 1..made /\ f \notin issued /\ session[f] = f /\ f # 0
  BY <1>1 DEF HandlerInv
<1>3. RowType'
  BY <1>1, <1>2 DEF TypeOK, RowType
<1>4. Frame(h, {f})
  <2>1. \A g \in Handlers \ {h} : fresh[g] # 0 => fresh[g] # f
    BY <1>2 DEF FreshDistinct
  <2> QED  BY <1>1, <1>2, <2>1, EndFacts, AuthAssumption DEF Frame, Live, TypeOK
<1>5. HandlerInv(h)'
  BY <1>1, EndFacts DEF TypeOK, HandlerInv, Rotating
<1>6. FreshDistinct'
  BY <1>1, EndFacts, FreshKept
<1>7. Sessions'
  <2>1. \A t \in issued : session[t] # f
    BY <1>2 DEF SessionInv
  <2> QED  BY <1>1, <1>2, <2>1 DEF Sessions, SessionInv, ConsumedIsRevoked, OneLivePerSession
<1> QED  BY <1>1, <1>3, <1>4, <1>5, <1>6, <1>7, EndFacts, Stepped

(* A call begins with the time it is.                                      *)
LEMMA RefreshStep ==
  ASSUME IInv, NEW h \in Handlers, NEW t \in issued, Refresh(h, t)
  PROVE  IInv'
<1> USE DEF IInv
<1>1. /\ pc[h] = "idle" /\ pc' = [pc EXCEPT ![h] = "get"]
      /\ presented' = [presented EXCEPT ![h] = t] /\ now' = [now EXCEPT ![h] = expired]
      /\ UNCHANGED <<made, owner, session, expired, stored, issued, revoked, successor, lock,
                     fresh, seen, todo, at, hit>>
  BY DEF Refresh, Goto, rowVars, madeVars
<1>2. \A s \in Tokens : lock[s] # h
  BY <1>1, AuthAssumption DEF TypeOK
<1>3. t \in 0..MaxToken /\ expired \in 0..MaxToken
  BY AuthAssumption DEF TypeOK
<1>4. TxType'
  BY <1>1, <1>2, <1>3 DEF TypeOK, TxType, Labels
<1>5. RowType'
  BY <1>1 DEF TypeOK, RowType
<1>6. Frame(h, {})
  BY <1>1, AuthAssumption DEF Frame, Live, TypeOK
<1>7. HandlerInv(h)'
  BY <1>1, <1>3 DEF HandlerInv, Rotating, TypeOK
<1>8. FreshDistinct'
  BY <1>1, FreshKept
<1>9. Sessions'
  BY <1>1, SessionsKept
<1> QED  BY <1>4, <1>5, <1>6, <1>7, <1>8, <1>9, Stepped

(* The row that is read is locked, and live if it will be rotated.         *)
LEMMA GetTokenForUpdateStep ==
  ASSUME IInv, NEW h \in Handlers, GetTokenForUpdate(h)
  PROVE  IInv'
<1> USE DEF IInv
<1> DEFINE t == presented[h]
<1>1. pc[h] = "get" /\ UNCHANGED <<madeVars, expired, rowVars>>
  BY DEF GetTokenForUpdate
<1>2. CASE End(h)
  BY <1>1, <1>2, EndStep
<1>3. CASE /\ t \in stored
           /\ lock[t] = NoHandler /\ Lock(h, t)
           /\ Goto(h, IF t \in Live THEN "save" ELSE "scan")
           /\ UNCHANGED txVars
  <2>1. /\ lock' = [lock EXCEPT ![t] = h]
        /\ pc' = [pc EXCEPT ![h] = IF t \in Live THEN "save" ELSE "scan"]
        /\ UNCHANGED <<made, owner, session, expired, stored, issued, revoked, successor,
                       presented, fresh, now, seen, todo, at, hit>>
    BY <1>1, <1>3 DEF Lock, Goto, rowVars, madeVars, txVars
  <2>2. t \in issued /\ t \in Tokens
    BY <1>3, AuthAssumption DEF TypeOK, Tokens
  <2>3. fresh[h] = 0 /\ now[h] <= expired /\ \A s \in hit[h] : lock[s] = h
    BY <1>1 DEF HandlerInv
  <2>4. TxType'
    <3>1. pc' \in [Handlers -> Labels] /\ pc'[h] \in {"save", "scan"}
      BY <2>1 DEF TypeOK, Labels
    <3>2. lock' \in [Tokens -> Handlers \union {NoHandler}]
      BY <2>1 DEF TypeOK
    <3>3. \A s \in Tokens : lock'[s] # NoHandler => pc'[lock'[s]] \notin {"idle", "insert", "get"}
      BY <2>1, <2>2, <3>1 DEF TypeOK
    <3> QED  BY <2>1, <3>1, <3>2, <3>3 DEF TypeOK, TxType
  <2>5. RowType'
    BY <2>1 DEF TypeOK, RowType
  <2>6. Frame(h, {})
    BY <1>3, <2>1, <2>2, AuthAssumption DEF Frame, Live, TypeOK
  <2>7. HandlerInv(h)'
    <3>1. pc'[h] = "save" => t \in Live
      BY <2>1 DEF TypeOK
    <3>2. lock'[t] = h /\ pc'[h] \in {"save", "scan"} /\ \A s \in hit[h] : lock'[s] = h
      BY <1>3, <2>1, <2>2, <2>3 DEF TypeOK
    <3> QED  BY <2>1, <2>2, <2>3, <3>1, <3>2 DEF HandlerInv, Rotating, Live
  <2>8. FreshDistinct'
    BY <2>1, FreshKept
  <2>9. Sessions'
    BY <2>1, SessionsKept
  <2> QED  BY <2>4, <2>5, <2>6, <2>7, <2>8, <2>9, Stepped
<1> QED  BY <1>2, <1>3 DEF GetTokenForUpdate

(* The successor belongs to the session of the token that is held.         *)
LEMMA SaveRefreshTxStep ==
  ASSUME IInv, NEW h \in Handlers, SaveRefreshTx(h)
  PROVE  IInv'
<1> USE DEF IInv
<1> DEFINE t == presented[h]
<1>1. /\ pc[h] = "save" /\ pc' = [pc EXCEPT ![h] = "mark"]
      /\ GeneratePair(h, owner[t], session[t])
      /\ UNCHANGED <<expired, stored, issued, revoked, successor, lock, presented, now, seen, todo, at, hit>>
  BY DEF SaveRefreshTx, Goto, rowVars
<1>2. /\ t \in Live /\ lock[t] = h /\ t \in issued /\ t \in 1..made /\ t \in Tokens
      /\ owner[t] \in Users \union {NoUser} /\ session[t] \in 0..MaxToken
  BY <1>1, AuthAssumption DEF HandlerInv, Rotating, Live, TypeOK, Tokens
<1>3. /\ made + 1 \in Tokens /\ made' = made + 1
      /\ owner' \in [Tokens -> Users \union {NoUser}] /\ session' \in [Tokens -> 0..MaxToken]
      /\ session'[made + 1] = session[t] /\ made + 1 \notin issued
      /\ \A s \in 1..made : owner'[s] = owner[s] /\ session'[s] = session[s]
      /\ fresh' \in [Handlers -> 0..MaxToken] /\ fresh'[h] = made + 1
      /\ \A g \in Handlers \ {h} : fresh'[g] = fresh[g]
  BY <1>1, <1>2, GeneratePairFacts
<1>4. made + 1 \in 0..MaxToken
  BY <1>3 DEF Tokens
<1>5. TxType'
  <2>1. pc' \in [Handlers -> Labels]
    BY <1>1 DEF TypeOK, Labels
  <2>2. \A s \in Tokens : lock'[s] # NoHandler => pc'[lock'[s]] \notin {"idle", "insert", "get"}
    BY <1>1 DEF TypeOK
  <2>3. UNCHANGED <<lock, presented, now, seen, todo, at, hit>>
    BY <1>1
  <2>4. fresh' \in [Handlers -> 0..MaxToken]
    BY <1>3
  <2> QED  BY <2>1, <2>2, <2>3, <2>4 DEF TypeOK, TxType
<1>6. RowType'
  BY <1>1, <1>3, <1>4 DEF TypeOK, RowType
<1>7. Frame(h, {})
  BY <1>1, <1>3, AuthAssumption DEF Frame, Live, TypeOK
<1>8. HandlerInv(h)'
  BY <1>1, <1>2, <1>3 DEF HandlerInv, Rotating, TypeOK, Live
<1>9. FreshDistinct'
  BY <1>3, FreshKept
<1>10. Sessions'
  BY <1>1, <1>3 DEF TypeOK, Sessions, SessionInv, ConsumedIsRevoked, OneLivePerSession
<1> QED  BY <1>5, <1>6, <1>7, <1>8, <1>9, <1>10, Stepped

(* The UPDATE finds the row already locked by its own transaction.         *)
LEMMA MarkTokenAsConsumedTxStep ==
  ASSUME IInv, NEW h \in Handlers, MarkTokenAsConsumedTx(h)
  PROVE  IInv'
<1> USE DEF IInv
<1> DEFINE t == presented[h]
<1>1. /\ pc[h] = "mark" /\ pc' = [pc EXCEPT ![h] = "commit"] /\ lock' = [lock EXCEPT ![t] = h]
      /\ UNCHANGED <<made, owner, session, expired, stored, issued, revoked, successor,
                     presented, fresh, now, seen, todo, at, hit>>
  BY DEF MarkTokenAsConsumedTx, Goto, Lock, rowVars, madeVars, txVars
<1>2. t \in Live /\ lock[t] = h /\ t \in issued /\ t \in Tokens
  BY <1>1, AuthAssumption DEF HandlerInv, Rotating, Live, TypeOK, Tokens
<1>3. lock' = lock
  BY <1>1, <1>2 DEF TypeOK
<1>4. TxType'
  <2>1. pc' \in [Handlers -> Labels]
    BY <1>1 DEF TypeOK, Labels
  <2>2. \A s \in Tokens : lock'[s] # NoHandler => pc'[lock'[s]] \notin {"idle", "insert", "get"}
    BY <1>1, <1>3 DEF TypeOK
  <2> QED  BY <1>1, <1>3, <2>1, <2>2 DEF TypeOK, TxType
<1>5. RowType'
  BY <1>1 DEF TypeOK, RowType
<1>6. Frame(h, {})
  BY <1>1, <1>3, AuthAssumption DEF Frame, Live, TypeOK
<1>7. HandlerInv(h)'
  BY <1>1, <1>2, <1>3 DEF HandlerInv, Rotating, TypeOK, Live
<1>8. FreshDistinct'
  BY <1>1, FreshKept
<1>9. Sessions'
  BY <1>1, SessionsKept
<1> QED  BY <1>4, <1>5, <1>6, <1>7, <1>8, <1>9, Stepped

(* The held token was the live one of its session and is revoked as its    *)
(* successor appears.                                                      *)
LEMMA CommitRotationStep ==
  ASSUME IInv, NEW h \in Handlers, CommitRotation(h)
  PROVE  IInv'
<1> USE DEF IInv
<1> DEFINE t == presented[h]
           f == fresh[h]
<1>1. /\ pc[h] = "commit" /\ End(h)
      /\ stored' = stored \union {f} /\ issued' = issued \union {f}
      /\ revoked' = revoked \union ({t} \intersect stored)
      /\ successor' = [successor EXCEPT ![t] = f]
      /\ UNCHANGED <<made, owner, session, expired>>
  BY DEF CommitRotation, madeVars
<1>2. /\ t \in stored /\ t \notin revoked /\ lock[t] = h /\ t \in issued /\ t \in Tokens
      /\ f \in 1..made /\ f \notin issued /\ f # 0 /\ session[f] = session[t] /\ f \in 0..MaxToken
  BY <1>1, AuthAssumption DEF HandlerInv, Rotating, Live, TypeOK, Tokens
<1>3. revoked' = revoked \union {t}
  BY <1>1, <1>2
<1>4. RowType'
  BY <1>1, <1>2, <1>3 DEF TypeOK, RowType
<1>5. Frame(h, {f})
  <2>1. \A g \in Handlers \ {h} : fresh[g] # 0 => fresh[g] # f
    BY <1>2 DEF FreshDistinct
  <2>2. \A g \in Handlers \ {h}, s \in Tokens : lock[s] = g /\ s \in Live => s \in Live'
    BY <1>1, <1>2, <1>3 DEF Live
  <2> QED  BY <1>1, <1>2, <1>3, <2>1, <2>2, EndFacts, AuthAssumption DEF Frame, TypeOK
<1>6. HandlerInv(h)'
  BY <1>1, EndFacts DEF TypeOK, HandlerInv, Rotating
<1>7. FreshDistinct'
  BY <1>1, EndFacts, FreshKept
<1>8. Sessions'
  <2>1. SessionInv'
    BY <1>1, <1>2 DEF SessionInv
  <2>2. ConsumedIsRevoked'
    BY <1>1, <1>2, <1>3 DEF ConsumedIsRevoked, TypeOK
  <2>3. \A s \in issued : session[s] = session[t] /\ s \notin revoked => s = t
    BY <1>2 DEF OneLivePerSession
  <2>4. OneLivePerSession'
    BY <1>1, <1>2, <1>3, <2>3 DEF OneLivePerSession
  <2> QED  BY <2>1, <2>2, <2>4 DEF Sessions
<1> QED  BY <1>1, <1>4, <1>5, <1>6, <1>7, <1>8, EndFacts, Stepped

(* The row an UPDATE comes to is one of the table's.                       *)
LEMMA ComeToType ==
  ASSUME TypeOK, NEW h \in Handlers, NEW S \in SUBSET Tokens, ComeTo(h, S)
  PROVE  at' \in [Handlers -> 0..MaxToken]
<1>1. PICK t \in (IF S = {} THEN {0} ELSE S) : at' = [at EXCEPT ![h] = t]
  BY DEF ComeTo
<1>2. t \in 0..MaxToken
  BY AuthAssumption DEF Tokens
<1> QED  BY <1>1, <1>2 DEF TypeOK

(* The UPDATE begins with every committed row it has to change.            *)
LEMMA ScanTokensStep ==
  ASSUME IInv, NEW h \in Handlers, ScanTokens(h)
  PROVE  IInv'
<1> USE DEF IInv
<1> DEFINE found == {t \in Live : owner[t] = owner[presented[h]] /\ t > now[h]}
<1>1. /\ pc[h] = "scan" /\ pc' = [pc EXCEPT ![h] = "revoke"]
      /\ seen' = [seen EXCEPT ![h] = issued] /\ todo' = [todo EXCEPT ![h] = found]
      /\ ComeTo(h, found)
      /\ UNCHANGED <<made, owner, session, expired, stored, issued, revoked, successor, lock,
                     presented, fresh, now, hit>>
  BY DEF ScanTokens, Goto, rowVars, madeVars
<1>2. issued \subseteq Tokens /\ found \subseteq issued
  <2>1. issued \subseteq Tokens
    BY AuthAssumption DEF TypeOK, Tokens
  <2>2. found \subseteq issued
    BY DEF TypeOK, Live
  <2> QED  BY <2>1, <2>2
<1>3. TxType'
  <2>1. pc' \in [Handlers -> Labels]
    BY <1>1 DEF TypeOK, Labels
  <2>2. \A s \in Tokens : lock'[s] # NoHandler => pc'[lock'[s]] \notin {"idle", "insert", "get"}
    BY <1>1 DEF TypeOK
  <2>3. seen' \in [Handlers -> SUBSET Tokens] /\ todo' \in [Handlers -> SUBSET Tokens]
    BY <1>1, <1>2 DEF TypeOK
  <2>4. at' \in [Handlers -> 0..MaxToken]
    BY <1>1, <1>2, ComeToType
  <2> QED  BY <1>1, <2>1, <2>2, <2>3, <2>4 DEF TypeOK, TxType
<1>4. RowType'
  BY <1>1 DEF TypeOK, RowType
<1>5. Frame(h, {})
  BY <1>1, AuthAssumption DEF Frame, Live, TypeOK
<1>6. HandlerInv(h)'
  <2>1. /\ pc'[h] = "revoke" /\ seen'[h] = issued /\ todo'[h] = found /\ hit'[h] = hit[h]
        /\ fresh[h] = 0 /\ presented[h] \in issued /\ now[h] <= expired
        /\ hit[h] \subseteq issued /\ \A t \in hit[h] : lock[t] = h
    BY <1>1 DEF HandlerInv, TypeOK
  <2>2. \A t \in issued \intersect stored :
          owner[t] = owner[presented[h]] => t \in revoked \union hit[h] \union found \/ t <= now[h]
    BY DEF Live, TypeOK
  <2> QED  BY <1>1, <1>2, <2>1, <2>2 DEF HandlerInv, Rotating
<1>7. FreshDistinct'
  BY <1>1, FreshKept
<1>8. Sessions'
  BY <1>1, SessionsKept
<1> QED  BY <1>3, <1>4, <1>5, <1>6, <1>7, <1>8, Stepped

(* A row leaves todo changed and locked, or because it no longer matches.  *)
LEMMA RevokeTokenStep ==
  ASSUME IInv, NEW h \in Handlers, NEW t \in Tokens, RevokeToken(h, t)
  PROVE  IInv'
<1> USE DEF IInv
<1>1. /\ pc[h] = "revoke" /\ t \in todo[h] /\ lock[t] \in {h, NoHandler}
      /\ todo' = [todo EXCEPT ![h] = todo[h] \ {t}] /\ ComeTo(h, todo[h] \ {t})
      /\ UNCHANGED <<made, owner, session, expired, stored, issued, revoked, successor,
                     pc, presented, fresh, now, seen>>
      /\ \/ t \in Live /\ hit' = [hit EXCEPT ![h] = hit[h] \union {t}] /\ lock' = [lock EXCEPT ![t] = h]
         \/ t \notin Live /\ UNCHANGED <<hit, lock>>
  BY DEF RevokeToken, Lock, rowVars, madeVars
<1>2. TxType'
  <2>1. hit' \in [Handlers -> SUBSET Tokens] /\ todo' \in [Handlers -> SUBSET Tokens]
        /\ lock' \in [Tokens -> Handlers \union {NoHandler}]
    BY <1>1 DEF TypeOK
  <2>2. \A s \in Tokens : lock'[s] # NoHandler => lock'[s] \in {lock[s], h}
    BY <1>1 DEF TypeOK
  <2>3. \A s \in Tokens : lock'[s] # NoHandler => pc'[lock'[s]] \notin {"idle", "insert", "get"}
    BY <1>1, <2>2 DEF TypeOK
  <2>4. at' \in [Handlers -> 0..MaxToken]
    <3>1. todo[h] \ {t} \in SUBSET Tokens
      BY DEF TypeOK
    <3> QED  BY <1>1, <3>1, ComeToType
  <2> QED  BY <1>1, <2>1, <2>3, <2>4 DEF TypeOK, TxType
<1>3. RowType'
  BY <1>1 DEF TypeOK, RowType
<1>4. Frame(h, {})
  <2>1. \A g \in Handlers \ {h}, s \in Tokens : lock[s] = g => lock'[s] = g
    BY <1>1, AuthAssumption DEF TypeOK
  <2> QED  BY <1>1, <2>1, AuthAssumption DEF Frame, Live, TypeOK
<1>5. HandlerInv(h)'
  <2>1. /\ todo'[h] = todo[h] \ {t} /\ hit'[h] \in SUBSET Tokens
        /\ t \in Live => t \in hit'[h]
        /\ hit[h] \subseteq hit'[h] /\ hit'[h] \subseteq hit[h] \union {t}
        /\ t \in hit'[h] => lock'[t] = h \/ t \in hit[h]
    BY <1>1 DEF TypeOK
  <2>2. \A s \in hit'[h] : lock'[s] = h
    BY <1>1, <2>1 DEF HandlerInv, TypeOK
  <2>3. \A s \in seen[h] \intersect stored :
          owner[s] = owner[presented[h]] =>
            s \in revoked \union hit'[h] \union todo'[h] \/ s <= now[h]
    BY <1>1, <2>1 DEF HandlerInv, Live
  <2> QED  BY <1>1, <2>1, <2>2, <2>3 DEF HandlerInv, Rotating
<1>6. FreshDistinct'
  BY <1>1, FreshKept
<1>7. Sessions'
  BY <1>1, SessionsKept
<1> QED  BY <1>2, <1>3, <1>4, <1>5, <1>6, <1>7, Stepped

(* What is revoked was locked, so nobody rotates it.                       *)
LEMMA CommitRevocationStep ==
  ASSUME IInv, NEW h \in Handlers, CommitRevocation(h)
  PROVE  IInv'
<1> USE DEF IInv
<1>1. /\ End(h) /\ revoked' = revoked \union hit[h]
      /\ UNCHANGED <<made, owner, session, expired, stored, issued, successor>>
  BY DEF CommitRevocation, madeVars
<1>2. hit[h] \subseteq issued /\ \A t \in hit[h] : lock[t] = h
  BY DEF HandlerInv
<1>3. RowType'
  BY <1>1, <1>2 DEF TypeOK, RowType
<1>4. Frame(h, {})
  <2>1. \A g \in Handlers \ {h}, s \in Tokens : lock[s] = g /\ s \in Live => s \in Live'
    BY <1>1, <1>2 DEF Live
  <2> QED  BY <1>1, <2>1, EndFacts, AuthAssumption DEF Frame, TypeOK
<1>5. HandlerInv(h)'
  BY <1>1, EndFacts DEF TypeOK, HandlerInv, Rotating
<1>6. FreshDistinct'
  BY <1>1, EndFacts, FreshKept
<1>7. Sessions'
  BY <1>1, SessionsKept
<1> QED  BY <1>1, <1>3, <1>4, <1>5, <1>6, <1>7, EndFacts, Stepped

(* Time and the cleanup do not touch rows that are locked.                 *)
LEMMA WorkerStep ==
  ASSUME IInv, Expire \/ DeleteExpiredTokens
  PROVE  IInv'
<1> USE DEF IInv
<1>1. /\ UNCHANGED <<made, owner, session, issued, revoked, successor, lock, pc,
                     presented, fresh, now, seen, todo, at, hit>>
      /\ expired' \in 0..made /\ expired <= expired' /\ stored' \subseteq stored
  BY AuthAssumption DEF Expire, DeleteExpiredTokens, Deletable, madeVars, rowVars, txVars, TypeOK
<1>2. \A t \in Tokens : lock[t] # NoHandler /\ t \in stored => t \in stored'
  BY DEF Expire, DeleteExpiredTokens, Deletable, rowVars
<1>3. TxType' /\ RowType'
  BY <1>1 DEF TypeOK, TxType, RowType
<1>4. Frame(NoHandler, {})
  BY <1>1, <1>2, AuthAssumption DEF Frame, Live, TypeOK
<1>5. \A g \in Handlers : HandlerInv(g)'
  BY <1>4, OthersKept, AuthAssumption
<1>6. FreshDistinct'
  <2>1. FreshDistinct /\ fresh' = fresh
    BY <1>1
  <2> QED  BY <2>1 DEF FreshDistinct
<1>7. Sessions'
  BY <1>1, SessionsKept
<1> QED  BY <1>3, <1>5, <1>6, <1>7 DEF TxType, RowType, Sessions, TypeOK

-------------------------------------------------------------------------------
(* Theorems *)

(* Handlers, row locks and rows agree in every reachable state.            *)
THEOREM AuthInvariance == Spec => []IInv
<1>1. Init => IInv
  <2> SUFFICES ASSUME Init PROVE IInv
    OBVIOUS
  <2>1. TypeOK
    BY AuthAssumption DEF Init, TypeOK, Labels
  <2>2. \A h \in Handlers : HandlerInv(h)
    BY DEF Init, HandlerInv, Rotating
  <2>3. FreshDistinct /\ SessionInv /\ ConsumedIsRevoked /\ OneLivePerSession
    BY DEF Init, FreshDistinct, SessionInv, ConsumedIsRevoked, OneLivePerSession
  <2> QED  BY <2>1, <2>2, <2>3 DEF IInv
<1>2. IInv /\ [Next]_vars => IInv'
  <2> SUFFICES ASSUME IInv, [Next]_vars PROVE IInv'
    OBVIOUS
  <2>1. ASSUME NEW h \in Handlers, Call(h) PROVE IInv'
    BY <2>1, LoginStep, RefreshStep DEF Call
  <2>2. ASSUME NEW h \in Handlers, Progress(h) PROVE IInv'
    BY <2>2, SaveRefreshStep, GetTokenForUpdateStep, SaveRefreshTxStep, MarkTokenAsConsumedTxStep,
       CommitRotationStep, ScanTokensStep, RevokeTokenStep, CommitRevocationStep DEF Progress
  <2>3. ASSUME NEW h \in Handlers, CallFails(h) PROVE IInv'
    BY <2>3, EndStep DEF CallFails
  <2>4. CASE Expire \/ DeleteExpiredTokens
    BY <2>4, WorkerStep
  <2>5. CASE UNCHANGED vars
    <3>1. UNCHANGED <<made, owner, session, expired, stored, issued, revoked, successor, lock, pc,
                      presented, fresh, now, seen, todo, at, hit>>
      BY <2>5 DEF vars, madeVars, rowVars, txVars
    <3>2. TypeOK'
      BY <3>1 DEF IInv, TypeOK
    <3>3. \A h \in Handlers : HandlerInv(h)'
      BY <3>1 DEF IInv, HandlerInv, Rotating, Live
    <3>4. FreshDistinct' /\ SessionInv' /\ ConsumedIsRevoked' /\ OneLivePerSession'
      BY <3>1 DEF IInv, FreshDistinct, SessionInv, ConsumedIsRevoked, OneLivePerSession
    <3> QED  BY <3>2, <3>3, <3>4 DEF IInv
  <2> QED  BY <2>1, <2>2, <2>3, <2>4, <2>5 DEF Next
<1> QED  BY <1>1, <1>2, PTL DEF Spec

(* The variables of AuthTokens have their types.                           *)
THEOREM AuthTypeCorrect == Spec => []TypeOK
<1>1. IInv => TypeOK  BY DEF IInv
<1> QED  BY <1>1, AuthInvariance, PTL

(* A session never has two tokens that can be refreshed.                   *)
THEOREM OneLivePerSessionCorrect == Spec => []OneLivePerSession
<1>1. IInv => OneLivePerSession  BY DEF IInv
<1> QED  BY <1>1, AuthInvariance, PTL

(* What a rotation has read is true until its COMMIT.                      *)
THEOREM HeldTokenStaysValidCorrect == Spec => []HeldTokenStaysValid
<1>1. IInv => HeldTokenStaysValid
  BY DEF IInv, HandlerInv, Rotating, HeldTokenStaysValid
<1> QED  BY <1>1, AuthInvariance, PTL

(* A revocation leaves no token alive that was stored when it began.       *)
THEOREM RevocationCoversSeenCorrect == Spec => []RevocationCoversSeen
<1>1. IInv => RevocationCoversSeen
  <2> SUFFICES ASSUME IInv, NEW h \in Handlers, pc[h] = "revoke", todo[h] = {},
                      NEW t \in seen[h] \intersect stored, owner[t] = owner[presented[h]]
               PROVE  t \in revoked \union hit[h] \/ t <= expired
    BY DEF RevocationCoversSeen
  <2>1. HandlerInv(h) /\ now[h] \in Nat /\ expired \in Nat /\ t \in Nat
    BY AuthAssumption DEF IInv, TypeOK, Tokens
  <2> QED  BY <2>1 DEF HandlerInv
<1> QED  BY <1>1, AuthInvariance, PTL

(* A token gets at most one successor.                                     *)
THEOREM ConsumedOnceCorrect == Spec => ConsumedOnce
<1> DEFINE Once == \A t \in Tokens : successor[t] # 0 => successor'[t] = successor[t]
<1>1. IInv /\ [Next]_vars => [Once]_vars
  <2> SUFFICES ASSUME IInv, Next PROVE Once
    OBVIOUS
  <2>1. ASSUME NEW h \in Handlers, CommitRotation(h) PROVE Once
    <3>1. presented[h] \in Live /\ successor' = [successor EXCEPT ![presented[h]] = fresh[h]]
      BY <2>1 DEF CommitRotation, IInv, HandlerInv, Rotating
    <3>2. \A t \in Tokens : successor[t] # 0 => t # presented[h]
      BY <3>1 DEF IInv, ConsumedIsRevoked, Live
    <3> QED  BY <3>1, <3>2 DEF IInv, TypeOK
  <2>2. CASE UNCHANGED successor
    BY <2>2
  <2>3. (\E h \in Handlers : CommitRotation(h)) \/ UNCHANGED successor
    BY DEF Next, Call, Progress, Login, Refresh, SaveRefresh, GetTokenForUpdate, SaveRefreshTx,
           MarkTokenAsConsumedTx, ScanTokens, RevokeToken, CommitRevocation, CallFails, Expire,
           DeleteExpiredTokens, rowVars
  <2> QED  BY <2>1, <2>2, <2>3
<1> QED  BY <1>1, AuthInvariance, PTL DEF Spec, ConsumedOnce
-------------------------------------------------------------------------------
(* Circles of waits *)

(* A revocation was shown a token that was revoked before, and others have *)
(* changed no rows.                                                        *)
ReplayInv(h) ==
  /\ pc[h] # "revoke" => hit[h] = {}
  /\ pc[h] \in {"scan", "revoke"} => presented[h] \in revoked

(* What a step of h does to the rest of the handlers as far as ReplayInv   *)
(* is concerned.                                                           *)
Apart(h) ==
  /\ revoked \subseteq revoked'
  /\ \A g \in Handlers \ {h} :
       /\ pc'[g] = pc[g] /\ presented'[g] = presented[g]
       /\ todo'[g] = todo[g] /\ hit'[g] = hit[g]

LEMMA ApartKeeps ==
  ASSUME NEW h, Apart(h), NEW g \in Handlers \ {h}, ReplayInv(g)
  PROVE  ReplayInv(g)'
BY DEF Apart, ReplayInv

(* The end of a transaction. *)
LEMMA EndReplay ==
  ASSUME TypeOK, NEW h \in Handlers, End(h), revoked \subseteq revoked'
  PROVE  Apart(h) /\ ReplayInv(h)'
<1>1. Apart(h)
  BY EndFacts DEF Apart
<1>2. ReplayInv(h)'
  BY EndFacts DEF ReplayInv
<1> QED  BY <1>1, <1>2

(* A revocation begins with a token that has been revoked.                 *)
LEMMA GetTokenReplay ==
  ASSUME IInv, NEW h \in Handlers, ReplayInv(h), GetTokenForUpdate(h)
  PROVE  Apart(h) /\ ReplayInv(h)'
<1> DEFINE t == presented[h]
<1>1. TypeOK /\ pc[h] = "get" /\ revoked' = revoked
  BY DEF IInv, GetTokenForUpdate, rowVars
<1>2. CASE End(h)
  BY <1>1, <1>2, EndReplay
<1>3. CASE /\ t \in stored
           /\ lock[t] = NoHandler /\ Lock(h, t)
           /\ Goto(h, IF t \in Live THEN "save" ELSE "scan")
           /\ UNCHANGED txVars
  <2>1. /\ lock' = [lock EXCEPT ![t] = h]
        /\ pc' = [pc EXCEPT ![h] = IF t \in Live THEN "save" ELSE "scan"]
        /\ UNCHANGED <<presented, todo, at, hit>>
    BY <1>3 DEF Lock, Goto, txVars
  <2>2. Apart(h)
    BY <1>1, <2>1 DEF Apart, TypeOK
  <2>3. pc'[h] \in {"save", "scan"} /\ (pc'[h] = "scan" => t \in revoked)
    BY <1>1, <1>3, <2>1 DEF TypeOK, Live
  <2>4. ReplayInv(h)'
    BY <1>1, <2>1, <2>3 DEF ReplayInv, TypeOK
  <2> QED  BY <2>2, <2>4
<1> QED  BY <1>2, <1>3 DEF GetTokenForUpdate

(* A row that is changed belongs to a revocation. *)
LEMMA RevokeTokenReplay ==
  ASSUME IInv, NEW h \in Handlers, ReplayInv(h), NEW t \in Tokens, RevokeToken(h, t)
  PROVE  Apart(h) /\ ReplayInv(h)'
<1>1. /\ TypeOK /\ pc[h] = "revoke"
      /\ todo' = [todo EXCEPT ![h] = todo[h] \ {t}]
      /\ UNCHANGED <<revoked, pc, presented>>
      /\ hit' = [hit EXCEPT ![h] = hit[h] \union {t}] \/ UNCHANGED hit
  BY DEF IInv, RevokeToken, rowVars
<1>2. Apart(h)
  BY <1>1 DEF Apart, TypeOK
<1>3. ReplayInv(h)'
  BY <1>1 DEF ReplayInv
<1> QED  BY <1>2, <1>3

(* All steps of a handler. *)
LEMMA HandlerReplay ==
  ASSUME IInv, NEW h \in Handlers, ReplayInv(h), Call(h) \/ Progress(h) \/ CallFails(h)
  PROVE  Apart(h) /\ ReplayInv(h)'
<1>1. TypeOK
  BY DEF IInv
<1>2. CASE SaveRefresh(h) \/ CommitRotation(h) \/ CommitRevocation(h) \/ CallFails(h)
  BY <1>1, <1>2, EndReplay
  DEF SaveRefresh, CommitRotation, CommitRevocation, CallFails, rowVars
<1>3. CASE Call(h) \/ SaveRefreshTx(h)
  <2>1. \E label \in {"insert", "get", "mark"} : pc' = [pc EXCEPT ![h] = label]
    BY <1>3 DEF Call, Login, Refresh, SaveRefreshTx, Goto
  <2>2. pc[h] \in {"idle", "save"} /\ UNCHANGED <<revoked, lock, todo, at, hit>>
    BY <1>3 DEF Call, Login, Refresh, SaveRefreshTx, rowVars
  <2>3. \A g \in Handlers \ {h} : presented'[g] = presented[g]
    BY <1>1, <1>3 DEF Call, Login, Refresh, SaveRefreshTx, TypeOK
  <2> QED  BY <1>1, <2>1, <2>2, <2>3 DEF Apart, ReplayInv, TypeOK
<1>4. CASE MarkTokenAsConsumedTx(h)
  <2>1. /\ pc' = [pc EXCEPT ![h] = "commit"] /\ lock' = [lock EXCEPT ![presented[h]] = h]
        /\ pc[h] = "mark" /\ UNCHANGED <<revoked, presented, todo, at, hit>>
    BY <1>4 DEF MarkTokenAsConsumedTx, Goto, Lock, rowVars, txVars
  <2> QED  BY <1>1, <2>1 DEF Apart, ReplayInv, TypeOK
<1>5. CASE ScanTokens(h)
  <2>1. /\ pc' = [pc EXCEPT ![h] = "revoke"] /\ pc[h] = "scan"
        /\ UNCHANGED <<revoked, lock, presented, hit>>
        /\ \A g \in Handlers \ {h} : todo'[g] = todo[g]
    BY <1>1, <1>5 DEF ScanTokens, Goto, rowVars, TypeOK
  <2> QED  BY <1>1, <2>1 DEF Apart, ReplayInv, TypeOK
<1> QED  BY <1>2, <1>3, <1>4, <1>5, GetTokenReplay, RevokeTokenReplay DEF Progress

LEMMA ReplayCorrect == Spec => [](\A g \in Handlers : ReplayInv(g))
<1> DEFINE Inv == \A g \in Handlers : ReplayInv(g)
<1>1. Init => Inv
  BY DEF Init, ReplayInv
<1>2. IInv /\ Inv /\ [Next]_vars => Inv'
  <2> SUFFICES ASSUME IInv, Inv, [Next]_vars, NEW g \in Handlers
               PROVE  ReplayInv(g)'
    OBVIOUS
  <2>1. ASSUME NEW h \in Handlers, Call(h) \/ Progress(h) \/ CallFails(h)
        PROVE  ReplayInv(g)'
    BY <2>1, HandlerReplay, ApartKeeps
  <2>2. CASE Expire \/ DeleteExpiredTokens \/ UNCHANGED vars
    <3>1. UNCHANGED <<revoked, lock, pc, presented, todo, at, hit>>
      BY <2>2 DEF Expire, DeleteExpiredTokens, vars, rowVars, txVars
    <3> QED  BY <3>1 DEF ReplayInv
  <2> QED  BY <2>1, <2>2 DEF Next
<1> QED  BY <1>1, <1>2, AuthInvariance, PTL DEF Spec

(* Who waits in a circle also holds a row, so it is a revocation.          *)
LEMMA CircleRevokes ==
  ASSUME IInv, NEW S \in SUBSET Handlers, Deadlocked(S), NEW h \in S
  PROVE  pc[h] = "revoke"
<1>1. PICK g \in S : WaitsFor(h, g)
  BY DEF Deadlocked
<1>2. PICK f \in S : WaitsFor(f, h)
  BY DEF Deadlocked
<1>3. pc[h] \notin {"idle", "insert", "get"}
  BY <1>2, AuthAssumption DEF WaitsFor, IInv, TypeOK
<1>4. pc[h] = "mark" => lock[presented[h]] = h
  BY DEF IInv, HandlerInv, Rotating
<1> QED  BY <1>1, <1>3, <1>4 DEF WaitsFor, AwaitsRow

(* Calls wait in a circle only when each of them revokes because of a      *)
(* token that was revoked before: the others hold no row while they wait,  *)
(* or wait only for the row they hold.                                     *)
THEOREM CirclesAreReplaysCorrect == Spec => []CirclesAreReplays
<1>1. IInv /\ (\A g \in Handlers : ReplayInv(g)) => CirclesAreReplays
  <2> SUFFICES ASSUME IInv, \A g \in Handlers : ReplayInv(g),
                      NEW S \in SUBSET Handlers, Deadlocked(S), NEW h \in S
               PROVE  pc[h] = "revoke" /\ presented[h] \in revoked
    BY DEF CirclesAreReplays
  <2> QED  BY CircleRevokes DEF ReplayInv
<1> QED  BY <1>1, AuthInvariance, ReplayCorrect, PTL

-------------------------------------------------------------------------------
(* Refinement *)

(* What a revocation is about to change is alive, locked as it is, and     *)
(* belongs to the user of the token that was presented.                    *)
RevokeInv(h) ==
  /\ hit[h] \subseteq Live
  /\ pc[h] = "revoke" => \A t \in hit[h] \union todo[h] : owner[t] = owner[presented[h]]

(* What a step of h leaves alone in the rows: the owner of a stored token, *)
(* and the rows that others have locked.                                   *)
Beside(h) ==
  /\ \A t \in issued : owner'[t] = owner[t]
  /\ \A t \in Tokens : (lock[t] \notin {h, NoHandler} /\ t \in Live) => t \in Live'

LEMMA HandlerBeside ==
  ASSUME IInv, NEW h \in Handlers, Call(h) \/ Progress(h) \/ CallFails(h)
  PROVE  Beside(h)
<1> USE DEF IInv
<1>1. \A t \in issued : owner'[t] = owner[t]
  <2>1. CASE UNCHANGED owner
    BY <2>1
  <2>2. ASSUME NEW user, NEW first, GeneratePair(h, user, first)
        PROVE  \A t \in issued : owner'[t] = owner[t]
    BY <2>2 DEF GeneratePair, TypeOK, Tokens
  <2>3. UNCHANGED owner \/ \E user, first : GeneratePair(h, user, first)
    BY DEF Call, Progress, Login, Refresh, SaveRefresh, GetTokenForUpdate, SaveRefreshTx,
           MarkTokenAsConsumedTx, CommitRotation, ScanTokens, RevokeToken, CommitRevocation,
           CallFails, madeVars
  <2> QED  BY <2>1, <2>2, <2>3
<1>2. ASSUME NEW t \in Tokens, lock[t] \notin {h, NoHandler}, t \in Live
      PROVE  t \in Live'
  <2>1. CASE CommitRotation(h)
    <3>1. lock[presented[h]] = h
      BY <2>1 DEF CommitRotation, HandlerInv, Rotating
    <3> QED  BY <1>2, <2>1, <3>1 DEF CommitRotation, Live
  <2>2. CASE CommitRevocation(h)
    <3>1. \A s \in hit[h] : lock[s] = h
      BY DEF HandlerInv
    <3> QED  BY <1>2, <2>2, <3>1 DEF CommitRevocation, Live
  <2>3. CASE ~CommitRotation(h) /\ ~CommitRevocation(h)
    <3>1. stored \subseteq stored' /\ revoked' = revoked
      BY <2>3 DEF Call, Progress, Login, Refresh, SaveRefresh, GetTokenForUpdate, SaveRefreshTx,
           MarkTokenAsConsumedTx, ScanTokens, RevokeToken, CallFails, rowVars
    <3> QED  BY <1>2, <3>1 DEF Live
  <2> QED  BY <2>1, <2>2, <2>3
<1> QED  BY <1>1, <1>2 DEF Beside

(* The other handlers' revocations go on undisturbed.                      *)
LEMMA RevokeOthers ==
  ASSUME IInv, NEW h, Apart(h), Beside(h), NEW g \in Handlers \ {h}, RevokeInv(g)
  PROVE  RevokeInv(g)'
<1>1. HandlerInv(g) /\ g # NoHandler
  BY AuthAssumption DEF IInv
<1>2. /\ hit[g] \union todo[g] \subseteq issued /\ issued \subseteq Tokens
      /\ \A t \in hit[g] : lock[t] = g
      /\ pc[g] = "revoke" => presented[g] \in issued
  BY <1>1, AuthAssumption DEF HandlerInv, IInv, TypeOK, Tokens
<1>3. hit'[g] \subseteq Live'
  BY <1>1, <1>2 DEF Apart, Beside, RevokeInv
<1>4. ASSUME pc'[g] = "revoke", NEW t \in hit'[g] \union todo'[g]
      PROVE  owner'[t] = owner'[presented'[g]]
  BY <1>2, <1>4 DEF Apart, Beside, RevokeInv
<1> QED  BY <1>3, <1>4 DEF RevokeInv

(* A handler's own part. *)
LEMMA RevokeSelf ==
  ASSUME IInv, NEW h \in Handlers, ReplayInv(h), RevokeInv(h),
         Call(h) \/ Progress(h) \/ CallFails(h)
  PROVE  RevokeInv(h)'
<1>1. TypeOK
  BY DEF IInv
<1>2. CASE ScanTokens(h)
  <2>1. /\ todo'[h] = {t \in Live : owner[t] = owner[presented[h]] /\ t > now[h]}
        /\ hit'[h] = {} /\ presented' = presented /\ owner' = owner
    BY <1>1, <1>2 DEF ScanTokens, ReplayInv, TypeOK, madeVars
  <2> QED  BY <2>1 DEF RevokeInv
<1>3. ASSUME NEW t \in Tokens, RevokeToken(h, t)
      PROVE  RevokeInv(h)'
  <2>1. /\ t \in todo[h] /\ todo'[h] = todo[h] \ {t}
        /\ pc[h] = "revoke" /\ Live' = Live
        /\ UNCHANGED <<presented, owner>>
    BY <1>1, <1>3 DEF RevokeToken, TypeOK, madeVars, rowVars, Live
  <2>2. hit'[h] \subseteq hit[h] \union (IF t \in Live THEN {t} ELSE {})
    <3>1. CASE t \in Live
      <4>1. hit' = [hit EXCEPT ![h] = hit[h] \union {t}]
        BY <1>3, <3>1 DEF RevokeToken
      <4> QED  BY <1>1, <3>1, <4>1 DEF TypeOK
    <3>2. CASE t \notin Live
      <4>1. hit' = hit
        BY <1>3, <3>2 DEF RevokeToken
      <4> QED  BY <4>1
    <3> QED  BY <3>1, <3>2
  <2>3. hit'[h] \subseteq Live'
    BY <2>1, <2>2 DEF RevokeInv
  <2>4. \A s \in hit'[h] \union todo'[h] : owner'[s] = owner'[presented'[h]]
    BY <2>1, <2>2 DEF RevokeInv
  <2> QED  BY <2>3, <2>4 DEF RevokeInv
<1>4. CASE ~ScanTokens(h) /\ ~(\E t \in Tokens : RevokeToken(h, t))
  <2>1. pc'[h] # "revoke"
    <3>1. pc[h] = "revoke" => End(h)
      BY <1>4 DEF Call, Progress, Login, Refresh, SaveRefresh, GetTokenForUpdate, SaveRefreshTx,
              MarkTokenAsConsumedTx, CommitRotation, CommitRevocation, CallFails
    <3>2. pc[h] # "revoke" => \E label \in Labels \ {"revoke"} : pc' = [pc EXCEPT ![h] = label]
      BY <1>4 DEF Call, Progress, Login, Refresh, SaveRefresh, GetTokenForUpdate, SaveRefreshTx,
              MarkTokenAsConsumedTx, CommitRotation, CommitRevocation, CallFails, End, Goto, Labels
    <3> QED  BY <1>1, <3>1, <3>2, EndFacts DEF TypeOK
  <2>2. hit'[h] = {}
    BY <2>1, HandlerReplay DEF ReplayInv
  <2> QED  BY <2>1, <2>2 DEF RevokeInv
<1> QED  BY <1>2, <1>3, <1>4

LEMMA RevokeInvCorrect == Spec => [](\A g \in Handlers : RevokeInv(g))
<1> DEFINE Inv == \A g \in Handlers : RevokeInv(g)
           Replays == \A g \in Handlers : ReplayInv(g)
<1>1. Init => Inv
  BY DEF Init, RevokeInv
<1>2. IInv /\ Replays /\ Inv /\ [Next]_vars => Inv'
  <2> SUFFICES ASSUME IInv, Replays, Inv, [Next]_vars, NEW g \in Handlers
               PROVE  RevokeInv(g)'
    OBVIOUS
  <2>1. ASSUME NEW h \in Handlers, Call(h) \/ Progress(h) \/ CallFails(h)
        PROVE  RevokeInv(g)'
    BY <2>1, HandlerReplay, HandlerBeside, RevokeOthers, RevokeSelf
  <2>2. CASE Expire \/ DeleteExpiredTokens
    <3>1. UNCHANGED <<revoked, lock, pc, presented, todo, hit, owner>>
      BY <2>2 DEF Expire, DeleteExpiredTokens, vars, rowVars, txVars, madeVars
    <3>2. \A t \in Tokens : lock[t] # NoHandler /\ t \in Live => t \in Live'
      BY <2>2, <3>1 DEF Expire, DeleteExpiredTokens, Deletable, rowVars, Live
    <3>3. Apart(NoHandler) /\ Beside(NoHandler) /\ g \in Handlers \ {NoHandler}
      BY <3>1, <3>2, AuthAssumption DEF Apart, Beside
    <3> QED  BY <3>3, RevokeOthers
  <2>3. CASE UNCHANGED vars
    BY <2>3 DEF vars, rowVars, txVars, madeVars, RevokeInv, Live
  <2> QED  BY <2>1, <2>2, <2>3 DEF Next
<1> QED  BY <1>1, <1>2, AuthInvariance, ReplayCorrect, PTL DEF Spec

(* A token has the user of its login, also before it is stored.            *)
OwnerInv ==
  /\ \A t \in 1..made : owner[t] \in Users
  /\ \A h \in Handlers : pc[h] \in {"mark", "commit"} => owner[fresh[h]] = owner[presented[h]]

(* A new pair is made for the user of the login or of the token presented. *)
LEMMA PairOwner ==
  ASSUME IInv, OwnerInv, NEW h \in Handlers,
         (\E user \in Users : Login(h, user)) \/ SaveRefreshTx(h)
  PROVE  OwnerInv' /\ \A t \in 1..made : owner'[t] = owner[t] /\ session'[t] = session[t]
<1> USE DEF IInv
<1>1. PICK user \in Users, first \in Nat, label \in {"insert", "mark"} :
             /\ GeneratePair(h, user, first) /\ presented' = presented
             /\ pc' = [pc EXCEPT ![h] = label]
             /\ label = "mark" => presented[h] \in 1..made /\ user = owner[presented[h]]
  <2>1. CASE \E user \in Users : Login(h, user)
    BY <2>1 DEF Login, Goto, TypeOK
  <2>2. CASE SaveRefreshTx(h)
    <3>1. presented[h] \in issued /\ presented[h] \in 1..made
      BY <2>2 DEF SaveRefreshTx, HandlerInv, TypeOK
    <3>2. owner[presented[h]] \in Users
      BY <3>1 DEF OwnerInv
    <3>3. session[presented[h]] \in Nat
      <4>1. session[presented[h]] \in issued
        BY <3>1 DEF SessionInv
      <4>2. issued \subseteq 1..made /\ made \in Nat
        BY AuthAssumption DEF TypeOK
      <4>3. session[presented[h]] \in 1..made
        BY <4>1, <4>2
      <4> QED  BY <4>2, <4>3
    <3> QED  BY <2>2, <3>1, <3>2, <3>3 DEF SaveRefreshTx, Goto
  <2> QED  BY <2>1, <2>2
<1>2. /\ made' = made + 1 /\ made + 1 \in Tokens
      /\ owner' = [owner EXCEPT ![made + 1] = user]
      /\ session' = [session EXCEPT ![made + 1] = first]
      /\ fresh' = [fresh EXCEPT ![h] = made + 1]
  BY <1>1, AuthAssumption DEF GeneratePair, TypeOK, Tokens
<1>3. /\ owner'[made + 1] = user
      /\ \A t \in 1..made : owner'[t] = owner[t] /\ session'[t] = session[t]
  BY <1>2 DEF TypeOK
<1>4. \A t \in 1..made' : owner'[t] \in Users
  <2> SUFFICES ASSUME NEW t \in 1..made'
               PROVE  owner'[t] \in Users
    OBVIOUS
  <2>1. made \in Nat
    BY AuthAssumption DEF TypeOK
  <2>2. t = made + 1 \/ t \in 1..made
    BY <1>2, <2>1
  <2> QED  BY <1>3, <2>2 DEF OwnerInv
<1>5. ASSUME NEW g \in Handlers, pc'[g] \in {"mark", "commit"}
      PROVE  owner'[fresh'[g]] = owner'[presented'[g]]
  <2>1. CASE g = h
    BY <1>1, <1>2, <1>3, <1>5, <2>1 DEF TypeOK
  <2>2. CASE g # h
    <3>1. pc[g] = pc'[g] /\ fresh'[g] = fresh[g] /\ presented'[g] = presented[g]
      BY <1>1, <1>2, <2>2 DEF TypeOK
    <3>2. fresh[g] \in 1..made /\ presented[g] \in 1..made
      BY <1>5, <3>1 DEF HandlerInv, TypeOK
    <3> QED  BY <1>3, <1>5, <3>1, <3>2 DEF OwnerInv
  <2> QED  BY <2>1, <2>2
<1> QED  BY <1>3, <1>4, <1>5 DEF OwnerInv

LEMMA OwnerCorrect == Spec => []OwnerInv
<1>1. Init => OwnerInv
  BY DEF Init, OwnerInv
<1>2. IInv /\ OwnerInv /\ [Next]_vars => OwnerInv'
  <2> SUFFICES ASSUME IInv, OwnerInv, [Next]_vars
               PROVE  OwnerInv'
    OBVIOUS
  <2>1. CASE \E h \in Handlers : (\E user \in Users : Login(h, user)) \/ SaveRefreshTx(h)
    BY <2>1, PairOwner
  <2>2. ASSUME UNCHANGED madeVars,
               \A g \in Handlers : pc'[g] \in {"mark", "commit"} =>
                 pc[g] \in {"mark", "commit"} /\ fresh'[g] = fresh[g] /\ presented'[g] = presented[g]
        PROVE  OwnerInv'
    BY <2>2 DEF OwnerInv, madeVars
  <2>3. ASSUME NEW h \in Handlers, UNCHANGED madeVars, Call(h) \/ Progress(h) \/ CallFails(h),
               ~SaveRefreshTx(h), NEW g \in Handlers, pc'[g] \in {"mark", "commit"}
        PROVE  pc[g] \in {"mark", "commit"} /\ fresh'[g] = fresh[g] /\ presented'[g] = presented[g]
    <3>1. TypeOK
      BY DEF IInv
    <3>2. CASE End(h)
      BY <2>3, <3>1, <3>2, EndFacts
    <3>3. CASE ~End(h)
      <4>1. CASE MarkTokenAsConsumedTx(h)
        BY <2>3, <3>1, <4>1 DEF MarkTokenAsConsumedTx, Goto, TypeOK, txVars
      <4>2. CASE (\E t \in issued : Refresh(h, t)) \/ GetTokenForUpdate(h) \/ ScanTokens(h)
        <5>1. /\ \E label \in {"get", "save", "scan", "revoke"} : pc' = [pc EXCEPT ![h] = label]
              /\ fresh' = fresh
              /\ presented' = presented \/ \E t : presented' = [presented EXCEPT ![h] = t]
          BY <3>3, <4>2 DEF Refresh, GetTokenForUpdate, ScanTokens, Goto, txVars
        <5>2. g # h /\ pc'[g] = pc[g]
          BY <2>3, <3>1, <5>1 DEF TypeOK
        <5>3. presented'[g] = presented[g]
          BY <3>1, <5>1, <5>2 DEF TypeOK
        <5> QED  BY <2>3, <5>1, <5>2, <5>3
      <4>3. CASE \E t \in Tokens : RevokeToken(h, t)
        BY <2>3, <4>3 DEF RevokeToken
      <4>4. ~\E user \in Users : Login(h, user)
        BY <2>3, <3>1 DEF Login, GeneratePair, madeVars, TypeOK
      <4> QED  BY <2>3, <3>3, <4>1, <4>2, <4>3, <4>4
               DEF Call, Progress, SaveRefresh, CommitRotation, CommitRevocation, CallFails
    <3> QED  BY <3>2, <3>3
  <2>4. CASE Expire \/ DeleteExpiredTokens \/ UNCHANGED vars
    BY <2>4 DEF Expire, DeleteExpiredTokens, vars, madeVars, txVars, OwnerInv
  <2>5. ASSUME NEW h \in Handlers, Call(h) \/ Progress(h) \/ CallFails(h),
               ~SaveRefreshTx(h), ~\E user \in Users : Login(h, user)
        PROVE  UNCHANGED madeVars
    BY <2>5 DEF Call, Progress, Refresh, SaveRefresh, GetTokenForUpdate,
           MarkTokenAsConsumedTx, CommitRotation, ScanTokens, RevokeToken, CommitRevocation,
           CallFails
  <2> QED  BY <2>1, <2>2, <2>3, <2>4, <2>5 DEF Next
<1> QED  BY <1>1, <1>2, AuthInvariance, PTL DEF Spec

(* What a handler does to the rows before it commits is not to be seen.    *)
LEMMA SameView ==
  ASSUME UNCHANGED <<expired, rowVars>>,
         \A t \in issued : owner'[t] = owner[t] /\ session'[t] = session[t]
  PROVE  UNCHANGED T!storeVars
<1>1. UNCHANGED <<expired, stored, issued, revoked, successor>>
  BY DEF rowVars
<1> QED  BY <1>1 DEF T!storeVars

LEMMA SaveRefreshView ==
  ASSUME IInv, OwnerInv, NEW h \in Handlers, SaveRefresh(h)
  PROVE  T!Next
<1>1. PICK f \in Tokens, user \in Users :
             /\ f = fresh[h] /\ user = owner[f] /\ f \notin issued /\ session[f] = f
  <2>1. /\ fresh[h] \in 1..made /\ fresh[h] \notin issued /\ session[fresh[h]] = fresh[h]
        /\ fresh[h] \in Tokens /\ owner[fresh[h]] \in Users
    BY AuthAssumption DEF SaveRefresh, IInv, HandlerInv, TypeOK, OwnerInv, Tokens
  <2> QED  BY <2>1
<1>2. /\ stored' = stored \union {f} /\ issued' = issued \union {f}
      /\ UNCHANGED <<owner, session, expired, revoked, successor>>
  BY <1>1 DEF SaveRefresh, madeVars
<1>3. T!Login(f, user)
  BY <1>1, <1>2 DEF T!Login, T!Store, T!Issued
<1> QED  BY <1>3 DEF T!Next

LEMMA CommitRotationView ==
  ASSUME IInv, OwnerInv, NEW h \in Handlers, CommitRotation(h)
  PROVE  T!Next
<1>1. PICK f \in Tokens, p \in Tokens :
             /\ f = fresh[h] /\ p = presented[h] /\ f \notin issued /\ p \in issued
             /\ p \in stored \ revoked /\ session[f] = session[p] /\ owner[f] = owner[p]
  <2>1. /\ fresh[h] \in Tokens /\ presented[h] \in Tokens
        /\ fresh[h] \notin issued /\ presented[h] \in issued
        /\ presented[h] \in stored \ revoked
        /\ session[fresh[h]] = session[presented[h]] /\ owner[fresh[h]] = owner[presented[h]]
    BY AuthAssumption
    DEF CommitRotation, IInv, HandlerInv, Rotating, TypeOK, OwnerInv, Tokens, Live
  <2> QED  BY <2>1
<1>2. /\ stored' = stored \union {f} /\ issued' = issued \union {f}
      /\ revoked' = revoked \union {p} /\ successor' = [successor EXCEPT ![p] = f]
      /\ UNCHANGED <<owner, session, expired>>
  BY <1>1 DEF CommitRotation, madeVars
<1>3. T!Rotate(p, f)
  BY <1>1, <1>2 DEF T!Rotate, T!Live, T!Store, T!Issued
<1> QED  BY <1>3 DEF T!Next

LEMMA CommitRevocationView ==
  ASSUME IInv, NEW h \in Handlers, ReplayInv(h), RevokeInv(h), CommitRevocation(h)
  PROVE  T!Next
<1> DEFINE p == presented[h]
<1>1. /\ hit[h] \subseteq stored \ revoked /\ hit[h] \subseteq issued /\ hit[h] \subseteq Tokens
      /\ p \in revoked /\ p \in issued /\ \A t \in hit[h] : owner[t] = owner[p]
  BY AuthAssumption
  DEF CommitRevocation, IInv, TypeOK, HandlerInv, ReplayInv, RevokeInv, Live
<1>2. /\ revoked' = revoked \union hit[h]
      /\ UNCHANGED <<owner, session, issued, stored, successor, expired>>
  BY DEF CommitRevocation, madeVars
<1>3. T!Revoke(hit[h])
  BY <1>1, <1>2 DEF T!Revoke, T!Live
<1> QED  BY <1>1, <1>3 DEF T!Next

LEMMA DeleteView ==
  ASSUME IInv, DeleteExpiredTokens
  PROVE  T!Next
<1>1. PICK D \in SUBSET Deletable : Cardinality(D) <= Limit /\ stored' = stored \ D
  BY DEF DeleteExpiredTokens
<1>2. UNCHANGED <<owner, session, issued, revoked, successor, expired>>
  BY DEF DeleteExpiredTokens, madeVars
<1>3. D \subseteq stored /\ (\A t \in D : t <= expired) /\ D \subseteq Tokens
  BY AuthAssumption DEF Deletable, IInv, TypeOK, Tokens
<1>4. T!Delete(D)
  <2>1. T!Cardinality(D) = Cardinality(D)
    BY DEF T!Cardinality, Cardinality
  <2> QED  BY <1>1, <1>2, <1>3, <2>1 DEF T!Delete
<1> QED  BY <1>3, <1>4 DEF T!Next

(* A commit is one operation on the rows, and every other statement none.  *)
LEMMA StepView ==
  ASSUME IInv, \A g \in Handlers : ReplayInv(g), \A g \in Handlers : RevokeInv(g), OwnerInv,
         [Next]_vars
  PROVE  [T!Next]_(T!storeVars)
<1>1. ASSUME NEW h \in Handlers, Call(h) \/ Progress(h) \/ CallFails(h)
      PROVE  T!Next \/ UNCHANGED T!storeVars
  <2>1. CASE SaveRefresh(h) \/ CommitRotation(h) \/ CommitRevocation(h)
    BY <2>1, SaveRefreshView, CommitRotationView, CommitRevocationView
  <2>2. CASE (\E user \in Users : Login(h, user)) \/ SaveRefreshTx(h)
    <3>1. issued \subseteq 1..made
      BY DEF IInv, TypeOK
    <3>2. \A t \in issued : owner'[t] = owner[t] /\ session'[t] = session[t]
      BY <2>2, <3>1, PairOwner
    <3>3. UNCHANGED <<expired, rowVars>>
      BY <2>2 DEF Login, SaveRefreshTx
    <3> QED  BY <3>2, <3>3, SameView
  <2>3. CASE ~(SaveRefresh(h) \/ CommitRotation(h) \/ CommitRevocation(h) \/ SaveRefreshTx(h))
             /\ ~\E user \in Users : Login(h, user)
    <3>1. UNCHANGED <<madeVars, expired, rowVars>>
      BY <1>1, <2>3 DEF Call, Progress, Refresh, GetTokenForUpdate, MarkTokenAsConsumedTx,
                        ScanTokens, RevokeToken, CallFails
    <3>2. owner' = owner /\ session' = session
      BY <3>1 DEF madeVars
    <3> QED  BY <3>1, <3>2, SameView
  <2> QED  BY <2>1, <2>2, <2>3
<1>2. CASE Expire
  <2>1. UNCHANGED <<owner, session, issued, stored, revoked, successor>> /\ expired' = expired + 1
    BY <1>2 DEF Expire, madeVars, rowVars
  <2>2. T!Expire
    BY <2>1 DEF T!Expire
  <2> QED  BY <2>2 DEF T!Next
<1>3. CASE DeleteExpiredTokens
  BY <1>3, DeleteView
<1>4. CASE UNCHANGED vars
  <2>1. UNCHANGED <<expired, rowVars>> /\ owner' = owner /\ session' = session
    BY <1>4 DEF vars, madeVars
  <2> QED  BY <2>1, SameView
<1> QED  BY <1>1, <1>2, <1>3, <1>4 DEF Next

(* No step goes halfway: each one is a whole operation of TokenStore on    *)
(* the committed rows, or leaves them as they are.                         *)
THEOREM WholeOperationsCorrect == Spec => WholeOperations
<1>1. /\ IInv /\ (\A g \in Handlers : ReplayInv(g)) /\ (\A g \in Handlers : RevokeInv(g))
      /\ OwnerInv /\ [Next]_vars
      => [T!Next]_(T!storeVars)
  BY StepView
<1> QED  BY <1>1, AuthInvariance, ReplayCorrect, RevokeInvCorrect, OwnerCorrect, PTL
         DEF Spec, WholeOperations

(* The handlers, with their row locks and transactions, and the cleanup    *)
(* beside them implement the token store.                                  *)
THEOREM AuthImplementsTokenStore == Spec => TokenStoreSpec
<1>1. Init => T!Init
  <2> SUFFICES ASSUME Init
               PROVE  T!Init
    OBVIOUS
  <2>1. /\ issued = {} /\ stored = {} /\ revoked = {} /\ expired = 0
        /\ successor = [t \in Tokens |-> 0]
    BY DEF Init
  <2> QED  BY <2>1 DEF T!Init
<1> QED  BY <1>1, WholeOperationsCorrect, PTL DEF Spec, WholeOperations, TokenStoreSpec, T!Spec
===============================================================================
