------------------------------ MODULE AuthTokens ------------------------------
(***************************************************************************)
(* The refresh tokens of the auth service: table refresh_tokens as the     *)
(* statements of auth/repository/auth.go read and write it, at READ        *)
(* COMMITTED, while a worker deletes expired rows.                         *)
(*                                                                         *)
(* A token is rotated: refreshing consumes it and issues its successor in  *)
(* the same session.  Presenting a token that was revoked before is taken  *)
(* for a breach and revokes all tokens of the user.  The order in which    *)
(* the statements are called is that of package auth/services, which is    *)
(* not in the repository: it follows from what each of them is for.        *)
(*                                                                         *)
(* Tokens are numbered in the order GeneratePair makes them.  All have the *)
(* same time to live, so they expire in this order.                        *)
(***************************************************************************)
EXTENDS Integers, FiniteSets

CONSTANTS
  Users,
  NoUser,     \* the owner of a token not made yet
  Handlers,   \* goroutines that serve Login and Refresh
  NoHandler,  \* the owner of a row lock nobody holds
  Limit,      \* rows the cleanup deletes at once, 5000 by default
  MaxToken,   \* bound: tokens made
  MaxExpired  \* bound: tokens that expire

ASSUME AuthAssumption ==
  /\ NoUser \notin Users
  /\ NoHandler \notin Handlers
  /\ Limit \in Nat \ {0}
  /\ MaxToken \in Nat
  /\ MaxExpired \in Nat

VARIABLES
  made,       \* tokens made so far
  expired,    \* tokens 1..expired have passed their expires_at
  (* committed rows; a deleted row leaves stored only *)
  stored,     \* token_hash
  owner,      \* user_id
  session,    \* history: the first token of the session
  issued,     \* history: tokens ever stored
  revoked,    \* revoked = true
  successor,  \* revoked_by, 0 for NULL; consumed_at is set with it
  (* open transactions *)
  lock,       \* [Tokens -> owner of the row lock]
  pc,         \* next statement of the handler
  presented,  \* the token it was called with
  fresh,      \* the token it has made
  now,        \* NOW(), which is the start of the transaction
  seen,       \* history: rows issued when its UPDATE began
  todo,       \* rows its UPDATE has found and not changed or passed over
  at,         \* the one of them it has come to, 0 for none
  hit         \* rows its UPDATE has changed

rowVars == <<stored, issued, revoked, successor>>
madeVars == <<made, owner, session>>
txVars == <<presented, fresh, now, seen, todo, at, hit>>
vars == <<madeVars, expired, rowVars, lock, pc, txVars>>

Tokens == 1..MaxToken

Live == stored \ revoked

Goto(h, label) == pc' = [pc EXCEPT ![h] = label]

Lock(h, t) == lock' = [lock EXCEPT ![t] = h]

Unlock(h) == lock' = [t \in Tokens |-> IF lock[t] = h THEN NoHandler ELSE lock[t]]

(* The transaction ends and the call is answered. *)
End(h) ==
  /\ Goto(h, "idle")
  /\ Unlock(h)
  /\ presented' = [presented EXCEPT ![h] = 0]
  /\ fresh' = [fresh EXCEPT ![h] = 0]
  /\ now' = [now EXCEPT ![h] = 0]
  /\ seen' = [seen EXCEPT ![h] = {}]
  /\ todo' = [todo EXCEPT ![h] = {}]
  /\ at' = [at EXCEPT ![h] = 0]
  /\ hit' = [hit EXCEPT ![h] = {}]

(* A new pair: the access token is not stored, the refresh token is. *)
GeneratePair(h, user, first) ==
  /\ made < MaxToken
  /\ made' = made + 1
  /\ owner' = [owner EXCEPT ![made + 1] = user]
  /\ session' = [session EXCEPT ![made + 1] = first]
  /\ fresh' = [fresh EXCEPT ![h] = made + 1]

-------------------------------------------------------------------------------
(* Login *)

Login(h, user) ==
  /\ pc[h] = "idle"
  /\ GeneratePair(h, user, made + 1)
  /\ Goto(h, "insert")
  /\ UNCHANGED <<expired, rowVars, lock, presented, now, seen, todo, at, hit>>

(* Outside of any transaction. *)
SaveRefresh(h) ==
  /\ pc[h] = "insert"
  /\ stored' = stored \union {fresh[h]}
  /\ issued' = issued \union {fresh[h]}
  /\ End(h)
  /\ UNCHANGED <<madeVars, expired, revoked, successor>>

-------------------------------------------------------------------------------
(* Refresh *)

(* A client sends a token that it was given at some time. *)
Refresh(h, t) ==
  /\ pc[h] = "idle"
  /\ presented' = [presented EXCEPT ![h] = t]
  /\ now' = [now EXCEPT ![h] = expired]
  /\ Goto(h, "get")
  /\ UNCHANGED <<madeVars, expired, rowVars, lock, fresh, seen, todo, at, hit>>

(* Mutant: SELECT without FOR UPDATE. *)
MutantGetTokenForUpdate(h) ==
  /\ pc[h] = "get"
  /\ IF presented[h] \in Live /\ presented[h] > expired
     THEN Goto(h, "save")
     ELSE Goto(h, IF presented[h] \in stored \intersect revoked THEN "scan" ELSE "idle")
  /\ UNCHANGED <<madeVars, expired, rowVars, lock, txVars>>

(* Mutant: an expired token is taken for a replayed one. *)
MutantExpiredIsReplay(h) ==
  LET t == presented[h] IN
  /\ pc[h] = "get"
  /\ IF t \in stored
     THEN /\ lock[t] = NoHandler
          /\ Lock(h, t)
          /\ Goto(h, IF t \in Live /\ t > expired THEN "save" ELSE "scan")
          /\ UNCHANGED txVars
     ELSE End(h)
  /\ UNCHANGED <<madeVars, expired, rowVars>>

(* SELECT ... FOR UPDATE waits for the row's lock and then sees the row as *)
(* it has become: consumed, revoked or gone.                               *)
GetTokenForUpdate(h) ==
  LET t == presented[h] IN
  /\ pc[h] = "get"
  /\ \/ /\ t \notin stored
        /\ End(h)
     \/ /\ t \in Live
        /\ t <= expired
        /\ lock[t] = NoHandler
        /\ End(h)
     \/ /\ t \in stored
        /\ t \in Live => t > expired
        /\ lock[t] = NoHandler
        /\ Lock(h, t)
        /\ Goto(h, IF t \in Live THEN "save" ELSE "scan")
        /\ UNCHANGED txVars
  /\ UNCHANGED <<madeVars, expired, rowVars>>

(* The row of the new token is not visible to others before the COMMIT. *)
SaveRefreshTx(h) ==
  /\ pc[h] = "save"
  /\ GeneratePair(h, owner[presented[h]], session[presented[h]])
  /\ Goto(h, "mark")
  /\ UNCHANGED <<expired, rowVars, lock, presented, now, seen, todo, at, hit>>

(* UPDATE ... WHERE token_hash = old, of the row this transaction has      *)
(* locked.  It is not asked whether there was such a row.                  *)
MarkTokenAsConsumedTx(h) ==
  /\ pc[h] = "mark"
  /\ lock[presented[h]] \in {h, NoHandler}
  /\ Lock(h, presented[h])
  /\ Goto(h, "commit")
  /\ UNCHANGED <<madeVars, expired, rowVars, txVars>>

(* Mutant: the old token is consumed without being revoked. *)
MutantCommitRotation(h) ==
  /\ pc[h] = "commit"
  /\ stored' = stored \union {fresh[h]}
  /\ issued' = issued \union {fresh[h]}
  /\ successor' = [successor EXCEPT ![presented[h]] = fresh[h]]
  /\ End(h)
  /\ UNCHANGED <<madeVars, expired, revoked>>

CommitRotation(h) ==
  /\ pc[h] = "commit"
  /\ stored' = stored \union {fresh[h]}
  /\ issued' = issued \union {fresh[h]}
  /\ revoked' = revoked \union ({presented[h]} \intersect stored)
  /\ successor' = [successor EXCEPT ![presented[h]] = fresh[h]]
  /\ End(h)
  /\ UNCHANGED <<madeVars, expired>>

-------------------------------------------------------------------------------
(* Revocation: RevokeAllUserTokensTx *)

(* The UPDATE comes to one of the rows S next.  It has no ORDER BY.        *)
ComeTo(h, S) == \E t \in (IF S = {} THEN {0} ELSE S) : at' = [at EXCEPT ![h] = t]

(* The UPDATE finds the rows that are committed when it begins.            *)
ScanTokens(h) ==
  /\ pc[h] = "scan"
  /\ seen' = [seen EXCEPT ![h] = issued]
  /\ LET found == {t \in Live : owner[t] = owner[presented[h]] /\ t > now[h]} IN
       todo' = [todo EXCEPT ![h] = found] /\ ComeTo(h, found)
  /\ Goto(h, "revoke")
  /\ UNCHANGED <<madeVars, expired, rowVars, lock, presented, fresh, now, hit>>

(* Mutant: rows that others have locked are skipped. *)
MutantRevokeToken(h, t) ==
  /\ pc[h] = "revoke"
  /\ t \in todo[h] /\ t = at[h]
  /\ todo' = [todo EXCEPT ![h] = @ \ {t}]
  /\ ComeTo(h, todo[h] \ {t})
  /\ IF t \in Live /\ lock[t] \in {h, NoHandler}
     THEN hit' = [hit EXCEPT ![h] = @ \union {t}] /\ Lock(h, t)
     ELSE UNCHANGED <<hit, lock>>
  /\ UNCHANGED <<madeVars, expired, rowVars, pc, presented, fresh, now, seen>>

(* It waits for the row and then looks again whether it still matches.     *)
RevokeToken(h, t) ==
  /\ pc[h] = "revoke"
  /\ t \in todo[h] /\ t = at[h]
  /\ lock[t] \in {h, NoHandler}
  /\ todo' = [todo EXCEPT ![h] = @ \ {t}]
  /\ ComeTo(h, todo[h] \ {t})
  /\ IF t \in Live
     THEN hit' = [hit EXCEPT ![h] = @ \union {t}] /\ Lock(h, t)
     ELSE UNCHANGED <<hit, lock>>
  /\ UNCHANGED <<madeVars, expired, rowVars, pc, presented, fresh, now, seen>>

CommitRevocation(h) ==
  /\ pc[h] = "revoke"
  /\ todo[h] = {}
  /\ revoked' = revoked \union hit[h]
  /\ End(h)
  /\ UNCHANGED <<madeVars, expired, stored, issued, successor>>

(* Mutant: an error leaves the transaction open. *)
MutantCallFails(h) ==
  /\ pc[h] # "idle"
  /\ Goto(h, "idle")
  /\ UNCHANGED <<madeVars, expired, rowVars, lock, txVars>>

(* Any statement may fail, or the process die: the transaction goes.       *)
CallFails(h) ==
  /\ pc[h] # "idle"
  /\ End(h)
  /\ UNCHANGED <<madeVars, expired, rowVars>>

-------------------------------------------------------------------------------
(* Time and the cleanup worker *)

Expire ==
  /\ expired < made
  /\ expired < MaxExpired
  /\ expired' = expired + 1
  /\ UNCHANGED <<madeVars, rowVars, lock, pc, txVars>>

(* Mutant: the cleanup takes every expired row, locked or not. *)
MutantDeletable == {t \in stored : t <= expired}

(* Expired rows, without those that somebody has locked. *)
Deletable == {t \in stored : t <= expired /\ lock[t] = NoHandler}

(* One statement.  Without an ORDER BY it may take any of the rows.        *)
DeleteExpiredTokens ==
  /\ \E D \in SUBSET Deletable \ {{}} :
       /\ Cardinality(D) <= Limit
       /\ stored' = stored \ D
  /\ UNCHANGED <<madeVars, expired, issued, revoked, successor, lock, pc, txVars>>

-------------------------------------------------------------------------------
Init ==
  /\ made = 0
  /\ expired = 0
  /\ stored = {}
  /\ owner = [t \in Tokens |-> NoUser]
  /\ session = [t \in Tokens |-> 0]
  /\ issued = {}
  /\ revoked = {}
  /\ successor = [t \in Tokens |-> 0]
  /\ lock = [t \in Tokens |-> NoHandler]
  /\ pc = [h \in Handlers |-> "idle"]
  /\ presented = [h \in Handlers |-> 0]
  /\ fresh = [h \in Handlers |-> 0]
  /\ now = [h \in Handlers |-> 0]
  /\ seen = [h \in Handlers |-> {}]
  /\ todo = [h \in Handlers |-> {}]
  /\ at = [h \in Handlers |-> 0]
  /\ hit = [h \in Handlers |-> {}]

Call(h) ==
  \/ \E user \in Users : Login(h, user)
  \/ \E t \in issued : Refresh(h, t)

Progress(h) ==
  \/ SaveRefresh(h)
  \/ GetTokenForUpdate(h)
  \/ SaveRefreshTx(h)
  \/ MarkTokenAsConsumedTx(h)
  \/ CommitRotation(h)
  \/ ScanTokens(h)
  \/ \E t \in Tokens : RevokeToken(h, t)
  \/ CommitRevocation(h)

Next ==
  \/ \E h \in Handlers : Call(h) \/ Progress(h) \/ CallFails(h)
  \/ Expire
  \/ DeleteExpiredTokens

Spec == Init /\ [][Next]_vars

(* The row that the next statement of h has to lock.                       *)
AwaitsRow(h, t) ==
  \/ pc[h] \in {"get", "mark"} /\ t = presented[h] /\ t \in stored
  \/ pc[h] = "revoke" /\ t \in todo[h] /\ t = at[h]

WaitsFor(h, g) == g # h /\ \E t \in Tokens : AwaitsRow(h, t) /\ lock[t] = g

Deadlocked(S) ==
  /\ S # {}
  /\ \A h \in S : (\E g \in S : WaitsFor(h, g)) /\ (\E g \in S : WaitsFor(g, h))

(* PostgreSQL serves those who wait for a row in turn, and aborts a        *)
(* transaction that waits in a circle.  The bound on tokens would stop a   *)
(* rotation for good, which is no property of the code: then it fails.     *)
Fairness ==
  \A h \in Handlers :
    /\ SF_vars(Progress(h))
    /\ WF_vars((\E S \in SUBSET Handlers : h \in S /\ Deadlocked(S)) /\ CallFails(h))
    /\ WF_vars(made = MaxToken /\ pc[h] = "save" /\ CallFails(h))

FairSpec == Spec /\ Fairness

-------------------------------------------------------------------------------
(* Properties *)

Labels == {"idle", "insert", "get", "save", "mark", "commit", "scan", "revoke"}

(* Every variable has its type, and who holds a lock has not ended.        *)
TypeOK ==
  /\ made \in 0..MaxToken
  /\ expired \in 0..made
  /\ stored \subseteq issued
  /\ issued \subseteq 1..made
  /\ revoked \subseteq issued
  /\ owner \in [Tokens -> Users \union {NoUser}]
  /\ session \in [Tokens -> 0..MaxToken]
  /\ successor \in [Tokens -> 0..MaxToken]
  /\ lock \in [Tokens -> Handlers \union {NoHandler}]
  /\ pc \in [Handlers -> Labels]
  /\ presented \in [Handlers -> 0..MaxToken]
  /\ fresh \in [Handlers -> 0..MaxToken]
  /\ now \in [Handlers -> 0..MaxToken]
  /\ seen \in [Handlers -> SUBSET Tokens]
  /\ todo \in [Handlers -> SUBSET Tokens]
  /\ at \in [Handlers -> 0..MaxToken]
  /\ hit \in [Handlers -> SUBSET Tokens]
  /\ \A t \in Tokens : lock[t] # NoHandler => pc[lock[t]] \notin {"idle", "insert", "get"}

(* However many calls present a token and its successors at once, a        *)
(* session never has two tokens that can be refreshed.                     *)
OneLivePerSession ==
  \A s, t \in issued : (session[s] = session[t] /\ {s, t} \intersect revoked = {}) => s = t

(* A token is consumed once: nobody ever becomes a second successor.       *)
ConsumedOnce == [][\A t \in Tokens : successor[t] # 0 => successor'[t] = successor[t]]_vars

(* The token that a rotation has read is still there and still unrevoked   *)
(* when it is marked and when the successor is committed: neither another  *)
(* call nor the cleanup has come in between, although the token may have   *)
(* expired meanwhile.                                                      *)
HeldTokenStaysValid ==
  \A h \in Handlers : pc[h] \in {"save", "mark", "commit"} => presented[h] \in Live

(* When a revocation is about to commit, every token of the user that was  *)
(* in the table when its UPDATE began is revoked, expired or deleted, also *)
(* one that a rotation had locked.                                         *)
RevocationCoversSeen ==
  \A h \in Handlers : (pc[h] = "revoke" /\ todo[h] = {}) =>
    \A t \in seen[h] \intersect stored :
      owner[t] = owner[presented[h]] => t \in revoked \union hit[h] \/ t <= expired

(* The inductive invariant behind these properties (AuthTokensProofs).     *)
Rotating(h) == pc[h] \in {"save", "mark", "commit"}

(* What its program counter says of a handler: a rotation owns the row of  *)
(* a live token, a token it has made is not stored yet and belongs to the  *)
(* right session, and a revocation owns what it has changed and has dealt  *)
(* with, or has before it, every row it has seen.                          *)
HandlerInv(h) ==
  /\ Rotating(h) => presented[h] \in Live /\ lock[presented[h]] = h
  /\ fresh[h] # 0 => fresh[h] \in 1..made /\ fresh[h] \notin issued
  /\ pc[h] \in {"insert", "mark", "commit"} <=> fresh[h] # 0
  /\ pc[h] = "insert" => session[fresh[h]] = fresh[h]
  /\ pc[h] \in {"mark", "commit"} => session[fresh[h]] = session[presented[h]]
  /\ pc[h] \notin {"idle", "insert"} => presented[h] \in issued
  /\ now[h] <= expired
  /\ seen[h] \union todo[h] \union hit[h] \subseteq issued
  /\ \A t \in hit[h] : lock[t] = h
  /\ pc[h] = "revoke" =>
       \A t \in seen[h] \intersect stored :
         owner[t] = owner[presented[h]] =>
           t \in revoked \union hit[h] \union todo[h] \/ t <= now[h]

FreshDistinct == \A g, h \in Handlers : (g # h /\ fresh[g] # 0) => fresh[g] # fresh[h]

SessionInv == \A t \in issued : session[t] \in issued

ConsumedIsRevoked == \A t \in Tokens : successor[t] # 0 => t \in revoked

(* Handlers, row locks and rows agree, and sessions are disjoint chains of *)
(* which only the end can be live.                                         *)
IInv ==
  /\ TypeOK
  /\ \A h \in Handlers : HandlerInv(h)
  /\ FreshDistinct
  /\ SessionInv
  /\ ConsumedIsRevoked
  /\ OneLivePerSession

(* Calls wait for each other in a circle only when all of them revoke,     *)
(* each because of a token that was revoked before.  Rotations, logins and *)
(* calls with a token that is merely expired are never aborted as part of  *)
(* a circle.                                                               *)
CirclesAreReplays ==
  \A S \in SUBSET Handlers : Deadlocked(S) =>
    \A h \in S : pc[h] = "revoke" /\ presented[h] \in revoked

(* No call hangs: locks are given back on every way out, and a circle of   *)
(* revocations is broken up.                                               *)
EveryCallEnds == \A h \in Handlers : pc[h] # "idle" ~> pc[h] = "idle"

(* The handlers implement module TokenStore: seen from the committed rows, *)
(* every call and the cleanup happen at once or not at all.                *)
T == INSTANCE TokenStore
       WITH Users <- Users, Tokens <- Tokens, Limit <- Limit,
            holder <- [t \in issued |-> owner[t]], session <- [t \in issued |-> session[t]],
            stored <- stored, revoked <- revoked, successor <- successor, expired <- expired
TokenStoreSpec == T!Spec

(* Whatever state it begins in, no step goes halfway: a token is revoked   *)
(* by a rotation only together with the arrival of its successor, and by a *)
(* revocation only after a token of this user was replayed.                *)
WholeOperations == [][T!Next]_(T!storeVars)
===============================================================================
