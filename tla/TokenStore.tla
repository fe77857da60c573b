------------------------------- MODULE TokenStore -------------------------------
(***************************************************************************)
(* What the auth service promises about refresh tokens, with handlers,     *)
(* statements, row locks and transactions taken away: whole operations on  *)
(* the committed rows.  Module AuthTokens implements it.                   *)
(***************************************************************************)
EXTENDS Naturals, FiniteSets

CONSTANTS Users, Tokens, Limit

VARIABLES
  holder,     \* [tokens ever stored -> user]
  session,    \* [tokens ever stored -> first token of the session]
  stored,     \* tokens not deleted yet
  revoked,
  successor,  \* [Tokens -> token it was exchanged for, or 0]
  expired     \* tokens 1..expired have expired

storeVars == <<holder, session, stored, revoked, successor, expired>>

Issued == DOMAIN holder

Live == stored \ revoked

Store(t, user, first) ==
  /\ t \notin Issued
  /\ holder' = [s \in Issued \union {t} |-> IF s = t THEN user ELSE holder[s]]
  /\ session' = [s \in Issued \union {t} |-> IF s = t THEN first ELSE session[s]]
  /\ stored' = stored \union {t}

Init ==
  /\ holder = [t \in {} |-> t]
  /\ session = [t \in {} |-> t]
  /\ stored = {}
  /\ revoked = {}
  /\ successor = [t \in Tokens |-> 0]
  /\ expired = 0

Login(t, user) ==
  /\ Store(t, user, t)
  /\ UNCHANGED <<revoked, successor, expired>>

(* A live token is exchanged for another one of its session, in one step.  *)
Rotate(old, t) ==
  /\ old \in Live
  /\ Store(t, holder[old], session[old])
  /\ revoked' = revoked \union {old}
  /\ successor' = [successor EXCEPT ![old] = t]
  /\ UNCHANGED expired

(* Tokens of one user are revoked together, and only when a token of this  *)
(* user had been revoked before.                                           *)
Revoke(S) ==
  /\ S \subseteq Live
  /\ \E p \in revoked : \A t \in S : holder[t] = holder[p]
  /\ revoked' = revoked \union S
  /\ UNCHANGED <<holder, session, stored, successor, expired>>

Expire ==
  /\ expired' = expired + 1
  /\ UNCHANGED <<holder, session, stored, revoked, successor>>

Delete(S) ==
  /\ S \subseteq stored
  /\ \A t \in S : t <= expired
  /\ Cardinality(S) <= Limit
  /\ stored' = stored \ S
  /\ UNCHANGED <<holder, session, revoked, successor, expired>>

Next ==
  \/ \E t \in Tokens : (\E user \in Users : Login(t, user)) \/ \E old \in Tokens : Rotate(old, t)
  \/ \E S \in SUBSET Tokens : Revoke(S) \/ Delete(S)
  \/ Expire

Spec == Init /\ [][Next]_storeVars
===============================================================================
