----------------------------- MODULE MCAuthTokens -----------------------------
(* An instance of AuthTokens for TLC that begins when the first token has  *)
(* been made, so that the four tokens go further.                          *)
EXTENDS AuthTokens

CONSTANTS u1, u2

FirstOf(t, s) == [n \in Tokens |-> IF n \in t THEN s ELSE 0]

(* Reachable states without open calls: the first login has failed, or u1  *)
(* has two sessions of which one was rotated.                              *)
LoginFailed ==
  /\ made = 1
  /\ issued = {}
  /\ revoked = {}
  /\ session = FirstOf({1}, 1)
  /\ successor = FirstOf({}, 0)

TwoSessions ==
  /\ made = 3
  /\ issued = 1..3
  /\ revoked = {1}
  /\ session = [FirstOf({1, 3}, 1) EXCEPT ![2] = 2]
  /\ successor = FirstOf({1}, 3)

MCInit ==
  /\ LoginFailed \/ TwoSessions
  /\ owner = [t \in Tokens |-> IF t <= made THEN u1 ELSE NoUser]
  /\ stored = issued
  /\ expired = 0
  /\ lock = [t \in Tokens |-> NoHandler]
  /\ pc = [h \in Handlers |-> "idle"]
  /\ presented = [h \in Handlers |-> 0]
  /\ fresh = [h \in Handlers |-> 0]
  /\ now = [h \in Handlers |-> 0]
  /\ seen = [h \in Handlers |-> {}]
  /\ todo = [h \in Handlers |-> {}]
  /\ at = [h \in Handlers |-> 0]
  /\ hit = [h \in Handlers |-> {}]

MCSpec == MCInit /\ [][Next]_vars /\ Fairness
===============================================================================
