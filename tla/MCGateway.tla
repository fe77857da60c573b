------------------------------- MODULE MCGateway -------------------------------
(* Instances of Gateway for TLC. *)
EXTENDS Gateway

CONSTANTS u1, u2

Call(route, token, body) == [route |-> route, token |-> token, body |-> body]

(* For each backend, every way to be turned away, one way in, and requests *)
(* it may fail on; u2 has no account.                                      *)
Mixed ==
  {Call("register", NoUser, "ok"), Call("me", NotUuid, "ok"),
   Call("login", NoUser, "malformed"), Call("register", NoUser, "oversize"),
   Call("deposit", u1, "unfit"), Call("withdraw", u1, "ok"), Call("withdraw", u2, "ok"),
   Call("deposit", NoUser, "ok")}
===============================================================================
