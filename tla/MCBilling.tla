------------------------------- MODULE MCBilling ------------------------------
(* Instances of Billing for TLC. *)
EXTENDS Billing, TLC

CONSTANTS u1, u2, k1, k2, k3, NoKey

Call(op, user, amount, key) ==
  [op |-> op, user |-> user, amount |-> amount, key |-> key]

(* A deposit and two withdrawals it covers one at a time, a key two users  *)
(* share, a key used for a deposit, a withdrawal and a negative amount,    *)
(* and a withdrawal with a key of its own.                                 *)
MixedRequests ==
  {Call("deposit", u1, 2, k1), Call("deposit", u2, 1, k1),
   Call("withdrawal", u1, 2, k2), Call("withdrawal", u1, 1, k3),
   Call("deposit", u1, 2, k2), Call("withdrawal", u1, -1, k2)}

(* Fewer calls, for liveness. *)
FewRequests ==
  {Call("deposit", u1, 2, k1), Call("withdrawal", u1, 2, k2),
   Call("deposit", u2, 1, k1)}

(* The two calls of requests.http, which send no idempotency key, made by  *)
(* two users: an absent key reaches the service as the empty string.       *)
RequestsHttp ==
  {Call("deposit", u1, 2, NoKey), Call("deposit", u2, 2, NoKey),
   Call("withdrawal", u1, 1, NoKey), Call("withdrawal", u2, 1, NoKey)}

HandlerSymmetry == Permutations(Handlers)
===============================================================================
