----------------------------- MODULE MCRateLimiter -----------------------------
(* Instances of RateLimiter for TLC. *)
EXTENDS RateLimiter

OneIp == [c \in Connections |-> "192.0.2.1"]
===============================================================================
