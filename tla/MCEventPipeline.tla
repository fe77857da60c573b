---------------------------- MODULE MCEventPipeline ----------------------------
(* Instances of EventPipeline for TLC. *)
EXTENDS EventPipeline

Event(id, type, body) == [id |-> id, type |-> type, body |-> body]

(* The two databases number their events independently: a deposit and a    *)
(* registration share an id.                                               *)
OneOfEach == {Event(1, "AccountToppedUp", "ok"), Event(1, "AccountRegistered", "ok")}
===============================================================================
