---------------------------- MODULE MCNotification ----------------------------
(* Instances of Notification for TLC. *)
EXTENDS Notification

Event(id, type, body) == [id |-> id, type |-> type, body |-> body]

(* The two databases number their events independently: a deposit and a    *)
(* registration share an id.  One event is handled, one is fatal and one,  *)
(* for a user the auth service does not know, fails every time.            *)
GoodFatalPoison ==
  {Event(1, "AccountToppedUp", "ok"), Event(1, "AccountRegistered", "malformed"),
   Event(2, "AccountToppedUp", "unknown user")}

(* Events of which none leads to an email: fatal ones and one of a type    *)
(* the service does not know.                                              *)
FatalAndUnknown ==
  {Event(1, "AccountToppedUp", "malformed"), Event(2, "AccountRegistered", "malformed"),
   Event(3, "other", "ok")}
===============================================================================
