----------------------------- MODULE Announcement -----------------------------
(***************************************************************************)
(* What the services promise together, with outboxes, broker and consumers *)
(* taken away: emails are sent for committed events only, an event is done *)
(* only after an email for it has left, and every email for it beyond the  *)
(* first, before it is done or after, needs trouble in the service that    *)
(* sends them.  Module EventPipeline implements it.                        *)
(***************************************************************************)
EXTENDS Naturals

CONSTANTS Events, MaxTroubles

VARIABLES
  committed,  \* events whose business transaction has committed
  mails,      \* [Events -> emails sent]
  done,       \* events recorded as dealt with
  troubles    \* failures of statements, calls, consumers and connections

promiseVars == <<committed, mails, done, troubles>>

Init ==
  /\ committed = {}
  /\ mails = [e \in Events |-> 0]
  /\ done = {}
  /\ troubles = 0

(* Any step may come to grief when it has taken effect.                    *)
MayFail == troubles' \in {troubles, troubles + 1} /\ troubles' <= MaxTroubles

Commit(e) ==
  /\ committed' = committed \union {e}
  /\ UNCHANGED <<mails, done, troubles>>

Mail(e) ==
  /\ e \in committed
  /\ mails[e] <= troubles
  /\ mails' = [mails EXCEPT ![e] = @ + 1]
  /\ MayFail
  /\ UNCHANGED <<committed, done>>

Finish(e) ==
  /\ e \in committed
  /\ mails[e] > 0
  /\ done' = done \union {e}
  /\ MayFail
  /\ UNCHANGED <<committed, mails>>

Trouble == MayFail /\ UNCHANGED <<committed, mails, done>>

Next == (\E e \in Events : Commit(e) \/ Mail(e) \/ Finish(e)) \/ Trouble

Spec == Init /\ [][Next]_promiseVars
===============================================================================
