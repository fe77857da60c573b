------------------------------- MODULE EventLog -------------------------------
(***************************************************************************)
(* What the outbox of a service promises, with workers, batches, row locks *)
(* and database transactions taken away: an event is handed to the broker  *)
(* only when its business transaction has committed, leaves the log only   *)
(* after it was handed over, and is handed over once, and once more for    *)
(* each failure at most.  Module Outbox implements it.                     *)
(***************************************************************************)
EXTENDS Naturals

CONSTANTS
  Events,
  MaxFailures  \* bound: failures of publishes, statements, workers and processes

VARIABLES
  status,   \* [Events -> status of the event, or what became of it]
  sent,     \* [Events -> times Publish of the event returned nil]
  failures  \* failures so far

logVars == <<status, sent, failures>>

Init ==
  /\ status = [e \in Events |-> "unused"]
  /\ sent = [e \in Events |-> 0]
  /\ failures = 0

Insert(e) ==
  /\ status[e] = "unused"
  /\ status' = [status EXCEPT ![e] = "open"]
  /\ UNCHANGED <<sent, failures>>

EndInsert(e, s) ==
  /\ status[e] = "open"
  /\ s \in {"PENDING", "rolledback"}
  /\ status' = [status EXCEPT ![e] = s]
  /\ UNCHANGED <<sent, failures>>

(* Also an event that is marked meanwhile, by a worker that does not know. *)
Send(e) ==
  /\ status[e] \in {"PENDING", "PROCESSED"}
  /\ sent[e] <= failures
  /\ sent' = [sent EXCEPT ![e] = @ + 1]
  /\ UNCHANGED <<status, failures>>

Mark(S) ==
  /\ \A e \in S : status[e] = "PENDING" /\ sent[e] > 0
  /\ status' = [e \in Events |-> IF e \in S THEN "PROCESSED" ELSE status[e]]
  /\ UNCHANGED <<sent, failures>>

Fail ==
  /\ failures < MaxFailures
  /\ failures' = failures + 1
  /\ UNCHANGED <<status, sent>>

Next ==
  \/ \E e \in Events : Insert(e) \/ Send(e) \/ \E s \in {"PENDING", "rolledback"} : EndInsert(e, s)
  \/ \E S \in SUBSET Events : Mark(S)
  \/ Fail

Spec == Init /\ [][Next]_logVars
===============================================================================
