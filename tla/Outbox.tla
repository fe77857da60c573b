-------------------------------- MODULE Outbox --------------------------------
(***************************************************************************)
(* The transactional outbox (pkg/outbox) as the billing and auth services  *)
(* run it.  A service inserts an event in the transaction of its business  *)
(* write; workers, one per running instance of the service, poll the       *)
(* PENDING events, publish them one by one and mark the published ones.    *)
(*                                                                         *)
(* A publish that returns nil has written the message to the connection;   *)
(* the channel is not in confirm mode, so the broker may still not have    *)
(* it.  This module counts what was handed over (sent).                    *)
(***************************************************************************)
EXTENDS Integers, FiniteSets

CONSTANTS
  Workers,     \* outbox workers of the instances of one service
  NoWorker,    \* the owner of a row lock nobody holds
  BatchLimit,  \* LIMIT of the poll, 100 in the code
  MaxId,       \* bound: largest id the BIGSERIAL column hands out
  MaxFailures  \* bound: failures of a publish, a statement or a worker

ASSUME OutboxAssumption ==
  /\ NoWorker \notin Workers
  /\ BatchLimit \in Nat \ {0}
  /\ MaxId \in Nat
  /\ MaxFailures \in Nat

VARIABLES
  nextId,     \* next value of the sequence behind outbox_events.id
  status,     \* status of an event, or what became of its id
  rowLock,    \* worker whose transaction locks the row
  pc,         \* where in processOutboxBatch a worker is
  txOpen,     \* the database still has the transaction of the worker
  batch,      \* events the worker has read and not tried to publish yet
  processed,  \* processedIds: events published in this batch
  sent,       \* history: times Publish of the event returned nil
  failures    \* history: failures so far

rowVars == <<nextId, status>>
workerVars == <<pc, batch, processed>>
vars == <<rowVars, rowLock, workerVars, txOpen, sent, failures>>

Ids == 1..MaxId

(* "unused": not handed out; "open": its INSERT is not committed;          *)
(* "rolledback": it never will be.                                         *)
Statuses == {"unused", "open", "rolledback", "PENDING", "PROCESSED"}

-------------------------------------------------------------------------------
(* The services' transactions *)

(* The id is taken from the sequence at the INSERT, so events may commit   *)
(* in another order than that of their ids, and ids may be skipped.        *)
InsertOutboxEvent ==
  /\ nextId <= MaxId
  /\ status' = [status EXCEPT ![nextId] = "open"]
  /\ nextId' = nextId + 1
  /\ UNCHANGED <<rowLock, workerVars, txOpen, sent, failures>>

(* Mutant: the row is visible before the business transaction commits. *)
MutantEndInsert(i) ==
  /\ status[i] \in {"open", "PENDING"}
  /\ \E s \in {"PENDING", "rolledback"} : status' = [status EXCEPT ![i] = s]
  /\ UNCHANGED <<nextId, rowLock, workerVars, txOpen, sent, failures>>

EndInsert(i) ==
  /\ status[i] = "open"
  /\ \E s \in {"PENDING", "rolledback"} : status' = [status EXCEPT ![i] = s]
  /\ UNCHANGED <<nextId, rowLock, workerVars, txOpen, sent, failures>>

-------------------------------------------------------------------------------
(* processOutboxBatch *)

(* Mutant: SELECT without FOR UPDATE SKIP LOCKED. *)
MutantPollable == {i \in Ids : status[i] = "PENDING"}

Pollable == {i \in Ids : status[i] = "PENDING" /\ rowLock[i] = NoWorker}

(* ORDER BY id LIMIT n *)
FirstOf(S, n) == {i \in S : Cardinality({j \in S : j < i}) < n}

Unlock(w) == rowLock' = [i \in Ids |-> IF rowLock[i] = w THEN NoWorker ELSE rowLock[i]]

(* processOutboxBatch returns; the deferred rollback ends what is open. *)
Return(w) ==
  /\ pc' = [pc EXCEPT ![w] = "idle"]
  /\ batch' = [batch EXCEPT ![w] = {}]
  /\ processed' = [processed EXCEPT ![w] = {}]
  /\ txOpen' = [txOpen EXCEPT ![w] = FALSE]
  /\ Unlock(w)

(* BeginTx and the poll.  One that finds nothing returns at once, and one  *)
(* that fails before its first row leaves nothing behind: neither is a     *)
(* step.                                                                   *)
QueryOutboxEvents(w) ==
  /\ pc[w] = "idle"
  /\ Pollable # {}
  /\ LET found == FirstOf(Pollable, BatchLimit) IN
       /\ batch' = [batch EXCEPT ![w] = found]
       /\ rowLock' = [i \in Ids |-> IF i \in found THEN w ELSE rowLock[i]]
  /\ txOpen' = [txOpen EXCEPT ![w] = TRUE]
  /\ pc' = [pc EXCEPT ![w] = "publish"]
  /\ UNCHANGED <<rowVars, processed, sent, failures>>

(* The connection breaks while the rows are read.  rows.Err is not asked,  *)
(* so the rows read so far pass for the result, on a transaction that is   *)
(* gone.                                                                   *)
QueryBreaksOff(w) ==
  /\ pc[w] = "idle"
  /\ Pollable # {}
  /\ failures < MaxFailures
  /\ failures' = failures + 1
  /\ \E n \in 1..BatchLimit : batch' = [batch EXCEPT ![w] = FirstOf(Pollable, n)]
  /\ pc' = [pc EXCEPT ![w] = "publish"]
  /\ UNCHANGED <<rowVars, rowLock, processed, txOpen, sent>>

(* One turn of the publishing loop, in the order of the ids.               *)
PublishEvent(w, i) ==
  /\ pc[w] = "publish"
  /\ i \in batch[w]
  /\ \A j \in batch[w] : i <= j
  /\ batch' = [batch EXCEPT ![w] = @ \ {i}]
  /\ sent' = [sent EXCEPT ![i] = @ + 1]
  /\ processed' = [processed EXCEPT ![w] = @ \union {i}]
  /\ UNCHANGED <<rowVars, rowLock, pc, txOpen, failures>>

(* An event that cannot be published is skipped and stays out of           *)
(* processedIds.                                                           *)
PublishFails(w, i) ==
  /\ pc[w] = "publish"
  /\ i \in batch[w]
  /\ \A j \in batch[w] : i <= j
  /\ failures < MaxFailures
  /\ failures' = failures + 1
  /\ batch' = [batch EXCEPT ![w] = @ \ {i}]
  /\ UNCHANGED <<rowVars, rowLock, pc, processed, txOpen, sent>>

(* UPDATE ... WHERE id = ANY(processedIds), skipped when there is none.    *)
(* On a transaction that is gone it fails and the batch ends.              *)
MarkEventsAsProcessed(w) ==
  /\ pc[w] = "publish"
  /\ batch[w] = {}
  /\ IF processed[w] # {} /\ ~txOpen[w]
     THEN Return(w)
     ELSE /\ pc' = [pc EXCEPT ![w] = "commit"]
          /\ UNCHANGED <<rowLock, batch, processed, txOpen>>
  /\ UNCHANGED <<rowVars, sent, failures>>

(* Mutant: the whole batch is marked, published or not. *)
MutantCommit(w) ==
  /\ pc[w] = "commit"
  /\ status' = [i \in Ids |-> IF txOpen[w] /\ rowLock[i] = w THEN "PROCESSED" ELSE status[i]]
  /\ Return(w)
  /\ UNCHANGED <<nextId, sent, failures>>

Commit(w) ==
  /\ pc[w] = "commit"
  /\ status' = [i \in Ids |-> IF txOpen[w] /\ i \in processed[w] THEN "PROCESSED" ELSE status[i]]
  /\ Return(w)
  /\ UNCHANGED <<nextId, sent, failures>>

(* The database drops the connection: the transaction and its locks are    *)
(* gone while the worker goes on publishing what it has read.              *)
DatabaseLost(w) ==
  /\ txOpen[w]
  /\ failures < MaxFailures
  /\ failures' = failures + 1
  /\ txOpen' = [txOpen EXCEPT ![w] = FALSE]
  /\ Unlock(w)
  /\ UNCHANGED <<rowVars, workerVars, sent>>

(* Mutant: a failed batch is left open instead of being rolled back. *)
MutantBatchFails(w) ==
  /\ pc[w] # "idle"
  /\ failures < MaxFailures
  /\ failures' = failures + 1
  /\ pc' = [pc EXCEPT ![w] = "idle"]
  /\ batch' = [batch EXCEPT ![w] = {}]
  /\ processed' = [processed EXCEPT ![w] = {}]
  /\ UNCHANGED <<rowVars, rowLock, txOpen, sent>>

(* The process dies and is started again, or the UPDATE or the COMMIT      *)
(* fails: events already published stay PENDING.                           *)
BatchFails(w) ==
  /\ pc[w] # "idle"
  /\ failures < MaxFailures
  /\ failures' = failures + 1
  /\ Return(w)
  /\ UNCHANGED <<rowVars, sent>>

-------------------------------------------------------------------------------
Init ==
  /\ nextId = 1
  /\ status = [i \in Ids |-> "unused"]
  /\ rowLock = [i \in Ids |-> NoWorker]
  /\ pc = [w \in Workers |-> "idle"]
  /\ txOpen = [w \in Workers |-> FALSE]
  /\ batch = [w \in Workers |-> {}]
  /\ processed = [w \in Workers |-> {}]
  /\ sent = [i \in Ids |-> 0]
  /\ failures = 0

Insert == InsertOutboxEvent \/ \E i \in Ids : EndInsert(i)

(* What a worker does at the ticks of its ticker. *)
Work(w) ==
  \/ QueryOutboxEvents(w)
  \/ \E i \in Ids : PublishEvent(w, i) \/ PublishFails(w, i)
  \/ MarkEventsAsProcessed(w)
  \/ Commit(w)

Next ==
  \/ Insert
  \/ \E w \in Workers :
       Work(w) \/ QueryBreaksOff(w) \/ DatabaseLost(w) \/ BatchFails(w)

Spec == Init /\ [][Next]_vars

(* The goroutine of a worker loops for ever and its ticker keeps ticking.  *)
Fairness == \A w \in Workers : WF_vars(Work(w))

FairSpec == Spec /\ Fairness

-------------------------------------------------------------------------------
(* Properties *)

(* Every variable has its type, and only open transactions hold locks. *)
TypeOK ==
  /\ nextId \in 1..(MaxId + 1)
  /\ status \in [Ids -> Statuses]
  /\ rowLock \in [Ids -> Workers \union {NoWorker}]
  /\ pc \in [Workers -> {"idle", "publish", "commit"}]
  /\ txOpen \in [Workers -> BOOLEAN]
  /\ batch \in [Workers -> SUBSET Ids]
  /\ processed \in [Workers -> SUBSET Ids]
  /\ sent \in [Ids -> Nat]
  /\ failures \in 0..MaxFailures
  /\ \A i \in Ids : rowLock[i] # NoWorker => txOpen[rowLock[i]]

(* The promise of the pattern, first half: nothing is announced that the   *)
(* business transaction did not commit.                                    *)
SentIsCommitted == \A i \in Ids : sent[i] > 0 => status[i] \in {"PENDING", "PROCESSED"}

(* Second half: an event leaves the outbox only after a successful         *)
(* publish, also when the publish of other events of its batch failed.     *)
ProcessedWasSent == \A i \in Ids : status[i] = "PROCESSED" => sent[i] > 0

(* FOR UPDATE SKIP LOCKED: workers with open transactions never have the   *)
(* same event in hand.                                                     *)
BatchesDisjoint ==
  \A v, w \in Workers :
    (v # w /\ txOpen[v] /\ txOpen[w]) =>
      (batch[v] \union processed[v]) \intersect (batch[w] \union processed[w]) = {}

(* An event is published again only because something failed: each failure *)
(* costs an event at most one more publish, however many workers run.      *)
DuplicatesNeedFailures == \A i \in Ids : sent[i] <= 1 + failures

(* The inductive invariant behind these properties (OutboxProofs), in      *)
(* parts.  The events a worker has read in the batch it is working on:     *)
InHand(w) == batch[w] \union processed[w]

(* A worker with an open transaction owns the locks of the events it has   *)
(* in hand, and only PENDING events are locked.                            *)
LocksInv ==
  /\ \A i \in Ids : rowLock[i] # NoWorker => status[i] = "PENDING"
  /\ \A w \in Workers : txOpen[w] => \A i \in InHand(w) : rowLock[i] = w

WorkerInv(w) ==
  /\ pc[w] = "idle" => InHand(w) = {} /\ ~txOpen[w]
  /\ pc[w] = "commit" => batch[w] = {}
  /\ batch[w] \intersect processed[w] = {}
  /\ \A i \in InHand(w) : status[i] \in {"PENDING", "PROCESSED"}
  /\ \A i \in processed[w] : sent[i] > 0

(* The workers that are still to publish event i, and whether the event    *)
(* can get into another batch without being marked first.                  *)
Attempts(i) == {w \in Workers : i \in batch[w]}

Available(i) ==
  /\ status[i] # "PROCESSED"
  /\ rowLock[i] # NoWorker => i \notin InHand(rowLock[i])

(* Publishes made and publishes to come are within the budget.             *)
BudgetInv(i) ==
  /\ IsFiniteSet(Attempts(i))
  /\ sent[i] + Cardinality(Attempts(i)) + (IF Available(i) THEN 1 ELSE 0) <= 1 + failures

(* Locks, workers and events agree, ids not handed out are unused, and no  *)
(* event can be published more often than the failures account for.        *)
IInv ==
  /\ TypeOK
  /\ LocksInv
  /\ \A w \in Workers : WorkerInv(w)
  /\ \A i \in Ids : i >= nextId => status[i] = "unused"
  /\ SentIsCommitted
  /\ ProcessedWasSent
  /\ \A i \in Ids : BudgetInv(i)

(* No committed event is left behind once failures stop: neither behind    *)
(* the LIMIT of the poll, nor under the locks of a worker that failed.     *)
EveryEventProcessed ==
  \A i \in Ids : status[i] = "PENDING" ~> status[i] = "PROCESSED"

-------------------------------------------------------------------------------
(* The promise the workers implement.                                      *)
E == INSTANCE EventLog
       WITH Events <- Ids, MaxFailures <- MaxFailures,
            status <- status, sent <- sent, failures <- failures

(* Whatever workers, locks and transactions do, from outside the table is  *)
(* a log of events: each is handed over after its commit, marked after it  *)
(* was handed over, and handed over again only after a failure.            *)
EventLogSpec == E!Spec
===============================================================================
