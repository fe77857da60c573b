----------------------------- MODULE OutboxProofs ------------------------------
(***************************************************************************)
(* Proofs about module Outbox, for every set of workers, every limit of    *)
(* the poll and every bound on ids and failures.                           *)
(***************************************************************************)
EXTENDS Outbox, FiniteSetTheorems, TLAPS

(* The poll returns some of the events it may return. *)
LEMMA FoundPollable == \A n : FirstOf(Pollable, n) \subseteq Pollable
  BY DEF FirstOf

-------------------------------------------------------------------------------
(* Type correctness *)

(* The initial states are type-correct. *)
LEMMA TypeInit == Init => TypeOK
  BY OutboxAssumption DEF Init, TypeOK, Ids, Statuses

(* Every step of the services and of the workers keeps the types, and a    *)
(* lock disappears with the transaction that holds it.                     *)
LEMMA TypeStep == TypeOK /\ [Next]_vars => TypeOK'
  <1> SUFFICES ASSUME TypeOK, [Next]_vars
               PROVE  TypeOK'
    OBVIOUS
  <1> USE OutboxAssumption
  <1>1. CASE InsertOutboxEvent
    BY <1>1 DEF InsertOutboxEvent, TypeOK, Ids, Statuses, workerVars
  <1>2. ASSUME NEW i \in Ids, EndInsert(i)
        PROVE  TypeOK'
    BY <1>2 DEF EndInsert, TypeOK, Statuses, workerVars
  <1>3. ASSUME NEW w \in Workers, Return(w)
        PROVE  /\ rowLock' \in [Ids -> Workers \union {NoWorker}]
               /\ pc' \in [Workers -> {"idle", "publish", "commit"}]
               /\ txOpen' \in [Workers -> BOOLEAN]
               /\ batch' \in [Workers -> SUBSET Ids]
               /\ processed' \in [Workers -> SUBSET Ids]
               /\ \A i \in Ids : rowLock'[i] # NoWorker => txOpen'[rowLock'[i]]
    BY <1>3 DEF Return, Unlock, TypeOK
  <1>4. ASSUME NEW w \in Workers, QueryOutboxEvents(w)
        PROVE  TypeOK'
    <2>1. FirstOf(Pollable, BatchLimit) \subseteq Ids
      BY FoundPollable DEF Pollable
    <2>2. QED
      BY <1>4, <2>1 DEF QueryOutboxEvents, TypeOK, rowVars
  <1>5. ASSUME NEW w \in Workers, QueryBreaksOff(w)
        PROVE  TypeOK'
    <2>1. PICK n \in 1..BatchLimit : batch' = [batch EXCEPT ![w] = FirstOf(Pollable, n)]
      BY <1>5 DEF QueryBreaksOff
    <2>2. FirstOf(Pollable, n) \subseteq Ids
      BY FoundPollable DEF Pollable
    <2>3. QED
      BY <1>5, <2>1, <2>2 DEF QueryBreaksOff, TypeOK, rowVars
  <1>6. ASSUME NEW w \in Workers, NEW i \in Ids, PublishEvent(w, i)
        PROVE  TypeOK'
    BY <1>6 DEF PublishEvent, TypeOK, rowVars
  <1>7. ASSUME NEW w \in Workers, NEW i \in Ids, PublishFails(w, i)
        PROVE  TypeOK'
    BY <1>7 DEF PublishFails, TypeOK, rowVars
  <1>8. ASSUME NEW w \in Workers, MarkEventsAsProcessed(w)
        PROVE  TypeOK'
    <2>1. CASE Return(w)
      BY <1>3, <1>8, <2>1 DEF MarkEventsAsProcessed, TypeOK, rowVars
    <2>2. CASE pc' = [pc EXCEPT ![w] = "commit"] /\ UNCHANGED <<rowLock, batch, processed, txOpen>>
      BY <1>8, <2>2 DEF MarkEventsAsProcessed, TypeOK, rowVars
    <2>3. QED  BY <1>8, <2>1, <2>2 DEF MarkEventsAsProcessed
  <1>9. ASSUME NEW w \in Workers, Commit(w)
        PROVE  TypeOK'
    <2>1. status' \in [Ids -> Statuses]
      BY <1>9 DEF Commit, TypeOK, Statuses
    <2>2. QED
      BY <1>3, <1>9, <2>1 DEF Commit, TypeOK
  <1>10. ASSUME NEW w \in Workers, DatabaseLost(w)
         PROVE  TypeOK'
    BY <1>10 DEF DatabaseLost, Unlock, TypeOK, rowVars, workerVars
  <1>11. ASSUME NEW w \in Workers, BatchFails(w)
         PROVE  TypeOK'
    BY <1>3, <1>11 DEF BatchFails, TypeOK, rowVars
  <1>12. CASE UNCHANGED vars
    BY <1>12 DEF vars, rowVars, workerVars, TypeOK
  <1>13. QED
    BY <1>1, <1>2, <1>4, <1>5, <1>6, <1>7, <1>8, <1>9, <1>10, <1>11, <1>12
       DEF Next, Insert, Work

(* In every reachable state the variables have their types, and every lock *)
(* on an event belongs to a transaction that is still open.                *)
THEOREM OutboxTypeCorrect == Spec => []TypeOK
  BY TypeInit, TypeStep, PTL DEF Spec

-------------------------------------------------------------------------------
(* Locks, workers and the history of an event *)

NextIsUnused == \A i \in Ids : i >= nextId => status[i] = "unused"

Control ==
  /\ LocksInv
  /\ \A w \in Workers : WorkerInv(w)
  /\ NextIsUnused
  /\ SentIsCommitted
  /\ ProcessedWasSent

(* A worker that returns gives up its locks and has nothing in hand.       *)
LEMMA ReturnControl ==
  ASSUME TypeOK, Control, NEW w \in Workers, Return(w), UNCHANGED <<nextId, sent>>,
         \A i \in Ids : status'[i] # status[i] =>
                          /\ status[i] = "PENDING" /\ status'[i] = "PROCESSED"
                          /\ rowLock[i] = w /\ sent[i] > 0
  PROVE  Control'
  <1> USE OutboxAssumption
  <1>1. LocksInv'
    BY DEF Return, Unlock, TypeOK, Control, LocksInv, InHand
  <1>2. ASSUME NEW v \in Workers
        PROVE  WorkerInv(v)'
    <2>1. CASE v = w
      BY <2>1 DEF Return, TypeOK, Control, WorkerInv, InHand
    <2>2. CASE v # w
      <3>1. /\ pc'[v] = pc[v] /\ txOpen'[v] = txOpen[v]
            /\ batch'[v] = batch[v] /\ processed'[v] = processed[v]
            /\ InHand(v) \subseteq Ids
        BY <2>2 DEF Return, TypeOK, InHand
      <3>2. \A i \in InHand(v) : status'[i] \in {"PENDING", "PROCESSED"}
        BY <3>1 DEF Control, WorkerInv
      <3>3. QED
        BY <3>1, <3>2 DEF Control, WorkerInv, InHand
    <2>3. QED  BY <2>1, <2>2
  <1>3. NextIsUnused' /\ SentIsCommitted' /\ ProcessedWasSent'
    BY DEF Control, NextIsUnused, SentIsCommitted, ProcessedWasSent
  <1>4. QED  BY <1>1, <1>2, <1>3 DEF Control

(* The events a worker has polled are PENDING, and locked by it while its  *)
(* transaction lasts.                                                      *)
LEMMA QueryControl ==
  ASSUME TypeOK, Control, NEW w \in Workers, QueryOutboxEvents(w) \/ QueryBreaksOff(w)
  PROVE  Control'
  <1> USE OutboxAssumption
  <1>1. PICK n : batch' = [batch EXCEPT ![w] = FirstOf(Pollable, n)]
    BY DEF QueryOutboxEvents, QueryBreaksOff
  <1>2. /\ batch'[w] \subseteq {i \in Ids : status[i] = "PENDING" /\ rowLock[i] = NoWorker}
        /\ \A v \in Workers \ {w} : batch'[v] = batch[v]
    BY <1>1, FoundPollable DEF Pollable, TypeOK
  <1>3. /\ pc[w] = "idle" /\ pc' = [pc EXCEPT ![w] = "publish"]
        /\ UNCHANGED <<nextId, status, processed, sent>>
    BY DEF QueryOutboxEvents, QueryBreaksOff, rowVars
  <1>4. InHand(w) = {} /\ ~txOpen[w]
    BY <1>3 DEF Control, WorkerInv
  <1>5. LocksInv'
    <2>1. CASE QueryOutboxEvents(w)
      <3>1. rowLock' = [i \in Ids |-> IF i \in batch'[w] THEN w ELSE rowLock[i]]
        BY <2>1 DEF QueryOutboxEvents, TypeOK
      <3>2. txOpen' = [txOpen EXCEPT ![w] = TRUE]
        BY <2>1 DEF QueryOutboxEvents
      <3>3. \A i \in Ids : rowLock'[i] # NoWorker => status'[i] = "PENDING"
        BY <1>2, <1>3, <3>1 DEF Control, LocksInv
      <3>4. ASSUME NEW v \in Workers, txOpen'[v], NEW i \in InHand(v)'
            PROVE  rowLock'[i] = v
        <4>1. CASE v = w
          BY <1>2, <1>3, <1>4, <3>1, <3>4, <4>1 DEF InHand
        <4>2. CASE v # w
          <5>1. txOpen[v] /\ i \in InHand(v) /\ i \in Ids
            BY <1>2, <1>3, <3>2, <3>4, <4>2 DEF InHand, TypeOK
          <5>2. rowLock[i] = v
            BY <5>1 DEF Control, LocksInv
          <5>3. QED  BY <1>2, <3>1, <5>1, <5>2
        <4>3. QED  BY <4>1, <4>2
      <3>5. QED  BY <3>3, <3>4 DEF LocksInv
    <2>2. CASE QueryBreaksOff(w)
      BY <1>2, <1>3, <1>4, <2>2 DEF QueryBreaksOff, Control, LocksInv, InHand
    <2>3. QED  BY <2>1, <2>2
  <1>6. ASSUME NEW v \in Workers
        PROVE  WorkerInv(v)'
    <2>1. CASE v = w
      BY <1>2, <1>3, <1>4, <2>1 DEF TypeOK, WorkerInv, InHand
    <2>2. CASE v # w
      <3>1. pc'[v] = pc[v] /\ txOpen'[v] = txOpen[v] /\ batch'[v] = batch[v]
        BY <1>2, <1>3, <2>2 DEF QueryOutboxEvents, QueryBreaksOff, TypeOK
      <3>2. QED
        BY <1>3, <3>1 DEF Control, WorkerInv, InHand
    <2>3. QED  BY <2>1, <2>2
  <1>7. NextIsUnused' /\ SentIsCommitted' /\ ProcessedWasSent'
    BY <1>3 DEF Control, NextIsUnused, SentIsCommitted, ProcessedWasSent
  <1>8. QED  BY <1>5, <1>6, <1>7 DEF Control

(* A turn of the publishing loop takes an event out of the batch, and puts *)
(* it among the processed ones only when it was sent.                      *)
LEMMA PublishControl ==
  ASSUME TypeOK, Control, NEW w \in Workers, NEW i \in Ids,
         PublishEvent(w, i) \/ PublishFails(w, i)
  PROVE  Control'
  <1>1. /\ pc[w] = "publish" /\ i \in batch[w]
        /\ batch' = [batch EXCEPT ![w] = @ \ {i}]
        /\ UNCHANGED <<nextId, status, rowLock, pc, txOpen>>
    BY DEF PublishEvent, PublishFails, rowVars
  <1>2. /\ \A v \in Workers \ {w} : batch'[v] = batch[v] /\ processed'[v] = processed[v]
        /\ batch'[w] = batch[w] \ {i}
        /\ processed'[w] = processed[w] \/ (processed'[w] = processed[w] \union {i} /\ sent'[i] > 0)
        /\ \A j \in Ids : sent'[j] \in Nat /\ (sent[j] > 0 => sent'[j] > 0)
        /\ \A j \in Ids \ {i} : sent'[j] = sent[j]
    BY <1>1 DEF PublishEvent, PublishFails, TypeOK
  <1>3. \A v \in Workers : InHand(v)' \subseteq InHand(v) /\ InHand(v) \subseteq Ids
    BY <1>1, <1>2 DEF InHand, TypeOK
  <1>4. LocksInv'
    BY <1>1, <1>3 DEF Control, LocksInv
  <1>5. ASSUME NEW v \in Workers
        PROVE  WorkerInv(v)'
    <2>1. WorkerInv(v)
      BY DEF Control
    <2>2. pc[v] = "idle" => InHand(v)' = {}
      BY <1>3, <2>1 DEF WorkerInv
    <2>3. (pc[v] = "commit" => batch'[v] = {}) /\ batch'[v] \intersect processed'[v] = {}
      BY <1>1, <1>2, <2>1 DEF WorkerInv
    <2>4. \A j \in processed'[v] : sent'[j] > 0
      <3>1. processed[v] \subseteq Ids
        BY DEF TypeOK
      <3>2. QED  BY <1>2, <2>1, <3>1 DEF WorkerInv
    <2>5. \A j \in InHand(v)' : status'[j] \in {"PENDING", "PROCESSED"}
      BY <1>1, <1>3, <2>1 DEF WorkerInv
    <2>6. QED
      BY <1>1, <2>1, <2>2, <2>3, <2>4, <2>5 DEF WorkerInv
  <1>6. status[i] \in {"PENDING", "PROCESSED"}
    BY <1>1 DEF Control, WorkerInv, InHand
  <1>7. NextIsUnused' /\ SentIsCommitted' /\ ProcessedWasSent'
    BY <1>1, <1>2, <1>6 DEF Control, NextIsUnused, SentIsCommitted, ProcessedWasSent
  <1>8. QED  BY <1>4, <1>5, <1>7 DEF Control
(* The services' transactions touch only events no worker has seen.        *)
LEMMA InsertControl ==
  ASSUME TypeOK, Control, Insert
  PROVE  Control'
  <1>1. /\ nextId' >= nextId /\ nextId' \in Nat /\ nextId \in Nat
        /\ \A i \in Ids : i >= nextId' => status'[i] = "unused"
        /\ \A i \in Ids : status'[i] # status[i] => status[i] \in {"unused", "open"}
        /\ UNCHANGED <<rowLock, pc, txOpen, batch, processed, sent>>
    <2>1. CASE InsertOutboxEvent
      BY <2>1, OutboxAssumption
         DEF InsertOutboxEvent, TypeOK, Ids, Control, NextIsUnused, workerVars
    <2>2. ASSUME NEW j \in Ids, EndInsert(j)
          PROVE  /\ nextId' >= nextId /\ nextId' \in Nat /\ nextId \in Nat
                 /\ \A i \in Ids : i >= nextId' => status'[i] = "unused"
                 /\ \A i \in Ids : status'[i] # status[i] => status[i] \in {"unused", "open"}
                 /\ UNCHANGED <<rowLock, pc, txOpen, batch, processed, sent>>
      BY <2>2, OutboxAssumption DEF EndInsert, TypeOK, Ids, Control, NextIsUnused, workerVars
    <2>3. QED  BY <2>1, <2>2 DEF Insert
  <1>2. LocksInv'
    BY <1>1 DEF Control, LocksInv, InHand
  <1>3. ASSUME NEW w \in Workers
        PROVE  WorkerInv(w)'
    <2>1. InHand(w) \subseteq Ids
      BY DEF TypeOK, InHand
    <2>2. \A i \in InHand(w) : status'[i] \in {"PENDING", "PROCESSED"}
      BY <1>1, <2>1 DEF Control, WorkerInv
    <2>3. QED
      BY <1>1, <2>2 DEF Control, WorkerInv, InHand
  <1>4. ProcessedWasSent'
    <2>1. \A i \in Ids : status'[i] = "PROCESSED" => status[i] = "PROCESSED"
      BY DEF Insert, InsertOutboxEvent, EndInsert, TypeOK
    <2>2. QED  BY <1>1, <2>1 DEF Control, ProcessedWasSent
  <1>5. NextIsUnused' /\ SentIsCommitted'
    BY <1>1 DEF Control, NextIsUnused, SentIsCommitted
  <1>6. QED  BY <1>2, <1>3, <1>4, <1>5 DEF Control

(* Marking moves the worker on, or ends a batch whose transaction is gone. *)
LEMMA MarkControl ==
  ASSUME TypeOK, Control, NEW w \in Workers, MarkEventsAsProcessed(w)
  PROVE  Control'
  <1>1. CASE Return(w)
    BY <1>1, ReturnControl DEF MarkEventsAsProcessed, rowVars
  <1>2. CASE pc' = [pc EXCEPT ![w] = "commit"] /\ UNCHANGED <<rowLock, batch, processed, txOpen>>
    <2>1. pc[w] = "publish" /\ batch[w] = {} /\ UNCHANGED <<nextId, status, sent>>
      BY DEF MarkEventsAsProcessed, rowVars
    <2>2. LocksInv' /\ NextIsUnused' /\ SentIsCommitted' /\ ProcessedWasSent'
      BY <1>2, <2>1
         DEF Control, LocksInv, InHand, NextIsUnused, SentIsCommitted, ProcessedWasSent
    <2>3. ASSUME NEW v \in Workers
          PROVE  WorkerInv(v)'
      BY <1>2, <2>1 DEF Control, WorkerInv, InHand, TypeOK
    <2>4. QED  BY <2>2, <2>3 DEF Control
  <1>3. QED  BY <1>1, <1>2 DEF MarkEventsAsProcessed

(* A COMMIT that finds its transaction marks events the worker has locked  *)
(* and published.                                                          *)
LEMMA CommitControl ==
  ASSUME TypeOK, Control, NEW w \in Workers, Commit(w)
  PROVE  Control'
  <1>1. ASSUME NEW i \in Ids, status'[i] # status[i]
        PROVE  /\ status[i] = "PENDING" /\ status'[i] = "PROCESSED"
               /\ rowLock[i] = w /\ sent[i] > 0
    <2>1. txOpen[w] /\ i \in processed[w] /\ status'[i] = "PROCESSED"
      BY <1>1 DEF Commit, TypeOK
    <2>2. rowLock[i] = w /\ sent[i] > 0
      BY <2>1 DEF Control, LocksInv, WorkerInv, InHand
    <2>3. status[i] = "PENDING"
      BY <2>2, OutboxAssumption DEF Control, LocksInv
    <2>4. QED  BY <2>1, <2>2, <2>3
  <1>2. QED
    BY <1>1, ReturnControl DEF Commit

(* With the transaction its locks are gone, and only they.                 *)
LEMMA LostControl ==
  ASSUME TypeOK, Control, NEW w \in Workers, DatabaseLost(w)
  PROVE  Control'
  <1> USE OutboxAssumption
  <1>1. LocksInv'
    <2>1. /\ rowLock' = [i \in Ids |-> IF rowLock[i] = w THEN NoWorker ELSE rowLock[i]]
          /\ txOpen' = [txOpen EXCEPT ![w] = FALSE]
          /\ UNCHANGED <<status, batch, processed>>
      BY DEF DatabaseLost, Unlock, rowVars, workerVars
    <2>2. \A v \in Workers : InHand(v) \subseteq Ids
      BY DEF InHand, TypeOK
    <2>3. \A i \in Ids : rowLock'[i] # NoWorker => status'[i] = "PENDING"
      BY <2>1 DEF Control, LocksInv
    <2>4. ASSUME NEW v \in Workers, txOpen'[v], NEW i \in InHand(v)'
          PROVE  rowLock'[i] = v
      <3>1. v # w /\ txOpen[v] /\ i \in InHand(v) /\ i \in Ids
        BY <2>1, <2>2, <2>4 DEF InHand, TypeOK
      <3>2. rowLock[i] = v
        BY <3>1 DEF Control, LocksInv
      <3>3. QED  BY <2>1, <3>1, <3>2
    <2>5. QED  BY <2>3, <2>4 DEF LocksInv
  <1>2. ASSUME NEW v \in Workers
        PROVE  WorkerInv(v)'
    BY DEF DatabaseLost, Control, WorkerInv, InHand, TypeOK, rowVars, workerVars
  <1>3. NextIsUnused' /\ SentIsCommitted' /\ ProcessedWasSent'
    BY DEF DatabaseLost, Control, NextIsUnused, SentIsCommitted, ProcessedWasSent, rowVars
  <1>4. QED  BY <1>1, <1>2, <1>3 DEF Control

(* Every step keeps locks, workers and events consistent. *)
LEMMA ControlStep == TypeOK /\ Control /\ [Next]_vars => Control'
  <1> SUFFICES ASSUME TypeOK, Control, [Next]_vars
               PROVE  Control'
    OBVIOUS
  <1>1. ASSUME NEW w \in Workers, BatchFails(w)
        PROVE  Control'
    BY <1>1, ReturnControl DEF BatchFails, rowVars
  <1>2. CASE UNCHANGED vars
    BY <1>2 DEF vars, rowVars, workerVars, Control, LocksInv, WorkerInv, InHand, NextIsUnused,
                SentIsCommitted, ProcessedWasSent
  <1>3. QED
    BY <1>1, <1>2, InsertControl, QueryControl, PublishControl, MarkControl, CommitControl,
       LostControl DEF Next, Work
-------------------------------------------------------------------------------
(* The budget of publishes *)

(* An event keeps within its budget if nobody new is to publish it, and it *)
(* becomes available again only at the price of a failure.                 *)
LEMMA BudgetKept ==
  ASSUME TypeOK, TypeOK', NEW i \in Ids, BudgetInv(i),
         Attempts(i)' \subseteq Attempts(i), sent'[i] = sent[i],
         \/ failures' = failures /\ (Available(i)' => Available(i))
         \/ failures' = failures + 1
  PROVE  BudgetInv(i)'
  <1>1. /\ IsFiniteSet(Attempts(i)')
        /\ Cardinality(Attempts(i)') <= Cardinality(Attempts(i))
    BY FS_Subset DEF BudgetInv
  <1>2. Cardinality(Attempts(i)') \in Nat /\ Cardinality(Attempts(i)) \in Nat
    BY <1>1, FS_CardinalityType DEF BudgetInv
  <1>3. sent[i] \in Nat /\ failures \in Nat
    BY OutboxAssumption DEF TypeOK
  <1>4. QED
    BY <1>1, <1>2, <1>3 DEF BudgetInv

(* The services' transactions leave attempts and locks alone. *)
LEMMA InsertBudget ==
  ASSUME TypeOK, TypeOK', Control, NEW i \in Ids, BudgetInv(i), Insert
  PROVE  BudgetInv(i)'
  <1>1. UNCHANGED <<rowLock, batch, processed, sent, failures>>
    BY DEF Insert, InsertOutboxEvent, EndInsert, workerVars
  <1>2. status[i] = "PROCESSED" => status'[i] = "PROCESSED"
    BY DEF Insert, InsertOutboxEvent, EndInsert, TypeOK, Ids, Control, NextIsUnused
  <1>3. QED
    BY <1>1, <1>2, BudgetKept DEF Attempts, Available, InHand

(* Polling an event with its lock replaces the chance to be polled by the  *)
(* attempt of the worker; a poll that breaks off costs a failure.          *)
LEMMA QueryBudget ==
  ASSUME TypeOK, TypeOK', Control, NEW i \in Ids, BudgetInv(i), NEW w \in Workers,
         QueryOutboxEvents(w) \/ QueryBreaksOff(w)
  PROVE  BudgetInv(i)'
  <1> USE OutboxAssumption
  <1>1. PICK n : /\ batch' = [batch EXCEPT ![w] = FirstOf(Pollable, n)]
                 /\ QueryOutboxEvents(w) => n = BatchLimit
    BY DEF QueryOutboxEvents, QueryBreaksOff
  <1>2. /\ batch'[w] = FirstOf(Pollable, n) /\ batch'[w] \subseteq Pollable
        /\ \A v \in Workers \ {w} : batch'[v] = batch[v]
    BY <1>1, FoundPollable DEF TypeOK
  <1>3. /\ pc[w] = "idle" /\ UNCHANGED <<status, processed, sent>>
        /\ InHand(w) = {} /\ ~txOpen[w]
    BY DEF QueryOutboxEvents, QueryBreaksOff, rowVars, Control, WorkerInv
  <1>4. w \notin Attempts(i) /\ rowLock[i] # w
    BY <1>3 DEF Attempts, InHand, TypeOK
  <1>5. CASE i \in batch'[w]
    <2>1. Attempts(i)' = Attempts(i) \union {w}
      BY <1>2, <1>5 DEF Attempts
    <2>2. /\ IsFiniteSet(Attempts(i)')
          /\ Cardinality(Attempts(i)') = Cardinality(Attempts(i)) + 1
          /\ Cardinality(Attempts(i)) \in Nat
      BY <1>4, <2>1, FS_AddElement, FS_CardinalityType DEF BudgetInv
    <2>3. Available(i)
      BY <1>2, <1>5 DEF Pollable, Available
    <2>4. CASE QueryOutboxEvents(w)
      <3>1. rowLock'[i] = w /\ failures' = failures
        BY <1>1, <1>2, <1>5, <2>4 DEF QueryOutboxEvents
      <3>2. ~Available(i)'
        BY <1>5, <3>1 DEF Available, InHand
      <3>3. QED
        BY <1>3, <2>2, <2>3, <3>1, <3>2 DEF BudgetInv, TypeOK
    <2>5. CASE QueryBreaksOff(w)
      BY <1>3, <2>2, <2>3, <2>5 DEF QueryBreaksOff, BudgetInv, TypeOK
    <2>6. QED  BY <2>4, <2>5
  <1>6. CASE i \notin batch'[w]
    <2>1. Attempts(i)' = Attempts(i)
      BY <1>2, <1>3, <1>6 DEF Attempts, InHand
    <2>2. rowLock'[i] = rowLock[i]
      BY <1>1, <1>2, <1>6 DEF QueryOutboxEvents, QueryBreaksOff
    <2>3. Available(i)' => Available(i)
      BY <1>2, <1>3, <1>4, <2>2 DEF Available, InHand, TypeOK
    <2>4. failures' \in {failures, failures + 1}
      BY DEF QueryOutboxEvents, QueryBreaksOff
    <2>5. QED
      BY <1>3, <2>1, <2>3, <2>4, BudgetKept
  <1>7. QED  BY <1>5, <1>6

(* A publish uses up the attempt of its worker, and the event stays in the *)
(* hand of the worker.                                                     *)
LEMMA PublishBudget ==
  ASSUME TypeOK, TypeOK', NEW i \in Ids, BudgetInv(i), NEW w \in Workers, NEW j \in Ids,
         PublishEvent(w, j)
  PROVE  BudgetInv(i)'
  <1>1. /\ j \in batch[w]
        /\ batch'[w] = batch[w] \ {j} /\ processed'[w] = processed[w] \union {j}
        /\ \A v \in Workers \ {w} : batch'[v] = batch[v] /\ processed'[v] = processed[v]
        /\ UNCHANGED <<status, rowLock, failures>>
    BY DEF PublishEvent, rowVars, TypeOK
  <1>2. \A v \in Workers : InHand(v)' = InHand(v)
    BY <1>1 DEF InHand
  <1>3. Available(i)' <=> Available(i)
    <2>1. rowLock[i] # NoWorker => rowLock[i] \in Workers
      BY DEF TypeOK
    <2>2. QED  BY <1>1, <1>2, <2>1 DEF Available
  <1>4. CASE i = j
    <2>1. Attempts(i)' = Attempts(i) \ {w} /\ w \in Attempts(i)
      BY <1>1, <1>4 DEF Attempts
    <2>2. /\ IsFiniteSet(Attempts(i)')
          /\ Cardinality(Attempts(i)') = Cardinality(Attempts(i)) - 1
          /\ Cardinality(Attempts(i)) \in Nat
      BY <2>1, FS_RemoveElement, FS_CardinalityType DEF BudgetInv
    <2>3. sent'[i] = sent[i] + 1
      BY <1>4 DEF PublishEvent, TypeOK
    <2>4. sent[i] \in Nat /\ failures \in Nat
      BY OutboxAssumption DEF TypeOK
    <2>5. QED
      BY <1>1, <1>3, <2>2, <2>3, <2>4 DEF BudgetInv
  <1>5. CASE i # j
    <2>1. Attempts(i)' = Attempts(i)
      BY <1>1, <1>5 DEF Attempts
    <2>2. sent'[i] = sent[i]
      BY <1>5 DEF PublishEvent, TypeOK
    <2>3. QED
      BY <1>1, <1>3, <2>1, <2>2, BudgetKept
  <1>6. QED  BY <1>4, <1>5

(* A worker that returns without a failure releases no event it could have *)
(* published: what it has in hand it marks, or it holds no lock any more.  *)
LEMMA ReturnBudget ==
  ASSUME TypeOK, TypeOK', Control, NEW i \in Ids, BudgetInv(i), NEW w \in Workers,
         Return(w), UNCHANGED <<sent, failures>>, batch[w] = {},
         status[i] = "PROCESSED" => status'[i] = "PROCESSED",
         rowLock[i] = w /\ i \in processed[w] => status'[i] = "PROCESSED"
  PROVE  BudgetInv(i)'
  <1>1. /\ \A v \in Workers \ {w} : batch'[v] = batch[v] /\ processed'[v] = processed[v]
        /\ batch'[w] = {}
        /\ rowLock'[i] = IF rowLock[i] = w THEN NoWorker ELSE rowLock[i]
    BY DEF Return, Unlock, TypeOK
  <1>2. Attempts(i)' \subseteq Attempts(i)
    BY <1>1 DEF Attempts
  <1>3. Available(i)' => Available(i)
    <2>1. CASE rowLock[i] = w
      BY <2>1 DEF Available, InHand
    <2>2. CASE rowLock[i] # w
      BY <1>1, <2>2 DEF Available, InHand, TypeOK
    <2>3. QED  BY <2>1, <2>2
  <1>4. QED
    BY <1>2, <1>3, BudgetKept

(* Every step keeps every event within its budget. *)
LEMMA BudgetStep ==
  ASSUME TypeOK, TypeOK', Control, [Next]_vars, NEW i \in Ids, BudgetInv(i)
  PROVE  BudgetInv(i)'
  <1>1. ASSUME NEW w \in Workers, MarkEventsAsProcessed(w)
        PROVE  BudgetInv(i)'
    <2>1. CASE Return(w) /\ ~txOpen[w]
      <3>1. rowLock[i] # w
        BY <2>1, OutboxAssumption DEF TypeOK
      <3>2. QED
        BY <1>1, <2>1, <3>1, ReturnBudget DEF MarkEventsAsProcessed, rowVars
    <2>2. CASE UNCHANGED <<rowLock, batch, processed, txOpen>>
      BY <1>1, <2>2, BudgetKept DEF MarkEventsAsProcessed, rowVars, Attempts, Available, InHand
    <2>3. QED  BY <1>1, <2>1, <2>2 DEF MarkEventsAsProcessed
  <1>2. ASSUME NEW w \in Workers, Commit(w)
        PROVE  BudgetInv(i)'
    <2>1. batch[w] = {}
      BY <1>2 DEF Commit, Control, WorkerInv
    <2>2. rowLock[i] = w => txOpen[w]
      BY OutboxAssumption DEF TypeOK
    <2>3. /\ status[i] = "PROCESSED" => status'[i] = "PROCESSED"
          /\ rowLock[i] = w /\ i \in processed[w] => status'[i] = "PROCESSED"
      BY <1>2, <2>2 DEF Commit, TypeOK
    <2>4. QED
      BY <1>2, <2>1, <2>3, ReturnBudget DEF Commit
  <1>3. ASSUME NEW w \in Workers,
               \/ DatabaseLost(w)
               \/ BatchFails(w)
               \/ \E j \in Ids : PublishFails(w, j)
        PROVE  BudgetInv(i)'
    <2>1. failures' = failures + 1 /\ sent' = sent
      BY <1>3 DEF DatabaseLost, BatchFails, PublishFails
    <2>2. \A v \in Workers : batch'[v] \subseteq batch[v]
      BY <1>3 DEF DatabaseLost, BatchFails, Return, PublishFails, TypeOK, workerVars
    <2>3. Attempts(i)' \subseteq Attempts(i)
      BY <2>2 DEF Attempts
    <2>4. QED  BY <2>1, <2>3, BudgetKept
  <1>4. CASE UNCHANGED vars
    BY <1>4, BudgetKept DEF vars, rowVars, workerVars, Attempts, Available, InHand
  <1>5. QED
    BY <1>1, <1>2, <1>3, <1>4, InsertBudget, QueryBudget, PublishBudget DEF Next, Work

-------------------------------------------------------------------------------
(* The inductive invariant and what it says about the outbox *)

(* The inductive invariant holds in every reachable state: events in hand  *)
(* are locked while the transaction lasts, and no event is published more  *)
(* often than the failures account for.                                    *)
THEOREM OutboxInvariance == Spec => []IInv
  <1>1. Init => IInv
    <2> SUFFICES ASSUME Init
                 PROVE  IInv
      OBVIOUS
    <2>1. TypeOK
      BY TypeInit
    <2>2. LocksInv /\ (\A w \in Workers : WorkerInv(w)) /\ NextIsUnused /\ SentIsCommitted
          /\ ProcessedWasSent
      BY DEF Init, LocksInv, WorkerInv, InHand, NextIsUnused, SentIsCommitted, ProcessedWasSent
    <2>3. ASSUME NEW i \in Ids
          PROVE  BudgetInv(i)
      <3>1. Attempts(i) = {}
        BY DEF Init, Attempts
      <3>2. QED
        BY <3>1, FS_EmptySet DEF Init, BudgetInv
    <2>4. QED  BY <2>1, <2>2, <2>3 DEF IInv, NextIsUnused
  <1>2. IInv /\ [Next]_vars => IInv'
    <2> SUFFICES ASSUME IInv, [Next]_vars
                 PROVE  IInv'
      OBVIOUS
    <2>1. TypeOK /\ TypeOK' /\ Control
      BY TypeStep DEF IInv, Control, NextIsUnused
    <2>2. Control'
      BY <2>1, ControlStep
    <2>3. \A i \in Ids : BudgetInv(i)'
      BY <2>1, BudgetStep DEF IInv
    <2>4. Ids' = Ids
      BY DEF Ids
    <2>5. QED
      BY <2>1, <2>2, <2>3, <2>4 DEF IInv, Control, NextIsUnused
  <1>3. QED
    BY <1>1, <1>2, PTL DEF Spec

(* Nothing is announced that its business transaction did not commit.      *)
THEOREM SentIsCommittedCorrect == Spec => []SentIsCommitted
  <1>1. IInv => SentIsCommitted
    BY DEF IInv
  <1>2. QED  BY <1>1, OutboxInvariance, PTL

(* An event leaves the outbox only after a successful publish.             *)
THEOREM ProcessedWasSentCorrect == Spec => []ProcessedWasSent
  <1>1. IInv => ProcessedWasSent
    BY DEF IInv
  <1>2. QED  BY <1>1, OutboxInvariance, PTL

(* Workers with open transactions never have the same event in hand.       *)
THEOREM BatchesDisjointCorrect == Spec => []BatchesDisjoint
  <1>1. IInv => BatchesDisjoint
    BY DEF IInv, LocksInv, InHand, BatchesDisjoint
  <1>2. QED  BY <1>1, OutboxInvariance, PTL

(* However many workers run, each failure costs an event at most one more  *)
(* publish.                                                                *)
THEOREM DuplicatesNeedFailuresCorrect == Spec => []DuplicatesNeedFailures
  <1>1. IInv => DuplicatesNeedFailures
    <2> SUFFICES ASSUME IInv, NEW i \in Ids
                 PROVE  sent[i] <= 1 + failures
      BY DEF DuplicatesNeedFailures
    <2>1. BudgetInv(i) /\ sent[i] \in Nat /\ failures \in Nat
      BY OutboxAssumption DEF IInv, TypeOK
    <2>2. Cardinality(Attempts(i)) \in Nat
      BY <2>1, FS_CardinalityType DEF BudgetInv
    <2>3. QED  BY <2>1, <2>2 DEF BudgetInv
  <1>2. QED  BY <1>1, OutboxInvariance, PTL

-------------------------------------------------------------------------------
(* The outbox implements the log of events *)

(* What a worker is still to publish stays within the failures so far.     *)
LEMMA AttemptAffordable ==
  ASSUME IInv, NEW w \in Workers, NEW i \in batch[w]
  PROVE  i \in Ids /\ sent[i] <= failures
  <1>1. i \in Ids /\ BudgetInv(i) /\ sent[i] \in Nat /\ failures \in Nat
    BY OutboxAssumption DEF IInv, TypeOK
  <1>2. w \in Attempts(i)
    BY DEF Attempts
  <1>3. Cardinality(Attempts(i)) \in Nat \ {0}
    BY <1>1, <1>2, FS_CardinalityType, FS_EmptySet DEF BudgetInv
  <1>4. QED  BY <1>1, <1>3 DEF BudgetInv

(* A publish is a Send: the event is committed and affordable.             *)
LEMMA PublishIsSend ==
  ASSUME IInv, NEW w \in Workers, NEW i \in Ids, PublishEvent(w, i)
  PROVE  E!Send(i)
  <1>1. i \in batch[w] /\ sent' = [sent EXCEPT ![i] = @ + 1] /\ UNCHANGED <<status, failures>>
    BY DEF PublishEvent, rowVars
  <1>2. status[i] \in {"PENDING", "PROCESSED"}
    BY <1>1 DEF IInv, WorkerInv, InHand
  <1>3. QED
    BY <1>1, <1>2, AttemptAffordable DEF E!Send

(* A COMMIT marks events that were handed over, all PENDING until then.    *)
LEMMA CommitIsMark ==
  ASSUME IInv, NEW w \in Workers, Commit(w)
  PROVE  \E S \in SUBSET Ids : E!Mark(S)
  <1> DEFINE S == {i \in Ids : txOpen[w] /\ i \in processed[w]}
  <1>1. \A i \in S : status[i] = "PENDING" /\ sent[i] > 0
    BY OutboxAssumption DEF IInv, LocksInv, WorkerInv, InHand
  <1>2. /\ status' = [i \in Ids |-> IF i \in S THEN "PROCESSED" ELSE status[i]]
        /\ UNCHANGED <<sent, failures>>
    BY DEF Commit
  <1>3. S \in SUBSET Ids
    OBVIOUS
  <1> HIDE DEF S
  <1>4. E!Mark(S)
    BY <1>1, <1>2 DEF E!Mark
  <1>5. QED  BY <1>3, <1>4

(* The services' transactions are those of the log; an id that is handed   *)
(* out was unused.                                                         *)
LEMMA InsertIsInsert ==
  ASSUME IInv, Insert
  PROVE  E!Next
  <1>1. CASE InsertOutboxEvent
    <2>1. nextId \in Ids /\ status[nextId] = "unused"
      BY <1>1, OutboxAssumption DEF InsertOutboxEvent, IInv, TypeOK, Ids
    <2>2. E!Insert(nextId)
      BY <1>1, <2>1 DEF InsertOutboxEvent, E!Insert
    <2>3. QED  BY <2>1, <2>2 DEF E!Next
  <1>2. ASSUME NEW i \in Ids, EndInsert(i)
        PROVE  E!Next
    <2>1. PICK s \in {"PENDING", "rolledback"} : E!EndInsert(i, s)
      BY <1>2 DEF EndInsert, E!EndInsert
    <2>2. QED  BY <2>1 DEF E!Next
  <1>3. QED  BY <1>1, <1>2 DEF Insert

(* Every step of the outbox is one of the log, or changes nothing of it.   *)
LEMMA EventLogStep == IInv /\ [Next]_vars => [E!Next]_(E!logVars)
  <1> SUFFICES ASSUME IInv, [Next]_vars
               PROVE  E!Next \/ UNCHANGED <<status, sent, failures>>
    BY DEF E!logVars
  <1>1. ASSUME NEW w \in Workers, NEW i \in Ids, PublishEvent(w, i)
        PROVE  E!Next
    BY <1>1, PublishIsSend DEF E!Next
  <1>2. ASSUME NEW w \in Workers, Commit(w)
        PROVE  E!Next
    BY <1>2, CommitIsMark DEF E!Next
  <1>3. ASSUME NEW w \in Workers,
               \/ QueryBreaksOff(w) \/ DatabaseLost(w) \/ BatchFails(w)
               \/ \E i \in Ids : PublishFails(w, i)
        PROVE  E!Next
    BY <1>3 DEF QueryBreaksOff, DatabaseLost, BatchFails, PublishFails, rowVars, E!Fail, E!Next
  <1>4. ASSUME NEW w \in Workers, QueryOutboxEvents(w) \/ MarkEventsAsProcessed(w)
        PROVE  UNCHANGED <<status, sent, failures>>
    BY <1>4 DEF QueryOutboxEvents, MarkEventsAsProcessed, rowVars
  <1>5. CASE UNCHANGED vars
    BY <1>5 DEF vars, rowVars
  <1>6. QED
    BY <1>1, <1>2, <1>3, <1>4, <1>5, InsertIsInsert DEF Next, Work

(* For any number of workers and any limit of the poll, the outbox is the  *)
(* log of events: a committed event is handed over before it is marked,    *)
(* and again only after a failure.                                         *)
THEOREM OutboxImplementsEventLog == Spec => EventLogSpec
  <1>1. Init => E!Init
    BY DEF Init, E!Init
  <1>2. QED
    BY <1>1, EventLogStep, OutboxInvariance, PTL DEF Spec, EventLogSpec, E!Spec
===============================================================================
