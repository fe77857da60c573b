----------------------------- MODULE BillingProofs ----------------------------
(***************************************************************************)
(* Proofs about module Billing, for every set of users, keys, requests and *)
(* handlers, every pool size and every bound MaxBigint.                    *)
(***************************************************************************)
EXTENDS Billing, AmountSums, TLAPS

Rows == {Row(r) : r \in Requests}
Events == {Event(r) : r \in Requests}

-------------------------------------------------------------------------------
(* Type correctness *)

(* The initial states are type-correct.                                    *)
LEMMA TypeInit == Init => TypeOK
  BY BillingAssumption DEF Init, TypeOK, Labels, Errors

(* Ending a transaction and returning keep the types. *)
LEMMA EndTxType ==
  ASSUME NEW h \in Handlers, TypeOK, EndTx(h)
  PROVE  /\ rowLock' \in [Users -> Handlers \union {NoHandler}]
         /\ keyLock' \in [Keys -> Handlers \union {NoHandler}]
         /\ newBalance' \in [Handlers -> Int]
         /\ newRows' \in [Handlers -> SUBSET Rows]
         /\ newEvents' \in [Handlers -> SUBSET Events]
  BY DEF EndTx, TypeOK, Rows, Events

(* Returning from the service keeps the types it touches.                  *)
LEMMA ReturnType ==
  ASSUME NEW h \in Handlers, NEW e \in Errors, TypeOK, Return(h, e)
  PROVE  /\ rowLock' \in [Users -> Handlers \union {NoHandler}]
         /\ keyLock' \in [Keys -> Handlers \union {NoHandler}]
         /\ conns' \subseteq Handlers
         /\ pc' \in [Handlers -> Labels]
         /\ err' \in [Handlers -> Errors]
         /\ newBalance' \in [Handlers -> Int]
         /\ newRows' \in [Handlers -> SUBSET Rows]
         /\ newEvents' \in [Handlers -> SUBSET Events]
  BY EndTxType DEF Return, Goto, TypeOK, Labels

(* Every step of a handler keeps the types.                                *)
LEMMA TypeStep == TypeOK /\ [Next]_vars => TypeOK'
  <1> SUFFICES ASSUME TypeOK, [Next]_vars
               PROVE  TypeOK'
    OBVIOUS
  <1> USE BillingAssumption
  <1>1. ASSUME NEW h \in Handlers, NEW r \in Requests, Receive(h, r)
        PROVE  TypeOK'
    BY <1>1 DEF Receive, Goto, TypeOK, Labels, Errors, dbVars, lockVars, txVars
  <1>2. ASSUME NEW h \in Handlers, Begin(h)
        PROVE  TypeOK'
    BY <1>2 DEF Begin, Goto, TypeOK, Labels, dbVars, lockVars, txVars
  <1>3. ASSUME NEW h \in Handlers, TopUpAccount(h)
        PROVE  TypeOK'
    <2>1. balance[req[h].user] + req[h].amount \in Int
      BY <1>3 DEF TopUpAccount, TypeOK
    <2>2. CASE Return(h, "other")
      BY <1>3, <2>2, ReturnType DEF TopUpAccount, TypeOK, Errors, Rows, Events, dbVars, Return, Goto
    <2>3. CASE /\ LockRow(h)
               /\ newBalance' = [newBalance EXCEPT ![h] = balance[req[h].user] + req[h].amount]
               /\ Goto(h, "insert")
               /\ UNCHANGED <<keyLock, conns, err, newRows, newEvents>>
      BY <1>3, <2>1, <2>3 DEF TopUpAccount, LockRow, Goto, TypeOK, Labels, dbVars, txVars
    <2>4. QED  BY <1>3, <2>2, <2>3 DEF TopUpAccount
  <1>4. ASSUME NEW h \in Handlers, GetAccount(h)
        PROVE  TypeOK'
    <2>1. ASSUME NEW e \in Errors, Return(h, e), UNCHANGED <<dbVars, req, acked>>
          PROVE  TypeOK'
      BY <1>4, <2>1, ReturnType DEF GetAccount, TypeOK, Rows, Events, dbVars, Return, Goto
    <2>2. CASE Return(h, "repository.ErrAccountNotFound")
      BY <1>4, <2>1, <2>2 DEF GetAccount, Errors
    <2>3. CASE Return(h, "services.ErrInsufficientFunds")
      BY <1>4, <2>1, <2>3 DEF GetAccount, Errors
    <2>4. CASE LockRow(h) /\ Goto(h, "debit") /\ UNCHANGED <<keyLock, conns, err, txVars>>
      BY <1>4, <2>4 DEF GetAccount, LockRow, Goto, TypeOK, Labels, dbVars, txVars
    <2>5. QED  BY <1>4, <2>2, <2>3, <2>4 DEF GetAccount
  <1>5. ASSUME NEW h \in Handlers, WithdrawAccount(h)
        PROVE  TypeOK'
    <2>1. balance[req[h].user] - req[h].amount \in Int
      BY <1>5 DEF WithdrawAccount, TypeOK
    <2>2. QED
      BY <1>5, <2>1 DEF WithdrawAccount, LockRow, Goto, TypeOK, Labels, dbVars, txVars
  <1>6. ASSUME NEW h \in Handlers, InsertTransaction(h)
        PROVE  TypeOK'
    <2>1. req[h] \in Requests /\ req[h].key \in Keys
      BY <1>6 DEF InsertTransaction, TypeOK
    <2>2. CASE EndTx(h) /\ Goto(h, "rollback")
      BY <1>6, <2>1, <2>2, EndTxType DEF InsertTransaction, Goto, TypeOK, Labels, Rows, Events, dbVars
    <2>3. CASE /\ keyLock' = [keyLock EXCEPT ![req[h].key] = h]
               /\ newRows' = [newRows EXCEPT ![h] = @ \union {Row(req[h])}]
               /\ Goto(h, IF req[h].op = "deposit" THEN "outbox" ELSE "commit")
               /\ UNCHANGED <<rowLock, newBalance, newEvents>>
      BY <1>6, <2>1, <2>3 DEF InsertTransaction, Goto, TypeOK, Labels, dbVars, txVars
    <2>4. QED  BY <1>6, <2>2, <2>3 DEF InsertTransaction
  <1>7. ASSUME NEW h \in Handlers, InsertOutboxEvent(h)
        PROVE  TypeOK'
    BY <1>7 DEF InsertOutboxEvent, Goto, TypeOK, Labels, dbVars, lockVars, txVars
  <1>8. ASSUME NEW h \in Handlers, Commit(h)
        PROVE  TypeOK'
    <2>1. PICK e \in {"nil", "other"} : Return(h, e)
      BY <1>8 DEF Commit
    <2>2. e \in Errors /\ req[h].user \in Users
      BY <1>8, <2>1 DEF Commit, Errors, TypeOK
    <2>3. /\ accounts' \subseteq Users
          /\ balance' \in [Users -> Int]
          /\ transactions' \subseteq Rows
          /\ outbox' \subseteq Events
      BY <1>8, <2>2 DEF Commit, TypeOK, Rows, Events
    <2>4. QED
      BY <1>8, <2>1, <2>2, <2>3, ReturnType DEF Commit, TypeOK, Rows, Events, Return, Goto
  <1>9. ASSUME NEW h \in Handlers, RollbackConflict(h)
        PROVE  TypeOK'
    BY <1>9, EndTxType DEF RollbackConflict, Goto, TypeOK, Labels, Rows, Events, dbVars
  <1>10. ASSUME NEW h \in Handlers, FindByIdempotencyKey(h)
         PROVE  TypeOK'
    <2>1. PICK e \in Errors : Return(h, e)
      BY <1>10 DEF FindByIdempotencyKey, Errors
    <2>2. QED
      BY <1>10, <2>1, ReturnType DEF FindByIdempotencyKey, TypeOK, Rows, Events, dbVars, Return, Goto
  <1>11. ASSUME NEW h \in Handlers, StatementFails(h)
         PROVE  TypeOK'
    BY <1>11, ReturnType DEF StatementFails, TypeOK, Errors, Rows, Events, dbVars, Return, Goto
  <1>12. ASSUME NEW h \in Handlers, Answer(h)
         PROVE  TypeOK'
    BY <1>12 DEF Answer, Goto, TypeOK, Labels, Errors, dbVars, lockVars, txVars
  <1>13. CASE UNCHANGED vars
    BY <1>13 DEF vars, dbVars, lockVars, txVars, TypeOK
  <1>14. QED
    BY <1>1, <1>2, <1>3, <1>4, <1>5, <1>6, <1>7, <1>8, <1>9, <1>10, <1>11, <1>12, <1>13
       DEF Next, Progress

(* In every reachable state the variables have their types and a handler   *)
(* that is not idle has a request of the clients.                          *)
THEOREM TypeCorrect == Spec => []TypeOK
  BY TypeInit, TypeStep, PTL DEF Spec
-------------------------------------------------------------------------------
(* Connections and locks *)

Clean(h) ==
  IF InTransaction(h)
  THEN h \in conns
  ELSE /\ h \notin conns
       /\ \A u \in Users : rowLock[u] # h
       /\ \A k \in Keys : keyLock[k] # h
       /\ newRows[h] = {} /\ newEvents[h] = {}

(* What a step of another handler may do to the connection, the locks and  *)
(* the writes of g: nothing.                                               *)
Untouched(g) ==
  /\ pc'[g] = pc[g]
  /\ g \in conns' <=> g \in conns
  /\ \A u \in Users : rowLock'[u] = g => rowLock[u] = g
  /\ \A k \in Keys : keyLock'[k] = g => keyLock[k] = g
  /\ newRows'[g] = newRows[g] /\ newEvents'[g] = newEvents[g]

(* A handler that is left alone stays clean. *)
LEMMA UntouchedClean ==
  ASSUME NEW g \in Handlers, Clean(g), Untouched(g)
  PROVE  Clean(g)'
  BY DEF Clean, Untouched, InTransaction

(* A return gives up everything of h and nothing of the others. *)
LEMMA ReturnClean ==
  ASSUME TypeOK, NEW h \in Handlers, NEW e, Return(h, e)
  PROVE  Clean(h)' /\ \A g \in Handlers \ {h} : Untouched(g)
  BY BillingAssumption DEF Return, EndTx, Goto, Clean, Untouched, InTransaction, TypeOK

(* A step inside the transaction of h keeps its connection and may take    *)
(* locks for h, but none for others.                                       *)
LEMMA InsideClean ==
  ASSUME TypeOK, NEW h \in Handlers, Clean(h), InTransaction(h), InTransaction(h)', UNCHANGED conns,
         \A g \in Handlers \ {h} :
           /\ pc'[g] = pc[g]
           /\ \A u \in Users : rowLock'[u] = g => rowLock[u] = g
           /\ \A k \in Keys : keyLock'[k] = g => keyLock[k] = g
           /\ newRows'[g] = newRows[g] /\ newEvents'[g] = newEvents[g]
  PROVE  Clean(h)' /\ \A g \in Handlers \ {h} : Untouched(g)
  BY DEF Clean, Untouched

(* Every step of a handler keeps it clean and leaves the others alone. *)
LEMMA HandlerClean ==
  ASSUME TypeOK, NEW h \in Handlers, Clean(h),
         Progress(h) \/ StatementFails(h) \/ \E r \in Requests : Receive(h, r)
  PROVE  Clean(h)' /\ \A g \in Handlers \ {h} : Untouched(g)
  <1> USE BillingAssumption
  <1> DEFINE Goal == Clean(h)' /\ \A g \in Handlers \ {h} : Untouched(g)
  <1>1. ASSUME NEW r \in Requests, Receive(h, r)
        PROVE  Goal
    <2>1. pc[h] = "idle" /\ pc'[h] \in {"return", "begin"}
      BY <1>1 DEF Receive, Goto, TypeOK
    <2>2. \A g \in Handlers \ {h} : pc'[g] = pc[g]
      BY <1>1 DEF Receive, Goto, TypeOK
    <2>3. QED
      BY <1>1, <2>1, <2>2
         DEF Receive, Clean, Untouched, InTransaction, lockVars, txVars
  <1>2. CASE Begin(h)
    BY <1>2 DEF Begin, Goto, TypeOK, Clean, Untouched, InTransaction, lockVars, txVars
  <1>3. CASE TopUpAccount(h)
    <2>1. CASE Return(h, "other")
      BY <2>1, ReturnClean
    <2>2. CASE LockRow(h) /\ Goto(h, "insert") /\ UNCHANGED <<keyLock, conns, newRows, newEvents>>
      BY <1>3, <2>2, InsideClean DEF TopUpAccount, LockRow, Goto, TypeOK, InTransaction
    <2>3. QED  BY <1>3, <2>1, <2>2 DEF TopUpAccount
  <1>4. CASE GetAccount(h)
    <2>1. CASE \E e \in Errors : Return(h, e)
      BY <2>1, ReturnClean
    <2>2. CASE LockRow(h) /\ Goto(h, "debit") /\ UNCHANGED <<keyLock, conns, txVars>>
      BY <1>4, <2>2, InsideClean DEF GetAccount, LockRow, Goto, TypeOK, InTransaction, txVars
    <2>3. QED  BY <1>4, <2>1, <2>2 DEF GetAccount, Errors
  <1>5. CASE WithdrawAccount(h)
    BY <1>5, InsideClean DEF WithdrawAccount, LockRow, Goto, TypeOK, InTransaction
  <1>6. CASE InsertTransaction(h)
    <2>1. CASE EndTx(h) /\ Goto(h, "rollback")
      BY <1>6, <2>1, InsideClean DEF InsertTransaction, EndTx, Goto, TypeOK, InTransaction
    <2>2. CASE /\ keyLock' = [keyLock EXCEPT ![req[h].key] = h]
               /\ newRows' = [newRows EXCEPT ![h] = @ \union {Row(req[h])}]
               /\ Goto(h, IF req[h].op = "deposit" THEN "outbox" ELSE "commit")
               /\ UNCHANGED <<rowLock, newBalance, newEvents>>
      BY <1>6, <2>2, InsideClean DEF InsertTransaction, Goto, TypeOK, InTransaction
    <2>3. QED  BY <1>6, <2>1, <2>2 DEF InsertTransaction
  <1>7. CASE InsertOutboxEvent(h)
    BY <1>7, InsideClean DEF InsertOutboxEvent, Goto, TypeOK, InTransaction, lockVars
  <1>8. CASE Commit(h) \/ FindByIdempotencyKey(h) \/ StatementFails(h)
    BY <1>8, ReturnClean DEF Commit, FindByIdempotencyKey, StatementFails
  <1>9. CASE RollbackConflict(h)
    BY <1>9 DEF RollbackConflict, EndTx, Goto, TypeOK, Clean, Untouched, InTransaction
  <1>10. CASE Answer(h)
    BY <1>10 DEF Answer, Goto, TypeOK, Clean, Untouched, InTransaction, lockVars, txVars
  <1>11. QED
    BY <1>1, <1>2, <1>3, <1>4, <1>5, <1>6, <1>7, <1>8, <1>9, <1>10 DEF Progress

(* However the handlers interleave and whatever fails, a handler outside   *)
(* its transaction holds no connection, no lock and no uncommitted write.  *)
THEOREM NothingLeaksCorrect == Spec => []NothingLeaks
  <1>1. Init => NothingLeaks
    BY BillingAssumption DEF Init, NothingLeaks, InTransaction
  <1>2. TypeOK /\ NothingLeaks /\ [Next]_vars => NothingLeaks'
    <2> SUFFICES ASSUME TypeOK, NothingLeaks, [Next]_vars
                 PROVE  NothingLeaks'
      OBVIOUS
    <2>1. \A g \in Handlers : Clean(g)
      BY DEF NothingLeaks, Clean
    <2>2. \A g \in Handlers : Clean(g)'
      <3>1. CASE UNCHANGED vars
        BY <2>1, <3>1 DEF vars, lockVars, txVars, Clean, InTransaction
      <3>2. CASE Next
        <4>1. PICK h \in Handlers :
                Progress(h) \/ StatementFails(h) \/ \E r \in Requests : Receive(h, r)
          BY <3>2 DEF Next
        <4>2. Clean(h)' /\ \A g \in Handlers \ {h} : Untouched(g)
          BY <2>1, <4>1, HandlerClean
        <4>3. QED  BY <2>1, <4>2, UntouchedClean
      <3>3. QED  BY <3>1, <3>2
    <2>3. QED  BY <2>2 DEF NothingLeaks, Clean
  <1>3. QED
    BY <1>1, <1>2, TypeCorrect, PTL DEF Spec

-------------------------------------------------------------------------------
(* The inductive invariant *)

(* What handlers other than g leave alone: the state of g, the locks of g, *)
(* and the rows and keys under these locks.                                *)
Frame(g) ==
  /\ pc'[g] = pc[g] /\ req'[g] = req[g] /\ err'[g] = err[g]
  /\ newBalance'[g] = newBalance[g]
  /\ newRows'[g] = newRows[g]
  /\ newEvents'[g] = newEvents[g]
  /\ \A u \in Users : rowLock[u] = g => rowLock'[u] = g /\ balance'[u] = balance[u]
  /\ \A k \in Keys : keyLock[k] = g => keyLock'[k] = g /\ (Booked(k)' => Booked(k))
  /\ accounts \subseteq accounts'
  /\ transactions \subseteq transactions'

(* A step that respects the frame of g keeps the invariant of g.           *)
LEMMA FrameKeeps ==
  ASSUME TypeOK, NEW g \in Handlers, HandlerInv(g), Frame(g)
  PROVE  HandlerInv(g)'
  <1> USE BillingAssumption
  <1>1. pc[g] # "idle" => req[g].user \in Users /\ req[g].key \in Keys
    BY DEF TypeOK
  <1>2. \A k : Booked(k) => Booked(k)'
    BY DEF Booked, Frame
  <1>3. LocksInv(g)'
    BY <1>1 DEF LocksInv, HandlerInv, HoldsRow, HoldsKey, Frame
  <1>4. RequestInv(g)'
    BY DEF RequestInv, HandlerInv, Frame
  <1>5. WritesInv(g)'
    BY <1>1 DEF WritesInv, LocksInv, HandlerInv, HoldsRow, HoldsKey, Frame, Row, Event
  <1>6. BookedInv(g)'
    BY <1>2 DEF BookedInv, HandlerInv, Frame
  <1>7. QED
    BY <1>3, <1>4, <1>5, <1>6 DEF HandlerInv
(* The end of the transaction of h touches no lock or write of others.     *)
LEMMA EndTxFrame ==
  ASSUME TypeOK, NEW h \in Handlers, NEW g \in Handlers \ {h}, EndTx(h)
  PROVE  /\ newBalance'[g] = newBalance[g]
         /\ newRows'[g] = newRows[g]
         /\ newEvents'[g] = newEvents[g]
         /\ \A u \in Users : rowLock[u] = g => rowLock'[u] = g
         /\ \A k \in Keys : keyLock[k] = g => keyLock'[k] = g
  BY DEF EndTx, TypeOK

(* So a return that leaves the tables alone respects the others.           *)
LEMMA ReturnFrame ==
  ASSUME TypeOK, NEW h \in Handlers, NEW g \in Handlers \ {h}, NEW e,
         Return(h, e), UNCHANGED <<dbVars, req>>
  PROVE  Frame(g)
  BY EndTxFrame DEF Return, Goto, Frame, Booked, dbVars, TypeOK

(* After a return without COMMIT only a success needs an argument. *)
LEMMA ReturnSelf ==
  ASSUME TypeOK, NEW h \in Handlers, NEW e, Return(h, e), UNCHANGED req,
         e = "nil" => Booked(req[h].key)'
  PROVE  HandlerInv(h)'
  <1>1. /\ pc'[h] = "return" /\ err'[h] = e /\ req'[h] = req[h]
        /\ newRows'[h] = {} /\ newEvents'[h] = {}
    BY DEF Return, EndTx, Goto, TypeOK
  <1>2. QED
    BY <1>1 DEF HandlerInv, LocksInv, RequestInv, WritesInv, BookedInv, HoldsRow, HoldsKey, Booked

(* One lemma per step: what it establishes for the handler that takes it,  *)
(* and that it respects the frame of every other handler.  Receive leaves a *)
(* positive amount or an error that is not a success.                      *)
LEMMA ReceiveStep ==
  ASSUME TypeOK, NEW h \in Handlers, NEW r \in Requests, Receive(h, r), HandlerInv(h)
  PROVE  HandlerInv(h)' /\ \A g \in Handlers \ {h} : Frame(g)
  <1> USE BillingAssumption
  <1>1. \A g \in Handlers \ {h} : Frame(g)
    BY DEF Receive, Goto, Frame, Booked, dbVars, lockVars, txVars, TypeOK
  <1>2. HandlerInv(h)'
    <2>1. pc'[h] \in {"return", "begin"} /\ req'[h] = r /\ r.amount \in Int
      BY DEF Receive, Goto, TypeOK
    <2>2. pc'[h] = "begin" => r.amount > 0
      <3>1. CASE r.amount <= 0
        <4>1. pc'[h] = "return"
          BY <3>1 DEF Receive, Goto, TypeOK
        <4>2. QED  BY <4>1
      <3>2. CASE ~(r.amount <= 0)
        BY <2>1, <3>2
      <3>3. QED  BY <3>1, <3>2
    <2>3. pc'[h] = "return" => err'[h] # "nil"
      BY <2>1 DEF Receive, Goto, TypeOK
    <2>4. newRows'[h] = {} /\ newEvents'[h] = {}
      BY DEF Receive, txVars, HandlerInv, WritesInv, HoldsKey
    <2>5. QED
      BY <2>1, <2>2, <2>3, <2>4
         DEF HandlerInv, LocksInv, RequestInv, WritesInv, BookedInv, HoldsRow, HoldsKey
  <1>3. QED  BY <1>1, <1>2

(* Begin opens a transaction that holds no lock yet.                       *)
LEMMA BeginStep ==
  ASSUME TypeOK, NEW h \in Handlers, Begin(h), HandlerInv(h)
  PROVE  HandlerInv(h)' /\ \A g \in Handlers \ {h} : Frame(g)
  <1> USE BillingAssumption
  <1>1. \A g \in Handlers \ {h} : Frame(g)
    BY DEF Begin, Goto, Frame, Booked, dbVars, lockVars, txVars, TypeOK
  <1>2. req[h] \in Requests /\ req[h].op \in Ops
    BY DEF Begin, TypeOK
  <1>3. HandlerInv(h)'
    BY <1>2 DEF Begin, Goto, TypeOK, Ops, txVars, HandlerInv, LocksInv, RequestInv, WritesInv,
                BookedInv, HoldsRow, HoldsKey
  <1>4. QED  BY <1>1, <1>3

(* The upsert locks the row and prepares the sum of balance and amount.    *)
LEMMA TopUpStep ==
  ASSUME TypeOK, NEW h \in Handlers, TopUpAccount(h), HandlerInv(h)
  PROVE  HandlerInv(h)' /\ \A g \in Handlers \ {h} : Frame(g)
  <1> USE BillingAssumption
  <1>1. /\ req[h] \in Requests /\ req[h].user \in Users
        /\ req[h].op = "deposit" /\ req[h].amount > 0
    BY DEF TopUpAccount, TypeOK, HandlerInv, RequestInv
  <1>2. CASE Return(h, "other")
    BY <1>2, ReturnFrame, ReturnSelf DEF TopUpAccount
  <1>3. CASE /\ balance[req[h].user] + req[h].amount <= MaxBigint
             /\ LockRow(h)
             /\ newBalance' = [newBalance EXCEPT ![h] = balance[req[h].user] + req[h].amount]
             /\ Goto(h, "insert")
             /\ UNCHANGED <<keyLock, conns, err, newRows, newEvents>>
    <2>1. \A g \in Handlers \ {h} : Frame(g)
      BY <1>1, <1>3 DEF TopUpAccount, RowFree, LockRow, Goto, Frame, Booked, dbVars, TypeOK
    <2>2. /\ pc'[h] = "insert" /\ req'[h] = req[h]
          /\ rowLock'[req[h].user] = h
          /\ newBalance'[h] = balance[req[h].user] + req[h].amount
      BY <1>1, <1>3 DEF TopUpAccount, LockRow, Goto, TypeOK
    <2>3. HandlerInv(h)'
      BY <1>1, <1>3, <2>2
         DEF TopUpAccount, dbVars, HandlerInv, LocksInv, RequestInv, WritesInv, BookedInv,
             HoldsRow, HoldsKey
    <2>4. QED  BY <2>1, <2>3
  <1>4. QED  BY <1>2, <1>3 DEF TopUpAccount

(* SELECT ... FOR UPDATE returns with the row locked and enough money, or  *)
(* with an error.                                                          *)
LEMMA GetAccountStep ==
  ASSUME TypeOK, NEW h \in Handlers, GetAccount(h), HandlerInv(h)
  PROVE  HandlerInv(h)' /\ \A g \in Handlers \ {h} : Frame(g)
  <1> USE BillingAssumption
  <1>1. /\ req[h] \in Requests /\ req[h].user \in Users
        /\ req[h].op = "withdrawal" /\ req[h].amount > 0
    BY DEF GetAccount, TypeOK, HandlerInv, RequestInv
  <1>2. ASSUME NEW e, e # "nil", Return(h, e)
        PROVE  HandlerInv(h)' /\ \A g \in Handlers \ {h} : Frame(g)
    BY <1>2, ReturnFrame, ReturnSelf DEF GetAccount
  <1>3. CASE /\ req[h].user \in accounts
             /\ RowFree(h)
             /\ balance[req[h].user] >= req[h].amount
             /\ LockRow(h)
             /\ Goto(h, "debit")
             /\ UNCHANGED <<keyLock, conns, err, txVars>>
    <2>1. \A g \in Handlers \ {h} : Frame(g)
      BY <1>1, <1>3 DEF GetAccount, RowFree, LockRow, Goto, Frame, Booked, dbVars, txVars, TypeOK
    <2>2. /\ pc'[h] = "debit" /\ req'[h] = req[h]
          /\ rowLock'[req[h].user] = h
      BY <1>1, <1>3 DEF GetAccount, LockRow, Goto, TypeOK
    <2>3. HandlerInv(h)'
      BY <1>1, <1>3, <2>2
         DEF GetAccount, dbVars, txVars, TypeOK, HandlerInv, LocksInv, RequestInv, WritesInv,
             BookedInv, HoldsRow, HoldsKey
    <2>4. QED  BY <2>1, <2>3
  <1>4. QED  BY <1>2, <1>3 DEF GetAccount

(* The debit prepares a balance that the lock on the row keeps current.    *)
LEMMA WithdrawAccountStep ==
  ASSUME TypeOK, NoOverdraft, NEW h \in Handlers, WithdrawAccount(h), HandlerInv(h)
  PROVE  HandlerInv(h)' /\ \A g \in Handlers \ {h} : Frame(g)
  <1> USE BillingAssumption
  <1>1. /\ req[h] \in Requests /\ req[h].user \in Users /\ req[h].amount \in Int
        /\ req[h].op = "withdrawal" /\ req[h].amount > 0
        /\ balance[req[h].user] \in Int /\ balance[req[h].user] <= MaxBigint
    BY DEF WithdrawAccount, TypeOK, HandlerInv, RequestInv, NoOverdraft
  <1>2. \A g \in Handlers \ {h} : Frame(g)
    BY <1>1 DEF WithdrawAccount, RowFree, LockRow, Goto, Frame, Booked, dbVars, TypeOK
  <1>3. /\ pc'[h] = "insert" /\ req'[h] = req[h]
        /\ rowLock'[req[h].user] = h
        /\ newBalance'[h] = balance[req[h].user] - req[h].amount
    BY <1>1 DEF WithdrawAccount, LockRow, Goto, TypeOK
  <1>4. newBalance'[h] <= MaxBigint
    BY <1>1, <1>3
  <1>5. HandlerInv(h)'
    BY <1>1, <1>3, <1>4
       DEF WithdrawAccount, dbVars, HandlerInv, LocksInv, RequestInv, WritesInv, BookedInv,
           HoldsRow, HoldsKey
  <1>6. QED  BY <1>2, <1>5

(* The INSERT locks the key, or meets a row that is committed.             *)
LEMMA InsertTransactionStep ==
  ASSUME TypeOK, NEW h \in Handlers, InsertTransaction(h), HandlerInv(h)
  PROVE  HandlerInv(h)' /\ \A g \in Handlers \ {h} : Frame(g)
  <1> USE BillingAssumption
  <1>1. /\ req[h] \in Requests /\ req[h].key \in Keys /\ req[h].op \in Ops
        /\ req[h].user \in Users /\ req[h].amount > 0
        /\ rowLock[req[h].user] = h
        /\ newRows[h] = {} /\ newEvents[h] = {}
    BY DEF InsertTransaction, TypeOK, HandlerInv, RequestInv, LocksInv, WritesInv, HoldsRow, HoldsKey
  <1>2. CASE Booked(req[h].key) /\ EndTx(h) /\ Goto(h, "rollback")
    <2>1. \A g \in Handlers \ {h} : Frame(g)
      BY <1>2, EndTxFrame DEF InsertTransaction, Goto, Frame, Booked, dbVars, TypeOK
    <2>2. /\ pc'[h] = "rollback" /\ req'[h] = req[h] /\ Booked(req[h].key)'
          /\ newRows'[h] = {} /\ newEvents'[h] = {}
      BY <1>2 DEF InsertTransaction, EndTx, Goto, Booked, dbVars, TypeOK
    <2>3. HandlerInv(h)'
      BY <1>1, <2>2
         DEF HandlerInv, LocksInv, RequestInv, WritesInv, BookedInv, HoldsRow, HoldsKey, Booked
    <2>4. QED  BY <2>1, <2>3
  <1>3. CASE /\ ~Booked(req[h].key)
             /\ keyLock' = [keyLock EXCEPT ![req[h].key] = h]
             /\ newRows' = [newRows EXCEPT ![h] = @ \union {Row(req[h])}]
             /\ Goto(h, IF req[h].op = "deposit" THEN "outbox" ELSE "commit")
             /\ UNCHANGED <<rowLock, newBalance, newEvents>>
    <2>1. \A g \in Handlers \ {h} : Frame(g)
      BY <1>1, <1>3 DEF InsertTransaction, KeyFree, Goto, Frame, Booked, dbVars, TypeOK
    <2>2. /\ pc'[h] \in {"outbox", "commit"}
          /\ pc'[h] = "outbox" <=> req[h].op = "deposit"
          /\ req'[h] = req[h]
          /\ keyLock'[req[h].key] = h
          /\ newRows'[h] = {Row(req[h])}
      BY <1>1, <1>3 DEF InsertTransaction, Goto, TypeOK
    <2>3. UNCHANGED <<accounts, balance, transactions>>
      BY DEF InsertTransaction, dbVars
    <2>4. LocksInv(h)' /\ RequestInv(h)' /\ BookedInv(h)'
      BY <1>1, <1>3, <2>2, <2>3 DEF LocksInv, RequestInv, BookedInv, HoldsRow, HoldsKey, Booked
    <2>5. WritesInv(h)'
      BY <1>1, <1>3, <2>2, <2>3
         DEF InsertTransaction, HandlerInv, WritesInv, HoldsRow, HoldsKey, Row, Event
    <2>6. QED  BY <2>1, <2>4, <2>5 DEF HandlerInv
  <1>4. QED  BY <1>2, <1>3 DEF InsertTransaction

(* A deposit adds its event to what it will commit.                        *)
LEMMA InsertOutboxEventStep ==
  ASSUME TypeOK, NEW h \in Handlers, InsertOutboxEvent(h), HandlerInv(h)
  PROVE  HandlerInv(h)' /\ \A g \in Handlers \ {h} : Frame(g)
  <1>1. \A g \in Handlers \ {h} : Frame(g)
    BY DEF InsertOutboxEvent, Goto, Frame, Booked, dbVars, lockVars, TypeOK
  <1>2. /\ pc[h] = "outbox" /\ newEvents[h] = {} /\ newRows[h] = {Row(req[h])}
        /\ req[h].op = "deposit"
    BY DEF InsertOutboxEvent, HandlerInv, RequestInv, WritesInv, HoldsKey
  <1>3. /\ pc'[h] = "commit" /\ req'[h] = req[h]
        /\ newEvents'[h] = {Event(req[h])}
        /\ newRows'[h] = newRows[h] /\ newBalance'[h] = newBalance[h]
    BY <1>2 DEF InsertOutboxEvent, Goto, TypeOK
  <1>4. UNCHANGED <<accounts, balance, transactions, rowLock, keyLock>>
    BY DEF InsertOutboxEvent, dbVars, lockVars
  <1>5. LocksInv(h)' /\ RequestInv(h)' /\ BookedInv(h)'
    BY <1>2, <1>3, <1>4
       DEF HandlerInv, LocksInv, RequestInv, BookedInv, HoldsRow, HoldsKey, Booked
  <1>6. WritesInv(h)'
    BY <1>2, <1>3, <1>4 DEF HandlerInv, WritesInv, HoldsRow, HoldsKey, Row, Event
  <1>7. QED  BY <1>1, <1>5, <1>6 DEF HandlerInv

(* After the rollback of a conflict the key is still booked.               *)
LEMMA RollbackConflictStep ==
  ASSUME TypeOK, NEW h \in Handlers, RollbackConflict(h), HandlerInv(h)
  PROVE  HandlerInv(h)' /\ \A g \in Handlers \ {h} : Frame(g)
  <1>1. \A g \in Handlers \ {h} : Frame(g)
    BY EndTxFrame DEF RollbackConflict, Goto, Frame, Booked, dbVars, TypeOK
  <1>2. /\ pc[h] = "rollback" /\ req[h].amount > 0 /\ Booked(req[h].key)
    BY DEF RollbackConflict, HandlerInv, RequestInv, BookedInv
  <1>3. /\ pc'[h] = "find" /\ req'[h] = req[h] /\ UNCHANGED transactions
        /\ newRows'[h] = {} /\ newEvents'[h] = {}
    BY DEF RollbackConflict, EndTx, Goto, dbVars, TypeOK
  <1>4. HandlerInv(h)'
    BY <1>2, <1>3
       DEF HandlerInv, LocksInv, RequestInv, WritesInv, BookedInv, HoldsRow, HoldsKey, Booked
  <1>5. QED  BY <1>1, <1>4

(* The lookup answers success only for a booked key.                       *)
LEMMA FindStep ==
  ASSUME TypeOK, NEW h \in Handlers, FindByIdempotencyKey(h), HandlerInv(h)
  PROVE  HandlerInv(h)' /\ \A g \in Handlers \ {h} : Frame(g)
  <1>1. Booked(req[h].key) /\ UNCHANGED transactions
    BY DEF FindByIdempotencyKey, HandlerInv, BookedInv, dbVars
  <1>2. Return(h, "nil") /\ Booked(req[h].key)'
    BY <1>1 DEF FindByIdempotencyKey, Booked
  <1>3. QED
    BY <1>2, ReturnFrame, ReturnSelf DEF FindByIdempotencyKey

(* A failing statement is a return with an error.                          *)
LEMMA FailStep ==
  ASSUME TypeOK, NEW h \in Handlers, StatementFails(h)
  PROVE  HandlerInv(h)' /\ \A g \in Handlers \ {h} : Frame(g)
  BY ReturnFrame, ReturnSelf DEF StatementFails

(* Answering leaves an idle handler without locks or writes.               *)
LEMMA AnswerStep ==
  ASSUME TypeOK, NEW h \in Handlers, Answer(h), HandlerInv(h)
  PROVE  HandlerInv(h)' /\ \A g \in Handlers \ {h} : Frame(g)
  <1>1. \A g \in Handlers \ {h} : Frame(g)
    BY DEF Answer, Goto, Frame, Booked, dbVars, lockVars, txVars, TypeOK
  <1>2. pc'[h] = "idle" /\ newRows'[h] = {} /\ newEvents'[h] = {}
    BY DEF Answer, Goto, txVars, TypeOK, HandlerInv, WritesInv, HoldsKey
  <1>3. HandlerInv(h)'
    BY <1>2 DEF HandlerInv, LocksInv, RequestInv, WritesInv, BookedInv, HoldsRow, HoldsKey
  <1>4. QED  BY <1>1, <1>3

(* A COMMIT replaces the balance of an account and books a key that only   *)
(* the committing handler has locked.                                      *)
LEMMA CommitStep ==
  ASSUME TypeOK, NEW h \in Handlers, Commit(h), HandlerInv(h)
  PROVE  /\ HandlerInv(h)'
         /\ \A g \in Handlers \ {h} : Frame(g)
         /\ transactions' = transactions \union {Row(req[h])}
         /\ Booked(req[h].key)'
  <1> USE BillingAssumption
  <1>1. PICK e \in {"nil", "other"} : Return(h, e)
    BY DEF Commit
  <1>2. /\ req[h] \in Requests /\ req[h].user \in Users /\ req[h].key \in Keys
        /\ rowLock[req[h].user] = h /\ keyLock[req[h].key] = h
        /\ newRows[h] = {Row(req[h])}
    BY DEF Commit, TypeOK, HandlerInv, LocksInv, WritesInv, HoldsRow, HoldsKey
  <1>3. /\ transactions' = transactions \union {Row(req[h])}
        /\ Booked(req[h].key)'
    <2>1. transactions' = transactions \union {Row(req[h])} /\ req' = req
      BY <1>2 DEF Commit
    <2>2. Row(req[h]) \in transactions' /\ Row(req[h]).key = req'[h].key
      BY <2>1 DEF Row
    <2>3. Booked(req[h].key)'
      BY <2>2 DEF Booked
    <2>4. QED  BY <2>1, <2>3
  <1>4. HandlerInv(h)'
    BY <1>1, <1>3, ReturnSelf DEF Commit
  <1>5. ASSUME NEW g \in Handlers \ {h}
        PROVE  Frame(g)
    <2>1. \A k \in Keys : keyLock[k] = g => (Booked(k)' => Booked(k))
      BY <1>2, <1>3 DEF Booked, Row
    <2>2. \A u \in Users : rowLock[u] = g => balance'[u] = balance[u]
      BY <1>2 DEF Commit, TypeOK
    <2>3. QED
      BY <1>1, <1>3, <2>1, <2>2, EndTxFrame DEF Commit, Return, Goto, Frame, TypeOK
  <1>6. QED  BY <1>3, <1>4, <1>5
(* The part of the invariant about the database.  Only a COMMIT changes    *)
(* tables, and only an answer changes acked.                               *)
DbInv ==
  /\ NoOverdraft
  /\ OneRowPerKey
  /\ EventPerDeposit
  /\ \A r \in acked : Booked(r.key)

(* A COMMIT keeps the tables consistent: the lock on the row makes the new *)
(* balance current and the lock on the key makes the new row the only one. *)
LEMMA CommitDbInv ==
  ASSUME TypeOK, NEW h \in Handlers, Commit(h), HandlerInv(h), DbInv
  PROVE  DbInv'
  <1> USE BillingAssumption
  <1>1. /\ req[h] \in Requests /\ req[h].user \in Users /\ req[h].amount \in Int
        /\ req[h].op \in Ops /\ req[h].amount > 0
        /\ ~Booked(req[h].key)
        /\ newBalance[h] \in Int /\ newBalance[h] <= MaxBigint
        /\ newBalance[h] = IF req[h].op = "deposit"
                           THEN balance[req[h].user] + req[h].amount
                           ELSE balance[req[h].user] - req[h].amount
        /\ req[h].op = "withdrawal" => req[h].amount <= balance[req[h].user]
        /\ newEvents[h] = IF req[h].op = "deposit" THEN {Event(req[h])} ELSE {}
    BY DEF Commit, TypeOK, HandlerInv, RequestInv, LocksInv, WritesInv, HoldsRow, HoldsKey
  <1>2. transactions' = transactions \union {Row(req[h])}
    BY CommitStep
  <1>3. NoOverdraft'
    <2>1. balance[req[h].user] \in Int /\ 0 <= balance[req[h].user]
      BY <1>1 DEF DbInv, NoOverdraft, TypeOK
    <2>2. 0 <= newBalance[h]
      BY <1>1, <2>1 DEF Ops
    <2>3. QED
      BY <1>1, <2>2 DEF Commit, DbInv, NoOverdraft, TypeOK
  <1>4. OneRowPerKey'
    BY <1>1, <1>2 DEF DbInv, OneRowPerKey, Booked, Row
  <1>5. EventPerDeposit'
    <2>1. outbox' = outbox \union newEvents[h]
      BY DEF Commit
    <2>2. Row(req[h]) \notin transactions
      BY <1>1 DEF Booked, Row
    <2>3. \A q \in Requests : Row(q) = Row(req[h]) <=> (q.op = req[h].op /\ Event(q) = Event(req[h]))
      BY <1>1 DEF Row, Event
    <2>4. QED
      BY <1>1, <1>2, <2>1, <2>2, <2>3 DEF DbInv, EventPerDeposit, Row, Event
  <1>6. (\A r \in acked : Booked(r.key))'
    BY <1>2 DEF Commit, DbInv, Booked
  <1>7. QED
    BY <1>3, <1>4, <1>5, <1>6 DEF DbInv

(* A success is acknowledged only for a booked key.                        *)
LEMMA AnswerDbInv ==
  ASSUME TypeOK, NEW h \in Handlers, Answer(h), HandlerInv(h), DbInv
  PROVE  DbInv'
  <1>1. StatusCode(req[h].op, err[h]) = "OK" => err[h] = "nil"
    BY DEF StatusCode
  <1>2. \A r \in acked' : Booked(r.key)
    BY <1>1 DEF Answer, HandlerInv, BookedInv, DbInv
  <1>3. QED
    BY <1>2 DEF Answer, dbVars, DbInv, NoOverdraft, OneRowPerKey, EventPerDeposit, Booked

(* The other steps touch neither the tables nor acked.                     *)
LEMMA OtherDbInv ==
  ASSUME UNCHANGED <<dbVars, acked>>, DbInv
  PROVE  DbInv'
  BY DEF dbVars, DbInv, NoOverdraft, OneRowPerKey, EventPerDeposit, Booked

(* The invariant holds initially ...                                       *)
LEMMA IInvInit == Init => IInv
  <1> SUFFICES ASSUME Init
               PROVE  IInv
    OBVIOUS
  <1>1. TypeOK
    BY TypeInit
  <1>2. NoOverdraft /\ OneRowPerKey /\ \A r \in acked : Booked(r.key)
    BY BillingAssumption DEF Init, NoOverdraft, OneRowPerKey
  <1>3. EventPerDeposit
    BY DEF Init, EventPerDeposit
  <1>4. \A h \in Handlers : HandlerInv(h)
    BY DEF Init, HandlerInv, LocksInv, RequestInv, WritesInv, BookedInv, HoldsRow, HoldsKey
  <1>5. QED
    BY <1>1, <1>2, <1>3, <1>4 DEF IInv

(* ... and every step of every handler keeps it: the steps of h establish  *)
(* HandlerInv(h), and the frame of the others carries theirs over.         *)
LEMMA IInvStep == IInv /\ [Next]_vars => IInv'
  <1> SUFFICES ASSUME IInv, [Next]_vars
               PROVE  IInv'
    OBVIOUS
  <1>1. TypeOK /\ TypeOK' /\ NoOverdraft /\ DbInv /\ \A h \in Handlers : HandlerInv(h)
    BY TypeStep DEF IInv, DbInv
  <1>2. ASSUME NEW h \in Handlers, Progress(h) \/ StatementFails(h) \/ \E r \in Requests : Receive(h, r)
        PROVE  HandlerInv(h)' /\ (\A g \in Handlers \ {h} : Frame(g)) /\ DbInv'
    <2>1. HandlerInv(h)
      BY <1>1
    <2>2. ASSUME NEW r \in Requests, Receive(h, r)
          PROVE  HandlerInv(h)' /\ (\A g \in Handlers \ {h} : Frame(g)) /\ DbInv'
      BY <1>1, <2>1, <2>2, ReceiveStep, OtherDbInv DEF Receive
    <2>3. CASE Begin(h)
      BY <1>1, <2>1, <2>3, BeginStep, OtherDbInv DEF Begin
    <2>4. CASE TopUpAccount(h)
      BY <1>1, <2>1, <2>4, TopUpStep, OtherDbInv DEF TopUpAccount
    <2>5. CASE GetAccount(h)
      BY <1>1, <2>1, <2>5, GetAccountStep, OtherDbInv DEF GetAccount
    <2>6. CASE WithdrawAccount(h)
      BY <1>1, <2>1, <2>6, WithdrawAccountStep, OtherDbInv DEF WithdrawAccount
    <2>7. CASE InsertTransaction(h)
      BY <1>1, <2>1, <2>7, InsertTransactionStep, OtherDbInv DEF InsertTransaction
    <2>8. CASE InsertOutboxEvent(h)
      BY <1>1, <2>1, <2>8, InsertOutboxEventStep, OtherDbInv DEF InsertOutboxEvent
    <2>9. CASE Commit(h)
      BY <1>1, <2>1, <2>9, CommitStep, CommitDbInv
    <2>10. CASE RollbackConflict(h)
      BY <1>1, <2>1, <2>10, RollbackConflictStep, OtherDbInv DEF RollbackConflict
    <2>11. CASE FindByIdempotencyKey(h)
      BY <1>1, <2>1, <2>11, FindStep, OtherDbInv DEF FindByIdempotencyKey
    <2>12. CASE Answer(h)
      BY <1>1, <2>1, <2>12, AnswerStep, AnswerDbInv
    <2>13. CASE StatementFails(h)
      BY <1>1, <2>1, <2>13, FailStep, OtherDbInv DEF StatementFails
    <2>14. QED
      BY <1>2, <2>2, <2>3, <2>4, <2>5, <2>6, <2>7, <2>8, <2>9, <2>10, <2>11, <2>12, <2>13
         DEF Progress
  <1>3. CASE Next
    <2>1. PICK h \in Handlers : Progress(h) \/ StatementFails(h) \/ \E r \in Requests : Receive(h, r)
      BY <1>3 DEF Next
    <2>2. ASSUME NEW g \in Handlers
          PROVE  HandlerInv(g)'
      BY <1>1, <1>2, <2>1, FrameKeeps
    <2>3. QED
      BY <1>1, <1>2, <2>1, <2>2 DEF IInv, DbInv
  <1>4. CASE UNCHANGED vars
    <2>1. UNCHANGED <<dbVars, lockVars, pc, req, err, txVars, acked>>
      BY <1>4 DEF vars
    <2>2. ASSUME NEW g \in Handlers
          PROVE  HandlerInv(g)'
      BY <1>1, <2>1, FrameKeeps DEF Frame, Booked, dbVars, lockVars, txVars
    <2>3. QED
      BY <1>1, <2>1, <2>2, OtherDbInv DEF IInv, DbInv
  <1>5. QED
    BY <1>3, <1>4

(* The inductive invariant holds in every reachable state: handlers own the *)
(* locks they act under, so that what they read stays true until COMMIT.   *)
THEOREM Invariance == Spec => []IInv
  BY IInvInit, IInvStep, PTL DEF Spec
-------------------------------------------------------------------------------
(* What the invariant says about the service *)

(* No interleaving of withdrawals overdraws an account, and no deposit     *)
(* leaves the range of BIGINT.                                             *)
THEOREM NoOverdraftCorrect == Spec => []NoOverdraft
  <1>1. IInv => NoOverdraft
    BY DEF IInv
  <1>2. QED  BY <1>1, Invariance, PTL

(* An idempotency key is booked at most once, also by concurrent calls.    *)
THEOREM OneRowPerKeyCorrect == Spec => []OneRowPerKey
  <1>1. IInv => OneRowPerKey
    BY DEF IInv
  <1>2. QED  BY <1>1, Invariance, PTL

(* Each deposit, and nothing else, commits an outbox event.                *)
THEOREM EventPerDepositCorrect == Spec => []EventPerDeposit
  <1>1. IInv => EventPerDeposit
    BY DEF IInv
  <1>2. QED  BY <1>1, Invariance, PTL

(* The key of a request answered with success is booked, and the request   *)
(* itself is booked if no other request uses its key.                      *)
THEOREM AckedIsBookedCorrect == Spec => []AckedIsBooked
  <1>1. IInv => AckedIsBooked
    <2> SUFFICES ASSUME IInv, NEW r \in acked,
                        \A q \in Requests : q.key = r.key => q = r
                 PROVE  Row(r) \in transactions
      BY DEF AckedIsBooked
    <2>1. PICK t \in transactions : t.key = r.key
      BY DEF IInv, Booked
    <2>2. PICK q \in Requests : t = Row(q)
      BY <2>1 DEF IInv, TypeOK
    <2>3. q = r
      BY <2>1, <2>2 DEF Row
    <2>4. QED  BY <2>1, <2>2, <2>3
  <1>2. QED  BY <1>1, Invariance, PTL

(* A handler that met a conflict finds the row of the key: the conflict    *)
(* never comes from a transaction that may still roll back.                *)
THEOREM LookupNeverMissesCorrect == Spec => []LookupNeverMisses
  <1>1. IInv => LookupNeverMisses
    BY DEF IInv, HandlerInv, BookedInv, LookupNeverMisses
  <1>2. QED  BY <1>1, Invariance, PTL

(* Between its SELECT and its COMMIT a handler acts on the balance that is *)
(* committed.                                                              *)
THEOREM UncommittedBalanceFreshCorrect == Spec => []UncommittedBalanceFresh
  <1>1. IInv => UncommittedBalanceFresh
    <2> SUFFICES ASSUME IInv, NEW h \in Handlers
                 PROVE  /\ pc[h] = "debit" => balance[req[h].user] >= req[h].amount
                        /\ pc[h] \in {"insert", "outbox", "commit"} =>
                             newBalance[h] = IF req[h].op = "deposit"
                                             THEN balance[req[h].user] + req[h].amount
                                             ELSE balance[req[h].user] - req[h].amount
      BY DEF UncommittedBalanceFresh
    <2>1. LocksInv(h) /\ RequestInv(h) /\ WritesInv(h)
      BY DEF IInv, HandlerInv
    <2>2. pc[h] = "debit" => req[h].amount <= balance[req[h].user]
      BY <2>1 DEF RequestInv, WritesInv, HoldsRow
    <2>3. pc[h] = "debit" => req[h].user \in Users /\ req[h].amount \in Int
      BY BillingAssumption DEF IInv, TypeOK
    <2>4. balance \in [Users -> Int]
      BY DEF IInv, TypeOK
    <2>5. QED
      BY <2>1, <2>2, <2>3, <2>4 DEF WritesInv
  <1>2. QED  BY <1>1, Invariance, PTL

-------------------------------------------------------------------------------
(* No deadlock *)

(* A handler has a lock only while the invariant says it needs it.         *)
LocksNeeded(g) ==
  /\ (\E u \in Users : rowLock[u] = g) => HoldsRow(g)
  /\ (\E k \in Keys : keyLock[k] = g) => HoldsKey(g)

(* The end of its transaction takes all locks from a handler.              *)
LEMMA EndTxUnlocks ==
  ASSUME NEW h \in Handlers, EndTx(h)
  PROVE  LocksNeeded(h)'
  BY BillingAssumption DEF EndTx, LocksNeeded

(* A step that takes no lock, and goes on where the locks are still needed.*)
LEMMA NoNewLock ==
  ASSUME NEW h \in Handlers, LocksNeeded(h), UNCHANGED lockVars,
         HoldsRow(h) => HoldsRow(h)', HoldsKey(h) => HoldsKey(h)'
  PROVE  LocksNeeded(h)'
  BY DEF LocksNeeded, lockVars

LEMMA StepLocksNeeded ==
  ASSUME TypeOK, NEW h \in Handlers, LocksNeeded(h),
         Progress(h) \/ StatementFails(h) \/ \E r \in Requests : Receive(h, r)
  PROVE  LocksNeeded(h)'
  <1> USE BillingAssumption
  <1>1. ASSUME NEW r \in Requests, Receive(h, r)
        PROVE  LocksNeeded(h)'
    BY <1>1, NoNewLock DEF Receive, HoldsRow, HoldsKey
  <1>2. CASE Begin(h) \/ Answer(h)
    BY <1>2, NoNewLock DEF Begin, Answer, HoldsRow, HoldsKey
  <1>3. ASSUME LockRow(h), UNCHANGED keyLock, ~HoldsKey(h), HoldsRow(h)'
        PROVE  LocksNeeded(h)'
    BY <1>3 DEF LockRow, LocksNeeded
  <1>4. CASE TopUpAccount(h)
    <2>1. CASE Return(h, "other")
      BY <2>1, EndTxUnlocks DEF Return
    <2>2. CASE LockRow(h) /\ Goto(h, "insert") /\ UNCHANGED keyLock
      BY <1>3, <1>4, <2>2 DEF TopUpAccount, Goto, TypeOK, HoldsRow, HoldsKey
    <2>3. QED  BY <1>4, <2>1, <2>2 DEF TopUpAccount
  <1>5. CASE GetAccount(h)
    <2>1. CASE \E e \in Errors : Return(h, e)
      BY <2>1, EndTxUnlocks DEF Return
    <2>2. CASE LockRow(h) /\ Goto(h, "debit") /\ UNCHANGED keyLock
      BY <1>3, <1>5, <2>2 DEF GetAccount, Goto, TypeOK, HoldsRow, HoldsKey
    <2>3. QED  BY <1>5, <2>1, <2>2 DEF GetAccount, Errors
  <1>6. CASE WithdrawAccount(h)
    BY <1>3, <1>6 DEF WithdrawAccount, Goto, TypeOK, HoldsRow, HoldsKey
  <1>7. CASE InsertTransaction(h)
    <2>1. CASE EndTx(h)
      BY <2>1, EndTxUnlocks
    <2>2. CASE /\ UNCHANGED rowLock
               /\ Goto(h, IF req[h].op = "deposit" THEN "outbox" ELSE "commit")
      <3>1. HoldsRow(h)' /\ HoldsKey(h)'
        BY <1>7, <2>2 DEF InsertTransaction, Goto, TypeOK, HoldsRow, HoldsKey
      <3>2. QED  BY <3>1 DEF LocksNeeded
    <2>3. QED  BY <1>7, <2>1, <2>2 DEF InsertTransaction
  <1>8. CASE InsertOutboxEvent(h)
    BY <1>8, NoNewLock DEF InsertOutboxEvent, Goto, TypeOK, HoldsRow, HoldsKey
  <1>9. CASE Commit(h) \/ FindByIdempotencyKey(h) \/ StatementFails(h) \/ RollbackConflict(h)
    BY <1>9, EndTxUnlocks DEF Commit, FindByIdempotencyKey, StatementFails, RollbackConflict, Return
  <1>10. QED
    BY <1>1, <1>2, <1>4, <1>5, <1>6, <1>7, <1>8, <1>9 DEF Progress

(* Every lock has an owner that is at a statement where it needs it.       *)
LEMMA LocksNeededCorrect == Spec => [](\A g \in Handlers : LocksNeeded(g))
  <1> DEFINE Inv == \A g \in Handlers : LocksNeeded(g)
  <1>1. Init => Inv
    BY BillingAssumption DEF Init, LocksNeeded
  <1>2. TypeOK /\ NothingLeaks /\ Inv /\ [Next]_vars => Inv'
    <2> SUFFICES ASSUME TypeOK, NothingLeaks, Inv, [Next]_vars, NEW g \in Handlers
                 PROVE  LocksNeeded(g)'
      OBVIOUS
    <2>1. CASE UNCHANGED vars
      BY <2>1 DEF vars, lockVars, LocksNeeded, HoldsRow, HoldsKey
    <2>2. ASSUME NEW h \in Handlers,
                 Progress(h) \/ StatementFails(h) \/ \E r \in Requests : Receive(h, r)
          PROVE  LocksNeeded(g)'
      <3>1. CASE g = h
        BY <2>2, <3>1, StepLocksNeeded
      <3>2. CASE g # h
        <4>1. Clean(h)
          BY DEF NothingLeaks, Clean
        <4>2. Untouched(g)
          BY <2>2, <3>2, <4>1, HandlerClean
        <4>3. QED  BY <4>2 DEF Untouched, LocksNeeded, HoldsRow, HoldsKey
      <3>3. QED  BY <3>1, <3>2
    <2>3. QED  BY <2>1, <2>2 DEF Next
  <1>3. QED  BY <1>1, <1>2, TypeCorrect, NothingLeaksCorrect, PTL DEF Spec

(* The reason why no circle of waits arises, whatever the number of        *)
(* handlers, connections, users and keys.                                  *)
LEMMA WaitsAscend ==
  ASSUME IInv, NothingLeaks, \A g \in Handlers : LocksNeeded(g),
         NEW h \in Handlers, NEW g \in Handlers, WaitsFor(h, g)
  PROVE  Rank(h) < Rank(g)
  <1> USE BillingAssumption
  <1>1. pc[h] # "idle" => req[h].user \in Users /\ req[h].key \in Keys
    BY DEF IInv, TypeOK
  <1>2. pc[g] \in Labels /\ pc[h] \in Labels
    BY DEF IInv, TypeOK
  <1>3. CASE pc[h] \in {"begin", "find"} /\ g \in conns
    <2>1. InTransaction(g)
      BY <1>3 DEF NothingLeaks
    <2>2. QED  BY <1>2, <1>3, <2>1 DEF InTransaction, Rank, Labels
  <1>4. CASE pc[h] \in {"topup", "select"} /\ rowLock[req[h].user] = g
    <2>1. HoldsRow(g)
      BY <1>1, <1>4 DEF LocksNeeded
    <2>2. QED  BY <1>2, <1>4, <2>1 DEF HoldsRow, Rank, Labels
  <1>5. CASE pc[h] = "debit" /\ rowLock[req[h].user] = g
    BY <1>5 DEF WaitsFor, IInv, HandlerInv, LocksInv, HoldsRow
  <1>6. CASE pc[h] = "insert" /\ keyLock[req[h].key] = g
    <2>1. HoldsKey(g)
      BY <1>1, <1>6 DEF LocksNeeded
    <2>2. QED  BY <1>2, <1>6, <2>1 DEF HoldsKey, Rank, Labels
  <1>7. QED  BY <1>3, <1>4, <1>5, <1>6 DEF WaitsFor

(* Connections, rows and keys are waited for in one order only.            *)
THEOREM NoCircularWaitCorrect == Spec => []NoCircularWait
  <1>1. IInv /\ NothingLeaks /\ (\A g \in Handlers : LocksNeeded(g)) => NoCircularWait
    BY WaitsAscend DEF NoCircularWait
  <1>2. QED  BY <1>1, Invariance, NothingLeaksCorrect, LocksNeededCorrect, PTL

(* As long as a call is in progress, one of them need not wait: a call of  *)
(* the highest rank.                                                       *)
THEOREM NoDeadlockCorrect == Spec => []NoDeadlock
  <1>1. TypeOK /\ NoCircularWait /\ NothingLeaks => NoDeadlock
    <2> SUFFICES ASSUME TypeOK, NoCircularWait, NothingLeaks, NEW h0 \in Handlers, pc[h0] # "idle"
                 PROVE  \E h \in Handlers : pc[h] # "idle" /\ \A g \in Handlers : ~WaitsFor(h, g)
      BY DEF NoDeadlock
    <2>1. \A h \in Handlers : pc[h] \in Labels /\ Rank(h) \in 0..3
      BY DEF TypeOK, Rank, Labels
    <2>2. \A h, g \in Handlers : WaitsFor(h, g) => Rank(h) < Rank(g)
      BY DEF NoCircularWait
    <2>3. \A h, g \in Handlers : WaitsFor(h, g) => pc[g] # "idle"
      <3> SUFFICES ASSUME NEW h \in Handlers, NEW g \in Handlers, pc[g] = "idle", WaitsFor(h, g)
                   PROVE  FALSE
        OBVIOUS
      <3>1. ~InTransaction(g)
        BY DEF InTransaction
      <3>2. /\ g \notin conns
            /\ \A u \in Users : rowLock[u] # g
            /\ \A k \in Keys : keyLock[k] # g
        BY <3>1 DEF NothingLeaks
      <3>3. pc[h] # "idle" => req[h].user \in Users /\ req[h].key \in Keys
        BY BillingAssumption DEF TypeOK
      <3>4. QED  BY <3>2, <3>3 DEF WaitsFor
    <2> DEFINE Busy == {h \in Handlers : pc[h] # "idle"}
    <2>4. PICK h \in Busy : \A g \in Busy : Rank(g) <= Rank(h)
      <3> DEFINE Has(n) == \E h \in Busy : Rank(h) = n
      <3>1. h0 \in Busy /\ \A g \in Busy : Rank(g) \in 0..3
        BY <2>1
      <3>2. Has(0) \/ Has(1) \/ Has(2) \/ Has(3)
        BY <3>1
      <3> HIDE DEF Busy
      <3>3. CASE Has(3)
        BY <3>1, <3>3
      <3>4. CASE ~Has(3) /\ Has(2)
        BY <3>1, <3>4
      <3>5. CASE ~Has(3) /\ ~Has(2) /\ Has(1)
        BY <3>1, <3>5
      <3>6. CASE ~Has(3) /\ ~Has(2) /\ ~Has(1) /\ Has(0)
        BY <3>1, <3>6
      <3>7. QED  BY <3>2, <3>3, <3>4, <3>5, <3>6
    <2>5. ASSUME NEW g \in Handlers, WaitsFor(h, g)
          PROVE  FALSE
      BY <2>1, <2>2, <2>3, <2>4, <2>5
    <2>6. QED  BY <2>4, <2>5
  <1>2. QED  BY <1>1, TypeCorrect, NoCircularWaitCorrect, NothingLeaksCorrect, PTL

-------------------------------------------------------------------------------
(* The balance and the booked rows *)

Bookings(u, type) == {t \in transactions : t.user = u /\ t.type = type}

(* BalanceIsHistory in terms of AmountSums.                                *)
BalancesAddUp ==
  \A u \in Users : balance[u] = AmountSum(Bookings(u, "deposit")) - AmountSum(Bookings(u, "withdrawal"))

LEMMA HistoryAsSums == BalanceIsHistory <=> BalancesAddUp
  BY DEF BalanceIsHistory, BalancesAddUp, AmountSum, Bookings

(* Only a COMMIT writes tables. *)
LEMMA OnlyCommitWrites ==
  ASSUME [Next]_vars
  PROVE  (\E h \in Handlers : Commit(h)) \/ UNCHANGED dbVars
  BY DEF Next, Progress, vars, Receive, Begin, TopUpAccount, GetAccount, WithdrawAccount,
         InsertTransaction, InsertOutboxEvent, RollbackConflict, FindByIdempotencyKey,
         StatementFails, Answer

(* With it, that there are only finitely many rows is inductive.           *)
HistoryInv == IsFiniteSet(transactions) /\ BalancesAddUp

(* A COMMIT moves the balance of one user by the amount of the one row it  *)
(* adds, and no other sum changes.                                         *)
LEMMA CommitHistory ==
  ASSUME IInv, HistoryInv, NEW h \in Handlers, Commit(h)
  PROVE  HistoryInv'
  <1> DEFINE r == req[h]
             row == Row(r)
  <1>1. TypeOK /\ HandlerInv(h)
    BY DEF IInv
  <1>2. /\ r \in Requests /\ r.op \in Ops /\ r.user \in Users /\ r.amount \in Int
        /\ ~Booked(r.key)
        /\ newRows[h] = {row}
        /\ newBalance[h] = IF r.op = "deposit" THEN balance[r.user] + r.amount
                                              ELSE balance[r.user] - r.amount
    BY <1>1, BillingAssumption
       DEF Commit, TypeOK, HandlerInv, RequestInv, LocksInv, WritesInv, HoldsRow, HoldsKey
  <1>3. /\ transactions' = transactions \union {row}
        /\ balance' = [balance EXCEPT ![r.user] = newBalance[h]]
    BY <1>2 DEF Commit
  <1>4. /\ row \notin transactions
        /\ row.user = r.user /\ row.type = r.op /\ row.amount = r.amount
    BY <1>2 DEF Booked, Row
  <1>5. /\ balance \in [Users -> Int]
        /\ \A t \in transactions : t.amount \in Int
    BY <1>1, BillingAssumption DEF TypeOK, Row
  <1>6. IsFiniteSet(transactions')
    BY <1>3, FS_AddElement DEF HistoryInv
  <1> HIDE DEF r, row
  <1>7. ASSUME NEW u \in Users, NEW type \in Ops
        PROVE  /\ AmountSum(Bookings(u, type)) \in Int
               /\ AmountSum(Bookings(u, type)') =
                    IF u = r.user /\ type = r.op THEN AmountSum(Bookings(u, type)) + r.amount
                                                ELSE AmountSum(Bookings(u, type))
    <2> DEFINE old == Bookings(u, type)
    <2>1. IsFiniteSet(old) /\ row \notin old /\ \A t \in old : t.amount \in Int
      <3>1. old \in SUBSET transactions
        BY DEF Bookings
      <3>2. QED  BY <1>4, <1>5, <3>1, FS_Subset DEF HistoryInv
    <2>2. Bookings(u, type)' = IF u = r.user /\ type = r.op THEN old \union {row} ELSE old
      BY <1>3, <1>4 DEF Bookings
    <2> HIDE DEF old
    <2>3. AmountSum(old) \in Int
      BY <2>1, AmountSumType
    <2>4. AmountSum(old \union {row}) = AmountSum(old) + r.amount
      BY <1>2, <1>4, <2>1, AmountSumAdd
    <2>5. QED  BY <2>2, <2>3, <2>4 DEF old
  <1>8. ASSUME NEW u \in Users
        PROVE  balance'[u] =
                 AmountSum(Bookings(u, "deposit")') - AmountSum(Bookings(u, "withdrawal")')
    <2>1. balance[u] = AmountSum(Bookings(u, "deposit")) - AmountSum(Bookings(u, "withdrawal"))
      BY DEF HistoryInv, BalancesAddUp
    <2>2. balance'[u] = IF u = r.user THEN newBalance[h] ELSE balance[u]
      BY <1>3, <1>5
    <2>3. "deposit" \in Ops /\ "withdrawal" \in Ops
      BY DEF Ops
    <2>4. QED
      BY <1>2, <1>5, <1>7, <2>1, <2>2, <2>3 DEF Ops, r
  <1>9. BalancesAddUp'
    BY <1>8 DEF BalancesAddUp
  <1>10. QED  BY <1>6, <1>9 DEF HistoryInv

(* The balance of every account is what its booked rows add up to, however *)
(* the handlers interleave and whatever fails.                             *)
THEOREM BalanceIsHistoryCorrect == Spec => []BalanceIsHistory
  <1>1. Init => HistoryInv
    <2> SUFFICES ASSUME Init
                 PROVE  HistoryInv
      OBVIOUS
    <2>1. transactions = {} /\ \A u \in Users : balance[u] = 0
      BY DEF Init
    <2>2. \A u, type : Bookings(u, type) = {}
      BY <2>1 DEF Bookings
    <2>3. BalancesAddUp
      <3>1. 0 = AmountSum({}) - AmountSum({})
        BY AmountSumEmpty
      <3>2. QED  BY <2>1, <2>2, <3>1 DEF BalancesAddUp
    <2>4. QED  BY <2>1, <2>3, FS_EmptySet DEF HistoryInv
  <1>2. IInv /\ HistoryInv /\ [Next]_vars => HistoryInv'
    <2> SUFFICES ASSUME IInv, HistoryInv, [Next]_vars
                 PROVE  HistoryInv'
      OBVIOUS
    <2>1. ASSUME NEW h \in Handlers, Commit(h)
          PROVE  HistoryInv'
      BY <2>1, CommitHistory
    <2>2. CASE UNCHANGED dbVars
      BY <2>2 DEF HistoryInv, BalancesAddUp, Bookings, dbVars
    <2>3. (\E h \in Handlers : Commit(h)) \/ UNCHANGED dbVars
      BY OnlyCommitWrites
    <2>4. QED  BY <2>1, <2>2, <2>3
  <1>3. HistoryInv => BalanceIsHistory
    BY HistoryAsSums DEF HistoryInv
  <1>4. QED  BY <1>1, <1>2, <1>3, Invariance, PTL DEF Spec

-------------------------------------------------------------------------------
(* Accounts and keys of clients *)

(* A booked row has an account. *)
RowsHaveAccounts == \A t \in transactions : t.user \in accounts

LEMMA RowsHaveAccountsCorrect == Spec => []RowsHaveAccounts
  <1>1. Init => RowsHaveAccounts
    BY DEF Init, RowsHaveAccounts
  <1>2. IInv /\ RowsHaveAccounts /\ [Next]_vars => RowsHaveAccounts'
    <2> SUFFICES ASSUME IInv, RowsHaveAccounts, [Next]_vars
                 PROVE  RowsHaveAccounts'
      OBVIOUS
    <2>1. ASSUME NEW h \in Handlers, Commit(h)
          PROVE  RowsHaveAccounts'
      <3>1. \A t \in newRows[h] : t.user = req[h].user
        <4>1. newRows[h] \subseteq {Row(req[h])}
          BY DEF IInv, HandlerInv, WritesInv
        <4>2. Row(req[h]).user = req[h].user
          BY DEF Row
        <4>3. QED  BY <4>1, <4>2
      <3>2. accounts' = accounts \union {req[h].user} /\ transactions' = transactions \union newRows[h]
        BY <2>1 DEF Commit
      <3>3. QED  BY <3>1, <3>2 DEF RowsHaveAccounts
    <2>2. CASE UNCHANGED dbVars
      BY <2>2 DEF RowsHaveAccounts, dbVars
    <2>3. QED  BY <2>1, <2>2, OnlyCommitWrites
  <1>3. QED  BY <1>1, <1>2, Invariance, PTL DEF Spec

(* What requests.http says of a deposit is true of clients that use a key  *)
(* for one request only: an answer of success means that the request was   *)
(* booked, and the account is there.  Without keys it is not true (run     *)
(* billing_http).                                                          *)
THEOREM DepositCreatesAccountWithKeys ==
  ASSUME \A r, q \in Requests : q.key = r.key => q = r
  PROVE  Spec => []DepositCreatesAccount
  <1>1. TypeOK /\ AckedIsBooked /\ RowsHaveAccounts => DepositCreatesAccount
    <2> SUFFICES ASSUME TypeOK, AckedIsBooked, RowsHaveAccounts, NEW r \in acked
                 PROVE  r.user \in accounts
      BY DEF DepositCreatesAccount
    <2>1. r \in Requests
      BY DEF TypeOK
    <2>2. Row(r) \in transactions
      BY <2>1 DEF AckedIsBooked
    <2>3. Row(r).user = r.user
      BY DEF Row
    <2>4. QED  BY <2>2, <2>3 DEF RowsHaveAccounts
  <1>2. QED
    BY <1>1, TypeCorrect, AckedIsBookedCorrect, RowsHaveAccountsCorrect, PTL

-------------------------------------------------------------------------------
(* Refinement *)

(* A COMMIT is the ledger's Deposit or Withdraw, a success its Acknowledge,*)
(* and every other step leaves the ledger alone.                           *)
LEMMA LedgerStep == IInv /\ [Next]_vars => [L!Next]_(L!ledgerVars)
  <1> SUFFICES ASSUME IInv, [Next]_vars
               PROVE  [L!Next]_(L!ledgerVars)
    OBVIOUS
  <1>1. ASSUME UNCHANGED <<dbVars, acked>>
        PROVE  UNCHANGED L!ledgerVars
    BY <1>1 DEF dbVars, L!ledgerVars
  <1>2. ASSUME NEW h \in Handlers, Commit(h)
        PROVE  L!Next
    <2>1. TypeOK /\ HandlerInv(h)
      BY DEF IInv
    <2>2. /\ req[h] \in Requests /\ req[h].op \in Ops /\ req[h].user \in Users
          /\ req[h].amount > 0 /\ req[h].amount \in Int
          /\ ~Booked(req[h].key)
          /\ newRows[h] = {Row(req[h])}
          /\ newEvents[h] = IF req[h].op = "deposit" THEN {Event(req[h])} ELSE {}
          /\ newBalance[h] <= MaxBigint
          /\ newBalance[h] = IF req[h].op = "deposit"
                             THEN balance[req[h].user] + req[h].amount
                             ELSE balance[req[h].user] - req[h].amount
          /\ req[h].op = "withdrawal" => req[h].user \in accounts
          /\ req[h].op = "withdrawal" => req[h].amount <= balance[req[h].user]
      BY <1>2, <2>1, BillingAssumption
         DEF Commit, TypeOK, HandlerInv, RequestInv, LocksInv, WritesInv, HoldsRow, HoldsKey
    <2>3. /\ accounts' = accounts \union {req[h].user}
          /\ balance' = [balance EXCEPT ![req[h].user] = newBalance[h]]
          /\ transactions' = transactions \union {Row(req[h])}
          /\ outbox' = outbox \union newEvents[h]
          /\ acked' = acked
      BY <1>2, <2>2 DEF Commit
    <2>4. ~L!Booked(req[h].key)
      BY <2>2 DEF Booked, L!Booked
    <2>5. CASE req[h].op = "deposit"
      <3>1. L!Deposit(req[h])
        BY <2>2, <2>3, <2>4, <2>5 DEF L!Deposit, L!Row, L!Event, Row, Event
      <3>2. QED  BY <2>2, <3>1 DEF L!Next
    <2>6. CASE req[h].op = "withdrawal"
      <3>1. accounts' = accounts /\ outbox' = outbox
        BY <2>2, <2>3, <2>6
      <3>2. L!Withdraw(req[h])
        BY <2>2, <2>3, <2>4, <2>6, <3>1 DEF L!Withdraw, L!Row, Row
      <3>3. QED  BY <2>2, <3>2 DEF L!Next
    <2>7. QED  BY <2>2, <2>5, <2>6 DEF Ops
  <1>3. ASSUME NEW h \in Handlers, Answer(h)
        PROVE  L!Next \/ UNCHANGED L!ledgerVars
    <2>1. CASE StatusCode(req[h].op, err[h]) = "OK"
      <3>1. err[h] = "nil"
        BY <2>1 DEF StatusCode
      <3>2. req[h] \in Requests /\ Booked(req[h].key)
        BY <1>3, <3>1 DEF Answer, IInv, TypeOK, HandlerInv, BookedInv
      <3>3. L!Acknowledge(req[h])
        BY <1>3, <2>1, <3>2 DEF Answer, dbVars, L!Acknowledge, L!Booked, Booked
      <3>4. QED  BY <3>2, <3>3 DEF L!Next
    <2>2. CASE StatusCode(req[h].op, err[h]) # "OK"
      BY <1>1, <1>3, <2>2 DEF Answer
    <2>3. QED  BY <2>1, <2>2
  <1>4. ASSUME NEW h \in Handlers, Progress(h)
        PROVE  Commit(h) \/ Answer(h) \/ UNCHANGED <<dbVars, acked>>
    BY <1>4 DEF Progress, Begin, TopUpAccount, GetAccount, WithdrawAccount, InsertTransaction,
                InsertOutboxEvent, RollbackConflict, FindByIdempotencyKey
  <1>5. QED
    BY <1>1, <1>2, <1>3, <1>4 DEF Next, vars, Receive, StatementFails

(* The handlers, with their locks, failures and lost replies, implement    *)
(* the atomic ledger.                                                      *)
THEOREM ImplementsLedger == Spec => LedgerSpec
  <1>1. Init => L!Init
    BY DEF Init, L!Init
  <1>2. QED
    BY <1>1, LedgerStep, Invariance, PTL DEF Spec, LedgerSpec, L!Spec
===============================================================================
