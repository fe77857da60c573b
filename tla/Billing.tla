------------------------------- MODULE Billing --------------------------------
(***************************************************************************)
(* The billing service: gRPC handlers (billing/grpc_handler.go) running    *)
(* Deposit and Withdraw (billing/services/billing.go) as PostgreSQL        *)
(* transactions at READ COMMITTED (billing/repository/billing.go).         *)
(*                                                                         *)
(* Each SQL statement is one action.  What a transaction has written waits *)
(* in newBalance, newRows and newEvents for its COMMIT; others are kept    *)
(* out of it by the row lock of the account and by the unique index on the *)
(* idempotency key, whose uncommitted entry makes a second INSERT wait.    *)
(* Every statement may fail (cancelled context, lost connection, server    *)
(* crash), and the reply to a COMMIT that took effect may be lost.         *)
(***************************************************************************)
EXTENDS Integers, FiniteSets, FiniteSetsExt

CONSTANTS
  Users, Keys, Requests, MaxBigint,  \* as in module Ledger
  Handlers,   \* goroutines that serve gRPC calls
  NoHandler,  \* the owner of a lock nobody holds
  NoRequest,  \* the request of an idle handler
  PoolSize    \* connections of the pgxpool that handlers can get

Ops == {"deposit", "withdrawal"}

ASSUME BillingAssumption ==
  /\ Requests \subseteq [op : Ops, user : Users, amount : Int, key : Keys]
  /\ MaxBigint \in Nat
  /\ NoHandler \notin Handlers
  /\ NoRequest \notin Requests
  /\ PoolSize \in Nat \ {0}

VARIABLES
  (* committed database state *)
  accounts, balance, transactions, outbox,
  (* locks of open transactions *)
  rowLock,   \* [Users -> owner]: accounts row of the user, or its user_id entry
  keyLock,   \* [Keys -> owner]: uncommitted entry of the idempotency index
  (* handlers *)
  conns,     \* handlers holding a pool connection
  pc,        \* next statement of the handler
  req,       \* the request it serves
  err,       \* the error the service returned to it
  (* uncommitted writes of its transaction *)
  newBalance,  \* balance of the user's account
  newRows,     \* rows of table transactions
  newEvents,   \* rows of table outbox_events
  (* history *)
  acked      \* requests answered with success

dbVars == <<accounts, balance, transactions, outbox>>
lockVars == <<rowLock, keyLock>>
txVars == <<newBalance, newRows, newEvents>>
vars == <<dbVars, lockVars, conns, pc, req, err, txVars, acked>>

-------------------------------------------------------------------------------
(* Rows and answers *)

Row(r) == [key |-> r.key, user |-> r.user, amount |-> r.amount, type |-> r.op]

(* The payload InsertOutboxEventTx stores; the key stands for the id.      *)
Event(r) == [key |-> r.key, user |-> r.user, amount |-> r.amount]

Booked(k) == \E t \in transactions : t.key = k

(* Errors as errors.Is tells them apart: the ErrAccountNotFound that the   *)
(* repository returns is not the ErrAccountNotFound of package services.   *)
Errors == {"nil", "invalid amount", "services.ErrInsufficientFunds",
           "repository.ErrAccountNotFound", "repository.ErrTransactionNotFound",
           "other"}

(* Mutant: an error the handler does not know is logged, not returned. *)
MutantStatusCode(op, e) ==
  CASE e = "invalid amount" -> "InvalidArgument"
    [] e = "services.ErrInsufficientFunds" -> "FailedPrecondition"
    [] OTHER -> "OK"

(* The gRPC status the handler turns an error into. *)
StatusCode(op, e) ==
  CASE e = "nil" -> "OK"
    [] e = "invalid amount" -> "InvalidArgument"
    [] op = "withdrawal" /\ e = "services.ErrInsufficientFunds" -> "FailedPrecondition"
    [] op = "withdrawal" /\ e = "services.ErrAccountNotFound" -> "NotFound"
    [] OTHER -> "Internal"

-------------------------------------------------------------------------------
(* Locks and connections *)

(* Mutant: the statements do not lock the row. *)
MutantRowFree(h) == TRUE

RowFree(h) == rowLock[req[h].user] \in {NoHandler, h}

(* Mutant: no unique index on the key. *)
MutantKeyFree(h) == TRUE

KeyFree(h) == keyLock[req[h].key] \in {NoHandler, h}

ConnFree == Cardinality(conns) < PoolSize

LockRow(h) == rowLock' = [rowLock EXCEPT ![req[h].user] = h]

(* The server ends the transaction of h, dropping its locks and writes. *)
EndTx(h) ==
  /\ rowLock' = [u \in Users |-> IF rowLock[u] = h THEN NoHandler ELSE rowLock[u]]
  /\ keyLock' = [k \in Keys |-> IF keyLock[k] = h THEN NoHandler ELSE keyLock[k]]
  /\ newBalance' = [newBalance EXCEPT ![h] = 0]
  /\ newRows' = [newRows EXCEPT ![h] = {}]
  /\ newEvents' = [newEvents EXCEPT ![h] = {}]

Goto(h, label) == pc' = [pc EXCEPT ![h] = label]

(* The service returns e; the deferred tx.Rollback gives the connection    *)
(* back and undoes whatever was not committed.                             *)
Return(h, e) ==
  /\ Goto(h, "return")
  /\ err' = [err EXCEPT ![h] = e]
  /\ conns' = conns \ {h}
  /\ EndTx(h)

-------------------------------------------------------------------------------
(* Handler steps *)

Receive(h, r) ==
  /\ pc[h] = "idle"
  /\ req' = [req EXCEPT ![h] = r]
  /\ IF r.amount <= 0
     THEN /\ Goto(h, "return")
          /\ err' = [err EXCEPT ![h] = "invalid amount"]
     ELSE Goto(h, "begin") /\ UNCHANGED err
  /\ UNCHANGED <<dbVars, lockVars, conns, txVars, acked>>

(* s.db.Begin waits for a free connection of the pool. *)
Begin(h) ==
  /\ pc[h] = "begin"
  /\ ConnFree
  /\ conns' = conns \union {h}
  /\ Goto(h, IF req[h].op = "deposit" THEN "topup" ELSE "select")
  /\ UNCHANGED <<dbVars, lockVars, req, err, txVars, acked>>

(* INSERT ... ON CONFLICT (user_id) DO UPDATE: both branches leave the sum *)
(* of the present balance (0 without a row) and the amount.                *)
TopUpAccount(h) ==
  /\ pc[h] = "topup"
  /\ RowFree(h)
  /\ LET new == balance[req[h].user] + req[h].amount IN
       \/ /\ new > MaxBigint
          /\ Return(h, "other")
       \/ /\ new <= MaxBigint
          /\ LockRow(h)
          /\ newBalance' = [newBalance EXCEPT ![h] = new]
          /\ Goto(h, "insert")
          /\ UNCHANGED <<keyLock, conns, err, newRows, newEvents>>
  /\ UNCHANGED <<dbVars, req, acked>>

(* SELECT ... FOR UPDATE: a row another transaction is inserting is not    *)
(* visible and is not waited for; a locked row is.                         *)
GetAccount(h) ==
  /\ pc[h] = "select"
  /\ \/ /\ req[h].user \notin accounts
        /\ Return(h, "repository.ErrAccountNotFound")
     \/ /\ req[h].user \in accounts
        /\ RowFree(h)
        /\ balance[req[h].user] < req[h].amount
        /\ Return(h, "services.ErrInsufficientFunds")
     \/ /\ req[h].user \in accounts
        /\ RowFree(h)
        /\ balance[req[h].user] >= req[h].amount
        /\ LockRow(h)
        /\ Goto(h, "debit")
        /\ UNCHANGED <<keyLock, conns, err, txVars>>
  /\ UNCHANGED <<dbVars, req, acked>>

WithdrawAccount(h) ==
  /\ pc[h] = "debit"
  /\ RowFree(h)
  /\ LockRow(h)
  /\ newBalance' = [newBalance EXCEPT ![h] = balance[req[h].user] - req[h].amount]
  /\ Goto(h, "insert")
  /\ UNCHANGED <<dbVars, keyLock, conns, req, err, newRows, newEvents, acked>>

(* Mutant: a conflict with an uncommitted key does not wait for its owner. *)
MutantInsertTransaction(h) ==
  /\ pc[h] = "insert"
  /\ IF Booked(req[h].key) \/ keyLock[req[h].key] # NoHandler
     THEN EndTx(h) /\ Goto(h, "rollback")
     ELSE /\ keyLock' = [keyLock EXCEPT ![req[h].key] = h]
          /\ newRows' = [newRows EXCEPT ![h] = {Row(req[h])}]
          /\ Goto(h, IF req[h].op = "deposit" THEN "outbox" ELSE "commit")
          /\ UNCHANGED <<rowLock, newBalance, newEvents>>
  /\ UNCHANGED <<dbVars, conns, req, err, acked>>

(* A unique violation aborts the transaction on the server at once; the    *)
(* connection stays with the handler until it rolls back.                  *)
InsertTransaction(h) ==
  /\ pc[h] = "insert"
  /\ KeyFree(h)
  /\ \/ /\ Booked(req[h].key)
        /\ EndTx(h)
        /\ Goto(h, "rollback")
     \/ /\ ~Booked(req[h].key)
        /\ keyLock' = [keyLock EXCEPT ![req[h].key] = h]
        /\ newRows' = [newRows EXCEPT ![h] = @ \union {Row(req[h])}]
        /\ Goto(h, IF req[h].op = "deposit" THEN "outbox" ELSE "commit")
        /\ UNCHANGED <<rowLock, newBalance, newEvents>>
  /\ UNCHANGED <<dbVars, conns, req, err, acked>>

(* Mutant: the payload names the transaction where the user belongs. *)
MutantInsertOutboxEvent(h) ==
  /\ pc[h] = "outbox"
  /\ newEvents' = [newEvents EXCEPT ![h] = {[Event(req[h]) EXCEPT !.user = req[h].key]}]
  /\ Goto(h, "commit")
  /\ UNCHANGED <<dbVars, lockVars, conns, req, err, newBalance, newRows, acked>>

InsertOutboxEvent(h) ==
  /\ pc[h] = "outbox"
  /\ newEvents' = [newEvents EXCEPT ![h] = @ \union {Event(req[h])}]
  /\ Goto(h, "commit")
  /\ UNCHANGED <<dbVars, lockVars, conns, req, err, newBalance, newRows, acked>>

(* The COMMIT takes effect; its reply arrives or is lost. *)
Commit(h) ==
  /\ pc[h] = "commit"
  /\ accounts' = accounts \union {req[h].user}
  /\ balance' = [balance EXCEPT ![req[h].user] = newBalance[h]]
  /\ transactions' = transactions \union newRows[h]
  /\ outbox' = outbox \union newEvents[h]
  /\ \E e \in {"nil", "other"} : Return(h, e)
  /\ UNCHANGED <<req, acked>>

(* Mutant: the key is looked up before the transaction is rolled back. *)
MutantRollbackConflict(h) ==
  /\ pc[h] = "rollback"
  /\ Goto(h, "find")
  /\ UNCHANGED <<dbVars, lockVars, conns, req, err, txVars, acked>>

(* handleIdempotencyError: roll back first ... *)
RollbackConflict(h) ==
  /\ pc[h] = "rollback"
  /\ conns' = conns \ {h}
  /\ EndTx(h)
  /\ Goto(h, "find")
  /\ UNCHANGED <<dbVars, req, err, acked>>

(* ... then look the key up on another connection of the pool, which is    *)
(* taken and given back within the step.                                   *)
FindByIdempotencyKey(h) ==
  /\ pc[h] = "find"
  /\ ConnFree
  /\ Return(h, IF Booked(req[h].key) THEN "nil"
               ELSE "repository.ErrTransactionNotFound")
  /\ UNCHANGED <<dbVars, req, acked>>

(* Any statement may fail; the deferred rollback follows. *)
StatementFails(h) ==
  /\ pc[h] \notin {"idle", "return"}
  /\ Return(h, "other")
  /\ UNCHANGED <<dbVars, req, acked>>

Answer(h) ==
  /\ pc[h] = "return"
  /\ acked' = IF StatusCode(req[h].op, err[h]) = "OK"
              THEN acked \union {req[h]} ELSE acked
  /\ Goto(h, "idle")
  /\ req' = [req EXCEPT ![h] = NoRequest]
  /\ err' = [err EXCEPT ![h] = "nil"]
  /\ UNCHANGED <<dbVars, lockVars, conns, txVars>>

-------------------------------------------------------------------------------
Init ==
  /\ accounts = {}
  /\ balance = [u \in Users |-> 0]
  /\ transactions = {}
  /\ outbox = {}
  /\ rowLock = [u \in Users |-> NoHandler]
  /\ keyLock = [k \in Keys |-> NoHandler]
  /\ conns = {}
  /\ pc = [h \in Handlers |-> "idle"]
  /\ req = [h \in Handlers |-> NoRequest]
  /\ err = [h \in Handlers |-> "nil"]
  /\ newBalance = [h \in Handlers |-> 0]
  /\ newRows = [h \in Handlers |-> {}]
  /\ newEvents = [h \in Handlers |-> {}]
  /\ acked = {}

(* The steps a handler takes by itself once it has a request. *)
Progress(h) ==
  \/ Begin(h)
  \/ TopUpAccount(h)
  \/ GetAccount(h)
  \/ WithdrawAccount(h)
  \/ InsertTransaction(h)
  \/ InsertOutboxEvent(h)
  \/ Commit(h)
  \/ RollbackConflict(h)
  \/ FindByIdempotencyKey(h)
  \/ Answer(h)

Next ==
  \E h \in Handlers :
    \/ \E r \in Requests : Receive(h, r)
    \/ Progress(h)
    \/ StatementFails(h)

Spec == Init /\ [][Next]_vars

(* The pool and PostgreSQL hand out connections and locks in the order     *)
(* they are asked for, so a handler whose turn keeps coming gets it.       *)
Fairness == \A h \in Handlers : SF_vars(Progress(h))

FairSpec == Spec /\ Fairness

-------------------------------------------------------------------------------
(* Properties *)

Labels == {"idle", "begin", "topup", "select", "debit", "insert", "outbox",
           "commit", "rollback", "find", "return"}

(* Every variable has its type, and a handler that is not idle serves a    *)
(* request.                                                                *)
TypeOK ==
  /\ accounts \subseteq Users
  /\ balance \in [Users -> Int]
  /\ transactions \subseteq {Row(r) : r \in Requests}
  /\ outbox \subseteq {Event(r) : r \in Requests}
  /\ rowLock \in [Users -> Handlers \union {NoHandler}]
  /\ keyLock \in [Keys -> Handlers \union {NoHandler}]
  /\ conns \subseteq Handlers
  /\ pc \in [Handlers -> Labels]
  /\ req \in [Handlers -> Requests \union {NoRequest}]
  /\ err \in [Handlers -> Errors]
  /\ newBalance \in [Handlers -> Int]
  /\ newRows \in [Handlers -> SUBSET {Row(r) : r \in Requests}]
  /\ newEvents \in [Handlers -> SUBSET {Event(r) : r \in Requests}]
  /\ acked \subseteq Requests
  /\ \A h \in Handlers : pc[h] # "idle" => req[h] \in Requests

InTransaction(h) ==
  pc[h] \in {"topup", "select", "debit", "insert", "outbox", "commit", "rollback"}

(* No path through a call, however it ends, leaks a connection, a lock or  *)
(* an uncommitted write: outside its transaction a handler has none, also  *)
(* while it looks up the key of a conflict.                                *)
NothingLeaks ==
  \A h \in Handlers :
    IF InTransaction(h)
    THEN h \in conns
    ELSE /\ h \notin conns
         /\ \A u \in Users : rowLock[u] # h
         /\ \A k \in Keys : keyLock[k] # h
         /\ newRows[h] = {} /\ newEvents[h] = {}

(* No interleaving of withdrawals overdraws an account, and no deposit     *)
(* leaves the range of BIGINT.                                             *)
NoOverdraft == \A u \in Users : 0 <= balance[u] /\ balance[u] <= MaxBigint

(* transactions_idempotency_key_uniq: a key is booked at most once, also   *)
(* when calls with the same key run concurrently.                          *)
OneRowPerKey == \A t1, t2 \in transactions : t1.key = t2.key => t1 = t2

(* The balance is what the booked rows add up to: no update is lost, none  *)
(* is applied twice and none survives a rollback.                          *)
BalanceIsHistory ==
  LET Total(u, type) ==
        MapThenSumSet(LAMBDA t : t.amount,
                      {t \in transactions : t.user = u /\ t.type = type})
  IN \A u \in Users : balance[u] = Total(u, "deposit") - Total(u, "withdrawal")

(* Transactional outbox: an event is committed with each deposit and with  *)
(* nothing else.                                                           *)
EventPerDeposit ==
  outbox = {Event(r) : r \in {q \in Requests : q.op = "deposit" /\ Row(q) \in transactions}}

(* A request whose key no other request uses was booked when it is         *)
(* answered with success, however often it was sent and whatever failed in *)
(* between.  Of a request that shares its key only the key is booked.      *)
AckedIsBooked ==
  \A r \in acked :
    (\A q \in Requests : q.key = r.key => q = r) => Row(r) \in transactions

(* After a conflict the lookup of the key on another connection finds the  *)
(* row: the conflict is raised by a committed row, never by an open        *)
(* transaction that may still roll back.                                   *)
LookupNeverMisses ==
  \A h \in Handlers : pc[h] \in {"rollback", "find"} => Booked(req[h].key)

(* What a handler read is still true when it acts on it: the balance it    *)
(* checked covers the debit, and the balance it is about to commit differs *)
(* from the committed one by exactly its amount.                           *)
UncommittedBalanceFresh ==
  \A h \in Handlers :
    /\ pc[h] = "debit" => balance[req[h].user] >= req[h].amount
    /\ pc[h] \in {"insert", "outbox", "commit"} =>
         newBalance[h] = IF req[h].op = "deposit"
                         THEN balance[req[h].user] + req[h].amount
                         ELSE balance[req[h].user] - req[h].amount

(* The inductive invariant behind the properties above (BillingProofs), in *)
(* parts.  Where in its transaction a handler holds the row and the key:   *)
HoldsRow(h) == pc[h] \in {"debit", "insert", "outbox", "commit"}
HoldsKey(h) == pc[h] \in {"outbox", "commit"}

LocksInv(h) ==
  /\ HoldsRow(h) => rowLock[req[h].user] = h
  /\ HoldsKey(h) => keyLock[req[h].key] = h /\ ~Booked(req[h].key)

RequestInv(h) ==
  /\ pc[h] \notin {"idle", "return"} => req[h].amount > 0
  /\ pc[h] \in {"topup", "outbox"} => req[h].op = "deposit"
  /\ pc[h] \in {"select", "debit"} => req[h].op = "withdrawal"

WritesInv(h) ==
  /\ (HoldsRow(h) /\ req[h].op = "withdrawal") =>
       req[h].user \in accounts /\ req[h].amount <= balance[req[h].user]
  /\ pc[h] \in {"insert", "outbox", "commit"} =>
       /\ newBalance[h] = IF req[h].op = "deposit"
                          THEN balance[req[h].user] + req[h].amount
                          ELSE balance[req[h].user] - req[h].amount
       /\ newBalance[h] <= MaxBigint
  /\ newRows[h] = IF HoldsKey(h) THEN {Row(req[h])} ELSE {}
  /\ newEvents[h] = IF pc[h] = "commit" /\ req[h].op = "deposit"
                    THEN {Event(req[h])} ELSE {}

BookedInv(h) ==
  (pc[h] \in {"rollback", "find"} \/ (pc[h] = "return" /\ err[h] = "nil"))
    => Booked(req[h].key)

HandlerInv(h) == LocksInv(h) /\ RequestInv(h) /\ WritesInv(h) /\ BookedInv(h)

(* A handler that has locked a row or a key still owns it and acts on      *)
(* values that are current, what it has written is what it will commit,    *)
(* and it reports a conflict or a success only for a key that is booked.   *)
IInv ==
  /\ TypeOK
  /\ NoOverdraft
  /\ OneRowPerKey
  /\ EventPerDeposit
  /\ \A r \in acked : Booked(r.key)
  /\ \A h \in Handlers : HandlerInv(h)

(* h waits for what g holds: a connection of the pool when there is none   *)
(* left, the row of the account, or the key.                               *)
WaitsFor(h, g) ==
  /\ g # h
  /\ \/ pc[h] \in {"begin", "find"} /\ ~ConnFree /\ g \in conns
     \/ pc[h] \in {"topup", "debit"} /\ rowLock[req[h].user] = g
     \/ pc[h] = "select" /\ req[h].user \in accounts /\ rowLock[req[h].user] = g
     \/ pc[h] = "insert" /\ keyLock[req[h].key] = g

(* The order in which a call takes connection, row and key.                *)
Rank(h) ==
  CASE pc[h] \in {"begin", "find"} -> 0
    [] pc[h] \in {"topup", "select"} -> 1
    [] pc[h] \in {"debit", "insert"} -> 2
    [] OTHER -> 3

(* Whoever waits waits for a call that is further on: no handlers ever     *)
(* wait for each other in a circle, neither for locks nor for the pool,    *)
(* and no chain of waits is longer than the order of the resources.        *)
NoCircularWait ==
  \A g, h \in Handlers : WaitsFor(h, g) => Rank(h) < Rank(g)

(* So, as long as a call is in progress, one of them waits for nobody.     *)
NoDeadlock ==
  (\E h \in Handlers : pc[h] # "idle") =>
    \E h \in Handlers : pc[h] # "idle" /\ \A g \in Handlers : ~WaitsFor(h, g)

(* No call hangs: handlers never wait for each other in a circle, neither  *)
(* for locks nor for connections of the pool.                              *)
EveryCallAnswered == \A h \in Handlers : pc[h] # "idle" ~> pc[h] = "idle"

(* The handlers implement the atomic ledger of module Ledger. *)
L == INSTANCE Ledger
       WITH Users <- Users, Keys <- Keys, Requests <- Requests, MaxBigint <- MaxBigint,
            accounts <- accounts, balance <- balance, transactions <- transactions,
            outbox <- outbox, acked <- acked
LedgerSpec == L!Spec

(* requests.http says that a deposit creates the account or adds money.    *)
DepositCreatesAccount ==
  \A r \in acked : r.op = "deposit" => r.user \in accounts

(* Withdraw (billing/grpc_handler.go) answers NotFound when the account    *)
(* does not exist.                                                         *)
MissingAccountIsNotFound ==
  \A h \in Handlers :
    (pc[h] = "return" /\ err[h] = "repository.ErrAccountNotFound")
      => StatusCode(req[h].op, err[h]) = "NotFound"

===============================================================================
