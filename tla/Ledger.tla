-------------------------------- MODULE Ledger --------------------------------
(***************************************************************************)
(* What the billing service promises, with concurrency, locks, connections *)
(* and lost replies taken away: a ledger that books each idempotency key   *)
(* at most once, moves the balance in the same step as it writes the row,  *)
(* publishes an event for a deposit and for nothing else, and acknowledges *)
(* a request only once its key is booked.  Module Billing implements it.   *)
(***************************************************************************)
EXTENDS Integers

CONSTANTS
  Users,      \* account owners: accounts.user_id is UNIQUE, one account each
  Keys,       \* idempotency keys
  Requests,   \* the calls the clients may make, any number of times each
              \* (see BillingAssumption)
  MaxBigint   \* the largest value of a BIGINT column

Ops == {"deposit", "withdrawal"}

VARIABLES
  accounts,      \* users that have a row in table accounts
  balance,       \* accounts.balance, 0 while there is no row
  transactions,  \* rows of table transactions
  outbox,        \* AccountToppedUp rows of table outbox_events
  acked          \* requests answered with success

ledgerVars == <<accounts, balance, transactions, outbox, acked>>

(* The row of table transactions a request leaves behind. *)
Row(r) == [key |-> r.key, user |-> r.user, amount |-> r.amount, type |-> r.op]

(* Its outbox event.  The BIGSERIAL id of the event is represented by the  *)
(* key of the transaction row written in the same database transaction.    *)
Event(r) == [key |-> r.key, user |-> r.user, amount |-> r.amount]

Booked(k) == \E t \in transactions : t.key = k

Init ==
  /\ accounts = {}
  /\ balance = [u \in Users |-> 0]
  /\ transactions = {}
  /\ outbox = {}
  /\ acked = {}

Deposit(r) ==
  /\ r.op = "deposit"
  /\ r.amount > 0
  /\ ~Booked(r.key)
  /\ balance[r.user] + r.amount <= MaxBigint
  /\ accounts' = accounts \union {r.user}
  /\ balance' = [balance EXCEPT ![r.user] = @ + r.amount]
  /\ transactions' = transactions \union {Row(r)}
  /\ outbox' = outbox \union {Event(r)}
  /\ UNCHANGED acked

Withdraw(r) ==
  /\ r.op = "withdrawal"
  /\ r.amount > 0
  /\ ~Booked(r.key)
  /\ r.user \in accounts
  /\ r.amount <= balance[r.user]
  /\ balance' = [balance EXCEPT ![r.user] = @ - r.amount]
  /\ transactions' = transactions \union {Row(r)}
  /\ UNCHANGED <<accounts, outbox, acked>>

(* A first success or the success of a replay: the answer depends on the   *)
(* key alone.                                                              *)
Acknowledge(r) ==
  /\ Booked(r.key)
  /\ acked' = acked \union {r}
  /\ UNCHANGED <<accounts, balance, transactions, outbox>>

Next == \E r \in Requests : Deposit(r) \/ Withdraw(r) \/ Acknowledge(r)

Spec == Init /\ [][Next]_ledgerVars
===============================================================================
