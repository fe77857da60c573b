# Verification of microservices-go

TLA+ models of the services in this repository, checked with TLC, and proofs
about them, checked with TLAPS. The models are translated from the Go source;
`PROJECT.json` names, for every definition, the lines it stands for.

## The system

Four Go services talk over gRPC and RabbitMQ; billing, auth and notification
each have their own PostgreSQL database.

| component | code | state | operations |
|---|---|---|---|
| gateway | `gateway/` | circuit breaker counters per backend, request counters in Redis | HTTP to gRPC, JWT check, rate limit |
| billing | `billing/` | `accounts`, `transactions`, `outbox_events` | `Deposit`, `Withdraw` |
| outbox worker | `pkg/outbox/`, `pkg/broker/` | status and locks of `outbox_events`, the batch in memory | poll, publish, mark; runs in billing and in auth |
| notification | `notification/` | `processed_events` (the inbox), the queue, messages in hand | consume, record, email, settle |
| auth | `auth/` | users, roles, refresh tokens, token cache | register, login, refresh, revoke, user lookup, token cleanup |

How they interact: the gateway calls billing and auth over gRPC through a
circuit breaker. A deposit writes its business rows and an outbox event in one
database transaction. An outbox worker later publishes the event to a topic
exchange, with the event's row id as message id. The notification service takes
it from its queue, records the id in its inbox table, asks auth for the address
of the user over gRPC, sends the email, commits the inbox row and acknowledges.

What makes each part hard, and what it has to guarantee:

* **billing**: concurrent calls on one account and on one idempotency key,
  PostgreSQL at READ COMMITTED, statements that fail anywhere, a COMMIT whose
  reply is lost, a bounded connection pool. A committed balance must be between
  zero and the largest BIGINT (`NoOverdraft`: withdrawals are refused beyond the one,
  deposits fail beyond the other) and what the booked rows add up to; a key is
  booked once; the outbox has an event for each deposit that is booked and for
  nothing else, no withdrawal, conflict or rollback (`EventPerDeposit`); a success
  means that the key is booked, and the request too if no other uses its key; no
  call hangs.
* **outbox**: several workers, failures between publishing and marking. Nothing
  uncommitted is announced, nothing is marked that was not published, events are
  repeated only because of a failure, none is forgotten.
* **notification**: repeated deliveries, concurrent consumers, lost connections,
  an email that cannot be taken back. No event lost, bounded repetition, events that
  always fail must not stop the rest, and an email for an event that the inbox has
  only from a consumer whose open transaction the database has dropped.
* **pipeline**: two services and the consumer start, stop and lose their
  connections in any order. A committed event must reach its email, and failures
  on the way must not multiply emails.
* **auth**: rotation, revocation and cleanup of refresh tokens run concurrently
  under row locks. A session has one live token, a token is consumed once, a
  revocation covers what was there when it began, no call hangs.
* **gateway, breaker**: late answers meet a breaker that has changed its state.
  One probe at a time, no trip without five faults, a status that does not say more
  than was done, and recovery.
* **gateway, rate limiter**: a counter and its expiry set by two Redis commands.
  The limit holds for a window, and no client is refused for ever unless a loss
  has left its key without a time to live.

`PROJECT.json` lists the hazards one by one with their lines.

## Modules

| module | models |
|---|---|
| `Ledger` | what billing promises: an atomic ledger with idempotency keys |
| `Billing` | handlers, pool, statements, locks, conflicts, failures; implements `Ledger` |
| `EventLog` | what an outbox promises: events are sent when committed, marked when sent, repeated for failures only |
| `Outbox` | workers of `pkg/outbox`; implements `EventLog` |
| `Notification` | broker queue, consumers, inbox, emails |
| `Announcement` | what the services promise together: emails for committed events, bounded repetition |
| `EventPipeline` | `EventLog`, the services' connections and exchanges, and `Notification` composed; implements `Announcement` |
| `TokenStore` | what auth promises about refresh tokens: whole operations on the committed rows |
| `AuthTokens` | login, rotation, revocation, expiry and cleanup as statements with row locks; implements `TokenStore` |
| `Gateway` | token check, circuit breaker, gRPC call, HTTP status |
| `RateLimiter` | the counters in Redis |

Each of `Billing`, `Outbox`, `Notification`, `EventPipeline`, `AuthTokens`, `Gateway`
and `RateLimiter` has a module `...Proofs` beside it; `AmountSums` has the facts about
sums over sets that `BillingProofs` needs. The modules `MC...` define instances for
TLC; `Outbox` needs none.

### Ledger and Billing

`Ledger` has the tables and three atomic actions: `Deposit`, `Withdraw`,
`Acknowledge`. `Billing` splits each call into the statements the code sends:

```
Receive -> Begin -> TopUpAccount --------------> InsertTransaction -> InsertOutboxEvent -> Commit -> Answer
                 -> GetAccount -> WithdrawAccount -> InsertTransaction -> Commit -> Answer
InsertTransaction (conflict) -> RollbackConflict -> FindByIdempotencyKey -> Answer
```

`StatementFails` stands for a failure at any of them. Correspondence of state:

* `accounts`, `balance`, `transactions`, `outbox`: committed rows. A row of
  `transactions` is a record of key, user, amount and type. The id of an outbox
  event is represented by the key of the transaction row written with it.
* `newBalance`, `newRows`, `newEvents`: what an open transaction has written.
* `rowLock[u]`: the transaction that holds the row of `u` in `accounts`, or has
  an uncommitted entry for `u` in its unique index. `TopUpAccount`
  (`ON CONFLICT DO UPDATE`) waits for either; `GetAccount` (`FOR UPDATE`) does
  not see a row that is being inserted and waits only for one that exists.
* `keyLock[k]`: the uncommitted entry of the unique index on the key. A second
  insert waits for it, then fails if the first transaction committed.
* `conns`: handlers that hold a connection. `FindByIdempotencyKey` borrows one
  within its step.
* `err` tells errors apart as `errors.Is` does. `ErrAccountNotFound` of package
  `repository` and of package `services` are two values.

The column `idempotency_key` and its constraint are not in the migrations of the
repository; the constraint's name in `InsertTransactionTx` and its use give its
meaning: unique over all rows. An absent key is the empty string. `AckedIsBooked` is
about requests with a key of their own: of one that shares its key, success
only says that the key is booked, by whichever request (a conjunct of `IInv`).

### Outbox

`InsertOutboxEvent` and `EndInsert` are the business transaction as far as the
table can see it: the id comes from the sequence at the INSERT, so ids commit in
any order and may be skipped. A worker runs `QueryOutboxEvents` (poll and row
locks, in one step), `PublishEvent` or `PublishFails` per event,
`MarkEventsAsProcessed`, `Commit`. `QueryBreaksOff` is a poll whose connection breaks
while rows are read: `rows.Err` is not asked, so the worker goes on with what it has.
`batch` is what it has not tried yet, `processed` is `processedIds`.
`DatabaseLost` releases the locks of a worker that goes on publishing;
`BatchFails` is a crash or a failed UPDATE or COMMIT. `sent` counts publishes that
returned nil. The channel has no publisher confirms and messages are not
mandatory, so the broker may have dropped such a message; that is the subject of
`EventPipeline`.

`EventLog` keeps `status`, `sent` and `failures` and forgets workers, batches, locks
and transactions. The mapping is the identity on these; a `Commit` of a worker is the
log's `Mark`, and every failure, whatever it hits, its `Fail`.

### Notification

`queue` is `notification.events`, `channel[c]` what the broker has pushed to a
consumer and not seen settled. RabbitMQ's part is external: order, prefetch
window, requeue at the head, requeue of everything when a connection breaks. A
consumer steps through `Receive`, `SaveProcessedMessage`, `GetUserById`,
`SendEmail`, `Commit` and `Ack`, `Reject` or `Requeue`. After `ConnectionLost` it finishes
the message it has, whose settlement then has no effect; `Crash` also ends its
database transaction; `Restart` declares everything anew. A consumer whose
connection broke handles at most the one message it had begun: deliveries that
the client library had buffered are taken to be dropped.

The inbox row is inserted before `GetUserById` and `SendEmail` and committed after them,
and neither uses the database. If PostgreSQL ends the session meanwhile
(`DatabaseLost`), the row and its lock are gone and the consumer, now in `dropped`,
goes on; only COMMIT tells it. Another consumer can take a second copy of the
event, send the email and record it in the meantime, and the first then sends a late
one. The properties say what is left: `OneHandlerPerEvent` is about consumers that
have their transaction, `LateEmailNeedsLostTransaction` allows no other late email, and
`EmailsNeedFailures` counts a late email against the failure that made it possible.

The path for a message without a MessageId is left out: `RabbitPublisher.Publish`
always sets it.

Table `processed_events` is not in the repository. The model assumes it unique on
the id together with the type of the event, because billing and auth number
their events independently. Were it unique on `event_id` alone, a deposit and a
registration with the same number would shadow each other.

Initially no consumer is connected; `Restart` is also the first start.

### EventPipeline

It extends `Notification` and adds what lies before the queue. The outboxes of
billing and auth are instances of `EventLog`, one log for both, as `Service(m)` tells
whose row an event is. `link[s]` is a service's process and connection: `down`,
`up`, `broken` (dead, and the process has not noticed) or `closed` (it has, and nothing
dials again: `amqp.Dial` is called once, in `main`). `exchanges` and `bound` are durable
state of the broker. `ServiceStarts` dials and declares the exchange; `Setup` is
`StartConsume` up to `Consume`, which binds exchange by exchange and gives up at the
first that does not exist. `PublishEvent` is `RabbitPublisher.Publish`: nil means that
the frame was written, so on a `broken` connection and for an exchange without a
binding the copy is counted in `lost`.

`Announcement` knows committed events, emails, recorded events and the failures of
the notification service. The mapping leaves those four and forgets the rest.

Simplifications: one instance of each service; a broker that keeps what it has
taken (queue durable, messages persistent; a broker that dies before it has
written them is not modelled); the workers' internals are those of `Outbox`, which
implements the log used here.

### AuthTokens

One row of `refresh_tokens` per token, numbered in the order of `GeneratePair`;
since all live equally long, `expired` says how many have passed `expires_at`.
`stored`, `revoked` and `successor` are the committed columns. A handler runs

```
Login   -> SaveRefresh
Refresh -> GetTokenForUpdate -> SaveRefreshTx -> MarkTokenAsConsumedTx -> CommitRotation
           GetTokenForUpdate (revoked token) -> ScanTokens -> RevokeToken ... -> CommitRevocation
```

An UPDATE over several rows is split as READ COMMITTED executes it: `ScanTokens` is
the snapshot, `RevokeToken` waits for each row's lock and evaluates the condition
again. `now` is the start of the transaction, which is what `NOW()` returns.
`DeleteExpiredTokens` skips locked rows. The statements and their locks are the
repository's; that a revoked token triggers a revocation, and the order of the
calls, belong to package `auth/services`, which the repository does not contain: they
follow from what the statements are for (`MarkTokenAsConsumedTx`, "due to security
breach"). An UPDATE comes to its rows in any order (`at` is the row it has come to):
it has no ORDER BY. The row of the token that was presented is locked before.

The columns `revoked`, `revoked_by` and `consumed_at` are in the statements but not in
the one migration of auth, as little as the tables of roles; what they mean is taken
from the statements.

`AwaitsRow(h, t)` says which row the next statement of a call has to lock,
`WaitsFor` who holds it, and `Deadlocked(S)` that the calls `S` wait for each other in
circles. `MaxExpired` bounds the passing of time, as `MaxToken` does the tokens.

`TokenStore` keeps the owner and session of every token ever stored, `stored`,
`revoked`, `successor` and `expired`, and forgets handlers, locks and transactions. A
`SaveRefresh` is the store's `Login`, a `CommitRotation` its `Rotate`, a
`CommitRevocation` its `Revoke` of the rows the UPDATE has changed; `Expire` and
`DeleteExpiredTokens` are the store's own, and every other statement stutters. What
the store promises: a token is revoked only together with the arrival of its
successor in the same session and for the same user, or in a revocation that a
replayed token of this user has caused.

### Gateway

One backend, its breaker and the goroutines that call it: auth and billing have a
breaker and a connection each and share nothing here, so `backend` is either of them,
chosen in `Init`, and a run checks both. `Receive` is the router
with `AuthMiddleware` and the decoding of the body; `Execute` the first half of
`cb.Execute`, `Serve` the gRPC method with its interceptor, `CallLost` everything
that loses the call or its answer, `Return` the second half of `cb.Execute` with the
answer. The library's breaker is external; `breaker.current` stands for its
generation number. `since` and `faults` are history. The package
`auth/services` is not in the repository: what login and refresh refuse is taken to be
its ErrInvalidInput, which `handleGrpcErr` maps to InvalidArgument.

`Answers` are the codes a method may return for a request, `Outcomes` what it has
then done, which `effect` keeps. OK need not mean that this request did anything:
billing also answers OK when the key is booked already, by whichever request (see
`billing_http`); so `effect` has three values, and a 2xx promises that the request
is `Settled`. `calm` is false during an outage, when any method may answer Internal,
with or without effect, and calls get lost. A backend that works fails too on requests that
are `Doomed`: a withdrawal without an account; one longer than gRPC receives
(ResourceExhausted, before the interceptor has seen it); and values it cannot
store, such as a deposit beyond BIGINT or a text with a null byte. All of these count
as failures for the breaker. DeadlineExceeded and Unimplemented are in `HttpStatus`,
but no call returns them: calls have no deadline, and both methods exist.

### RateLimiter

`Incr`, `Expire` and `Decide` are the three steps of the middleware, `IncrFails` and
`ExpireFails` their errors (which let the call go on), `Tick`, `RedisRestarts` what
Redis does by itself. The client is made with the defaults of go-redis, which repeats
a command up to three times when the network fails (`MaxRetries`; `tries` counts). A
repeated `Expire` does no harm, it sets the same time again. But after `IncrRepeated`
the key is one higher than the calls, and if the lost answer was that to the INCR
that made the key, the call sees 2 and sends no Expire.

`counted`, `admitted` and `unlimited` are history: which calls the present key has
counted and are still under way, how many of those it counted have gone through, and
whether the key was made to live for ever by a loss: of an Expire, or of the answer
to the INCR that made it. `KeysExpire` says that nothing else has that result, and
`BlockedIsReleased` that all other keys go. Calls that straddle the end of their
key, by expiry or restart, are exempt from `LimitHolds`: they go by a count of the
window before.

## Runs

| run | what it shows | bounds |
|---|---|---|
| `billing` | all safety properties, the inductive invariant, and that `Billing` implements `Ledger` | 3 handlers, pool of 2, 2 users, 3 keys, 6 calls each made any number of times, `MaxBigint` 3 |
| `billing_live` | no call hangs | 3 handlers, pool of 2, 3 calls |
| `billing_http` | finding: calls without a key | 2 handlers, the calls of `requests.http` by 2 users |
| `billing_not_found` | finding: missing account | 2 handlers |
| `outbox` | safety of the workers, the inductive invariant, that `Outbox` implements `EventLog`, and that no event is left behind | 2 workers, 3 ids, batches of 2, 2 failures |
| `notification` | safety of the consumers, the inductive invariant, and that a good event passes one that always fails | 2 consumers, 3 events published twice, prefetch 2, 1 failure |
| `notification_dlq` | finding: dead letters | 2 consumers, no failure needed |
| `event_pipeline` | nothing marked is forgotten, the inductive invariant, that the whole implements `Announcement`, and that events arrive | a deposit and a registration, 1 consumer, prefetch 1, 2 failures of services or connections, 1 of the notification service |
| `auth_tokens` | safety of rotation, revocation and cleanup, the inductive invariant, that every step is one of `TokenStore`, who can wait in a circle, and that no call hangs | 2 users, 2 handlers, 4 tokens of which 1 or 3 are made at the start, 2 that expire |
| `gateway` | safety of breaker and statuses, the inductive invariant, and recovery | 2 goroutines, 8 requests of 2 users of whom one has an account, either backend, any number of outages |
| `rate_limiter` | the limit, expiry, the inductive invariant, and release of those refused | 2 calls, 2 connections, limit 2, window 2, each command repeated at most once |
| `rate_limiter_ip` | finding: the limit is not one of an IP address | 1 call at a time, 2 connections |

Why these bounds are enough to be interesting. `billing`: with `MaxBigint` 3 and
amounts of 1 and 2 there are refused top-ups, covered and uncovered withdrawals;
one key is shared by two users, another by a deposit, a withdrawal and a negative
amount, and the third is used by one request only, however often it is sent; three
handlers and two connections allow a lock holder, a waiter and a handler that
waits for a connection. `outbox`: the backlog exceeds the batch, and two failures
allow a repetition of a repetition. `notification`: two copies and a failure
give a duplicate beside a redelivery; a deposit and a registration share an id;
one event is good, one fatal and one fails every time, and the window has room for
two. The one failure can be a dropped transaction, after which the other consumer
takes the second copy. `event_pipeline`: two failures let a service die, come back and lose its
connection, and `MaxCopies` is what they can cost. `auth_tokens`: a circle of two
revocations needs two tokens that were revoked before and two that are not, hence
four. So that TLC gets there, `MCInit` of `MCAuthTokens` begins in states that `Init`
leads to: the first login has failed, which leaves three tokens for rotations of
rotations and two sessions, or one user has two sessions of which one was rotated,
which leaves one. Behaviours from these states are suffixes of those of `Spec`;
`WholeOperations` therefore speaks of steps, and `TokenStoreSpec`, which also speaks of
the start, is proved. `gateway`: five faults need no more than one
goroutine after another; the second one has the late answers. `rate_limiter`: a
limit of 2 tells the call that makes the key, one within the limit and one beyond;
one repeat is enough to hide from the call that it has made the key.

In each run `IInv` (`PipelineIInv`) is the inductive invariant. Its first conjunct is
the type invariant, so that one is not listed by itself; nor are most properties that
it, or a refinement checked in the same run, implies and that are proved below
(`SentIsCommitted`, `ProcessedWasSent`, `LookupNeverMisses`, `UncommittedBalanceFresh`,
`OneRowPerKey`, `HeldTokenStaysValid`, `ProcessedWasEmailed`, `NoDeadlock`). Conjuncts of
it that are listed (`NoOverdraft`, `EventPerDeposit`, `NothingLost`, `KeysExpire` and others)
are so for what they say, and each has a mutant of its own.

Every property of a passing run is violated by a mutant of the code, listed in
`PROJECT.json`: a lock that is not taken, a unique index that is not there, a
commit before the email, and so on.

Deadlock is checked for `billing`, `gateway` and `rate_limiter`. In the other modules a
bounded supply of events or tokens ends, so the system may stop.

### Fairness

* `Billing`: strong fairness of each handler's next step. A handler waits for
  connections and locks that others take and release; pgxpool and PostgreSQL
  serve waiters in turn. Failures are never forced.
* `Outbox`: weak fairness of each worker's loop (ticker). Failures are bounded and
  may hit any publish: `EveryEventProcessed` says nothing of an event whose
  publication fails each time.
* `Notification`: weak fairness of a consumer's loop and of its restart, strong
  fairness of the insert that waits for another transaction, and `[]<>AllPushed`:
  again and again the broker has pushed all that the windows allow. Without the
  last assumption a requeued message could overtake the rest for ever. With a
  prefetch of 1 and one consumer the property fails: one event that always fails
  (a deposit for a user auth does not know) then stops the queue. With the
  code's prefetch of 10 it takes ten.
* `EventPipeline`: as in these two modules, and weak fairness of the start of a
  stopped process and of the discovery of a dead connection (heartbeats). Nobody
  restarts a process that runs, so a closed connection may stay closed.
* `AuthTokens`: strong fairness of each handler's next step, as for `Billing`, and
  weak fairness of the failure of a call that waits in a circle: PostgreSQL detects
  deadlocks and aborts one of the transactions. Without it `EveryCallEnds` is false.
  Where the bound on tokens would stop a rotation for good, the call fails instead.
* `Gateway`: weak fairness of the clock and of the goroutines, and strong fairness
  of a request that is not turned away at the door: clients keep calling.
  Recovery assumes that a backend that works answers: the calls have no deadline. A
  backend that hangs keeps the slot of a half-open breaker for ever; the code does
  not prevent it and no property says otherwise.
* `RateLimiter`: weak fairness of the clock and of the calls. Failures are not
  forced, nor are they excluded.

### Findings

* `billing_http`: `requests.http` sends deposits without a key. The first is
  booked under the empty key; every later one, of any user, conflicts with it, is
  rolled back and answered with success. (As they stand these calls also lack the
  token the gateway asks for; what is shown holds for calls with a token and
  without a key.)
* `billing_not_found`: the handler compares with `services.ErrAccountNotFound`
  but the repository returns its own `ErrAccountNotFound`: Internal instead of
  NotFound (and Internal counts as a failure for the gateway's breaker).
* `notification_dlq`: the queue's dead letter exchange `notification.dlx` is
  never declared, and the dead letter queue is bound elsewhere, with an empty
  key: rejected messages disappear.
* `rate_limiter_ip`: `r.RemoteAddr` is IP and port, so each connection has a
  counter of its own, although variable and key say `ip`.

Further behaviour that the models show and that no run is about:

* A backend that works can be taken for one that fails. Five calls in a row that are
  `Doomed`, such as withdrawals of a user without an account (see
  `billing_not_found`) or deposits beyond BIGINT, open the breaker for everybody.
  The premise of `Recovers` is therefore that outages and such requests end.
* An INCR that is executed, not answered and sent again leaves a key that lives for
  ever, as a lost Expire does; the connection is refused for good once it has
  made its calls. `KeysExpire` and `BlockedIsReleased` except exactly these keys.
* A transaction of the consumer that PostgreSQL drops before the email is sent allows a
  second email, even one for an event that is recorded by then.
* A call that a half-open breaker refuses gets `ErrTooManyRequests`, which the
  handlers do not know: the status is 500, while an open breaker gives 503.
* A rotation that commits while all tokens of the user are being revoked leaves a
  session alive: the UPDATE does not see the row that is not committed. What is
  guaranteed is `RevocationCoversSeen`.
* Two revocations of one user can wait for each other, simply because each UPDATE
  takes the rows in an order of its own, or because one has locked, with the token
  it was shown, a row that the other has still to change. PostgreSQL fails one of
  the two, and its revocation is not done. `CirclesAreReplays` says that nothing
  else waits in a circle: every call in one was shown a revoked token.
* Events published before the consumer's first set-up are marked and lost, and
  events of a service whose connection has closed stay PENDING until somebody
  restarts it. `MarkedIsCarried` and `EveryEventNotified` except exactly these.

## Proofs

`BillingProofs` proves, for all sets of users, keys, calls and handlers, every pool
size and every `MaxBigint`:

* `TypeCorrect`; `NothingLeaksCorrect`, by the same split into the handler that
  moves and the others, which it leaves untouched;
* `Invariance`: `IInv` holds in every reachable state;
* `NoOverdraftCorrect`, `OneRowPerKeyCorrect`, `EventPerDepositCorrect`,
  `AckedIsBookedCorrect`, `LookupNeverMissesCorrect`,
  `UncommittedBalanceFreshCorrect`;
* `BalanceIsHistoryCorrect`: every balance is the sum of the booked rows;
* `NoCircularWaitCorrect` and `NoDeadlockCorrect`: waits never form a circle, so one
  call in progress waits for nobody;
* `DepositCreatesAccountWithKeys`: what the finding `billing_http` refutes holds if
  every request has a key of its own;
* `ImplementsLedger`: every behaviour of `Billing` is one of `Ledger`.

The only assumption is `BillingAssumption`: what a call
consists of, and that the names for "nobody" and "no request" are none of the
handlers and calls. `DepositCreatesAccountWithKeys` adds that no two requests share a
key.

The argument. The safety properties are not inductive: that a commit keeps
`0 <= balance` depends on a check made several steps before. `IInv` says, for each handler, what
its program counter means: from its first write on it owns the lock of the row
(`LocksInv`), the balance it will write differs from the committed one by its
amount (`WritesInv`), a key it has inserted is locked by it and not booked, and a
conflict or a success means that the key is booked (`BookedInv`). The proof splits a
step in two. What the handler does to itself is one lemma per action. What it does
to the others is nothing they rely on: `Frame(g)` collects what a handler relies on,
each action is shown to keep it for all other handlers, and `FrameKeeps` derives
their part of the invariant. Only `Commit` changes tables and only `Answer`
changes `acked`, so the database part has a lemma for these two. In the
refinement `Commit` is the ledger's `Deposit` or `Withdraw`, an `Answer` with success is
`Acknowledge`, and every other step stutters.

Sums. `BalanceIsHistory` sums amounts with `MapThenSumSet`, which folds over a set by
choosing a function defined by recursion. `AmountSums` proves by induction over subsets
(`SubsetInduction`, from the well-founded order of finite sets) that such a function
exists and is unique, hence what adding and removing one element does to a sum
(`AmountSumAdd`, `AmountSumRemove`). With that, a commit adds one row and its amount.

Waits. A call takes a connection, then the row, then the key (`Rank`). Who holds a
resource is further on than who waits for it (`WaitsAscend`): a handler that needs a
connection holds nothing (`NothingLeaks`), which is where a rollback after the lookup would
fail. `NoDeadlock` says that a call waits for nobody; that its next step is then enabled
is what the run `billing_live` checks.

`OutboxProofs` proves, for all sets of workers, every `BatchLimit`, `MaxId` and
`MaxFailures`, from `OutboxAssumption` (they are what their names say):

* `OutboxTypeCorrect`; `OutboxInvariance`: `IInv` of `Outbox` holds in every
  reachable state;
* `SentIsCommittedCorrect`, `ProcessedWasSentCorrect`, `BatchesDisjointCorrect`,
  `DuplicatesNeedFailuresCorrect`.

The argument. `LocksInv` and `WorkerInv` tie what a worker has in hand to the row
locks, as long as its transaction lives. That alone does not bound repetitions,
because a worker goes on publishing after its transaction is gone. `BudgetInv` counts,
for each event, the publishes made, the workers that are still to publish it, and
one more if it can be polled again before it is marked: together at most one more
than the failures so far. Only a failure makes an event that is in hand available
again, which is the case distinction of `BudgetKept`; a poll turns availability
into an attempt (`QueryBudget`), a publish an attempt into a send (`PublishBudget`).

`NotificationProofs` proves, for all sets of events and consumers and every
`Prefetch`, `MaxCopies` and `MaxFailures`, from `NotificationAssumption` (events are
numbered uniquely per type):

* `NotificationTypeCorrect`; `NotificationInvariance`: `IInv` of `Notification` holds
  in every reachable state;
* `LateEmailNeedsLostTransactionCorrect`, `EmailsNeedFailuresCorrect`,
  `ProcessedWasEmailedCorrect`, `OneHandlerPerEventCorrect`, `NothingLostCorrect`.

The argument. As long as it has its transaction, a consumer past the insert owns the
inbox entry of its event, and the event is not recorded: so no other consumer works on
it in a transaction, and an email for a recorded event is that of a consumer in
`dropped`. The emails of an event, with those that consumers in `dropped` are still to
send for it (`Late`), are at most the failures so far, plus one if the event is `Covered`:
recorded, or mailed by a consumer that is about to commit and can. A consumer with its
transaction that sends an email finds the event not covered; one that loses its
transaction pays with that failure for the email that is late, or for the one that
no longer covers its event. Types need one fact more, `MsgInv`: a connected consumer
handles the first message of its channel, so that it settles that one.

`NothingLost` adds `SettledWell`: a consumer is about to acknowledge or reject only what
is recorded, ignored or fatal. A step then either keeps every message with the
broker, or settles one well (`KeepStep`); the lemmas on `ToSet` say what append, tail
and concatenation do to the messages of a sequence.

`OutboxImplementsEventLog` follows from the same invariant: an event that a worker
publishes is committed and, by `BudgetInv`, affordable (`AttemptAffordable`), and what a
worker commits was published.

`EventPipelineProofs`, from `PipelineAssumption` (the copies the queue can get are one
and one for each failure) and `NotificationAssumption`:

* `PipelineRunsNotification`: every behaviour of the pipeline is one of `Notification`,
  so all that is proved there holds here;
* `PipelineRunsEventLog`: the outboxes in the pipeline behave as `EventLog` says, which the
  workers of `Outbox` implement;
* `PipelineTypeCorrect`, `PipelineInvariance`, `MarkedIsCarriedCorrect`;
* `PipelineImplementsAnnouncement`;
* `EndToEndCorrect`: what all this comes to for the receiver, in one invariant.

The argument. The bound `MaxCopies` of `Notification` must not hide a publish, so the
invariant counts: `sent = published + lost`, and at most one more than the failures.
A marked event was sent; its copies are lost or were published, and the latter are
in the inbox or with the broker by `NothingLost`. For the refinement the
consumers must deal with published events only (`Known`), so that an email is for a
committed one. `EndToEnd` then needs no induction of its own: an email's event is
committed by the refinement, repetitions are bounded by `EmailsNeedFailures`, and a
marked event is recorded or still with the broker by `MarkedIsCarried`, unless a copy
of it was lost; recorded means emailed by `ProcessedWasEmailed`.

`AuthTokensProofs` proves, for all users, handlers, `Limit`, `MaxToken` and `MaxExpired`,
from `AuthAssumption` (they are what their names say):

* `AuthTypeCorrect`, `AuthInvariance`;
* `OneLivePerSessionCorrect`, `HeldTokenStaysValidCorrect`,
  `RevocationCoversSeenCorrect`, `ConsumedOnceCorrect`;
* `CirclesAreReplaysCorrect`: who can wait in a circle;
* `WholeOperationsCorrect`, `AuthImplementsTokenStore`: the refinement of `TokenStore`.

The argument: from `GetTokenForUpdate` on a rotation owns the row of a token that is
live; revocation waits for that lock and cleanup skips it, so the token is still live
at the COMMIT, which replaces it by its successor. Hence a session is a chain with one
live end. A revocation has, for every row it has seen, changed it, or has it before
it, or need not change it.

Circles. Who waits in a circle also holds a row, so it is past its first statement. A
rotation then waits for nothing, since the only row it still has to lock is one it
holds; so all of them revoke (`CircleRevokes`). A revocation begins with a token that
was revoked when its row was locked, and what is revoked remains so (`ReplayInv`); a
token that is only expired ends the call at `GetTokenForUpdate`. Nothing is said
about the order of rows.

Refinement. The rows alone do not show whose successor a token is, or why tokens are
revoked: `OwnerInv` says that a token belongs to the user of its login also before it is
stored, and `RevokeInv` that the rows a revocation has changed are live until it commits
and belong to the user of the token it was shown. The latter rests on the row
locks: what others do to the rows leaves alone those that are locked (`Beside`).

`GatewayProofs`, for all users, requests and goroutines: `GatewayTypeCorrect`,
`GatewayInvariance`, `OneProbeCorrect`, `TripsWarrantedCorrect`, `StatusIsTrueCorrect`. The
argument: from `Serve` on the outcome of a call agrees with what its method did
(`CallInv`), except for outcomes that leave it open (`Uncertain`), which `HttpStatus` maps to
5xx; only calls of the present generation are counted, in half-open state
there is one of them at most, and in closed state each counted failure is a fault of
a call in `since`. `OneProbe` also says that a slot that is taken belongs to a call under
way: a half-open breaker refuses calls only while one that will decide is under way.

`RateLimiterProofs`, for every `Limit`, `Window`, set of calls and of connections:
`RateLimiterTypeCorrect`, `RateLimiterInvariance`, `LimitHoldsCorrect`,
`KeysExpireCorrect`. The argument: calls let through and calls that hold a value within
the limit are together at most the counter, which repeats only increase, and at most
`Limit`. A key without a time to live has a call before its `Expire`, or is in
`unlimited`, where a repeat of the INCR that made it has put it.

Only model-checked: the liveness properties, which rest on fairness and `ENABLED`. Every
invariant, every property of steps and every refinement that a passing run checks is
proved.

## Not modelled

* Registration. `RegisterTx` is called from package `auth/services`, which is not in the
  repository, as are the transaction and the event around it. `EventPipeline` has the
  event of a registration as one that a transaction of auth inserts.
* The token cache in Redis, for the same reason: what a cached value means is
  decided by its callers. `RequireRoles` has no caller.
* Payloads. An amount goes through JSONB into a `float64` (`pkg/outbox/pg_repo.go:52`) and
  loses its last digits above 2^53. The models do not tell amounts of events apart.
* The composition of rate limiter, gateway and billing. The limiter decides before
  the router and shares no state with it; what the gateway concludes from a gRPC code
  is in `Gateway`, and what billing answers in `Billing`.
* Configuration, password hashing, wiring.

PostgreSQL, pgxpool, RabbitMQ, Redis, gobreaker and SMTP appear as the code relies on
them. Timeouts of calls and cancelled contexts are failures of the statement they
interrupt.

## Running

```
tlc -config Billing.cfg MCBilling
tlc -config Outbox.cfg Outbox
tlc -config Notification.cfg MCNotification
tlc -config EventPipeline.cfg MCEventPipeline
tlc -config AuthTokens.cfg MCAuthTokens
tlc -config Gateway.cfg MCGateway
tlc -config RateLimiter.cfg MCRateLimiter
tlapm AmountSums.tla
tlapm BillingProofs.tla
tlapm OutboxProofs.tla
tlapm NotificationProofs.tla
tlapm EventPipelineProofs.tla
tlapm AuthTokensProofs.tla
tlapm GatewayProofs.tla
tlapm RateLimiterProofs.tla
```
