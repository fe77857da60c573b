------------------------------ MODULE Notification ----------------------------
(***************************************************************************)
(* The notification service: consumers (notification/internal/worker)      *)
(* that take events from the queue notification.events, record each one in *)
(* the inbox table processed_events, send an email and acknowledge.        *)
(*                                                                         *)
(* The broker (external) keeps the queue in order, pushes to a consumer at *)
(* most Prefetch messages it has not settled, puts a message that is       *)
(* requeued back at the head, and requeues what a lost connection had in   *)
(* hand.  The same event may be in the queue more than once: the outbox    *)
(* publishes again after a failure.                                        *)
(***************************************************************************)
EXTENDS Integers, FiniteSets, Sequences, SequencesExt

CONSTANTS
  Messages,     \* events that may be published, as records [id, type, body]
  Consumers,    \* running instances of the service
  NoConsumer,   \* the owner of an inbox entry nobody is inserting
  NoMessage,    \* what a consumer that handles nothing has in hand
  Prefetch,     \* prefetch count, 10 in the code
  MaxCopies,    \* bound: times an event is published
  MaxFailures   \* bound: failures of statements, calls, consumers and connections

Types == {"AccountToppedUp", "AccountRegistered", "other"}

(* "unknown user": well formed, but the auth service has no such user. *)
Bodies == {"ok", "malformed", "unknown user"}

(* An id is given to one event of a type: the database that stores the     *)
(* events of the type hands it out once.                                   *)
ASSUME NotificationAssumption ==
  /\ IsFiniteSet(Consumers)
  /\ Messages \subseteq [id : Nat, type : Types, body : Bodies]
  /\ \A m, n \in Messages : m.id = n.id /\ m.type = n.type => m = n
  /\ NoConsumer \notin Consumers
  /\ NoMessage \notin Messages
  /\ Prefetch \in Nat \ {0}
  /\ MaxCopies \in Nat
  /\ MaxFailures \in Nat

VARIABLES
  (* broker *)
  queue,      \* messages ready in notification.events
  dlq,        \* messages in dlq.notification.events
  channel,    \* [Consumers -> Seq]: pushed to the consumer and not settled
  (* consumers *)
  connected,  \* the consumer's channel is open
  pc,         \* where in handleMessage it is
  msg,        \* the message it handles
  (* database of the notification service *)
  inbox,      \* committed rows of processed_events
  inboxLock,  \* [event -> consumer with an uncommitted row for it]
  dropped,    \* consumers whose open transaction is gone, unknown to them
  (* history *)
  published,  \* copies of an event published so far
  emails,     \* emails sent for an event
  failures    \* failures so far

brokerVars == <<queue, dlq, channel>>
inboxVars == <<inbox, inboxLock, dropped>>
history == <<published, emails, failures>>
vars == <<brokerVars, connected, pc, msg, inboxVars, history>>

(* What makes a row of processed_events unique (the table is external):    *)
(* the id of the event together with its type, since the auth and billing  *)
(* databases number their events independently.                            *)
InboxKey(m) == <<m.id, m.type>>
InboxKeys == {InboxKey(m) : m \in Messages}

(* Errors that handleMessage marks as ErrFatal: the body cannot be read.   *)
Fatal(m) == m.body = "malformed" /\ m.type # "other"

Ignored(m) == m.type = "other"

(* An event that every attempt to handle fails on: only the deposit email  *)
(* looks the user up.                                                      *)
Poison(m) == m.type = "AccountToppedUp" /\ m.body = "unknown user"

CanFail == failures < MaxFailures
Fail == CanFail /\ failures' = failures + 1

-------------------------------------------------------------------------------
(* Broker *)

(* The outbox workers publish a message, or publish it again. *)
Publish(m) ==
  /\ published[m] < MaxCopies
  /\ published' = [published EXCEPT ![m] = @ + 1]
  /\ queue' = Append(queue, m)
  /\ UNCHANGED <<dlq, channel, connected, pc, msg, inboxVars, emails, failures>>

Deliver(c) ==
  /\ connected[c]
  /\ queue # <<>>
  /\ Len(channel[c]) < Prefetch
  /\ channel' = [channel EXCEPT ![c] = Append(@, Head(queue))]
  /\ queue' = Tail(queue)
  /\ UNCHANGED <<dlq, connected, pc, msg, inboxVars, history>>

(* The message a consumer handles is the first that is not settled. *)
Settle(c) == channel' = [channel EXCEPT ![c] = Tail(@)]

(* The queue's x-dead-letter-exchange is notification.dlx; the dead letter *)
(* keeps its routing key, the type of the event.  The one binding of       *)
(* dlq.notification.events is to dlx.events, with an empty key.            *)
DeadLetterBindings == {<<"dlx.events", "">>}

DeadLetter(m) ==
  dlq' = IF <<"notification.dlx", m.type>> \in DeadLetterBindings THEN dlq \union {m} ELSE dlq

(* A connection is lost: the broker requeues what the consumer has in hand.*)
RequeueAll(c) ==
  /\ queue' = channel[c] \o queue
  /\ channel' = [channel EXCEPT ![c] = <<>>]

-------------------------------------------------------------------------------
(* Consumer: handleMessage and the loop of StartConsume *)

Goto(c, label) == pc' = [pc EXCEPT ![c] = label]

(* The consumer's uncommitted row goes. *)
Unlock(c) ==
  inboxLock' = [k \in InboxKeys |-> IF inboxLock[k] = c THEN NoConsumer ELSE inboxLock[k]]

(* Mutant: handleMessage leaves its transaction open. *)
MutantRollback(c) == dropped' = dropped \ {c} /\ UNCHANGED inboxLock

(* The deferred rollback of handleMessage.  COMMIT ends the transaction in *)
(* the same way.                                                           *)
Rollback(c) == Unlock(c) /\ dropped' = dropped \ {c}

(* The loop goes on to its next message. *)
Done(c) == Goto(c, "idle") /\ msg' = [msg EXCEPT ![c] = NoMessage]

(* The next message of the channel; the payload is read before the         *)
(* transaction begins.                                                     *)
Receive(c) ==
  /\ pc[c] = "idle"
  /\ connected[c]
  /\ channel[c] # <<>>
  /\ LET m == Head(channel[c]) IN
       /\ msg' = [msg EXCEPT ![c] = m]
       /\ Goto(c, CASE Ignored(m) -> "ack"
                    [] Fatal(m) -> "reject"
                    [] OTHER -> "save")
  /\ UNCHANGED <<brokerVars, connected, inboxVars, history>>

(* Mutant: processed_events has no unique key. *)
MutantSaveUnchecked(c) ==
  /\ pc[c] = "save"
  /\ inboxLock' = [inboxLock EXCEPT ![InboxKey(msg[c])] = c]
  /\ Goto(c, IF msg[c].type = "AccountToppedUp" THEN "user" ELSE "email")
  /\ UNCHANGED <<brokerVars, connected, msg, inbox, dropped, history>>

(* INSERT into processed_events waits for an uncommitted row with the same *)
(* key.  A duplicate is skipped, with success.                             *)
SaveProcessedMessage(c) ==
  /\ pc[c] = "save"
  /\ inboxLock[InboxKey(msg[c])] = NoConsumer
  /\ IF InboxKey(msg[c]) \in inbox
     THEN Goto(c, "ack") /\ UNCHANGED inboxLock
     ELSE /\ inboxLock' = [inboxLock EXCEPT ![InboxKey(msg[c])] = c]
          /\ Goto(c, IF msg[c].type = "AccountToppedUp" THEN "user" ELSE "email")
  /\ UNCHANGED <<brokerVars, connected, msg, inbox, dropped, history>>

(* The lookup and the email do not touch the database: they go on when the *)
(* transaction is gone.                                                    *)
GetUserById(c) ==
  /\ pc[c] = "user"
  /\ IF Poison(msg[c])
     THEN Rollback(c) /\ Goto(c, "requeue")
     ELSE Goto(c, "email") /\ UNCHANGED <<inboxLock, dropped>>
  /\ UNCHANGED <<brokerVars, connected, msg, inbox, history>>

SendEmail(c) ==
  /\ pc[c] = "email"
  /\ emails' = [emails EXCEPT ![msg[c]] = @ + 1]
  /\ Goto(c, "commit")
  /\ UNCHANGED <<brokerVars, connected, msg, inboxVars, published, failures>>

(* The email leaves, and the call reports an error all the same. *)
SendEmailFails(c) ==
  /\ pc[c] = "email"
  /\ Fail
  /\ emails' = [emails EXCEPT ![msg[c]] = @ + 1]
  /\ Rollback(c)
  /\ Goto(c, "requeue")
  /\ UNCHANGED <<brokerVars, connected, msg, inbox, published>>

(* Mutant: the transaction is never committed. *)
MutantCommit(c) ==
  /\ pc[c] = "commit"
  /\ Rollback(c)
  /\ Goto(c, "ack")
  /\ UNCHANGED <<brokerVars, connected, msg, inbox, history>>

(* Mutant: the error of COMMIT is not looked at. *)
MutantCommitBlind(c) ==
  /\ pc[c] = "commit"
  /\ inbox' = IF c \in dropped THEN inbox ELSE inbox \union {InboxKey(msg[c])}
  /\ Rollback(c)
  /\ Goto(c, "ack")
  /\ UNCHANGED <<brokerVars, connected, msg, history>>

(* Without its transaction COMMIT fails. *)
Commit(c) ==
  /\ pc[c] = "commit"
  /\ IF c \in dropped
     THEN Goto(c, "requeue") /\ UNCHANGED inbox
     ELSE Goto(c, "ack") /\ inbox' = inbox \union {InboxKey(msg[c])}
  /\ Rollback(c)
  /\ UNCHANGED <<brokerVars, connected, msg, history>>

(* The COMMIT takes effect but its reply is lost: handleMessage returns an *)
(* error.                                                                  *)
CommitReplyLost(c) ==
  /\ pc[c] = "commit"
  /\ c \notin dropped
  /\ Fail
  /\ inbox' = inbox \union {InboxKey(msg[c])}
  /\ Rollback(c)
  /\ Goto(c, "requeue")
  /\ UNCHANGED <<brokerVars, connected, msg, published, emails>>

(* BEGIN, a statement, the user lookup, the email or the COMMIT fails      *)
(* without effect.                                                         *)
StepFails(c) ==
  /\ pc[c] \in {"save", "user", "email", "commit"}
  /\ Fail
  /\ Rollback(c)
  /\ Goto(c, "requeue")
  /\ UNCHANGED <<brokerVars, connected, msg, inbox, published, emails>>

(* PostgreSQL ends the session of a consumer, by a restart or a broken     *)
(* connection, while the handler is busy elsewhere: the transaction and    *)
(* its uncommitted inbox row are gone, and only COMMIT will tell.          *)
DatabaseLost(c) ==
  /\ pc[c] \in {"user", "email", "commit"}
  /\ c \notin dropped
  /\ Fail
  /\ Unlock(c)
  /\ dropped' = dropped \union {c}
  /\ UNCHANGED <<brokerVars, connected, pc, msg, inbox, published, emails>>

(* msg.Ack.  On a connection that is gone it fails, which is only logged.  *)
Ack(c) ==
  /\ pc[c] = "ack"
  /\ IF connected[c] THEN Settle(c) ELSE UNCHANGED channel
  /\ Done(c)
  /\ UNCHANGED <<queue, dlq, connected, inboxVars, history>>

(* msg.Nack(false, false) after ErrFatal. *)
Reject(c) ==
  /\ pc[c] = "reject"
  /\ IF connected[c]
     THEN Settle(c) /\ DeadLetter(msg[c])
     ELSE UNCHANGED <<channel, dlq>>
  /\ Done(c)
  /\ UNCHANGED <<queue, connected, inboxVars, history>>

(* Mutant: every error is treated as fatal. *)
MutantRequeue(c) ==
  /\ pc[c] = "requeue"
  /\ IF connected[c] THEN Settle(c) ELSE UNCHANGED channel
  /\ Done(c)
  /\ UNCHANGED <<queue, dlq, connected, inboxVars, history>>

(* msg.Nack(false, true) after any other error. *)
Requeue(c) ==
  /\ pc[c] = "requeue"
  /\ IF connected[c]
     THEN Settle(c) /\ queue' = <<msg[c]>> \o queue
     ELSE UNCHANGED <<channel, queue>>
  /\ Done(c)
  /\ UNCHANGED <<dlq, connected, inboxVars, history>>

(* The connection to the broker breaks; the consumer goes on with the      *)
(* message it handles and sees its channel closed when it is done.         *)
ConnectionLost(c) ==
  /\ connected[c]
  /\ Fail
  /\ connected' = [connected EXCEPT ![c] = FALSE]
  /\ RequeueAll(c)
  /\ UNCHANGED <<dlq, pc, msg, inboxVars, published, emails>>

(* The process dies at any point: its transaction and connection go.       *)
Crash(c) ==
  /\ connected[c]
  /\ Fail
  /\ connected' = [connected EXCEPT ![c] = FALSE]
  /\ RequeueAll(c)
  /\ Rollback(c)
  /\ Done(c)
  /\ UNCHANGED <<dlq, inbox, published, emails>>

(* StartConsume sets up its channel, when the process is first started and *)
(* again after "rabbit channel closed", when StartConsume returned and     *)
(* main exited.                                                            *)
Restart(c) ==
  /\ ~connected[c]
  /\ pc[c] = "idle"
  /\ connected' = [connected EXCEPT ![c] = TRUE]
  /\ UNCHANGED <<brokerVars, pc, msg, inboxVars, history>>

-------------------------------------------------------------------------------
Init ==
  /\ queue = <<>>
  /\ dlq = {}
  /\ channel = [c \in Consumers |-> <<>>]
  /\ connected = [c \in Consumers |-> FALSE]
  /\ pc = [c \in Consumers |-> "idle"]
  /\ msg = [c \in Consumers |-> NoMessage]
  /\ inbox = {}
  /\ inboxLock = [k \in InboxKeys |-> NoConsumer]
  /\ dropped = {}
  /\ published = [m \in Messages |-> 0]
  /\ emails = [m \in Messages |-> 0]
  /\ failures = 0

(* What happens without a failure. *)
Handle(c) ==
  \/ Receive(c)
  \/ SaveProcessedMessage(c)
  \/ GetUserById(c)
  \/ SendEmail(c)
  \/ Commit(c)
  \/ Ack(c)
  \/ Reject(c)
  \/ Requeue(c)

Trouble(c) ==
  \/ SendEmailFails(c)
  \/ CommitReplyLost(c)
  \/ StepFails(c)
  \/ DatabaseLost(c)
  \/ ConnectionLost(c)
  \/ Crash(c)

Next ==
  \/ \E m \in Messages : Publish(m)
  \/ \E c \in Consumers : Deliver(c) \/ Handle(c) \/ Trouble(c) \/ Restart(c)

Spec == Init /\ [][Next]_vars

(* Every window is full or the queue is empty. *)
AllPushed ==
  queue = <<>> \/ \A c \in Consumers : ~connected[c] \/ Len(channel[c]) = Prefetch

(* The goroutine of a consumer keeps taking messages, a consumer that      *)
(* stopped is started again, and PostgreSQL serves the transactions that   *)
(* wait for an inbox entry in turn.  The broker pushes without waiting for *)
(* consumers, whose every message costs a database transaction: again and  *)
(* again it has pushed all it can.                                         *)
Fairness ==
  /\ []<>AllPushed
  /\ \A c \in Consumers :
       /\ WF_vars(Handle(c))
       /\ WF_vars(Restart(c))
       /\ SF_vars(SaveProcessedMessage(c))

FairSpec == Spec /\ Fairness

-------------------------------------------------------------------------------
(* Properties *)

Labels == {"idle", "save", "user", "email", "commit", "ack", "reject", "requeue"}

(* Between the inbox insert and COMMIT. *)
Working(c) == pc[c] \in {"user", "email", "commit"}

(* Every variable has its type, and an uncommitted inbox row belongs to a  *)
(* consumer that is handling its event and still has its transaction.      *)
TypeOK ==
  /\ queue \in Seq(Messages)
  /\ dlq \subseteq Messages
  /\ channel \in [Consumers -> Seq(Messages)]
  /\ connected \in [Consumers -> BOOLEAN]
  /\ pc \in [Consumers -> Labels]
  /\ msg \in [Consumers -> Messages \union {NoMessage}]
  /\ inbox \subseteq InboxKeys
  /\ inboxLock \in [InboxKeys -> Consumers \union {NoConsumer}]
  /\ published \in [Messages -> 0..MaxCopies]
  /\ emails \in [Messages -> Nat]
  /\ failures \in 0..MaxFailures
  /\ dropped \subseteq {c \in Consumers : Working(c)}
  /\ \A k \in InboxKeys, c \in Consumers :
       inboxLock[k] = c => Working(c) /\ c \notin dropped /\ InboxKey(msg[c]) = k

Outstanding(m) ==
  \/ m \in ToSet(queue)
  \/ \E c \in Consumers : m \in ToSet(channel[c])

(* Once an event is recorded in the inbox no more email is sent for it:    *)
(* not for copies the outbox published, not for deliveries repeated after  *)
(* a lost connection, not by another consumer.  The one exception is the   *)
(* consumer that had begun on the event when the database dropped its      *)
(* transaction: somebody else may have recorded the event since, and it    *)
(* learns of that only from COMMIT.                                        *)
LateEmailNeedsLostTransaction ==
  [][\A m \in Messages :
       (InboxKey(m) \in inbox /\ emails'[m] # emails[m])
         => \E c \in dropped : pc[c] = "email" /\ msg[c] = m]_vars

(* A second email for an event needs a failure between inserting the inbox *)
(* row and the reply to its COMMIT.                                        *)
EmailsNeedFailures == \A m \in Messages : emails[m] <= 1 + failures

(* An event is recorded in the inbox only after its email has left.        *)
ProcessedWasEmailed == \A m \in Messages : InboxKey(m) \in inbox => emails[m] > 0

(* A message is settled only when it is dealt with: an event that should   *)
(* lead to an email is in the inbox or still with the broker.              *)
NothingLost ==
  \A m \in Messages :
    (published[m] > 0 /\ ~Fatal(m) /\ ~Ignored(m) /\ ~Outstanding(m))
      => InboxKey(m) \in inbox

(* However often an event is delivered, one consumer at a time works on it *)
(* in a transaction.                                                       *)
OneHandlerPerEvent ==
  \A c, d \in Consumers \ dropped :
    (c # d /\ Working(c) /\ Working(d)) => InboxKey(msg[c]) # InboxKey(msg[d])

(* The inductive invariant behind these properties (NotificationProofs):   *)
(* a consumer settles the message it has handled; in its transaction, past *)
(* the inbox insert, it owns the entry of its event, which is not recorded *)
(* yet; and before COMMIT its email has left.                              *)
ConsumerInv(c) ==
  /\ pc[c] # "idle" =>
       /\ msg[c] \in Messages
       /\ connected[c] => channel[c] # <<>> /\ Head(channel[c]) = msg[c]
  /\ (Working(c) /\ c \notin dropped) =>
       inboxLock[InboxKey(msg[c])] = c /\ InboxKey(msg[c]) \notin inbox
  /\ pc[c] = "commit" => emails[msg[c]] > 0

(* A message is settled for good only when that loses nothing. *)
SettledWell(c) ==
  /\ pc[c] = "ack" => Ignored(msg[c]) \/ InboxKey(msg[c]) \in inbox
  /\ pc[c] = "reject" => Fatal(msg[c])

(* The last email for the event did its work, or is about to. *)
Covered(m) ==
  \/ InboxKey(m) \in inbox
  \/ \E c \in Consumers \ dropped : pc[c] = "commit" /\ msg[c] = m

(* Consumers that go on to send an email without their transaction.        *)
Late(m) == {c \in dropped : pc[c] \in {"user", "email"} /\ msg[c] = m}

(* All consumers are consistent with the inbox; every email but the last   *)
(* one, and every email that is late, is paid for by a failure.            *)
IInv ==
  /\ TypeOK
  /\ \A c \in Consumers : ConsumerInv(c) /\ SettledWell(c)
  /\ NothingLost
  /\ ProcessedWasEmailed
  /\ \A m \in Messages :
       emails[m] + Cardinality(Late(m)) <= failures + (IF Covered(m) THEN 1 ELSE 0)

(* Every event that can be handled is handled once failures stop, also     *)
(* behind events that fail again and again, as long as these do not fill   *)
(* the prefetch window.                                                    *)
EveryEventHandled ==
  \A m \in Messages :
    (published[m] > 0 /\ ~Fatal(m) /\ ~Ignored(m) /\ ~Poison(m))
      ~> InboxKey(m) \in inbox

(* "fatal error occurred. Sending message %s to DLQ"                       *)
(* (notification/internal/worker/broker.go:147).                           *)
FatalReachesDLQ ==
  \A m \in Messages :
    (published[m] > 0 /\ Fatal(m) /\ ~Outstanding(m)) => m \in dlq
===============================================================================
