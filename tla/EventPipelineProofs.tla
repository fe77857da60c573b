-------------------------- MODULE EventPipelineProofs --------------------------
(***************************************************************************)
(* Proofs about module EventPipeline, for every set of events and of       *)
(* consumers and every bound on failures: its consumers behave as module   *)
(* Notification says, and from end to end it is an Announcement.           *)
(***************************************************************************)
EXTENDS EventPipeline, NotificationProofs

-------------------------------------------------------------------------------
(* The consumers within the pipeline *)

(* A step of the pipeline is a step of the notification service and its    *)
(* queue, or leaves these alone.                                           *)
LEMMA ConsumersStep == [PipelineNext]_pipelineVars => [Next]_vars
  <1> SUFFICES ASSUME PipelineNext
               PROVE  Next \/ UNCHANGED vars
    BY DEF pipelineVars, vars
  <1>1. ASSUME NEW s \in Services,
               ServiceStarts(s) \/ ServiceStops(s) \/ LinkBreaks(s) \/ LinkClosed(s)
        PROVE  UNCHANGED vars
    BY <1>1 DEF ServiceStarts, ServiceStops, LinkBreaks, LinkClosed
  <1>2. ASSUME NEW m \in Messages, Insert(m) \/ EndInsert(m) \/ PublishEvent(m)
        PROVE  Next \/ UNCHANGED vars
    BY <1>2 DEF Insert, EndInsert, PublishEvent, Next
  <1>3. ASSUME NEW S \in SUBSET Messages, Mark(S)
        PROVE  UNCHANGED vars
    BY <1>3 DEF Mark
  <1>4. ASSUME NEW c \in Consumers, Setup(c) \/ Consume(c)
        PROVE  Next \/ UNCHANGED vars
    BY <1>4 DEF Setup, Consume, Next
  <1>5. QED
    BY <1>1, <1>2, <1>3, <1>4 DEF PipelineNext

(* Within the pipeline the consumers behave as module Notification says,   *)
(* so all that is proved about them there holds here.                      *)
THEOREM PipelineRunsNotification == PipelineSpec => Spec
  <1>1. PipelineInit => Init
    BY DEF PipelineInit
  <1>2. QED
    BY <1>1, ConsumersStep, PTL DEF PipelineSpec, Spec

-------------------------------------------------------------------------------
(* Type correctness *)

(* The variables that module Notification does not know. *)
LogType ==
  /\ status \in [Messages -> {"unused", "open", "rolledback", "PENDING", "PROCESSED"}]
  /\ sent \in [Messages -> Nat]
  /\ outboxFailures \in 0..MaxOutboxFailures
  /\ link \in [Services -> Links]
  /\ exchanges \subseteq Services
  /\ bound \subseteq exchanges
  /\ lost \in [Messages -> Nat]

(* Every event has a service. *)
LEMMA ServiceType == \A m : Service(m) \in Services
  BY DEF Service, Services, ExchangeNames, ToSet

(* A binding needs its exchange. *)
LEMMA BindableExists == Bindable \subseteq exchanges
  <1> SUFFICES ASSUME NEW j \in DOMAIN ExchangeNames,
                      \A k \in 1..j : ExchangeNames[k] \in exchanges
               PROVE  ExchangeNames[j] \in exchanges
    BY DEF Bindable
  <1>1. j \in 1..j
    BY DEF ExchangeNames
  <1>2. QED  BY <1>1

(* Every step keeps the types of the services' side. *)
LEMMA LogTypeStep == LogType /\ [PipelineNext]_pipelineVars => LogType'
  <1> SUFFICES ASSUME LogType, [PipelineNext]_pipelineVars
               PROVE  LogType'
    OBVIOUS
  <1> USE PipelineAssumption
  <1>1. ASSUME NEW s \in Services,
               ServiceStarts(s) \/ ServiceStops(s) \/ LinkBreaks(s) \/ LinkClosed(s)
        PROVE  LogType'
    BY <1>1 DEF ServiceStarts, ServiceStops, LinkBreaks, LinkClosed, SetLink, LogType, Links,
                logVars, E!Fail
  <1>2. ASSUME NEW m \in Messages, Insert(m) \/ EndInsert(m)
        PROVE  LogType'
    BY <1>2 DEF Insert, EndInsert, E!Insert, E!EndInsert, LogType, serviceVars
  <1>3. ASSUME NEW m \in Messages, PublishEvent(m)
        PROVE  LogType'
    BY <1>3 DEF PublishEvent, E!Send, LogType
  <1>4. ASSUME NEW S \in SUBSET Messages, Mark(S)
        PROVE  LogType'
    BY <1>4 DEF Mark, E!Mark, LogType, serviceVars
  <1>5. ASSUME NEW c \in Consumers, Setup(c) \/ Consume(c)
        PROVE  LogType'
    BY <1>5, BindableExists DEF Setup, Consume, LogType, logVars, serviceVars
  <1>6. CASE UNCHANGED pipelineVars
    BY <1>6 DEF pipelineVars, logVars, serviceVars, LogType
  <1>7. QED
    BY <1>1, <1>2, <1>3, <1>4, <1>5, <1>6 DEF PipelineNext

(* In every reachable state the variables have their types, and only an    *)
(* exchange that exists is bound.                                          *)
THEOREM PipelineTypeCorrect == PipelineSpec => []PipelineTypeOK
  <1>1. PipelineInit => LogType
    BY PipelineAssumption DEF PipelineInit, E!Init, LogType, Links
  <1>2. PipelineSpec => []LogType
    BY <1>1, LogTypeStep, PTL DEF PipelineSpec
  <1>3. LogType /\ TypeOK <=> PipelineTypeOK
    BY DEF LogType, PipelineTypeOK
  <1>4. QED
    BY <1>2, <1>3, PipelineRunsNotification, NotificationTypeCorrect, PTL

-------------------------------------------------------------------------------
(* The inductive invariant *)

(* The broker and the consumers have only events that were published.      *)
Handled ==
  /\ queue \in Seq(Known)
  /\ channel \in [Consumers -> Seq(Known)]
  /\ \A c \in Consumers : msg[c] \in Known \union {NoMessage}

(* The copies of an event and its row agree. *)
Account(m) ==
  /\ sent[m] = published[m] + lost[m]
  /\ sent[m] <= 1 + outboxFailures
  /\ sent[m] > 0 => status[m] \in {"PENDING", "PROCESSED"}
  /\ status[m] = "PROCESSED" => sent[m] > 0

(* The invariant in the form in which the proof uses it. *)
LEMMA PipelineIInvParts ==
  PipelineIInv <=> LogType /\ IInv /\ Handled /\ \A m \in Messages : Account(m)
  BY DEF PipelineIInv, PipelineTypeOK, LogType, IInv, Handled, Account

(* The consumers pass on what they have; only Publish adds to it.          *)
LEMMA HandledStep ==
  ASSUME TypeOK, MsgInv, Handled, [Next]_vars
  PROVE  Handled'
  <1> USE NotificationAssumption
  <1>1. ASSUME NEW n \in Messages, Publish(n)
        PROVE  Handled'
    <2>1. Known \subseteq Known' /\ n \in Known'
      BY <1>1 DEF Publish, Known, TypeOK
    <2>2. queue \in Seq(Known') /\ channel \in [Consumers -> Seq(Known')]
      BY <2>1 DEF Handled
    <2>3. Append(queue, n) \in Seq(Known')
      BY <2>1, <2>2
    <2>4. QED
      BY <1>1, <2>1, <2>2, <2>3 DEF Publish, Handled
  <1>2. CASE UNCHANGED published
    <2>1. Known' = Known
      BY <1>2 DEF Known
    <2>2. ASSUME NEW c \in Consumers, Deliver(c)
          PROVE  Handled'
      <3>1. Head(queue) \in Known /\ Tail(queue) \in Seq(Known)
        BY <2>2 DEF Deliver, Handled
      <3>2. Append(channel[c], Head(queue)) \in Seq(Known)
        BY <3>1 DEF Handled
      <3>3. QED
        BY <2>1, <2>2, <3>1, <3>2 DEF Deliver, Handled
    <2>3. ASSUME NEW c \in Consumers, Receive(c)
          PROVE  Handled'
      <3>1. Head(channel[c]) \in Known
        BY <2>3 DEF Receive, Handled
      <3>2. QED
        BY <2>1, <2>3, <3>1 DEF Receive, Handled, brokerVars, TypeOK
    <2>4. ASSUME NEW c \in Consumers,
                 \/ SaveProcessedMessage(c) \/ GetUserById(c) \/ SendEmail(c) \/ Commit(c)
                 \/ SendEmailFails(c) \/ CommitReplyLost(c) \/ StepFails(c) \/ Restart(c)
                 \/ DatabaseLost(c)
          PROVE  Handled'
      BY <2>1, <2>4 DEF SaveProcessedMessage, GetUserById, SendEmail, Commit, SendEmailFails,
                        CommitReplyLost, StepFails, DatabaseLost, Restart, brokerVars, Handled
    <2>5. ASSUME NEW c \in Consumers, Ack(c) \/ Reject(c) \/ Requeue(c)
          PROVE  Handled'
      <3>1. msg[c] \in Known
        BY <2>5 DEF Ack, Reject, Requeue, MsgInv, Handled
      <3>2. channel' \in [Consumers -> Seq(Known)]
        <4>1. CASE connected[c] /\ Settle(c)
          <5>1. channel[c] # <<>>
            BY <2>5, <4>1 DEF Ack, Reject, Requeue, MsgInv
          <5>2. Tail(channel[c]) \in Seq(Known)
            BY <5>1 DEF Handled
          <5>3. QED  BY <4>1, <5>2 DEF Settle, Handled
        <4>2. CASE UNCHANGED channel
          BY <4>2 DEF Handled
        <4>3. QED  BY <2>5, <4>1, <4>2 DEF Ack, Reject, Requeue
      <3>3. queue' \in Seq(Known)
        <4>1. <<msg[c]>> \o queue \in Seq(Known)
          BY <3>1 DEF Handled
        <4>2. QED
          BY <2>5, <4>1 DEF Ack, Reject, Requeue, Handled
      <3>4. msg' = [msg EXCEPT ![c] = NoMessage]
        BY <2>5 DEF Ack, Reject, Requeue, Done
      <3>5. QED
        BY <2>1, <3>2, <3>3, <3>4 DEF Handled, TypeOK
    <2>6. ASSUME NEW c \in Consumers, ConnectionLost(c) \/ Crash(c)
          PROVE  Handled'
      <3>1. channel[c] \o queue \in Seq(Known) /\ <<>> \in Seq(Known)
        BY DEF Handled
      <3>2. queue' \in Seq(Known) /\ channel' \in [Consumers -> Seq(Known)]
        BY <2>6, <3>1 DEF ConnectionLost, Crash, RequeueAll, Handled
      <3>3. msg' = msg \/ msg' = [msg EXCEPT ![c] = NoMessage]
        BY <2>6 DEF ConnectionLost, Crash, Done
      <3>4. QED
        BY <2>1, <3>2, <3>3 DEF Handled, TypeOK
    <2>7. CASE UNCHANGED vars
      BY <2>1, <2>7 DEF vars, brokerVars, Handled
    <2>8. ASSUME NEW n \in Messages, Publish(n)
          PROVE  Handled'
      BY <1>1, <2>8
    <2>9. QED
      BY <2>2, <2>3, <2>4, <2>5, <2>6, <2>7, <2>8 DEF Next, Handle, Trouble
  <1>3. (\E n \in Messages : Publish(n)) \/ UNCHANGED published
    BY DEF Next, Handle, Trouble, vars, history, Deliver, Receive, SaveProcessedMessage,
           GetUserById, SendEmail, SendEmailFails, Commit, CommitReplyLost, StepFails,
           DatabaseLost, Ack, Reject, Requeue, ConnectionLost, Crash, Restart
  <1>4. QED  BY <1>1, <1>2, <1>3

(* A step of the consumers publishes nothing. *)
LEMMA ConsumeIsQuiet ==
  ASSUME NEW c \in Consumers, Setup(c) \/ Consume(c)
  PROVE  UNCHANGED <<published, lost, logVars>>
  BY DEF Setup, Consume, Handle, Trouble, vars, history, serviceVars, Deliver, Receive,
         SaveProcessedMessage, GetUserById, SendEmail, SendEmailFails, Commit, CommitReplyLost,
         StepFails, DatabaseLost, Ack, Reject, Requeue, ConnectionLost, Crash, Restart

(* Every publish that returns nil is accounted for. *)
LEMMA AccountStep ==
  ASSUME TypeOK, LogType, \A m \in Messages : Account(m), [PipelineNext]_pipelineVars,
         NEW m \in Messages
  PROVE  Account(m)'
  <1> USE PipelineAssumption
  <1>1. /\ published[m] \in Nat /\ lost[m] \in Nat /\ sent[m] \in Nat /\ outboxFailures \in Nat
        /\ Account(m)
    BY DEF TypeOK, LogType
  <1>2. ASSUME NEW s \in Services,
               ServiceStarts(s) \/ ServiceStops(s) \/ LinkBreaks(s) \/ LinkClosed(s)
        PROVE  Account(m)'
    BY <1>1, <1>2 DEF ServiceStarts, ServiceStops, LinkBreaks, LinkClosed, vars, history,
                      logVars, E!Fail, Account
  <1>3. ASSUME NEW n \in Messages, Insert(n) \/ EndInsert(n)
        PROVE  Account(m)'
    BY <1>1, <1>3 DEF Insert, EndInsert, E!Insert, E!EndInsert, vars, history, serviceVars,
                      LogType, Account
  <1>4. ASSUME NEW n \in Messages, PublishEvent(n)
        PROVE  Account(m)'
    <2>1. /\ status[n] \in {"PENDING", "PROCESSED"} /\ sent[n] <= outboxFailures
          /\ sent' = [sent EXCEPT ![n] = @ + 1] /\ UNCHANGED <<status, outboxFailures>>
      BY <1>4 DEF PublishEvent, E!Send
    <2>2. CASE m # n
      <3>1. sent'[m] = sent[m] /\ published'[m] = published[m] /\ lost'[m] = lost[m]
        BY <1>4, <2>1, <2>2 DEF PublishEvent, Publish, vars, history, TypeOK, LogType
      <3>2. QED  BY <1>1, <2>1, <3>1 DEF Account
    <2>3. CASE m = n
      <3>1. sent'[m] = sent[m] + 1
        BY <2>1, <2>3 DEF LogType
      <3>2. \/ published'[m] = published[m] + 1 /\ lost'[m] = lost[m]
            \/ published'[m] = published[m] /\ lost'[m] = lost[m] + 1
        BY <1>4, <2>3 DEF PublishEvent, Publish, vars, history, TypeOK, LogType
      <3>3. QED  BY <1>1, <2>1, <2>3, <3>1, <3>2 DEF Account
    <2>4. QED  BY <2>2, <2>3
  <1>5. ASSUME NEW S \in SUBSET Messages, Mark(S)
        PROVE  Account(m)'
    BY <1>1, <1>5 DEF Mark, E!Mark, vars, history, serviceVars, Account
  <1>6. ASSUME NEW c \in Consumers, Setup(c) \/ Consume(c)
        PROVE  Account(m)'
    BY <1>1, <1>6, ConsumeIsQuiet DEF logVars, Account
  <1>7. CASE UNCHANGED pipelineVars
    BY <1>1, <1>7 DEF pipelineVars, vars, history, logVars, serviceVars, Account
  <1>8. QED
    BY <1>2, <1>3, <1>4, <1>5, <1>6, <1>7 DEF PipelineNext

(* The inductive invariant holds in every reachable state: the consumers   *)
(* deal with published events only, and copies and rows agree.             *)
THEOREM PipelineInvariance == PipelineSpec => []PipelineIInv
  <1> DEFINE Accounts == \A m \in Messages : Account(m)
  <1>1. PipelineInit => Handled /\ Accounts
    <2> SUFFICES ASSUME PipelineInit
                 PROVE  Handled /\ Accounts
      OBVIOUS
    <2>1. Handled
      BY DEF PipelineInit, Init, Handled
    <2>2. Accounts
      BY PipelineAssumption DEF PipelineInit, Init, E!Init, Account
    <2>3. QED  BY <2>1, <2>2
  <1>2. /\ PipelineTypeOK /\ IInv /\ Handled /\ Accounts /\ [PipelineNext]_pipelineVars
        => Handled' /\ Accounts'
    <2> SUFFICES ASSUME PipelineTypeOK, IInv, Handled, Accounts, [PipelineNext]_pipelineVars
                 PROVE  Handled' /\ Accounts'
      OBVIOUS
    <2>1. TypeOK /\ MsgInv /\ LogType
      BY IInvParts DEF PipelineTypeOK, LogType
    <2>2. Handled'
      BY <2>1, ConsumersStep, HandledStep
    <2>3. Accounts'
      BY <2>1, AccountStep
    <2>4. QED  BY <2>2, <2>3
  <1>3. PipelineTypeOK /\ IInv /\ Handled /\ Accounts => PipelineIInv
    BY PipelineIInvParts DEF PipelineTypeOK, LogType
  <1> HIDE DEF Accounts
  <1>4. QED
    BY <1>1, <1>2, <1>3, PipelineTypeCorrect, PipelineRunsNotification, NotificationInvariance,
       PTL DEF PipelineSpec

(* An event the outbox has marked is in the inbox or with the broker, but  *)
(* for copies that went to a dead connection or to an unbound exchange.    *)
THEOREM MarkedIsCarriedCorrect == PipelineSpec => []MarkedIsCarried
  <1>1. PipelineIInv => MarkedIsCarried
    <2> SUFFICES ASSUME PipelineIInv, NEW m \in Messages, status[m] = "PROCESSED",
                        ~Fatal(m), ~Ignored(m)
                 PROVE  InboxKey(m) \in inbox \/ Outstanding(m) \/ lost[m] > 0
      BY DEF MarkedIsCarried
    <2>1. Account(m) /\ NothingLost /\ published[m] \in Nat /\ lost[m] \in Nat
      BY PipelineIInvParts, PipelineAssumption DEF IInv, TypeOK, LogType
    <2>2. published[m] > 0 \/ lost[m] > 0
      BY <2>1 DEF Account
    <2>3. QED  BY <2>1, <2>2 DEF NothingLost
  <1>2. QED  BY <1>1, PipelineInvariance, PTL

-------------------------------------------------------------------------------
(* From end to end *)

Recorded == {m \in Messages : InboxKey(m) \in inbox}

(* What a failure that may happen does to the troubles of the promise.     *)
LEMMA FailMayFail == TypeOK /\ (Fail \/ UNCHANGED failures) => A!MayFail
  BY NotificationAssumption DEF TypeOK, Fail, CanFail, A!MayFail

(* A message a consumer has in hand was published, so it is committed.     *)
LEMMA HandledIsCommitted ==
  ASSUME PipelineIInv, NEW c \in Consumers, pc[c] # "idle"
  PROVE  msg[c] \in Messages /\ msg[c] \in Committed
  <1>1. msg[c] \in Messages /\ msg[c] \in Known
    BY PipelineIInvParts, IInvParts, NotificationAssumption DEF MsgInv, Handled
  <1>2. /\ Account(msg[c]) /\ published[msg[c]] > 0
        /\ published[msg[c]] \in Nat /\ lost[msg[c]] \in Nat
    BY <1>1, PipelineIInvParts, PipelineAssumption DEF IInv, TypeOK, LogType, Known
  <1>3. QED
    BY <1>1, <1>2 DEF Account, Committed

(* An email goes out for an event that is committed, and the ones before   *)
(* it are paid for: by the failure that took its transaction away, when it *)
(* is late.                                                                *)
LEMMA EmailIsMail ==
  ASSUME PipelineIInv, NEW c \in Consumers, SendEmail(c) \/ SendEmailFails(c),
         UNCHANGED logVars
  PROVE  A!Mail(msg[c])
  <1>1. TypeOK /\ MsgInv /\ Control
    BY PipelineIInvParts, IInvParts
  <1>2. /\ pc[c] = "email" /\ emails' = [emails EXCEPT ![msg[c]] = @ + 1]
        /\ Fail \/ UNCHANGED failures
        /\ UNCHANGED <<inbox, status>>
    BY DEF SendEmail, SendEmailFails, inboxVars, logVars
  <1>3. msg[c] \in Messages /\ msg[c] \in Committed
    BY <1>2, HandledIsCommitted
  <1>4. emails[msg[c]] <= failures
    <2>1. Budget(msg[c]) /\ (c \notin dropped => ~Covered(msg[c]))
      BY <1>1, <1>2, EmailUncovered DEF Control
    <2>2. /\ IsFiniteSet(Late(msg[c])) /\ Cardinality(Late(msg[c])) \in Nat
          /\ emails[msg[c]] \in Nat /\ failures \in Nat
      BY <1>1, <1>3, LateFinite
    <2>3. c \in dropped => Cardinality(Late(msg[c])) # 0
      <3>1. c \in dropped => Late(msg[c]) # {}
        BY <1>2 DEF Late
      <3>2. QED  BY <2>2, <3>1, FS_EmptySet
    <2>4. QED  BY <2>1, <2>2, <2>3 DEF Budget
  <1>5. A!MayFail
    BY <1>1, <1>2, FailMayFail
  <1>6. UNCHANGED <<Committed, Recorded>>
    BY <1>2 DEF Committed, Recorded
  <1>7. QED
    BY <1>2, <1>3, <1>4, <1>5, <1>6 DEF A!Mail, Recorded

(* COMMIT finishes an event whose email has left, also when its reply is   *)
(* lost.                                                                   *)
LEMMA CommitIsFinish ==
  ASSUME PipelineIInv, NEW c \in Consumers, c \notin dropped, Commit(c) \/ CommitReplyLost(c),
         UNCHANGED logVars
  PROVE  A!Finish(msg[c])
  <1>1. TypeOK /\ Control
    BY PipelineIInvParts, IInvParts
  <1>2. /\ pc[c] = "commit" /\ inbox' = inbox \union {InboxKey(msg[c])}
        /\ Fail \/ UNCHANGED failures
        /\ UNCHANGED <<emails, status>>
    BY DEF Commit, CommitReplyLost, history, logVars
  <1>3. msg[c] \in Messages /\ msg[c] \in Committed /\ emails[msg[c]] > 0
    BY <1>1, <1>2, HandledIsCommitted DEF Control, Owns
  <1>4. Recorded' = Recorded \union {msg[c]}
    BY <1>2, <1>3, KeyInjective DEF Recorded
  <1>5. A!MayFail
    BY <1>1, <1>2, FailMayFail
  <1>6. Committed' = Committed
    BY <1>2 DEF Committed
  <1>7. QED
    BY <1>2, <1>3, <1>4, <1>5, <1>6 DEF A!Finish, Recorded

(* The other steps of a consumer are at most trouble, a COMMIT without its *)
(* transaction among them.                                                 *)
LEMMA OtherIsTrouble ==
  ASSUME PipelineIInv, NEW c \in Consumers, Setup(c) \/ Consume(c),
         ~SendEmail(c), ~SendEmailFails(c), ~CommitReplyLost(c), Commit(c) => c \in dropped
  PROVE  A!Trouble
  <1>1. TypeOK
    BY PipelineIInvParts DEF IInv
  <1>2. UNCHANGED <<inbox, emails, status>> /\ (Fail \/ UNCHANGED failures)
    BY ConsumeIsQuiet
       DEF logVars, Setup, Consume, Handle, Trouble, vars, inboxVars, history, Deliver, Receive,
           Commit, SaveProcessedMessage, GetUserById, StepFails, DatabaseLost, Ack, Reject, Requeue,
           ConnectionLost, Crash, Restart
  <1>3. UNCHANGED <<Committed, Recorded>>
    BY <1>2 DEF Committed, Recorded
  <1>4. QED
    BY <1>1, <1>2, <1>3, FailMayFail DEF A!Trouble, Recorded

(* Every step of the pipeline is one of the promise, or none of it.        *)
LEMMA AnnouncementStep == PipelineIInv /\ [PipelineNext]_pipelineVars => [A!Next]_(A!promiseVars)
  <1> SUFFICES ASSUME PipelineIInv, [PipelineNext]_pipelineVars
               PROVE  A!Next \/ UNCHANGED <<Committed, emails, Recorded, failures>>
    BY DEF A!promiseVars, Recorded
  <1>1. ASSUME NEW s \in Services,
               ServiceStarts(s) \/ ServiceStops(s) \/ LinkBreaks(s) \/ LinkClosed(s)
        PROVE  UNCHANGED <<Committed, emails, Recorded, failures>>
    BY <1>1 DEF ServiceStarts, ServiceStops, LinkBreaks, LinkClosed, vars, inboxVars, history,
                logVars, E!Fail, Committed, Recorded
  <1>2. ASSUME NEW m \in Messages, Insert(m)
        PROVE  UNCHANGED <<Committed, emails, Recorded, failures>>
    <2>1. status[m] = "unused" /\ status' = [status EXCEPT ![m] = "open"] /\ UNCHANGED vars
      BY <1>2 DEF Insert, E!Insert
    <2>2. \A n \in Messages : n \in Committed <=> n \in Committed'
      BY <2>1, PipelineIInvParts DEF LogType, Committed
    <2>3. Committed' = Committed
      BY <2>2 DEF Committed
    <2>4. QED  BY <2>1, <2>3 DEF vars, inboxVars, history, Recorded
  <1>3. ASSUME NEW m \in Messages, EndInsert(m)
        PROVE  A!Next \/ UNCHANGED <<Committed, emails, Recorded, failures>>
    <2>1. PICK s \in {"PENDING", "rolledback"} :
            status[m] = "open" /\ status' = [status EXCEPT ![m] = s] /\ UNCHANGED vars
      BY <1>3 DEF EndInsert, E!EndInsert
    <2>2. UNCHANGED <<emails, Recorded, failures>>
      BY <2>1 DEF vars, inboxVars, history, Recorded
    <2>3. CASE s = "PENDING"
      <3>1. \A n \in Messages : n \in Committed' <=> n \in Committed \union {m}
        BY <2>1, <2>3, PipelineIInvParts DEF LogType, Committed
      <3>2. Committed' = Committed \union {m}
        BY <3>1 DEF Committed
      <3>3. A!Commit(m)
        BY <2>2, <3>2 DEF A!Commit, Recorded
      <3>4. QED  BY <3>3 DEF A!Next
    <2>4. CASE s = "rolledback"
      <3>1. \A n \in Messages : n \in Committed' <=> n \in Committed
        BY <2>1, <2>4, PipelineIInvParts DEF LogType, Committed
      <3>2. Committed' = Committed
        BY <3>1 DEF Committed
      <3>3. QED  BY <2>2, <3>2
    <2>5. QED  BY <2>3, <2>4
  <1>4. ASSUME NEW m \in Messages, PublishEvent(m)
        PROVE  UNCHANGED <<Committed, emails, Recorded, failures>>
    BY <1>4 DEF PublishEvent, E!Send, Publish, vars, inboxVars, history, Committed, Recorded
  <1>5. ASSUME NEW S \in SUBSET Messages, Mark(S)
        PROVE  UNCHANGED <<Committed, emails, Recorded, failures>>
    <2>1. /\ \A n \in S : status[n] = "PENDING"
          /\ status' = [n \in Messages |-> IF n \in S THEN "PROCESSED" ELSE status[n]]
          /\ UNCHANGED vars
      BY <1>5 DEF Mark, E!Mark
    <2>2. \A n \in Messages : n \in Committed' <=> n \in Committed
      BY <2>1 DEF Committed
    <2>3. Committed' = Committed
      BY <2>2 DEF Committed
    <2>4. QED  BY <2>1, <2>3 DEF vars, inboxVars, history, Recorded
  <1>6. ASSUME NEW c \in Consumers, Setup(c) \/ Consume(c)
        PROVE  A!Next
    <2>1. UNCHANGED logVars
      BY <1>6, ConsumeIsQuiet
    <2>2. CASE SendEmail(c) \/ SendEmailFails(c)
      <3>1. msg[c] \in Messages
        BY <2>2, HandledIsCommitted DEF SendEmail, SendEmailFails
      <3>2. QED  BY <2>1, <2>2, <3>1, EmailIsMail DEF A!Next
    <2>3. CASE c \notin dropped /\ (Commit(c) \/ CommitReplyLost(c))
      <3>1. msg[c] \in Messages
        BY <2>3, HandledIsCommitted DEF Commit, CommitReplyLost
      <3>2. QED  BY <2>1, <2>3, <3>1, CommitIsFinish DEF A!Next
    <2>4. CASE /\ ~(SendEmail(c) \/ SendEmailFails(c))
               /\ ~(c \notin dropped /\ (Commit(c) \/ CommitReplyLost(c)))
      <3>1. ~CommitReplyLost(c)
        BY <2>4 DEF CommitReplyLost
      <3>2. QED
        BY <1>6, <2>4, <3>1, OtherIsTrouble DEF A!Next
    <2>5. QED  BY <2>2, <2>3, <2>4
  <1>7. CASE UNCHANGED pipelineVars
    BY <1>7 DEF pipelineVars, vars, inboxVars, history, logVars, Committed, Recorded
  <1>8. QED
    BY <1>1, <1>2, <1>3, <1>4, <1>5, <1>6, <1>7 DEF PipelineNext

(* From end to end: no email without a committed event, no inbox row       *)
(* without an email, and no email beyond the first, before that row or     *)
(* after it, that a failure of the notification service does not account   *)
(* for, whatever fails in the services, their workers or their             *)
(* connections.                                                            *)
THEOREM PipelineImplementsAnnouncement == PipelineSpec => AnnouncementSpec
  <1>1. PipelineInit => A!Init
    BY DEF PipelineInit, Init, E!Init, A!Init, Committed
  <1>2. QED
    BY <1>1, AnnouncementStep, PipelineInvariance, PTL
       DEF PipelineSpec, AnnouncementSpec, A!Spec

(* The rows of the outboxes go through the pipeline as EventLog says, so   *)
(* the workers of module Outbox, which implement EventLog, may stand for   *)
(* its publishes and marks.                                                *)
THEOREM PipelineRunsEventLog == PipelineSpec => E!Spec
  <1>1. PipelineInit => E!Init
    BY DEF PipelineInit
  <1>2. [PipelineNext]_pipelineVars => [E!Next]_(E!logVars)
    <2> SUFFICES ASSUME [PipelineNext]_pipelineVars
                 PROVE  E!Next \/ UNCHANGED logVars
      BY DEF logVars, E!logVars
    <2>1. ASSUME NEW s \in Services,
                 ServiceStarts(s) \/ ServiceStops(s) \/ LinkBreaks(s) \/ LinkClosed(s)
          PROVE  E!Next \/ UNCHANGED logVars
      BY <2>1 DEF ServiceStarts, ServiceStops, LinkBreaks, LinkClosed, E!Next
    <2>2. ASSUME NEW m \in Messages, Insert(m) \/ EndInsert(m) \/ PublishEvent(m)
          PROVE  E!Next
      BY <2>2 DEF Insert, EndInsert, PublishEvent, E!Next
    <2>3. ASSUME NEW S \in SUBSET Messages, Mark(S)
          PROVE  E!Next
      BY <2>3 DEF Mark, E!Next
    <2>4. ASSUME NEW c \in Consumers, Setup(c) \/ Consume(c)
          PROVE  UNCHANGED logVars
      BY <2>4 DEF Setup, Consume
    <2>5. CASE UNCHANGED pipelineVars
      BY <2>5 DEF pipelineVars
    <2>6. QED  BY <2>1, <2>2, <2>3, <2>4, <2>5 DEF PipelineNext
  <1>3. QED  BY <1>1, <1>2, PTL DEF PipelineSpec, E!Spec

-------------------------------------------------------------------------------
(* What it comes to for the receiver of the emails *)

(* An email means that its deposit or registration has committed, it is    *)
(* repeated for failures of the notification service only, and an event    *)
(* the outbox has marked has been emailed or is still with the broker, but *)
(* for copies that the connection or an unbound exchange has swallowed.    *)
EndToEnd ==
  \A m \in Messages :
    /\ emails[m] > 0 => status[m] \in {"PENDING", "PROCESSED"}
    /\ emails[m] <= 1 + failures
    /\ (status[m] = "PROCESSED" /\ ~Fatal(m) /\ ~Ignored(m))
         => emails[m] > 0 \/ Outstanding(m) \/ lost[m] > 0

(* Announcements are made of what has committed. *)
AnnouncedIsCommitted == \A m \in Messages : emails[m] > 0 => m \in Committed

LEMMA AnnouncedIsCommittedCorrect == PipelineSpec => []AnnouncedIsCommitted
  <1>1. A!Init => AnnouncedIsCommitted
    BY DEF A!Init, AnnouncedIsCommitted
  <1>2. TypeOK /\ AnnouncedIsCommitted /\ [A!Next]_(A!promiseVars) => AnnouncedIsCommitted'
    <2> SUFFICES ASSUME TypeOK, AnnouncedIsCommitted, [A!Next]_(A!promiseVars), NEW m \in Messages
                 PROVE  emails'[m] > 0 => m \in Committed'
      BY DEF AnnouncedIsCommitted
    <2>1. emails[m] > 0 => m \in Committed
      BY DEF AnnouncedIsCommitted
    <2>2. ASSUME NEW e \in Messages, A!Mail(e)
          PROVE  emails'[m] > 0 => m \in Committed'
      BY <2>1, <2>2 DEF A!Mail, TypeOK
    <2>3. CASE \/ \E e \in Messages : A!Commit(e) \/ A!Finish(e)
               \/ A!Trouble
               \/ UNCHANGED A!promiseVars
      <3>1. emails' = emails /\ Committed \subseteq Committed'
        BY <2>3 DEF A!Commit, A!Finish, A!Trouble, A!promiseVars
      <3>2. QED  BY <2>1, <3>1
    <2>4. QED  BY <2>2, <2>3 DEF A!Next
  <1>3. QED
    BY <1>1, <1>2, PipelineImplementsAnnouncement, NotificationTypeCorrect, PipelineRunsNotification, PTL
       DEF AnnouncementSpec, A!Spec

(* The promises of outbox, broker and inbox together. *)
THEOREM EndToEndCorrect == PipelineSpec => []EndToEnd
  <1>1. AnnouncedIsCommitted /\ EmailsNeedFailures /\ ProcessedWasEmailed /\ MarkedIsCarried => EndToEnd
    BY DEF AnnouncedIsCommitted, Committed, EmailsNeedFailures, ProcessedWasEmailed, MarkedIsCarried, EndToEnd
  <1>2. QED
    BY <1>1, AnnouncedIsCommittedCorrect, EmailsNeedFailuresCorrect, ProcessedWasEmailedCorrect,
       MarkedIsCarriedCorrect, PipelineRunsNotification, PTL
===============================================================================
