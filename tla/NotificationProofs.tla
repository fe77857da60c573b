-------------------------- MODULE NotificationProofs ---------------------------
(***************************************************************************)
(* Proofs about module Notification, for every set of events and of        *)
(* consumers, every prefetch count and every bound on copies and failures. *)
(***************************************************************************)
EXTENDS Notification, FiniteSetTheorems, TLAPS

-------------------------------------------------------------------------------
(* Type correctness *)

(* The initial states are type-correct. *)
LEMMA TypeInit == Init => TypeOK
  BY NotificationAssumption DEF Init, TypeOK, Labels, InboxKeys, Working

(* A consumer that is not idle handles the first message it has not        *)
(* settled, unless its connection is gone.                                 *)
MsgInv ==
  \A c \in Consumers :
    pc[c] # "idle" =>
      /\ msg[c] \in Messages
      /\ connected[c] => channel[c] # <<>> /\ Head(channel[c]) = msg[c]

(* The inbox entry of every message is one of the table's keys. *)
LEMMA KeyType == \A m \in Messages : InboxKey(m) \in InboxKeys
  BY DEF InboxKeys
(* A broken connection puts everything in hand back into the queue. *)
LEMMA RequeueAllType ==
  ASSUME TypeOK, NEW c \in Consumers, RequeueAll(c)
  PROVE  queue' \in Seq(Messages) /\ channel' \in [Consumers -> Seq(Messages)]
  <1>1. channel[c] \o queue \in Seq(Messages) /\ <<>> \in Seq(Messages)
    BY DEF TypeOK
  <1>2. QED  BY <1>1 DEF RequeueAll, TypeOK

(* Every step of broker and consumers keeps the types. *)
LEMMA TypeStep == TypeOK /\ MsgInv /\ [Next]_vars => TypeOK' /\ MsgInv'
  <1> SUFFICES ASSUME TypeOK, MsgInv, [Next]_vars
               PROVE  TypeOK' /\ MsgInv'
    OBVIOUS
  <1> USE NotificationAssumption, KeyType DEF Working
  <1>1. ASSUME NEW m \in Messages, Publish(m)
        PROVE  TypeOK' /\ MsgInv'
    <2>1. queue' \in Seq(Messages)
      BY <1>1 DEF Publish, TypeOK
    <2>2. published' \in [Messages -> 0..MaxCopies]
      BY <1>1 DEF Publish, TypeOK
    <2>3. QED
      BY <1>1, <2>1, <2>2 DEF Publish, TypeOK, MsgInv, inboxVars
  <1>2. ASSUME NEW c \in Consumers, Deliver(c)
        PROVE  TypeOK' /\ MsgInv'
    <2>1. /\ Head(queue) \in Messages /\ Tail(queue) \in Seq(Messages)
          /\ channel[c] \in Seq(Messages)
      BY <1>2 DEF Deliver, TypeOK
    <2>2. Append(channel[c], Head(queue)) \in Seq(Messages)
      BY <2>1
    <2>3. channel[c] # <<>> => /\ Append(channel[c], Head(queue)) # <<>>
                               /\ Head(Append(channel[c], Head(queue))) = Head(channel[c])
      BY <2>1
    <2>4. TypeOK'
      BY <1>2, <2>1, <2>2 DEF Deliver, TypeOK, inboxVars, history
    <2>5. MsgInv'
      BY <1>2, <2>3 DEF Deliver, TypeOK, MsgInv
    <2>6. QED  BY <2>4, <2>5
  <1>3. ASSUME NEW c \in Consumers, Receive(c)
        PROVE  TypeOK' /\ MsgInv'
    <2>1. Head(channel[c]) \in Messages
      BY <1>3 DEF Receive, TypeOK
    <2>2. PICK l \in {"ack", "reject", "save"} : pc' = [pc EXCEPT ![c] = l]
      <3>1. CASE Ignored(Head(channel[c]))
        BY <1>3, <3>1 DEF Receive, Goto, Ignored, Fatal
      <3>2. CASE Fatal(Head(channel[c]))
        BY <1>3, <3>2 DEF Receive, Goto, Ignored, Fatal
      <3>3. CASE ~Ignored(Head(channel[c])) /\ ~Fatal(Head(channel[c]))
        BY <1>3, <3>3 DEF Receive, Goto
      <3>4. QED  BY <3>1, <3>2, <3>3
    <2>3. QED
      BY <1>3, <2>1, <2>2 DEF Receive, TypeOK, MsgInv, Labels, brokerVars, inboxVars, history
  <1>4. ASSUME NEW c \in Consumers, SaveProcessedMessage(c)
        PROVE  TypeOK' /\ MsgInv'
    <2>1. PICK l \in {"ack", "user", "email"} : pc' = [pc EXCEPT ![c] = l]
      BY <1>4 DEF SaveProcessedMessage, Goto
    <2>2. /\ pc[c] = "save" /\ msg[c] \in Messages /\ InboxKey(msg[c]) \in InboxKeys
          /\ inboxLock[InboxKey(msg[c])] = NoConsumer
          /\ UNCHANGED <<brokerVars, connected, msg, inbox, dropped, history>>
      BY <1>4 DEF SaveProcessedMessage, MsgInv
    <2>3. CASE UNCHANGED inboxLock
      BY <2>1, <2>2, <2>3 DEF TypeOK, MsgInv, Labels, brokerVars, history
    <2>4. CASE /\ l # "ack"
               /\ inboxLock' = [inboxLock EXCEPT ![InboxKey(msg[c])] = c]
      <3>1. TypeOK'
        BY <2>1, <2>2, <2>4 DEF TypeOK, Labels, brokerVars, history
      <3>2. MsgInv'
        BY <2>1, <2>2 DEF TypeOK, MsgInv, brokerVars
      <3>3. QED  BY <3>1, <3>2
    <2>5. CASE InboxKey(msg[c]) \in inbox
      BY <1>4, <2>3, <2>5 DEF SaveProcessedMessage
    <2>6. CASE InboxKey(msg[c]) \notin inbox
      <3>1. l # "ack"
        BY <1>4, <2>1, <2>6 DEF SaveProcessedMessage, Goto, TypeOK
      <3>2. QED
        BY <1>4, <2>4, <2>6, <3>1 DEF SaveProcessedMessage
    <2>7. QED  BY <2>5, <2>6
  <1>5. ASSUME NEW c \in Consumers, GetUserById(c)
        PROVE  TypeOK' /\ MsgInv'
    <2>1. PICK l \in {"requeue", "email"} :
            /\ pc' = [pc EXCEPT ![c] = l]
            /\ \/ Rollback(c) /\ l = "requeue"
               \/ UNCHANGED <<inboxLock, dropped>> /\ l = "email"
      <3>1. CASE Poison(msg[c])
        BY <1>5, <3>1 DEF GetUserById, Goto
      <3>2. CASE ~Poison(msg[c])
        BY <1>5, <3>2 DEF GetUserById, Goto
      <3>3. QED  BY <3>1, <3>2
    <2>2. /\ pc[c] = "user" /\ msg[c] \in Messages
          /\ UNCHANGED <<brokerVars, connected, msg, inbox, history>>
      BY <1>5 DEF GetUserById, MsgInv
    <2>3. MsgInv'
      BY <2>1, <2>2 DEF MsgInv, TypeOK, brokerVars
    <2>4. TypeOK'
      <3>1. CASE Rollback(c) /\ l = "requeue"
        BY <2>1, <2>2, <3>1 DEF Rollback, Unlock, TypeOK, Labels, brokerVars, history
      <3>2. CASE l = "email" /\ UNCHANGED <<inboxLock, dropped>>
        BY <2>1, <2>2, <3>2 DEF TypeOK, Labels, brokerVars, history
      <3>3. QED  BY <2>1, <3>1, <3>2
    <2>5. QED  BY <2>3, <2>4
  <1>6. ASSUME NEW c \in Consumers, SendEmail(c)
        PROVE  TypeOK' /\ MsgInv'
    <2>1. emails' \in [Messages -> Nat]
      <3>1. msg[c] \in Messages
        BY <1>6 DEF SendEmail, MsgInv
      <3>2. QED
        BY <1>6, <3>1 DEF SendEmail, TypeOK
    <2>2. QED
      BY <1>6, <2>1
         DEF SendEmail, Goto, TypeOK, MsgInv, Labels, brokerVars, inboxVars, history
  <1>7. ASSUME NEW c \in Consumers, Commit(c) \/ CommitReplyLost(c)
        PROVE  TypeOK' /\ MsgInv'
    <2>1. inbox' \subseteq InboxKeys
      BY <1>7 DEF Commit, CommitReplyLost, TypeOK, MsgInv
    <2>2. failures' \in 0..MaxFailures
      BY <1>7 DEF Commit, CommitReplyLost, Fail, CanFail, TypeOK, history
    <2>3. PICK l \in {"ack", "requeue"} : pc' = [pc EXCEPT ![c] = l]
      BY <1>7 DEF Commit, CommitReplyLost, Goto
    <2>4. /\ pc[c] = "commit" /\ Rollback(c)
          /\ UNCHANGED <<brokerVars, connected, msg, published, emails>>
      BY <1>7 DEF Commit, CommitReplyLost, history
    <2>5. TypeOK'
      BY <2>1, <2>2, <2>3, <2>4 DEF Rollback, Unlock, TypeOK, Labels, brokerVars
    <2>6. MsgInv'
      BY <2>3, <2>4 DEF TypeOK, MsgInv, brokerVars
    <2>7. QED  BY <2>5, <2>6
  <1>8. ASSUME NEW c \in Consumers, StepFails(c) \/ SendEmailFails(c)
        PROVE  TypeOK' /\ MsgInv'
    <2>1. failures' \in 0..MaxFailures
      BY <1>8 DEF StepFails, SendEmailFails, Fail, CanFail, TypeOK
    <2>2. emails' \in [Messages -> Nat]
      <3>1. emails \in [Messages -> Nat]
        BY DEF TypeOK
      <3>2. msg[c] \in Messages
        BY <1>8 DEF StepFails, SendEmailFails, MsgInv
      <3>3. emails' = emails \/ emails' = [emails EXCEPT ![msg[c]] = @ + 1]
        BY <1>8 DEF StepFails, SendEmailFails
      <3>4. QED  BY <3>1, <3>2, <3>3
    <2>3. /\ pc[c] # "idle" /\ pc' = [pc EXCEPT ![c] = "requeue"] /\ Rollback(c)
          /\ UNCHANGED <<brokerVars, connected, msg, inbox, published>>
      BY <1>8 DEF StepFails, SendEmailFails, Goto
    <2>4. TypeOK'
      BY <2>1, <2>2, <2>3 DEF Rollback, Unlock, TypeOK, Labels, brokerVars
    <2>5. MsgInv'
      BY <2>3 DEF TypeOK, MsgInv, brokerVars
    <2>6. QED  BY <2>4, <2>5
  <1>9. ASSUME NEW c \in Consumers, Ack(c) \/ Reject(c) \/ Requeue(c)
        PROVE  TypeOK' /\ MsgInv'
    <2>1. msg[c] \in Messages /\ pc[c] \in {"ack", "reject", "requeue"}
      BY <1>9 DEF Ack, Reject, Requeue, MsgInv
    <2>2. channel' \in [Consumers -> Seq(Messages)]
      <3>1. CASE connected[c] /\ Settle(c)
        <4>1. Tail(channel[c]) \in Seq(Messages)
          BY <3>1, <2>1 DEF TypeOK, MsgInv
        <4>2. QED  BY <3>1, <4>1 DEF Settle, TypeOK
      <3>2. CASE UNCHANGED channel
        BY <3>2 DEF TypeOK
      <3>3. QED  BY <1>9, <3>1, <3>2 DEF Ack, Reject, Requeue
    <2>3. queue' \in Seq(Messages) /\ dlq' \subseteq Messages
      <3>1. <<msg[c]>> \o queue \in Seq(Messages)
        BY <2>1 DEF TypeOK
      <3>2. QED
        BY <1>9, <2>1, <3>1 DEF Ack, Reject, Requeue, DeadLetter, TypeOK
    <2>4. /\ pc' = [pc EXCEPT ![c] = "idle"] /\ msg' = [msg EXCEPT ![c] = NoMessage]
          /\ UNCHANGED <<connected, inboxVars, history>>
          /\ \A d \in Consumers \ {c} : channel'[d] = channel[d]
      BY <1>9 DEF Ack, Reject, Requeue, Settle, Done, Goto, TypeOK
    <2>5. TypeOK'
      BY <2>1, <2>2, <2>3, <2>4 DEF TypeOK, Labels, inboxVars, history
    <2>6. MsgInv'
      BY <2>4 DEF TypeOK, MsgInv
    <2>7. QED  BY <2>5, <2>6
  <1>10. ASSUME NEW c \in Consumers, ConnectionLost(c)
         PROVE  TypeOK' /\ MsgInv'
    <2>1. failures' \in 0..MaxFailures
      BY <1>10 DEF ConnectionLost, Fail, CanFail, TypeOK
    <2>2. queue' \in Seq(Messages) /\ channel' \in [Consumers -> Seq(Messages)]
      BY <1>10, RequeueAllType DEF ConnectionLost
    <2>3. TypeOK'
      BY <1>10, <2>1, <2>2 DEF ConnectionLost, TypeOK, inboxVars
    <2>4. MsgInv'
      BY <1>10 DEF ConnectionLost, RequeueAll, TypeOK, MsgInv
    <2>5. QED  BY <2>3, <2>4
  <1>11. ASSUME NEW c \in Consumers, Crash(c)
         PROVE  TypeOK' /\ MsgInv'
    <2>1. failures' \in 0..MaxFailures
      BY <1>11 DEF Crash, Fail, CanFail, TypeOK
    <2>2. queue' \in Seq(Messages) /\ channel' \in [Consumers -> Seq(Messages)]
      BY <1>11, RequeueAllType DEF Crash
    <2>3. TypeOK'
      <3>1. /\ pc' = [pc EXCEPT ![c] = "idle"] /\ msg' = [msg EXCEPT ![c] = NoMessage]
            /\ dropped' = dropped \ {c} /\ connected' = [connected EXCEPT ![c] = FALSE]
            /\ inboxLock' = [k \in InboxKeys |->
                               IF inboxLock[k] = c THEN NoConsumer ELSE inboxLock[k]]
            /\ UNCHANGED <<dlq, inbox, published, emails>>
        BY <1>11 DEF Crash, Rollback, Unlock, Done, Goto
      <3>2. QED
        BY <2>1, <2>2, <3>1 DEF TypeOK, Labels
    <2>4. MsgInv'
      BY <1>11 DEF Crash, RequeueAll, Done, Goto, TypeOK, MsgInv
    <2>5. QED  BY <2>3, <2>4
  <1>12. ASSUME NEW c \in Consumers, Restart(c)
         PROVE  TypeOK' /\ MsgInv'
    BY <1>12 DEF Restart, TypeOK, MsgInv, brokerVars, inboxVars, history
  <1>13. ASSUME NEW c \in Consumers, DatabaseLost(c)
         PROVE  TypeOK' /\ MsgInv'
    <2>1. failures' \in 0..MaxFailures
      BY <1>13 DEF DatabaseLost, Fail, CanFail, TypeOK
    <2>2. TypeOK'
      BY <1>13, <2>1 DEF DatabaseLost, Unlock, TypeOK, brokerVars
    <2>3. MsgInv'
      BY <1>13 DEF DatabaseLost, TypeOK, MsgInv, brokerVars
    <2>4. QED  BY <2>2, <2>3
  <1>14. CASE UNCHANGED vars
    BY <1>14 DEF vars, brokerVars, inboxVars, history, TypeOK, MsgInv
  <1>15. QED
    BY <1>1, <1>2, <1>3, <1>4, <1>5, <1>6, <1>7, <1>8, <1>9, <1>10, <1>11, <1>12, <1>13, <1>14
       DEF Next, Handle, Trouble

(* In every reachable state the variables have their types, and an         *)
(* uncommitted inbox row belongs to a consumer that handles its event in a *)
(* transaction.                                                            *)
THEOREM NotificationTypeCorrect == Spec => []TypeOK
  <1>1. Init => TypeOK /\ MsgInv
    BY TypeInit DEF Init, MsgInv
  <1>2. QED  BY <1>1, TypeStep, PTL DEF Spec
-------------------------------------------------------------------------------
(* The inductive invariant *)

Owns(c) ==
  /\ (Working(c) /\ c \notin dropped) =>
       inboxLock[InboxKey(msg[c])] = c /\ InboxKey(msg[c]) \notin inbox
  /\ pc[c] = "commit" => emails[msg[c]] > 0

Budget(m) ==
  emails[m] + Cardinality(Late(m)) <= failures + (IF Covered(m) THEN 1 ELSE 0)

Control ==
  /\ \A c \in Consumers : Owns(c)
  /\ ProcessedWasEmailed
  /\ \A m \in Messages : Budget(m)

Delivery == NothingLost /\ \A c \in Consumers : SettledWell(c)

(* The invariant in the form in which the proof uses it. *)
LEMMA IInvParts == IInv <=> TypeOK /\ MsgInv /\ Control /\ Delivery
  BY DEF IInv, MsgInv, Control, Delivery, ConsumerInv, Owns, Budget

(* Different events have different inbox entries. *)
LEMMA KeyInjective == \A m, n \in Messages : InboxKey(m) = InboxKey(n) => m = n
  BY NotificationAssumption DEF InboxKey

(* There are finitely many late emails to come. *)
LEMMA LateFinite ==
  ASSUME TypeOK, NEW m \in Messages
  PROVE  /\ IsFiniteSet(Late(m)) /\ Cardinality(Late(m)) \in Nat
         /\ emails[m] \in Nat /\ failures \in Nat
  <1>1. IsFiniteSet(Late(m))
    BY NotificationAssumption, FS_Subset DEF Late, TypeOK
  <1>2. QED
    BY <1>1, FS_CardinalityType, NotificationAssumption DEF TypeOK

(* The account of an event's emails when none is sent: a failure pays for  *)
(* the email that is no longer covered, or for the one that becomes late.  *)
LEMMA QuietBudget ==
  ASSUME TypeOK, TypeOK', NEW m \in Messages, Budget(m), emails'[m] = emails[m],
         \/ /\ Late(m)' \subseteq Late(m) /\ failures' >= failures
            /\ (Covered(m) => Covered(m)') \/ failures' = failures + 1
         \/ /\ \E c \in Consumers : Late(m)' \subseteq Late(m) \union {c}
            /\ Covered(m) => Covered(m)'
            /\ failures' = failures + 1
  PROVE  Budget(m)'
  <1>1. /\ IsFiniteSet(Late(m)) /\ Cardinality(Late(m)) \in Nat
        /\ emails[m] \in Nat /\ failures \in Nat
    BY LateFinite
  <1>2. /\ Cardinality(Late(m)') \in Nat /\ failures' \in Nat
    <2>1. IsFiniteSet(Late(m)')
      BY NotificationAssumption, FS_Subset DEF Late, TypeOK
    <2>2. QED
      BY <2>1, FS_CardinalityType, NotificationAssumption DEF TypeOK
  <1>3. Budget(m)' <=>
          emails[m] + Cardinality(Late(m)') <= failures' + (IF Covered(m)' THEN 1 ELSE 0)
    BY DEF Budget
  <1>4. CASE /\ Late(m)' \subseteq Late(m) /\ failures' >= failures
             /\ (Covered(m) => Covered(m)') \/ failures' = failures + 1
    <2>1. Cardinality(Late(m)') <= Cardinality(Late(m))
      BY <1>1, <1>4, FS_Subset
    <2>2. QED
      BY <1>1, <1>2, <1>3, <1>4, <2>1 DEF Budget
  <1>5. CASE /\ \E c \in Consumers : Late(m)' \subseteq Late(m) \union {c}
             /\ Covered(m) => Covered(m)'
             /\ failures' = failures + 1
    <2>1. PICK c \in Consumers : Late(m)' \subseteq Late(m) \union {c}
      BY <1>5
    <2>2. /\ IsFiniteSet(Late(m) \union {c})
          /\ Cardinality(Late(m) \union {c}) \in {Cardinality(Late(m)), Cardinality(Late(m)) + 1}
      BY <1>1, FS_AddElement
    <2>3. Cardinality(Late(m)') <= Cardinality(Late(m) \union {c})
      BY <2>1, <2>2, FS_Subset
    <2>4. Cardinality(Late(m)') <= Cardinality(Late(m)) + 1
      BY <1>1, <1>2, <2>2, <2>3
    <2>5. QED
      BY <1>1, <1>2, <1>3, <1>5, <2>4 DEF Budget
  <1>6. QED  BY <1>4, <1>5

(* The account when an email is sent: it is the one that is covered from   *)
(* now on, or a failure pays for it, or it was late and is so no more.     *)
LEMMA SendBudget ==
  ASSUME TypeOK, TypeOK', NEW m \in Messages, Budget(m), emails'[m] = emails[m] + 1,
         Late(m)' \subseteq Late(m), failures' >= failures,
         \/ ~Covered(m) /\ Covered(m)'
         \/ ~Covered(m) /\ failures' = failures + 1
         \/ /\ Covered(m) => Covered(m)'
            /\ failures' = failures + 1 \/ Late(m)' # Late(m)
  PROVE  Budget(m)'
  <1>1. /\ IsFiniteSet(Late(m)) /\ Cardinality(Late(m)) \in Nat
        /\ emails[m] \in Nat /\ failures \in Nat
    BY LateFinite
  <1>2. /\ IsFiniteSet(Late(m)') /\ Cardinality(Late(m)') \in Nat /\ failures' \in Nat
    <2>1. IsFiniteSet(Late(m)')
      BY <1>1, FS_Subset
    <2>2. QED
      BY <2>1, FS_CardinalityType, NotificationAssumption DEF TypeOK
  <1>3. /\ Cardinality(Late(m)') <= Cardinality(Late(m))
        /\ Late(m)' # Late(m) => Cardinality(Late(m)') < Cardinality(Late(m))
    <2>1. /\ Cardinality(Late(m)') <= Cardinality(Late(m))
          /\ Cardinality(Late(m)) = Cardinality(Late(m)') => Late(m) = Late(m)'
      BY <1>1, FS_Subset, Zenon
    <2>2. QED  BY <1>1, <1>2, <2>1
  <1>4. Budget(m)' <=>
          emails[m] + 1 + Cardinality(Late(m)') <= failures' + (IF Covered(m)' THEN 1 ELSE 0)
    BY DEF Budget
  <1>5. QED
    BY <1>1, <1>2, <1>3, <1>4 DEF Budget

(* Steps outside the consumer's transaction: they touch neither the inbox  *)
(* nor the emails.                                                         *)
LEMMA QuietStep ==
  ASSUME TypeOK, TypeOK', Control, UNCHANGED <<inboxVars, emails>>, failures' >= failures,
         \A d \in Consumers : \/ pc'[d] = pc[d] /\ msg'[d] = msg[d]
                              \/ {pc[d], pc'[d]} \intersect {"user", "email", "commit"} = {}
  PROVE  Control'
  <1>1. \A d \in Consumers : Owns(d)'
    BY DEF Control, Owns, Working, inboxVars
  <1>2. ProcessedWasEmailed'
    BY DEF Control, ProcessedWasEmailed, inboxVars
  <1>3. ASSUME NEW m \in Messages
        PROVE  Budget(m)'
    <2>1. Covered(m) => Covered(m)'
      BY DEF Covered, inboxVars
    <2>2. Late(m)' \subseteq Late(m)
      BY DEF Late, TypeOK, inboxVars
    <2>3. QED
      BY <2>1, <2>2, QuietBudget DEF Control
  <1>4. QED  BY <1>1, <1>2, <1>3 DEF Control

(* The insert takes the entry of an event nobody is working on. *)
LEMMA SaveStep ==
  ASSUME TypeOK, TypeOK', MsgInv, Control, NEW c \in Consumers, SaveProcessedMessage(c)
  PROVE  Control'
  <1> USE NotificationAssumption
  <1> DEFINE k == InboxKey(msg[c])
  <1>1. /\ pc[c] = "save" /\ msg[c] \in Messages /\ k \in InboxKeys
        /\ inboxLock[k] = NoConsumer
        /\ UNCHANGED <<msg, inbox, dropped, emails, failures>>
        /\ \A d \in Consumers \ {c} : pc'[d] = pc[d]
    BY KeyType DEF SaveProcessedMessage, MsgInv, Goto, TypeOK, history
  <1>2. CASE k \in inbox
    <2>1. pc'[c] = "ack" /\ UNCHANGED inboxLock
      BY <1>2 DEF SaveProcessedMessage, Goto, TypeOK
    <2>2. failures' >= failures
      BY <1>1 DEF TypeOK
    <2>3. QED
      BY <1>1, <2>1, <2>2, QuietStep DEF inboxVars
  <1>3. CASE k \notin inbox
    <2>1. /\ inboxLock' = [inboxLock EXCEPT ![k] = c]
          /\ pc'[c] \in {"user", "email"}
      BY <1>1, <1>3 DEF SaveProcessedMessage, Goto, TypeOK
    <2>2. ASSUME NEW d \in Consumers
          PROVE  Owns(d)'
      <3>1. CASE d = c
        BY <1>1, <1>3, <2>1, <3>1 DEF Owns, TypeOK
      <3>2. CASE d # c
        <4>1. Owns(d) /\ (Working(d) /\ d \notin dropped => InboxKey(msg[d]) # k)
          BY <1>1 DEF Control, Owns
        <4>2. Working(d)' = Working(d) /\ pc'[d] = pc[d]
          BY <1>1, <3>2 DEF Working
        <4>3. QED
          BY <1>1, <2>1, <4>1, <4>2 DEF Owns, TypeOK
      <3>3. QED  BY <3>1, <3>2
    <2>3. ProcessedWasEmailed'
      BY <1>1 DEF Control, ProcessedWasEmailed
    <2>4. ASSUME NEW m \in Messages
          PROVE  Budget(m)'
      <3>1. Covered(m)' <=> Covered(m)
        BY <1>1, <2>1 DEF Covered
      <3>2. c \notin dropped
        BY <1>1 DEF TypeOK, Working
      <3>3. Late(m)' = Late(m)
        BY <1>1, <3>2 DEF Late, TypeOK
      <3>4. QED  BY <1>1, <3>1, <3>3 DEF Control, Budget
    <2>5. QED  BY <2>2, <2>3, <2>4 DEF Control
  <1>4. QED  BY <1>2, <1>3

(* What happens to the transaction of c leaves the others their entries.   *)
LEMMA OthersKeep ==
  ASSUME TypeOK, MsgInv, NEW c \in Consumers, NEW d \in Consumers \ {c},
         Owns(d), Owns(c),
         pc'[d] = pc[d], msg'[d] = msg[d], d \notin dropped' => d \notin dropped,
         Unlock(c) \/ UNCHANGED inboxLock,
         \/ inbox' = inbox
         \/ Working(c) /\ c \notin dropped /\ inbox' = inbox \union {InboxKey(msg[c])},
         \A m \in Messages : emails[m] > 0 => emails'[m] > 0
  PROVE  Owns(d)'
  <1>1. CASE Working(d)
    <2>1. msg[d] \in Messages /\ InboxKey(msg[d]) \in InboxKeys
      BY <1>1, KeyType DEF Working, MsgInv
    <2>2. ASSUME d \notin dropped'
          PROVE  inboxLock'[InboxKey(msg[d])] = d /\ InboxKey(msg[d]) \notin inbox'
      <3>1. inboxLock[InboxKey(msg[d])] = d /\ InboxKey(msg[d]) \notin inbox
        BY <1>1, <2>2 DEF Owns
      <3>2. inboxLock'[InboxKey(msg[d])] = d
        BY <2>1, <3>1 DEF Unlock, TypeOK
      <3>3. InboxKey(msg[d]) \notin inbox'
        BY <3>1 DEF Owns
      <3>4. QED  BY <3>2, <3>3
    <2>3. QED
      BY <2>1, <2>2 DEF Owns, Working
  <1>2. CASE ~Working(d)
    BY <1>2 DEF Owns, Working
  <1>3. QED  BY <1>1, <1>2

(* While a consumer is about to send an email in its transaction, no       *)
(* earlier one has done its work.                                          *)
LEMMA EmailUncovered ==
  ASSUME TypeOK, MsgInv, Control, NEW c \in Consumers, pc[c] = "email"
  PROVE  msg[c] \in Messages /\ (c \notin dropped => ~Covered(msg[c]))
  BY DEF MsgInv, Control, Owns, Working, Covered

(* Rolling back gives up the entry, and a failure pays for the email that  *)
(* may have left.                                                          *)
LEMMA RollbackStep ==
  ASSUME TypeOK, TypeOK', MsgInv, Control, NEW c \in Consumers, UNCHANGED inbox,
         \/ Rollback(c) /\ pc'[c] \notin {"user", "email", "commit"}
         \/ UNCHANGED <<inboxLock, dropped, msg>> /\ pc[c] = "user" /\ pc'[c] = "email",
         \A d \in Consumers \ {c} : pc'[d] = pc[d] /\ msg'[d] = msg[d],
         \/ failures' = failures + 1 /\ emails' = emails
         \/ failures' = failures /\ emails' = emails /\ (pc[c] # "commit" \/ c \in dropped)
         \/ /\ failures' = failures + 1 /\ pc[c] = "email"
            /\ emails' = [emails EXCEPT ![msg[c]] = @ + 1]
  PROVE  Control'
  <1> USE NotificationAssumption
  <1>1. \A m \in Messages : emails[m] \in Nat /\ emails'[m] \in Nat /\ emails'[m] >= emails[m]
    <2>1. emails \in [Messages -> Nat] /\ emails' \in [Messages -> Nat]
      BY DEF TypeOK
    <2>2. emails' = emails \/ emails' = [emails EXCEPT ![msg[c]] = @ + 1]
      OBVIOUS
    <2>3. QED  BY <2>1, <2>2
  <1>2. failures \in Nat /\ failures' >= failures
    BY DEF TypeOK
  <1>3. ASSUME NEW d \in Consumers
        PROVE  Owns(d)'
    <2>1. CASE d = c
      BY <2>1 DEF Control, Owns, Working
    <2>2. CASE d # c
      <3>1. Unlock(c) \/ UNCHANGED inboxLock
        BY DEF Rollback
      <3>2. d \notin dropped' => d \notin dropped
        BY <2>2 DEF Rollback
      <3>3. QED
        BY <1>1, <2>2, <3>1, <3>2, OthersKeep DEF Control
    <2>3. QED  BY <2>1, <2>2
  <1>4. ProcessedWasEmailed'
    BY <1>1 DEF Control, ProcessedWasEmailed
  <1>5. ASSUME NEW m \in Messages
        PROVE  Budget(m)'
    <2>1. Budget(m)
      BY DEF Control
    <2>2. Late(m)' \subseteq Late(m)
      <3>1. CASE Rollback(c)
        BY <3>1 DEF Rollback, Late, TypeOK
      <3>2. CASE UNCHANGED <<dropped, msg>> /\ pc[c] = "user"
        BY <3>2 DEF Late, TypeOK
      <3>3. QED  BY <3>1, <3>2
    <2>3. CASE pc[c] # "commit" \/ c \in dropped
      <3>1. Covered(m) => Covered(m)'
        BY <2>3 DEF Covered, Rollback
      <3>2. CASE emails' = emails
        BY <1>2, <2>1, <2>2, <3>1, <3>2, QuietBudget
      <3>3. CASE emails' # emails /\ m = msg[c]
        <4>1. emails'[m] = emails[m] + 1 /\ failures' = failures + 1
          BY <3>3 DEF TypeOK
        <4>2. QED
          BY <1>2, <2>1, <2>2, <3>1, <4>1, SendBudget
      <3>4. CASE emails' # emails /\ m # msg[c]
        <4>1. emails'[m] = emails[m]
          BY <3>4 DEF TypeOK
        <4>2. QED
          BY <1>2, <2>1, <2>2, <3>1, <4>1, QuietBudget
      <3>5. QED  BY <3>2, <3>3, <3>4
    <2>4. CASE pc[c] = "commit" /\ c \notin dropped
      <3>1. emails' = emails /\ failures' = failures + 1
        BY <2>4
      <3>2. QED
        BY <1>2, <2>1, <2>2, <3>1, QuietBudget
    <2>5. QED  BY <2>3, <2>4
  <1>6. QED  BY <1>3, <1>4, <1>5 DEF Control

(* The email uses up the one an event has without a failure, or it is      *)
(* late, and paid for already.                                             *)
LEMMA SendStep ==
  ASSUME TypeOK, TypeOK', MsgInv, Control, NEW c \in Consumers, SendEmail(c)
  PROVE  Control'
  <1> USE NotificationAssumption
  <1>1. /\ pc[c] = "email" /\ pc'[c] = "commit"
        /\ msg[c] \in Messages /\ (c \notin dropped => ~Covered(msg[c]))
        /\ emails'[msg[c]] = emails[msg[c]] + 1
        /\ \A m \in Messages \ {msg[c]} : emails'[m] = emails[m]
        /\ \A d \in Consumers \ {c} : pc'[d] = pc[d]
        /\ UNCHANGED <<msg, inbox, inboxLock, dropped, failures>>
    BY EmailUncovered DEF SendEmail, Goto, TypeOK, inboxVars
  <1>2. failures' >= failures /\ \A m \in Messages : emails[m] \in Nat
    BY <1>1 DEF TypeOK
  <1>3. ASSUME NEW d \in Consumers
        PROVE  Owns(d)'
    <2>1. CASE d = c
      <3>1. emails'[msg[c]] > 0
        BY <1>1, <1>2
      <3>2. QED
        BY <1>1, <2>1, <3>1 DEF Control, Owns, Working
    <2>2. CASE d # c
      <3>1. \A m \in Messages : emails[m] > 0 => emails'[m] > 0
        BY <1>1, <1>2
      <3>2. QED
        BY <1>1, <2>2, <3>1, OthersKeep DEF Control
    <2>3. QED  BY <2>1, <2>2
  <1>4. ProcessedWasEmailed'
    BY <1>1, <1>2 DEF Control, ProcessedWasEmailed
  <1>5. ASSUME NEW m \in Messages
        PROVE  Budget(m)'
    <2>1. Budget(m) /\ Late(m)' \subseteq Late(m)
      BY <1>1 DEF Control, Late, TypeOK
    <2>2. Covered(m) => Covered(m)'
      BY <1>1 DEF Covered
    <2>3. CASE m # msg[c]
      BY <1>1, <1>2, <2>1, <2>2, <2>3, QuietBudget
    <2>4. CASE m = msg[c] /\ c \notin dropped
      <3>1. ~Covered(m) /\ Covered(m)'
        BY <1>1, <2>4 DEF Covered
      <3>2. QED
        BY <1>1, <1>2, <2>1, <2>4, <3>1, SendBudget
    <2>5. CASE m = msg[c] /\ c \in dropped
      <3>1. c \in Late(m) /\ c \notin Late(m)'
        BY <1>1, <2>5 DEF Late
      <3>2. QED
        BY <1>1, <1>2, <2>1, <2>2, <2>5, <3>1, SendBudget
    <2>6. QED  BY <2>3, <2>4, <2>5
  <1>6. QED  BY <1>3, <1>4, <1>5 DEF Control

(* A COMMIT records an event whose email has left; without a transaction   *)
(* it records nothing.                                                     *)
LEMMA CommitStep ==
  ASSUME TypeOK, TypeOK', MsgInv, Control, NEW c \in Consumers, Commit(c) \/ CommitReplyLost(c)
  PROVE  Control'
  <1> USE NotificationAssumption
  <1>1. /\ pc[c] = "commit" /\ pc'[c] \in {"ack", "requeue"}
        /\ Rollback(c)
        /\ \A d \in Consumers \ {c} : pc'[d] = pc[d]
        /\ UNCHANGED <<msg, emails>>
    BY DEF Commit, CommitReplyLost, Goto, TypeOK, history
  <1>2. failures' >= failures /\ \A m \in Messages : emails[m] \in Nat
    BY DEF Commit, CommitReplyLost, Fail, TypeOK, history
  <1>3. msg[c] \in Messages /\ emails[msg[c]] > 0
    BY <1>1 DEF MsgInv, Control, Owns
  <1>4. CASE c \in dropped
    <2>1. UNCHANGED inbox /\ failures' = failures
      BY <1>4 DEF Commit, CommitReplyLost, history
    <2>2. QED
      BY <1>1, <1>4, <2>1, RollbackStep
  <1>5. CASE c \notin dropped
    <2>1. inbox' = inbox \union {InboxKey(msg[c])} /\ Unlock(c) /\ dropped' = dropped
      BY <1>5 DEF Commit, CommitReplyLost, Rollback
    <2>2. ASSUME NEW d \in Consumers
          PROVE  Owns(d)'
      <3>1. CASE d = c
        BY <1>1, <3>1 DEF Owns, Working
      <3>2. CASE d # c
        BY <1>1, <1>5, <2>1, <3>2, OthersKeep DEF Control, Working
      <3>3. QED  BY <3>1, <3>2
    <2>3. ProcessedWasEmailed'
      BY <1>1, <1>3, <2>1, KeyInjective DEF Control, ProcessedWasEmailed
    <2>4. ASSUME NEW m \in Messages
          PROVE  Budget(m)'
      <3>1. Covered(m) => Covered(m)'
        BY <1>1, <2>1 DEF Covered
      <3>2. Late(m)' \subseteq Late(m)
        BY <1>1, <2>1 DEF Late, TypeOK
      <3>3. QED
        BY <1>1, <1>2, <3>1, <3>2, QuietBudget DEF Control
    <2>5. QED  BY <2>2, <2>3, <2>4 DEF Control
  <1>6. QED  BY <1>4, <1>5

(* The loss of a transaction frees its entry; the failure pays for the     *)
(* email that may yet go out.                                              *)
LEMMA DropStep ==
  ASSUME TypeOK, TypeOK', MsgInv, Control, NEW c \in Consumers, DatabaseLost(c)
  PROVE  Control'
  <1> USE NotificationAssumption
  <1>1. /\ Unlock(c) /\ dropped' = dropped \union {c} /\ failures' = failures + 1
        /\ UNCHANGED <<pc, msg, inbox, emails>>
    BY DEF DatabaseLost, Fail
  <1>2. failures' >= failures
    BY <1>1 DEF TypeOK
  <1>3. ASSUME NEW d \in Consumers
        PROVE  Owns(d)'
    <2>1. CASE d = c
      BY <1>1, <2>1 DEF Control, Owns
    <2>2. CASE d # c
      BY <1>1, <2>2, OthersKeep DEF Control
    <2>3. QED  BY <2>1, <2>2
  <1>4. ProcessedWasEmailed'
    BY <1>1 DEF Control, ProcessedWasEmailed
  <1>5. ASSUME NEW m \in Messages
        PROVE  Budget(m)'
    <2>1. Budget(m)
      BY DEF Control
    <2>2. CASE pc[c] = "commit"
      <3>1. Late(m)' \subseteq Late(m)
        BY <1>1, <2>2 DEF Late
      <3>2. QED
        BY <1>1, <1>2, <2>1, <3>1, QuietBudget
    <2>3. CASE pc[c] # "commit"
      <3>1. Late(m)' \subseteq Late(m) \union {c}
        BY <1>1 DEF Late
      <3>2. Covered(m) => Covered(m)'
        BY <1>1, <2>3 DEF Covered
      <3>3. QED
        BY <1>1, <2>1, <3>1, <3>2, QuietBudget
    <2>4. QED  BY <2>2, <2>3
  <1>6. QED  BY <1>3, <1>4, <1>5 DEF Control

(* Every step of broker and consumers keeps the invariant. *)
LEMMA ControlStep == TypeOK /\ TypeOK' /\ MsgInv /\ Control /\ [Next]_vars => Control'
  <1> SUFFICES ASSUME TypeOK, TypeOK', MsgInv, Control, [Next]_vars
               PROVE  Control'
    OBVIOUS
  <1>0. failures \in Nat /\ failures >= failures
    BY NotificationAssumption DEF TypeOK
  <1>1. ASSUME NEW m \in Messages, Publish(m)
        PROVE  Control'
    BY <1>0, <1>1, QuietStep DEF Publish
  <1>2. ASSUME NEW c \in Consumers, Deliver(c) \/ Restart(c) \/ ConnectionLost(c)
        PROVE  Control'
    <2>1. failures' \in {failures, failures + 1}
      BY <1>2 DEF Deliver, Restart, ConnectionLost, Fail, history
    <2>2. UNCHANGED <<pc, msg, inboxVars, emails>>
      BY <1>2 DEF Deliver, Restart, ConnectionLost, history
    <2>3. failures' >= failures
      BY <1>0, <2>1
    <2>4. QED  BY <2>2, <2>3, QuietStep
  <1>3. ASSUME NEW c \in Consumers, Receive(c) \/ Ack(c) \/ Reject(c) \/ Requeue(c)
        PROVE  Control'
    <2>1. /\ UNCHANGED <<inboxVars, emails, failures>>
          /\ \A d \in Consumers \ {c} : pc'[d] = pc[d] /\ msg'[d] = msg[d]
      BY <1>3 DEF Receive, Ack, Reject, Requeue, Done, Goto, TypeOK, history
    <2>2. pc[c] \in {"idle", "ack", "reject", "requeue"}
      BY <1>3 DEF Receive, Ack, Reject, Requeue
    <2>3. pc'[c] \in {"idle", "ack", "reject", "save"}
      <3>1. CASE Receive(c)
        <4>1. CASE Ignored(Head(channel[c]))
          BY <3>1, <4>1 DEF Receive, Goto, Ignored, Fatal, TypeOK
        <4>2. CASE Fatal(Head(channel[c]))
          BY <3>1, <4>2 DEF Receive, Goto, Ignored, Fatal, TypeOK
        <4>3. CASE ~Ignored(Head(channel[c])) /\ ~Fatal(Head(channel[c]))
          BY <3>1, <4>3 DEF Receive, Goto, TypeOK
        <4>4. QED  BY <4>1, <4>2, <4>3
      <3>2. CASE Ack(c) \/ Reject(c) \/ Requeue(c)
        BY <3>2 DEF Ack, Reject, Requeue, Done, Goto, TypeOK
      <3>3. QED  BY <1>3, <3>1, <3>2
    <2>4. QED  BY <1>0, <2>1, <2>2, <2>3, QuietStep
  <1>4. ASSUME NEW c \in Consumers, GetUserById(c)
        PROVE  Control'
    <2>1. /\ pc[c] = "user"
          /\ \A d \in Consumers \ {c} : pc'[d] = pc[d]
          /\ UNCHANGED <<inbox, msg, emails, failures>>
      BY <1>4 DEF GetUserById, Goto, TypeOK, history
    <2>2. \/ Rollback(c) /\ pc'[c] = "requeue"
          \/ UNCHANGED <<inboxLock, dropped>> /\ pc'[c] = "email"
      BY <1>4 DEF GetUserById, Goto, TypeOK
    <2>3. QED  BY <2>1, <2>2, RollbackStep
  <1>5. ASSUME NEW c \in Consumers, StepFails(c) \/ SendEmailFails(c) \/ Crash(c)
        PROVE  Control'
    <2>1. /\ Rollback(c) /\ UNCHANGED inbox /\ failures' = failures + 1
          /\ pc'[c] \in {"requeue", "idle"}
          /\ \A d \in Consumers \ {c} : pc'[d] = pc[d] /\ msg'[d] = msg[d]
      BY <1>5 DEF StepFails, SendEmailFails, Crash, Done, Goto, Fail, TypeOK
    <2>2. \/ emails' = emails
          \/ pc[c] = "email" /\ emails' = [emails EXCEPT ![msg[c]] = @ + 1]
      BY <1>5 DEF StepFails, SendEmailFails, Crash
    <2>3. QED  BY <2>1, <2>2, RollbackStep
  <1>6. CASE UNCHANGED vars
    BY <1>0, <1>6, QuietStep DEF vars, history
  <1>7. QED
    BY <1>1, <1>2, <1>3, <1>4, <1>5, <1>6, SaveStep, SendStep, CommitStep, DropStep
       DEF Next, Handle, Trouble

-------------------------------------------------------------------------------
(* No message is lost *)

(* A message put at the end is added to those of the sequence. *)
LEMMA AppendSet ==
  ASSUME NEW s \in Seq(Messages), NEW m \in Messages
  PROVE  ToSet(Append(s, m)) = ToSet(s) \union {m}
  <1>1. /\ DOMAIN Append(s, m) = 1..(Len(s) + 1) /\ DOMAIN s = 1..Len(s) /\ Len(s) \in Nat
        /\ \A i \in 1..Len(s) : Append(s, m)[i] = s[i]
        /\ Append(s, m)[Len(s) + 1] = m
    OBVIOUS
  <1>2. QED  BY <1>1 DEF ToSet

(* Taking the first message off takes away no other. *)
LEMMA TailSet ==
  ASSUME NEW s \in Seq(Messages), s # <<>>
  PROVE  ToSet(s) = ToSet(Tail(s)) \union {Head(s)}
  <1>1. /\ DOMAIN Tail(s) = 1..(Len(s) - 1) /\ DOMAIN s = 1..Len(s) /\ Len(s) \in Nat \ {0}
        /\ \A i \in 1..(Len(s) - 1) : Tail(s)[i] = s[i + 1]
        /\ Head(s) = s[1]
    OBVIOUS
  <1>2. ASSUME NEW i \in 1..Len(s)
        PROVE  s[i] \in ToSet(Tail(s)) \union {Head(s)}
    <2>1. CASE i = 1
      BY <1>1, <2>1
    <2>2. CASE i # 1
      <3>1. i - 1 \in 1..(Len(s) - 1) /\ Tail(s)[i - 1] = s[i]
        BY <1>1, <2>2
      <3>2. QED  BY <1>1, <3>1 DEF ToSet
    <2>3. QED  BY <2>1, <2>2
  <1>3. \A i \in 1..(Len(s) - 1) : i + 1 \in 1..Len(s)
    BY <1>1
  <1>4. 1 \in 1..Len(s)
    BY <1>1
  <1>5. QED  BY <1>1, <1>2, <1>3, <1>4 DEF ToSet

(* Joined sequences have the messages of both. *)
LEMMA ConcatSet ==
  ASSUME NEW s \in Seq(Messages), NEW t \in Seq(Messages)
  PROVE  ToSet(s \o t) = ToSet(s) \union ToSet(t)
  <1>1. /\ DOMAIN (s \o t) = 1..(Len(s) + Len(t)) /\ DOMAIN s = 1..Len(s) /\ DOMAIN t = 1..Len(t)
        /\ Len(s) \in Nat /\ Len(t) \in Nat
        /\ \A i \in 1..(Len(s) + Len(t)) :
             (s \o t)[i] = IF i <= Len(s) THEN s[i] ELSE t[i - Len(s)]
    OBVIOUS
  <1>2. ASSUME NEW i \in 1..(Len(s) + Len(t))
        PROVE  (s \o t)[i] \in ToSet(s) \union ToSet(t)
    <2>1. CASE i <= Len(s)
      BY <1>1, <2>1 DEF ToSet
    <2>2. CASE i > Len(s)
      <3>1. i - Len(s) \in 1..Len(t) /\ (s \o t)[i] = t[i - Len(s)]
        BY <1>1, <2>2
      <3>2. QED  BY <1>1, <3>1 DEF ToSet
    <2>3. QED  BY <1>1, <2>1, <2>2
  <1>3. ASSUME NEW i \in 1..Len(s)
        PROVE  s[i] \in ToSet(s \o t)
    <2>1. i \in 1..(Len(s) + Len(t)) /\ (s \o t)[i] = s[i]
      BY <1>1
    <2>2. QED  BY <1>1, <2>1 DEF ToSet
  <1>4. ASSUME NEW i \in 1..Len(t)
        PROVE  t[i] \in ToSet(s \o t)
    <2>1. i + Len(s) \in 1..(Len(s) + Len(t)) /\ (s \o t)[i + Len(s)] = t[i]
      BY <1>1
    <2>2. QED  BY <1>1, <2>1 DEF ToSet
  <1>5. QED  BY <1>1, <1>2, <1>3, <1>4 DEF ToSet

(* An empty channel has no messages. *)
LEMMA EmptySet == ToSet(<<>>) = {}
  BY DEF ToSet

(* A step that keeps every message with the broker but those it settles    *)
(* well.                                                                   *)
LEMMA KeepStep ==
  ASSUME TypeOK, Delivery, inbox \subseteq inbox', UNCHANGED published,
         \A m \in Messages : Outstanding(m) =>
            Outstanding(m)' \/ Ignored(m) \/ Fatal(m) \/ InboxKey(m) \in inbox
  PROVE  NothingLost'
  <1> SUFFICES ASSUME NEW m \in Messages, published[m] > 0, ~Fatal(m), ~Ignored(m),
                      ~Outstanding(m)'
               PROVE  InboxKey(m) \in inbox'
    BY DEF NothingLost
  <1>1. CASE Outstanding(m)
    BY <1>1
  <1>2. CASE ~Outstanding(m)
    BY <1>2 DEF Delivery, NothingLost
  <1>3. QED  BY <1>1, <1>2

(* A message moves from the queue to a channel. *)
LEMMA DeliverKeeps ==
  ASSUME TypeOK, NEW c \in Consumers, Deliver(c), NEW m \in Messages, Outstanding(m)
  PROVE  Outstanding(m)'
  <1>1. /\ queue \in Seq(Messages) /\ queue # <<>> /\ queue' = Tail(queue)
        /\ channel[c] \in Seq(Messages) /\ Head(queue) \in Messages
        /\ channel' = [channel EXCEPT ![c] = Append(channel[c], Head(queue))]
    BY DEF Deliver, TypeOK
  <1>2. ToSet(queue) = ToSet(queue') \union {Head(queue)}
    BY <1>1, TailSet
  <1>3. ToSet(channel'[c]) = ToSet(channel[c]) \union {Head(queue)}
    BY <1>1, AppendSet DEF TypeOK
  <1>4. \A d \in Consumers \ {c} : channel'[d] = channel[d]
    BY <1>1 DEF TypeOK
  <1>5. QED
    BY <1>2, <1>3, <1>4 DEF Outstanding

(* A connection is lost and its messages are in the queue again.           *)
LEMMA RequeueAllKeeps ==
  ASSUME TypeOK, NEW c \in Consumers, RequeueAll(c), NEW m \in Messages, Outstanding(m)
  PROVE  Outstanding(m)'
  <1>1. queue \in Seq(Messages) /\ channel[c] \in Seq(Messages)
    BY DEF TypeOK
  <1>2. ToSet(queue') = ToSet(channel[c]) \union ToSet(queue)
    BY <1>1, ConcatSet DEF RequeueAll
  <1>3. \A d \in Consumers \ {c} : channel'[d] = channel[d]
    BY DEF RequeueAll, TypeOK
  <1>4. QED
    BY <1>2, <1>3 DEF Outstanding

(* Settling takes the message in hand away from the broker, and no other.  *)
LEMMA SettleKeeps ==
  ASSUME TypeOK, MsgInv, NEW c \in Consumers, pc[c] # "idle", connected[c], Settle(c),
         queue' = queue \/ queue' = <<msg[c]>> \o queue,
         NEW m \in Messages, Outstanding(m), m # msg[c] \/ queue' # queue
  PROVE  Outstanding(m)'
  <1>1. /\ channel[c] \in Seq(Messages) /\ channel[c] # <<>> /\ Head(channel[c]) = msg[c]
        /\ channel' = [channel EXCEPT ![c] = Tail(channel[c])]
        /\ msg[c] \in Messages /\ queue \in Seq(Messages)
    BY DEF Settle, TypeOK, MsgInv
  <1>2. ToSet(channel[c]) = ToSet(channel'[c]) \union {msg[c]}
    BY <1>1, TailSet DEF TypeOK
  <1>3. \A d \in Consumers \ {c} : channel'[d] = channel[d]
    BY <1>1 DEF TypeOK
  <1>4. CASE queue' = queue
    BY <1>2, <1>3, <1>4 DEF Outstanding
  <1>5. CASE queue' = <<msg[c]>> \o queue
    <2>1. <<msg[c]>> \in Seq(Messages) /\ msg[c] \in ToSet(<<msg[c]>>)
      BY <1>1 DEF ToSet
    <2>2. ToSet(queue') = ToSet(<<msg[c]>>) \union ToSet(queue)
      BY <1>1, <1>5, <2>1, ConcatSet
    <2>3. QED
      BY <1>2, <1>3, <2>1, <2>2 DEF Outstanding
  <1>6. QED  BY <1>4, <1>5

(* A consumer that comes to ack or reject has a reason to. *)
LEMMA SettledStep ==
  ASSUME TypeOK, MsgInv, Delivery, NEW c \in Consumers, inbox \subseteq inbox',
         \A d \in Consumers \ {c} : pc'[d] = pc[d] /\ msg'[d] = msg[d],
         pc'[c] = "ack" => Ignored(msg'[c]) \/ InboxKey(msg'[c]) \in inbox',
         pc'[c] = "reject" => Fatal(msg'[c])
  PROVE  \A d \in Consumers : SettledWell(d)'
  <1> SUFFICES ASSUME NEW d \in Consumers
               PROVE  SettledWell(d)'
    OBVIOUS
  <1>1. CASE d = c
    BY <1>1 DEF SettledWell
  <1>2. CASE d # c
    BY <1>2 DEF Delivery, SettledWell
  <1>3. QED  BY <1>1, <1>2

(* What a consumer does between taking a message and settling it leaves    *)
(* queue and channels alone.                                               *)
LEMMA HandlingDelivery ==
  ASSUME TypeOK, MsgInv, Delivery, NEW c \in Consumers,
         \/ Receive(c) \/ SaveProcessedMessage(c) \/ GetUserById(c) \/ SendEmail(c)
         \/ Commit(c) \/ SendEmailFails(c) \/ CommitReplyLost(c) \/ StepFails(c)
         \/ DatabaseLost(c)
  PROVE  Delivery'
  <1>1. UNCHANGED <<queue, channel, published>>
    BY DEF Receive, SaveProcessedMessage, GetUserById, SendEmail, Commit, SendEmailFails,
           CommitReplyLost, StepFails, DatabaseLost, brokerVars, history
  <1>2. inbox \subseteq inbox'
    BY DEF Receive, SaveProcessedMessage, GetUserById, SendEmail, Commit, SendEmailFails,
           CommitReplyLost, StepFails, DatabaseLost, inboxVars
  <1>3. NothingLost'
    BY <1>1, <1>2, KeepStep DEF Outstanding
  <1>4. \A d \in Consumers \ {c} : pc'[d] = pc[d] /\ msg'[d] = msg[d]
    BY DEF Receive, SaveProcessedMessage, GetUserById, SendEmail, Commit, SendEmailFails,
           CommitReplyLost, StepFails, DatabaseLost, Goto, TypeOK
  <1>5. /\ pc'[c] = "ack" => Ignored(msg'[c]) \/ InboxKey(msg'[c]) \in inbox'
        /\ pc'[c] = "reject" => Fatal(msg'[c])
    <2>1. CASE Receive(c)
      <3>1. msg'[c] = Head(channel[c]) /\ pc' = [pc EXCEPT ![c] = pc'[c]]
        BY <2>1 DEF Receive, Goto, TypeOK
      <3>2. CASE Ignored(Head(channel[c]))
        BY <2>1, <3>1, <3>2 DEF Receive, Goto, Ignored, Fatal, TypeOK
      <3>3. CASE Fatal(Head(channel[c]))
        BY <2>1, <3>1, <3>3 DEF Receive, Goto, Ignored, Fatal, TypeOK
      <3>4. CASE ~Ignored(Head(channel[c])) /\ ~Fatal(Head(channel[c]))
        BY <2>1, <3>1, <3>4 DEF Receive, Goto, TypeOK
      <3>5. QED  BY <3>2, <3>3, <3>4
    <2>2. CASE SaveProcessedMessage(c)
      <3>1. CASE InboxKey(msg[c]) \in inbox
        BY <1>2, <2>2, <3>1 DEF SaveProcessedMessage, Goto, TypeOK
      <3>2. CASE InboxKey(msg[c]) \notin inbox
        BY <2>2, <3>2 DEF SaveProcessedMessage, Goto, TypeOK
      <3>3. QED  BY <3>1, <3>2
    <2>3. CASE GetUserById(c) \/ SendEmail(c) \/ SendEmailFails(c) \/ StepFails(c)
      BY <2>3 DEF GetUserById, SendEmail, SendEmailFails, StepFails, Goto, TypeOK
    <2>4. CASE Commit(c) \/ CommitReplyLost(c)
      BY <2>4 DEF Commit, CommitReplyLost, Goto, TypeOK
    <2>5. CASE DatabaseLost(c)
      BY <2>5 DEF DatabaseLost
    <2>6. QED  BY <2>1, <2>2, <2>3, <2>4, <2>5
  <1>6. QED
    BY <1>2, <1>3, <1>4, <1>5, SettledStep DEF Delivery

(* Ack and reject settle what is dealt with, requeue what is not.          *)
LEMMA SettlingDelivery ==
  ASSUME TypeOK, MsgInv, Delivery, NEW c \in Consumers, Ack(c) \/ Reject(c) \/ Requeue(c)
  PROVE  Delivery'
  <1>1. /\ UNCHANGED <<inbox, published>>
        /\ pc[c] # "idle" /\ pc'[c] = "idle"
        /\ \A d \in Consumers \ {c} : pc'[d] = pc[d] /\ msg'[d] = msg[d]
    BY DEF Ack, Reject, Requeue, Done, Goto, TypeOK, inboxVars, history
  <1>2. ASSUME NEW m \in Messages, Outstanding(m)
        PROVE  Outstanding(m)' \/ Ignored(m) \/ Fatal(m) \/ InboxKey(m) \in inbox
    <2>1. CASE ~connected[c]
      <3>1. UNCHANGED <<queue, channel>>
        BY <2>1 DEF Ack, Reject, Requeue
      <3>2. QED  BY <1>2, <3>1 DEF Outstanding
    <2>2. CASE connected[c] /\ Requeue(c)
      <3>1. CASE queue' = queue
        <4>1. Len(queue') = Len(queue) + 1
          BY <2>2, <1>1 DEF Requeue, TypeOK, MsgInv
        <4>2. Len(queue) \in Nat
          BY DEF TypeOK
        <4>3. QED  BY <3>1, <4>1, <4>2
      <3>2. CASE queue' # queue
        BY <1>1, <1>2, <2>2, <3>2, SettleKeeps DEF Requeue
      <3>3. QED  BY <3>1, <3>2
    <2>3. CASE connected[c] /\ (Ack(c) \/ Reject(c))
      <3>1. Ignored(msg[c]) \/ Fatal(msg[c]) \/ InboxKey(msg[c]) \in inbox
        BY <2>3 DEF Ack, Reject, Delivery, SettledWell
      <3>2. CASE m = msg[c]
        BY <3>1, <3>2
      <3>3. CASE m # msg[c]
        BY <1>1, <1>2, <2>3, <3>3, SettleKeeps DEF Ack, Reject
      <3>4. QED  BY <3>2, <3>3
    <2>4. QED  BY <2>1, <2>2, <2>3
  <1>3. NothingLost'
    BY <1>1, <1>2, KeepStep
  <1>4. QED
    BY <1>1, <1>3, SettledStep DEF Delivery

(* Whatever happens to a message, it stays with the broker until it is     *)
(* dealt with.                                                             *)
LEMMA DeliveryStep == TypeOK /\ MsgInv /\ Delivery /\ [Next]_vars => Delivery'
  <1> SUFFICES ASSUME TypeOK, MsgInv, Delivery, [Next]_vars
               PROVE  Delivery'
    OBVIOUS
  <1>1. ASSUME NEW n \in Messages, Publish(n)
        PROVE  Delivery'
    <2>1. queue \in Seq(Messages)
      BY DEF TypeOK
    <2>2. /\ ToSet(queue') = ToSet(queue) \union {n}
          /\ UNCHANGED <<channel, pc, msg, inbox>>
          /\ \A m \in Messages \ {n} : published'[m] = published[m]
      BY <1>1, <2>1, AppendSet DEF Publish, TypeOK, inboxVars
    <2>3. NothingLost'
      BY <2>2 DEF Delivery, NothingLost, Outstanding
    <2>4. QED
      BY <2>2, <2>3 DEF Delivery, SettledWell
  <1>2. ASSUME NEW c \in Consumers, Deliver(c) \/ ConnectionLost(c)
        PROVE  Delivery'
    <2>1. UNCHANGED <<pc, msg, inbox, published>>
      BY <1>2 DEF Deliver, ConnectionLost, inboxVars, history
    <2>2. \A m \in Messages : Outstanding(m) => Outstanding(m)'
      BY <1>2, DeliverKeeps, RequeueAllKeeps DEF ConnectionLost
    <2>3. NothingLost'
      BY <2>1, <2>2, KeepStep
    <2>4. QED
      BY <2>1, <2>3 DEF Delivery, SettledWell
  <1>3. ASSUME NEW c \in Consumers, Crash(c)
        PROVE  Delivery'
    <2>1. /\ UNCHANGED <<inbox, published>> /\ pc'[c] = "idle"
          /\ \A d \in Consumers \ {c} : pc'[d] = pc[d] /\ msg'[d] = msg[d]
      BY <1>3 DEF Crash, Done, Goto, TypeOK
    <2>2. \A m \in Messages : Outstanding(m) => Outstanding(m)'
      BY <1>3, RequeueAllKeeps DEF Crash
    <2>3. NothingLost'
      BY <2>1, <2>2, KeepStep
    <2>4. QED
      BY <2>1, <2>3, SettledStep DEF Delivery
  <1>4. ASSUME NEW c \in Consumers, Restart(c)
        PROVE  Delivery'
    BY <1>4 DEF Restart, brokerVars, inboxVars, history, Delivery, NothingLost, Outstanding,
                SettledWell
  <1>5. CASE UNCHANGED vars
    BY <1>5 DEF vars, brokerVars, inboxVars, history, Delivery, NothingLost, Outstanding,
                SettledWell
  <1>6. QED
    BY <1>1, <1>2, <1>3, <1>4, <1>5, HandlingDelivery, SettlingDelivery
       DEF Next, Handle, Trouble

-------------------------------------------------------------------------------
(* The invariant holds *)

(* The inductive invariant holds in every reachable state: a consumer owns *)
(* the entry of the event it works on for as long as it has its            *)
(* transaction, and only failures repeat an email.                         *)
THEOREM NotificationInvariance == Spec => []IInv
  <1>1. Init => IInv
    <2> SUFFICES ASSUME Init
                 PROVE  IInv
      OBVIOUS
    <2>1. TypeOK /\ MsgInv
      BY TypeInit DEF Init, MsgInv
    <2>2. Control
      <3>1. \A m \in Messages : Late(m) = {} /\ emails[m] = 0
        BY DEF Init, Late
      <3>2. Cardinality({}) = 0
        BY FS_EmptySet
      <3>3. \A m \in Messages : Budget(m)
        <4>1. \A m \in Messages : emails[m] = 0 /\ Cardinality(Late(m)) = 0
          BY <3>1, <3>2
        <4>2. failures = 0
          BY DEF Init
        <4>3. QED  BY <4>1, <4>2 DEF Budget
      <3>4. QED
        BY <3>3 DEF Init, Control, Owns, Working, ProcessedWasEmailed
    <2>3. Delivery
      BY DEF Init, Delivery, NothingLost, SettledWell
    <2>4. QED  BY <2>1, <2>2, <2>3, IInvParts
  <1>2. IInv /\ [Next]_vars => IInv'
    <2>1. IInv' <=> TypeOK' /\ MsgInv' /\ Control' /\ Delivery'
      BY DEF IInv, MsgInv, Control, Delivery, ConsumerInv, Owns, Budget
    <2>2. QED  BY <2>1, IInvParts, TypeStep, ControlStep, DeliveryStep
  <1>3. QED
    BY <1>1, <1>2, PTL DEF Spec

-------------------------------------------------------------------------------
(* What the invariant says about the service *)

(* Once an event is in the inbox no email is sent for it any more, not for *)
(* a copy, not for a repeated delivery, not by another consumer, but by    *)
(* one whose transaction the database dropped while it worked on it.       *)
THEOREM LateEmailNeedsLostTransactionCorrect == Spec => LateEmailNeedsLostTransaction
  <1> DEFINE Excused(m) == \E c \in dropped : pc[c] = "email" /\ msg[c] = m
             Kept == \A m \in Messages :
                       (InboxKey(m) \in inbox /\ emails'[m] # emails[m]) => Excused(m)
  <1>1. IInv /\ [Next]_vars => [Kept]_vars
    <2> SUFFICES ASSUME IInv, [Next]_vars
                 PROVE  Kept
      OBVIOUS
    <2>1. CASE emails' = emails
      BY <2>1
    <2>2. ASSUME NEW c \in Consumers, SendEmail(c) \/ SendEmailFails(c)
          PROVE  Kept
      <3>1. pc[c] = "email" /\ (c \notin dropped => InboxKey(msg[c]) \notin inbox)
        BY <2>2 DEF SendEmail, SendEmailFails, IInv, ConsumerInv, Working
      <3>2. emails' = [emails EXCEPT ![msg[c]] = @ + 1] /\ emails \in [Messages -> Nat]
        BY <2>2 DEF SendEmail, SendEmailFails, IInv, TypeOK
      <3>3. QED  BY <3>1, <3>2
    <2>3. (\E c \in Consumers : SendEmail(c) \/ SendEmailFails(c)) \/ emails' = emails
      BY DEF Next, Handle, Trouble, vars, history, Publish, Deliver, Receive,
             SaveProcessedMessage, GetUserById, Commit, CommitReplyLost, StepFails, DatabaseLost,
             Ack, Reject, Requeue, ConnectionLost, Crash, Restart
    <2>4. QED  BY <2>1, <2>2, <2>3
  <1>2. QED
    BY <1>1, NotificationInvariance, PTL DEF Spec, LateEmailNeedsLostTransaction

(* An email is repeated only at the price of a failure. *)
THEOREM EmailsNeedFailuresCorrect == Spec => []EmailsNeedFailures
  <1>1. IInv => EmailsNeedFailures
    <2> SUFFICES ASSUME IInv, NEW m \in Messages
                 PROVE  emails[m] <= 1 + failures
      BY DEF EmailsNeedFailures
    <2>1. Cardinality(Late(m)) \in Nat /\ emails[m] \in Nat /\ failures \in Nat
      BY LateFinite DEF IInv
    <2>2. emails[m] + Cardinality(Late(m)) <= failures + (IF Covered(m) THEN 1 ELSE 0)
      BY DEF IInv
    <2>3. QED  BY <2>1, <2>2
  <1>2. QED  BY <1>1, NotificationInvariance, PTL

(* An event is recorded only after its email has left. *)
THEOREM ProcessedWasEmailedCorrect == Spec => []ProcessedWasEmailed
  <1>1. IInv => ProcessedWasEmailed
    BY DEF IInv
  <1>2. QED  BY <1>1, NotificationInvariance, PTL

(* An event that should lead to an email is recorded, or the broker still  *)
(* has it: acknowledgements, requeues, crashes and broken connections lose *)
(* nothing.                                                                *)
THEOREM NothingLostCorrect == Spec => []NothingLost
  <1>1. IInv => NothingLost
    BY DEF IInv
  <1>2. QED  BY <1>1, NotificationInvariance, PTL

(* One consumer at a time works on an event in a transaction, however      *)
(* often it is delivered.                                                  *)
THEOREM OneHandlerPerEventCorrect == Spec => []OneHandlerPerEvent
  <1>1. IInv => OneHandlerPerEvent
    <2> SUFFICES ASSUME IInv, NEW c \in Consumers, NEW d \in Consumers, c # d,
                        Working(c), Working(d), c \notin dropped, d \notin dropped
                 PROVE  InboxKey(msg[c]) # InboxKey(msg[d])
      BY DEF OneHandlerPerEvent
    <2>1. inboxLock[InboxKey(msg[c])] = c /\ inboxLock[InboxKey(msg[d])] = d
      BY DEF IInv, ConsumerInv
    <2>2. QED  BY <2>1
  <1>2. QED  BY <1>1, NotificationInvariance, PTL
===============================================================================
