----------------------------- MODULE EventPipeline -----------------------------
(***************************************************************************)
(* An event on its way from the transaction of a service to the inbox of   *)
(* the notification service: the outboxes of billing and auth (as the log  *)
(* that module EventLog promises), their connections to the broker, the    *)
(* exchanges and bindings the processes set up when they start, and the    *)
(* consumers of module Notification.                                       *)
(*                                                                         *)
(* Exchanges, queue and bindings are durable and messages persistent.  One *)
(* instance of each service runs; it dials the broker once, in main.       *)
(***************************************************************************)
EXTENDS Notification

CONSTANT MaxOutboxFailures  \* bound: failures of services and their connections

(* An event is published at most once more for every failure.              *)
ASSUME PipelineAssumption ==
  /\ MaxOutboxFailures \in Nat
  /\ MaxCopies = 1 + MaxOutboxFailures

VARIABLES
  status,          \* rows of the outboxes, see EventLog
  sent,            \* times Publish of the event returned nil
  outboxFailures,  \* failures on the services' side so far
  link,            \* [Services -> state of process and broker connection]
  exchanges,       \* services whose exchange exists
  bound,           \* services whose exchange is bound to notification.events
  lost             \* history: copies of an event that reached no queue

logVars == <<status, sent, outboxFailures>>
serviceVars == <<link, exchanges, bound, lost>>
pipelineVars == <<vars, logVars, serviceVars>>

(* In the order in which the consumer binds their exchanges.               *)
ExchangeNames == <<"billing", "auth">>
Services == ToSet(ExchangeNames)

(* The service whose outbox the event is in. *)
Service(m) == IF m.type = "AccountRegistered" THEN "auth" ELSE "billing"

(* "down": the process does not run.  "broken": the connection is dead and *)
(* the process has not noticed.  "closed": it has; nothing dials again.    *)
Links == {"down", "up", "broken", "closed"}

E == INSTANCE EventLog
       WITH Events <- Messages, MaxFailures <- MaxOutboxFailures,
            status <- status, sent <- sent, failures <- outboxFailures

-------------------------------------------------------------------------------
(* The services *)

SetLink(s, state) == link' = [link EXCEPT ![s] = state]

(* main dials the broker and declares the exchange before it listens.      *)
ServiceStarts(s) ==
  /\ link[s] = "down"
  /\ SetLink(s, "up")
  /\ exchanges' = exchanges \union {s}
  /\ UNCHANGED <<vars, logVars, bound, lost>>

(* The process dies, or an operator stops it. *)
ServiceStops(s) ==
  /\ link[s] # "down"
  /\ E!Fail
  /\ SetLink(s, "down")
  /\ UNCHANGED <<vars, exchanges, bound, lost>>

LinkBreaks(s) ==
  /\ link[s] = "up"
  /\ E!Fail
  /\ SetLink(s, "broken")
  /\ UNCHANGED <<vars, exchanges, bound, lost>>

(* A write or a heartbeat fails: from now on every publish returns an      *)
(* error, and the worker tries in vain at every tick.                      *)
LinkClosed(s) ==
  /\ link[s] = "broken"
  /\ SetLink(s, "closed")
  /\ UNCHANGED <<vars, logVars, exchanges, bound, lost>>

(* The business transaction inserts its event and ends. *)
Insert(m) ==
  /\ link[Service(m)] # "down"
  /\ E!Insert(m)
  /\ UNCHANGED <<vars, serviceVars>>

EndInsert(m) ==
  /\ \E s \in {"PENDING", "rolledback"} : E!EndInsert(m, s)
  /\ UNCHANGED <<vars, serviceVars>>

-------------------------------------------------------------------------------
(* The outbox worker and RabbitPublisher.Publish *)

(* Mutant: the outbox is polled without regard to the status. *)
MutantPublishEvent(m) ==
  /\ link[Service(m)] = "up" /\ Service(m) \in bound
  /\ status[m] # "unused" /\ sent[m] <= outboxFailures
  /\ sent' = [sent EXCEPT ![m] = @ + 1]
  /\ Publish(m)
  /\ UNCHANGED <<status, outboxFailures, serviceVars>>

(* Mutant: Publish swallows its error. *)
MutantSwallow(m) ==
  /\ link[Service(m)] \in {"up", "broken"}
  /\ E!Send(m)
  /\ UNCHANGED <<vars, serviceVars>>

(* PublishWithContext writes to the connection.  Without confirms nil says *)
(* no more: the bytes may go to a dead connection, and a message that is   *)
(* not mandatory is dropped by an exchange that has no queue for it.       *)
PublishEvent(m) ==
  /\ link[Service(m)] \in {"up", "broken"}
  /\ E!Send(m)
  /\ IF link[Service(m)] = "up" /\ Service(m) \in bound
     THEN Publish(m) /\ UNCHANGED lost
     ELSE lost' = [lost EXCEPT ![m] = @ + 1] /\ UNCHANGED vars
  /\ UNCHANGED <<link, exchanges, bound>>

(* Mutant: the batch is marked before it is published. *)
MutantMark(S) ==
  /\ \A m \in S : status[m] = "PENDING"
  /\ status' = [m \in Messages |-> IF m \in S THEN "PROCESSED" ELSE status[m]]
  /\ UNCHANGED <<sent, outboxFailures, vars, serviceVars>>

(* A worker commits its batch. *)
Mark(S) == E!Mark(S) /\ UNCHANGED <<vars, serviceVars>>

-------------------------------------------------------------------------------
(* The consumers *)

(* Mutant: the consumer binds exchanges nobody has declared. *)
MutantBindable == Services

(* Binding stops at the first exchange that does not exist. *)
Bindable ==
  {ExchangeNames[i] : i \in
     {j \in DOMAIN ExchangeNames : \A k \in 1..j : ExchangeNames[k] \in exchanges}}

(* StartConsume up to Consume.  When an exchange is missing the process    *)
(* exits, and leaves the bindings it has made.                             *)
Setup(c) ==
  /\ ~connected[c] /\ pc[c] = "idle"
  /\ bound' = bound \union Bindable
  /\ IF Services \subseteq exchanges THEN Restart(c) ELSE UNCHANGED vars
  /\ UNCHANGED <<logVars, link, exchanges, lost>>

Consume(c) ==
  /\ Deliver(c) \/ Handle(c) \/ Trouble(c)
  /\ UNCHANGED <<logVars, serviceVars>>

-------------------------------------------------------------------------------
PipelineInit ==
  /\ Init
  /\ E!Init
  /\ link = [s \in Services |-> "down"]
  /\ exchanges = {}
  /\ bound = {}
  /\ lost = [m \in Messages |-> 0]

PipelineNext ==
  \/ \E s \in Services :
       ServiceStarts(s) \/ ServiceStops(s) \/ LinkBreaks(s) \/ LinkClosed(s)
  \/ \E m \in Messages : Insert(m) \/ EndInsert(m) \/ PublishEvent(m)
  \/ \E S \in SUBSET Messages : Mark(S)
  \/ \E c \in Consumers : Setup(c) \/ Consume(c)

PipelineSpec == PipelineInit /\ [][PipelineNext]_pipelineVars

(* A process that stopped is started again, heartbeats find dead           *)
(* connections, workers poll at every tick (see Outbox), and consumers     *)
(* behave as in Notification.  Nobody restarts a process that runs.        *)
PipelineFairness ==
  /\ \A s \in Services : WF_pipelineVars(ServiceStarts(s) \/ LinkClosed(s))
  /\ \A m \in Messages : WF_pipelineVars(sent[m] = 0 /\ PublishEvent(m))
  /\ []<>AllPushed
  /\ \A c \in Consumers :
       /\ WF_pipelineVars(Setup(c) \/ (Handle(c) /\ UNCHANGED <<logVars, serviceVars>>))
       /\ SF_pipelineVars(SaveProcessedMessage(c) /\ UNCHANGED <<logVars, serviceVars>>)

PipelineFairSpec == PipelineSpec /\ PipelineFairness

-------------------------------------------------------------------------------
(* Properties *)

(* Every variable has its type, and an exchange is bound only if it exists.*)
PipelineTypeOK ==
  /\ TypeOK
  /\ status \in [Messages -> {"unused", "open", "rolledback", "PENDING", "PROCESSED"}]
  /\ sent \in [Messages -> Nat]
  /\ outboxFailures \in 0..MaxOutboxFailures
  /\ link \in [Services -> Links]
  /\ exchanges \subseteq Services
  /\ bound \subseteq exchanges
  /\ lost \in [Messages -> Nat]

(* An event the outbox has marked is never forgotten: it is in the inbox   *)
(* or with the broker, unless a copy of it went to a dead connection or to *)
(* an exchange without a queue.                                            *)
MarkedIsCarried ==
  \A m \in Messages :
    (status[m] = "PROCESSED" /\ ~Fatal(m) /\ ~Ignored(m))
      => InboxKey(m) \in inbox \/ Outstanding(m) \/ lost[m] > 0

(* The inductive invariant behind these properties                         *)
(* (EventPipelineProofs): the consumers deal only with what was published, *)
(* every publish that returned nil is accounted for, as a copy in the      *)
(* queue's history or as a lost one, and only committed events have any.   *)
Known == {m \in Messages : published[m] > 0}

PipelineIInv ==
  /\ PipelineTypeOK
  /\ IInv
  /\ queue \in Seq(Known)
  /\ channel \in [Consumers -> Seq(Known)]
  /\ \A c \in Consumers : msg[c] \in Known \union {NoMessage}
  /\ \A m \in Messages :
       /\ sent[m] = published[m] + lost[m]
       /\ sent[m] <= 1 + outboxFailures
       /\ sent[m] > 0 => status[m] \in {"PENDING", "PROCESSED"}
       /\ status[m] = "PROCESSED" => sent[m] > 0

Committed == {m \in Messages : status[m] \in {"PENDING", "PROCESSED"}}

A == INSTANCE Announcement
       WITH Events <- Messages, MaxTroubles <- MaxFailures,
            committed <- Committed, mails <- emails,
            done <- {m \in Messages : InboxKey(m) \in inbox}, troubles <- failures

(* From end to end: emails are sent for committed events only, at most one *)
(* per event and per failure of the notification service beyond that; the  *)
(* failures of the services and of their connections cost no email.        *)
AnnouncementSpec == A!Spec

Deliverable(m) == ~Fatal(m) /\ ~Ignored(m) /\ ~Poison(m)

(* Once the notification service has been set up for the exchange of a     *)
(* service, a committed event leads to its email through all crashes and   *)
(* restarts, unless the service's connection dies: a copy may be lost in   *)
(* it, and on a closed one events stay PENDING for as long as nobody       *)
(* restarts the service.                                                   *)
EveryEventNotified ==
  \A m \in Messages :
    (Deliverable(m) /\ status[m] = "PENDING" /\ sent[m] = 0 /\ Service(m) \in bound)
      ~> (InboxKey(m) \in inbox \/ lost[m] > 0 \/ link[Service(m)] = "closed")
===============================================================================
