\* Two consumers, two copies of every event, failures anywhere.
CONSTANTS
  Messages <- GoodFatalPoison
  Consumers = {c1, c2}
  NoConsumer = NoConsumer
  NoMessage = NoMessage
  Prefetch = 2
  MaxCopies = 2
  MaxFailures = 1
SPECIFICATION FairSpec
INVARIANTS
  EmailsNeedFailures
  NothingLost
  OneHandlerPerEvent
  IInv
PROPERTIES
  LateEmailNeedsLostTransaction
  EveryEventHandled
\* Every copy published and settled: nothing is left to do.
CHECK_DEADLOCK FALSE
