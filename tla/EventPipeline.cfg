\* One event of each service on its way to the inbox; services, connections and
\* the consumer fail; a service that starts again has a new connection.
CONSTANTS
  Messages <- OneOfEach
  Consumers = {c1}
  NoConsumer = NoConsumer
  NoMessage = NoMessage
  Prefetch = 1
  MaxCopies = 3
  MaxFailures = 1
  MaxOutboxFailures = 2
SPECIFICATION PipelineFairSpec
INVARIANTS
  MarkedIsCarried
  PipelineIInv
PROPERTIES
  AnnouncementSpec
  EveryEventNotified
\* All events announced: nothing is left to do.
CHECK_DEADLOCK FALSE
