\* A fatal message against what the log says of it.
CONSTANTS
  Messages <- FatalAndUnknown
  Consumers = {c1, c2}
  NoConsumer = NoConsumer
  NoMessage = NoMessage
  Prefetch = 2
  MaxCopies = 1
  MaxFailures = 0
SPECIFICATION Spec
\* Every copy published and settled: nothing is left to do.
CHECK_DEADLOCK FALSE
INVARIANT FatalReachesDLQ
