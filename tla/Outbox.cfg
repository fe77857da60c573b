\* Two workers, batches smaller than the backlog, failures anywhere.
CONSTANTS
  Workers = {w1, w2}
  NoWorker = NoWorker
  BatchLimit = 2
  MaxId = 3
  MaxFailures = 2
SPECIFICATION FairSpec
INVARIANTS
  BatchesDisjoint
  DuplicatesNeedFailures
  IInv
PROPERTIES
  EventLogSpec
  EveryEventProcessed
\* All ids handed out and processed: nothing is left to do.
CHECK_DEADLOCK FALSE
