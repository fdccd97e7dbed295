SPECIFICATION FairSpec
CONSTANTS
  Consumers = {c1, c2}
  Partitions = {p1}
  CommitEvery = 2
  HandlerSwallows = TRUE
  CommitMayFail = FALSE
  MaxOffset = 3
  MaxStarts = 1
  MaxExpiries = 0
INVARIANTS RedeliveryBounded CommittedIsProcessed
PROPERTIES EveryTickAttempted StopEndsLoop
CHECK_DEADLOCK FALSE
