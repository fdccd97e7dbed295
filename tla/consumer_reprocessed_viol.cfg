SPECIFICATION Spec
CONSTANTS
  Consumers = {c1, c2}
  Partitions = {p1}
  CommitEvery = 2
  HandlerSwallows = FALSE
  CommitMayFail = TRUE
  MaxOffset = 2
  MaxStarts = 1
  MaxExpiries = 1
SYMMETRY ConsumerSymmetry
INVARIANTS CommittedIsProcessed
CHECK_DEADLOCK FALSE
