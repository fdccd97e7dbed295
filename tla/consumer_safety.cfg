SPECIFICATION Spec
CONSTANTS
  Consumers = {c1, c2}
  Partitions = {p1, p2}
  CommitEvery = 2
  HandlerSwallows = FALSE
  CommitMayFail = TRUE
  MaxOffset = 1
  MaxStarts = 2
  MaxExpiries = 1
SYMMETRY ConsumerSymmetry
INVARIANTS IInv CommittedIsAttempted
PROPERTIES OffsetsNeverGoBack ImplementsDelivery
CHECK_DEADLOCK FALSE
