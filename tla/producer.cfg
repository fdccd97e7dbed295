SPECIFICATION FairSpec
CONSTANTS
  Tickers = {t1, t2}
  QueueMax = 2
  Supervised = TRUE
  FlushMayTimeOut = TRUE
  JoinMayTimeOut = TRUE
  MaxTicks = 2
INVARIANTS ProducerInv NoGaps
PROPERTIES ShutdownExits
CHECK_DEADLOCK FALSE
