SPECIFICATION Spec
CONSTANTS
  Requests = {r1, r2}
  Threads = {t1, t2}
  shared = shared
  first = r1
  Workers = {w1, w2}
  worker = w1
  Users <- MCUsers
  Clients <- MCClients
  ClientOf <- MCClientOf
  MaxAttempts = 2
  MaxTick = 2
  MaxOutages = 1
INVARIANTS ServingInv SessionIsUsable ClustersLeft AnswersTruthful
PROPERTY EveryRequestAnswered
CHECK_DEADLOCK FALSE
