SPECIFICATION Spec
CONSTANTS
  Ticks = Ticks
  Trades = Trades
  Users = Users
  Config <- MCConfig
  UserTopic <- Users
  TradeTopic <- Trades
  Admins = {a1, a2}
  UserCount = 2
  Consenting = {2}
  MaxFaults = 2
  MaxStarts = 2
  MaxOutages = 2
  MaxClients = 2
  StartAttempts = 3
  TaskTries = 4
  MaxNiFiFaults = 5
  Cent = 400
  Whole = 1000
  NoNumber = NoNumber
  FirstPrices <- MCFirstPrices
  LivePrices <- MCLivePrices
  Quotes <- MCQuotes
  Moves <- MCMoves
  MaxFetches = 4
  Prices = {1, 2}
  Volumes = {0, 1}
  MaxTicks = 3
  MaxDays = 6
  Windows = {2, 3, 4}
  Longest = 4
INVARIANTS
  ControlInv
  TopicsInitialized
  TradesFollowUsers
  CatalogComplete
  TriggerTruthful
  PricesSound
  PrivacyRulesAgree
  ComputationsAgree
CHECK_DEADLOCK FALSE
