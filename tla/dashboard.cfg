SPECIFICATION FairSpec
CONSTANTS
  AAPL = AAPL
  TSLA = TSLA
  Tickers <- MCTickers
  DefaultTicker = AAPL
  MaxPrice = 2
  MaxOverlap = 2
  MaxSelections = 3
INVARIANTS PageInv OneTickerShown
PROPERTIES SettlesOnActive
