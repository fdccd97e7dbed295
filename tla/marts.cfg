SPECIFICATION MartSpec
CONSTANTS
  Tickers = {AAPL, TSLA}
  LastDay = 3
  MaxRows = 5
  MaxFailures = 1
SYMMETRY TickerSymmetry
INVARIANTS MartInv OnlyLateRowsMissing CopiesStopTheDag
CHECK_DEADLOCK FALSE
