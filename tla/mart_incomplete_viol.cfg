SPECIFICATION MartSpec
CONSTANTS
  Tickers = {AAPL, TSLA}
  LastDay = 3
  MaxRows = 2
  MaxFailures = 1
PROPERTY FinishedDaysComplete
CHECK_DEADLOCK FALSE
