SPECIFICATION Spec
CONSTANTS
  l1 = l1
  l2 = l2
  ticker = ticker
  r1 = r1
  r2 = r2
  t1 = t1
  c1 = c1
  None = None
  Launches = {}
  Trades = {t1}
  Conversions = {}
  Tickers = {ticker}
  tickerOf <- MCTickerOf
  Workers = {r1, r2}
  HistoryLags = FALSE
  Forks = FALSE
  Validity = 1
  MaxHeight = 3
  MaxCrashes = 0
INVARIANTS
  LandedNeverExpired
CHECK_DEADLOCK FALSE
