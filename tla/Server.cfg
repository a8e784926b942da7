SPECIFICATION MCServerSpec
CONSTANTS
  l1 = l1
  l2 = l2
  ticker = ticker
  r1 = r1
  r2 = r2
  t1 = t1
  c1 = c1
  x1 = x1
  x2 = x2
  a1 = a1
  a2 = a2
  None = None
  Launches = {l1, l2}
  Trades = {}
  Conversions = {}
  Tickers = {ticker}
  tickerOf <- MCTickerOf
  Workers = {r1, r2}
  HistoryLags = TRUE
  Forks = FALSE
  Validity = 1
  MaxHeight = 4
  MaxCrashes = 1
  Amounts = {2, 4}
  Tolerances = {0, 50}
  Rates = {1, 2}
  Threshold = 4
  Funds <- TradeFunds
  MaxMoves = 3
  Apps <- WireApps
  MaxUnits = 2
  FeeScale = 2
  FeeLimit = 3
  Packet = 10
  Units = {1, 3}
  UnitPrices = {1, 5}
  MaxTouches = 2
  MaxRounds = 1
INVARIANTS
  TypeOK
  PoolHoldsTicker
  LaunchesSettleAsOnChain
  RecordedWireRuns
  OneWalletPerAccount
  RunAsReviewed
PROPERTIES
  ClaimOutlivesToken
  LaunchIsFinal
  ImplementsRegistry
SYMMETRY MCSymmetry
CHECK_DEADLOCK FALSE
