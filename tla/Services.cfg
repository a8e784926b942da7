SPECIFICATION MCServicesSpec
CONSTANTS
  None = None
  r1 = r1
  r2 = r2
  w1 = w1
  w2 = w2
  x1 = x1
  Instances = {r1, r2}
  Visitors = {x1, x2}
  Possible <- SomeRequests
  Maximum = 1
  Window = 2
  Kept = 1
  MaxNow = 2
  MaxRequests = 3
  MaxOutages = 1
  Pools = {a, b}
  Graduated = {b}
  Broken = {b}
  BatchSize = 1
  PerSweep = 1
  PerRun = 1
  MaxThrows = 1
  Visitor = w1
  CommentPage = 1
  MaxReceipts = 1
  MaxComments = 3
  MaxRemovals = 1
  Amounts = {1, 2, 5}
  Quotes = {2}
  MaxTrades = 4
  MaxSeconds = 2
  MaxPolls = 1
  Wallets = {w1, w2}
  XIds = {x1}
  Tabs = {t1, t2}
  Handlers = {h1, h2}
  MaxChallenges = 2
  MaxFlows = 2
  MaxLoads = 0
  Workers = {r1, r2}
  PageSize = 2
  Concurrency = 2
  InactivityDays = 1
  DayLength = 2
  QuietLimit = 1
  Overrun = TRUE
  ChartRuns = FALSE
  RecentLimit = 0
  PriceOutages = FALSE
  HoldsTicker = FALSE
  Volumes = {1}
  MaxTime = 2
  MaxTx <- CoverageTx
  MaxCrashes = 1
INVARIANTS
  GapOnlyInFirstBatch
  SessionsAreOwn
  LimitsHold
  RecordsAreTrue
PROPERTIES
  ReleasedAfterQuietDays
  LatestLinkWins
CHECK_DEADLOCK FALSE
