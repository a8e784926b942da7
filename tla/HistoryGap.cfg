SPECIFICATION Spec
CONSTANTS
  w1 = w1
  w2 = w2
  Workers = {w1}
  PageSize = 2
  Concurrency = 2
  InactivityDays = 1
  DayLength = 2
  QuietLimit = 1
  Overrun = FALSE
  ChartRuns = FALSE
  RecentLimit = 0
  PriceOutages = FALSE
  HoldsTicker = FALSE
  Volumes = {1}
  MaxTime = 3
  MaxTx <- LongPool
  MaxCrashes = 0
INVARIANTS
  CoverageHasNoGap
CHECK_DEADLOCK FALSE
