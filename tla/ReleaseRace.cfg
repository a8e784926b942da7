SPECIFICATION Spec
CONSTANTS
  w1 = w1
  w2 = w2
  Workers = {w1}
  PageSize = 2
  Concurrency = 2
  InactivityDays = 1
  DayLength = 2
  QuietLimit = 1
  Overrun = FALSE
  ChartRuns = TRUE
  RecentLimit = 1
  PriceOutages = TRUE
  HoldsTicker = TRUE
  Volumes = {0, 1}
  MaxTime = 3
  MaxTx <- BothShort
  MaxCrashes = 0
PROPERTIES
  ReleasedAfterQuietDays
CHECK_DEADLOCK FALSE
