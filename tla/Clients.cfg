SPECIFICATION MCClientsSpec
CONSTANTS
  None = None
  Instances = {i1, i2}
  Requests = {q1, q2}
  Fresh = 1
  Stale = 1
  LockLife = 1
  BreakerLength = 3
  Polls = 2
  MaxTime = 3
  MaxFailures = 1
  MaxWorks = 2
  Intents = {b1, b2, b3}
  Trades = {b1}
  Conversions = {}
  Setups = {b2, b3}
  LostReplies = TRUE
  MaxPolls = 2
  MaxAttempts = 2
  MaxReloads = 1
  Consoles = {c1, c2}
  Chunks = {k1, k2}
  BatchSize = 2
  Window = 1
  FeeCeiling = 1
  BufferRent = 2
  ProgramRent = 3
  ApprovedBudget = 12
  MaxHeight = 2
  MaxCrashes = 1
  Wallets = {w1, w2}
  Handles = {h1, h2}
  Tickers = {t1, t2}
  XIds = {x1}
  Whole = 2
  Shares = {1}
  MaxRows = 1
  MaxEdits = 5
  Pools = {p1, p2}
  MaxSlot = 3
  Prices = {1, 2}
  Deployed = {2}
  ReviewWindow = 2
  Nearly = 1
  MaxReviews = 3
  LastBlock = 6
  Keys = {k1, k2}
  MaxTrades = 2
  MaxFetches = 4
  MaxChanges = 2
  Tokens = {t1, t2}
  PageSize = 1
  MaxClicks = 4
  Tabs = {t1, t2}
  Handlers = {h1, h2}
  MaxChallenges = 2
  MaxFlows = 0
  MaxLoads = 1
  Labels <- ScriptLabels
  Claims = {"claim"}
  RunWindow = 1
  LastRunHeight = 4
  RunCrashes = 2
  RunErrors = 1
INVARIANTS
  AnswersAreCurrent
  RepliesMatch
  ReviewIsTrue
  OperatorsSpendOnce
PROPERTIES
  RefreshNeverRegresses
  StepsKeepPromises
CHECK_DEADLOCK FALSE
