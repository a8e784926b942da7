SPECIFICATION MCProgressSpec
CONSTANTS
  None = None
  l1 = l1
  t1 = t1
  n1 = n1
  symbol = symbol
  r1 = r1
  x1 = x1
  a1 = a1
  c1 = c1
  p1 = p1
  p2 = p2
  p3 = p3
  g1 = g1
  g2 = g2
  d1 = d1
  d2 = d2
  q1 = q1
  q2 = q2
  i1 = i1
  i2 = i2
  Accounts = {x1, x2}
  Calls = {c1, c2}
  MaxLaunches = 2
  MaxCrashes = 2
  MaxPauses = 1
  MaxLinks = 1
INVARIANTS
  LaunchIsAsReviewed
PROPERTIES
  ClaimsSettle
  RequestsEnd
  IntentsSettle
  HistoryReachesAll
CHECK_DEADLOCK FALSE
