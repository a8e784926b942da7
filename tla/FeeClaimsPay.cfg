SPECIFICATION MCSpec
CONSTANTS
  c1 = c1
  c2 = c2
  x1 = x1
  x2 = x2
  a1 = a1
  a2 = a2
  p1 = p1
  p2 = p2
  r1 = r1
  r2 = r2
  None = None
  Workers = {r1, r2}
  Challenges = {c1, c2}
  XIds = {x1}
  Wallets = {a1}
  Posts = {p1, p2}
  MaxIntents = 2
  Amounts = {1}
  MaxEntitled = 2
  MaxEpoch = 2
  ChallengeLife = 1
  BlockhashLife = 1
  MaxTime = 1
SYMMETRY MCSymmetry
INVARIANTS
  PaidAsRequested
  ClaimsAreConsumed
PROPERTIES
  ChallengesOnlyAdvance
  ImplementsRequests
CHECK_DEADLOCK FALSE
