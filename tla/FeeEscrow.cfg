SPECIFICATION MCSpec
CONSTANTS
  p1 = p1
  w1 = w1
  w2 = w2
  alice = alice
  bob = bob
  k1 = k1
  k2 = k2
  kBad = kBad
  n1 = n1
  n2 = n2
  None = None
  Escrow = Escrow
  Pools = {p1}
  Wallets = {w1, w2}
  XIds = {alice, bob}
  Keys = {k1, k2, kBad}
  ValidKeys = {k1, k2}
  Nonces = {n1, n2}
  ShareLists <- MCShareLists
  Amounts = {0, 1, 2}
  Limits = {1, 4}
  Lifetimes = {1}
  ClaimWindow = 1
  MaxAmount = 4
  MaxEpoch = 3
  MaxTime = 1
  MaxSigned = 2
INVARIANTS
  Conservation
  NoOverpayment
  EveryoneCanBePaid
  WithinAuthorized
  ReceiptsAccountForPayments
  RetirementIsBacked
  OneWalletPerXId
  CreatorLocked
PROPERTIES
  ImplementsPayout
  RevokedNeverPays
SYMMETRY MCSymmetry
CHECK_DEADLOCK FALSE
