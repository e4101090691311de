SPECIFICATION Spec
CONSTANTS
  u = u
  t = t
  m1 = m1
  m2 = m2
  Wallets <- Pair
  NoKey = NoKey
  NoConfig = NoConfig
  Configs <- HighLimit
  Nominees = {}
  RentOverhead = 2
  RentPerByte = 1
  InitialSol = 30
  Gifts = {}
  FloatPrecision = 64
  MaxU64 = 44
  Mints = {m1, m2}
  Launches <- LowLaunch
  Amounts = {10}
  Minimums = {0}
  Creators = {}
  MarketCreateFee = 1
  MigrationReserve = 1
INVARIANTS
  MigrationWithinCurve
