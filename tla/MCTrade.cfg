SPECIFICATION Spec
CONSTANTS
  u = u
  t = t
  m1 = m1
  m2 = m2
  Wallets <- Pair
  NoKey = NoKey
  NoConfig = NoConfig
  Configs <- TwoSizes
  Nominees = {}
  RentOverhead = 2
  RentPerByte = 1
  InitialSol = 14
  Gifts = {6}
  FloatPrecision = 64
  MaxU64 = 40
  Mints = {m1}
  Launches <- OneLaunch
  Amounts = {6}
  Minimums = {0}
  Creators = {}
  MarketCreateFee = 3
  MigrationReserve = 3
INVARIANTS
  TypeOK
  ConfigFits
  TokenLedger
PROPERTIES
  LifecycleSpec
CHECK_DEADLOCK FALSE
