SPECIFICATION Spec
CONSTANTS
  u = u
  t = t
  m1 = m1
  m2 = m2
  Wallets <- Pair
  NoKey = NoKey
  NoConfig = NoConfig
  Configs <- LimitMoves
  Nominees = {}
  RentOverhead = 2
  RentPerByte = 1
  InitialSol = 30
  Gifts = {}
  FloatPrecision = 64
  MaxU64 = 52
  Mints = {m1}
  Launches <- OneLaunch
  Amounts = {3, 6}
  Minimums = {0}
  Creators = {}
  MarketCreateFee = 1
  MigrationReserve = 3
PROPERTIES
  CompletionAnnounced
