\* The only wallet may give away what configure would cost.
CHECK_DEADLOCK FALSE
SPECIFICATION MCVolumeSpec
CONSTANTS
  u = u
  t = t
  m1 = m1
  m2 = m2
  Wallets = {t}
  NoKey = NoKey
  NoConfig = NoConfig
  Configs <- FeeOrNot
  Nominees = {}
  RentOverhead = 2
  RentPerByte = 1
  InitialSol = 13
  Gifts = {4}
  FloatPrecision = 4
  MaxVolume = 17
  MaxU64 = 52
  Mints = {m1}
  Launches <- OneLaunch
  Amounts = {3, 10}
  Minimums = {0}
  Creators = {}
  MarketCreateFee = 1
  MigrationReserve = 3
INVARIANTS
  VirtualLossBounded
  TradingBelowLimit
PROPERTIES
  CompletionAnnounced
  QuoteCoversTrade
