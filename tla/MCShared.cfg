SPECIFICATION Spec
CONSTANTS
  u = u
  t = t
  m1 = m1
  m2 = m2
  Wallets <- Pair
  NoKey = NoKey
  NoConfig = NoConfig
  Configs <- MostToTeam
  Nominees = {}
  RentOverhead = 2
  RentPerByte = 1
  InitialSol = 30
  Gifts = {}
  FloatPrecision = 64
  MaxU64 = 44
  Mints = {m1, m2}
  Launches <- OneLaunch
  Amounts = {6, 30}
  Minimums = {0}
  Creators = {}
  MarketCreateFee = 1
  MigrationReserve = 50
INVARIANTS
  LamportsCovered
