SPECIFICATION FairSpec
CONSTANTS
  u = u
  t = t
  m1 = m1
  m2 = m2
  Wallets = {t}
  NoKey = NoKey
  NoConfig = NoConfig
  Configs <- NoFeesAll
  Nominees = {}
  RentOverhead = 2
  RentPerByte = 1
  InitialSol = 40
  Gifts = {}
  FloatPrecision = 10000
  MaxU64 = 44
  Mints = {m1, m2}
  Launches <- OneLaunch
  Amounts = {4}
  Minimums = {0}
  Creators = {}
  MarketCreateFee = 1
  MigrationReserve = 3
INVARIANTS
  LamportLedger
  VaultMatchesCurves
PROPERTIES
  SettledPaysNothing
  CompletedIsSettled
