SPECIFICATION FairClientSpec
CONSTANTS
  u = u
  t = t
  m1 = m1
  Wallets <- Pair
  NoKey = NoKey
  NoConfig = NoConfig
  Configs <- TeamMoves
  Nominees = {}
  RentOverhead = 2
  RentPerByte = 1
  InitialSol = 14
  Gifts = {}
  FloatPrecision = 10000
  MaxU64 = 52
  Mints = {m1}
  Launches <- OneLaunch
  Amounts = {}
  Minimums = {0}
  Creators = {}
  MarketCreateFee = 1
  MigrationReserve = 3
  Slots = {1, 2}
  Cli = Cli
  Backend = Backend
  Commands <- MCCommands
  Operator = t
  Idle = Idle
INVARIANTS
  ClientTypeOK
PROPERTIES
  SwapAsBuilt
  AnnouncedIsWithdrawn
