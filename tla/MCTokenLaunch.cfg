SPECIFICATION Spec
CONSTANTS
  ByteBase = 12
  Width = 2
  FloatPrecision = 64
  MaxU64 = 21
  Starts <- OneStart
  Configs <- TwoConfigs
  Amounts = {2, 5}
  Funds = 6
  UserSol = 9
  UserTokens = 3
  FeeUnit = 4
  CallerShare = 1
  MigrationCost = 3
  PoolFee = 3
  Nonces = {7}
  Numbers = {1, 20}
  MaxSniped = 6
INVARIANTS
  LaunchTypeOK
  LaunchTokensMatch
  LaunchBooks
  CallDecodes
PROPERTIES
  LaunchProductFallsByRounding
