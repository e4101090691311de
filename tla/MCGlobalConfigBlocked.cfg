SPECIFICATION ConfigSpec
CONSTANTS
  u = u
  t = t
  Wallets <- MCWallets
  NoKey = NoKey
  NoConfig = NoConfig
  Configs <- MCConfigs
  Nominees <- MCNominees
  RentOverhead = 2
  RentPerByte = 1
  InitialSol = 12
  Gifts = {1, 3}
INVARIANTS
  ReconfigurePossible
