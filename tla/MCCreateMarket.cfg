SPECIFICATION Spec
CONSTANTS
  Calls = {1, 2}
INVARIANTS
  MarketTypeOK
  MarketFailsOnlyUnconfirmed
PROPERTIES
  NoRetryOnceSending
  EveryCallReturns
CHECK_DEADLOCK FALSE
