SPECIFICATION MCSpec
CONSTANTS
  None = None
  Users = {alice, bob}
  Assets = {0, 1, 2, 3}
  Pools <- OnePool
  Frozen <- NothingFrozen
  MaxBalance = 12
  MaxAssetId = 3
  FirstAssetId = 2
  GetExchangeFee <- CoarseFee
  InitialBalance <- EqualEndowment
  InitialIssuance <- TotalEndowment
  NativeEndowment = 6
  Endowment = 6
  Amounts = {1, 3}
  TransferAmounts = {2}
  Limits = {1, 3}
  Prices <- TwoPrices
  MaxCalls = 5
SYMMETRY Symmetry
INVARIANTS
  SharesMatchLiquidity
  HolderCanExit
  ReportCoversShares
PROPERTIES
  PoolsKeepPromise
  DestroyedPoolIsEmpty
  RemoveKeepsShareValue
  TradeLosesAtMostOneUnit
CHECK_DEADLOCK FALSE
