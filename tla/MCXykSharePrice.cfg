SPECIFICATION MCSpec
CONSTANTS
  None = None
  Users = {alice, bob}
  Assets = {0, 1, 2, 3}
  Pools <- OnePool
  Frozen <- NothingFrozen
  MaxBalance = 2147483647
  MaxAssetId = 3
  FirstAssetId = 2
  GetExchangeFee <- RuntimeFee
  InitialBalance <- EqualEndowment
  InitialIssuance <- TotalEndowment
  NativeEndowment = 22000
  Endowment = 22000
  Amounts = {12000, 2000}
  TransferAmounts = {}
  Limits = {1000, 13000}
  Prices <- SimplePrices
  MaxCalls = 3
PROPERTY
  SharesIssuedAtCurrentPrice
CHECK_DEADLOCK FALSE
