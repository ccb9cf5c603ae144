SPECIFICATION MCSpec
CONSTANTS
  None = None
  Founder = founder
  Users = {founder, alice, bob}
  Assets = {0, 1, 2, 3}
  Pools <- OnePool
  Frozen <- NothingFrozen
  MaxBalance = 1000000
  MaxAssetId = 3
  FirstAssetId = 2
  GetExchangeFee <- RuntimeFee
  InitialBalance <- Endowments
  InitialIssuance <- TotalEndowment
  NativeEndowment = 3000
  Endowment = 3000
  SetAsideBefore = 5
  Reserves <- TwoPrices
  Amounts = {}
  TransferAmounts = {}
  Limits = {}
  Prices = {}
  IntentionAmounts = {1000, 2000}
  IntentionLimits = {1, 1900}
  Discounts = {FALSE}
  Benchmarks = {}
  INTENTION_AMOUNTS = {}
  MaxBenchIntentions = 0
  MaxIntentions = 3
  MaxBlocks = 1
INVARIANT
  MatchedBuyMeetsLimit
CHECK_DEADLOCK FALSE
