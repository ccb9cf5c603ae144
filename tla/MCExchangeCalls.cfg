SPECIFICATION LiveSpec
CONSTANTS
  None = None
  Founder = founder
  Users = {founder, alice}
  Assets = {0, 1, 2, 3}
  Pools <- OnePool
  Frozen <- NothingFrozen
  MaxBalance = 1000000
  MaxAssetId = 3
  FirstAssetId = 2
  GetExchangeFee <- RuntimeFee
  InitialBalance <- Endowments
  InitialIssuance <- TotalEndowment
  NativeEndowment = 5000
  Endowment = 9000
  SetAsideBefore = 5
  Reserves <- OnePrice
  Amounts = {4000, 15000}
  TransferAmounts = {4000}
  Limits = {1, 20000}
  Prices = {}
  IntentionAmounts = {1000, 2000}
  IntentionLimits = {1, 1900}
  Discounts = {TRUE}
  Benchmarks = {}
  INTENTION_AMOUNTS = {}
  MaxBenchIntentions = 0
  MaxIntentions = 2
  MaxCalls = 1
  MaxBlocks = 1
INVARIANTS
  MatchedServedInFull
PROPERTIES
  NothingPaidToRemovedPool
  FinalizeTerminates
