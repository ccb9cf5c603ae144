SPECIFICATION MCSpec
CONSTANTS
  None = None
  Founder = founder
  Users = {founder, alice, bob}
  Assets = {0, 1, 2, 3}
  Pools <- OnePool
  Frozen <- NothingFrozen
  MaxBalance = 1000000
  MaxAssetId = 3
  FirstAssetId = 2
  GetExchangeFee <- RuntimeFee
  InitialBalance <- Endowments
  InitialIssuance <- TotalEndowment
  NativeEndowment = 4000
  Endowment = 4000
  SetAsideBefore = 5
  Reserves <- TwoPrices
  Amounts = {}
  TransferAmounts = {}
  Limits = {}
  Prices = {}
  IntentionAmounts = {1000, 3000}
  IntentionLimits = {1, 1900}
  Discounts = {FALSE}
  Benchmarks = {"on_finalize", "buys_no_matches", "sells_no_matches", "one_sell_extrinsic",
                "one_buy_extrinsic", "sell_intention", "buy_intention"}
  INTENTION_AMOUNTS = {1000, 1200}
  MaxBenchIntentions = 4
  MaxIntentions = 3
  MaxBlocks = 1
SYMMETRY Symmetry
INVARIANTS
  SellNeverOversells
  MatchedServedInFull
  MainSellMeetsLimit
  EarlierReservesKept
PROPERTIES
  EachIntentionTakenOnce
  BenchmarksVerify
CHECK_DEADLOCK FALSE
