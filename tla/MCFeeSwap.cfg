SPECIFICATION MCSpec
CONSTANTS
  None = None
  Users = {alice, bob}
  Assets = {0, 1, 2, 3, 4, 5}
  Pools <- ThreePools
  Frozen <- NothingFrozen
  MaxBalance = 2147483647
  MaxAssetId = 5
  FirstAssetId = 3
  GetExchangeFee <- RuntimeFee
  InitialBalance <- EqualEndowment
  InitialIssuance <- TotalEndowment
  NativeEndowment = 22100
  Endowment = 22000
  Amounts = {12000, 2000}
  TransferAmounts = {}
  Limits = {1000, 13000}
  Prices <- TwoPrices
  AcceptedCurrencies = {1}
  WithdrawFeeForSetCurrency = {FALSE, TRUE}
  SetFee = 7
  Fees = {0, 4, 9}
  MaxExtrinsics = 3
SYMMETRY Symmetry
INVARIANTS
  TypeOK
  ShareTokensAreFresh
  IssuanceIsHeld
PROPERTIES
  FeeCostsPayerOnly
CHECK_DEADLOCK FALSE
