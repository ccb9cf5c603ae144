SPECIFICATION MCSpec
CONSTANTS
  Alice = Alice
  Bob = Bob
  Pool = Pool
  Dollar = Dollar
  Address = Address
  Core = Core
  NoLock = NoLock
  NoTransaction = NoTransaction
  Holders <- MCHolders
  NoReceiver = NoReceiver
  DustReceiver = Bob
  LockIds = {Vesting}
  MaxSupply = 30
  ExistentialDeposit = 2
  Endowed <- MCEndowed
  RootBalances <- MCRootBalances
  Amounts = {3}
  MaxCalls = 4
  EthereumAddresses = {Address}
  CLAIMS_DATA <- MCClaimsData
  SignedFor <- MCSignedFor
  Encoded <- MCEncoded
  Prefix <- MCPrefix
  Stranger = Stranger
  FeeCurrencies = {Dollar}
  PoolOf <- MCPoolOf
  Holdings <- MCHoldings
  GenesisCurrencies = {Dollar}
  GenesisAuthorities <- MCAuthorities
  Fees = {2}
  CorrectedFees = {1, 2}
INVARIANTS
  NativeTypeOK
  IssuanceBacked
  FrozenAsLocked
  ClaimsPaidOnce
  QueriesKept
PROPERTIES
  SwappedFeeIsNeutral
  FeeChargedAsCorrected
  ClaimPaidWhereSigned
  DustReachesHandler
CHECK_DEADLOCK FALSE
