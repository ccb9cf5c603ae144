CONSTANTS
    NativeCurrency = 0
    Accounts <- Signers
    Derived = Derived
    Root = Root
    Governance = Governance
    Collective = Collective
    Currencies = {1}
    Calls = {"exchange_sell", "faucet_mint", "rampage_mint"}
    BatchCounts <- OneOrMany
    CopyCounts <- ManyCopies
    MaxDepth = 2
    MaxExtrinsics = 2
    NoFrame = NoFrame
    Configurations <- ThreeRoles
    MayEnd = {"babe", "grandpa-voter", "import-queue", "telemetry"}
    MaxBlocks = 1
SPECIFICATION MCSpec
INVARIANTS
    GenesisNeverPanics
    GenesisConsistent
    FinalizePrepaid
    IntentionsWithinBenchmark
    MintLimitHolds
    ServedOnlyWhenBuilt
    DutiesDoneOrGoingDown
PROPERTIES
    ClosedPalletsNeedSudo
