\* The root: every argument of an 11-bit word, as MaxWord = 2^10 - 1 stands for
\* 2^127 - 1, and the negative arguments down to -3.
\* The vault: one asset traded from the start, a second listed, seeded and traded
\* later.
SPECIFICATION PartsSpec
CONSTANTS
    MaxWord = 1023
    Argument <- WordArguments
    Hitz = Hitz XLM = XLM USDC = USDC  None = None
    Asset = {XLM, USDC}
    InitialAssets <- OneAsset
    WasmHash = {"h1","h2"}
    InitialCode = "h1"
    MaxAssets = 2
    ReferenceDepthRatio = 2
    UpgradeDelay = 3
    Supply <- Supplies
    Amount = {40}
    SeedAmount <- Level
    Gift <- HitzGift
    DepositHitz = {20}
    Window <- AnyPrice
    Listable = {USDC}
    Installable = {"h2"}
    LedgerInterval = {3}
    MaxTime = 3
    One = 100 Wad = 1000 MantissaBits = 8 MantissaUnit = 256 Ln2 = 693 LnCapOverFloor = 1609
    FeeFloor = 10 FeeCap = 50 Steepness = 2 DecayPerSec = 80 MaxInt = 6000
INVARIANTS ComputesFloorOfRoot BooksBalance RoundTripsLose
PROPERTIES Terminates KNeverDecreases LiquidityComesInFairly AdminChangesAreTimelocked
CHECK_DEADLOCK FALSE
