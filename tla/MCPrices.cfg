SPECIFICATION Spec
CONSTANTS
    Window = 3
    MinCoverage = 1
    MaxStaleness = 2
    MaxObservations = 3
    TwapSlots = {1, 2, 3, 5}
    TwapPrices = {1, 2}
    Clock = {1, 2, 3, 4, 5, 6, 7}
    MaxLag = 1
    DjedOutputs <- MCDjedOutputs
    Datum <- MCDatum
    DjedBlocks <- MCDjedBlocks
    DjedSlots = {1, 2, 3, 4}
    LastTime = 3
    Decimals <- MCDecimals
    NoAda = NoAda
    MicrosDecimals = 1
    MaxUsdWord = 27
    MinADAReserve = 2
    MinStableUSD = 1
    MinObservations = 2
    MinStablecoins = 2
    MaxPoolShare <- MCMaxPoolShare
    MaxDivergence <- MCMaxDivergence
    CrossLimit <- MCCrossLimit
    MinSwapCount = 1
    MinStableVolume = 2
    PoolLists <- MCPoolLists
    VolumeSets <- MCVolumeSets
    DjedPrices <- MCDjedPrices
    AskedAt = 2
    Ada = Ada
    Nft = Nft
    Lq = Lq
    Tokens <- MCTokens
    Nil = Nil
    FeeDenom = 10
    SwapTxFee = 2
    CollateralPercent = 150
    MaxWord = 127
    MaxInt = 63
    PoolOutputs <- MCPoolOutputs
    Orders <- MCOrders
    Wallets <- MCWallets
    Roundings = {0, 1}
INVARIANTS
    TwapFollowsChain
    DjedIsLedger
    AggregateIsMedian
    SwapBalances
CHECK_DEADLOCK FALSE
