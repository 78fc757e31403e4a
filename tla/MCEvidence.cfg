SPECIFICATION Spec
CONSTANTS
    None = None
    LogTasks = {"t", "u"}
    SignalIds = {1, 2}
    LogPrices = {103}
    MaxSignals = 1
    SignalKinds = {"bullish"}
    LogDays = 8
    Evidences <- Scans
    PaperQuotes <- Offers
    Slippages = {90, 91}
    EvidenceAge = 2
    ClockSkew = 1
    IntentLife = 1
    QuoteAge = 1
    LastMoment = 2
    MaxIntents = 2
    Trades <- LedgerTrades
    Accounts <- LedgerAccounts
    AlphaResults <- LedgerAlpha
    Tasks = 2
    TaskStates <- LedgerRows
    LedgerDays = 2
    Feeds <- MCFeeds
    Wallets = {"a", "b", "c"}
    Ties <- MCTies
    MergeConfidence = 90
    Holdings <- MCHoldings
    TopHolders = 1
    SellBalance = 100
    SellWindow = 1
    MinShare = 5
    CriticalShare = 20
    MinSellers = 2
    MaxPerKey = 3
    LastSlot = 2
    SellEnd = 2
    Endpoints <- EvmEndpoints
    Registries <- EvmRegistries
    Payloads <- EvmPayloads
    EvmChains = {"base", "bsc", "arbitrum"}
    CallerLiquidity <- MCCallerLiquidity
    MaxAttempts = 2
    MaxCollects = 1
    WorldTickers = {"x", "y"}
    WorldQuotes <- Quotes
    MinGap = 3
    MaxSpread = 8
    MinReplayLiquidity = 500
    FeePercent = 1
    MinNetEdge = 0
    MaxPairs = 1
    MaxAge = 30
    TargetUnits = 2
    UnknownFills = 1
    LastFrame = 3
    Bars <- ResearchBars
    Grid <- Variants
    AdxPeriod = 1
    FeeBps = 5
    SlipBps = 100
    FundingBps = 1
    MaintenanceBps = 50
    Equity = 100000
    FundingSeries <- MCFunding
    FundingEvery = 2
    TrainBars = 2
    TestBars = 3
    StepBars = 3
    LastResearchBar = 8
    Gate <- MCGate
INVARIANTS TypeOK FillsRestOnEvidence BooksAgree VerdictsAreEarned EvidenceIsSound ReportsBalance
CHECK_DEADLOCK FALSE
