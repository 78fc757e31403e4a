SPECIFICATION Spec
CONSTANTS
    GridPrices = {98, 100}
    GridOrders = 2
    GridLevels = 1
    GridSpacing = 2
    FullSize = 2
    PartSize = 1
    MaxPosition = 10
    MaxNotional = 2000
    Desperation = 1
    GridCash = 400000
    Directives <- BrainAnswers
    ThbPrices = {90, 100}
    ThbCash = 300
    BaseAmount = 100
    TrendAmount = 100
    TrendMax = 200
    MinNotional = 50
    DipOne = 3
    DipTwo = 5
    Spike = 5
    SpikeSell = 5000
    Interval = 1
    TrendStop = 5
    TrendTake = 10
    Lookback = 2
    ThbOrders = 3
    ArbAssets = {"BTC"}
    ArbPrices = {1000, 1003}
    ArbRates = {100, 102}
    ArbCapital = 10000
    RateCache = 2
    BitkubCache = 1
    ArbTrades = 2
    Thresholds <- MCThresholds
    Growths = {0, 30}
    Verdicts = {TRUE, FALSE}
    AlertCounts = {0, 3}
    MaxSpam = 2
    QueueLimit = 1
    MaxAlerts = 4
    MaxRuns = 2
    MaxScans = 2
    BrainPrices = {95, 100}
    Volatilities = {"low", "extreme"}
    Bands = {"middle", "upper"}
    Moods = {"extremeFear", "neutral", "extremeGreed"}
    DropLimit = 3
    Cooldown = 3
    Refresh = 2
    FutSymbols = {"BTC"}
    FutSize = 2
    FutTotal = 3
    FutIds = 4
    FutCrashes = 2
    PolyMarkets = {"m1", "m2"}
    PolyReadings <- MCReadings
    PolySizes = {5}
    PolyBankroll = 100
    MinBankroll = 10
    MaxOpenPositions = 2
    MaxPerSignal = 1
    TakeProfit = 20
    StopLossAt = 15
    MinEdge = 5
    MaxHold = 0
    LossCooldown = 1
    DailyLoss = 2
    MaxDrawdown = 20
    MaxLosses = 2
    MaxFailures = 1
    PolyTrades = 2
    PolyDays = 1
    FeedSymbols = {"BTC", "ETH"}
    Scores <- MCScores
    SignalCooldown = 2
    StartConfig <- MCStart
    DefaultConfig <- MCDefaults
    NewStrengths = {50}
    Replacements = 1
    HistoryLimit = 2
    MaxAttempts = 2
    ExecutionModes = {TRUE, FALSE}
    FeedEnd = 2
    Faults = 2
INVARIANTS TypeOK BooksAreTrue StakesConserved CrashHaltsBuys OnePositionPerSymbol SignalsActOnce
CHECK_DEADLOCK FALSE
