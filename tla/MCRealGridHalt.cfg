SPECIFICATION Spec
CONSTANTS
    Prices <- MCPrices
    MaxOrders = 2
    MaxDays = 1
    MaxSpacing = 15
    Regimes = {"normal"}
    Trends = {"neutral", "bearish"}
    Restarts <- NoRestarts
    StatusFails = FALSE
    SaveFails = TRUE
    Endowment = 0
    Spacing = 15
    BaseLevels = 1
    MaxOpen = 2
    Stale = 50
    StopLoss = 30
    Chase = 10
    FlashCrash = 50
    Whole = 1
    MaxLoss = 10000
    RiskMaxOpen = 2
    RiskMaxLoss = 20000
    RiskMaxStreak = 1

PROPERTIES HaltPersists
CHECK_DEADLOCK FALSE
