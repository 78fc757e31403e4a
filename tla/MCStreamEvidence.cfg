SPECIFICATION Spec
CONSTANTS
    Writers = {"u", "v"}
    EventIds = {"e"}
    Frames = {"f", "g"}
    Compactors = {"c", "d"}
    MinParts = 2
    MaxParts = 2
    LastDay = 1
    Landings = 3
    Signatures = {1, 2, 3}
    Hinted = {1, 2}
    PendingLimit = 3
    BackfillLimit = 2
    Disconnects = 2
    Pages <- MCPages
    AlphaTerms <- MCTerms
    AlphaAccounts = {"a"}
    AlphaCapitals = {1000, 2000}
    AlphaPolicies = {"p"}
    Instruments = {"x", "y"}
    MaxTotalRisk = 95
    MaxTradeRisk = 55
    MaxAlphaOpen = 2
    MinAlphaEdge = 5
    MaxQuoteAge = 30
    ForwardStart = 1
    MinForwardCases = 1
    MinForwardTrades = 1
    AlphaHorizon = 2
    AlphaCases = 4
    MaxPages = 2
    MaxRetries = 1
    WorldDays = 1
    Snapshots = 3
INVARIANTS EvidenceFirst
CHECK_DEADLOCK FALSE
