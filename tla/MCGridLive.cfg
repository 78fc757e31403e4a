\* Liveness: stale orders are got rid of, stopped goroutines end.
SPECIFICATION FairSpec
CONSTANTS
    Lower = 2
    Upper = 8
    Levels = 3
    Quantity = 1
    PositionLimit = 0
    Investment = 0
    Prices = {3, 7}
    MaxRuns = 2
    MaxOrders = 1
    Grace = 2
    MaxAge = 2
    CancelRetry = 1
    MaxFlight = 1
    MaxCall = 0
    Exchanges = {binance}
PROPERTIES
    PendingResolved
    StoppedRunEnds
CHECK_DEADLOCK FALSE
