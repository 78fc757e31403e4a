\* Two runs: stops, crashes and restarts while orders and answers travel.
SPECIFICATION Spec
CONSTANTS
    Lower = 2
    Upper = 8
    Levels = 3
    Quantity = 1
    PositionLimit = 0
    Investment = 0
    Prices = {1, 7}
    MaxRuns = 2
    MaxOrders = 2
    Grace = 3
    MaxAge = 3
    CancelRetry = 1
    MaxFlight = 1
    MaxCall = 1
    Exchanges = {binance}
INVARIANTS
    TypeOK
    OneLiveOrder
    SettledExactly
    HeldCoversPosition
    TradesCountFills
CHECK_DEADLOCK FALSE
