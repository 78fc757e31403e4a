\* One balance request runs beside the grid: what the book records stays real.
SPECIFICATION PollSpec
CONSTANTS
    Lower = 2
    Upper = 8
    Levels = 3
    Quantity = 2
    PositionLimit = 0
    Investment = 0
    Prices = {3, 7}
    MaxRuns = 1
    MaxOrders = 2
    Grace = 2
    MaxAge = 2
    CancelRetry = 1
    MaxFlight = 1
    MaxCall = 0
    Exchanges = {binance, bitkub}
    Requests = {q1}
INVARIANTS
    FillsAreReal
CHECK_DEADLOCK FALSE
