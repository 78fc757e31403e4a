\* One run, longer: levels are bought, sold in parts, released, bought again.
SPECIFICATION Spec
CONSTANTS
    Lower = 2
    Upper = 8
    Levels = 3
    Quantity = 2
    PositionLimit = 3
    Investment = 0
    Prices = {1, 4, 5, 7}
    MaxRuns = 1
    MaxOrders = 4
    Grace = 3
    MaxAge = 3
    CancelRetry = 1
    MaxFlight = 1
    MaxCall = 1
    Exchanges = {binance}
INVARIANTS
    InventoryWithinCap
    BookIsInventory
PROPERTIES
    ImplementsLedger
CHECK_DEADLOCK FALSE
