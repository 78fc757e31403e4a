\* One run of the auto bot, three orders, partial fills.
SPECIFICATION Spec
CONSTANTS
    Symbols = {btc, eth}
    Quantity = 2
    MaxRuns = 1
    MaxOrders = 3
    Grace = 3
    MaxAge = 3
    CancelRetry = 1
    MaxFlight = 1
    MaxCall = 1
INVARIANTS
    TypeOK
    OneLiveOrderPerSymbol
    NeverOversold
    TrackedIsHeld
CHECK_DEADLOCK FALSE
