SPECIFICATION FairSpec
CONSTANTS
    s1 = s1
    b1 = b1
    Codes = {s1, b1}
    Lots = {0, 1, 2}
    Holding <- MCHolding
    Target <- MCTarget
    Orders = {1, 2, 3}
    None = None
    MaxOrders = 3
    MaxPerStock = 2
    Retries = 2
    MaxCrashes = 1
INVARIANTS TypeOK FillsAreTrades FillsWithinPlan StraysAreDangling BuysAccounted
PROPERTIES Terminates
CHECK_DEADLOCK FALSE
