SPECIFICATION Spec
CONSTANTS
    p1 = p1
    p2 = p2
    Plans = {p1, p2}
    Hooks = {h1}
    Workers = {w1}
    Nobody = Nobody
    Prefixes <- OneOrBoth
    Windows = {1}
    StuckAge = 1
    BatchLimit = 2
    MaxClock = 3
    MaxFaults = 1
INVARIANTS TypeOK CancelledUnsold NoDoubleSell ExecutedHasOrder DecisionAndSaleAtomic
PROPERTIES NeverSellSettled EarlySaleNeedsConfirm ImplementsLifecycle
