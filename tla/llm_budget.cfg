SPECIFICATION Spec
CONSTANTS
    c1 = c1
    c2 = c2
    c3 = c3
    worker = worker
    server = server
    Callers = {c1, c2, c3}
    Home <- MCHome
    Asks = {c1, c3}
    Cap = 2
    MaxCost = 2
    NoRouter = NoRouter
    MaxLost = 2
    MaxMonths = 1
INVARIANTS TypeOK OneRouter CapHolds
CHECK_DEADLOCK FALSE
