SPECIFICATION RiskSpec
CONSTANTS
    h1 = h1
    h2 = h2
    g1 = g1
    m1 = m1
    w1 = w1
    P0 = {h1, h2}
    P1 = {}
    Meta = {}
    Keys <- MCKeys
    Senders = {w1}
    Window <- MCWindow
    Lag = 1
    MaxFaults = 1
    FiveMinutes = 2
    Lasting = {h1, h2}
    Nobody = Nobody
INVARIANT OneBadPlanBlocksNone
CHECK_DEADLOCK FALSE
