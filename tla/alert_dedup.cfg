SPECIFICATION DedupSpec
CONSTANTS
    k1 = k1
    k2 = k2
    Keys = {k1, k2}
    Senders = {s1, s2}
    Window <- MCWindow
    Lag = 1
    MaxFaults = 2
SYMMETRY Symmetry
INVARIANTS DedupTypeOK NoRepeatInWindow SilenceIsBacked
CHECK_DEADLOCK FALSE
