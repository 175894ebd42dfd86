SPECIFICATION Spec
CONSTANTS
    s1 = s1
    s2 = s2
    Strategies = {s1, s2}
    Bundle <- MCBundle
    Declared <- MCDeclared
    Statuses = {"dry_run", "paused"}
    Managers = {m1, m2}
    Booters = {b1, b2}
    Freshness = 0
    Nobody = Nobody
    MaxTx = 2
    MaxDay = 1
SYMMETRY Symmetry
INVARIANTS TypeOK LogEndsInStatus
PROPERTIES GoesLiveEvaluated
CHECK_DEADLOCK FALSE
