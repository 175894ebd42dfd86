SPECIFICATION FairSpec
CONSTANTS
    p1 = p1
    p2 = p2
    Plans = {p1, p2}
    Hooks = {h1}
    Workers = {w1}
    Nobody = Nobody
    Prefixes <- JustOne
    Windows = {1}
    StuckAge = 1
    BatchLimit = 1
    MaxClock = 3
    MaxFaults = 1
PROPERTIES EveryPlanSettles
