SPECIFICATION FairSpec
CONSTANTS
    r1 = r1
    r2 = r2
    r3 = r3
    s1 = s1
    s2 = s2
    main = main
    Runs = {r1, r2, r3}
    SessionLanes = {s1, s2}
    GlobalLanes = {main}
    SessionLane <- MCSessionLane
    GlobalLane <- MCGlobalLane
    MaxConcurrency = 2
INVARIANTS
    NoIdleLane
    CommandsAreKept
    OneRunPerSession
PROPERTIES
    EveryRunSettles
CHECK_DEADLOCK FALSE
