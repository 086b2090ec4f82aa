SPECIFICATION Spec
CONSTANTS
    t1 = t1
    t2 = t2
    ip1 = ip1
    global = global
    dl = dl
    Threads = {t1, t2}
    Keys <- MCKeys
    Routes <- MCRoutes
    InitialLimit <- MCLimit
    Reloadable = {dl}
    NewLimits = {0}
    Window = 3
    TicksPerSecond = 2
    MaxTracked = 2
    MaxStall = 1
    MaxTime = 4
INVARIANT LimitHolds
PROPERTIES RejectsOnlyWhenFull RetryAfterSuffices GrowsOnlyForActiveKeys
SYMMETRY Symmetry
