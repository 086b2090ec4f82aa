SPECIFICATION Spec
CONSTANTS
    t1 = t1
    t2 = t2
    Nothing = Nothing
    Garbage = Garbage
    NaN = NaN
    Threads = {t1, t2}
    Payloads <- MCPayloads
    Day = 1
    MaxRows = 2
    MaxEvents = 3
    MaxFails = 2
    MaxTime = 1
    StatsLimit = 10
    MaxLoads = 1
INVARIANTS LogsAgree ExportIsTheNewest ShownAddsUp
PROPERTIES ImplementsJournal
SYMMETRY MCSymmetry
CHECK_DEADLOCK FALSE
