SPECIFICATION FairSpec
CONSTANTS
    a = a
    b = b
    t1 = t1
    t2 = t2
    NoGeom = NoGeom
    Address = {a, b}
    Threads = {t1, t2}
    Sheets <- MCSheets
    SeedRows <- MCSeed
    BatchSize = 1
    MaxRetries = 2
    MaxRequests = 2
    MaxCrashes = 1
    MaxFaults = 1
    MaxJobs = 3
INVARIANTS GeomMatchesAddress StatusMatchesThread NoOrphanJob UploadedRowsWereAsked
PROPERTIES PassAsksEveryMissingRow CollectedStays ImplementsLifecycle ImplementsParcels JobsEnd
