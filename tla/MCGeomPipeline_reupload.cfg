SPECIFICATION Spec
CONSTANTS
    a = a
    b = b
    t1 = t1
    t2 = t2
    NoGeom = NoGeom
    Address = {a, b}
    Threads = {t1, t2}
    Sheets <- MCSheetsTwo
    SeedRows <- MCNoSeed
    BatchSize = 1
    MaxRetries = 1
    MaxRequests = 2
    MaxCrashes = 0
    MaxFaults = 0
    MaxJobs = 2
PROPERTIES ReuploadKeepsBoundaries
