SPECIFICATION Spec
CONSTANTS
    pdf = pdf
    csv = csv
    r1 = r1
    r2 = r2
    Exts = {pdf, csv}
    Readers = {r1, r2}
    Chunks = 2
    MetaSizes = {1, 2}
    MaxUploads = 3
    MaxFaults = 1
    MaxCrashes = 1
INVARIANTS ServedWhole NamedFileIsFound CompletedUploadIsInPlace DownloadIsFresh
CHECK_DEADLOCK FALSE
SYMMETRY Threads
