SPECIFICATION Spec
CONSTANTS
    pdf = pdf
    csv = csv
    r1 = r1
    r2 = r2
    Exts = {pdf, csv}
    Readers = {r1}
    Chunks = 2
    MetaSizes = {1, 2}
    MaxUploads = 2
    MaxFaults = 0
    MaxCrashes = 0
INVARIANTS RecordMatchesFile
CHECK_DEADLOCK FALSE
