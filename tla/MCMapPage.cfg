SPECIFICATION FairSpec
CONSTANTS
    a = a
    b = b
    c = c
    NoGeom = NoGeom
    Address = {a, b, c}
    Sheets <- MCSheets
    FirstSheet <- MCFirst
    PageSize = 2
    FilterInputs <- MCFilters
    ResetInput <- MCReset
    MaxUploads = 2
INVARIANTS LayersPartitionResult IndexIsHighlighted LoadedIsShown PagesFitTogether
PROPERTIES ClickShowsParcelHit LoadMissesNoRow LoadEnds
CHECK_DEADLOCK FALSE
