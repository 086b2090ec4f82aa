SPECIFICATION Spec
CONSTANTS
    Fields <- MCFields
    FormKeys = {"VWORLD_WMTS_KEY", "UPLOAD_SHEET_NAME", "LOGIN_MAX_ATTEMPTS"}
    PasswordKey = "ADMIN_PW_HASH"
    LimiterKey = "LOGIN_MAX_ATTEMPTS"
    Texts <- PlainTexts
    Missing = Missing
    Plain <- MCPlain
    LoadDotenv <- Identity
    Valid <- PlainValid
    Readable <- MCReadable
    Starts <- PlainStarts
    Threads = {}
    MaxUpdates = 1
    MaxFaults = 0
INVARIANTS UpdatesApply
CHECK_DEADLOCK FALSE
