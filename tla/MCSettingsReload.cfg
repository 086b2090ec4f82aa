SPECIFICATION Spec
CONSTANTS
    Fields <- MCFields
    FormKeys = {"VWORLD_WMTS_KEY", "UPLOAD_SHEET_NAME", "LOGIN_MAX_ATTEMPTS"}
    PasswordKey = "ADMIN_PW_HASH"
    LimiterKey = "LOGIN_MAX_ATTEMPTS"
    Texts <- MCTexts
    Missing = Missing
    Plain <- MCPlain
    LoadDotenv <- MCLoadDotenv
    Valid <- MCValid
    Readable <- MCReadable
    Starts <- MCStarts
    Threads = {"t1"}
    MaxUpdates = 2
    MaxFaults = 2
INVARIANTS SettledUpdateApplies LimiterMatchesConfig RestartIsTransparent
CHECK_DEADLOCK FALSE
