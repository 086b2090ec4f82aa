SPECIFICATION Spec
CONSTANTS
    x = x
    y = y
    robot = robot
    t1 = t1
    t2 = t2
    Browsers = {x, y, robot}
    Bots = {robot}
    Tabs = {t1, t2}
    Owners <- MCOwners
    Skews <- MCSkews
    FutureTolerance = 1
    PastLimit = 8
    Day = 4
    SeoulOffset = 2
    DwellCap = 6
    SessionTimeout = 1
    CookieAge = 2
    MaxDelay = 1
    DaysAsked = {1}
    MaxTurns = 3
    MaxTime = 2
INVARIANTS NewSessionOnlyWhenDue StartBeforeFirstEvent DwellErrorIsBounded
PROPERTIES AnswerFitsTogether
CHECK_DEADLOCK FALSE
