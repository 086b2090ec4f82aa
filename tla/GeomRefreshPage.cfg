SPECIFICATION PageFairSpec
CONSTANTS
    MaxJobs = 3
    MaxPolls = 3
    MaxClicks = 2
    MaxRestarts = 1
INVARIANTS EndIsTold
PROPERTIES ButtonComesBack
CHECK_DEADLOCK FALSE
