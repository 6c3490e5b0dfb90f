SPECIFICATION FairSpec
CONSTANTS
    Profiles <- LiveProfiles
    Records = {r1}
    NumSteps = 1
    Concurrency = 1
    HistoryLimit = 1
    ApprovalTimeout = 1
    LoseResponses = FALSE
    MaxClock = 1
    MaxDecisions <- Once
    MaxTouches = 1
    MaxFaults = 1
    MaxCrashes = 1
    MaxLag = 0
PROPERTIES
    EveryRecordEnds
CHECK_DEADLOCK FALSE
