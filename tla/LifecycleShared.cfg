SPECIFICATION Spec
CONSTANTS
    Profiles <- QuietProfiles
    Records = {r1, r2}
    NumSteps = 1
    Concurrency = 2
    HistoryLimit = 1
    ApprovalTimeout = 1
    LoseResponses = FALSE
    MaxClock = 1
    MaxDecisions <- Never
    MaxTouches = 0
    MaxFaults = 1
    MaxCrashes = 1
    MaxLag = 1
INVARIANTS
    CompletionsRemembered
PROPERTIES
    PruneOnlyTerminal
CHECK_DEADLOCK FALSE
