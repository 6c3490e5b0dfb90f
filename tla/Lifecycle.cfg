SPECIFICATION Spec
CONSTANTS
    Profiles <- AllProfiles
    Records = {r1}
    NumSteps = 2
    Concurrency = 1
    HistoryLimit = 1
    ApprovalTimeout = 1
    LoseResponses = TRUE
    MaxClock = 1
    MaxDecisions <- SecondThoughts
    MaxTouches = 1
    MaxFaults = 1
    MaxCrashes = 1
    MaxLag = 1
INVARIANTS
    TypeOK
    StepsNeverRepeat
    OutcomeMatchesEffects
    AttemptsAreApproved
    AttemptsWithinBudget
    FailureIsPagedFirst
    FailurePagesOnce
PROPERTIES
    EffectsOnlyWhileRunning
    TerminalIsFinal
    ImplementsRecord
CHECK_DEADLOCK FALSE
