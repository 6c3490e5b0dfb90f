SPECIFICATION Spec
CONSTANTS
    r1 = r1
    r2 = r2
    Runners = {r1, r2}
    Plans <- MCPlans
    MaxFaults = 1
    Kinds = {"Deployment", "DaemonSet"}
    MaxReplicas = 3
    Reports <- MCReports
    HistoryLimit = 1
    MaxEdits = 1
    IntMax = 127
INVARIANTS
    TypeOK
    VerifiedMeansRolledOut
    ScalingWithinBounds
    RollbackOnlyToOwnRevisions
    DryRunsChangeNothing
PROPERTIES
    StepsEnd
CHECK_DEADLOCK FALSE
