SPECIFICATION Spec
CONSTANTS
    r1 = r1
    r2 = r2
    Runners = {r1, r2}
    Plans <- MCPlans
    MaxFaults = 0
    Kinds = {"Deployment", "DaemonSet"}
    MaxReplicas = 3
    Reports <- MCReports
    HistoryLimit = 1
    MaxEdits = 0
    IntMax = 127
INVARIANTS
    RollbackRestoresTemplate
CHECK_DEADLOCK FALSE
