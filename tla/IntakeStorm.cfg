SPECIFICATION Spec
CONSTANTS
    api = api
    h1 = h1
    h2 = h2
    NoTarget = NoTarget
    AlertTargets = {api}
    Handlers = {h1, h2}
    Cooldown = 1
    MaxPerHour = 1
    Hour = 1
    GiveUpCount = 0
    GiveUpWithin = 2
    Retention = 2
    HistoryLimit = 1
    MaxAge = 1
    FloorMargin = 1
    MaxClock = 2
    MaxRecords = 4
    MaxFaults = 1
    MaxCrashes = 0
INVARIANTS
    RateBounded
SYMMETRY
    Symmetry
CHECK_DEADLOCK FALSE
