SPECIFICATION Spec
CONSTANTS
    api = api
    h1 = h1
    h2 = h2
    NoTarget = NoTarget
    AlertTargets = {api, NoTarget}
    Handlers = {h1}
    Cooldown = 1
    MaxPerHour = 1
    Hour = 1
    GiveUpCount = 2
    GiveUpWithin = 2
    Retention = 2
    HistoryLimit = 9
    MaxAge = 1
    FloorMargin = 1
    MaxClock = 5
    MaxRecords = 3
    MaxFaults = 0
    MaxCrashes = 1
INVARIANTS
    TypeOK
    SearchIsExact
    RateBounded
PROPERTIES
    CooldownHonoured
    GiveUpHonoured
    GiveUpIsEarned
CHECK_DEADLOCK FALSE
