SPECIFICATION Spec
CONSTANTS
    Runners = {1, 2, 3}
    Plans <- MCPlans
    MaxFaults = 1
    Modes = {"steps", "all", "firstSuccess"}
    Deadline = 2
    MaxEdits = 1
INVARIANTS
    JobVerdictIsItsOwn
    FallbackStopsOnceDelivered
    ReportIsTrue
PROPERTIES
    CallsEnd
CHECK_DEADLOCK FALSE
