SPECIFICATION Spec
CONSTANTS
    Runners = {1, 2, 3}
    Plans <- MCPlans
    MaxFaults = 0
    Modes = {"all"}
    Deadline = 2
    MaxEdits = 0
INVARIANTS
    EveryChannelTried
CHECK_DEADLOCK FALSE
