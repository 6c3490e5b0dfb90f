SPECIFICATION Spec
CONSTANTS
    r1 = r1
    r2 = r2
    Runners = {r1, r2}
    Plans <- MCPlans
    MaxFaults = 1
    Objects = {1, 2, 3, 4, 5, 6, 7, 8}
    FirstClass <- MCFirstClass
    Fresh = {3}
    Nodes = {"n1", "n2"}
    Target = "n1"
    Unit = 4
    MaxUid = 2
    MaxEdits = 1
    IntMax = 127
INVARIANTS
    DrainedMeansEmpty
    RemovalsRestOnReadings
    DeletedMeansGone
    ExpansionIsReal
PROPERTIES
    StepsEndOnceAllowed
CHECK_DEADLOCK FALSE
