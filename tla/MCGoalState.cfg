SPECIFICATION GoalSpec
CONSTANTS
    Managers = {p1, p2}
    Changes = {c1, c2, c3}
    MaxCrashes = 1
    MaxDeletes = 1
    MaxFaults = 2
    MaxImports = 2
INVARIANTS
    NoLostUpdate
    RefusedStaysOut
SYMMETRY MCSymmetry
CHECK_DEADLOCK FALSE
