SPECIFICATION CallsSpec
CONSTANTS
    Callers = {c1, c2, c3}
    Threshold = 2
    Cooldown = 3
    ProbeLease = 2
    LockWait = 1
    MaxTime = 7
    MaxFailures = 4
    RetryMax = 1
INVARIANTS
    OneProbe
    OneOutput
    RequestsBounded
PROPERTIES
    CooldownRespected
    FailureKeepsOpen
SYMMETRY MCCallers
