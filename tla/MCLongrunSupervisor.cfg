SPECIFICATION LongrunSpec
CONSTANTS
    MaxLegs = 2
    Deadline = 2
    Causes = {"a", "b"}
    MaxCrashes = 1
INVARIANTS
    LegsBounded
    RecordKept
PROPERTIES
    RunEnds
CHECK_DEADLOCK FALSE
