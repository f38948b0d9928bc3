SPECIFICATION SessionSpec
CONSTANTS
    MaxIterations = 2
    MaxTries = 2
    MaxCalls = 2
    MaxInputs = 2
    MaxCrashes = 1
INVARIANTS
    SessionTypeOK
    RequestPaired
    EffectsAccounted
    OneDelegationIdentity
PROPERTIES
    EditsKept
    TurnsEnd
CHECK_DEADLOCK FALSE
