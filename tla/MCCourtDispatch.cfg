SPECIFICATION DispatchFairSpec
CONSTANTS
    TaskIds = {t1, t2}
    Keys = {"either", "fabric"}
    NoKey = NoKey
    Owners = {}
    NoOwner = NoOwner
    NoTask = NoTask
    NoLease = NoLease
    LeaseTimes = {}
    LockWait = 0
    MaxTime = 0
    MaxAttempts = 0
    Labels = {}
    Snapshots <- MCSnapshots
    Callers = {d1, d2}
    Requests = {"either", "fabric"}
    NoRequest = NoRequest
    Intents = {i1}
    References = {r1}
    NoReference = NoReference
    NoBinding = NoBinding
    Routes <- MCRoutes
    DailyMaxCalls = 1
    NoRow = NoRow
    Mortal = {d1}
INVARIANTS
    IntentFirst
    SuccessSound
    OverrunBounded
PROPERTIES
    EveryDispatchSettles
CHECK_DEADLOCK FALSE
