SPECIFICATION CampaignSpec
CONSTANTS
    TaskIds = {m1, m2}
    Keys = {}
    NoKey = NoKey
    Owners = {d1}
    NoOwner = NoOwner
    NoTask = NoTask
    NoLease = NoLease
    LeaseTimes = {2}
    LockWait = 0
    MaxTime = 0
    MaxAttempts = 0
    Labels <- MCLabels
    Snapshots <- MCNoSnapshots
    LeaseSeconds = 2
    MaxRetries = 1
    MaxMissions = 1
    RepairLimit = 1
    MaxRoots = 1
    Prompt = {d1}
    Mutating = {d1}
    Leaving = {d1}
    Earlier <- MCAnyOrder
    MaxCrashes = 0
    MaxUnblocks = 1
INVARIANTS
    DirtyNotRetried
    RetryBudget
SYMMETRY MCMissions
