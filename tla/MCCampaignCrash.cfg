SPECIFICATION CampaignSpec
CONSTANTS
    TaskIds = {m1}
    Keys = {}
    NoKey = NoKey
    Owners = {d1}
    NoOwner = NoOwner
    NoTask = NoTask
    NoLease = NoLease
    LeaseTimes = {2}
    LockWait = 1
    MaxTime = 4
    MaxAttempts = 0
    Labels <- MCLabels
    Snapshots <- MCNoSnapshots
    LeaseSeconds = 2
    MaxRetries = 1
    MaxMissions = 1
    RepairLimit = 2
    MaxRoots = 1
    Prompt = {d1}
    Mutating = {d1}
    Leaving = {}
    Earlier <- MCAnyOrder
    MaxCrashes = 1
    MaxUnblocks = 0
INVARIANTS
    DirtyNotRetried
