SPECIFICATION FairCampaign
CONSTANTS
    TaskIds = {1, 2, 3}
    Keys = {}
    NoKey = NoKey
    Owners = {d1}
    NoOwner = NoOwner
    NoTask = NoTask
    NoLease = NoLease
    LeaseTimes = {2}
    LockWait = 0
    MaxTime = 2
    MaxAttempts = 0
    Labels <- MCLabels
    Snapshots <- MCNoSnapshots
    LeaseSeconds = 2
    MaxRetries = 1
    MaxMissions = 1
    RepairLimit = 1
    MaxRoots = 1
    Prompt = {d1}
    Mutating = {}
    Leaving = {}
    Earlier <- MCInOrder
    MaxCrashes = 1
    MaxUnblocks = 0
INVARIANTS
    RepairsBounded
PROPERTIES
    EveryMissionSettles
