SPECIFICATION StoreSpec
CONSTANTS
    TaskIds = {t1, t2}
    Keys = {k1}
    NoKey = NoKey
    Owners = {w1, w2}
    NoOwner = NoOwner
    NoTask = NoTask
    NoLease = NoLease
    LeaseTimes = {1, 2}
    LockWait = 1
    MaxTime = 3
    MaxAttempts = 1
    Labels = {"before_execution"}
    Snapshots <- MCSnapshots
INVARIANTS
    StoreTypeOK
    LeaseConsistent
    KeyIdentifiesTask
PROPERTIES
    LiveLeaseKeepsOwner
    StatusMovesAllowed
    NoNewOrphan
SYMMETRY MCSymmetry
