CONSTANTS
    d1 = d1
    d2 = d2
    p1 = p1
    p2 = p2
    p3 = p3
    p4 = p4
    seed = seed
    a = a
    b = b
    olda = olda
    oldb = oldb
    None = None
    pushes = pushes
    backups1 = backups1
    backups2 = backups2
    conflicts1a = conflicts1a
    conflicts1b = conflicts1b
    conflicts2a = conflicts2a
    conflicts2b = conflicts2b
    local1 = local1
    local2 = local2
    Device = {d1, d2}
    Proc = {p1, p2, p3, p4}
    DeviceOf <- MCDeviceOf
    Text = {seed, a, b, olda, oldb}
    Template = seed
    Stable <- MCStable
    Kinds <- AllKinds
    MaxRevisions = 2
    MaxEdits = 2
    MaxAttempts = 2
    MaxLate = 1
SPECIFICATION MCSpec
CHECK_DEADLOCK FALSE
SYMMETRY SyncSymmetry
INVARIANTS HistoryIsSound
PROPERTIES NothingLost UnsyncedKept
