CONSTANTS
    d1 = d1
    d2 = d2
    e1 = e1
    e2 = e2
    e3 = e3
    Device = {d1, d2}
    Entry = {e1, e2}
    PageSize = 1
    MaxSeq = 3
    MaxLosses = 1
    MaxRewinds = 0
    RewindTails = FALSE
SPECIFICATION MCSpec
CHECK_DEADLOCK FALSE
INVARIANTS CachesTellTruth
PROPERTIES EntriesArrive
