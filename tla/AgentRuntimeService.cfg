SPECIFICATION MCSpec
CONSTANTS
    r1 = r1
    r2 = r2
    None = None
    Request = {r1, r2}
    Target = {r1, r2}
    TargetOf <- OwnTarget
    Overlap <- NestedOverlap
    SameLease <- OwnLease
    MaxConcurrent = 2
    MaxPending = 1
    Keep = 2
SYMMETRY RequestSymmetry
CHECK_DEADLOCK FALSE
INVARIANTS LeaseDiscipline CancelHonoured ShutdownSound
PROPERTIES RunsOnce
