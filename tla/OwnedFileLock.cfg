CONSTANTS
    c1 = c1
    c2 = c2
    c3 = c3
    p1 = p1
    p2 = p2
    p3 = p3
    i1 = i1
    i2 = i2
    i3 = i3
    r1 = r1
    r2 = r2
    NoFile = NoFile
    Bare = Bare
    None = None
    Call <- MCCall
    Proc <- MCProc
    Pid <- MCPid
    ProcOf <- MCProcOf
    PidOf <- DistinctPids
    ClassOf <- MixedClass
    HasProof = {c1, c3}
    Attempts = 3
    Grace = 1
    Request = {r1}
SPECIFICATION MCSpec
CHECK_DEADLOCK FALSE
INVARIANTS MutualExclusion ExclusionDespiteReuse RecoveryAdviceJustified
PROPERTIES ImplementsPartLock FullGrace ManualNeedsPerson LegacyLockNeverBlocks
