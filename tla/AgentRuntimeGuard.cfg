CONSTANTS
    c1 = c1
    c2 = c2
    c3 = c3
    p1 = p1
    p2 = p2
    p3 = p3
    i1 = i1
    i2 = i2
    i3 = i3
    l1 = l1
    l2 = l2
    NoFile = NoFile
    Bare = Bare
    None = None
    Call = {c1, c2, c3}
    Proc = {p1, p2, p3}
    Pid = {i1, i2, i3}
    Request = {}
    Launch = {l1}
    ProcOf <- MCProcOf
    PidOf <- DistinctPids
    ClassOf <- MCClassOf
    HasProof = {c1, c2, c3}
    Attempts = 1
    Grace = 0
SPECIFICATION MCSpec
CHECK_DEADLOCK FALSE
INVARIANTS SupervisorAuthority AuthorityDespiteReuse
PROPERTIES ImplementsLock RecoveryCompletes
