CONSTANTS
    c1 = c1
    c2 = c2
    c3 = c3
    p1 = p1
    p2 = p2
    p3 = p3
    i1 = i1
    i2 = i2
    i3 = i3
    r1 = r1
    r2 = r2
    NoFile = NoFile
    Bare = Bare
    None = None
    Call = {c1, c2, c3}
    Proc = {p1, p2, p3}
    Pid = {i1, i2, i3}
    ProcOf <- MCProcOf
    PidOf <- ReusedPid
    ClassOf <- ManualClass
    HasProof = {}
    Attempts = 1
    Grace = 1
    Request = {r1, r2}
SPECIFICATION Spec
CHECK_DEADLOCK FALSE
PROPERTIES OnlyListedOwnerRemoved
