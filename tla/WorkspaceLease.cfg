CONSTANTS
    l1 = l1
    l2 = l2
    l3 = l3
    p1 = p1
    p2 = p2
    d1 = d1
    d2 = d2
    f1 = f1
    f2 = f2
    Free = Free
    NoGit = NoGit
    Debris = Debris
    MaxDebris = 1
    Lease = {l1, l2, l3}
    Reservation = {l3}
    Proc = {p1, p2}
    Directory = {d1, d2}
    Family = {f1, f2}
    ProcOf <- MCProcOf
    DirOf <- MCDirOf
SPECIFICATION Spec
SYMMETRY FamilySymmetry
CHECK_DEADLOCK FALSE
INVARIANTS ReservationKeepsDirectory NothingLeftBehind
PROPERTIES FamilyExclusive PartsAreOwned
