CONSTANTS
    h1 = h1
    h2 = h2
    r1 = r1
    r2 = r2
    compact = compact
    clear = clear
    i1 = i1
    i2 = i2
    l1 = l1
    x = x
    y = y
    None = None
    alone1 = alone1
    alone2 = alone2
    shared1 = shared1
    shared2 = shared2
    inputs = inputs
    launch1 = launch1
    launch2 = launch2
    Host = {h1, h2}
    Request = {r1, r2}
    Command = {compact, clear}
    MaxBoots = 3
SPECIFICATION MCSpec
CHECK_DEADLOCK FALSE
SYMMETRY CommandSymmetry
INVARIANTS CommandsKeepTheirWord SubmissionsKeepTheirWord
PROPERTIES FenceHolds
