CONSTANTS
    m1 = m1
    m2 = m2
    m3 = m3
    b1 = b1
    c1 = c1
    f1 = f1
    f2 = f2
    f3 = f3
    s1 = s1
    j1 = j1
    j2 = j2
    d1 = d1
    p1 = p1
    p2 = p2
    seed = seed
    a = a
    b = b
    None = None
    Request = {m1, m2, m3, b1, c1}
    Manual = {m1, m2, m3}
    RootOf <- MCRootOf
    MaxPending = 3
    MaxBurst = 2
SPECIFICATION MCSpec
CHECK_DEADLOCK FALSE
INVARIANTS QueueDiscipline
PROPERTIES DocumentKept EveryCallAnswered HalfDoneCompletes OutboxSettles
