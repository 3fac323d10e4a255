CONSTANTS
    m1 = m1
    m2 = m2
    s1 = s1
    s2 = s2
    s3 = s3
    j1 = j1
    j2 = j2
    j3 = j3
    a = a
    b = b
    None = None
    Memory = {m1, m2}
    Source = {s1, s2, s3}
    Job = {j1, j2, j3}
    Text = {a, b}
    MemoryOf <- MCMemoryOf
    MaxRevision = 2
SPECIFICATION MCSpec
CHECK_DEADLOCK FALSE
SYMMETRY SaveSymmetry
INVARIANTS CommitDiscipline
PROPERTIES OnlySeenTextReplaced CallsAreAuthorized
