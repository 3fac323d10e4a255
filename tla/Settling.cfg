CONSTANTS
    i1 = i1
    l1 = l1
    x = x
    mac = mac
    portal = portal
    url = url
    None = None
    Inputs = {i1}
    Launches = {l1}
    Texts = {x}
    Chunks = 2
    MaxAssemblies = 2
    MaxBoots = 2
    MaxRaws = 0
    MaxEscs = 0
SPECIFICATION MCSpec
CHECK_DEADLOCK FALSE
PROPERTIES SubmissionsEnd DeletionArrives
