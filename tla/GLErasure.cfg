SPECIFICATION FairSpec
CONSTANTS
    e1 = e1
    e2 = e2
    e3 = e3
    p1 = p1
    p2 = p2
    k1 = k1
    k2 = k2
    k3 = k3
    t1 = t1
    t2 = t2
    None = None
    Instances = {i1}
    Projects = {p1, p2}
    Execs = {e1, e2}
    Keys = {k1}
    Tags = {t1}
    ProjectOf <- TwoProjects
    KeyOf <- SharedKey
    TagOf <- OneCaller
    Deletable = {p1}
    Editable = {}
    StorageFaults = TRUE
    MaxStops = 1
INVARIANTS
    WorkersAreRecorded
    ReplayAnswersOwnRequest
CHECK_DEADLOCK FALSE
PROPERTIES
    RunsEnd
    AttemptsEnd
