SPECIFICATION Spec
CONSTANTS
    e1 = e1
    e2 = e2
    e3 = e3
    p1 = p1
    p2 = p2
    k1 = k1
    k2 = k2
    k3 = k3
    t1 = t1
    t2 = t2
    None = None
    Instances = {i1}
    Projects = {p1}
    Execs = {e1}
    Keys = {k1}
    Tags = {t1}
    ProjectOf <- OneProject
    KeyOf <- FreshKey
    TagOf <- OneCaller
    Deletable = {p1}
    Editable = {}
    StorageFaults = FALSE
    MaxStops = 0
INVARIANTS
    ErasureIsFinal
CHECK_DEADLOCK FALSE
