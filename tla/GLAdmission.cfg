SPECIFICATION Spec
CONSTANTS
    e1 = e1
    e2 = e2
    e3 = e3
    p1 = p1
    p2 = p2
    k1 = k1
    k2 = k2
    k3 = k3
    t1 = t1
    t2 = t2
    None = None
    Instances = {i1, i2}
    Projects = {p1}
    Execs = {e1, e2}
    Keys = {k1}
    Tags = {t1}
    ProjectOf <- OneProject
    KeyOf <- SharedKey
    TagOf <- OneCaller
    Deletable = {}
    Editable = {p1}
    StorageFaults = TRUE
    MaxStops = 1
SYMMETRY Symmetry
INVARIANTS
    TypeOK
    OneExecutionPerKey
    SameRequestSameExecution
CHECK_DEADLOCK FALSE
