SPECIFICATION FairSpec
CONSTANTS
    p1 = p1
    p2 = p2
    c1 = c1
    c2 = c2
    Nobody = Nobody
    Nothing = Nothing
    Procs = {p1}
    Clients = {c1}
    HomeOf <- OneProcess
    Contents = {s1, s2}
    Requests = {r1, r2}
    StorageFaults = FALSE
    MaxExports = 2
    MaxVersions = 5
    MaxMishaps = 1
CHECK_DEADLOCK FALSE
PROPERTIES
    ExportIsHandedOver
