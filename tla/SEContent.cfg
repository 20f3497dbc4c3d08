SPECIFICATION Spec
CONSTANTS
    p1 = p1
    p2 = p2
    c1 = c1
    c2 = c2
    Nobody = Nobody
    Nothing = Nothing
    Procs = {p1}
    Clients = {c1, c2}
    HomeOf <- OneProcess
    Contents = {s1, s2}
    Requests = {r1}
    StorageFaults = FALSE
    MaxExports = 3
    MaxVersions = 9
    MaxMishaps = 0
CHECK_DEADLOCK FALSE
INVARIANTS
    VerifiedIsWhatWasSent
