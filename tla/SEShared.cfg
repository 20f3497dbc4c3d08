SPECIFICATION Spec
CONSTANTS
    p1 = p1
    p2 = p2
    c1 = c1
    c2 = c2
    Nobody = Nobody
    Nothing = Nothing
    Procs = {p1, p2}
    Clients = {c1, c2}
    HomeOf <- OwnProcess
    Contents = {s1}
    Requests = {r1, r2}
    StorageFaults = TRUE
    MaxExports = 2
    MaxVersions = 5
    MaxMishaps = 1
CHECK_DEADLOCK FALSE
SYMMETRY Symmetry
INVARIANTS
    TypeOK
    TransitionsChain
    HandedOverOnce
    VerdictsAgree
PROPERTIES
    EndedStands
