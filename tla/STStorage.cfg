SPECIFICATION StorageSpec
CONSTANTS
    k1 = k1
    k2 = k2
    c1 = c1
    Absent = Absent
    Original = Original
    Procs = {p1, p2}
    Keys = {k1}
    Collections = {c1}
    CollectionOf <- OneCollection
    Seeded = {k1}
    Batches <- ClaimOne
    Refreshes <- AllCollections
    Compatibility = TRUE
    StorageFaults = FALSE
    MaxCalls = 2
    Generations = {g1}
    Repairs = {r1, r2}
    RuntimeModes = {"lua-owned", "materialized-world"}
    MaxEdits = 2
    NoPackage = NoPackage
SYMMETRY Symmetry
INVARIANTS
    StorageTypeOK
    AtRestCacheIsExact
    DeliveredIsCoherent
PROPERTIES
    ImplementsOrderedStore
CHECK_DEADLOCK FALSE
