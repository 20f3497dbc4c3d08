SPECIFICATION FairSpec
CONSTANTS
    k1 = k1
    k2 = k2
    c1 = c1
    Absent = Absent
    Original = Original
    Procs = {p1}
    Keys = {k1, k2}
    Collections = {c1}
    CollectionOf <- OneCollection
    Seeded = {k1}
    Batches <- ClaimAndPut
    Refreshes <- AllCollections
    Compatibility = TRUE
    StorageFaults = TRUE
    MaxCalls = 2
INVARIANTS
    AtRestCacheIsExact
    CloseCutsOnlyLateWrites
PROPERTIES
    EveryCallSettles
