SPECIFICATION Spec
CONSTANTS
    p1 = p1
    h1 = h1
    h2 = h2
    NoSession = NoSession
    Procs = {p1}
    Handlers = {h1}
    HomeOf <- OneProcess
    MaxPhase = 1
    Registered = {1}
    MaxCalls = 2
    MaxCrashes = 0
CHECK_DEADLOCK FALSE
PROPERTIES
    GenerationKept
