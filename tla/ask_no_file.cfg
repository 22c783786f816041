SPECIFICATION Spec
CONSTANTS
    r1 = r1
    r2 = r2
    Requests = {r1, r2}
    NoStore = NoStore
    MaxStamp = 4
    MAX_ENTRIES = 1
    SharedInstances = FALSE
    TestHooks = FALSE
    AskedPlans <- ShortQuestion
SYMMETRY Symmetric
INVARIANTS
    NoStaleTotal
