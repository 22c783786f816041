SPECIFICATION Spec
CONSTANTS
    r1 = r1
    r2 = r2
    r3 = r3
    Requests = {r1, r2, r3}
    NoStore = NoStore
    MaxStamp = 2
    MAX_ENTRIES = 1
    SharedInstances = TRUE
    TestHooks = TRUE
    AskedPlans <- ShortQuestion
SYMMETRY Symmetric
INVARIANTS
    CacheConverges
    ConvergeInv
