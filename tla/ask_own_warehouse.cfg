SPECIFICATION Spec
CONSTANTS
    r1 = r1
    r2 = r2
    Requests = {r1, r2}
    NoStore = NoStore
    MaxStamp = 2
    MAX_ENTRIES = 1
    SharedInstances = FALSE
    TestHooks = FALSE
    AskedPlans <- OneQuestion
SYMMETRY Symmetric
INVARIANTS
    ReconciledAgainstItsOwnWarehouse
