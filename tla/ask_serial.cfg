SPECIFICATION CountedSpec
CONSTANTS
    r1 = r1
    r2 = r2
    Requests = {r1, r2}
    NoStore = NoStore
    MaxStamp = 2
    MAX_ENTRIES = 2
    SharedInstances = FALSE
    TestHooks = TRUE
    AskedPlans <- TwoQuestions
SYMMETRY Symmetric
INVARIANTS
    InvalidationNeverFails
    OnceInv
    StoreWithinBound
    SerialInv
PROPERTIES
    ComputedAtMostOncePerVersion
