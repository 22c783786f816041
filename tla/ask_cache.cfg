SPECIFICATION NotedSpec
CONSTANTS
    r1 = r1
    r2 = r2
    Requests = {r1, r2}
    NoStore = NoStore
    MaxStamp = 3
    MAX_ENTRIES = 2
    SharedInstances = TRUE
    TestHooks = TRUE
    AskedPlans <- OneQuestion
SYMMETRY Symmetric
INVARIANTS
    TypeOK
    IInv
    NoFigureOlderThanItsKey
    FiguresMatchRows
    OlderOnlyWithoutAFile
PROPERTIES
    FiguresAreFresh
