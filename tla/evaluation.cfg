SPECIFICATION Spec
CONSTANTS
    Readers = {r1, r2}
    SchemaReaders = {t1}
    NQuestions = 2
    MaxEvaluations = 2
    MaxStamp = 2
INVARIANTS
    TypeOK
    ReportsAddUp
    MissIsFresh
