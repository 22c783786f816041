SPECIFICATION Spec
CONSTANTS
    Readers = {r1}
    SchemaReaders = {t1}
    NQuestions = 1
    MaxEvaluations = 2
    MaxStamp = 0
INVARIANT LatestIsServed
