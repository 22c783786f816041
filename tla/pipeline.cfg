SPECIFICATION Spec
CONSTANT Topologies <- MCTopologies
CHECK_DEADLOCK FALSE
INVARIANTS
    TypeOK
    HaltIsTheLastWord
    RowsAreGoverned
    AnswerIsOfOnePiece
    AnalystNeverCrashes
PROPERTIES
    TraceIsAnAuditTrail
