SPECIFICATION Spec
CONSTANTS
    Cases <- MCCases
    RowLimit = 2
    PREVIEW_ROWS = 2
    DaysPerMonth = 2
CHECK_DEADLOCK FALSE
INVARIANTS
    TypeOK
    VerifiedIsRight
    NoFalseAlarm
    SharesAreDefended
    VerifiedIsServable
    OvercountIsFlagged
    FrameIsBounded
    AuditIsAsPlanned
PROPERTIES
    PipeIsImplemented
