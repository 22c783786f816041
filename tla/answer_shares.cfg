SPECIFICATION Spec
CONSTANTS
    Cases <- TwiceBySegment
    RowLimit = 2
    PREVIEW_ROWS = 2
    DaysPerMonth = 2
CHECK_DEADLOCK FALSE
INVARIANT QuotedSharesAreRight
