SPECIFICATION Spec
CONSTANTS
    FileCount = 2
    MayFail <- Everything
    MaxCancels = 2
INVARIANTS RaisedQuietlyIsUnchanged
CHECK_DEADLOCK FALSE
