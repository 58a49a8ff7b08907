SPECIFICATION Spec
CONSTANTS
    a = a
    b = b
    c = c
    r = r
    NoTask = NoTask
    Writers <- TwoWriters
    Readers <- OneReader
INVARIANTS NobodyKeepsTheLock
CHECK_DEADLOCK FALSE
