SPECIFICATION FairSpec
CONSTANTS
    a = a
    b = b
    c = c
    r = r
    NoTask = NoTask
    Writers <- ThreeWriters
    Readers <- OneReader
INVARIANTS LockInv Transactional
PROPERTIES EveryCallEnds
CHECK_DEADLOCK FALSE
