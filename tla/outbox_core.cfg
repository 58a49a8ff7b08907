SPECIFICATION Spec
CONSTANTS
    p1 = p1
    p2 = p2
    p3 = p3
    w1 = w1
    w2 = w2
    Null = Null
    Workers <- TwoWorkers
    Payloads <- OnePayload
    DestinationOf <- MCDestinationOf
    CategoryOf <- MCCategoryOf
    BytesOf <- MCBytesOf
    Keys = {"k"}
    CallerOrigins = {}
    AttemptLimits = {2}
    Delays = {1}
    RecoverAges = {1}
    Retention = 1
    MaxPending = 2
    MaxBytes = 3
    MaxPerDestination = 2
    MaxPerCategory = 2
    ClaimLimit = 2
    MaxLag = 0
    Horizon = 2
    MaxOverruns = 1
    MaxMessages = 2
INVARIANTS RowsAgree ExclusiveClaims
SYMMETRY WorkerSymmetry
PROPERTIES QueueRefinement
CHECK_DEADLOCK FALSE
