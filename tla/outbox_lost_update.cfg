SPECIFICATION Spec
CONSTANTS
    p1 = p1
    p2 = p2
    p3 = p3
    w1 = w1
    w2 = w2
    Null = Null
    Workers <- OneWorker
    Payloads <- TwoPayloads
    DestinationOf <- MCDestinationOf
    CategoryOf <- MCCategoryOf
    BytesOf <- MCBytesOf
    Keys = {"k"}
    CallerOrigins = {}
    AttemptLimits = {1}
    Delays = {1}
    RecoverAges = {0}
    Retention = 0
    MaxPending = 2
    MaxBytes = 3
    MaxPerDestination = 2
    MaxPerCategory = 2
    ClaimLimit = 1
    MaxLag = 0
    Horizon = 1
    MaxOverruns = 0
    MaxMessages = 3
PROPERTIES SentContentOnly
CHECK_DEADLOCK FALSE
