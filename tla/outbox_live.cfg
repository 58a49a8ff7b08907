SPECIFICATION FairSpec
CONSTANTS
    p1 = p1
    p2 = p2
    p3 = p3
    w1 = w1
    w2 = w2
    Null = Null
    Workers <- OneWorker
    Payloads <- OnePayload
    DestinationOf <- MCDestinationOf
    CategoryOf <- MCCategoryOf
    BytesOf <- MCBytesOf
    Keys = {"k"}
    CallerOrigins = {o1}
    AttemptLimits = {1}
    Delays = {1}
    RecoverAges = {1}
    Retention = 0
    MaxPending = 2
    MaxBytes = 3
    MaxPerDestination = 2
    MaxPerCategory = 2
    ClaimLimit = 1
    MaxLag = 1
    Horizon = 2
    MaxOverruns = 1
    MaxMessages = 2
PROPERTIES OrphansRecovered PendingIsClaimed
CHECK_DEADLOCK FALSE
