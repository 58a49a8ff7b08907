SPECIFICATION Spec
CONSTANTS
    p1 = p1
    p2 = p2
    p3 = p3
    w1 = w1
    w2 = w2
    Null = Null
    Workers <- OneWorker
    Payloads <- ThreePayloads
    DestinationOf <- MCDestinationOf
    CategoryOf <- MCCategoryOf
    BytesOf <- MCBytesOf
    Keys = {"k"}
    CallerOrigins = {}
    AttemptLimits = {1}
    Delays = {}
    RecoverAges = {}
    Retention = 0
    MaxPending = 3
    MaxBytes = 5
    MaxPerDestination = 2
    MaxPerCategory = 2
    ClaimLimit = 2
    MaxLag = 0
    Horizon = 0
    MaxOverruns = 0
    MaxMessages = 4
PROPERTIES FairClaims AdmissionRespectsCapacity
CHECK_DEADLOCK FALSE
