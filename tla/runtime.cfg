SPECIFICATION RuntimeSpec
CONSTANTS
    startupPhase = startupPhase
    r1 = r1
    r2 = r2
    k1 = k1
    k2 = k2
    k3 = k3
    NoPhase = NoPhase
    Phases <- OnePhase
    InitialDelay = 1
    MaxDelay = 3
    MaxSessions = 4
    MaxTroubles = 3
    MaxAttempts = 2
    MaxCancels = 2
    Rooms <- TwoRooms
    MaxRoomSessions = 2
    MaxRoomEvents = 1
    MaxWatchdogTasks = 3
    MaxBeats = 2
    TaskNames = {"a", "b"}
    MaxAge = 1
    MaxBeatTasks = 2
    LastBeat = 3
    AlertKeys <- ThreeKeys
    MaxKeys = 2
    Windows = {0, 2}
    LastSecond = 3
    MaxChecks = 5
INVARIANTS ConnectionInv OutcomeHolds RoomsAgree StopIsFinal HungIsReported
PROPERTIES ConnectsOnlyWhenNeeded ReturnedIsReady LoopEnds JoinEnds WindowKept
CHECK_DEADLOCK FALSE
