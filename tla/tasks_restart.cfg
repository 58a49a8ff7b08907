SPECIFICATION FairSpec
CONSTANTS
    s1 = s1
    s2 = s2
    c1 = c1
    c2 = c2
    NoScope = NoScope
    Scopes <- OneScope
    Callers <- OneCaller
    Kinds <- ResilientKinds
    RestartLimit = 1
    HistoryLimit = 1
    MaxTasks = 2
    MaxLongRuns = 1
INVARIANTS RunnerInv NotGivenUpEarly
PROPERTIES CallsReturn
CHECK_DEADLOCK FALSE
