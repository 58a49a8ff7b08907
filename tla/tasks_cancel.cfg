SPECIFICATION Spec
CONSTANTS
    s1 = s1
    s2 = s2
    c1 = c1
    c2 = c2
    NoScope = NoScope
    Scopes <- TwoScopes
    Callers <- TwoCallers
    Kinds <- OneShotOrService
    RestartLimit = 1
    HistoryLimit = 1
    MaxTasks = 2
    MaxLongRuns = 0
INVARIANTS RegistryInv
PROPERTIES ShutdownReachesAll
SYMMETRY ScopeSymmetry
CHECK_DEADLOCK FALSE
