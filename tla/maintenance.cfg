SPECIFICATION MaintenanceSpec
CONSTANTS
    FileCount = 3
    MayFail <- Everything
    MaxCancels = 3
    Identities = {"anna", "bert"}
    MaxKeySets = 3
    LastStamp = 1
    Settings = {"a", "b"}
    Texts <- SomeTexts
    Versions <- SomeVersions
    MaxDeliveries = 1
    MaxNotices = 2
    Recipients = {"a", "b", "c"}
    Namespaces = {"old", "new"}
    Sources <- TwoSources
    Required <- OneRequired
    MaxContent = 2
    Given <- SomeArchives
    Pruners = {"p", "q"}
    LastTime = 3
    KeepLimits = {1, 2}
    AgeLimits = {2, 3}
    Ancestors <- SomeAncestors
    TagOrder <- ThreeTags
    StableTags = {"v1", "v2"}
    Revisions <- FourRevisions
    Remotes <- TwoRemotes
    OwnFiles = 2
    Requests <- SomeRequests
    Checkouts <- SomeCheckouts
    Advertises <- SomeAdvertises
    MaxTagMoves = 1
    Conditions = {"busy", "gone", "denied"}
    Transient = {"gone"}
    Usual = {"busy"}
    MaxQueries = 3
    Incoming = {"groupchat", "occupant"}
    MaxContexts = 2
    MaxNesting = 2
INVARIANTS RestoreSafe KeysTied EditsAtomic ReleasesOrdered TransportFailsClosed BackupsSound FailuresLeaveStopped QueriesAsThePolicySays RepliesAnswer
PROPERTIES FollowedRestoreEnds PendingKept PruneRemovesTheOldest DeploysForward
CHECK_DEADLOCK FALSE
