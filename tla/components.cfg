CONSTANTS
    title = title
    tags = tags
    state = state
    c1 = c1
    c2 = c2
    Clients = {c1, c2}
    Predicates <- AllPredicates
    Targets = {1, 2, 3}
    Values = {1}
    Initial = {title}
    Optional = {}
    Collections = {tags}
    MaxRequests = 3
    MaxDeletes = 1
    Bases = {1, 2, 3}
    FlagValue = 1
    Ratings = {1}
    PageSize = 1
    MaxWrites = 3
    StatePredicate = state
    States = 3
    Transitions <- FlowTransitions
    MaxActions = 3
    Apps = {1, 2}
    Elements = {"name", "rating"}
    Version <- Versions
    MaxFailures = 1
    MaxExpired = 1
    MaxTimeouts = 1
    MaxRestarts = 1
SPECIFICATION ComponentsSpec
INVARIANTS
    LastWriteIsKept
    PagingMissesNothing
    FurthestStateIsKept
    OnlyMovesAreMissed
    FoundIsComplete
    AddedOnceAndWhole
    KeepaliveGoesOn
    ListensToWhatItKeeps
PROPERTIES
    SubscribesAgain
    DisposedIsReleased
CHECK_DEADLOCK FALSE
