CONSTANTS
    Clients = {"c1", "c2"}
    r0 = r0
    r1 = r1
    Results = {r0, r1}
    NoResult = NoResult
    MaxChanges = 2
    MaxBatches = 1
    MaxLate = 1
    MaxIds = 4
SPECIFICATION FewEventsSpec
INVARIANTS
    RoundBringsUpToDate
PROPERTIES
    SubscriptionsCatchUp
    ListenersCatchUp
    ClientsKeepASubscription
CHECK_DEADLOCK FALSE
