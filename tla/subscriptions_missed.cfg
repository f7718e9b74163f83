CONSTANTS
    Clients = {"c1"}
    r0 = r0
    r1 = r1
    Results = {r0, r1}
    NoResult = NoResult
    MaxChanges = 2
    MaxBatches = 0
    MaxLate = 0
    MaxIds = 4
SPECIFICATION ListeningSpec
INVARIANTS
    EveryChangeIsDelivered
CHECK_DEADLOCK FALSE
