CONSTANTS
    a1 = a1
    a2 = a2
    Agents = {a1, a2}
    l1 = l1
    l2 = l2
    Links = {l1, l2}
    MaxEntries = 5
    MaxCommits = 3
    MaxChunked = 1
SPECIFICATION ZomeSpec
SYMMETRY AgentsAndLinks
INVARIANTS
    TypeOK
    HistoryDelivered
    NoDiffTwice
    SignalsInCausalOrder
    UnretrievableWasSignalled
    MergesJoinForks
    NothingMissing
PROPERTIES
    NeverRewinds
