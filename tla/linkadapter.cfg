CONSTANTS
    Agents = {1, 2}
    MaxEntries = 4
    MaxChunked = 1
    MaxCommits = 2
    MaxStale = 1
    MaxLost = 1
    MaxRestarts = 1
SPECIFICATION OneKindOfFaultSpec
INVARIANTS
    NoForkIsStuck
    SkippingLosesNothing
PROPERTIES
    Convergence
    EveryDiffArrives
    EventuallySynced
    ImplementsCRDT
    UsesZome
