CONSTANTS
    Links = {l1, l2}
    l1 = l1
    l2 = l2
    ImmediateCommits = 1
    MaxPending = 2
    MaxMutations = 2
    MaxRestarts = 1
SPECIFICATION Spec
INVARIANTS
    TypeOK
    NothingDropped
    CommittedOnce
PROPERTIES
    EveryDiffCommitted
    NeighbourhoodCatchesUp
