CONSTANTS
    Links = {l1, l2}
    l1 = l1
    l2 = l2
    ImmediateCommits = 2
    MaxPending = 2
    MaxMutations = 2
    MaxRestarts = 0
SPECIFICATION Spec
PROPERTIES
    BatchesAreAtomic
