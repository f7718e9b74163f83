CONSTANTS
    Agents = {1, 2, 3}
    MaxEntries = 9
    MaxBlindMerges = 2
    MaxChunked = 0
    MaxCommits = 2
    MaxStale = 0
    MaxLost = 0
    MaxRestarts = 0
SPECIFICATION MergedTwiceSpec
INVARIANTS
    MergesEnd
PROPERTIES
    Convergence
