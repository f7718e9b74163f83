CONSTANTS
    a1 = a1
    a2 = a2
    Agents = {a1, a2}
    l1 = l1
    l2 = l2
    Links = {l1, l2}
    MaxEntries = 4
    MaxChunked = 0
SPECIFICATION SharedSpec
INVARIANTS
    SameRevisionSameLinks
