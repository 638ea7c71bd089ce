SPECIFICATION Spec
CONSTANTS
    None = None
    w1 = w1
    w2 = w2
    r1 = r1
    e1 = e1
    e2 = e2
    Keys <- MCOneKey
    Entries <- MCEntries
    Allowed <- MCAllowed
    Writers <- MCWriters
    Readers = {r1}
    Chunks = 2
    Inodes <- MCInodes
    Exclusive <- MCNoPath
    MaxPuts = 3
    MaxFaults = 0
INVARIANT NeverPartial
CHECK_DEADLOCK FALSE
