SPECIFICATION Spec
CONSTANTS
    None = None
    w1 = w1
    w2 = w2
    r1 = r1
    e1 = e1
    e2 = e2
    Keys <- MCTwoTypes
    Entries <- MCEntries
    Allowed <- MCAllowed
    Writers <- MCWriters
    Readers = {r1}
    Chunks = 2
    Inodes <- MCInodes
    Exclusive <- MCNoPath
    MaxPuts = 2
    MaxFaults = 0
INVARIANT TypesKeptApart
CHECK_DEADLOCK FALSE
