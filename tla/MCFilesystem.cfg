SPECIFICATION Spec
CONSTANTS
    None = None
    w1 = w1
    w2 = w2
    r1 = r1
    e1 = e1
    e2 = e2
    Keys <- MCKeys
    Entries <- MCEntries
    Allowed <- MCAllowed
    Writers <- MCWriters
    Readers = {r1}
    Chunks = 2
    Inodes <- MCInodes
    Exclusive <- MCExclusive
    MaxPuts = 3
    MaxFaults = 1
INVARIANTS
    NeverPartialIfExclusive
    GetReturnsWhole
    GetReturnsOwnEntry
PROPERTIES
    ImplementsAncestorStore
    LonePutRepairs
CHECK_DEADLOCK FALSE
