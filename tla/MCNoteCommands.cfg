SPECIFICATION StoreSpec
CONSTANTS
    Notes = {a, b, c, d}
    Null = null
    MaxDepth = 3
SYMMETRY IdSymmetry
INVARIANTS
    TypeOK
    CommittedTreeLoads
    MemoryMatchesRows
    NoAssertionFails
PROPERTY ImplementsSiblingLists
