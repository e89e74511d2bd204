SPECIFICATION UndoSpec
CONSTANTS
    Notes = {a, b, c}
    Null = null
    MaxDepth = 2
    Clients = {w1}
    UndoOperations = 2
SYMMETRY IdSymmetry
INVARIANTS
    CommittedTreeLoads
    MemoryMatchesRows
    NoAssertionFails
PROPERTIES
    UndoRestoresOrder
    RedoRestoresOrder
