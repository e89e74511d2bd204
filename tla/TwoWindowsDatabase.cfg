SPECIFICATION UndoSpec
CONSTANTS
    Notes = {a, b, c}
    Null = null
    MaxDepth = 2
    Clients = {w1, w2}
    UndoOperations = 1
SYMMETRY WindowSymmetry
INVARIANT CommittedTreeLoads
