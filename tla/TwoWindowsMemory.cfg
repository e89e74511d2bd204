SPECIFICATION UndoSpec
CONSTANTS
    Notes = {a, b, c}
    Null = null
    MaxDepth = 1
    Clients = {w1, w2}
    UndoOperations = 1
SYMMETRY WindowSymmetry
INVARIANT MemoryStaysOrdered
VIEW WithoutAuxiliary
CONSTRAINT NothingFolded
