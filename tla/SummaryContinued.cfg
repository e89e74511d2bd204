SPECIFICATION Spec
CONSTANTS
    None = None
    Casts <- Summaries
    MaxTurns = 2
INVARIANT PreviewsAreOfSummaries
CHECK_DEADLOCK FALSE
