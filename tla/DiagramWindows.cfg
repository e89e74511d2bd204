SPECIFICATION FairSpec
CONSTANTS
  w1 = w1
  w2 = w2
  Windows = {w1, w2}
  Casts <- EditorsAndPage
  StrokesEach = 2
  NoPreview = NoPreview
  Pending = Pending
  MaxOpenSessions = 1
  MaxFailures = 1
  MaxRevision = 2
INVARIANTS TypeOK SavedMeansStored NoChangeIsForgotten UndoStepsAreOnesOwn PageShowsWhatItAskedFor
PROPERTIES OthersStrokesSurvive StoredPreviewsAreComplete EditorComesToRest
CHECK_DEADLOCK FALSE
