SPECIFICATION FairSpec
CONSTANTS
  n1 = n1
  n2 = n2
  Notes = {n1, n2}
  NoNote = NoNote
  FirstNotes = {n1}
  Sessions <- RacesAndFailures
  MaxTexts = 1
INVARIANTS TypeOK TypedTextIsKept OneViewRequest AutosaveStaysDirty
PROPERTIES LeftNoteIsRendered GateIsFreed
