SPECIFICATION FairSpec
CONSTANTS
  n1 = n1
  n2 = n2
  Notes = {n1, n2}
  NoNote = NoNote
  FirstNotes = {n1}
  Sessions <- ScrollOnly
  MaxTexts = 2
PROPERTIES EditorWithEditsIsPreserved
