SPECIFICATION Spec
CONSTANTS
  Notes = {a, b, c}
  Root = Root
  Disturbances = {"losses"}
SYMMETRY NoteSymmetry
CONSTRAINT InStep
INVARIANTS TypeOK PageFollowsView
