SPECIFICATION ShownSpec
CONSTANTS
  Notes = {a, b, c, d, e, f}
  Root = Root
  Disturbances = {}
INVARIANTS PageShowsWarmView
