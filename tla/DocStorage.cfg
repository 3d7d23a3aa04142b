SPECIFICATION Spec
CONSTANTS
  Repo = {r1}
  c1 = c1
  c2 = c2
  c3 = c3
  c4 = c4
  Change = {c1, c2, c3}
  Before <- Fork
  Threshold = 1
  MaxDeletes = 1
SYMMETRY ForkSymmetry
INVARIANTS
  SavedIsSafe
  FlushedWhenStopped
PROPERTIES
  StoreSpec
  LoadFindsAll
CHECK_DEADLOCK FALSE
