SPECIFICATION Spec
CONSTANTS
  Repo = {r1, r2}
  c1 = c1
  c2 = c2
  c3 = c3
  c4 = c4
  Change = {c1, c2, c3, c4}
  Before <- Chain
  Threshold = 1
  MaxDeletes = 1
CONSTRAINT TwoPairs
INVARIANTS
  SavedIsSafe
CHECK_DEADLOCK FALSE
