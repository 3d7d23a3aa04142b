SPECIFICATION FairSpec
CONSTANTS
  a = a
  b = b
  c = c
  Node = {a, b, c}
  Doc = {d1}
  Link <- Cycle
  Reads <- End
  Sends <- End
  MaxBroadcasts <- TwoFromA
  MaxBreaks = 1
INVARIANTS
  HeardInOrder
  CarriedOnce
PROPERTIES
  LastIsHeard
CHECK_DEADLOCK FALSE
