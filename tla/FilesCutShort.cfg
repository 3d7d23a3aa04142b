SPECIFICATION FilesSpec
CONSTANTS
  Repo = {r1}
  c1 = c1
  c2 = c2
  Change = {c1, c2}
  Before <- Chain
  Threshold = 1
  MaxDeletes = 1
  BackEnds = {"tokio"}
  MaxIds = 1
  MaxFailures <- None
  MaxCuts = 1
  NoFile = NoFile
INVARIANTS
  NeverLost
CHECK_DEADLOCK FALSE
