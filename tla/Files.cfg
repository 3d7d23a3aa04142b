SPECIFICATION FairFiles
CONSTANTS
  Repo = {r1}
  c1 = c1
  c2 = c2
  Change = {c1, c2}
  Before <- Chain
  Threshold = 1
  MaxDeletes = 1
  BackEnds = {"memory", "gio", "tokio"}
  MaxIds = 2
  MaxFailures <- GioFails
  MaxCuts = 0
  NoFile = NoFile
INVARIANTS
  LostOnlyByFaults
  IdKept
PROPERTIES
  WalksFindAll
  StopCompletes
  ChangesReachDisk
  CompactionSettles
CHECK_DEADLOCK FALSE
