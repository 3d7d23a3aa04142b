SPECIFICATION FairSpec
CONSTANTS
  n1 = n1
  n2 = n2
  n3 = n3
  x = x
  y = y
  Node = {n1, n2}
  Change = {x,y}
  Link <- Pair
  Stored <- Nothing
  Creator = {}
  Finder = {n1, n2}
  Granted <- AllAnnounce
  Regranted <- NobodyChanges
  MaxEvents = 0
PROPERTIES
  SearchEnds
CHECK_DEADLOCK FALSE
