SPECIFICATION FairSpec
CONSTANTS
  n1 = n1
  n2 = n2
  n3 = n3
  x = x
  y = y
  Node = {n1, n2, n3}
  Change = {x,y}
  Link <- Row
  Stored <- LastStores
  Creator = {n3}
  Finder = {n1}
  Granted <- AtTheFirst
  Regranted <- FirstMayChange
  MaxEvents = 2
INVARIANTS
  ReadyHasContent
PROPERTIES
  RequestsAnswered
  SearchFinds
  Converges
CHECK_DEADLOCK FALSE
