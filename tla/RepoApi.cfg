SPECIFICATION FairSpec
CONSTANTS
  x = x
  y = y
  find = find
  watch = watch
  Dialer = {k}
  MaxDials = 2
  Searched = {x}
  Created = {y}
  Finder = {find}
  Watcher = {watch}
  Stopper = {stop}
  DocOf <- DocX
  NoPhase = NoPhase
INVARIANTS
  SubscribersUpToDate
PROPERTIES
  FindEnds
  CallsAnswered
CHECK_DEADLOCK FALSE
