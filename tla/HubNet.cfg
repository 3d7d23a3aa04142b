SPECIFICATION FairSpec
CONSTANTS
  DialerId = {d1}
  ListenerId = {l1}
  ConnId = {c1, c2, c3}
  Actor = {a1, a2}
  MaxRetries = 1
  NoLimit = NoLimit
  NoConn = NoConn
  NoOwner = NoOwner
  NoDialer = NoDialer
INVARIANTS
  OneConnectionPerDialer
  ConnectedIsLive
  PendingIsDialling
  ListenerTracksConnections
  RetryBudget
PROPERTIES
  StopCompletes
  DialerSettles
CHECK_DEADLOCK FALSE
