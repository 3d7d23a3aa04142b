SPECIFICATION FairSpec
CONSTANTS
  c1 = c1
  p1 = p1
  Conn = {c1, c2}
  Peer = {p1}
  PeerOf <- OnePeer
  Deny = Deny
  Config = {Deny, Share}
  MaxBuffered = 1
  MaxSent <- FirstSends
  MaxDecisions = 2
INVARIANTS
  AnnouncedOnce
  ViewsAgree
  CheckIsSomewhere
  MessagesInOrder
PROPERTIES
  NeverBackwards
  EveryConnectionDecided
CHECK_DEADLOCK FALSE
