SPECIFICATION FairSpec
CONSTANTS
  Conn = {1, 2}
  Calls <- Awaited
  MaxEnds = 1
  Senders = {"in"}
  Expectations <- MayMismatch
  Anyone = Anyone
  NoPeer = NoPeer
INVARIANTS
  NoWaiterMissed
  HandlesAgree
  OnlyStrangersRejected
PROPERTIES
  EndsTogether
CHECK_DEADLOCK FALSE
