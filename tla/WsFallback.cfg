SPECIFICATION FairSpec
CONSTANTS
  Conns = {c1, c2}
  BroadcastCap = 2
  RegisterCap = 1
  MaxFrames = 4
CHECK_DEADLOCK FALSE
INVARIANTS TypeOK DeliveredInOrder OpenIsServed ReturnedIsClosed
PROPERTIES HandlersReturn ImplementsFeed
