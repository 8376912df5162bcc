SPECIFICATION FairSpec
CHECK_DEADLOCK FALSE
CONSTANTS
  rx = rx
  tx = tx
  BufSize = 3
  Paths <- const_Paths
  Prio <- const_Prio
  MaxSessions = 2
INVARIANTS TypeOK OneThread FreshFrames
PROPERTIES QueueOfFrames CallsReturn
