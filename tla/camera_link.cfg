SPECIFICATION FairSpec
CONSTANTS
  MaxDials = 3
  MaxStarts = 2
  MaxLost = 1
CHECK_DEADLOCK FALSE
INVARIANTS OneAccept ConnectedRuns NoneLeftOpen
PROPERTIES StaysStopped StopsAccepting Served
