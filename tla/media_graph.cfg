SPECIFICATION FairSpec
CONSTANTS
  QueueSize = 2
  Inputs = 2
  Outputs = 3
  MaxFrames = 4
  MaxStarts = 2
  MaxPauses = 1
  MaxLate = 2
CHECK_DEADLOCK FALSE
INVARIANTS OneRun RestedBetweenRuns LagOnlyByTimeout OutputsAccounted
PROPERTIES ImplementsFramePipe NotStalled RunEnds
