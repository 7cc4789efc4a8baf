SPECIFICATION FairSpec
CONSTANTS
  MaxSessions = 6
  MaxBreaks = 2
  ServerStops = 2
  ClientStops = 2
  Timely = TRUE
CHECK_DEADLOCK FALSE
INVARIANTS OneSession ConnectedIsOpen NothingLeftOpen
PROPERTIES Reconnects
