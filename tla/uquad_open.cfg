SPECIFICATION Spec
CONSTANTS
  Callers = {o}
  Owner = o
  Powers = {2}
  LedModes = {1}
  MaxPosted = 1
  MaxOpens = 1
  QueueMayFail = FALSE
  Prompt = TRUE
CHECK_DEADLOCK FALSE
INVARIANT OpenedIsOpen
