SPECIFICATION FairSpec
CONSTANTS
  Callers = {o}
  Owner = o
  Powers = {1, 2}
  LedModes = {1}
  MaxPosted = 2
  MaxOpens = 1
  QueueMayFail = FALSE
  Prompt = TRUE
CHECK_DEADLOCK FALSE
INVARIANTS OneWriter BoardFollows OffUnlessArmed WriterOnItsWay
PROPERTIES CommandsObeyed BoardToldInTheEnd KeepsSensing
