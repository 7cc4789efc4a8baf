SPECIFICATION Spec
CONSTANTS
  Messages = {m1}
  LoopMessages = {}
  Large = {}
  Coroutines = {c1}
  QueueLimit = 2
  MaxSessions = 1
  MaxIncoming = 1
CHECK_DEADLOCK FALSE
INVARIANT PullAssertion
