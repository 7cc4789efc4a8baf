SPECIFICATION Spec
CONSTANTS
  Messages = {m1, m2}
  LoopMessages = {}
  Large = {}
  Coroutines = {c1, c2}
  QueueLimit = 2
  MaxSessions = 1
  MaxIncoming = 0
CHECK_DEADLOCK FALSE
INVARIANT SendYieldAssertion
