SPECIFICATION Spec
CONSTANTS
  Messages = {m1}
  LoopMessages = {m1}
  Large = {}
  Coroutines = {c1}
  QueueLimit = 2
  MaxSessions = 1
  MaxIncoming = 0
CHECK_DEADLOCK FALSE
INVARIANT SocketAssertion
