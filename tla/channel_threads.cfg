SPECIFICATION Spec
CONSTANTS
  Messages = {m1, m2, m3}
  LoopMessages = {m1}
  Large = {}
  Coroutines = {c1, c2, c3}
  QueueLimit = 2
  MaxSessions = 2
  MaxIncoming = 0
CHECK_DEADLOCK FALSE
SYMMETRY Interchangeable
INVARIANTS SenderForQueue Framed
