SPECIFICATION FairSpec
CONSTANTS
  Messages = {m1, m2, m3}
  LoopMessages = {m1, m2, m3}
  Large = {m2}
  Coroutines = {c1, c2}
  QueueLimit = 2
  MaxSessions = 2
  MaxIncoming = 1
CHECK_DEADLOCK FALSE
INVARIANTS WireInOrder AnswersHold ReceiveYieldAssertion
PROPERTIES ImplementsOutbox EventuallyAnswered
