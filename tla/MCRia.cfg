SPECIFICATION Spec
CONSTANTS
  a1 = a1 a2 = a2
  App <- TwoApps
  Nobody = Nobody
  Budget <- Budgets
  QueueLen = 2
  Chunks = 2
INVARIANTS PeersSound PacketsInOrder
PROPERTIES AnswerIsOwn
CHECK_DEADLOCK FALSE
