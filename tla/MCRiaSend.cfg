SPECIFICATION Spec
CONSTANTS
  a1 = a1 a2 = a2
  App <- TwoApps
  Nobody = Nobody
  Budget <- Budgets
  QueueLen = 2
  Chunks = 2
INVARIANT SentIntact
CHECK_DEADLOCK FALSE
