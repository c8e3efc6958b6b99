SPECIFICATION AgentsSpec
CONSTANTS
  Tool = {t1, t2, t3}
  Offered = {t1}
  Guarded = {t2}
  TokenBudget = 7
  CostBudget = 6
  MaxUse = 2
  CacheSize = 3
  MaxSteps = 5
  Window = 2
  TeamTokens = 4
  TeamCost = 5
  TeamUse = 1
  TeamCache = 2
  MaxPlan = 1
  None = None
INVARIANTS
  AgentsTypeOK
  OverrunBounded
  WorksOnce
  ConversationKept
PROPERTY
  AgentsReturn
CHECK_DEADLOCK FALSE
