SPECIFICATION FairSpec
CONSTANTS
  Repos <- ThreeRepos
  Versions = {v1, v2}
  None = None
  HasToken = TRUE
  TokenBudget = 3
  AnonymousBudget = 2
  TokenTTL = 1
  AnonymousTTL = 2
  Concurrency = 2
  MaxRetries = 1
INVARIANTS
  TypeOK
  BudgetKept
  ConcurrencyKept
  CacheTruthful
PROPERTIES
  UrgentFirst
  TokenStops
  ChecksEnd
