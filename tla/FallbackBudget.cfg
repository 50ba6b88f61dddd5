SPECIFICATION Spec
CONSTANTS
  p1 = p1
  p2 = p2
  NoKey = NoKey
  k1 = k1
  k2 = k2
  Process = {p1, p2}
  Key = {k1, k2}
  Capacity = 2
  RefillTime = 2
  Cooldown = 1
  MaxAttempts = 2
  MAX_BUDGET_ENTRIES = 2
  MAX_PERSISTED_COOLDOWN = 1
  FutureSlack = 1
  MaxTime = 2
  MaxInode = 2
SYMMETRY Symmetry
INVARIANTS
  BudgetTypeOK
  TokensConserved
  AttemptsBounded
  AlwaysLoadable
PROPERTIES
  ProbesSpaced
CHECK_DEADLOCK FALSE
