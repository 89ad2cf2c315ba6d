\* Two clusters; three runs of one task in each choice of faults.
SPECIFICATION MCSpec
CONSTANTS
  a = a
  b = b
  p1 = p1
  p2 = p2
  None = None
  Clusters = {a, b}
  Schemes = {"v1", "v2"}
  MaxRounds = 2
  Nothing = Nothing
  Publishers = {a, b}
  Deciders = {a}
  Phases = {p1, p2}
  FirstPhase = p1
  Cap = 2
  Extra = 1
  Window = 1
  MaxAttempts = 3
  Budgets <- MCBudgets
CHECK_DEADLOCK FALSE
INVARIANTS
  NoSplitClaim
  StreakTypeOK
  FailureCounted
  KeysNameSubjects
  RoutesMatchKeys
PROPERTIES
  
  
  NotStranded
