SPECIFICATION Spec
CONSTANTS
  MaxAttempt = 5
  MaxAutomatic = 1
  MaxAuthorized = 1
  KeepsAssignee = FALSE
  Launchers <- MCLaunchers
  Budgets <- MCBudgets
INVARIANTS OneWorker HeldIsFenced RestartsAreCounted
PROPERTIES WorkKept Delivers
CHECK_DEADLOCK FALSE
