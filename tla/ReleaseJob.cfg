SPECIFICATION Spec
CONSTANTS
  MaxAttempt = 2
  Budgets <- MCBudgets
INVARIANTS NoOrphan DeployedDone
PROPERTIES JobsSettle
CHECK_DEADLOCK FALSE
