SPECIFICATION Spec
CONSTANTS
  Controls = {c1, c2}
  Launchers = {l1, l2}
  Nobody = Nobody
  Maximum = 1
  Retention = 1
  MaxGen = 3
  Budgets <- MCBudgets
INVARIANTS OneGeneration SignalsAllowed
PROPERTIES ResultIsFinal RequestsSettle
CHECK_DEADLOCK FALSE
