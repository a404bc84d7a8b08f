SPECIFICATION Spec
CONSTANTS
  f1 = f1
  f2 = f2
  Features = {f1, f2}
  LastCommit = 2
  None = None
  Refused <- MCRefused
  Reversible <- MCReversible
  Budgets <- MCBudgets
INVARIANTS TargetFenced
PROPERTIES OneApplyPerApproval OutcomeServes ReleaseEnds
CHECK_DEADLOCK FALSE
