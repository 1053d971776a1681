SPECIFICATION Spec
CONSTANTS
  r1 = r1
  r2 = r2
  Controller = controller
  NoValue = NoValue
  Reconcilers <- OneReconciler
  Values <- MCValues
  MaxAttempts = 1
  MaxFaults = 2
INVARIANTS
  RowShowsLockedAnswer
CHECK_DEADLOCK FALSE
