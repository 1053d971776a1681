SPECIFICATION FairSpec
CONSTANTS
  r1 = r1
  r2 = r2
  Controller = controller
  NoValue = NoValue
  Reconcilers <- MCReconcilers
  Values <- MCValues
  MaxAttempts = 1
  MaxFaults = 2
INVARIANTS
  TypeOK
  ReleasedOnlyWhenOver
  ShownIsLocked
  EndedAsLocked
  LedgerTellsTheTruth
PROPERTIES
  KeepsPromise
  LockedRunCloses
CHECK_DEADLOCK FALSE
