SPECIFICATION Spec
CONSTANTS
  w1 = w1
  w2 = w2
  query = query
  report = report
  region = region
  period = period
  Starter = w1
  NoQuestion = NoQuestion
  Workers <- MCWorkers
  Requests <- MCRequests
  Idempotent <- MCIdempotent
  Questions <- OneQuestion
  MaxPlannerRetries = 1
  MaxToolRetries = 1
  MaxIterations = 2
  MaxConfirmations = 1
  MaxInterrupts = 1
  MaxCrashes = 0
INVARIANTS
  LogMatchesRow
  ToolRunsAreBounded
  FailedIsNotRepeated
PROPERTIES
  NothingCommittedAfterClosing
CHECK_DEADLOCK FALSE
