SPECIFICATION UnreadableSpec
CONSTANTS
  w1 = w1
  w2 = w2
  query = query
  report = report
  region = region
  period = period
  Starter = w1
  NoQuestion = NoQuestion
  Workers <- MCWorkers
  Requests <- MCRequests
  Idempotent <- MCIdempotent
  Questions <- OneQuestion
  MaxPlannerRetries = 0
  MaxToolRetries = 1
  MaxIterations = 1
  MaxConfirmations = 1
  MaxInterrupts = 1
  MaxCrashes = 1
PROPERTIES
  ConflictIsReported
CHECK_DEADLOCK FALSE
