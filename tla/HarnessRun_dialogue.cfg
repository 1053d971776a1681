SPECIFICATION FairSpec
CONSTANTS
  w1 = w1
  w2 = w2
  query = query
  report = report
  region = region
  period = period
  Starter = w1
  NoQuestion = NoQuestion
  Workers <- MCWorkers
  Requests <- OneRequest
  Idempotent <- MCIdempotent
  Questions <- MCQuestions
  MaxPlannerRetries = 0
  MaxToolRetries = 0
  MaxIterations = 1
  MaxConfirmations = 2
  MaxInterrupts = 1
  MaxCrashes = 1
INVARIANTS
  WaitingMeansOpenQuestion
  OneRunner
PROPERTIES
  FollowsLifecycle
  RunStops
CHECK_DEADLOCK FALSE
