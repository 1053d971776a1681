SPECIFICATION Spec
CONSTANTS
  t1 = t1
  t2 = t2
  a = a
  b = b
  NoRun = NoRun
  Tasks <- MCTasks
  Runs <- MCRuns
  Outcomes <- MCOutcomes
  MaxFaults = 0
  MaxRefused = 0
  MaxPauses = 0
  MaxDeletes = 0
SYMMETRY Symmetry
INVARIANTS
  OneLiveRun
CHECK_DEADLOCK FALSE
