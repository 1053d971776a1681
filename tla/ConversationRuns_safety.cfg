SPECIFICATION Spec
CONSTANTS
  t1 = t1
  t2 = t2
  a = a
  b = b
  NoRun = NoRun
  Tasks <- MCTasks
  Runs <- MCRuns
  Outcomes <- MCOutcomes
  MaxFaults = 1
  MaxRefused = 1
  MaxPauses = 1
  MaxDeletes = 1
CONSTRAINT FewTroubles
SYMMETRY Symmetry
INVARIANTS
  OpenTurnIsActive
  HistoryIsLocked
  CheckpointsAgree
PROPERTIES
  ClosedTurnIsFinal
  LiveRunKeepsConversation
CHECK_DEADLOCK FALSE
