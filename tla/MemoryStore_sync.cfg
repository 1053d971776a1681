SPECIFICATION Spec
CONSTANTS
  t1 = t1
  t2 = t2
  c1 = c1
  c2 = c2
  NoKey = NoKey
  User = User
  Tasks <- MCTasks
  Conversations <- MCConversations
  Requests <- MCRequests
  Linked <- MCLinked
  MaxOps = 3
  MaxExtended = 2
  MaxFaults = 1
SYMMETRY Symmetry
INVARIANTS
  OneMemoryPerKey
  VersionsFormALine
  RecallIsCurrent
  MissingIsRecorded
CHECK_DEADLOCK FALSE
