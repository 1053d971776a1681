SPECIFICATION Spec
CONSTANTS
  t1 = t1
  t2 = t2
  c1 = c1
  c2 = c2
  NoKey = NoKey
  User = User
  Tasks <- MCTasks
  Conversations <- MCConversations
  Requests <- MCRequests
  Linked <- MCLinked
  MaxOps = 2
  MaxExtended = 0
  MaxFaults = 0
SYMMETRY Symmetry
INVARIANT KeylessNeverOverwrites
CHECK_DEADLOCK FALSE
