SPECIFICATION FairSpec
CONSTANTS
  t1 = t1
  t2 = t2
  c1 = c1
  c2 = c2
  NoKey = NoKey
  User = User
  NoForm = NoForm
  Turns <- MCTurns
  Callers <- MCCallers
  Inputs <- MCInputs
  Proposals <- MCProposals
  Plain <- MCPlain
  Attachment <- MCAttachment
  HasLLM = TRUE
  MaxFaults = 2
INVARIANTS
  AuditTellsTheTruth
  OnlyWhatMayBeStored
PROPERTIES
  FormedOnce
  DeletedTeachesNothing
  FormationEnds
CHECK_DEADLOCK FALSE
