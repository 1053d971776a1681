SPECIFICATION Spec
CONSTANTS
  TokenBudget = 40
  FormatReserve = 4
  HistoryPercent = 50
  RecentPercent = 65
  MaxItem = 24
  MinCompression = 2
  MinScore = 18
  MessageCost = 1
  SplitCost = 1
  Texts <- MCTexts
  Turns = {t1, t2, t3}
  AnswerSizes = {5}
  Bases = {12, 41}
  Requests <- MCRequests
  Recalled <- MCRecalled
  SummaryMax = 6
  NoSummary = NoSummary
  MaxLive = 2
  MaxBuilds = 3
  MaxFaults = 1
SYMMETRY TurnSymmetry
INVARIANTS
  SummaryHasNoGap
  ModelReadsTheConversation
  AttachmentsReachTheModel
