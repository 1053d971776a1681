SPECIFICATION Spec
CONSTANTS
  TokenBudget = 40
  FormatReserve = 4
  HistoryPercent = 50
  RecentPercent = 65
  MaxItem = 24
  MinCompression = 2
  MinScore = 18
  MessageCost = 1
  SplitCost = 1
  Texts <- MCTexts
  Turns = {t1, t2, t3, t4}
  AnswerSizes = {5}
  Bases = {4, 12, 35}
  Requests <- TwoRequests
  Recalled <- MCRecalled
  SummaryMax = 6
  NoSummary = NoSummary
  MaxLive = 2
  MaxBuilds = 3
  MaxFaults = 0
CONSTRAINT LateBuilds
SYMMETRY TurnSymmetry
INVARIANT
  SummaryMeetsTheWindow
