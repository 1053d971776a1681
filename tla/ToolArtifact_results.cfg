SPECIFICATION FairSpec
CONSTANTS
  QueryTool = "query_data"
  AnalyzeTool = "analyze_data"
  ReportTool = "build_report"
  NoRef = NoRef
  Open = Open
  Text = Text
  Unknown = Unknown
  Contents <- MCContents
  Idempotent <- MCIdempotent
  MaxActions = 3
  MaxToolRetries = 1
  MaxRefs = 2
  MaxFaults = 2
INVARIANTS
  ReportIsWhole
PROPERTIES
  KeepsArtifactPromise
  CallEnds
CHECK_DEADLOCK FALSE
