SPECIFICATION FairSpec
CONSTANTS
  order = order
  review = review
  date = date
  customer = customer
  retired = retired
  t1 = t1
  t2 = t2
  t3 = t3
  NoColumn = NoColumn
  NoMetric = NoMetric
  Tasks = {t1, t2, t3}
  Tables <- MCTables
  Columns <- MCColumns
  TableOf <- MCTableOf
  ColumnName <- MCColumnName
  MetricOrder <- MCMetricOrder
  Base <- MCBase
  Uses <- MCUses
  RelationshipOrder <- MCRelationshipOrder
  DateTable = date
  DefaultDates <- MCDefaultDates
  DimensionColumns <- MCDimensionColumns
  DimensionRole <- MCDimensionRole
  Denotes <- MCDenotes
  Inputs <- MCInputs
  MaxTasks = 8
  MaxRows = 2
INVARIANTS
  ContextIsUsable
  ResultIsTraceable
PROPERTIES
  KeepsAnalysisPromise
  PlanIsCarriedOut
