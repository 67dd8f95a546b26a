SPECIFICATION Spec
CONSTANTS
  SheetNames <- TwoSheets
  StrayName = "no_such_sheet"
  Plans <- DraftPlans
  MaxRelevant = 2
  MaxPlis = 1
  None = None
INVARIANTS
  OneOutcomeCounted
  ResultCoversSheetsInOrder
  DegradesToPlanner
  HintedFindingsReported
  CallBudget
PROPERTIES
  EveryExtractionEnds
CHECK_DEADLOCK FALSE
