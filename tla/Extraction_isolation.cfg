SPECIFICATION Spec
CONSTANTS
  SheetNames <- TwoSheets
  StrayName = "no_such_sheet"
  Plans <- DraftPlans
  MaxRelevant = 2
  MaxPlis = 1
  None = None
INVARIANT
  SheetFailuresAreIsolated
CHECK_DEADLOCK FALSE
