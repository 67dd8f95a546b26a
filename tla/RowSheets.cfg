SPECIFICATION Spec
CONSTANTS
  MaxRow = 4
  RowKinds <- RowSheetKinds
  None = None
  Modes = {"ROW_PER_PLI"}
  MaxCorrections = 1
  CorrectionRoles = {"anchor", "child", "blank", "no_such_role"}
  CorrectionAnchors = {1, 9}
INVARIANTS
  ChildrenBelongToNearestAnchor
  GroupsAreDistinct
  HeaderBandPrecedesData
  TotalsAddUp
  PlanPasses
  EachDataRowOnePli
  PlisFollowHeaders
CHECK_DEADLOCK FALSE
