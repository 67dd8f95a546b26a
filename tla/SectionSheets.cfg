SPECIFICATION Spec
CONSTANTS
  MaxRow = 6
  RowKinds <- SectionKinds
  None = None
  Modes = {"SECTION_PER_PLI", "SHEET_IS_PLI"}
  MaxCorrections = 1
  CorrectionRoles = {"blank"}
  CorrectionAnchors = {}
INVARIANTS
  PlanPasses
  BlocksAreSections
  LabelsBelongToNearestAnchor
PROPERTY
  EveryAnchorEmitted
CHECK_DEADLOCK FALSE
