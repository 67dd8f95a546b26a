SPECIFICATION Spec
CONSTANTS
  MaxRow = 8
  MaxCol = 6
  Sheets <- SomeSheets
  MergeSets <- SomeMerges
  Products = {"P"}
  Names = {"IO", "cut", "sew", "pack", "TBD"}
  NameMaps <- SomeNameMaps
  None = None
INVARIANT EveryDateIsPlanned
CHECK_DEADLOCK FALSE
