SPECIFICATION Spec
CONSTANTS
  MaxRow = 8
  MaxCol = 6
  Sheets <- SomeSheets
  MergeSets <- SomeMerges
  Products = {"P"}
  Names = {"IO", "cut", "sew", "pack", "TBD"}
  NameMaps <- SomeNameMaps
  None = None
INVARIANTS
  TypeOK
  EachColumnOneStage
  WideLayoutFound
  TallLayoutFound
  ProductsReadTheirDates
CHECK_DEADLOCK FALSE
