SPECIFICATION Spec
CONSTANTS
  Requests = {r1, r2, r3}
  Paths = {p1, p2}
  MaxCrashes = 1
  None = None
INVARIANTS
  ExtractionsAreSerial
  TempFilesAreOwn
  StaleOnlyOnNameReuse
  NoFileLeftBehind
PROPERTIES
  EveryUploadAnswered
CHECK_DEADLOCK FALSE
