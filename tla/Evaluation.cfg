SPECIFICATION Spec
CONSTANTS
  NFiles = 2
  MaxPlis = 2
  Orders = {"i1", "i2"}
  Styles = {"s1"}
  Colors = {"c1", "c2"}
  Days = {1, 2}
  Labels <- SomeLabels
  Results <- SomeResults
  Broken = Broken
  Torn = Torn
  None = None
INVARIANTS
  PairingIsComplete
  StrongestFirst
  FailuresStayInTheirFile
  ReplayScoresLikeLive
CHECK_DEADLOCK FALSE
