CONSTANTS
  a = a
  b = b
  Nodes = {a, b}
  Shapes <- OneOrTwo
  Plans = {1}
  Workers = {w1}
  Kinds = {"plan", "apply", "repair", "stopLab", "startLab"}
  Observes = TRUE
  Crashes = TRUE
  MaxGen = 1
  Retained = 2
  None = None
SPECIFICATION ObservedSpec
CHECK_DEADLOCK FALSE
INVARIANT TypeOK
PROPERTY DriftIsCorrected
