CONSTANTS
  a = a
  b = b
  Nodes = {a, b}
  Shapes <- OneOrTwo
  Plans = {1, 2, 3}
  Workers = {w1}
  Kinds = {"topology", "plan", "rollback", "apply"}
  Observes = FALSE
  Crashes = TRUE
  MaxGen = 3
  Retained = 2
  None = None
SPECIFICATION Spec
CHECK_DEADLOCK FALSE
INVARIANT DeployedIsRetained
