CONSTANTS
  a = a
  b = b
  Nodes = {a}
  Shapes <- JustOne
  Plans = {1}
  Workers = {w1, w2}
  Kinds = {"topology", "plan", "apply", "delete", "startNode", "stopNode"}
  Observes = FALSE
  Crashes = FALSE
  MaxGen = 1
  Retained = 2
  None = None
SPECIFICATION FairSpec
CHECK_DEADLOCK FALSE
INVARIANTS ApplyingIsUnderWay 
PROPERTY ApplyingEnds
