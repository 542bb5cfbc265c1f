CONSTANTS
  Loopbacks = 15
  P2PSubnets = 22
  RackSubnets = 3
  ASNs = 4
  Specs <- Shapes
  MaxPlan = 4
  MaxFail = 1
  MaxLeft = 1
  MaxEdit = 2
  FailPlan = 2
SPECIFICATION Spec
INVARIANTS NoResourceShared PreviewIsComplete IncrementEqualsDeploy
PROPERTY SurvivorsKeepTheirs
CHECK_DEADLOCK FALSE
