CONSTANTS
  Names = {1}
  Objs = {o1, o2}
  Runs = {r1, r2}
  Pids = {1, 2}
  Clients = {c1, c2}
  Main = Main
  Ops = {"stop"}
  Specs <- BootMix
  FailureThreshold = 2
  None = None
  Broken = Broken
SPECIFICATION Spec
SYMMETRY Slots
INVARIANTS SupervisionInv StopHolds NoOrphanRun 
PROPERTY ShutdownKeepsDesired
