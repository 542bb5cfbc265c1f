CONSTANTS
  Servers = {s1}
  Names = {1, 2}
  Versions = {v1}
  Oneshot = {}
  AutoStart = {}
  Handlers = {h1, h2}
  Ops = {"create", "stop", "delete", "apply"}
  MaxId = 3
  None = None
  Source = s1
  Dest = s1
  ServerName = 2
  ClientName = 1
  Trafficgen = v1
  MaxScenario = 1
SPECIFICATION TrafficSpec
SYMMETRY AnyHandler
INVARIANTS FlowIsAllOrNothing NoProgramLeftBehind
