CONSTANTS
  stop = stop
  restart = restart
  cut = cut
  slow = slow
  Faults = {stop, cut, slow}
  Type <- TypeOf
  Sides <- SidesOf
  Plans = {{"node"}, {"node", "link"}}
  Handlers = {h1, h2}
  MayCrash = TRUE
  None = None
  Deleted = Deleted
SPECIFICATION Spec
SYMMETRY AnyHandler
INVARIANTS SerialFaultSettles OneFaultPerTarget NoFaultOnRemovedTarget
