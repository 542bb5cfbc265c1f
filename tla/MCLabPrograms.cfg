CONSTANTS
  Servers = {s1}
  Names = {1}
  Versions = {v1, v2}
  Oneshot = {}
  AutoStart = {1}
  Handlers = {h1, h2}
  Ops = {"create", "start", "stop", "upgrade", "delete", "list", "apply", "repair", "package"}
  MaxId = 2
  None = None
SPECIFICATION Spec
SYMMETRY Interchangeable
INVARIANTS SerialOpSettles  OneRecordPerServer
PROPERTY DeletedStaysDeleted
