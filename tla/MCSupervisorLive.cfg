CONSTANTS
  Names = {1}
  Objs = {o1}
  Runs = {r1}
  Pids = {1, 2}
  Clients = {c1}
  Main = Main
  Ops = {"stop", "remove"}
  Specs <- Checked
  FailureThreshold = 2
  None = None
  Broken = Broken
SPECIFICATION FairSpec
INVARIANT TypeOK
PROPERTIES CancelledRunEnds BackoffEnds
