CONSTANTS
  apply = apply
  destroy = destroy
  Ops = {apply, destroy}
  Subs = {s1}
  Weight <- Weights
  Full = 1
  Buffer = 2
  Deletes = {destroy}
  MaxAttach = 1
  None = None
SPECIFICATION Spec
INVARIANTS ShownIsCurrent
PROPERTIES ImplementsLatestFeed ClientCatchesUp ProgressMovesForward
CHECK_DEADLOCK FALSE
