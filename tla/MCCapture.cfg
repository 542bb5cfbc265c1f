CONSTANTS
  Handlers = {h1, h2}
  Viewers = {v1}
  subscriberBuffer = 1
  MaxRows = 2
  MaxBatches = 1
SPECIFICATION Spec
INVARIANTS TypeOK RunningIsCaptured StopReportsOutcome 
PROPERTIES ReaderEnds
