\* one row of any family, two workers, two attempts, one requeue
SPECIFICATION Spec
CONSTANTS
  k1 = k1
  w1 = w1
  w2 = w2
  NoKey = NoKey
  Ids <- MCIds1
  Worker <- MCWorker
  Shapes <- MCShapesAll
  MaxAttempts = 2
  Batch = 2
  MaxRequeues = 1
SYMMETRY MCWorkerSym
INVARIANTS OneTaskPerAttempt TrailExplainsRow
PROPERTY SettledStays
CHECK_DEADLOCK FALSE
