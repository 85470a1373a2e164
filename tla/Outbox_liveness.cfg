\* two rows of one key under fairness
SPECIFICATION FairSpec
CONSTANTS
  k1 = k1
  w1 = w1
  w2 = w2
  NoKey = NoKey
  Ids <- MCIds2
  Worker <- MCWorker
  Shapes <- MCShapesKeyed
  MaxAttempts = 2
  Batch = 2
  MaxRequeues = 0
INVARIANT KeyOrderKept
PROPERTIES EventuallySettled KeepsPromise
CHECK_DEADLOCK FALSE
