\* the final attempt's worker dies
SPECIFICATION Spec
CONSTANTS
  k1 = k1
  w1 = w1
  w2 = w2
  NoKey = NoKey
  Ids <- MCIds1
  Worker <- MCWorker
  Shapes <- MCShapesKeyed
  MaxAttempts = 2
  Batch = 2
  MaxRequeues = 0
INVARIANT LapsedClaimReclaimable
CHECK_DEADLOCK FALSE
