SPECIFICATION FairSpec
CONSTANTS
  t1 = t1  t2 = t2  t3 = t3
  Tx <- MCThreeTx
  None = None
  MaxAppends = 2
  MaxClock = 1
INVARIANTS ChainVerifies TamperEvident
PROPERTIES CommittedInOrder AppendsEnd
CHECK_DEADLOCK FALSE
