SPECIFICATION Spec
CONSTANTS
  t1 = t1  t2 = t2  t3 = t3
  Tx <- MCTwoTx
  None = None
  MaxAppends = 1
  MaxClock = 0
INVARIANT NeverForks
CHECK_DEADLOCK FALSE
