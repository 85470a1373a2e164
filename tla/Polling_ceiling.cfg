\* three tabs of one person, a ceiling of two failed confirmations
SPECIFICATION Spec
CONSTANTS
  p1 = p1
  p2 = p2
  d1 = d1
  d2 = d2
  w1 = w1
  None = None
  Poller = {p1}
  Tab = {d1, d2, d3}
  Hinted <- MCTabs
  Pinger <- MCNobody
  Lifetime = 1
  Interval = 1
  Increment = 1
  MaxSlowDowns = 1
  FailuresPerCode = 2
  SweepGrace = 1
  MaxClock = 2
  MaxLost = 0
INVARIANT CeilingRefuses
CHECK_DEADLOCK FALSE
