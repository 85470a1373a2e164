\* two polls in flight, two tabs of the named person, one ping worker
SPECIFICATION Spec
CONSTANTS
  p1 = p1
  p2 = p2
  d1 = d1
  d2 = d2
  w1 = w1
  None = None
  Poller <- MCPollers
  Tab <- MCTabs
  Hinted <- MCTabs
  Pinger <- MCPingers
  Lifetime = 1
  Interval = 1
  Increment = 1
  MaxSlowDowns = 1
  FailuresPerCode = 1
  SweepGrace = 1
  MaxClock = 2
  MaxLost = 1
SYMMETRY MCSymmetry
INVARIANTS OneAnswerOneIssuance PingFollowsDecision
PROPERTY KeepsConsent
CHECK_DEADLOCK FALSE
