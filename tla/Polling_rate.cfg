\* two polls in flight over several intervals, nobody answers
SPECIFICATION FairSpec
CONSTANTS
  p1 = p1
  p2 = p2
  d1 = d1
  d2 = d2
  w1 = w1
  None = None
  Poller <- MCPollers
  Tab <- MCNobody
  Hinted <- MCNobody
  Pinger <- MCNobody
  Lifetime = 3
  Interval = 1
  Increment = 1
  MaxSlowDowns = 2
  FailuresPerCode = 1
  SweepGrace = 1
  MaxClock = 4
  MaxLost = 1
INVARIANTS PatientNeverSlowed TooFastIsEarned
PROPERTY ClientIsAnswered
CHECK_DEADLOCK FALSE
