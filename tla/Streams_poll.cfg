SPECIFICATION FairSpec
CONSTANTS
  Set <- MCSets
  Bad <- MCBad
  Emitter <- MCEmitters
  Poll <- MCPolls
  Batch = 1
  MaxHeld = 1
  None = None
  MaxLost = 1
  s1 = s1  s2 = s2  e1 = e1  e2 = e2  p1 = p1  p2 = p2
INVARIANTS NothingLost RefusalOnTrail HeldBounded
PROPERTY QueueDrains
CHECK_DEADLOCK FALSE
