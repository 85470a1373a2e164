SPECIFICATION Spec
CONSTANTS
  Client <- MCClients
  Handler <- MCHandlers
  Absolute = 3
  Idle = 2
  RevokeRefresh = TRUE
  None = None
  MaxClock = 3
  c1 = c1  c2 = c2  h1 = h1  h2 = h2  h3 = h3
SYMMETRY Alike
INVARIANTS IdleClock SidHolderListed ClosedMeansTold RefreshGoesToo
PROPERTY EndedStays
CHECK_DEADLOCK FALSE
