\* two requests and an amending authorization under rotation; a withdrawal
\* commits up to a second after the instant it stamps
SPECIFICATION Spec
CONSTANTS
  r1 = r1  r2 = r2
  a1 = a1  a2 = a2
  offline = offline
  Requests <- MCRequests
  Authorizations <- MCAuth
  First = a1
  Scopes <- MCScopes
  Offline = offline
  CodeLife = 2
  CodeGrace = 0
  TokenLife = 2
  MaxTokenLife = 2
  AbsLife = 2
  IdleLife = 2
  Rotates = TRUE
  Grace = 1
  Named = TRUE
  PurgeAge = 1
  MaxLag = 1
  MaxClock = 2
SYMMETRY MCSym
INVARIANTS RevocationReaches AmendmentReaches CredentialsKeepTheirGrant RotationInherits
PROPERTIES KeepsAuthority SignedUnderCurrentAuthority InactiveStaysInactive
CHECK_DEADLOCK FALSE
