\* three keys of one algorithm and a signing request around two rotations
SPECIFICATION Spec
CONSTANTS
  k1 = k1
  k2 = k2
  k3 = k3
  r1 = r1
  r2 = r2
  s1 = s1
  eddsa = eddsa
  es256 = es256
  NoKey = NoKey
  Algs = {eddsa}
  Kids = {k1, k2, k3}
  Requests = {r1}
  Signers = {s1}
  Schedules <- MCBriskOnly
  DefaultSchedule <- MCBrisk
  Ttl = 2
  TokenLife = 1
  JwksAge = 1
  MaxLag = 0
  MaxOps = 1
  MaxClock = 5
SYMMETRY Symmetry
INVARIANTS OneOfEach FencedKeyStands SupersededStopsSigning KnownToVerifiers VerifiesForLife
PROPERTIES IssuerStaysOpen NeverBack
