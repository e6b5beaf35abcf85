CONSTANTS
  p1 = p1
  p2 = p2
  i1 = i1
  i2 = i2
  Pings <- TwoPings
  Instances <- OneInstance
  Cap = 2
  TTL = 1
  Unknown = Unknown
  MaxTime = 4
  MayWipe = TRUE
  MayCrash = TRUE
SPECIFICATION Spec
SYMMETRY PingPerm
INVARIANT NeverTwice
