CONSTANTS
  p1 = p1
  c1 = c1
  c2 = c2
  m1 = m1
  NoHeader = NoHeader
  NoBody = NoBody
SPECIFICATION FairSpec
INVARIANTS SetupInv GeometryRight SameVerdict
PROPERTY ShmProgress
