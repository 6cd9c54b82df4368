SPECIFICATION Spec
CONSTANTS
  w1 = w1
  w2 = w2
  w3 = w3
  a = a
  b = b
  bar = bar
  h = h
  t = t
  NULL = NULL
  Words <- ThreeWords
  Sep <- bar
  Writers <- ThreeWriters
  Payloads <- ThreePayloads
  MaxRows = 3
  ReadCommitted <- FirstTwo
  MayAlter = TRUE
CHECK_DEADLOCK FALSE
SYMMETRY Symmetric
INVARIANTS
  ChainIntact
  AppendNeverCollides
  PlainAlterationNoticed
