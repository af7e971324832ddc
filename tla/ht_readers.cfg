SPECIFICATION Spec
CONSTANTS
  a = a
  b = b
  c = c
  d = d
  small = small
  big = big
  huge = huge
  R1 = R1
  None = None
  Keys = {a, b, c}
  Values = {small, big}
  Readers = {R1}
  maxslots = 3
  Hash <- Colliding
  ValSize <- Sizes
  VALUESIZE = 2
  EXTSIZE = 3
  WithClear = TRUE
  ReaderCalls = {"get", "exist", "traverse"}
  MaxOps = 3
  MaxCrashes = 1
SYMMETRY SymAB
INVARIANTS
  TypeOK
  CalmGet
  CalmTraversal
PROPERTIES
  ReadersAreWaitFree
