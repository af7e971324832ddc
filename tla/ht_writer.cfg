SPECIFICATION Spec
CONSTANTS
  a = a
  b = b
  c = c
  d = d
  small = small
  big = big
  huge = huge
  R1 = R1
  None = None
  Keys = {a, b, c, d}
  Values = {small, big, huge}
  Readers = {}
  maxslots = 4
  Hash <- Colliding
  ValSize <- Sizes
  VALUESIZE = 2
  EXTSIZE = 3
  WithClear = TRUE
  ReaderCalls = {}
  MaxOps = 6
  MaxCrashes = 0
SYMMETRY Sym
INVARIANTS
  CountersExact
  LinksMutual
  BystandersReadable
PROPERTIES
  TableSpec
CHECK_DEADLOCK FALSE
