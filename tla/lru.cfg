SPECIFICATION FairSpec
CONSTANTS
  a = a
  b = b
  c = c
  small = small
  big = big
  huge = huge
  w1 = w1
  w2 = w2
  None = None
  Procs = {w1, w2}
  Eliminating = {w1}
  Keys = {a, b, c}
  Values = {small, big, huge}
  maxslots = 3
  Blocks <- BlocksOf
  MaxOps = 4
  MaxDeaths = 1
INVARIANTS
  TypeOK
  LruCoversTable
PROPERTIES
  RoomIsFound
  EvictsOldest
  SetReturns
CHECK_DEADLOCK FALSE
