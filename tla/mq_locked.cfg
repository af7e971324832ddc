SPECIFICATION Spec
CONSTANTS
  MSG_MAGIC_NUM_LEN = 2
  MSG_HEAD_SIZE = 1
  P1 = P1
  P2 = P2
  C1 = C1
  C2 = C2
  NoProc = NoProc
  Producers = {P1, P2}
  Consumers = {C1, C2}
  Locked = TRUE
  SegSize = 14
  blockSize <- AllSame
  bufSize <- AmpleBuf
  Lens = {1, 3}
  CountLimit = 15
  Booted = TRUE
  MaxMsgs = 4
  MaxClears = 0
  MaxCrashes = 2
SYMMETRY Sym
INVARIANTS
  CountAccounting
  NoRepair
  DeliveredInOrder
  CountNeverAhead
PROPERTIES
  FifoSpec
