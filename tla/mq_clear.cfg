SPECIFICATION Spec
CONSTANTS
  MSG_MAGIC_NUM_LEN = 2
  MSG_HEAD_SIZE = 1
  P1 = P1
  P2 = P2
  C1 = C1
  C2 = C2
  NoProc = NoProc
  Producers = {P1}
  Consumers = {C1}
  Locked = FALSE
  SegSize = 14
  blockSize <- SmallerConsumer
  bufSize <- SmallBuf
  Lens = {1, 3}
  CountLimit = 15
  Booted = FALSE
  MaxMsgs = 3
  MaxClears = 1
  MaxCrashes = 2
INVARIANTS
  AccessInBlock
  CheckNeverFails
