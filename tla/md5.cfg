SPECIFICATION Spec
CONSTANTS
  QMD5_BLOCK_LENGTH = 8
  WordBits = 8
  MaxLen = 80
INVARIANTS
  TypeOK
  PiecesDoNotMatter
  DigestIsOfPaddedMessage
