------------------------------ MODULE RingLayout ------------------------------
(***************************************************************************)
(* Byte arithmetic of the shared-memory ring (shmutil/shm_msg_queue.cc).   *)
(*                                                                         *)
(* A message of len data bytes occupies a header (magic number, total      *)
(* length), the data and a trailing magic number.  The block has B bytes;  *)
(* head and tail are indices in 0..B, and B itself is legal: enqueue and   *)
(* dequeue wrap only when a message passes the end, not when it touches it.*)
(* enqueue writes a message in one of three ways, dequeue reads it back    *)
(* with two independent tests; both are translated case by case here, and  *)
(* ShmMQProofs shows that they agree for every block size.                 *)
(***************************************************************************)
EXTENDS Integers

CONSTANTS
  MSG_MAGIC_NUM_LEN,  \* bytes of the magic number (4 in the code)
  MSG_HEAD_SIZE       \* bytes of the total-length field (4 in the code)

ASSUME LayoutAssumption ==
  /\ MSG_MAGIC_NUM_LEN \in Nat \ {0}
  /\ MSG_HEAD_SIZE \in Nat \ {0}

HeaderLen == MSG_MAGIC_NUM_LEN + MSG_HEAD_SIZE

\* totalLen of a message with len data bytes, for a len whose sum does not wrap in
\* the code's uint32_t (ShmMQ's LengthAssumption).
TotalLen(len) == len + MSG_HEAD_SIZE + 2 * MSG_MAGIC_NUM_LEN

-------------------------------------------------------------------------------
\* What enqueue and dequeue compute from their copies of head and tail.

\* Faulty variant: one byte more, so that a message may fill the ring exactly.
FreeLen_Filling(B, head, tail) ==
  1 + (IF head > tail THEN head - tail ELSE head + B - tail)

FreeLen(B, head, tail) ==
  IF head > tail THEN head - tail ELSE head + B - tail

UsedLen(B, head, tail) ==
  IF tail > head THEN tail - head ELSE tail + B - head

-------------------------------------------------------------------------------
\* enqueue: the three ways to lay a message out from tail.

InOnePiece(B, tail, len) == B - tail >= TotalLen(len)

BodySplit(B, tail, len) ==
  /\ B - tail >= HeaderLen
  /\ B - tail < TotalLen(len)

\* Faulty variant: a split header forgets the trailing magic number.
EnqTail_NoTrailer(B, tail, len) ==
  IF InOnePiece(B, tail, len) THEN tail + TotalLen(len)
  ELSE IF BodySplit(B, tail, len) THEN tail + (TotalLen(len) - B)
  ELSE (HeaderLen - (B - tail)) + len

\* Faulty variant: never wraps.
EnqTail_NoWrap(B, tail, len) == tail + TotalLen(len)

\* The tail enqueue stores.  Otherwise is the header split over the end.
EnqTail(B, tail, len) ==
  IF InOnePiece(B, tail, len) THEN tail + TotalLen(len)
  ELSE IF BodySplit(B, tail, len) THEN tail + (TotalLen(len) - B)
  ELSE (HeaderLen - (B - tail)) + len + MSG_MAGIC_NUM_LEN

\* Faulty variant: the trailing magic number is never split.
SplitBodyPos_WholeTrailer(B, tail, len, i) ==
  LET d == i - HeaderLen
      firstLen == B - tail - HeaderLen
  IN  IF i < HeaderLen + len /\ d < firstLen THEN tail + i
      ELSE IF d < firstLen THEN i - HeaderLen - len
      ELSE d - firstLen

\* Block offset of byte i of a message whose data is split.  When fewer than
\* MSG_MAGIC_NUM_LEN bytes wrap (secondLen), the data ends before the end of
\* the block and the trailing magic number itself is split byte by byte.
SplitBodyPos(B, tail, len, i) ==
  LET firstLen  == B - tail - HeaderLen
      secondLen == len + MSG_MAGIC_NUM_LEN - firstLen
      d == i - HeaderLen              \* index into the data
      j == i - HeaderLen - len        \* index into the trailing magic number
      inTail == MSG_MAGIC_NUM_LEN - secondLen
  IN  IF i < HeaderLen THEN tail + i
      ELSE IF secondLen >= MSG_MAGIC_NUM_LEN
      THEN IF j >= 0 THEN secondLen - MSG_MAGIC_NUM_LEN + j
           ELSE IF d < firstLen THEN tail + HeaderLen + d ELSE d - firstLen
      ELSE IF j < 0 THEN tail + HeaderLen + d
           ELSE IF j < inTail THEN B - inTail + j ELSE j - inTail

\* Block offset of byte i of a message whose header is split.
SplitHeaderPos(B, tail, len, i) ==
  LET tailLen   == B - tail
      secondLen == HeaderLen - tailLen
  IN  IF i < tailLen THEN tail + i
      ELSE IF i < HeaderLen THEN i - tailLen
      ELSE secondLen + (i - HeaderLen)

\* Faulty variant: never wraps.
EnqPos_NoWrap(B, tail, len, i) == tail + i

\* Where enqueue puts byte i (from 0) of the message it writes at tail.
EnqPos(B, tail, len, i) ==
  IF InOnePiece(B, tail, len) THEN tail + i
  ELSE IF BodySplit(B, tail, len) THEN SplitBodyPos(B, tail, len, i)
  ELSE SplitHeaderPos(B, tail, len, i)

-------------------------------------------------------------------------------
\* dequeue: the header at head, then dataLen bytes (data and trailing magic).

HeaderPos(B, head, i) ==
  LET firstSize == B - head
  IN  IF head + HeaderLen > B /\ i >= firstSize THEN i - firstSize ELSE head + i

\* dequeue's local head after the header.
HeaderEnd(B, head) ==
  IF head + HeaderLen > B THEN HeaderLen - (B - head) ELSE head + HeaderLen

BodyPos(B, from, dataLen, i) ==
  LET firstSize == B - from
  IN  IF from + dataLen > B /\ i >= firstSize THEN i - firstSize ELSE from + i

\* The head dequeue stores; from is HeaderEnd.
DeqHead(B, from, dataLen) ==
  IF from + dataLen > B THEN dataLen - (B - from) ELSE from + dataLen

\* Where dequeue reads byte i of a message of total bytes that starts at head.
DeqPos(B, head, total, i) ==
  IF i < HeaderLen THEN HeaderPos(B, head, i)
  ELSE BodyPos(B, HeaderEnd(B, head), total - HeaderLen, i - HeaderLen)
===============================================================================
