--------------------------------- MODULE QMD5 ----------------------------------
(***************************************************************************)
(* The streaming part of shmutil/md5.c, on which the slot table relies to  *)
(* tell long keys apart and the wrapper to verify long values (qhashmd5 of *)
(* qhash.c): a message comes in pieces of any length, and is compressed    *)
(* block by block after padding.                                           *)
(*                                                                         *)
(* The compression itself, QMD5Transform, is a function of the state and   *)
(* one block: the state is represented by what was compressed so far.      *)
(***************************************************************************)
EXTENDS Integers, SequencesExt

CONSTANTS
  QMD5_BLOCK_LENGTH,  \* 64
  WordBits,           \* bits of u_int32_t: 32
  MaxLen              \* bound: bytes of a message

Word == 2 ^ WordBits
BitsLen == 2 * (WordBits \div 8)  \* bytes of the two words of count: 8

ASSUME QMD5Assumption ==
  /\ WordBits \in Nat /\ WordBits >= 8 /\ WordBits % 8 = 0
  /\ QMD5_BLOCK_LENGTH \in Nat /\ QMD5_BLOCK_LENGTH > BitsLen
  /\ Word % (8 * QMD5_BLOCK_LENGTH) = 0
  /\ MaxLen \in Nat

\* What these say of powers of 2, for proofs: words are made of whole bytes.
ASSUME PowerAssumption ==
  /\ Word \in Nat \ {0}
  /\ \A j \in 1..BitsLen : /\ 256 ^ (j - 1) \in Nat \ {0}
                          /\ (Word * Word) % (256 * 256 ^ (j - 1)) = 0

VARIABLES
  context,    \* QMD5_CTX: count, state (as the bytes it has compressed) and buffer
  open,       \* whether the context was initialized and not finished yet
  inputSize,  \* history: bytes of the message so far
  digest      \* what QMD5Final returned, << >> before

vars == <<context, open, inputSize, digest>>

\* The bytes that are told apart.
DataByte(i) == [kind |-> "data", val |-> i]
BitsByte(x) == [kind |-> "bits", val |-> x]
Mark  == [kind |-> "0x80", val |-> 0]
Zero  == [kind |-> "zero", val |-> 0]
Stale == [kind |-> "stale", val |-> 0]

PADDING == [i \in 1..QMD5_BLOCK_LENGTH |-> IF i = 1 THEN Mark ELSE Zero]

\* The little-endian bytes of the two words of count.
Encode(count) ==
  [j \in 1..BitsLen |->
     BitsByte(((count[0] + Word * count[1]) \div 256 ^ (j - 1)) % 256)]

-------------------------------------------------------------------------------
(* QMD5Update.                                                             *)

Idx(count) == (count[0] \div 8) % QMD5_BLOCK_LENGTH

\* The bits are added to the lower word, with a carry into the upper one.
Counted(count, len) ==
  LET bits == (8 * len) % Word
      low  == (count[0] + bits) % Word
      carry == IF low < bits THEN 1 ELSE 0
  IN  [i \in 0..1 |-> IF i = 0 THEN low
                      ELSE (count[1] + carry + len \div (Word \div 8)) % Word]

\* Faulty variant: leaves the last block for later if it ends the input.
LoopEnd_Early(from, len) ==
  Min({i \in {from + QMD5_BLOCK_LENGTH * k : k \in 0..len} :
         ~(i + QMD5_BLOCK_LENGTH < len)})

\* Where the loop that compresses straight from the input leaves i.
LoopEnd(from, len) ==
  Min({i \in {from + QMD5_BLOCK_LENGTH * k : k \in 0..len} :
         ~(i + (QMD5_BLOCK_LENGTH - 1) < len)})

\* Faulty variant: copies to the start of the buffer.
Copied_AtStart(buffer, idx, bytes) ==
  [j \in 1..QMD5_BLOCK_LENGTH |->
     IF j \in DOMAIN bytes THEN bytes[j] ELSE buffer[j]]

\* memcpy of the bytes to buffer[idx].
Copied(buffer, idx, bytes) ==
  [j \in 1..QMD5_BLOCK_LENGTH |->
     IF j - idx \in DOMAIN bytes THEN bytes[j - idx] ELSE buffer[j]]

\* The context after QMD5Update: what fills the buffer up is compressed with it,
\* then whole blocks of the input, and the rest stays in the buffer.
Updated(ctx, input) ==
  LET idx     == Idx(ctx.count)
      partLen == QMD5_BLOCK_LENGTH - idx
      i       == LoopEnd(partLen, Len(input))
      block   == Copied(ctx.buffer, idx, SubSeq(input, 1, partLen))
  IN  IF Len(input) >= partLen
      THEN [count  |-> Counted(ctx.count, Len(input)),
            state  |-> ctx.state \o block \o SubSeq(input, partLen + 1, i),
            buffer |-> Copied(block, 0, SubSeq(input, i + 1, Len(input)))]
      ELSE [count  |-> Counted(ctx.count, Len(input)),
            state  |-> ctx.state,
            buffer |-> Copied(ctx.buffer, idx, input)]

-------------------------------------------------------------------------------
(* QMD5Pad.                                                                *)

\* Faulty variant: takes 56 for less than 56.
PadLen_Tight(idx) ==
  IF idx <= QMD5_BLOCK_LENGTH - BitsLen THEN QMD5_BLOCK_LENGTH - BitsLen - idx
  ELSE 2 * QMD5_BLOCK_LENGTH - BitsLen - idx

PadLen(idx) ==
  IF idx < QMD5_BLOCK_LENGTH - BitsLen THEN QMD5_BLOCK_LENGTH - BitsLen - idx
  ELSE 2 * QMD5_BLOCK_LENGTH - BitsLen - idx

Padded(ctx) ==
  Updated(Updated(ctx, SubSeq(PADDING, 1, PadLen(Idx(ctx.count)))),
          Encode(ctx.count))

-------------------------------------------------------------------------------
(* The calls.                                                              *)

NoCount == [i \in 0..1 |-> 0]

\* Also in the middle of a message.  The buffer is not set: it is on the stack of
\* qhashmd5, or holds bytes of another message.
QMD5Init ==
  /\ context' = [count  |-> NoCount,
                 state  |-> << >>,
                 buffer |-> [j \in 1..QMD5_BLOCK_LENGTH |-> Stale]]
  /\ open' = TRUE
  /\ inputSize' = 0
  /\ digest' = << >>

QMD5Update(len) ==
  /\ open
  /\ inputSize + len <= MaxLen
  /\ context' = Updated(context, [i \in 1..len |-> DataByte(inputSize + i)])
  /\ inputSize' = inputSize + len
  /\ UNCHANGED <<open, digest>>

\* The context is overwritten with zeros.
Zeroized ==
  [count |-> NoCount, state |-> << >>,
   buffer |-> [j \in 1..QMD5_BLOCK_LENGTH |-> Zero]]

QMD5Final ==
  /\ open
  /\ digest' = Padded(context).state
  /\ context' = Zeroized
  /\ open' = FALSE
  /\ UNCHANGED inputSize

Init ==
  /\ context = Zeroized
  /\ open = FALSE
  /\ inputSize = 0
  /\ digest = << >>

Next == QMD5Init \/ QMD5Final \/ \E len \in 0..MaxLen : QMD5Update(len)

Spec == Init /\ [][Next]_vars
================================================================================
