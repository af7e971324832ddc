------------------------------- MODULE QMD5Props -------------------------------
(***************************************************************************)
(* What the streaming of MD5 should satisfy.                               *)
(*                                                                         *)
(* The instance that TLC checks has blocks of eight bytes and words of     *)
(* eight bits: the length takes two bytes, padding may need a block of its *)
(* own, and 32 bytes of message carry into the upper word.                 *)
(***************************************************************************)
EXTENDS QMD5

Message == [i \in 1..inputSize |-> DataByte(i)]

Byte == {Mark, Zero, Stale} \cup {DataByte(i) : i \in 1..MaxLen}
          \cup {BitsByte(x) : x \in 0..255}

\* Types of the variables: whole blocks are compressed, and none of them holds a
\* byte that nobody stored in the buffer.
TypeOK ==
  /\ context.count \in [0..1 -> 0..(Word - 1)]
  /\ context.buffer \in [1..QMD5_BLOCK_LENGTH -> Byte]
  /\ \A s \in {context.state, digest} :
       /\ Len(s) % QMD5_BLOCK_LENGTH = 0
       /\ Range(s) \subseteq Byte \ {Stale}
  /\ open \in BOOLEAN
  /\ inputSize \in 0..MaxLen

\* However the message is cut into pieces, what was compressed and what is in the
\* buffer below the index that count gives are the message, and the two words of
\* count are its length in bits (QMD5Update).
PiecesDoNotMatter ==
  open =>
    /\ context.state \o SubSeq(context.buffer, 1, Idx(context.count)) = Message
    /\ context.count[0] + Word * context.count[1] = (8 * inputSize) % (Word * Word)

\* The padding that MD5 prescribes: a one bit, as few zeros as make whole blocks,
\* and the length.
Prescribed(m) ==
  LET Total(k) == Len(m) + 1 + k + BitsLen
      zeros == Min({k \in 0..(QMD5_BLOCK_LENGTH - 1) :
                      Total(k) % QMD5_BLOCK_LENGTH = 0})
      bits(j) == BitsByte(((8 * Len(m)) \div 256 ^ (j - 1)) % 256)
  IN  m \o <<Mark>> \o [k \in 1..zeros |-> Zero] \o [j \in 1..BitsLen |-> bits(j)]

\* The digest compresses the padded message, whatever its length: padding that
\* needs a block of its own, lengths that carry into the upper word, and bytes
\* left in the buffer by another message (QMD5Pad, QMD5Final).
DigestIsOfPaddedMessage ==
  digest # << >> => digest = Prescribed(Message)
================================================================================
