------------------------------- MODULE MCShmMQ --------------------------------
(***************************************************************************)
(* Instances of ShmMQ for TLC.  The magic number takes two bytes and the  *)
(* length field one, so a message of n data bytes takes n + 5 bytes of the *)
(* ring (ShmMQProofs covers the real sizes of four and four).              *)
(***************************************************************************)
EXTENDS ShmMQProps, TLC

CONSTANTS P1, P2, C1, C2

AllSame == [p \in Procs |-> SegSize]

\* The consumers attached with a smaller shmSize than the creator's.
SmallerConsumer == [p \in Procs |-> IF p \in Producers THEN SegSize ELSE 10]

AmpleBuf == [p \in Consumers |-> SegSize]
SmallBuf == [p \in Consumers |-> 4]

\* No property tells one producer, or one consumer, from another.
Sym == Permutations({P1, P2}) \cup Permutations({C1, C2})
===============================================================================
