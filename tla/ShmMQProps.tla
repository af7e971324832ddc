------------------------------ MODULE ShmMQProps ------------------------------
(***************************************************************************)
(* What the message queue of ShmMQ should satisfy.                         *)
(***************************************************************************)
EXTENDS ShmMQ

Message == [id : 1..MaxMsgs, len : Lens]

Byte ==
  {Zero} \cup {MagicByte(j) : j \in 0..(MSG_MAGIC_NUM_LEN - 1)}
         \cup {LenByte(j, len) : j \in 0..(MSG_HEAD_SIZE - 1), len \in Lens}
         \cup {DataByte(id, j) : id \in 1..MaxMsgs, j \in 0..SegSize}

EnqLabels == {"enqHead", "enqTail", "enqHeader", "enqBody", "enqReload",
              "enqStore", "enqCount"}
DeqLabels == {"deqHead", "deqTail", "deqCount", "deqHeader", "deqCopy",
              "deqStore", "deqTrailer", "reCheck", "reHead", "reTail"}
ClrLabels == {"clrPid", "clrHead", "clrTail", "clrCount", "clrDone"}
Labels == {"out", "memset", "initPid", "idle", "check", "checkProc"}
            \cup EnqLabels \cup DeqLabels \cup ClrLabels

Local ==
  [h : Nat, t : Nat, n : Nat, m : [id : 0..MaxMsgs, len : Lens \cup {0}],
   buf : [0..(SegSize - 1) -> Byte]]

SharedOK ==
  /\ created \in BOOLEAN
  /\ mem \in [0..(SegSize - 1) -> Byte]
  /\ head \in Nat
  /\ tail \in Nat
  /\ msgCount \in (-CountLimit)..(CountLimit - 1)
  /\ pid \in Procs \cup {NoProc}
  /\ lock \in [Sides -> Procs \cup {NoProc}]

\* Producers are never inside comsume, nor consumers inside produce.
PcOK ==
  /\ pc \in [Procs -> Labels]
  /\ \A p \in Producers : pc[p] \notin DeqLabels
  /\ \A p \in Consumers : pc[p] \notin EnqLabels

LocOK == loc \in [Procs -> Local]

HistoryOK ==
  /\ nextId \in 1..(MaxMsgs + 1)
  /\ enq \in Seq([id : 0..MaxMsgs, len : Lens \cup {0}])
  /\ deq \in Seq([id : 0..MaxMsgs, len : Nat])
  /\ got \in Seq([id : 0..MaxMsgs, len : Nat])
  /\ clears \in 0..MaxClears
  /\ crashes \in 0..MaxCrashes

\* Types of the variables.
TypeOK == SharedOK /\ PcOK /\ LocOK /\ HistoryOK

-------------------------------------------------------------------------------
(* The queue that the bytes of the ring spell.                             *)

Used == IF head = tail THEN 0 ELSE UsedLen(SegSize, head, tail)

\* The message that the bytes from h on begin with: its total length by its
\* header, the bytes behind the header, and where the next one begins.
TotalAt(h) == CHOOSE n \in Decoded(HeaderBytes(SegSize, h)) : TRUE
BodyAt(h)  == BodyBytes(SegSize, h, TotalAt(h) - HeaderLen)
NextAt(h)  == DeqHead(SegSize, HeaderEnd(SegSize, h), TotalAt(h) - HeaderLen)

\* It is whole and lies in the u bytes from h on.
WholeAt(h, u) ==
  /\ MagicAt(HeaderBytes(SegSize, h), 0)
  /\ Cardinality(Decoded(HeaderBytes(SegSize, h))) = 1
  /\ TotalAt(h) \in TotalLen(0)..u
  /\ MagicAt(BodyAt(h), TotalAt(h) - HeaderLen - MSG_MAGIC_NUM_LEN)

\* The messages in the u bytes from h on; Torn where the bytes are no message.
Parse[u \in 0..SegSize] ==
  [h \in 0..SegSize |->
     IF u = 0 THEN << >>
     ELSE IF ~WholeAt(h, u) THEN <<Torn>>
     ELSE <<Delivered(BodyAt(h), TotalAt(h) - HeaderLen)>>
            \o Parse[u - TotalAt(h)][NextAt(h)]]

InRing == Parse[Used][head]

\* Refinement: read off memory, the ring is the FIFO queue that MessageFifo
\* specifies; the store of tail is its Send, the store of head its Receive
\* (shm_msg_queue.cc enqueue and dequeue).  Who receives a message may still die
\* before comsume returns it, see DeliveredInOrder.  For processes that do not clear.
Fifo == INSTANCE MessageFifo WITH queue <- InRing, received <- deq

FifoSpec == Fifo!Spec

-------------------------------------------------------------------------------
(* Safety.                                                                 *)

\* A dequeue never finds the data messed up: the magic numbers and the length
\* test of dequeue (lines 372-435) and the index test of check (line 174) hold
\* whatever the interleaving, also when processes crash in the middle of a call.
NoRepair ==
  \A p \in Procs : pc[p] \notin {"reCheck", "check", "clrPid"}

\* Messages leave the ring in the order they were published, each once and whole,
\* even if a producer or consumer dies inside its call; and comsume returns them in
\* that order, all but those whose consumer died between the store of head and the
\* return (lines 415-437), at most one for each crash.
DeliveredInOrder ==
  /\ Len(deq) <= Len(enq)
  /\ \A i \in 1..Len(deq) : deq[i] = enq[i]
  /\ \E at \in [1..Len(got) -> 1..Len(deq)] :
       /\ \A i, j \in 1..Len(got) : i < j => at[i] < at[j]
       /\ \A i \in 1..Len(got) : got[i] = deq[at[i]]
  /\ Len(deq) - Len(got) <= crashes + Cardinality({p \in Procs : pc[p] = "deqTrailer"})

\* The counter never promises a message that is not in the ring (lines 321, 346,
\* 578): while comsume's msgCount test sends it into dequeue, one is there.
CountNeverAhead ==
  /\ 0 <= msgCount
  /\ msgCount <= Len(enq) - Len(deq)

\* Exact bookkeeping between the two indices and the counter: it lags the ring
\* by one for each enqueue that has stored tail but not counted, and for each
\* dequeue that has counted but not stored head.  (Who dies there leaves the
\* counter behind for good; CountNeverAhead is what remains.)
CountAccounting ==
  crashes = 0 =>
    msgCount = Len(InRing)
      - Cardinality({p \in Procs :
          pc[p] \in {"enqCount", "deqHeader", "deqCopy", "deqStore"}})

\* Whatever clears and crashes interleave, and whatever shmSize (up to the
\* segment's) each process attached with, no copy touches a byte outside the
\* segment.
AccessInBlock ==
  \A p \in Procs :
    LET B == blockSize[p]
        inside(x) == x \in 0..(SegSize - 1)
    IN  /\ pc[p] \in {"enqHeader", "enqBody"} =>
             \A i \in 0..(TotalLen(loc[p].m.len) - 1) :
               inside(EnqPos(B, loc[p].t, loc[p].m.len, i))
        /\ pc[p] = "deqHeader" =>
             \A i \in 0..(HeaderLen - 1) : inside(HeaderPos(B, loc[p].h, i))
        /\ pc[p] = "deqCopy" =>
             \A i \in 0..(loc[p].n - 1) :
               inside(BodyPos(B, HeaderEnd(B, loc[p].h), loc[p].n, i))

\* Head and tail stay in the segment even if clearMQ races with enqueue or
\* dequeue: check() never fails for a process that attached with the segment's
\* size, so its repair by way of the pid word (lines 180-201) takes one that
\* attached with less.
FullSize(p) == blockSize[p] = SegSize
CheckNeverFails ==
  /\ head <= SegSize
  /\ tail <= SegSize
  /\ \A p \in Procs : FullSize(p) => pc[p] # "check"

-------------------------------------------------------------------------------
(* What the sources say of the queue when no call is in progress.          *)

Quiet == \A p \in Procs : pc[p] \in {"out", "idle"}

\* shm_msg_queue.h:34: msgCount_ is the "msg count in the queue".
QuietCount == Quiet => msgCount = Len(InRing)

\* The bytes between head and tail are whole messages.
QuietParses == Quiet => Torn \notin {InRing[i] : i \in 1..Len(InRing)}

-------------------------------------------------------------------------------
(* Liveness.                                                               *)

\* With consumers that keep polling, every accepted message is returned to one.
EveryMessageDelivered ==
  \A i \in 1..MaxMsgs : Len(enq) >= i ~> Len(got) >= i

-------------------------------------------------------------------------------
(* The inductive invariant behind AccessInBlock and CheckNeverFails.       *)

InCall(p) == pc[p] \in Labels \ {"out", "memset", "initPid", "idle"}

\* Who is inside a call of a locked class holds the lock file of its side.
LockHeld == Locked => \A p \in Procs : InCall(p) => lock[Side(p)] = p

\* No index, and no copy of one, lies behind the end of the segment.
IndicesInSeg ==
  /\ head <= SegSize /\ tail <= SegSize
  /\ \A p \in Procs : loc[p].h <= SegSize /\ loc[p].t <= SegSize

\* A producer that may yet start writing has a message to write.
Starting(p) ==
  pc[p] \in {"enqHead", "enqTail"} => nextId <= MaxMsgs /\ loc[p].m.len \in Lens

\* A message being written fits between p's copy of tail and the wrap-around;
\* meanwhile tail is still that copy, or was cleared.
Writing(p) ==
  pc[p] \in {"enqHeader", "enqBody", "enqReload"} =>
    /\ loc[p].t <= blockSize[p]
    /\ loc[p].m \in Message
    /\ TotalLen(loc[p].m.len) < blockSize[p]
    /\ tail \in {0, loc[p].t}
    /\ pc[p] = "enqReload" => InOnePiece(blockSize[p], loc[p].t, loc[p].m.len)

Publishing(p) == pc[p] = "enqStore" => loc[p].n <= blockSize[p]

\* What dequeue copies lies within the used bytes it computed.
Reading(p) ==
  /\ pc[p] \in {"deqCount", "deqHeader", "deqCopy", "deqStore"} =>
       /\ loc[p].h <= blockSize[p]
       /\ loc[p].t <= blockSize[p]
       /\ loc[p].h # loc[p].t
  /\ pc[p] \in {"deqCopy", "deqStore"} =>
       loc[p].n + HeaderLen <= UsedLen(blockSize[p], loc[p].h, loc[p].t)

NoCheck == \A p \in Procs : FullSize(p) => pc[p] \notin {"check", "checkProc"}

IInv ==
  /\ TypeOK
  /\ LockHeld
  /\ IndicesInSeg
  /\ \A p \in Procs : Starting(p) /\ Writing(p) /\ Publishing(p) /\ Reading(p)
  /\ NoCheck
===============================================================================
