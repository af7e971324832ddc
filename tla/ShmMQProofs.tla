------------------------------ MODULE ShmMQProofs ------------------------------
(***************************************************************************)
(* For every number of processes, segment size, message set and bound: the *)
(* ring arithmetic of enqueue and that of dequeue agree, and the invariant *)
(* IInv of ShmMQProps is inductive, from which types, index bounds         *)
(* (AccessInBlock) and the test of check (CheckNeverFails) follow.         *)
(*                                                                         *)
(* Beyond the indices, FInv says what the bytes between them spell: the    *)
(* ring delivers every message once, whole and in order, under crashes,    *)
(* and so it refines the FIFO queue of MessageFifo.                        *)
(***************************************************************************)
EXTENDS ShmMQProps, SumLemmas, SequenceTheorems, TLAPS

-------------------------------------------------------------------------------
(* Facts about the ring arithmetic of RingLayout, for every block size and *)
(* message.                                                                *)

\* Ring position: B bytes, a position reaching B continues at 0.
Wrap(B, x) == IF x < B THEN x ELSE x - B

\* Ring boundary: as Wrap, but a boundary at the very end stays B.
Boundary(B, x) == IF x > B THEN x - B ELSE x

\* enqueue's three layouts all put byte i at the i-th ring position from tail,
\* whichever pieces of header, data and trailing magic wrap around.
LEMMA EnqPosIsRing ==
  ASSUME NEW B \in Nat, NEW t \in 0..B, NEW len \in Nat,
         TotalLen(len) < B, NEW i \in 0..(TotalLen(len) - 1)
  PROVE  EnqPos(B, t, len, i) = Wrap(B, t + i)
<1>1. CASE InOnePiece(B, t, len)
  BY <1>1, LayoutAssumption DEF InOnePiece, EnqPos, Wrap, TotalLen
<1>2. CASE ~InOnePiece(B, t, len) /\ BodySplit(B, t, len)
  BY <1>2, LayoutAssumption
  DEF InOnePiece, BodySplit, EnqPos, SplitBodyPos, Wrap, TotalLen, HeaderLen
<1>3. CASE ~InOnePiece(B, t, len) /\ ~BodySplit(B, t, len)
  BY <1>3, LayoutAssumption
  DEF InOnePiece, BodySplit, EnqPos, SplitHeaderPos, Wrap, TotalLen, HeaderLen
<1>4. QED BY <1>1, <1>2, <1>3

\* The tail enqueue stores is the ring boundary after the message.
LEMMA EnqTailIsBoundary ==
  ASSUME NEW B \in Nat, NEW t \in 0..B, NEW len \in Nat, TotalLen(len) < B
  PROVE  /\ EnqTail(B, t, len) = Boundary(B, t + TotalLen(len))
         /\ EnqTail(B, t, len) \in 1..B
BY LayoutAssumption
DEF EnqTail, InOnePiece, BodySplit, Boundary, TotalLen, HeaderLen

\* dequeue reads byte i of a message at the i-th ring position from head.
LEMMA DeqPosIsRing ==
  ASSUME NEW B \in Nat, NEW h \in 0..B, NEW len \in Nat,
         TotalLen(len) < B, NEW i \in 0..(TotalLen(len) - 1)
  PROVE  DeqPos(B, h, TotalLen(len), i) = Wrap(B, h + i)
<1>1. CASE i < HeaderLen
  BY <1>1, LayoutAssumption DEF DeqPos, HeaderPos, Wrap, TotalLen, HeaderLen
<1>2. CASE i >= HeaderLen
  BY <1>2, LayoutAssumption
  DEF DeqPos, BodyPos, HeaderEnd, Wrap, TotalLen, HeaderLen
<1>3. QED BY <1>1, <1>2, LayoutAssumption DEF HeaderLen

\* The head dequeue stores is the ring boundary after the message.
LEMMA DeqHeadIsBoundary ==
  ASSUME NEW B \in Nat, NEW h \in 0..B, NEW len \in Nat, TotalLen(len) < B
  PROVE  DeqHead(B, HeaderEnd(B, h), TotalLen(len) - HeaderLen)
           = Boundary(B, h + TotalLen(len))
BY LayoutAssumption
DEF DeqHead, HeaderEnd, Boundary, TotalLen, HeaderLen

\* Reader and writer agree: dequeue fetches every byte from the place enqueue
\* put it, and stores as head the tail that enqueue stored behind the message.
THEOREM RoundTrip ==
  ASSUME NEW B \in Nat, NEW p \in 0..B, NEW len \in Nat, TotalLen(len) < B
  PROVE  /\ \A i \in 0..(TotalLen(len) - 1) :
              DeqPos(B, p, TotalLen(len), i) = EnqPos(B, p, len, i)
         /\ DeqHead(B, HeaderEnd(B, p), TotalLen(len) - HeaderLen)
              = EnqTail(B, p, len)
BY EnqPosIsRing, DeqPosIsRing, EnqTailIsBoundary, DeqHeadIsBoundary

\* A message that enqueue accepts lands on free bytes only: no byte of it falls
\* on the used bytes between head and tail, and afterwards the used length has
\* grown by exactly the message, so at least one byte stays free and a full ring
\* can never be mistaken for an empty one (head = tail).
THEOREM AcceptedFits ==
  ASSUME NEW B \in Nat, NEW h \in 0..B, NEW t \in 0..B, NEW len \in Nat,
         h = 0 => t # B, h = B => t # 0,
         FreeLen(B, h, t) > TotalLen(len)
  PROVE  LET used == IF h = t THEN 0 ELSE UsedLen(B, h, t)
             new  == EnqTail(B, t, len)
         IN  /\ TotalLen(len) < B
             /\ new # h
             /\ h = 0 => new # B
             /\ UsedLen(B, h, new) = used + TotalLen(len)
             /\ used + TotalLen(len) < B
             /\ \A i \in 0..(TotalLen(len) - 1), u \in 0..(used - 1) :
                  EnqPos(B, t, len, i) # Wrap(B, h + u)
<1>1. TotalLen(len) < B /\ TotalLen(len) \in Nat
  BY LayoutAssumption DEF FreeLen, TotalLen
<1>2. EnqTail(B, t, len) = Boundary(B, t + TotalLen(len))
  BY <1>1, EnqTailIsBoundary
<1> DEFINE used == IF h = t THEN 0 ELSE UsedLen(B, h, t)
<1>3. used \in Nat /\ used + TotalLen(len) < B
  BY <1>1 DEF UsedLen, FreeLen
<1>4. /\ EnqTail(B, t, len) # h
      /\ h = 0 => EnqTail(B, t, len) # B
      /\ UsedLen(B, h, EnqTail(B, t, len)) = used + TotalLen(len)
  BY <1>1, <1>2, LayoutAssumption DEF UsedLen, FreeLen, Boundary, TotalLen
<1>5. ASSUME NEW i \in 0..(TotalLen(len) - 1), NEW u \in 0..(used - 1)
      PROVE  EnqPos(B, t, len, i) # Wrap(B, h + u)
  <2>1. EnqPos(B, t, len, i) = Wrap(B, t + i)
    BY <1>1, EnqPosIsRing
  <2>2. Wrap(B, t + i) # Wrap(B, h + u)
    BY <1>1, <1>3 DEF Wrap, UsedLen, FreeLen
  <2>3. QED BY <2>1, <2>2
<1>6. QED BY <1>1, <1>3, <1>4, <1>5

-------------------------------------------------------------------------------
(* The queue.                                                              *)

\* The arithmetic facts about the sizes that the steps below use.
LEMMA Sizes ==
  /\ HeaderLen \in Nat /\ MSG_MAGIC_NUM_LEN \in Nat /\ MSG_HEAD_SIZE \in Nat
  /\ HeaderLen = MSG_MAGIC_NUM_LEN + MSG_HEAD_SIZE
  /\ SegSize \in Nat
  /\ CountLimit \in Nat /\ SegSize < CountLimit
  /\ \A p \in Procs : /\ blockSize[p] \in Nat
                        /\ HeaderLen <= blockSize[p]
                        /\ blockSize[p] <= SegSize
  /\ \A len \in Lens : len \in Nat /\ TotalLen(len) \in Nat
BY LayoutAssumption, SizeAssumption DEF HeaderLen, TotalLen

\* Two processes of one side are never inside calls together: the lock file
\* of the side, or the rule of one process per side, keeps them apart.
LEMMA AloneInCall ==
  ASSUME TypeOK, LockHeld, NEW p \in Procs, NEW q \in Procs,
         InCall(p), InCall(q), Side(p) = Side(q)
  PROVE  p = q
<1>1. CASE Locked
  BY <1>1 DEF LockHeld
<1>2. CASE ~Locked
  BY <1>2, ExclusiveAssumption, ProcsAssumption DEF Side, Procs
<1>3. QED BY <1>1, <1>2

\* The invariant holds before any process has done anything.
LEMMA InitIInv == Init => IInv
<1> SUFFICES ASSUME Init PROVE IInv
  OBVIOUS
<1>1. NoBytes \in [0..(SegSize - 1) -> Byte]
  BY DEF NoBytes, Byte
<1>2. TypeOK
  <2>1. SharedOK
    BY <1>1, Sizes, ProcsAssumption DEF Init, SharedOK, Sides
  <2>2. PcOK
    BY DEF Init, PcOK, Labels, EnqLabels, DeqLabels, Procs
  <2>3. LocOK
    BY <1>1, BoundAssumption DEF Init, LocOK, NoLoc, NoMsg, Local
  <2>4. HistoryOK
    BY BoundAssumption DEF Init, HistoryOK
  <2>5. QED
    BY <2>1, <2>2, <2>3, <2>4 DEF TypeOK
<1>3. \A p \in Procs : ~InCall(p)
  BY DEF Init, InCall
<1>4. IndicesInSeg
  BY Sizes DEF Init, IndicesInSeg, NoLoc
<1>5. \A p \in Procs : pc[p] \in {"idle", "out"}
  BY DEF Init
<1>6. QED
  BY <1>2, <1>3, <1>4, <1>5
  DEF IInv, LockHeld, Starting, Writing, Publishing, Reading, NoCheck

-------------------------------------------------------------------------------
(* What an action of process p may change of the parts of the state that   *)
(* belong to processes.                                                    *)

CallLabels == Labels \ {"out", "memset", "initPid", "idle"}

OnlyMoves(p) ==
  /\ pc' \in [Procs -> Labels]
  /\ loc' \in [Procs -> Local]
  /\ \A q \in Procs \ {p} : pc'[q] = pc[q] /\ loc'[q] = loc[q]
  /\ pc'[p] \in EnqLabels => p \in Producers
  /\ pc'[p] \in DeqLabels => p \in Consumers
  /\ \/ lock' = lock /\ (pc'[p] \in CallLabels => pc[p] \in CallLabels)
     \/ Acquire(p)
     \/ Release(p) /\ pc'[p] \notin CallLabels

IndicesMove(p) ==
  /\ head' <= SegSize /\ tail' <= SegSize
  /\ loc'[p].h <= SegSize /\ loc'[p].t <= SegSize
  /\ (tail' \in {0, tail} /\ nextId' = nextId) \/ (p \in Producers /\ InCall(p))

LocalsOK(p) == Starting(p) /\ Writing(p) /\ Publishing(p) /\ Reading(p)

\* A step of p keeps the invariant if it keeps what concerns p itself: nothing
\* p may do disturbs what the invariant says of another process.
LEMMA OneProcess ==
  ASSUME IInv, NEW p \in Procs, OnlyMoves(p), SharedOK', HistoryOK',
         IndicesMove(p), LocalsOK(p)',
         FullSize(p) => pc'[p] \notin {"check", "checkProc"}
  PROVE  IInv'
<1>1. TypeOK'
  <2>1. PcOK'
    BY ProcsAssumption DEF IInv, TypeOK, PcOK, OnlyMoves, Procs
  <2>2. LocOK'
    BY DEF OnlyMoves, LocOK
  <2>3. QED BY <2>1, <2>2 DEF TypeOK
<1>2. LockHeld'
  <2>1. SUFFICES ASSUME Locked, NEW q \in Procs, pc'[q] \in CallLabels
                 PROVE  lock'[Side(q)] = q
    BY DEF LockHeld, InCall, CallLabels
  <2>2. lock \in [Sides -> Procs \cup {NoProc}] /\ Side(p) \in Sides /\ Side(q) \in Sides
    BY DEF IInv, TypeOK, SharedOK, Side, Sides
  <2>3. pc[q] \in CallLabels => lock[Side(q)] = q
    BY <2>1 DEF IInv, LockHeld, InCall, CallLabels
  <2>4. CASE lock' = lock /\ (pc'[p] \in CallLabels => pc[p] \in CallLabels)
    BY <2>1, <2>3, <2>4 DEF OnlyMoves
  <2>5. CASE Acquire(p)
    BY <2>1, <2>2, <2>3, <2>5, ProcsAssumption DEF OnlyMoves, Acquire
  <2>6. CASE Release(p) /\ pc'[p] \notin CallLabels
    BY <2>1, <2>2, <2>3, <2>6 DEF OnlyMoves, Release
  <2>7. QED BY <2>4, <2>5, <2>6 DEF OnlyMoves
<1>3. IndicesInSeg'
  BY DEF IInv, IndicesInSeg, IndicesMove, OnlyMoves
<1>4. ASSUME NEW q \in Procs PROVE LocalsOK(q)'
  <2>1. CASE q = p
    BY <2>1
  <2>2. CASE q # p
    <3>1. pc'[q] = pc[q] /\ loc'[q] = loc[q]
      BY <2>2 DEF OnlyMoves
    <3>2. Publishing(q)' /\ Reading(q)'
      BY <3>1 DEF IInv, Publishing, Reading
    <3>3. ASSUME pc[q] \in {"enqHead", "enqTail", "enqHeader", "enqBody", "enqReload"}
          PROVE  tail' \in {0, tail} /\ nextId' = nextId
      <4>1. InCall(q) /\ q \in Producers
        BY <3>3, ProcsAssumption
        DEF IInv, TypeOK, PcOK, InCall, Labels, EnqLabels, Procs
      <4>2. ~(p \in Producers /\ InCall(p))
        BY <2>2, <4>1, AloneInCall DEF IInv, Side
      <4>3. QED BY <4>2 DEF IndicesMove
    <3>4. Starting(q)' /\ Writing(q)'
      BY <3>1, <3>3 DEF IInv, Starting, Writing
    <3>5. QED BY <3>2, <3>4 DEF LocalsOK
  <2>3. QED BY <2>1, <2>2
<1>5. NoCheck'
  BY DEF IInv, NoCheck, FullSize, OnlyMoves
<1>6. QED BY <1>1, <1>2, <1>3, <1>4, <1>5 DEF IInv, LocalsOK

\* A step that goes on within a call, or begins or ends init, without the lock.
LEMMA GoesOn ==
  ASSUME IInv, NEW p \in Procs, NEW l \in Labels, NEW r \in Local,
         Goto(p, l), loc' = [loc EXCEPT ![p] = r], lock' = lock,
         l \in EnqLabels => pc[p] \in EnqLabels,
         l \in DeqLabels => pc[p] \in DeqLabels,
         l \in CallLabels => InCall(p)
  PROVE  OnlyMoves(p) /\ pc'[p] = l /\ loc'[p] = r
<1>1. /\ pc' \in [Procs -> Labels] /\ pc'[p] = l
      /\ loc' \in [Procs -> Local] /\ loc'[p] = r
      /\ \A q \in Procs \ {p} : pc'[q] = pc[q] /\ loc'[q] = loc[q]
  BY DEF IInv, TypeOK, PcOK, LocOK, Goto
<1>2. pc[p] \in EnqLabels => p \in Producers
  BY ProcsAssumption DEF IInv, TypeOK, PcOK, Procs
<1>3. pc[p] \in DeqLabels => p \in Consumers
  BY ProcsAssumption DEF IInv, TypeOK, PcOK, Procs
<1>4. QED BY <1>1, <1>2, <1>3 DEF OnlyMoves, InCall, CallLabels

\* The same for a step that leaves the locals alone.
LEMMA GoesOnSame ==
  ASSUME IInv, NEW p \in Procs, NEW l \in Labels,
         Goto(p, l), loc' = loc, lock' = lock,
         l \in EnqLabels => pc[p] \in EnqLabels,
         l \in DeqLabels => pc[p] \in DeqLabels,
         l \in CallLabels => InCall(p)
  PROVE  OnlyMoves(p) /\ pc'[p] = l /\ loc'[p] = loc[p]
<1>1. loc[p] \in Local /\ loc' = [loc EXCEPT ![p] = loc[p]]
  BY DEF IInv, TypeOK, LocOK
<1>2. QED BY <1>1, GoesOn

\* The parts of a process's locals, from LocOK.
LEMMA LocalFields ==
  ASSUME NEW r \in Local
  PROVE  /\ r.h \in Nat /\ r.t \in Nat /\ r.n \in Nat
         /\ r.m.id \in 0..MaxMsgs /\ r.m.len \in Lens \cup {0} /\ r.m.len \in Nat
         /\ r.m = [id |-> r.m.id, len |-> r.m.len]
         /\ r.buf \in [0..(SegSize - 1) -> Byte]
<1>1. r.m \in [id : 0..MaxMsgs, len : Lens \cup {0}]
  BY DEF Local
<1>2. r.h \in Nat /\ r.t \in Nat /\ r.n \in Nat /\ r.buf \in [0..(SegSize - 1) -> Byte]
  BY DEF Local
<1>3. r.m.id \in 0..MaxMsgs /\ r.m.len \in Lens \cup {0}
  BY <1>1
<1>4. r.m = [id |-> r.m.id, len |-> r.m.len]
  BY <1>1
<1>5. r.m.len \in Nat
  <2>1. \A x \in Lens \cup {0} : x \in Nat
    BY SizeAssumption
  <2>2. QED BY <1>3, <2>1
<1>6. QED BY <1>2, <1>3, <1>4, <1>5

\* The local after enqueue has taken its copy of tail.
LEMMA LocalWithMsg ==
  ASSUME NEW r \in Local, NEW x \in Nat, NEW id \in 0..MaxMsgs
  PROVE  LET s == [r EXCEPT !.t = x, !.m.id = id]
         IN  s \in Local /\ s.t = x /\ s.h = r.h /\ s.m = [id |-> id, len |-> r.m.len]
<1>1. [r.m EXCEPT !.id = id] = [id |-> id, len |-> r.m.len]
  <2>1. r.m \in [id : 0..MaxMsgs, len : Lens \cup {0}]
    BY DEF Local
  <2>2. QED BY <2>1
<1>2. [id |-> id, len |-> r.m.len] \in [id : 0..MaxMsgs, len : Lens \cup {0}]
  BY LocalFields
<1>3. [r EXCEPT !.t = x, !.m.id = id] = [r EXCEPT !.t = x, !.m = [r.m EXCEPT !.id = id]]
  BY DEF Local
<1>4. QED BY <1>1, <1>2, <1>3 DEF Local

\* The locals of a process outside a call.
LEMMA NoLocType == NoLoc \in Local /\ NoLoc.h = 0 /\ NoLoc.t = 0 /\ NoLoc.n = 0
<1>1. NoBytes \in [0..(SegSize - 1) -> Byte]
  BY DEF NoBytes, Byte
<1>2. QED BY <1>1, BoundAssumption DEF NoLoc, NoMsg, Local

\* flock and its release keep the type of lock.
LEMMA LockType ==
  ASSUME IInv, NEW p \in Procs, Acquire(p) \/ Release(p) \/ lock' = lock
  PROVE  lock' \in [Sides -> Procs \cup {NoProc}]
BY DEF IInv, TypeOK, SharedOK, Acquire, Release

\* A step after which p is outside its call (it returned or crashed) disturbs
\* nothing if head and tail stay in the segment.
LEMMA Leaves ==
  ASSUME IInv, NEW p \in Procs, NEW l \in {"idle", "out"},
         Goto(p, l), Release(p), loc' = [loc EXCEPT ![p] = NoLoc],
         SharedOK', HistoryOK', head' <= SegSize, tail' = tail, nextId' = nextId
  PROVE  IInv'
<1>1. OnlyMoves(p) /\ pc'[p] = l /\ loc'[p] = NoLoc
  <2>1. /\ pc' \in [Procs -> Labels] /\ pc'[p] = l
        /\ loc' \in [Procs -> Local] /\ loc'[p] = NoLoc
        /\ \A q \in Procs \ {p} : pc'[q] = pc[q] /\ loc'[q] = loc[q]
    BY NoLocType DEF IInv, TypeOK, PcOK, LocOK, Goto, Labels
  <2>2. QED BY <2>1 DEF OnlyMoves, CallLabels, EnqLabels, DeqLabels
<1>2. IndicesMove(p)
  BY <1>1, NoLocType, Sizes DEF IInv, IndicesInSeg, IndicesMove
<1>3. LocalsOK(p)'
  BY <1>1 DEF LocalsOK, Starting, Writing, Publishing, Reading
<1>4. QED BY <1>1, <1>2, <1>3, OneProcess

-------------------------------------------------------------------------------
(* The steps of a call, one lemma for each action.                         *)

\* Loading head: the copy is an index that the segment has.
LEMMA EnqHeadIInv == ASSUME IInv, NEW p \in Procs, EnqHead(p) PROVE IInv'
<1> USE DEF EnqHead
<1>1. OnlyMoves(p) /\ pc'[p] = "enqTail" /\ loc'[p] = [loc[p] EXCEPT !.h = head]
  <2>1. [loc[p] EXCEPT !.h = head] \in Local
    BY DEF IInv, TypeOK, SharedOK, LocOK, Local
  <2>2. QED BY <2>1, GoesOn DEF InCall, Labels, CallLabels, EnqLabels, DeqLabels
<1>2. SharedOK' /\ HistoryOK'
  BY DEF IInv, TypeOK, SharedOK, HistoryOK, shared, history, bounds
<1>3. IndicesMove(p)
  BY <1>1 DEF IInv, TypeOK, LocOK, Local, IndicesInSeg, IndicesMove, shared, history
<1>4. LocalsOK(p)'
  BY <1>1 DEF IInv, TypeOK, LocOK, Local, history,
              LocalsOK, Starting, Writing, Publishing, Reading
<1>5. QED BY <1>1, <1>2, <1>3, <1>4, OneProcess

\* enqueue loads tail: it gives up (check fails, or no space), or starts writing.
LEMMA EnqTailLoadIInv == ASSUME IInv, NEW p \in Procs, EnqTailLoad(p) PROVE IInv'
<1> DEFINE len == loc[p].m.len
           r   == [loc[p] EXCEPT !.t = tail, !.m.id = nextId]
<1>1. CASE /\ ~Valid(p, loc[p].h, tail)
           /\ pc[p] = "enqTail"
           /\ Goto(p, "check")
           /\ UNCHANGED <<loc, lock, nextId, shared, enq, deq, got, bounds>>
  <2>1. OnlyMoves(p) /\ pc'[p] = "check" /\ loc'[p] = loc[p]
    BY <1>1, GoesOnSame DEF InCall, Labels, CallLabels, EnqLabels, DeqLabels
  <2>2. SharedOK' /\ HistoryOK'
    BY <1>1 DEF IInv, TypeOK, SharedOK, HistoryOK, shared, bounds
  <2>3. IndicesMove(p)
    BY <1>1, <2>1 DEF IInv, IndicesInSeg, IndicesMove, shared
  <2>4. ~FullSize(p)
    BY <1>1 DEF Valid, FullSize, IInv, IndicesInSeg
  <2>5. LocalsOK(p)'
    BY <2>1 DEF LocalsOK, Starting, Writing, Publishing, Reading
  <2>6. QED BY <2>1, <2>2, <2>3, <2>4, <2>5, OneProcess
<1>2. CASE /\ Valid(p, loc[p].h, tail)
           /\ FreeLen(blockSize[p], loc[p].h, tail) <= TotalLen(len)
           /\ Return(p)
           /\ UNCHANGED <<nextId, shared, enq, deq, got, bounds>>
  <2>1. SharedOK' /\ HistoryOK'
    BY <1>2, LockType
    DEF Return, IInv, TypeOK, SharedOK, HistoryOK, shared, bounds
  <2>2. head' <= SegSize /\ tail' = tail
    BY <1>2 DEF IInv, IndicesInSeg, shared
  <2>3. QED BY <1>2, <2>1, <2>2, Leaves DEF Return
<1>3. CASE /\ Valid(p, loc[p].h, tail)
           /\ FreeLen(blockSize[p], loc[p].h, tail) > TotalLen(len)
           /\ pc[p] = "enqTail"
           /\ loc' = [loc EXCEPT ![p] = r]
           /\ nextId' = nextId + 1
           /\ Goto(p, "enqHeader")
           /\ UNCHANGED <<lock, shared, enq, deq, got, bounds>>
  <2>1. loc[p] \in Local /\ head \in Nat /\ tail \in Nat /\ blockSize[p] \in Nat
    BY Sizes DEF IInv, TypeOK, SharedOK, LocOK
  <2>2. loc[p].h \in Nat /\ len \in Lens \cup {0} /\ len \in Nat
    BY <2>1, LocalFields
  <2>3. nextId \in 1..MaxMsgs /\ len \in Lens
    BY <1>3 DEF IInv, TypeOK, HistoryOK, Starting
  <2>4. nextId \in 0..MaxMsgs
    BY <2>3
  <2>5. /\ r \in Local /\ r.t = tail /\ r.h = loc[p].h
        /\ r.m.len = len /\ r.m \in Message
    <3>1. r \in Local /\ r.t = tail /\ r.h = loc[p].h
          /\ r.m = [id |-> nextId, len |-> len]
      BY <2>1, <2>4, LocalWithMsg, ZenonT(60)
    <3>2. QED BY <2>3, <3>1 DEF Message
  <2>6. OnlyMoves(p) /\ pc'[p] = "enqHeader" /\ loc'[p] = r
    BY <1>3, <2>5, GoesOn DEF InCall, Labels, CallLabels, EnqLabels, DeqLabels
  <2>7. SharedOK' /\ HistoryOK'
    BY <1>3, <2>3, BoundAssumption DEF IInv, TypeOK, SharedOK, HistoryOK, shared, bounds
  <2>8. InCall(p) /\ p \in Producers
    BY <1>3, ProcsAssumption DEF IInv, TypeOK, PcOK, InCall, Labels, EnqLabels, Procs
  <2>9. IndicesMove(p)
    BY <1>3, <2>5, <2>6, <2>8 DEF IInv, IndicesInSeg, IndicesMove, shared
  <2>10. TotalLen(len) < blockSize[p] /\ tail <= blockSize[p]
    BY <1>3, <2>1, <2>2, Sizes DEF FreeLen, TotalLen, Valid
  <2>11. LocalsOK(p)'
    <3> HIDE DEF r
    <3>1. tail' = loc'[p].t /\ loc'[p].m \in Message /\ loc'[p].m.len = len
      BY <1>3, <2>5, <2>6 DEF shared
    <3>2. loc'[p].t <= blockSize[p] /\ TotalLen(loc'[p].m.len) < blockSize[p]
      BY <2>5, <2>6, <2>10, <3>1
    <3>3. QED
      BY <2>6, <3>1, <3>2 DEF LocalsOK, Starting, Writing, Publishing, Reading
  <2>12. QED BY <2>6, <2>7, <2>9, <2>11, OneProcess
<1>4. QED BY <1>1, <1>2, <1>3 DEF EnqTailLoad

\* The bytes enqueue copies keep the type of the block.
LEMMA WrittenType ==
  ASSUME IInv, NEW p \in Procs, pc[p] \in {"enqHeader", "enqBody"},
         NEW first \in Nat, NEW last \in Nat, last < TotalLen(loc[p].m.len)
  PROVE  Written(blockSize[p], loc[p].t, loc[p].m, first, last)
           \in [0..(SegSize - 1) -> Byte]
<1> DEFINE m == loc[p].m
<1>1. /\ m.id \in 1..MaxMsgs /\ m.len \in Lens /\ m.len \in Nat
      /\ TotalLen(m.len) < SegSize /\ blockSize[p] \in Nat
  <2>1. m \in Message /\ TotalLen(m.len) < blockSize[p]
    BY DEF IInv, Writing
  <2>2. m.id \in 1..MaxMsgs /\ m.len \in Lens
    BY <2>1 DEF Message
  <2>3. m.len \in Nat /\ TotalLen(m.len) \in Nat
    BY <2>2, Sizes
  <2>4. QED BY <2>1, <2>2, <2>3, Sizes
<1>2. ASSUME NEW i \in first..last PROVE MsgByte(m, i) \in Byte
  <2>1. i \in Nat /\ i < TotalLen(m.len)
    BY <1>1, LayoutAssumption DEF TotalLen
  <2> HIDE DEF m
  <2>2. CASE i < MSG_MAGIC_NUM_LEN
    BY <2>1, <2>2, Sizes DEF MsgByte, Byte
  <2>3. CASE i >= MSG_MAGIC_NUM_LEN /\ i < HeaderLen
    BY <1>1, <2>1, <2>3, Sizes DEF MsgByte, Byte
  <2>4. CASE i >= HeaderLen /\ i < HeaderLen + m.len
    <3>1. i - HeaderLen \in 0..SegSize
      BY <1>1, <2>1, <2>4, Sizes DEF TotalLen
    <3>2. QED BY <1>1, <2>1, <2>4, <3>1, Sizes DEF MsgByte, Byte
  <2>5. CASE i >= HeaderLen + m.len
    <3>1. i - HeaderLen - m.len \in 0..(MSG_MAGIC_NUM_LEN - 1)
      BY <1>1, <2>1, <2>5, Sizes DEF TotalLen
    <3>2. QED BY <1>1, <2>1, <2>5, <3>1, Sizes DEF MsgByte, Byte
  <2>6. QED BY <1>1, <2>1, <2>2, <2>3, <2>4, <2>5, Sizes
<1>3. mem \in [0..(SegSize - 1) -> Byte]
  BY DEF IInv, TypeOK, SharedOK
<1>4. QED BY <1>2, <1>3 DEF Written

\* Writing the header changes bytes only.
LEMMA EnqHeaderIInv == ASSUME IInv, NEW p \in Procs, EnqHeader(p) PROVE IInv'
<1> USE DEF EnqHeader
<1>1. OnlyMoves(p) /\ pc'[p] = "enqBody" /\ loc'[p] = loc[p]
  BY GoesOnSame DEF InCall, Labels, CallLabels, EnqLabels, DeqLabels
<1>2. SharedOK' /\ HistoryOK'
  <2>1. loc[p].m.len \in Nat
    BY LocalFields DEF IInv, TypeOK, LocOK
  <2>2. 0 \in Nat /\ HeaderLen - 1 \in Nat /\ HeaderLen - 1 < TotalLen(loc[p].m.len)
    BY <2>1, LayoutAssumption DEF HeaderLen, TotalLen
  <2>3. mem' \in [0..(SegSize - 1) -> Byte]
    BY <2>2, WrittenType
  <2>4. QED BY <2>3 DEF IInv, TypeOK, SharedOK, HistoryOK, history, bounds
<1>3. IndicesMove(p)
  BY <1>1 DEF IInv, IndicesInSeg, IndicesMove, history
<1>4. LocalsOK(p)'
  BY <1>1 DEF IInv, LocalsOK, Starting, Writing, Publishing, Reading
<1>5. QED BY <1>1, <1>2, <1>3, <1>4, OneProcess

\* The data and trailing magic; a wrapped message's new tail lies in the block.
LEMMA EnqBodyIInv == ASSUME IInv, NEW p \in Procs, EnqBody(p) PROVE IInv'
<1> DEFINE B   == blockSize[p]
           t   == loc[p].t
           len == loc[p].m.len
           n   == EnqTail(B, t, len)
<1>1. /\ B \in Nat /\ B <= SegSize /\ t \in 0..B /\ len \in Nat /\ TotalLen(len) < B
      /\ loc[p] \in Local
  <2>1. loc[p] \in Local
    BY DEF IInv, TypeOK, LocOK
  <2>2. B \in Nat /\ B <= SegSize
    BY Sizes
  <2>3. t \in Nat /\ len \in Nat
    BY <2>1, LocalFields
  <2>4. t <= B /\ TotalLen(len) < B
    BY DEF EnqBody, IInv, Writing
  <2>5. QED BY <2>1, <2>2, <2>3, <2>4
<1>2. SharedOK' /\ HistoryOK'
  <2>1. /\ HeaderLen \in Nat /\ TotalLen(len) - 1 \in Nat
        /\ TotalLen(len) - 1 < TotalLen(len)
    BY <1>1, LayoutAssumption DEF HeaderLen, TotalLen
  <2>2. mem' \in [0..(SegSize - 1) -> Byte]
    BY <2>1, WrittenType DEF EnqBody
  <2>3. QED BY <2>2 DEF EnqBody, IInv, TypeOK, SharedOK, HistoryOK, history, bounds
<1>3. CASE InOnePiece(B, t, len) /\ Goto(p, "enqReload") /\ UNCHANGED loc
  <2>1. OnlyMoves(p) /\ pc'[p] = "enqReload" /\ loc'[p] = loc[p]
    BY <1>3, GoesOnSame DEF EnqBody, InCall, Labels, CallLabels, EnqLabels, DeqLabels
  <2>2. IndicesMove(p)
    BY <2>1 DEF EnqBody, IInv, IndicesInSeg, IndicesMove, history
  <2>3. LocalsOK(p)'
    BY <1>3, <2>1
    DEF EnqBody, IInv, LocalsOK, Starting, Writing, Publishing, Reading
  <2>4. QED BY <1>2, <2>1, <2>2, <2>3, OneProcess
<1>4. CASE /\ ~InOnePiece(B, t, len)
           /\ loc' = [loc EXCEPT ![p].n = n]
           /\ Goto(p, "enqStore")
  <2>1. n \in 1..B
    BY <1>1, EnqTailIsBoundary
  <2>2. [loc[p] EXCEPT !.n = n] \in Local
    BY <1>1, <2>1 DEF Local
  <2>3. OnlyMoves(p) /\ pc'[p] = "enqStore" /\ loc'[p] = [loc[p] EXCEPT !.n = n]
    BY <1>4, <2>2, GoesOn
    DEF EnqBody, InCall, Labels, CallLabels, EnqLabels, DeqLabels
  <2>4. loc'[p].n = n /\ loc'[p].h = loc[p].h /\ loc'[p].t = loc[p].t
    BY <1>1, <2>3 DEF Local
  <2>5. IndicesMove(p)
    BY <2>4 DEF EnqBody, IInv, IndicesInSeg, IndicesMove, history
  <2>6. LocalsOK(p)'
    BY <2>1, <2>3, <2>4 DEF LocalsOK, Starting, Writing, Publishing, Reading
  <2>7. QED BY <1>2, <2>3, <2>5, <2>6, OneProcess
<1>5. QED BY <1>3, <1>4 DEF EnqBody

\* The tail loaded again is the copy, or was cleared: it still fits the block.
LEMMA EnqReloadIInv == ASSUME IInv, NEW p \in Procs, EnqReload(p) PROVE IInv'
<1> DEFINE B   == blockSize[p]
           len == loc[p].m.len
           n   == tail + TotalLen(len)
<1>1. loc[p] \in Local /\ B \in Nat /\ len \in Nat /\ tail \in Nat
  <2>1. loc[p] \in Local /\ tail \in Nat
    BY DEF IInv, TypeOK, LocOK, SharedOK
  <2>2. QED BY <2>1, LocalFields, Sizes
<1>2. n \in Nat /\ n <= B
  <2>1. /\ tail \in {0, loc[p].t} /\ TotalLen(len) < B
        /\ InOnePiece(B, loc[p].t, len)
    BY DEF EnqReload, IInv, Writing
  <2>2. loc[p].t \in Nat
    BY <1>1, LocalFields
  <2>3. QED BY <1>1, <2>1, <2>2, LayoutAssumption DEF InOnePiece, TotalLen
<1>3. OnlyMoves(p) /\ pc'[p] = "enqStore" /\ loc'[p] = [loc[p] EXCEPT !.n = n]
  <2>1. [loc[p] EXCEPT !.n = n] \in Local
    BY <1>1, <1>2 DEF Local
  <2>2. QED
    BY <2>1, GoesOn DEF EnqReload, InCall, Labels, CallLabels, EnqLabels, DeqLabels
<1>4. loc'[p].n = n /\ loc'[p].h = loc[p].h /\ loc'[p].t = loc[p].t
  BY <1>1, <1>3 DEF Local
<1>5. SharedOK' /\ HistoryOK'
  BY DEF EnqReload, IInv, TypeOK, SharedOK, HistoryOK, shared, history, bounds
<1>6. IndicesMove(p)
  BY <1>4 DEF EnqReload, IInv, IndicesInSeg, IndicesMove, shared, history
<1>7. LocalsOK(p)'
  BY <1>2, <1>3, <1>4 DEF LocalsOK, Starting, Writing, Publishing, Reading
<1>8. QED BY <1>3, <1>5, <1>6, <1>7, OneProcess

\* The tail that is stored lies in the block (Publishing).
LEMMA EnqStoreIInv == ASSUME IInv, NEW p \in Procs, EnqStore(p) PROVE IInv'
<1> USE DEF EnqStore
<1>1. OnlyMoves(p) /\ pc'[p] = "enqCount" /\ loc'[p] = loc[p]
  BY GoesOnSame DEF InCall, Labels, CallLabels, EnqLabels, DeqLabels
<1>2. loc[p].n \in Nat /\ loc[p].n <= SegSize
      /\ loc[p].m \in [id : 0..MaxMsgs, len : Lens \cup {0}]
  <2>1. loc[p] \in Local
    BY DEF IInv, TypeOK, LocOK
  <2>2. loc[p].n <= blockSize[p]
    BY DEF IInv, Publishing
  <2>3. loc[p].n \in Nat /\ loc[p].m \in [id : 0..MaxMsgs, len : Lens \cup {0}]
    BY <2>1 DEF Local
  <2>4. QED BY <2>2, <2>3, Sizes
<1>3. SharedOK' /\ HistoryOK'
  BY <1>2 DEF IInv, TypeOK, SharedOK, HistoryOK, bounds
<1>4. InCall(p) /\ p \in Producers
  BY ProcsAssumption DEF IInv, TypeOK, PcOK, InCall, Labels, EnqLabels, Procs
<1>5. IndicesMove(p)
  BY <1>1, <1>2, <1>4 DEF IInv, IndicesInSeg, IndicesMove
<1>6. LocalsOK(p)'
  BY <1>1 DEF LocalsOK, Starting, Writing, Publishing, Reading
<1>7. QED BY <1>1, <1>3, <1>5, <1>6, OneProcess

\* increment and decrement keep the counter's 32 bits.
LEMMA CountType ==
  msgCount \in (-CountLimit)..(CountLimit - 1) =>
    /\ Incremented(msgCount) \in (-CountLimit)..(CountLimit - 1)
    /\ Decremented(msgCount) \in (-CountLimit)..(CountLimit - 1)
BY Sizes DEF Incremented, Decremented

\* Counting the message and returning.
LEMMA EnqCountIInv == ASSUME IInv, NEW p \in Procs, EnqCount(p) PROVE IInv'
<1>1. SharedOK' /\ HistoryOK'
  BY CountType, LockType
  DEF EnqCount, Return, IInv, TypeOK, SharedOK, HistoryOK, history, bounds
<1>2. head' <= SegSize /\ tail' = tail /\ nextId' = nextId
  BY DEF EnqCount, IInv, IndicesInSeg, history
<1>3. QED BY <1>1, <1>2, Leaves DEF EnqCount, Return

\* A producer enters only when it is alone on its side (Acquire).
LEMMA ProduceIInv ==
  ASSUME IInv, NEW p \in Producers, NEW len \in Lens, Produce(p, len)
  PROVE  IInv'
<1> DEFINE r == [loc[p] EXCEPT !.m = [id |-> 0, len |-> len]]
<1>1. p \in Procs
  BY DEF Procs
<1>2. r \in Local /\ r.m.len = len /\ r.h = loc[p].h /\ r.t = loc[p].t
  <2>1. [id |-> 0, len |-> len] \in [id : 0..MaxMsgs, len : Lens \cup {0}]
    BY BoundAssumption
  <2>2. loc[p] \in Local
    BY <1>1 DEF IInv, TypeOK, LocOK
  <2>3. QED BY <2>1, <2>2 DEF Local
<1>3. loc' = [loc EXCEPT ![p] = r]
  BY DEF Produce
<1> HIDE DEF r
<1>4. OnlyMoves(p) /\ pc'[p] = "enqHead" /\ loc'[p] = r
  <2>1. /\ pc' \in [Procs -> Labels] /\ pc'[p] = "enqHead"
        /\ loc' \in [Procs -> Local] /\ loc'[p] = r
        /\ \A q \in Procs \ {p} : pc'[q] = pc[q] /\ loc'[q] = loc[q]
    BY <1>1, <1>2, <1>3
    DEF Produce, Goto, IInv, TypeOK, PcOK, LocOK, Labels, EnqLabels
  <2>2. QED BY <2>1 DEF Produce, OnlyMoves, EnqLabels, DeqLabels
<1>5. SharedOK' /\ HistoryOK'
  BY <1>1, LockType
  DEF Produce, IInv, TypeOK, SharedOK, HistoryOK, shared, history, bounds
<1>6. IndicesMove(p)
  BY <1>1, <1>2, <1>4 DEF Produce, IInv, IndicesInSeg, IndicesMove, shared, history
<1>7. LocalsOK(p)'
  BY <1>2, <1>4
  DEF Produce, LocalsOK, Starting, Writing, Publishing, Reading, history
<1>8. QED BY <1>1, <1>4, <1>5, <1>6, <1>7, OneProcess

\* A consumer enters only when it is alone on its side (Acquire).
LEMMA ComsumeIInv == ASSUME IInv, NEW p \in Consumers, Comsume(p) PROVE IInv'
<1>1. p \in Procs /\ p \notin Producers
  BY ProcsAssumption DEF Procs
<1>2. CASE UNCHANGED <<lock, pc>>
  BY <1>2
  DEF Comsume, shared, history, bounds, IInv, TypeOK, SharedOK, PcOK, LocOK,
      HistoryOK, LockHeld, InCall, IndicesInSeg, Starting, Writing, Publishing,
      Reading, NoCheck
<1>3. CASE Acquire(p) /\ Goto(p, "deqHead")
  <2>1. OnlyMoves(p) /\ pc'[p] = "deqHead" /\ loc'[p] = loc[p]
    <3>1. /\ pc' \in [Procs -> Labels] /\ pc'[p] = "deqHead"
          /\ loc' \in [Procs -> Local] /\ loc' = loc
          /\ \A q \in Procs \ {p} : pc'[q] = pc[q]
      BY <1>1, <1>3 DEF Comsume, Goto, IInv, TypeOK, PcOK, LocOK, Labels, DeqLabels
    <3>2. QED BY <1>3, <3>1 DEF OnlyMoves, EnqLabels, DeqLabels
  <2>2. SharedOK' /\ HistoryOK'
    BY <1>1, <1>3, LockType
    DEF Comsume, IInv, TypeOK, SharedOK, HistoryOK, shared, history, bounds
  <2>3. IndicesMove(p)
    BY <1>1, <2>1
    DEF Comsume, IInv, IndicesInSeg, IndicesMove, shared, history
  <2>4. LocalsOK(p)'
    BY <2>1 DEF LocalsOK, Starting, Writing, Publishing, Reading
  <2>5. QED BY <1>1, <2>1, <2>2, <2>3, <2>4, OneProcess
<1>4. QED BY <1>2, <1>3 DEF Comsume

\* Loading head: the copy is an index that the segment has.
LEMMA DeqHeadLoadIInv == ASSUME IInv, NEW p \in Procs, DeqHeadLoad(p) PROVE IInv'
<1>1. OnlyMoves(p) /\ pc'[p] = "deqTail" /\ loc'[p] = [loc[p] EXCEPT !.h = head]
  <2>1. [loc[p] EXCEPT !.h = head] \in Local
    BY DEF IInv, TypeOK, SharedOK, LocOK, Local
  <2>2. QED
    BY <2>1, GoesOn DEF DeqHeadLoad, InCall, Labels, CallLabels, EnqLabels, DeqLabels
<1>2. SharedOK' /\ HistoryOK'
  BY DEF DeqHeadLoad, IInv, TypeOK, SharedOK, HistoryOK, shared, history, bounds
<1>3. IndicesMove(p)
  BY <1>1
  DEF DeqHeadLoad, IInv, TypeOK, LocOK, Local, IndicesInSeg, IndicesMove, shared, history
<1>4. LocalsOK(p)'
  BY <1>1 DEF LocalsOK, Starting, Writing, Publishing, Reading
<1>5. QED BY <1>1, <1>2, <1>3, <1>4, OneProcess

\* dequeue loads tail: check fails, or the queue is empty, or it goes on.
LEMMA DeqTailLoadIInv == ASSUME IInv, NEW p \in Procs, DeqTailLoad(p) PROVE IInv'
<1> DEFINE r == [loc[p] EXCEPT !.t = tail]
<1>1. SharedOK' /\ HistoryOK'
  BY LockType
  DEF DeqTailLoad, Return, IInv, TypeOK, SharedOK, HistoryOK, shared, history, bounds
<1>2. head' = head /\ tail' = tail /\ nextId' = nextId /\ pc[p] = "deqTail"
  BY DEF DeqTailLoad, shared, history
<1>3. CASE ~Valid(p, loc[p].h, tail) /\ Goto(p, "check") /\ UNCHANGED <<loc, lock>>
  <2>1. OnlyMoves(p) /\ pc'[p] = "check" /\ loc'[p] = loc[p]
    BY <1>2, <1>3, GoesOnSame DEF InCall, Labels, CallLabels, EnqLabels, DeqLabels
  <2>2. IndicesMove(p)
    BY <1>2, <2>1 DEF IInv, IndicesInSeg, IndicesMove
  <2>3. ~FullSize(p)
    BY <1>3 DEF Valid, FullSize, IInv, IndicesInSeg
  <2>4. LocalsOK(p)'
    BY <2>1 DEF LocalsOK, Starting, Writing, Publishing, Reading
  <2>5. QED BY <1>1, <2>1, <2>2, <2>3, <2>4, OneProcess
<1>4. CASE Return(p)
  <2>1. head' <= SegSize
    BY <1>2 DEF IInv, IndicesInSeg
  <2>2. QED BY <1>1, <1>2, <1>4, <2>1, Leaves DEF Return
<1>5. CASE /\ Valid(p, loc[p].h, tail)
           /\ loc[p].h # tail
           /\ loc' = [loc EXCEPT ![p].t = tail]
           /\ Goto(p, "deqCount")
           /\ UNCHANGED lock
  <2>1. r \in Local /\ r.h = loc[p].h /\ r.t = tail
    BY DEF IInv, TypeOK, SharedOK, LocOK, Local
  <2>2. OnlyMoves(p) /\ pc'[p] = "deqCount" /\ loc'[p] = r
    BY <1>2, <1>5, <2>1, GoesOn DEF InCall, Labels, CallLabels, EnqLabels, DeqLabels
  <2> HIDE DEF r
  <2>3. IndicesMove(p)
    BY <1>2, <2>1, <2>2 DEF IInv, IndicesInSeg, IndicesMove
  <2>4. LocalsOK(p)'
    BY <1>5, <2>1, <2>2 DEF Valid, LocalsOK, Starting, Writing, Publishing, Reading
  <2>5. QED BY <1>1, <2>2, <2>3, <2>4, OneProcess
<1>6. QED BY <1>3, <1>4, <1>5 DEF DeqTailLoad

\* Counting a message off.
LEMMA DeqCountIInv == ASSUME IInv, NEW p \in Procs, DeqCount(p) PROVE IInv'
<1>1. OnlyMoves(p) /\ pc'[p] = "deqHeader" /\ loc'[p] = loc[p]
  BY GoesOnSame DEF DeqCount, InCall, Labels, CallLabels, EnqLabels, DeqLabels
<1>2. SharedOK' /\ HistoryOK'
  BY CountType DEF DeqCount, IInv, TypeOK, SharedOK, HistoryOK, history, bounds
<1>3. IndicesMove(p)
  BY <1>1 DEF DeqCount, IInv, IndicesInSeg, IndicesMove, history
<1>4. LocalsOK(p)'
  BY <1>1 DEF DeqCount, IInv, LocalsOK, Starting, Writing, Publishing, Reading
<1>5. QED BY <1>1, <1>2, <1>3, <1>4, OneProcess

\* A length field decodes to a natural number, whatever its bytes are.
LEMMA DecodedType == ASSUME NEW hdr, NEW n \in Decoded(hdr) PROVE n \in Nat
<1> DEFINE Spells(len) ==
      \A j \in 0..(MSG_HEAD_SIZE - 1) : hdr[MSG_MAGIC_NUM_LEN + j] = LenByte(j, len)
<1>1. \A x \in {TotalLen(len) : len \in {y \in Lens : Spells(y)}} : x \in Nat
  BY Sizes
<1>2. \A x \in {0} \cup (0..(SegSize + 1)) : x \in Nat
  OBVIOUS
<1>3. QED BY <1>1, <1>2 DEF Decoded

\* dequeue examines the header: the tests fail and it checks again, or the buffer
\* is too small and it returns, or what it will copy lies in the used bytes.
LEMMA DeqHeaderIInv == ASSUME IInv, NEW p \in Procs, DeqHeader(p) PROVE IInv'
<1> DEFINE used == UsedLen(blockSize[p], loc[p].h, loc[p].t)
<1>1. SharedOK' /\ HistoryOK'
  BY LockType
  DEF DeqHeader, Return, IInv, TypeOK, SharedOK, HistoryOK, shared, history, bounds
<1>2. head' = head /\ tail' = tail /\ nextId' = nextId /\ pc[p] = "deqHeader"
  BY DEF DeqHeader, shared, history
<1>3. CASE Goto(p, "reCheck") /\ UNCHANGED <<loc, lock>>
  <2>1. OnlyMoves(p) /\ pc'[p] = "reCheck" /\ loc'[p] = loc[p]
    BY <1>2, <1>3, GoesOnSame DEF InCall, Labels, CallLabels, EnqLabels, DeqLabels
  <2>2. IndicesMove(p)
    BY <1>2, <2>1 DEF IInv, IndicesInSeg, IndicesMove
  <2>3. LocalsOK(p)'
    BY <2>1 DEF LocalsOK, Starting, Writing, Publishing, Reading
  <2>4. QED BY <1>1, <2>1, <2>2, <2>3, OneProcess
<1>4. CASE Return(p)
  <2>1. head' <= SegSize
    BY <1>2 DEF IInv, IndicesInSeg
  <2>2. QED BY <1>1, <1>2, <1>4, <2>1, Leaves DEF Return
<1>5. ASSUME NEW n \in Nat, n >= HeaderLen, n <= used,
             loc' = [loc EXCEPT ![p].n = n - HeaderLen],
             Goto(p, "deqCopy"), UNCHANGED lock
      PROVE  IInv'
  <2> DEFINE r == [loc[p] EXCEPT !.n = n - HeaderLen]
  <2>1. loc[p] \in Local
    BY DEF IInv, TypeOK, LocOK
  <2>2. n - HeaderLen \in Nat /\ (n - HeaderLen) + HeaderLen = n
    BY <1>5, Sizes
  <2>3. /\ r \in Local /\ r.h = loc[p].h /\ r.t = loc[p].t
        /\ r.n = n - HeaderLen
    BY <2>1, <2>2 DEF Local
  <2>4. OnlyMoves(p) /\ pc'[p] = "deqCopy" /\ loc'[p] = r
    BY <1>2, <1>5, <2>3, GoesOn DEF InCall, Labels, CallLabels, EnqLabels, DeqLabels
  <2> HIDE DEF r
  <2>5. IndicesMove(p)
    BY <1>2, <2>3, <2>4 DEF IInv, IndicesInSeg, IndicesMove
  <2>6. LocalsOK(p)'
    <3>1. /\ loc[p].h <= blockSize[p] /\ loc[p].t <= blockSize[p]
          /\ loc[p].h # loc[p].t
      BY <1>2 DEF IInv, Reading
    <3>2. QED
      BY <1>5, <2>2, <2>3, <2>4, <3>1
      DEF LocalsOK, Starting, Writing, Publishing, Reading
  <2>7. QED BY <1>1, <2>4, <2>5, <2>6, OneProcess
<1>6. QED BY <1>3, <1>4, <1>5, DecodedType DEF DeqHeader

\* The used bytes of two different indices fit the block.
LEMMA UsedInBlock ==
  ASSUME NEW B \in Nat, NEW h \in 0..B, NEW t \in 0..B, h # t
  PROVE  UsedLen(B, h, t) \in 0..B
BY DEF UsedLen

\* Copying n bytes behind a header, n and the header within the block, stays in
\* the block, and so does the head that dequeue then stores.
LEMMA CopyInBlock ==
  ASSUME NEW B \in Nat, NEW h \in 0..B, NEW n \in Nat, n + HeaderLen <= B
  PROVE  /\ \A i \in 0..(n - 1) : BodyPos(B, HeaderEnd(B, h), n, i) \in 0..(B - 1)
         /\ DeqHead(B, HeaderEnd(B, h), n) \in 0..B
<1>1. HeaderEnd(B, h) \in 0..B
  BY Sizes DEF HeaderEnd
<1>2. QED BY <1>1, Sizes DEF BodyPos, DeqHead

\* What Reading says of a dequeue that copies, in terms of the block.
LEMMA ReadingInBlock ==
  ASSUME IInv, NEW p \in Procs, pc[p] \in {"deqCopy", "deqStore"}
  PROVE  /\ blockSize[p] \in Nat /\ blockSize[p] <= SegSize
         /\ loc[p].h \in 0..blockSize[p]
         /\ loc[p].n \in Nat
         /\ loc[p].n + HeaderLen <= blockSize[p]
<1>1. loc[p].h \in Nat /\ loc[p].t \in Nat /\ loc[p].n \in Nat
  BY LocalFields DEF IInv, TypeOK, LocOK
<1>2. blockSize[p] \in Nat /\ blockSize[p] <= SegSize
  BY Sizes
<1>3. /\ loc[p].h <= blockSize[p] /\ loc[p].t <= blockSize[p]
      /\ loc[p].h # loc[p].t
      /\ loc[p].n + HeaderLen <= UsedLen(blockSize[p], loc[p].h, loc[p].t)
  BY DEF IInv, Reading
<1>4. UsedLen(blockSize[p], loc[p].h, loc[p].t) \in 0..blockSize[p]
  BY <1>1, <1>2, <1>3, UsedInBlock
<1>5. QED BY <1>1, <1>2, <1>3, <1>4, Sizes

\* The bytes that are copied are bytes of the segment, so the buffer holds bytes.
LEMMA DeqCopyIInv == ASSUME IInv, NEW p \in Procs, DeqCopy(p) PROVE IInv'
<1> DEFINE b == BodyBytes(blockSize[p], loc[p].h, loc[p].n)
           r == [loc[p] EXCEPT !.buf = b]
<1>1. pc[p] = "deqCopy"
  BY DEF DeqCopy
<1>2. b \in [0..(SegSize - 1) -> Byte]
  <2>1. ASSUME NEW i \in 0..(SegSize - 1), i < loc[p].n
        PROVE  mem[BodyPos(blockSize[p], HeaderEnd(blockSize[p], loc[p].h), loc[p].n, i)]
                 \in Byte
    <3>1. BodyPos(blockSize[p], HeaderEnd(blockSize[p], loc[p].h), loc[p].n, i)
            \in 0..(blockSize[p] - 1)
      <4>1. i \in 0..(loc[p].n - 1)
        BY <1>1, <2>1, ReadingInBlock
      <4>2. QED BY <1>1, <4>1, ReadingInBlock, CopyInBlock
    <3>2. mem \in [0..(SegSize - 1) -> Byte]
      BY DEF IInv, TypeOK, SharedOK
    <3>3. QED BY <1>1, <3>1, <3>2, ReadingInBlock, Sizes
  <2>2. Zero \in Byte
    BY DEF Byte
  <2>3. QED BY <2>1, <2>2 DEF BodyBytes
<1>3. loc[p] \in Local
  BY DEF IInv, TypeOK, LocOK
<1> HIDE DEF b
<1>4. /\ r \in Local /\ r.h = loc[p].h /\ r.t = loc[p].t
      /\ r.n = loc[p].n
  BY <1>2, <1>3 DEF Local
<1>5. OnlyMoves(p) /\ pc'[p] = "deqStore" /\ loc'[p] = r
  BY <1>4, GoesOn DEF DeqCopy, b, InCall, Labels, CallLabels, EnqLabels, DeqLabels
<1>6. SharedOK' /\ HistoryOK'
  BY DEF DeqCopy, IInv, TypeOK, SharedOK, HistoryOK, shared, history, bounds
<1>7. IndicesMove(p)
  BY <1>4, <1>5 DEF DeqCopy, IInv, IndicesInSeg, IndicesMove, shared, history
<1>8. LocalsOK(p)'
  <2> HIDE DEF r
  <2>1. QED
    BY <1>1, <1>4, <1>5 DEF IInv, LocalsOK, Starting, Writing, Publishing, Reading
<1>9. QED BY <1>5, <1>6, <1>7, <1>8, OneProcess

\* A message with its trailing magic number has an identity and a length.
LEMMA DeliveredType ==
  ASSUME NEW buf, NEW n \in Nat, TrailerOk(buf, n)
  PROVE  Delivered(buf, n) \in [id : 0..MaxMsgs, len : Nat]
<1>1. n - MSG_MAGIC_NUM_LEN \in Nat
  BY Sizes DEF TrailerOk
<1>2. QED BY <1>1, BoundAssumption DEF Delivered, Torn

\* dequeue stores head.
LEMMA DeqStoreIInv == ASSUME IInv, NEW p \in Procs, DeqStore(p) PROVE IInv'
<1> DEFINE n == loc[p].n
<1>1. pc[p] = "deqStore" /\ tail' = tail /\ nextId' = nextId
  BY DEF DeqStore
<1>2. head' \in Nat /\ head' <= SegSize
  <2>1. DeqHead(blockSize[p], HeaderEnd(blockSize[p], loc[p].h), n) \in 0..blockSize[p]
    BY <1>1, ReadingInBlock, CopyInBlock
  <2>2. QED BY <1>1, <2>1, Sizes DEF DeqStore
<1>3. SharedOK'
  BY <1>2 DEF DeqStore, IInv, TypeOK, SharedOK
<1>4. HistoryOK'
  <2>1. CASE TrailerOk(loc[p].buf, n)
    <3>1. Delivered(loc[p].buf, n) \in [id : 0..MaxMsgs, len : Nat]
      BY <1>1, <2>1, ReadingInBlock, DeliveredType
    <3>2. deq' = Append(deq, Delivered(loc[p].buf, n))
      BY <2>1 DEF DeqStore
    <3>3. UNCHANGED <<nextId, enq, got, clears, crashes>>
      BY DEF DeqStore, bounds
    <3>4. QED BY <3>1, <3>2, <3>3 DEF IInv, TypeOK, HistoryOK
  <2>2. CASE ~TrailerOk(loc[p].buf, n)
    BY <2>2 DEF DeqStore, IInv, TypeOK, HistoryOK, bounds
  <2>3. QED BY <2>1, <2>2
<1>5. OnlyMoves(p) /\ pc'[p] = "deqTrailer" /\ loc'[p] = loc[p]
  BY <1>1, GoesOnSame DEF DeqStore, InCall, Labels, CallLabels, EnqLabels, DeqLabels
<1>6. IndicesMove(p)
  BY <1>1, <1>2, <1>5 DEF IInv, IndicesInSeg, IndicesMove
<1>7. LocalsOK(p)'
  BY <1>5 DEF LocalsOK, Starting, Writing, Publishing, Reading
<1>8. QED BY <1>3, <1>4, <1>5, <1>6, <1>7, OneProcess

\* dequeue returns the message, or goes on to check.
LEMMA DeqTrailerIInv == ASSUME IInv, NEW p \in Procs, DeqTrailer(p) PROVE IInv'
<1> DEFINE n == loc[p].n
<1>1. pc[p] = "deqTrailer" /\ UNCHANGED <<shared, nextId, enq, deq, bounds>>
  BY DEF DeqTrailer
<1>2. head' \in Nat /\ head' <= SegSize /\ tail' = tail
  BY <1>1 DEF shared, IInv, TypeOK, SharedOK, IndicesInSeg
<1>3. SharedOK'
  BY <1>1, LockType DEF DeqTrailer, Return, IInv, TypeOK, SharedOK, shared
<1>4. CASE /\ TrailerOk(loc[p].buf, n)
           /\ got' = Append(got, Delivered(loc[p].buf, n))
           /\ Return(p)
  <2>1. Delivered(loc[p].buf, n) \in [id : 0..MaxMsgs, len : Nat]
    <3>1. n \in Nat
      BY LocalFields DEF IInv, TypeOK, LocOK
    <3>2. QED BY <1>4, <3>1, DeliveredType
  <2>2. HistoryOK'
    BY <1>1, <1>4, <2>1 DEF IInv, TypeOK, HistoryOK, bounds
  <2>3. QED BY <1>1, <1>2, <1>3, <1>4, <2>2, Leaves DEF Return
<1>5. CASE Goto(p, "reCheck") /\ UNCHANGED <<lock, loc, got>>
  <2>1. OnlyMoves(p) /\ pc'[p] = "reCheck" /\ loc'[p] = loc[p]
    BY <1>1, <1>5, GoesOnSame DEF InCall, Labels, CallLabels, EnqLabels, DeqLabels
  <2>2. HistoryOK'
    BY <1>1, <1>5 DEF IInv, TypeOK, HistoryOK, bounds
  <2>3. IndicesMove(p)
    BY <1>1, <1>2, <2>1 DEF IInv, IndicesInSeg, IndicesMove
  <2>4. LocalsOK(p)'
    BY <2>1 DEF LocalsOK, Starting, Writing, Publishing, Reading
  <2>5. QED BY <1>3, <2>1, <2>2, <2>3, <2>4, OneProcess
<1>6. QED BY <1>4, <1>5 DEF DeqTrailer

\* Loading one of the arguments of check.
LEMMA ReCheckIInv == ASSUME IInv, NEW p \in Procs, ReCheck(p) PROVE IInv'
<1>1. SharedOK' /\ HistoryOK'
  BY DEF ReCheck, IInv, TypeOK, SharedOK, HistoryOK, shared, history, bounds
<1>2. ASSUME NEW r \in Local, r.h <= SegSize, r.t <= SegSize,
             NEW l \in {"reTail", "reHead"},
             loc' = [loc EXCEPT ![p] = r], Goto(p, l)
      PROVE  IInv'
  <2>1. OnlyMoves(p) /\ pc'[p] = l /\ loc'[p] = r
    BY <1>2, GoesOn DEF ReCheck, InCall, Labels, CallLabels, EnqLabels, DeqLabels
  <2>2. IndicesMove(p)
    BY <1>2, <2>1 DEF ReCheck, IInv, IndicesInSeg, IndicesMove, shared, history
  <2>3. LocalsOK(p)'
    BY <2>1 DEF LocalsOK, Starting, Writing, Publishing, Reading
  <2>4. QED BY <1>1, <2>1, <2>2, <2>3, OneProcess
<1>3. /\ [loc[p] EXCEPT !.h = head] \in Local
      /\ [loc[p] EXCEPT !.h = head].h <= SegSize
      /\ [loc[p] EXCEPT !.h = head].t <= SegSize
  BY DEF IInv, TypeOK, SharedOK, LocOK, Local, IndicesInSeg
<1>4. /\ [loc[p] EXCEPT !.t = tail] \in Local
      /\ [loc[p] EXCEPT !.t = tail].h <= SegSize
      /\ [loc[p] EXCEPT !.t = tail].t <= SegSize
  BY DEF IInv, TypeOK, SharedOK, LocOK, Local, IndicesInSeg
<1>5. QED BY <1>2, <1>3, <1>4 DEF ReCheck

\* With the segment's size both indices are valid, so check does not fail.
LEMMA ReLoadIInv ==
  ASSUME IInv, NEW p \in Procs, NEW label, NEW h, NEW t,
         label \in {"reTail", "reHead"}, h <= SegSize, t <= SegSize,
         ReLoad(p, label, h, t)
  PROVE  IInv'
<1>1. PICK l \in {"clrPid", "check"} :
        Goto(p, l) /\ (l = "check" => ~Valid(p, h, t))
  BY DEF ReLoad
<1>2. OnlyMoves(p) /\ pc'[p] = l /\ loc'[p] = loc[p]
  BY <1>1, GoesOnSame
  DEF ReLoad, InCall, Labels, CallLabels, EnqLabels, DeqLabels, ClrLabels
<1>3. SharedOK' /\ HistoryOK'
  BY DEF ReLoad, IInv, TypeOK, SharedOK, HistoryOK, shared, history, bounds
<1>4. IndicesMove(p)
  BY <1>2 DEF ReLoad, IInv, IndicesInSeg, IndicesMove, shared, history
<1>5. LocalsOK(p)'
  BY <1>2 DEF LocalsOK, Starting, Writing, Publishing, Reading
<1>6. FullSize(p) => l # "check"
  BY <1>1 DEF Valid, FullSize
<1>7. QED BY <1>2, <1>3, <1>4, <1>5, <1>6, OneProcess

\* check tests the pid word.
LEMMA CheckIInv == ASSUME IInv, NEW p \in Procs, Check(p) PROVE IInv'
<1>1. PICK l \in {"clrPid", "checkProc"} : Goto(p, l)
  BY DEF Check
<1>2. OnlyMoves(p) /\ pc'[p] = l /\ loc'[p] = loc[p]
  BY <1>1, GoesOnSame
  DEF Check, InCall, Labels, CallLabels, EnqLabels, DeqLabels, ClrLabels
<1>3. SharedOK' /\ HistoryOK'
  BY DEF Check, IInv, TypeOK, SharedOK, HistoryOK, shared, history, bounds
<1>4. IndicesMove(p)
  BY <1>2 DEF Check, IInv, IndicesInSeg, IndicesMove, shared, history
<1>5. LocalsOK(p)'
  BY <1>2 DEF LocalsOK, Starting, Writing, Publishing, Reading
<1>6. ~FullSize(p)
  BY DEF Check, IInv, NoCheck
<1>7. QED BY <1>2, <1>3, <1>4, <1>5, <1>6, OneProcess

\* check asks for the process that the pid word names.
LEMMA CheckProcIInv == ASSUME IInv, NEW p \in Procs, CheckProc(p) PROVE IInv'
<1>1. SharedOK' /\ HistoryOK'
  BY LockType
  DEF CheckProc, Return, IInv, TypeOK, SharedOK, HistoryOK, shared, history, bounds
<1>2. head' = head /\ tail' = tail /\ nextId' = nextId /\ pc[p] = "checkProc"
  BY DEF CheckProc, shared, history
<1>3. CASE Goto(p, "clrPid") /\ UNCHANGED <<loc, lock>>
  <2>1. OnlyMoves(p) /\ pc'[p] = "clrPid" /\ loc'[p] = loc[p]
    BY <1>2, <1>3, GoesOnSame
    DEF InCall, Labels, CallLabels, EnqLabels, DeqLabels, ClrLabels
  <2>2. IndicesMove(p)
    BY <1>2, <2>1 DEF IInv, IndicesInSeg, IndicesMove
  <2>3. LocalsOK(p)'
    BY <2>1 DEF LocalsOK, Starting, Writing, Publishing, Reading
  <2>4. QED BY <1>1, <2>1, <2>2, <2>3, OneProcess
<1>4. CASE Return(p)
  <2>1. head' <= SegSize
    BY <1>2 DEF IInv, IndicesInSeg
  <2>2. QED BY <1>1, <1>2, <1>4, <2>1, Leaves DEF Return
<1>5. QED BY <1>3, <1>4 DEF CheckProc

\* Loading the other argument, head.
LEMMA ReHeadIInv == ASSUME IInv, NEW p \in Procs, ReHead(p) PROVE IInv'
<1>1. head <= SegSize /\ loc[p].t <= SegSize
  BY DEF IInv, IndicesInSeg
<1>2. ReLoad(p, "reHead", head, loc[p].t)
  BY DEF ReHead
<1>3. QED BY <1>1, <1>2, ReLoadIInv

\* Loading the other argument, tail.
LEMMA ReTailIInv == ASSUME IInv, NEW p \in Procs, ReTail(p) PROVE IInv'
<1>1. loc[p].h <= SegSize /\ tail <= SegSize
  BY DEF IInv, IndicesInSeg
<1>2. ReLoad(p, "reTail", loc[p].h, tail)
  BY DEF ReTail
<1>3. QED BY <1>1, <1>2, ReLoadIInv

\* A clear enters only when it is alone on its side (Acquire).
LEMMA ClearMQIInv == ASSUME IInv, NEW p \in Procs, ClearMQ(p) PROVE IInv'
<1>1. OnlyMoves(p) /\ pc'[p] = "clrPid" /\ loc'[p] = loc[p]
  <2>1. /\ pc' \in [Procs -> Labels] /\ pc'[p] = "clrPid"
        /\ loc' \in [Procs -> Local] /\ loc' = loc
        /\ \A q \in Procs \ {p} : pc'[q] = pc[q]
    BY DEF ClearMQ, Goto, IInv, TypeOK, PcOK, LocOK, Labels, ClrLabels
  <2>2. QED BY <2>1 DEF ClearMQ, OnlyMoves, EnqLabels, DeqLabels
<1>2. SharedOK' /\ HistoryOK'
  BY LockType, BoundAssumption
  DEF ClearMQ, IInv, TypeOK, SharedOK, HistoryOK, shared, history
<1>3. IndicesMove(p)
  BY <1>1 DEF ClearMQ, IInv, IndicesInSeg, IndicesMove, shared, history
<1>4. LocalsOK(p)'
  BY <1>1 DEF LocalsOK, Starting, Writing, Publishing, Reading
<1>5. QED BY <1>1, <1>2, <1>3, <1>4, OneProcess

\* The stores of clearMQ and of init leave head and tail alone or set them to 0.
LEMMA StoresIInv ==
  ASSUME IInv, NEW p \in Procs,
         \/ Attach(p) \/ InitMemset(p) \/ InitPid(p)
         \/ ClrPid(p) \/ ClrHead(p) \/ ClrTail(p) \/ ClrCount(p)
  PROVE  IInv'
<1>1. PICK l \in {"memset", "initPid", "idle", "clrHead", "clrTail", "clrCount", "clrDone"} :
        Goto(p, l) /\ (l \in CallLabels => InCall(p))
  BY DEF Attach, InitMemset, InitPid, ClrPid, ClrHead, ClrTail, ClrCount,
         InCall, CallLabels, Labels, ClrLabels
<1>2. loc' = loc /\ lock' = lock /\ nextId' = nextId
  BY DEF Attach, InitMemset, InitPid, ClrPid, ClrHead, ClrTail, ClrCount, history
<1>3. head' \in {0, head} /\ tail' \in {0, tail}
  BY DEF Attach, InitMemset, InitPid, ClrPid, ClrHead, ClrTail, ClrCount
<1>4. OnlyMoves(p) /\ pc'[p] = l /\ loc'[p] = loc[p]
  BY <1>1, <1>2, GoesOnSame DEF Labels, CallLabels, EnqLabels, DeqLabels, ClrLabels
<1>5. SharedOK'
  <2>1. 0 \in (-CountLimit)..(CountLimit - 1)
    BY Sizes
  <2>2. /\ mem' = mem /\ created' \in {created, TRUE}
        /\ msgCount' \in {msgCount, 0} /\ pid' \in {pid, p, NoProc}
    BY DEF Attach, InitMemset, InitPid, ClrPid, ClrHead, ClrTail, ClrCount
  <2>3. SharedOK
    BY DEF IInv, TypeOK
  <2>4. head' \in Nat /\ tail' \in Nat
    BY <1>3, <2>3 DEF SharedOK
  <2>5. msgCount' \in (-CountLimit)..(CountLimit - 1)
    BY <2>1, <2>2, <2>3 DEF SharedOK
  <2>6. QED BY <1>2, <2>2, <2>3, <2>4, <2>5 DEF SharedOK
<1>6. HistoryOK'
  BY DEF Attach, InitMemset, InitPid, ClrPid, ClrHead, ClrTail, ClrCount,
         IInv, TypeOK, HistoryOK, history, bounds
<1>7. IndicesMove(p)
  BY <1>2, <1>3, <1>4, Sizes DEF IInv, IndicesInSeg, IndicesMove
<1>8. LocalsOK(p)'
  BY <1>4 DEF LocalsOK, Starting, Writing, Publishing, Reading
<1>9. QED BY <1>4, <1>5, <1>6, <1>7, <1>8, OneProcess

\* The end of a clear.
LEMMA ClrDoneIInv == ASSUME IInv, NEW p \in Procs, ClrDone(p) PROVE IInv'
<1>1. SharedOK' /\ HistoryOK'
  BY LockType
  DEF ClrDone, Return, IInv, TypeOK, SharedOK, HistoryOK, history, bounds
<1>2. head' <= SegSize /\ tail' = tail /\ nextId' = nextId
  BY DEF ClrDone, IInv, IndicesInSeg, history
<1>3. QED BY <1>1, <1>2, Leaves DEF ClrDone, Return

\* A process that dies is in no call and holds no lock file.
LEMMA CrashIInv == ASSUME IInv, NEW p \in Procs, Crash(p) PROVE IInv'
<1>1. SharedOK' /\ HistoryOK'
  BY LockType, BoundAssumption
  DEF Crash, IInv, TypeOK, SharedOK, HistoryOK, shared, history
<1>2. head' <= SegSize /\ tail' = tail /\ nextId' = nextId
  BY DEF Crash, IInv, IndicesInSeg, shared, history
<1>3. QED BY <1>1, <1>2, Leaves DEF Crash

-------------------------------------------------------------------------------
(* The theorems.                                                           *)

\* Every step keeps the invariant.
LEMMA NextIInv == IInv /\ [Next]_vars => IInv'
<1> SUFFICES ASSUME IInv, [Next]_vars PROVE IInv'
  OBVIOUS
<1>1. ASSUME NEW p \in Procs, Step(p) PROVE IInv'
  BY <1>1, StoresIInv, EnqHeadIInv, EnqTailLoadIInv, EnqHeaderIInv, EnqBodyIInv,
     EnqReloadIInv, EnqStoreIInv, EnqCountIInv, DeqHeadLoadIInv, DeqTailLoadIInv,
     DeqCountIInv, DeqHeaderIInv, DeqCopyIInv, DeqStoreIInv, DeqTrailerIInv,
     ReCheckIInv, ReHeadIInv, ReTailIInv, CheckIInv, CheckProcIInv, ClrDoneIInv
  DEF Step
<1>2. CASE UNCHANGED vars
  BY <1>2
  DEF vars, shared, history, bounds, IInv, TypeOK, SharedOK, PcOK, LocOK, HistoryOK,
      LockHeld, InCall, IndicesInSeg, Starting, Writing, Publishing, Reading, NoCheck
<1>3. QED
  BY <1>1, <1>2, ProduceIInv, ComsumeIInv, ClearMQIInv, CrashIInv DEF Next

\* The inductive invariant holds in every reachable state: who is in a call is
\* alone on its side, and what it is about to write, publish or read lies in the
\* block that it attached to.
THEOREM Invariance == Spec => []IInv
<1>1. QED BY InitIInv, NextIInv, PTL DEF Spec

\* Every variable keeps its type, for every instance.
THEOREM TypeCorrect == Spec => []TypeOK
<1>1. IInv => TypeOK
  BY DEF IInv
<1>2. QED BY <1>1, Invariance, PTL

\* A process that attached with the segment's size never sees check fail: clears
\* that race with calls, and crashes, leave head and tail in the block, so the
\* repair by way of the pid word (check, lines 180-201) is never reached.
THEOREM IndicesStayInBlock == Spec => []CheckNeverFails
<1>1. IInv => CheckNeverFails
  BY DEF IInv, IndicesInSeg, NoCheck, CheckNeverFails
<1>2. QED BY <1>1, Invariance, PTL

\* No copy of enqueue or dequeue leaves the segment, whatever clears, crashes and
\* sizes the processes combine, for messages whose total length fits a uint32_t
\* (LengthAssumption).
THEOREM CopiesStayInSegment == Spec => []AccessInBlock
<1>1. IInv => AccessInBlock
  <2> SUFFICES ASSUME IInv, NEW p \in Procs
                 PROVE  /\ pc[p] \in {"enqHeader", "enqBody"} =>
                             \A i \in 0..(TotalLen(loc[p].m.len) - 1) :
                               EnqPos(blockSize[p], loc[p].t, loc[p].m.len, i)
                                 \in 0..(SegSize - 1)
                        /\ pc[p] = "deqHeader" =>
                             \A i \in 0..(HeaderLen - 1) :
                               HeaderPos(blockSize[p], loc[p].h, i) \in 0..(SegSize - 1)
                        /\ pc[p] = "deqCopy" =>
                             \A i \in 0..(loc[p].n - 1) :
                               BodyPos(blockSize[p], HeaderEnd(blockSize[p], loc[p].h),
                                       loc[p].n, i) \in 0..(SegSize - 1)
    BY DEF AccessInBlock
  <2> DEFINE B == blockSize[p]
  <2>2. B \in Nat /\ HeaderLen <= B /\ B <= SegSize
    BY Sizes
  <2>3. loc[p].h \in Nat /\ loc[p].t \in Nat /\ loc[p].m.len \in Nat
    <3>1. loc[p] \in Local
      BY DEF IInv, TypeOK, LocOK
    <3>2. QED BY <3>1, LocalFields
  <2>4. ASSUME pc[p] \in {"enqHeader", "enqBody"},
               NEW i \in 0..(TotalLen(loc[p].m.len) - 1)
        PROVE  EnqPos(B, loc[p].t, loc[p].m.len, i) \in 0..(SegSize - 1)
    <3>1. loc[p].t \in 0..B /\ TotalLen(loc[p].m.len) < B
      BY <2>2, <2>3, <2>4 DEF IInv, Writing
    <3>2. EnqPos(B, loc[p].t, loc[p].m.len, i) = Wrap(B, loc[p].t + i)
      BY <2>2, <2>3, <3>1, EnqPosIsRing
    <3>3. Wrap(B, loc[p].t + i) \in 0..(B - 1)
      <4>1. i \in Nat /\ i < B
        BY <2>2, <2>3, <3>1, LayoutAssumption DEF TotalLen
      <4>2. QED BY <2>2, <3>1, <4>1 DEF Wrap
    <3>4. QED BY <2>2, <3>2, <3>3, Sizes
  <2>5. ASSUME pc[p] = "deqHeader", NEW i \in 0..(HeaderLen - 1)
        PROVE  HeaderPos(B, loc[p].h, i) \in 0..(SegSize - 1)
    <3>1. loc[p].h <= B
      BY <2>5 DEF IInv, Reading
    <3>2. QED BY <2>2, <2>3, <3>1, Sizes DEF HeaderPos
  <2>6. ASSUME pc[p] = "deqCopy", NEW i \in 0..(loc[p].n - 1)
        PROVE  BodyPos(B, HeaderEnd(B, loc[p].h), loc[p].n, i) \in 0..(SegSize - 1)
    <3>1. BodyPos(B, HeaderEnd(B, loc[p].h), loc[p].n, i) \in 0..(B - 1)
      BY <2>6, ReadingInBlock, CopyInBlock
    <3>2. QED BY <2>2, <3>1, Sizes
  <2>7. QED BY <2>4, <2>5, <2>6
<1>2. QED BY <1>1, Invariance, PTL

-------------------------------------------------------------------------------
(* What the ring holds and delivers.                                       *)

\* What the theorems below assume of the constants, beside the assumptions of
\* ShmMQ.  The queue exists when the run begins (Booted) and nobody calls clear:
\* both reset the indices under processes that are inside calls, and the runs
\* mq_clear and mq_clear_race show what is lost then.  Every process attached with
\* the whole segment (FullSize), as init's one argument asks: mq_small_buffer is
\* about the others' buffers, mq_clear about their segments.  A message has data:
\* the model knows a message by the identity in its bytes, and an empty one has none.
FifoAssumption ==
  /\ Procs # {}
  /\ Booted
  /\ MaxClears = 0
  /\ \A p \in Procs : FullSize(p)
  /\ 0 \notin Lens

\* How many messages the ring holds, and the i-th of them.
Pending == Len(enq) - Len(deq)
Front(i) == enq[Len(deq) + i]

\* d[i] is the number of bytes that the first i messages take.  The last conjunct
\* follows from the second one by induction; it is kept as a part of the
\* invariant, because a step only adds an end or drops a front.
Offsets(d) ==
  /\ d[0] = 0
  /\ \A i \in 0..(Pending - 1) : d[i + 1] = d[i] + TotalLen(Front(i + 1).len)
  /\ \A i, j \in 0..Pending : i <= j => d[i] + (j - i) <= d[j]

\* Byte i of message m lies i bytes after x in the ring.
At(m, x, i) == mem[Wrap(SegSize, x + i)] = MsgByte(m, i)

\* Every byte of every pending message is in its place.
Laid(d) ==
  \A i \in 0..(Pending - 1) :
     \A j \in 0..(TotalLen(Front(i + 1).len) - 1) : At(Front(i + 1), head + d[i], j)

\* The bytes from head to tail spell the pending messages, one after the other,
\* and the indices are where their lengths say.
RingSpells ==
  \E d \in [0..Pending -> 0..(SegSize - 1)] :
    Offsets(d) /\ Laid(d) /\ tail = Boundary(SegSize, head + d[Pending])

\* The messages taken off the ring are the first ones of the messages published.
Histories ==
  /\ enq \in Seq(Message)
  /\ Len(deq) <= Len(enq)
  /\ \A i \in 1..Len(deq) : deq[i] = enq[i]

\* Whether a producer is between its store of tail and its increment, and whether
\* a consumer is between its decrement and its store of head.
Stored == IF \E p \in Procs : pc[p] = "enqCount" THEN 1 ELSE 0
TakenLabels == {"deqHeader", "deqCopy", "deqStore"}
Taken == IF \E p \in Procs : pc[p] \in TakenLabels THEN 1 ELSE 0

\* The counter is what the ring holds, less what is under way, or even less when
\* a process has crashed between a store and its count.
Counted ==
  /\ 0 <= msgCount
  /\ msgCount + Stored + Taken <= Pending

\* The steps of init, check, repair and clear that reset a queue in use.
NoRepairLabels == {"memset", "check", "checkProc", "reCheck", "reHead", "reTail"} \cup ClrLabels

\* What a producer knows inside enqueue: of its copies of the indices, of the
\* bytes written so far, and of the tail it is about to store.
Producing(p) ==
  /\ pc[p] = "enqTail" =>
       \E v \in 0..(SegSize - 1) : Used <= v /\ tail = Boundary(SegSize, loc[p].h + v)
  /\ pc[p] \in {"enqHeader", "enqBody", "enqReload", "enqStore"} =>
       /\ loc[p].t = tail
       /\ loc[p].m \in Message
       /\ Used + TotalLen(loc[p].m.len) < SegSize
  /\ pc[p] = "enqBody" =>
       \A i \in 0..(HeaderLen - 1) : At(loc[p].m, tail, i)
  /\ pc[p] \in {"enqReload", "enqStore"} =>
       \A i \in 0..(TotalLen(loc[p].m.len) - 1) : At(loc[p].m, tail, i)
  /\ pc[p] = "enqStore" =>
       loc[p].n = Boundary(SegSize, tail + TotalLen(loc[p].m.len))

\* What a consumer knows inside dequeue: there was a message when it read the
\* counter, there is one after the copies of the indices, the one it takes is the
\* first, and once it has stored head its copy is the last one taken.
Comsuming(p) ==
  /\ pc[p] \in {"deqHead", "deqTail", "deqCount"} => msgCount > 0
  /\ pc[p] \in {"deqTail", "deqCount", "deqHeader", "deqCopy", "deqStore"} =>
       loc[p].h = head
  /\ pc[p] \in {"deqCount", "deqHeader"} =>
       /\ Pending > 0
       /\ TotalLen(Front(1).len) <= UsedLen(SegSize, head, loc[p].t)
  /\ pc[p] \in {"deqCopy", "deqStore"} =>
       /\ Pending > 0
       /\ loc[p].n = TotalLen(Front(1).len) - HeaderLen
  /\ pc[p] = "deqStore" =>
       \A i \in 0..(loc[p].n - 1) : loc[p].buf[i] = MsgByte(Front(1), HeaderLen + i)
  /\ pc[p] = "deqTrailer" =>
       /\ Len(deq) > 0
       /\ TrailerOk(loc[p].buf, loc[p].n)
       /\ Delivered(loc[p].buf, loc[p].n) = deq[Len(deq)]

\* The invariant: with IInv of ShmMQProps it is inductive.
FInv ==
  /\ created
  /\ Histories
  /\ RingSpells
  /\ Counted
  /\ \A p \in Procs : pc[p] \notin NoRepairLabels
  /\ \A p \in Procs : Producing(p) /\ Comsuming(p)

-------------------------------------------------------------------------------
(* The ring and its offsets.                                               *)

\* The bytes between head and tail, from how far tail is ahead of head.
LEMMA UsedIs ==
  ASSUME head \in 0..SegSize, NEW u \in 0..(SegSize - 1),
         tail = Boundary(SegSize, head + u)
  PROVE  /\ Used = u
         /\ u > 0 => UsedLen(SegSize, head, tail) = u
         /\ tail \in 0..SegSize
BY SizeAssumption DEF Used, UsedLen, Boundary

\* The free bytes that enqueue computes from its copy of head.
LEMMA FreeIs ==
  ASSUME NEW h \in 0..SegSize, NEW v \in 0..(SegSize - 1), NEW t,
         t = Boundary(SegSize, h + v)
  PROVE  FreeLen(SegSize, h, t) = SegSize - v
BY SizeAssumption DEF FreeLen, Boundary

\* The lengths of a message.
LEMMA MessageLen ==
  ASSUME NEW m \in Message
  PROVE  /\ m.len \in Nat /\ TotalLen(m.len) \in Nat
         /\ HeaderLen + MSG_MAGIC_NUM_LEN <= TotalLen(m.len)
         /\ HeaderLen \in Nat \ {0}
<1>1. m.len \in Nat
  BY SizeAssumption DEF Message
<1>2. QED BY <1>1, LayoutAssumption DEF TotalLen, HeaderLen

\* The types that most steps below need.
LEMMA Shapes ==
  ASSUME IInv, FInv
  PROVE  /\ SegSize \in Nat /\ head \in 0..SegSize /\ tail \in 0..SegSize
         /\ Len(enq) \in Nat /\ Len(deq) \in Nat /\ Pending \in Nat
         /\ \A i \in 1..Pending : /\ Front(i) \in Message
                                  /\ Front(i).len \in Nat
                                  /\ TotalLen(Front(i).len) \in Nat
                                  /\ HeaderLen + MSG_MAGIC_NUM_LEN <= TotalLen(Front(i).len)
<1>1. SegSize \in Nat /\ head \in 0..SegSize /\ tail \in 0..SegSize
  BY SizeAssumption DEF IInv, TypeOK, SharedOK, IndicesInSeg
<1>2. enq \in Seq(Message) /\ Len(deq) <= Len(enq)
  BY DEF FInv, Histories
<1>3. Len(enq) \in Nat /\ Len(deq) \in Nat /\ Pending \in Nat
  <2>1. Len(enq) \in Nat
    BY <1>2
  <2>2. Len(deq) \in Nat
    BY DEF IInv, TypeOK, HistoryOK
  <2>3. QED BY <1>2, <2>1, <2>2 DEF Pending
<1>4. ASSUME NEW i \in 1..Pending PROVE Front(i) \in Message
  <2>1. Len(deq) + i \in 1..Len(enq)
    BY <1>3 DEF Pending
  <2>2. QED BY <1>2, <2>1 DEF Front
<1>5. QED BY <1>1, <1>3, <1>4, MessageLen

\* What the invariant says of the used bytes and of the first message.
LEMMA FirstMessage ==
  ASSUME IInv, FInv
  PROVE  /\ Used \in 0..(SegSize - 1)
         /\ tail = Boundary(SegSize, head + Used)
         /\ Pending <= Used
         /\ Used > 0 => Pending > 0 /\ UsedLen(SegSize, head, tail) = Used
         /\ Pending > 0 =>
              /\ TotalLen(Front(1).len) <= Used
              /\ \A j \in 0..(TotalLen(Front(1).len) - 1) : At(Front(1), head, j)
<1>1. PICK d \in [0..Pending -> 0..(SegSize - 1)] :
        Offsets(d) /\ Laid(d) /\ tail = Boundary(SegSize, head + d[Pending])
  BY DEF FInv, RingSpells
<1>2. Pending \in Nat /\ SegSize \in Nat /\ head \in 0..SegSize
  BY Shapes
<1>3. d[Pending] \in 0..(SegSize - 1) /\ d[0] = 0 /\ Pending <= d[Pending]
  <2>1. 0 \in 0..Pending /\ Pending \in 0..Pending
    BY <1>2
  <2>2. d[0] + (Pending - 0) <= d[Pending]
    BY <1>1, <1>2, <2>1 DEF Offsets
  <2>3. QED BY <1>1, <1>2, <2>1, <2>2 DEF Offsets
<1>4. /\ Used = d[Pending]
      /\ d[Pending] > 0 => UsedLen(SegSize, head, tail) = d[Pending]
  BY <1>1, <1>2, <1>3, UsedIs
<1>5. ASSUME Pending > 0
      PROVE  /\ TotalLen(Front(1).len) <= Used
             /\ \A j \in 0..(TotalLen(Front(1).len) - 1) : At(Front(1), head, j)
  <2>1. 0 \in 0..(Pending - 1) /\ 1 \in 0..Pending /\ Pending \in 0..Pending /\ 0 + 1 = 1
    BY <1>2, <1>5
  <2>2. d[1] = d[0] + TotalLen(Front(1).len)
    BY <1>1, <2>1 DEF Offsets
  <2>3. d[1] + (Pending - 1) <= d[Pending]
    BY <1>1, <1>2, <1>5, <2>1 DEF Offsets
  <2>4. TotalLen(Front(1).len) \in Nat
    BY <1>2, <1>5, Shapes
  <2>5. TotalLen(Front(1).len) <= Used
    BY <1>2, <1>3, <1>4, <1>5, <2>2, <2>3, <2>4
  <2>6. \A j \in 0..(TotalLen(Front(1).len) - 1) : At(Front(1), head + d[0], j)
    BY <1>1, <2>1 DEF Laid
  <2>7. head + d[0] = head
    BY <1>2, <1>3
  <2>8. QED BY <2>5, <2>6, <2>7
<1>6. Used > 0 => Pending > 0
  <2>1. Pending = 0 => Used = 0
    BY <1>3, <1>4
  <2>2. QED BY <1>2, <2>1
<1>7. QED BY <1>1, <1>3, <1>4, <1>5, <1>6

-------------------------------------------------------------------------------
(* What a step of process p leaves alone.                                  *)

\* A step of p moves nobody else.
OnlyP(p) == \A q \in Procs \ {p} : pc'[q] = pc[q] /\ loc'[q] = loc[q]

\* While a consumer is in a call no other process is inside dequeue, and while a
\* producer is, no other is inside enqueue.
LEMMA OthersAway ==
  ASSUME IInv, NEW p \in Procs, InCall(p), NEW q \in Procs \ {p}
  PROVE  /\ p \in Consumers => pc[q] \notin DeqLabels
         /\ p \in Producers => pc[q] \notin EnqLabels
<1>1. TypeOK /\ LockHeld
  BY DEF IInv
<1>2. ASSUME p \in Consumers, pc[q] \in DeqLabels PROVE FALSE
  <2>1. q \in Consumers /\ InCall(q)
    BY <1>1, <1>2 DEF TypeOK, PcOK, InCall, Procs, Labels, DeqLabels
  <2>2. Side(p) = Side(q)
    BY <1>2, <2>1, ProcsAssumption DEF Side
  <2>3. QED BY <1>1, <2>1, <2>2, AloneInCall
<1>3. ASSUME p \in Producers, pc[q] \in EnqLabels PROVE FALSE
  <2>1. q \in Producers /\ InCall(q)
    BY <1>1, <1>3 DEF TypeOK, PcOK, InCall, Procs, Labels, EnqLabels
  <2>2. Side(p) = Side(q)
    BY <1>3, <2>1 DEF Side
  <2>3. QED BY <1>1, <2>1, <2>2, AloneInCall
<1>4. QED BY <1>2, <1>3

\* A step that leaves the ring as it is.
LEMMA RingUntouched ==
  ASSUME IInv, IInv', FInv, NEW p \in Procs, OnlyP(p),
         UNCHANGED <<created, mem, head, tail, enq, deq>>,
         Counted', pc'[p] \notin NoRepairLabels, Producing(p)', Comsuming(p)',
         msgCount' >= msgCount \/ (p \in Consumers /\ InCall(p))
  PROVE  FInv'
<1>1. created' /\ Histories' /\ RingSpells'
  BY ZenonT(60) DEF FInv, Histories, RingSpells, Offsets, Laid, At, Front, Pending
<1>2. \A q \in Procs : pc'[q] \notin NoRepairLabels
  BY DEF FInv, OnlyP
<1>3. ASSUME NEW q \in Procs \ {p} PROVE Producing(q)' /\ Comsuming(q)'
  <2>1. Producing(q) /\ Comsuming(q) /\ pc'[q] = pc[q] /\ loc'[q] = loc[q]
    BY DEF FInv, OnlyP
  <2>2. Producing(q)'
    BY <2>1 DEF Producing, At, Used
  <2>3. pc[q] \in DeqLabels => msgCount' >= msgCount
    BY OthersAway
  <2>4. Comsuming(q)'
    <3>1. CASE pc[q] \in DeqLabels
      <4>1. msgCount \in Int /\ msgCount' \in Int
        BY SizeAssumption DEF IInv, TypeOK, SharedOK
      <4>2. QED BY <2>1, <2>3, <3>1, <4>1 DEF Comsuming, Pending, Front
    <3>2. CASE pc[q] \notin DeqLabels
      BY <2>1, <3>2 DEF Comsuming, DeqLabels
    <3>3. QED BY <3>1, <3>2
  <2>5. QED BY <2>2, <2>4
<1>4. QED BY <1>1, <1>2, <1>3 DEF FInv

\* Both flags are numbers.
LEMMA FlagTypes == Stored \in {0, 1} /\ Taken \in {0, 1}
BY DEF Stored, Taken

\* Flags that fall only lower the count.
LEMMA FlagsFall ==
  ASSUME NEW m \in Int, NEW n \in Nat, NEW s \in Int, NEW s2 \in Int, NEW t \in Int,
         NEW t2 \in Int, m + s + t <= n, s2 <= s, t2 <= t
  PROVE  m + s2 + t2 <= n
OBVIOUS

\* A step that does not count.
LEMMA CountUntouched ==
  ASSUME IInv, FInv, NEW p \in Procs, OnlyP(p), UNCHANGED <<enq, deq, msgCount>>,
         pc'[p] # "enqCount", pc'[p] \in TakenLabels => pc[p] \in TakenLabels
  PROVE  Counted'
<1>1. Stored' = 1 => Stored = 1
  BY DEF Stored, OnlyP
<1>2. Taken' = 1 => Taken = 1
  BY DEF Taken, OnlyP
<1>3. Stored' \in {0, 1} /\ Taken' \in {0, 1} /\ Stored \in {0, 1} /\ Taken \in {0, 1}
  BY DEF Stored, Taken
<1>4. Pending' = Pending
  BY DEF Pending
<1>5. Pending \in Nat /\ msgCount \in Int
  BY Shapes, SizeAssumption DEF IInv, TypeOK, SharedOK
<1>6. 0 <= msgCount /\ msgCount + Stored + Taken <= Pending
  BY DEF FInv, Counted
<1>7. msgCount' = msgCount
  OBVIOUS
<1>8. msgCount + Stored' + Taken' <= Pending
  <2>1. Stored' <= Stored /\ Taken' <= Taken
    BY <1>1, <1>2, <1>3
  <2>2. Stored \in Int /\ Stored' \in Int /\ Taken \in Int /\ Taken' \in Int
    BY <1>3
  <2>3. QED BY <1>5, <1>6, <2>1, <2>2, FlagsFall
<1>9. QED BY <1>4, <1>6, <1>7, <1>8 DEF Counted

\* A step that neither touches the ring nor counts.
LEMMA LocalStep ==
  ASSUME IInv, IInv', FInv, NEW p \in Procs, OnlyP(p),
         UNCHANGED <<created, mem, head, tail, enq, deq, msgCount>>,
         pc'[p] \notin NoRepairLabels \cup {"enqCount"},
         pc'[p] \in TakenLabels => pc[p] \in TakenLabels,
         Producing(p)', Comsuming(p)'
  PROVE  FInv'
<1>1. Counted'
  BY CountUntouched
<1>2. msgCount' >= msgCount
  BY SizeAssumption DEF IInv, TypeOK, SharedOK
<1>3. QED BY <1>1, <1>2, RingUntouched

-------------------------------------------------------------------------------
(* The steps that leave the ring as it is.                                 *)

\* Labels at which Producing and Comsuming say nothing.
LEMMA Nothing ==
  ASSUME NEW p \in Procs,
         pc'[p] \notin (EnqLabels \ {"enqHead", "enqCount"}) \cup DeqLabels
  PROVE  Producing(p)' /\ Comsuming(p)'
BY DEF Producing, Comsuming, EnqLabels, DeqLabels

\* A process that returns, crashes, attaches or begins to produce.
LEMMA OutsideStep ==
  ASSUME IInv, IInv', FInv, NEW p \in Procs, OnlyP(p),
         UNCHANGED <<created, mem, head, tail, enq, deq, msgCount>>,
         pc'[p] \in {"out", "initPid", "idle", "enqHead"}
  PROVE  FInv'
<1>1. Producing(p)' /\ Comsuming(p)'
  BY Nothing DEF EnqLabels, DeqLabels
<1>2. QED BY <1>1, LocalStep DEF NoRepairLabels, ClrLabels, TakenLabels

\* What Goto and Return do to the program counters.
LEMMA Moves ==
  ASSUME IInv, NEW p \in Procs, NEW l, Goto(p, l)
  PROVE  pc'[p] = l /\ \A q \in Procs \ {p} : pc'[q] = pc[q]
BY DEF IInv, TypeOK, PcOK, Goto

LEMMA Returns ==
  ASSUME IInv, NEW p \in Procs, Return(p)
  PROVE  pc'[p] = "idle" /\ OnlyP(p)
BY DEF IInv, TypeOK, PcOK, LocOK, Return, Goto, OnlyP

\* Attaching, crashing and calling leave the ring as it is.
LEMMA OutsideSteps ==
  ASSUME IInv, IInv', FInv, NEW p \in Procs,
         \/ Attach(p) \/ InitPid(p) \/ Crash(p)
         \/ \E len \in Lens : Produce(p, len)
  PROVE  FInv'
<1>1. /\ UNCHANGED <<created, mem, head, tail, enq, deq, msgCount>>
      /\ OnlyP(p)
      /\ pc'[p] \in {"out", "initPid", "idle", "enqHead"}
  <2>1. CASE Attach(p)
    BY <2>1 DEF Attach, FInv, IInv, TypeOK, PcOK, Goto, OnlyP, history
  <2>2. CASE InitPid(p)
    BY <2>2 DEF InitPid, FInv, IInv, TypeOK, PcOK, Goto, OnlyP, history
  <2>3. CASE Crash(p)
    BY <2>3 DEF Crash, IInv, TypeOK, PcOK, LocOK, Goto, OnlyP, history, shared
  <2>4. ASSUME NEW len \in Lens, Produce(p, len) PROVE <1>1!:
    BY <2>4 DEF Produce, IInv, TypeOK, PcOK, LocOK, Goto, OnlyP, history, shared
  <2>5. QED BY <2>1, <2>2, <2>3, <2>4
<1>2. QED BY <1>1, OutsideStep

\* The copy of head that enqueue takes is not behind head.
LEMMA EnqHeadFInv ==
  ASSUME IInv, IInv', FInv, NEW p \in Procs, EnqHead(p) PROVE FInv'
<1>1. /\ UNCHANGED <<created, mem, head, tail, enq, deq, msgCount>>
      /\ OnlyP(p) /\ pc'[p] = "enqTail" /\ loc'[p].h = head
  BY DEF EnqHead, IInv, TypeOK, PcOK, LocOK, Local, Goto, OnlyP, shared, history
<1>2. Producing(p)'
  <2>1. Used \in 0..(SegSize - 1) /\ tail = Boundary(SegSize, head + Used)
    BY FirstMessage
  <2>2. Used' = Used /\ Used <= Used
    BY <1>1, <2>1 DEF Used
  <2>3. QED BY <1>1, <2>1, <2>2 DEF Producing
<1>3. Comsuming(p)'
  BY <1>1 DEF Comsuming
<1>4. QED BY <1>1, <1>2, <1>3, LocalStep DEF NoRepairLabels, ClrLabels, TakenLabels

\* enqueue takes a message only if it leaves a byte free, although it computed
\* the free bytes from an old head.
LEMMA EnqTailLoadFInv ==
  ASSUME FifoAssumption, IInv, IInv', FInv, NEW p \in Procs, EnqTailLoad(p)
  PROVE  FInv'
<1> DEFINE r == [loc[p] EXCEPT !.t = tail, !.m.id = nextId]
<1>1. UNCHANGED <<created, mem, head, tail, enq, deq, msgCount>>
  BY DEF EnqTailLoad, shared
<1>2. blockSize[p] = SegSize
  BY DEF FifoAssumption, FullSize
<1>3. Valid(p, loc[p].h, tail)
  BY <1>2 DEF Valid, IInv, IndicesInSeg
<1>4. CASE Return(p)
  BY <1>1, <1>4, Returns, OutsideStep
<1>5. ASSUME FreeLen(SegSize, loc[p].h, tail) > TotalLen(loc[p].m.len),
             loc' = [loc EXCEPT ![p] = r],
             Goto(p, "enqHeader"), pc[p] = "enqTail"
      PROVE  FInv'
  <2>1. OnlyP(p) /\ pc'[p] = "enqHeader"
    BY <1>5 DEF IInv, TypeOK, PcOK, LocOK, Goto, OnlyP
  <2>2. loc[p] \in Local /\ nextId \in 0..MaxMsgs /\ tail \in Nat
    BY <1>5, BoundAssumption, SMTT(60) DEF IInv, TypeOK, LocOK, HistoryOK, SharedOK, Starting
  <2>3. /\ loc'[p].t = tail
        /\ loc'[p].m = [id |-> nextId, len |-> loc[p].m.len]
    <3>1. loc'[p] = r
      BY <1>5 DEF IInv, TypeOK, LocOK
    <3>2. r.t = tail /\ r.m = [id |-> nextId, len |-> loc[p].m.len]
      BY <2>2, LocalWithMsg, ZenonT(60)
    <3>3. QED BY <3>1, <3>2
  <2>4. loc'[p].m \in Message
    BY <1>5, <2>2, <2>3, BoundAssumption DEF IInv, Starting, Message, TypeOK, HistoryOK
  <2>5. PICK v \in 0..(SegSize - 1) :
          Used <= v /\ tail = Boundary(SegSize, loc[p].h + v)
    BY <1>5 DEF FInv, Producing
  <2>6. FreeLen(SegSize, loc[p].h, tail) = SegSize - v
    <3>1. loc[p].h \in Nat /\ SegSize \in Nat
      BY <2>2, LocalFields, Sizes
    <3>2. loc[p].h <= SegSize
      BY DEF IInv, IndicesInSeg
    <3>3. loc[p].h \in 0..SegSize
      BY <3>1, <3>2
    <3>4. QED BY <2>5, <3>3, FreeIs
  <2>7. Used + TotalLen(loc'[p].m.len) < SegSize
    <3>1. loc[p].m.len \in Nat
      BY <2>2, LocalFields
    <3>2. TotalLen(loc[p].m.len) \in Nat
      BY <3>1, LayoutAssumption DEF TotalLen
    <3>3. Used \in Nat /\ SegSize \in Nat
      BY FirstMessage, Shapes
    <3>4. loc'[p].m.len = loc[p].m.len
      BY <2>3
    <3>5. QED BY <1>5, <2>5, <2>6, <3>2, <3>3, <3>4
  <2>8. Used' = Used
    BY <1>1 DEF Used
  <2>9. Producing(p)'
    BY <1>1, <2>1, <2>3, <2>4, <2>7, <2>8 DEF Producing
  <2>10. Comsuming(p)'
    BY <2>1 DEF Comsuming
  <2>11. QED
    BY <1>1, <2>1, <2>9, <2>10, LocalStep DEF NoRepairLabels, ClrLabels, TakenLabels
<1>6. QED BY <1>2, <1>3, <1>4, <1>5 DEF EnqTailLoad

\* If the message lies in one piece, tail is still where it was copied from.
LEMMA EnqReloadFInv ==
  ASSUME FifoAssumption, IInv, IInv', FInv, NEW p \in Procs, EnqReload(p)
  PROVE  FInv'
<1> DEFINE m == loc[p].m
<1>1. /\ UNCHANGED <<created, mem, head, tail, enq, deq, msgCount>>
      /\ OnlyP(p) /\ pc'[p] = "enqStore"
      /\ loc'[p].t = loc[p].t /\ loc'[p].m = m /\ loc'[p].n = tail + TotalLen(m.len)
  BY DEF EnqReload, IInv, TypeOK, PcOK, LocOK, Local, Goto, OnlyP, shared, history
<1>2. /\ loc[p].t = tail /\ m \in Message /\ Used + TotalLen(m.len) < SegSize
      /\ \A i \in 0..(TotalLen(m.len) - 1) : At(m, tail, i)
  BY DEF FInv, Producing, EnqReload
<1>3. InOnePiece(SegSize, tail, m.len)
  BY <1>2 DEF EnqReload, IInv, Writing, FifoAssumption, FullSize
<1>4. tail + TotalLen(m.len) = Boundary(SegSize, tail + TotalLen(m.len))
  <2>1. m.len \in Nat /\ TotalLen(m.len) \in Nat
    BY <1>2, MessageLen
  <2>2. tail \in Nat /\ SegSize \in Nat
    BY Shapes
  <2>3. QED BY <1>3, <2>1, <2>2 DEF InOnePiece, Boundary
<1>5. Used' = Used
  BY <1>1 DEF Used
<1>6. Producing(p)'
  BY <1>1, <1>2, <1>4, <1>5 DEF Producing, At
<1>7. Comsuming(p)'
  BY <1>1 DEF Comsuming
<1>8. QED BY <1>1, <1>6, <1>7, LocalStep DEF NoRepairLabels, ClrLabels, TakenLabels

\* Counting the message that is in the ring by now; the counter does not wrap.
LEMMA EnqCountFInv ==
  ASSUME IInv, IInv', FInv, NEW p \in Procs, EnqCount(p) PROVE FInv'
<1>1. UNCHANGED <<created, mem, head, tail, enq, deq>> /\ Return(p) /\ pc[p] = "enqCount"
  BY DEF EnqCount, history
<1>2. pc'[p] = "idle" /\ OnlyP(p)
  BY <1>1, Returns
<1>3. p \in Producers /\ InCall(p)
  BY <1>1 DEF IInv, TypeOK, PcOK, InCall, Procs, Labels, EnqLabels
<1>4. Stored = 1 /\ Stored' = 0
  <2>1. \A q \in Procs \ {p} : pc[q] # "enqCount"
    BY <1>3, OthersAway DEF EnqLabels
  <2>2. QED BY <1>1, <1>2, <2>1 DEF Stored, OnlyP
<1>5. Taken' = Taken
  BY <1>1, <1>2 DEF Taken, TakenLabels, OnlyP
<1>6. /\ msgCount \in Int /\ Pending \in Nat /\ Taken \in {0, 1}
      /\ Pending < CountLimit /\ CountLimit \in Nat
  <2>1. Pending <= Used /\ Used \in 0..(SegSize - 1) /\ Pending \in Nat
    BY FirstMessage, Shapes
  <2>2. SegSize < CountLimit /\ CountLimit \in Nat /\ SegSize \in Nat
    BY SizeAssumption
  <2>3. QED BY <2>1, <2>2, FlagTypes DEF IInv, TypeOK, SharedOK
<1>7. 0 <= msgCount /\ msgCount + 1 + Taken <= Pending
  BY <1>4, <1>6 DEF FInv, Counted
<1>8. msgCount' = msgCount + 1
  BY <1>6, <1>7 DEF EnqCount, Incremented
<1>9. Counted'
  <2>1. Pending' = Pending
    BY <1>1 DEF Pending
  <2>2. QED BY <1>4, <1>5, <1>6, <1>7, <1>8, <2>1 DEF Counted
<1>10. Producing(p)' /\ Comsuming(p)'
  BY <1>2, Nothing DEF EnqLabels, DeqLabels
<1>11. QED
  BY <1>1, <1>2, <1>6, <1>8, <1>9, <1>10, RingUntouched DEF NoRepairLabels, ClrLabels

\* comsume goes on into dequeue if the counter promises a message.
LEMMA ComsumeFInv ==
  ASSUME IInv, IInv', FInv, NEW p \in Procs, Comsume(p) PROVE FInv'
<1>1. UNCHANGED <<created, mem, head, tail, enq, deq, msgCount, loc>>
  BY DEF Comsume, shared, history
<1>2. CASE pc' = pc
  <2>1. Producing(p)' /\ Comsuming(p)'
    BY <1>1, <1>2
    DEF Comsume, Producing, Comsuming
  <2>2. QED
    BY <1>1, <1>2, <2>1, LocalStep
    DEF Comsume, OnlyP, FInv
<1>3. CASE msgCount # 0 /\ Goto(p, "deqHead")
  <2>1. pc'[p] = "deqHead" /\ OnlyP(p)
    BY <1>1, <1>3 DEF IInv, TypeOK, PcOK, Goto, OnlyP
  <2>2. msgCount > 0
    BY <1>3, SizeAssumption DEF FInv, Counted, IInv, TypeOK, SharedOK
  <2>3. Producing(p)' /\ Comsuming(p)'
    BY <1>1, <2>1, <2>2 DEF Producing, Comsuming
  <2>4. QED BY <1>1, <2>1, <2>3, LocalStep DEF NoRepairLabels, ClrLabels, TakenLabels
<1>4. QED BY <1>2, <1>3 DEF Comsume

\* The copy of head that dequeue takes is head: nobody else moves it.
LEMMA DeqHeadLoadFInv ==
  ASSUME IInv, IInv', FInv, NEW p \in Procs, DeqHeadLoad(p) PROVE FInv'
<1>1. /\ UNCHANGED <<created, mem, head, tail, enq, deq, msgCount>>
      /\ OnlyP(p) /\ pc[p] = "deqHead" /\ pc'[p] = "deqTail" /\ loc'[p].h = head
  BY DEF DeqHeadLoad, IInv, TypeOK, PcOK, LocOK, Local, Goto, OnlyP, shared, history
<1>2. Producing(p)' /\ Comsuming(p)'
  BY <1>1 DEF Producing, Comsuming, FInv
<1>3. QED BY <1>1, <1>2, LocalStep DEF NoRepairLabels, ClrLabels, TakenLabels

\* Behind the head that dequeue sees lies a whole message.
LEMMA DeqTailLoadFInv ==
  ASSUME FifoAssumption, IInv, IInv', FInv, NEW p \in Procs, DeqTailLoad(p)
  PROVE  FInv'
<1>1. UNCHANGED <<created, mem, head, tail, enq, deq, msgCount>>
  BY DEF DeqTailLoad, shared, history
<1>2. Valid(p, loc[p].h, tail)
  BY DEF FifoAssumption, FullSize, Valid, IInv, IndicesInSeg
<1>3. CASE Return(p)
  BY <1>1, <1>3, Returns, OutsideStep
<1>4. ASSUME loc[p].h # tail, loc' = [loc EXCEPT ![p].t = tail], Goto(p, "deqCount"),
             pc[p] = "deqTail"
      PROVE  FInv'
  <2>1. /\ OnlyP(p) /\ pc'[p] = "deqCount"
        /\ loc'[p].h = loc[p].h /\ loc'[p].t = tail
    BY <1>4 DEF IInv, TypeOK, PcOK, LocOK, Local, Goto, OnlyP
  <2>2. loc[p].h = head /\ msgCount > 0
    BY <1>4 DEF FInv, Comsuming
  <2>3. Used > 0
    <3>1. Used # 0
      <4>1. tail = Boundary(SegSize, head + Used) /\ head \in 0..SegSize
        BY FirstMessage, Shapes
      <4>2. Boundary(SegSize, head + 0) = head
        BY <4>1, SizeAssumption DEF Boundary
      <4>3. QED BY <1>4, <2>2, <4>1, <4>2
    <3>2. QED BY <3>1, FirstMessage
  <2>4. Pending > 0 /\ TotalLen(Front(1).len) <= UsedLen(SegSize, head, tail)
    BY <2>3, FirstMessage
  <2>5. Pending' = Pending /\ Front(1)' = Front(1)
    BY <1>1 DEF Pending, Front
  <2>6. Producing(p)' /\ Comsuming(p)'
    BY <1>1, <2>1, <2>2, <2>4, <2>5 DEF Producing, Comsuming
  <2>7. QED BY <1>1, <2>1, <2>6, LocalStep DEF NoRepairLabels, ClrLabels, TakenLabels
<1>5. QED BY <1>2, <1>3, <1>4 DEF DeqTailLoad

\* The counter goes down for the message that stays in the ring a little longer.
LEMMA DeqCountFInv ==
  ASSUME IInv, IInv', FInv, NEW p \in Procs, DeqCount(p) PROVE FInv'
<1>1. /\ UNCHANGED <<created, mem, head, tail, enq, deq, loc>>
      /\ OnlyP(p) /\ pc[p] = "deqCount" /\ pc'[p] = "deqHeader"
  BY DEF DeqCount, IInv, TypeOK, PcOK, Goto, OnlyP, history
<1>2. p \in Consumers /\ InCall(p)
  BY <1>1 DEF IInv, TypeOK, PcOK, InCall, Procs, Labels, DeqLabels
<1>3. msgCount > 0 /\ msgCount \in Int /\ CountLimit \in Nat
  BY <1>1, SizeAssumption DEF FInv, Comsuming, IInv, TypeOK, SharedOK
<1>4. msgCount' = msgCount - 1
  BY <1>3 DEF DeqCount, Decremented
<1>5. Counted'
  <2>1. Stored' = Stored
    BY <1>1 DEF Stored, OnlyP
  <2>2. Taken = 0
    <3>1. \A q \in Procs \ {p} : pc[q] \notin TakenLabels
      BY <1>2, OthersAway DEF DeqLabels, TakenLabels
    <3>2. QED BY <1>1, <3>1 DEF Taken, TakenLabels
  <2>3. Taken' \in {0, 1} /\ Stored \in {0, 1} /\ Pending \in Nat
    BY FlagTypes, Shapes DEF Taken
  <2>4. Pending' = Pending
    BY <1>1 DEF Pending
  <2>5. msgCount + Stored + Taken <= Pending
    BY DEF FInv, Counted
  <2>6. PICK t \in {0, 1} : Taken' = t
    BY <2>3
  <2>7. 0 <= msgCount - 1 /\ (msgCount - 1) + Stored + t <= Pending
    BY <1>3, <2>2, <2>3, <2>5
  <2>8. QED BY <1>4, <2>1, <2>4, <2>6, <2>7 DEF Counted
<1>6. Producing(p)' /\ Comsuming(p)'
  <2>1. Pending' = Pending /\ Front(1)' = Front(1)
    BY <1>1 DEF Pending, Front
  <2>2. QED BY <1>1, <2>1 DEF Producing, Comsuming, FInv
<1>7. QED BY <1>1, <1>2, <1>5, <1>6, RingUntouched DEF NoRepairLabels, ClrLabels

-------------------------------------------------------------------------------
(* What dequeue reads of a message that lies in the ring.                  *)

\* Message m lies in the ring from h on, and leaves a byte free.
Lies(m, h) ==
  /\ TotalLen(m.len) < SegSize
  /\ \A i \in 0..(TotalLen(m.len) - 1) : At(m, h, i)

\* Byte i of the message is where dequeue looks for it.
LEMMA Reads ==
  ASSUME NEW m \in Message, NEW h \in 0..SegSize, Lies(m, h),
         NEW i \in 0..(TotalLen(m.len) - 1)
  PROVE  mem[DeqPos(SegSize, h, TotalLen(m.len), i)] = MsgByte(m, i)
<1>1. SegSize \in Nat /\ m.len \in Nat /\ TotalLen(m.len) < SegSize
  BY MessageLen, SizeAssumption DEF Lies
<1>2. DeqPos(SegSize, h, TotalLen(m.len), i) = Wrap(SegSize, h + i)
  BY <1>1, DeqPosIsRing
<1>3. QED BY <1>2 DEF Lies, At

\* The header's magic number is there, and its length decodes to the length that
\* was written.
LEMMA HeaderRead ==
  ASSUME NEW m \in Message, NEW h \in 0..SegSize, Lies(m, h)
  PROVE  /\ MagicAt(HeaderBytes(SegSize, h), 0)
         /\ Decoded(HeaderBytes(SegSize, h)) = {TotalLen(m.len)}
<1> DEFINE hdr == HeaderBytes(SegSize, h)
<1>1. m.len \in Lens
  BY DEF Message
<1>2. /\ m.len \in Nat /\ TotalLen(m.len) \in Nat
      /\ HeaderLen + MSG_MAGIC_NUM_LEN <= TotalLen(m.len)
  BY <1>1, MessageLen
<1>3. /\ MSG_MAGIC_NUM_LEN \in Nat \ {0} /\ MSG_HEAD_SIZE \in Nat \ {0}
      /\ HeaderLen = MSG_MAGIC_NUM_LEN + MSG_HEAD_SIZE
  BY LayoutAssumption DEF HeaderLen
<1>4. ASSUME NEW i \in 0..(HeaderLen - 1)
      PROVE  hdr[i] = MsgByte(m, i)
  <2>1. i \in 0..(TotalLen(m.len) - 1) /\ i < HeaderLen
    BY <1>2, <1>3
  <2>2. mem[DeqPos(SegSize, h, TotalLen(m.len), i)] = MsgByte(m, i)
    BY <2>1, Reads
  <2>3. DeqPos(SegSize, h, TotalLen(m.len), i) = HeaderPos(SegSize, h, i)
    BY <2>1 DEF DeqPos
  <2>4. QED BY <2>2, <2>3 DEF HeaderBytes
<1> HIDE DEF hdr
<1>5. ASSUME NEW j \in 0..(MSG_MAGIC_NUM_LEN - 1) PROVE hdr[0 + j] = MagicByte(j)
  <2>1. j \in 0..(HeaderLen - 1) /\ j < MSG_MAGIC_NUM_LEN /\ 0 + j = j
    BY <1>3
  <2>2. QED BY <1>4, <2>1 DEF MsgByte
<1>6. ASSUME NEW j \in 0..(MSG_HEAD_SIZE - 1)
      PROVE  hdr[MSG_MAGIC_NUM_LEN + j] = LenByte(j, m.len)
  <2>1. /\ MSG_MAGIC_NUM_LEN + j \in 0..(HeaderLen - 1)
        /\ ~(MSG_MAGIC_NUM_LEN + j < MSG_MAGIC_NUM_LEN)
        /\ MSG_MAGIC_NUM_LEN + j < HeaderLen
        /\ (MSG_MAGIC_NUM_LEN + j) - MSG_MAGIC_NUM_LEN = j
    BY <1>3
  <2>2. QED BY <1>4, <2>1 DEF MsgByte
<1> DEFINE Spells(len) ==
      \A j \in 0..(MSG_HEAD_SIZE - 1) : hdr[MSG_MAGIC_NUM_LEN + j] = LenByte(j, len)
<1>7. \A len \in Lens : Spells(len) <=> len = m.len
  <2>1. Spells(m.len)
    BY <1>6
  <2>2. ASSUME NEW len \in Lens, Spells(len) PROVE len = m.len
    <3>1. 0 \in 0..(MSG_HEAD_SIZE - 1)
      BY <1>3
    <3>2. LenByte(0, len) = LenByte(0, m.len)
      BY <1>6, <2>2, <3>1
    <3>3. QED BY <3>2 DEF LenByte
  <2>3. QED BY <2>1, <2>2
<1>8. Decoded(hdr) = IF \E len \in Lens : Spells(len)
                     THEN {TotalLen(len) : len \in {x \in Lens : Spells(x)}}
                     ELSE IF \A j \in 0..(MSG_HEAD_SIZE - 1) :
                               hdr[MSG_MAGIC_NUM_LEN + j] = Zero THEN {0}
                     ELSE 0..(SegSize + 1)
  BY DEF Decoded
<1> HIDE DEF Spells
<1>9. {x \in Lens : Spells(x)} = {m.len}
  BY <1>1, <1>7
<1>10. Decoded(hdr) = {TotalLen(m.len)}
  BY <1>1, <1>7, <1>8, <1>9
<1>11. QED BY <1>5, <1>10 DEF MagicAt, hdr

\* The bytes behind the header are the data and the trailing magic number.
LEMMA BodyRead ==
  ASSUME NEW m \in Message, NEW h \in 0..SegSize, Lies(m, h),
         NEW n, n = TotalLen(m.len) - HeaderLen
  PROVE  \A i \in 0..(n - 1) :
           BodyBytes(SegSize, h, n)[i] = MsgByte(m, HeaderLen + i)
<1>1. /\ TotalLen(m.len) \in Nat /\ HeaderLen \in Nat /\ HeaderLen <= TotalLen(m.len)
      /\ TotalLen(m.len) < SegSize /\ SegSize \in Nat
  <2>1. /\ m.len \in Nat /\ TotalLen(m.len) \in Nat
        /\ HeaderLen + MSG_MAGIC_NUM_LEN <= TotalLen(m.len)
    BY MessageLen
  <2>2. QED BY <2>1, LayoutAssumption, SizeAssumption DEF HeaderLen, Lies
<1>2. ASSUME NEW i \in 0..(n - 1)
      PROVE  BodyBytes(SegSize, h, n)[i] = MsgByte(m, HeaderLen + i)
  <2>1. /\ HeaderLen + i \in 0..(TotalLen(m.len) - 1) /\ ~(HeaderLen + i < HeaderLen)
        /\ (HeaderLen + i) - HeaderLen = i /\ i \in 0..(SegSize - 1) /\ i < n
    BY <1>1
  <2>2. mem[DeqPos(SegSize, h, TotalLen(m.len), HeaderLen + i)]
          = MsgByte(m, HeaderLen + i)
    BY <2>1, Reads
  <2>3. DeqPos(SegSize, h, TotalLen(m.len), HeaderLen + i)
          = BodyPos(SegSize, HeaderEnd(SegSize, h), n, i)
    BY <2>1 DEF DeqPos
  <2>4. BodyBytes(SegSize, h, n)[i] = mem[BodyPos(SegSize, HeaderEnd(SegSize, h), n, i)]
    BY <2>1 DEF BodyBytes
  <2>5. QED BY <2>2, <2>3, <2>4
<1>3. QED BY <1>2

\* The first message of the ring lies from head on.
LEMMA FirstLies ==
  ASSUME IInv, FInv, Pending > 0
  PROVE  Front(1) \in Message /\ head \in 0..SegSize /\ Lies(Front(1), head)
<1>1. /\ Front(1) \in Message /\ TotalLen(Front(1).len) \in Nat
      /\ head \in 0..SegSize /\ SegSize \in Nat
  BY Shapes
<1>2. /\ TotalLen(Front(1).len) <= Used /\ Used \in 0..(SegSize - 1)
      /\ \A j \in 0..(TotalLen(Front(1).len) - 1) : At(Front(1), head, j)
  BY FirstMessage
<1>3. QED BY <1>1, <1>2 DEF Lies

\* dequeue's tests on the header pass.
LEMMA DeqHeaderFInv ==
  ASSUME FifoAssumption, IInv, IInv', FInv, NEW p \in Procs, DeqHeader(p)
  PROVE  FInv'
<1> DEFINE hdr == HeaderBytes(SegSize, head)
           total == TotalLen(Front(1).len)
<1>1. /\ UNCHANGED <<created, mem, head, tail, enq, deq, msgCount>>
      /\ pc[p] = "deqHeader"
  BY DEF DeqHeader, shared, history
<1>2. /\ Pending > 0 /\ loc[p].h = head /\ blockSize[p] = SegSize
      /\ total <= UsedLen(SegSize, head, loc[p].t)
  BY <1>1 DEF FInv, Comsuming, FifoAssumption, FullSize
<1>3. MagicAt(hdr, 0) /\ Decoded(hdr) = {total}
  BY <1>2, FirstLies, HeaderRead
<1>4. total \in Nat /\ UsedLen(SegSize, head, loc[p].t) \in Int
  <2>1. loc[p].t \in Nat
    <3>1. loc[p] \in Local
      BY DEF IInv, TypeOK, LocOK
    <3>2. QED BY <3>1, LocalFields
  <2>2. QED BY <1>2, <2>1, Shapes DEF UsedLen
<1> HIDE DEF hdr, total
<1>5. \/ Return(p)
      \/ loc' = [loc EXCEPT ![p].n = total - HeaderLen] /\ Goto(p, "deqCopy")
  BY <1>2, <1>3, <1>4 DEF DeqHeader, hdr
<1>6. CASE Return(p)
  BY <1>1, <1>6, Returns, OutsideStep
<1>7. CASE loc' = [loc EXCEPT ![p].n = total - HeaderLen] /\ Goto(p, "deqCopy")
  <2>1. /\ OnlyP(p) /\ pc'[p] = "deqCopy"
        /\ loc'[p].h = loc[p].h /\ loc'[p].n = total - HeaderLen
    BY <1>7 DEF IInv, TypeOK, PcOK, LocOK, Local, Goto, OnlyP
  <2>2. Pending' = Pending /\ Front(1)' = Front(1)
    BY <1>1 DEF Pending, Front
  <2>3. Producing(p)' /\ Comsuming(p)'
    BY <1>1, <1>2, <2>1, <2>2 DEF Producing, Comsuming, total
  <2>4. QED
    BY <1>1, <2>1, <2>3, LocalStep DEF NoRepairLabels, ClrLabels, TakenLabels
<1>8. QED BY <1>5, <1>6, <1>7

\* The copy holds the data and the trailing magic number.
LEMMA DeqCopyFInv ==
  ASSUME FifoAssumption, IInv, IInv', FInv, NEW p \in Procs, DeqCopy(p)
  PROVE  FInv'
<1> DEFINE m == Front(1)
           n == loc[p].n
<1>1. /\ UNCHANGED <<created, mem, head, tail, enq, deq, msgCount>>
      /\ OnlyP(p) /\ pc[p] = "deqCopy" /\ pc'[p] = "deqStore"
      /\ loc'[p].h = loc[p].h /\ loc'[p].n = n
      /\ loc'[p].buf = BodyBytes(blockSize[p], loc[p].h, n)
  BY DEF DeqCopy, IInv, TypeOK, PcOK, LocOK, Local, Goto, OnlyP, shared, history
<1>2. /\ Pending > 0 /\ loc[p].h = head /\ blockSize[p] = SegSize
      /\ n = TotalLen(m.len) - HeaderLen
  BY <1>1 DEF FInv, Comsuming, FifoAssumption, FullSize
<1>3. ASSUME NEW i \in 0..(n - 1)
      PROVE  loc'[p].buf[i] = MsgByte(m, HeaderLen + i)
  <2> HIDE DEF m, n
  <2>1. m \in Message /\ head \in 0..SegSize /\ Lies(m, head)
    BY <1>2, FirstLies DEF m
  <2>2. BodyBytes(SegSize, head, n)[i] = MsgByte(m, HeaderLen + i)
    BY <1>2, <2>1, BodyRead
  <2>3. QED BY <1>1, <1>2, <2>2
<1>4. Pending' = Pending /\ Front(1)' = m
  BY <1>1 DEF Pending, Front
<1>5. Producing(p)' /\ Comsuming(p)'
  BY <1>1, <1>2, <1>3, <1>4 DEF Producing, Comsuming
<1>6. QED BY <1>1, <1>5, LocalStep DEF NoRepairLabels, ClrLabels, TakenLabels

-------------------------------------------------------------------------------
(* The steps that write bytes.                                             *)

\* A message that leaves a byte free is written to free bytes only, each byte
\* to the place where dequeue will look for it.
LEMMA WritesFree ==
  ASSUME IInv, FInv, NEW m \in Message, Used + TotalLen(m.len) < SegSize
  PROVE  /\ \A i \in 0..(TotalLen(m.len) - 1) :
              /\ EnqPos(SegSize, tail, m.len, i) = Wrap(SegSize, tail + i)
              /\ Wrap(SegSize, tail + i) \in 0..(SegSize - 1)
         /\ \A i, k \in 0..(TotalLen(m.len) - 1) :
              Wrap(SegSize, tail + i) = Wrap(SegSize, tail + k) => i = k
         /\ \A i \in 0..(TotalLen(m.len) - 1), u \in 0..(Used - 1) :
              Wrap(SegSize, tail + i) # Wrap(SegSize, head + u)
<1>1. /\ SegSize \in Nat /\ head \in 0..SegSize /\ tail \in 0..SegSize
      /\ Used \in 0..(SegSize - 1) /\ tail = Boundary(SegSize, head + Used)
  BY Shapes, FirstMessage
<1>2. /\ m.len \in Nat /\ TotalLen(m.len) \in Nat
  BY MessageLen
<1>3. TotalLen(m.len) < SegSize
  BY <1>1, <1>2
<1>4. ASSUME NEW i \in 0..(TotalLen(m.len) - 1)
      PROVE  /\ EnqPos(SegSize, tail, m.len, i) = Wrap(SegSize, tail + i)
             /\ Wrap(SegSize, tail + i) \in 0..(SegSize - 1)
  <2>1. EnqPos(SegSize, tail, m.len, i) = Wrap(SegSize, tail + i)
    BY <1>1, <1>2, <1>3, EnqPosIsRing
  <2>2. QED BY <1>1, <1>2, <1>3, <2>1 DEF Wrap
<1>5. ASSUME NEW i \in 0..(TotalLen(m.len) - 1), NEW k \in 0..(TotalLen(m.len) - 1),
             Wrap(SegSize, tail + i) = Wrap(SegSize, tail + k)
      PROVE  i = k
  BY <1>1, <1>2, <1>3, <1>5 DEF Wrap
<1>6. ASSUME NEW i \in 0..(TotalLen(m.len) - 1), NEW u \in 0..(Used - 1)
      PROVE  Wrap(SegSize, tail + i) # Wrap(SegSize, head + u)
  BY <1>1, <1>2 DEF Wrap, Boundary
<1>7. QED BY <1>4, <1>5, <1>6

\* Written puts byte i of the message at the i-th ring position from tail, and
\* leaves the used bytes and the bytes it wrote before as they are.
LEMMA WrittenBytes ==
  ASSUME IInv, FInv, NEW m \in Message, Used + TotalLen(m.len) < SegSize,
         NEW first \in Nat, NEW last \in Nat, last < TotalLen(m.len),
         NEW new, new = Written(SegSize, tail, m, first, last)
  PROVE  /\ \A i \in first..last : new[Wrap(SegSize, tail + i)] = MsgByte(m, i)
         /\ \A i \in 0..(first - 1) :
              i < TotalLen(m.len) =>
                new[Wrap(SegSize, tail + i)] = mem[Wrap(SegSize, tail + i)]
         /\ \A u \in 0..(Used - 1) :
              new[Wrap(SegSize, head + u)] = mem[Wrap(SegSize, head + u)]
<1> DEFINE I == 0..(TotalLen(m.len) - 1)
           pos(i) == EnqPos(SegSize, tail, m.len, i)
<1>1. TotalLen(m.len) \in Nat
  BY MessageLen
<1>2. /\ \A i \in I : pos(i) = Wrap(SegSize, tail + i)
      /\ \A i \in I : Wrap(SegSize, tail + i) \in 0..(SegSize - 1)
      /\ \A i, k \in I : Wrap(SegSize, tail + i) = Wrap(SegSize, tail + k) => i = k
      /\ \A i \in I, u \in 0..(Used - 1) :
           Wrap(SegSize, tail + i) # Wrap(SegSize, head + u)
  BY WritesFree
<1>3. DOMAIN mem = 0..(SegSize - 1)
  BY DEF IInv, TypeOK, SharedOK
<1>4. \A x \in 0..(SegSize - 1) :
        new[x] = IF \E i \in first..last : pos(i) = x
                 THEN MsgByte(m, CHOOSE i \in first..last : pos(i) = x)
                 ELSE mem[x]
  BY <1>3 DEF Written
<1>5. first..last \subseteq I
  BY <1>1
<1> HIDE DEF pos, I
<1>6. ASSUME NEW i \in first..last
      PROVE  new[Wrap(SegSize, tail + i)] = MsgByte(m, i)
  <2> DEFINE x == Wrap(SegSize, tail + i)
  <2>1. i \in I /\ pos(i) = x /\ x \in 0..(SegSize - 1)
    BY <1>2, <1>5
  <2>2. \A k \in first..last : pos(k) = x => k = i
    BY <1>2, <1>5, <2>1
  <2>3. (CHOOSE k \in first..last : pos(k) = x) = i
    BY <2>1, <2>2
  <2>4. QED BY <1>4, <2>1, <2>3
<1>7. ASSUME NEW i \in 0..(first - 1), i < TotalLen(m.len)
      PROVE  new[Wrap(SegSize, tail + i)] = mem[Wrap(SegSize, tail + i)]
  <2> DEFINE x == Wrap(SegSize, tail + i)
  <2>1. i \in I
    BY <1>1, <1>7 DEF I
  <2>2. \A k \in first..last : k # i
    BY <1>7
  <2>3. \A k \in first..last : pos(k) # x
    BY <1>2, <1>5, <2>1, <2>2
  <2>4. QED BY <1>2, <1>4, <2>1, <2>3
<1>8. ASSUME NEW u \in 0..(Used - 1)
      PROVE  new[Wrap(SegSize, head + u)] = mem[Wrap(SegSize, head + u)]
  <2>1. Wrap(SegSize, head + u) \in 0..(SegSize - 1)
    <3>1. SegSize \in Nat /\ head \in 0..SegSize /\ Used \in 0..(SegSize - 1)
      BY Shapes, FirstMessage
    <3>2. QED BY <3>1 DEF Wrap
  <2>2. \A k \in first..last : pos(k) # Wrap(SegSize, head + u)
    BY <1>2, <1>5
  <2>3. QED BY <1>4, <2>1, <2>2
<1>9. QED BY <1>6, <1>7, <1>8

\* Such a write leaves the messages in the ring as they are.
LEMMA RingKept ==
  ASSUME IInv, FInv, UNCHANGED <<head, tail, enq, deq>>,
         \A u \in 0..(Used - 1) :
           mem'[Wrap(SegSize, head + u)] = mem[Wrap(SegSize, head + u)]
  PROVE  RingSpells'
<1>1. PICK d \in [0..Pending -> 0..(SegSize - 1)] :
        Offsets(d) /\ Laid(d) /\ tail = Boundary(SegSize, head + d[Pending])
  BY DEF FInv, RingSpells
<1>2. Pending \in Nat /\ SegSize \in Nat /\ head \in 0..SegSize
  BY Shapes
<1>3. Used = d[Pending]
  <2>1. d[Pending] \in 0..(SegSize - 1)
    BY <1>2
  <2>2. QED BY <1>1, <1>2, <2>1, UsedIs
<1>4. ASSUME NEW i \in 0..(Pending - 1),
             NEW j \in 0..(TotalLen(Front(i + 1).len) - 1)
      PROVE  At(Front(i + 1), head + d[i], j)'
  <2>1. At(Front(i + 1), head + d[i], j)
    BY <1>1 DEF Laid
  <2>2. d[i] + j \in 0..(Used - 1)
    <3>1. i + 1 \in 0..Pending /\ i + 1 \in 1..Pending /\ i \in 0..Pending /\ Pending \in 0..Pending
      BY <1>2
    <3>2. d[i + 1] = d[i] + TotalLen(Front(i + 1).len)
      BY <1>1 DEF Offsets
    <3>3. d[i + 1] + (Pending - (i + 1)) <= d[Pending]
      BY <1>1, <3>1 DEF Offsets
    <3>4. d[i] \in Nat /\ d[Pending] \in Nat
      BY <1>2, <3>1
    <3>5. TotalLen(Front(i + 1).len) \in Nat
      BY <3>1, Shapes
    <3>6. QED BY <1>2, <1>3, <3>1, <3>2, <3>3, <3>4, <3>5, SMTT(60)
  <2>3. head + (d[i] + j) = head + d[i] + j
    <3>1. d[i] \in Nat
      BY <1>2
    <3>2. QED BY <1>2, <3>1
  <2>4. mem'[Wrap(SegSize, head + d[i] + j)] = mem[Wrap(SegSize, head + d[i] + j)]
    BY <2>2, <2>3
  <2>5. QED BY <2>1, <2>4 DEF At, Front
<1>5. Laid(d)'
  BY <1>4 DEF Laid, Pending, Front
<1>6. QED BY <1>1, <1>5 DEF RingSpells, Offsets, Pending, Front

\* A step of a producer that only writes bytes of the message it is about to
\* publish.
LEMMA WriteStep ==
  ASSUME IInv, IInv', FInv, NEW p \in Procs, OnlyP(p), InCall(p), p \in Producers,
         UNCHANGED <<created, head, tail, enq, deq, msgCount>>,
         pc'[p] \in {"enqBody", "enqReload", "enqStore"}, Producing(p)',
         \A u \in 0..(Used - 1) :
           mem'[Wrap(SegSize, head + u)] = mem[Wrap(SegSize, head + u)]
  PROVE  FInv'
<1>1. created' /\ Histories' /\ RingSpells'
  BY RingKept DEF FInv, Histories
<1>2. Counted'
  BY CountUntouched DEF TakenLabels
<1>3. \A q \in Procs : pc'[q] \notin NoRepairLabels
  BY DEF FInv, OnlyP, NoRepairLabels, ClrLabels
<1>4. Comsuming(p)'
  BY DEF Comsuming
<1>5. ASSUME NEW q \in Procs \ {p} PROVE Producing(q)' /\ Comsuming(q)'
  <2>1. Comsuming(q) /\ pc'[q] = pc[q] /\ loc'[q] = loc[q]
    BY DEF FInv, OnlyP
  <2>2. pc[q] \notin EnqLabels
    BY OthersAway
  <2>3. Producing(q)'
    BY <2>1, <2>2 DEF Producing, EnqLabels
  <2>4. Comsuming(q)'
    BY <2>1 DEF Comsuming, Pending, Front
  <2>5. QED BY <2>3, <2>4
<1>6. QED BY <1>1, <1>2, <1>3, <1>4, <1>5 DEF FInv

\* What holds of the message that p is about to write.
LEMMA BeforeWriting ==
  ASSUME FifoAssumption, IInv, FInv, NEW p \in Procs,
         pc[p] \in {"enqHeader", "enqBody", "enqReload", "enqStore"}
  PROVE  /\ p \in Producers /\ InCall(p) /\ blockSize[p] = SegSize
         /\ loc[p].t = tail /\ loc[p].m \in Message
         /\ Used + TotalLen(loc[p].m.len) < SegSize
         /\ TotalLen(loc[p].m.len) \in Nat /\ HeaderLen \in Nat \ {0}
         /\ HeaderLen <= TotalLen(loc[p].m.len)
<1>1. p \in Producers /\ InCall(p)
  BY DEF IInv, TypeOK, PcOK, InCall, Procs, Labels, EnqLabels
<1>2. /\ loc[p].t = tail /\ loc[p].m \in Message
      /\ Used + TotalLen(loc[p].m.len) < SegSize
  BY DEF FInv, Producing
<1>3. TotalLen(loc[p].m.len) \in Nat /\ HeaderLen \in Nat \ {0}
      /\ HeaderLen <= TotalLen(loc[p].m.len)
  BY <1>2, MessageLen, LayoutAssumption
<1>4. QED BY <1>1, <1>2, <1>3 DEF FifoAssumption, FullSize

\* The header is in place.
LEMMA EnqHeaderFInv ==
  ASSUME FifoAssumption, IInv, IInv', FInv, NEW p \in Procs, EnqHeader(p)
  PROVE  FInv'
<1> DEFINE m == loc[p].m
<1>1. /\ UNCHANGED <<created, head, tail, enq, deq, msgCount, loc>>
      /\ OnlyP(p) /\ pc[p] = "enqHeader" /\ pc'[p] = "enqBody"
  BY DEF EnqHeader, IInv, TypeOK, PcOK, Goto, OnlyP, history
<1>2. /\ p \in Producers /\ InCall(p) /\ blockSize[p] = SegSize
      /\ loc[p].t = tail /\ m \in Message /\ Used + TotalLen(m.len) < SegSize
      /\ TotalLen(m.len) \in Nat /\ HeaderLen \in Nat \ {0} /\ HeaderLen <= TotalLen(m.len)
  BY <1>1, BeforeWriting
<1>3. mem' = Written(SegSize, tail, m, 0, HeaderLen - 1)
  BY <1>2 DEF EnqHeader
<1>4. 0 \in Nat /\ HeaderLen - 1 \in Nat /\ HeaderLen - 1 < TotalLen(m.len)
  BY <1>2
<1>5. /\ \A i \in 0..(HeaderLen - 1) : mem'[Wrap(SegSize, tail + i)] = MsgByte(m, i)
      /\ \A u \in 0..(Used - 1) :
           mem'[Wrap(SegSize, head + u)] = mem[Wrap(SegSize, head + u)]
  <2> HIDE DEF m
  <2>1. QED BY <1>2, <1>3, <1>4, WrittenBytes
<1>6. Used' = Used
  BY <1>1 DEF Used
<1>7. Producing(p)'
  BY <1>1, <1>2, <1>5, <1>6 DEF Producing, At
<1>8. QED BY <1>1, <1>2, <1>5, <1>7, WriteStep

\* The whole message is in place, and the new tail is the boundary behind it.
LEMMA EnqBodyFInv ==
  ASSUME FifoAssumption, IInv, IInv', FInv, NEW p \in Procs, EnqBody(p)
  PROVE  FInv'
<1> DEFINE m == loc[p].m
<1>1. /\ UNCHANGED <<created, head, tail, enq, deq, msgCount>>
      /\ OnlyP(p) /\ pc[p] = "enqBody" /\ pc'[p] \in {"enqReload", "enqStore"}
      /\ loc'[p].t = loc[p].t /\ loc'[p].m = m
      /\ pc'[p] = "enqStore" => loc'[p].n = EnqTail(blockSize[p], loc[p].t, m.len)
  BY DEF EnqBody, IInv, TypeOK, PcOK, LocOK, Local, Goto, OnlyP, history
<1>2. /\ p \in Producers /\ InCall(p) /\ blockSize[p] = SegSize
      /\ loc[p].t = tail /\ m \in Message /\ Used + TotalLen(m.len) < SegSize
      /\ TotalLen(m.len) \in Nat /\ HeaderLen \in Nat \ {0} /\ HeaderLen <= TotalLen(m.len)
  BY <1>1, BeforeWriting
<1>3. mem' = Written(SegSize, tail, m, HeaderLen, TotalLen(m.len) - 1)
  BY <1>2 DEF EnqBody
<1>4. /\ TotalLen(m.len) - 1 \in Nat /\ TotalLen(m.len) - 1 < TotalLen(m.len)
      /\ HeaderLen \in Nat
  BY <1>2
<1>5. /\ \A i \in HeaderLen..(TotalLen(m.len) - 1) :
           mem'[Wrap(SegSize, tail + i)] = MsgByte(m, i)
      /\ \A i \in 0..(HeaderLen - 1) : i < TotalLen(m.len) =>
           mem'[Wrap(SegSize, tail + i)] = mem[Wrap(SegSize, tail + i)]
      /\ \A u \in 0..(Used - 1) :
           mem'[Wrap(SegSize, head + u)] = mem[Wrap(SegSize, head + u)]
  <2> HIDE DEF m
  <2>1. QED BY <1>2, <1>3, <1>4, WrittenBytes
<1>6. ASSUME NEW i \in 0..(TotalLen(m.len) - 1)
      PROVE  mem'[Wrap(SegSize, tail + i)] = MsgByte(m, i)
  <2>1. CASE i \in 0..(HeaderLen - 1)
    <3>1. At(m, tail, i)
      BY <1>1, <2>1 DEF FInv, Producing
    <3>2. i < TotalLen(m.len)
      BY <1>2
    <3>3. QED BY <1>5, <2>1, <3>1, <3>2 DEF At
  <2>2. CASE i \in HeaderLen..(TotalLen(m.len) - 1)
    BY <1>5, <2>2
  <2>3. QED BY <1>2, <2>1, <2>2
<1>7. Used' = Used
  BY <1>1 DEF Used
<1>8. EnqTail(SegSize, tail, m.len) = Boundary(SegSize, tail + TotalLen(m.len))
  <2>1. SegSize \in Nat /\ tail \in 0..SegSize /\ Used \in 0..(SegSize - 1)
    BY Shapes, FirstMessage
  <2>2. m.len \in Nat /\ TotalLen(m.len) < SegSize
    BY <1>2, <2>1, MessageLen
  <2>3. QED BY <2>1, <2>2, EnqTailIsBoundary
<1>9. Producing(p)'
  BY <1>1, <1>2, <1>6, <1>7, <1>8 DEF Producing, At
<1>10. QED BY <1>1, <1>2, <1>5, <1>9, WriteStep

-------------------------------------------------------------------------------
(* The stores of tail and head.                                            *)

\* Going on from a boundary is going on in the ring.
LEMMA GoOn ==
  ASSUME NEW x \in 0..SegSize, NEW u \in Nat, NEW v \in Nat, u + v < SegSize
  PROVE  /\ Wrap(SegSize, Boundary(SegSize, x + u) + v) = Wrap(SegSize, x + (u + v))
         /\ Boundary(SegSize, Boundary(SegSize, x + u) + v) = Boundary(SegSize, x + (u + v))
         /\ Boundary(SegSize, x + u) \in 0..SegSize
BY SizeAssumption DEF Wrap, Boundary

\* The store of tail adds the message to the ring.
LEMMA RingGrows ==
  ASSUME IInv, FInv, NEW m \in Message, Used + TotalLen(m.len) < SegSize,
         \A j \in 0..(TotalLen(m.len) - 1) : At(m, tail, j),
         UNCHANGED <<mem, head, deq>>,
         tail' = Boundary(SegSize, tail + TotalLen(m.len)), enq' = Append(enq, m)
  PROVE  /\ RingSpells' /\ Histories'
         /\ Pending' = Pending + 1
         /\ Pending > 0 => Front(1)' = Front(1)
<1>1. PICK d \in [0..Pending -> 0..(SegSize - 1)] :
        Offsets(d) /\ Laid(d) /\ tail = Boundary(SegSize, head + d[Pending])
  BY DEF FInv, RingSpells
<1>2. Pending \in Nat /\ SegSize \in Nat /\ head \in 0..SegSize
  BY Shapes
<1>3. TotalLen(m.len) \in Nat /\ TotalLen(m.len) > 0
  BY MessageLen, LayoutAssumption
<1>n. PICK n \in Nat : n = Pending
  BY <1>2
<1> DEFINE T == TotalLen(m.len)
           e == [i \in 0..(n + 1) |-> IF i <= n THEN d[i] ELSE d[n] + T]
<1>4. d[n] \in 0..(SegSize - 1) /\ Used = d[n] /\ d[0] = 0
  <2>1. d[n] \in 0..(SegSize - 1)
    BY <1>2, <1>n
  <2>2. QED BY <1>1, <1>2, <1>n, <2>1, UsedIs DEF Offsets
<1>5. /\ Pending' = n + 1
      /\ \A i \in 1..n : Front(i)' = Front(i)
      /\ Front(n + 1)' = m
      /\ Histories'
  <2>1. /\ enq \in Seq(Message) /\ Len(deq) <= Len(enq)
        /\ Len(deq) \in Nat /\ Len(enq) \in Nat
        /\ \A i \in 1..Len(deq) : deq[i] = enq[i]
    BY Shapes DEF FInv, Histories
  <2>2. /\ enq' \in Seq(Message) /\ Len(enq') = Len(enq) + 1
        /\ \A i \in 1..Len(enq) : enq'[i] = enq[i]
        /\ enq'[Len(enq) + 1] = m
    BY <2>1
  <2>3. Pending' = n + 1
    BY <1>n, <2>1, <2>2 DEF Pending
  <2>4. \A i \in 1..n : Front(i)' = Front(i)
    BY <1>n, <2>1, <2>2 DEF Pending, Front
  <2>5. Len(deq) + (n + 1) = Len(enq) + 1
    BY <1>n, <2>1 DEF Pending
  <2>6. Front(n + 1)' = m
    BY <2>2, <2>5 DEF Front
  <2>7. Histories'
    BY <2>1, <2>2 DEF Histories
  <2>8. QED BY <2>3, <2>4, <2>6, <2>7
<1>6. Pending > 0 => Front(1)' = Front(1)
  BY <1>2, <1>n, <1>5
<1> HIDE DEF T
<1>7. n \in Nat /\ T \in Nat /\ T > 0 /\ d[n] + T < SegSize
  BY <1>2, <1>n, <1>3, <1>4 DEF T
<1>8. /\ e[n] = d[n] /\ e[n + 1] = d[n] + T /\ e[0] = 0
      /\ \A i \in 0..n : e[i] = d[i] /\ d[i] \in 0..(SegSize - 1)
  BY <1>2, <1>n, <1>4, <1>7
<1>9. e \in [0..(n + 1) -> 0..(SegSize - 1)]
  <2>1. ASSUME NEW i \in 0..(n + 1)
        PROVE  (IF i <= n THEN d[i] ELSE d[n] + T) \in 0..(SegSize - 1)
    <3>1. CASE i \in 0..n
      BY <1>7, <1>8, <3>1
    <3>2. CASE i = n + 1
      BY <1>2, <1>4, <1>7, <3>2
    <3>3. QED BY <1>7, <3>1, <3>2
  <2>2. QED BY <2>1 DEF e
<1> HIDE DEF e
<1>10. ASSUME NEW i \in 0..n
       PROVE  e[i + 1] = e[i] + TotalLen(Front(i + 1)'.len)
  <2>1. CASE i = n
    BY <1>5, <1>7, <1>8, <2>1 DEF T
  <2>2. CASE i # n
    <3>1. i \in 0..(Pending - 1) /\ i + 1 \in 0..n /\ i + 1 \in 1..n
      BY <1>n, <1>7, <2>2
    <3>2. d[i + 1] = d[i] + TotalLen(Front(i + 1).len)
      BY <1>1, <3>1 DEF Offsets
    <3>3. QED BY <1>5, <1>8, <3>1, <3>2
  <2>3. QED BY <2>1, <2>2
<1>11. ASSUME NEW i \in 0..(n + 1), NEW j \in 0..(n + 1), i <= j
       PROVE  e[i] + (j - i) <= e[j]
  <2>1. CASE j \in 0..n
    <3>1. i \in 0..Pending /\ j \in 0..Pending
      BY <1>n, <1>7, <1>11, <2>1
    <3>2. d[i] + (j - i) <= d[j]
      BY <1>1, <1>11, <3>1 DEF Offsets
    <3>3. i \in 0..n
      BY <1>7, <1>11, <2>1
    <3>4. QED BY <1>8, <2>1, <3>2, <3>3
  <2>2. CASE j = n + 1 /\ i \in 0..n
    <3>1. i \in 0..Pending /\ Pending \in 0..Pending /\ i <= Pending
      BY <1>n, <1>7, <2>2
    <3>2. d[i] + (n - i) <= d[n]
      BY <1>1, <1>n, <3>1 DEF Offsets
    <3>3. QED BY <1>7, <1>8, <2>2, <3>2
  <2>3. CASE j = n + 1 /\ i = n + 1
    BY <1>7, <1>8, <2>3
  <2>4. QED BY <1>7, <2>1, <2>2, <2>3
<1>12. ASSUME NEW i \in 0..n, NEW j \in 0..(TotalLen(Front(i + 1)'.len) - 1)
       PROVE  At(Front(i + 1), head + e[i], j)'
  <2>1. CASE i = n
    <3>1. Front(i + 1)' = m /\ e[i] = d[n] /\ j \in 0..(T - 1)
      BY <1>5, <1>7, <1>8, <1>12, <2>1 DEF T
    <3>2. At(m, tail, j)
      BY <3>1 DEF T
    <3>3. Wrap(SegSize, tail + j) = Wrap(SegSize, head + d[n] + j)
      <4>1. Wrap(SegSize, tail + j) = Wrap(SegSize, head + (d[n] + j))
        <5>1. d[n] \in Nat /\ j \in Nat /\ d[n] + j < SegSize
          BY <1>2, <1>4, <1>7, <3>1
        <5>2. tail = Boundary(SegSize, head + d[n])
          BY <1>1, <1>n
        <5>3. QED BY <1>2, <5>1, <5>2, GoOn
      <4>2. head + (d[n] + j) = head + d[n] + j
        BY <1>2, <1>4, <3>1
      <4>3. QED BY <4>1, <4>2
    <3>4. QED BY <3>1, <3>2, <3>3 DEF At
  <2>2. CASE i # n
    <3>1. i \in 0..(Pending - 1) /\ i + 1 \in 1..n /\ i \in 0..n
      BY <1>n, <1>7, <2>2
    <3>2. Front(i + 1)' = Front(i + 1) /\ e[i] = d[i]
      BY <1>5, <1>8, <3>1
    <3>3. At(Front(i + 1), head + d[i], j)
      BY <1>1, <1>12, <3>1, <3>2 DEF Laid
    <3>4. QED BY <3>2, <3>3 DEF At
  <2>3. QED BY <2>1, <2>2
<1>13. tail' = Boundary(SegSize, head + e[n + 1])
  <2>1. Boundary(SegSize, tail + T) = Boundary(SegSize, head + (d[n] + T))
    <3>1. d[n] \in Nat
      BY <1>2, <1>4
    <3>2. tail = Boundary(SegSize, head + d[n])
      BY <1>1, <1>n
    <3>3. QED BY <1>2, <1>7, <3>1, <3>2, GoOn
  <2>2. QED BY <1>8, <2>1 DEF T
<1>14. Offsets(e)' /\ Laid(e)'
  <2>1. Pending' - 1 = n
    BY <1>5, <1>7
  <2>2. QED BY <1>5, <1>8, <1>10, <1>11, <1>12, <2>1 DEF Offsets, Laid
<1>15. RingSpells'
  BY <1>5, <1>9, <1>13, <1>14 DEF RingSpells
<1>16. QED BY <1>n, <1>5, <1>6, <1>15

\* The store of tail publishes the message: its bytes are all in place, behind
\* those of the messages already there.
LEMMA EnqStoreFInv ==
  ASSUME FifoAssumption, IInv, IInv', FInv, NEW p \in Procs, EnqStore(p)
  PROVE  FInv'
<1> DEFINE m == loc[p].m
<1>1. /\ UNCHANGED <<created, mem, head, deq, msgCount, loc>>
      /\ OnlyP(p) /\ pc[p] = "enqStore" /\ pc'[p] = "enqCount"
      /\ tail' = loc[p].n /\ enq' = Append(enq, m)
  BY DEF EnqStore, IInv, TypeOK, PcOK, Goto, OnlyP
<1>2. /\ p \in Producers /\ InCall(p)
      /\ m \in Message /\ Used + TotalLen(m.len) < SegSize
  BY <1>1, BeforeWriting
<1>3. /\ \A j \in 0..(TotalLen(m.len) - 1) : At(m, tail, j)
      /\ tail' = Boundary(SegSize, tail + TotalLen(m.len))
  BY <1>1 DEF FInv, Producing
<1>4. /\ RingSpells' /\ Histories'
      /\ Pending' = Pending + 1
      /\ Pending > 0 => Front(1)' = Front(1)
  <2> HIDE DEF m
  <2>1. QED BY <1>1, <1>2, <1>3, RingGrows
<1>5. Counted'
  <2>1. Taken' = Taken
    BY <1>1 DEF Taken, TakenLabels, OnlyP
  <2>2. PICK s \in {0, 1} : Stored' = s
    BY DEF Stored
  <2>3. /\ msgCount \in Int /\ Pending \in Nat /\ Stored \in {0, 1} /\ Taken \in {0, 1}
        /\ 0 <= msgCount /\ msgCount + Stored + Taken <= Pending
    BY SizeAssumption, Shapes, FlagTypes DEF FInv, Counted, IInv, TypeOK, SharedOK
  <2>4. msgCount + s + Taken <= Pending + 1
    BY <2>3
  <2>5. msgCount' = msgCount /\ Pending' = Pending + 1
    BY <1>1, <1>4
  <2>6. QED BY <2>1, <2>2, <2>3, <2>4, <2>5 DEF Counted
<1>6. \A q \in Procs : pc'[q] \notin NoRepairLabels
  BY <1>1 DEF FInv, OnlyP, NoRepairLabels, ClrLabels
<1>7. ASSUME NEW q \in Procs PROVE Producing(q)' /\ Comsuming(q)'
  <2>1. CASE q = p
    BY <1>1, <2>1, Nothing DEF EnqLabels, DeqLabels
  <2>2. CASE q # p
    <3>1. /\ Comsuming(q) /\ pc'[q] = pc[q] /\ loc'[q] = loc[q]
          /\ pc[q] \notin EnqLabels
      BY <1>1, <1>2, <2>2, OthersAway DEF FInv, OnlyP
    <3>2. Producing(q)'
      BY <3>1 DEF Producing, EnqLabels
    <3>3. head' = head /\ msgCount' = msgCount /\ deq' = deq
      BY <1>1
    <3>4. Pending > 0 => Pending' > 0 /\ Front(1)' = Front(1)
      BY <1>4, Shapes
    <3>5. Comsuming(q)'
      BY <3>1, <3>3, <3>4 DEF Comsuming
    <3>6. QED BY <3>2, <3>5
  <2>3. QED BY <2>1, <2>2
<1>8. QED BY <1>1, <1>4, <1>5, <1>6, <1>7 DEF FInv

\* The copy that dequeue delivers is the first message.
LEMMA DeliveredIsFirst ==
  ASSUME FifoAssumption, NEW m \in Message, NEW buf, NEW n,
         n = TotalLen(m.len) - HeaderLen,
         \A i \in 0..(n - 1) : buf[i] = MsgByte(m, HeaderLen + i)
  PROVE  /\ n >= MSG_MAGIC_NUM_LEN
         /\ MagicAt(buf, n - MSG_MAGIC_NUM_LEN)
         /\ Delivered(buf, n) = m
<1>1. /\ m.len \in Nat /\ m.len # 0 /\ m.id \in 1..MaxMsgs
      /\ m = [id |-> m.id, len |-> m.len]
  BY SizeAssumption DEF Message, FifoAssumption
<1>2. /\ MSG_MAGIC_NUM_LEN \in Nat \ {0} /\ MSG_HEAD_SIZE \in Nat \ {0}
      /\ HeaderLen = MSG_MAGIC_NUM_LEN + MSG_HEAD_SIZE
      /\ n = m.len + MSG_MAGIC_NUM_LEN
  BY <1>1, LayoutAssumption DEF HeaderLen, TotalLen
<1>3. ASSUME NEW j \in 0..(MSG_MAGIC_NUM_LEN - 1)
      PROVE  buf[(n - MSG_MAGIC_NUM_LEN) + j] = MagicByte(j)
  <2> DEFINE i == (n - MSG_MAGIC_NUM_LEN) + j
  <2>1. /\ i \in 0..(n - 1) /\ ~(HeaderLen + i < MSG_MAGIC_NUM_LEN)
        /\ ~(HeaderLen + i < HeaderLen) /\ ~(HeaderLen + i < HeaderLen + m.len)
        /\ (HeaderLen + i) - HeaderLen - m.len = j
    BY <1>1, <1>2
  <2> HIDE DEF i
  <2>2. QED BY <2>1 DEF MsgByte, i
<1>4. ASSUME NEW j \in 0..(m.len - 1) PROVE buf[j] = DataByte(m.id, j)
  <2>1. /\ j \in 0..(n - 1) /\ ~(HeaderLen + j < MSG_MAGIC_NUM_LEN)
        /\ ~(HeaderLen + j < HeaderLen) /\ HeaderLen + j < HeaderLen + m.len
        /\ (HeaderLen + j) - HeaderLen = j
    BY <1>1, <1>2
  <2>2. QED BY <2>1 DEF MsgByte
<1> DEFINE Holds(id) == \A j \in 0..(m.len - 1) : buf[j] = DataByte(id, j)
<1>5. \A id \in 1..MaxMsgs : Holds(id) <=> id = m.id
  <2>1. ASSUME NEW id \in 1..MaxMsgs, Holds(id) PROVE id = m.id
    <3>1. 0 \in 0..(m.len - 1)
      BY <1>1
    <3>2. DataByte(id, 0) = DataByte(m.id, 0)
      BY <1>4, <2>1, <3>1
    <3>3. QED BY <3>2 DEF DataByte
  <2>2. QED BY <1>4, <2>1
<1>6. n - MSG_MAGIC_NUM_LEN = m.len
  BY <1>1, <1>2
<1>7. Delivered(buf, n) = IF \E id \in 1..MaxMsgs : Holds(id)
        THEN [id |-> CHOOSE id \in 1..MaxMsgs : Holds(id), len |-> m.len] ELSE Torn
  BY <1>6 DEF Delivered
<1> HIDE DEF Holds
<1>8. (CHOOSE id \in 1..MaxMsgs : Holds(id)) = m.id
  BY <1>1, <1>5
<1>9. Delivered(buf, n) = m
  BY <1>1, <1>5, <1>7, <1>8
<1>10. QED BY <1>1, <1>2, <1>3, <1>9 DEF MagicAt

\* Going on from the boundary behind the first T bytes.
LEMMA GoOnBehind ==
  ASSUME NEW x \in 0..SegSize, NEW T \in Nat, NEW v \in 0..(SegSize - 1), T <= v,
         NEW j \in Nat, v + j < SegSize, NEW h, h = Boundary(SegSize, x + T)
  PROVE  /\ Wrap(SegSize, h + (v - T) + j) = Wrap(SegSize, x + v + j)
         /\ Boundary(SegSize, h + (v - T)) = Boundary(SegSize, x + v)
         /\ h \in 0..SegSize
BY SizeAssumption DEF Wrap, Boundary

\* The store of head takes the first message out of the ring.
LEMMA RingShrinks ==
  ASSUME IInv, FInv, Pending > 0, UNCHANGED <<mem, tail, enq>>,
         head' = Boundary(SegSize, head + TotalLen(Front(1).len)),
         deq' = Append(deq, Front(1))
  PROVE  /\ RingSpells' /\ Histories'
         /\ Pending' = Pending - 1
         /\ Used' = Used - TotalLen(Front(1).len)
<1>1. PICK d \in [0..Pending -> 0..(SegSize - 1)] :
        Offsets(d) /\ Laid(d) /\ tail = Boundary(SegSize, head + d[Pending])
  BY DEF FInv, RingSpells
<1>2. Pending \in Nat /\ SegSize \in Nat /\ head \in 0..SegSize
  BY Shapes
<1>n. PICK n \in Nat : n = Pending - 1
  BY <1>2
<1>m. PICK m : m = Front(1)
  OBVIOUS
<1> DEFINE T == TotalLen(m.len)
           e == [i \in 0..n |-> d[i + 1] - d[1]]
<1>3. m \in Message /\ T \in Nat /\ T > 0
  <2>1. m \in Message
    BY <1>2, <1>m, Shapes
  <2>2. QED BY <2>1, MessageLen, LayoutAssumption
<1> HIDE DEF T
<1>4. /\ \A i \in 0..(n + 1) : d[i] \in 0..(SegSize - 1)
      /\ d[0] = 0 /\ d[1] = T
      /\ \A i \in 0..n : d[i + 1] = d[i] + TotalLen(Front(i + 1).len)
      /\ \A i, j \in 0..(n + 1) : i <= j => d[i] + (j - i) <= d[j]
      /\ Pending = n + 1
  <2>1. Pending = n + 1 /\ Pending - 1 = n
    BY <1>2, <1>n
  <2>2. /\ \A i \in 0..(n + 1) : d[i] \in 0..(SegSize - 1)
        /\ d[0] = 0
        /\ \A i \in 0..n : d[i + 1] = d[i] + TotalLen(Front(i + 1).len)
        /\ \A i, j \in 0..(n + 1) : i <= j => d[i] + (j - i) <= d[j]
    BY <1>1, <2>1 DEF Offsets
  <2>3. d[0 + 1] = d[0] + TotalLen(Front(0 + 1).len)
    BY <2>2
  <2>4. d[1] = T
    BY <1>3, <1>m, <2>2, <2>3 DEF T
  <2>5. QED BY <2>1, <2>2, <2>4
<1>5. /\ Pending' = n
      /\ \A i \in 1..n : Front(i)' = Front(i + 1)
      /\ Histories'
  <2>1. /\ enq \in Seq(Message) /\ Len(deq) <= Len(enq)
        /\ Len(deq) \in Nat /\ Len(enq) \in Nat
        /\ \A i \in 1..Len(deq) : deq[i] = enq[i]
        /\ deq \in Seq([id : 0..MaxMsgs, len : Nat])
    BY Shapes DEF FInv, Histories, IInv, TypeOK, HistoryOK
  <2>2. /\ Len(deq') = Len(deq) + 1
        /\ \A i \in 1..Len(deq) : deq'[i] = deq[i]
        /\ deq'[Len(deq) + 1] = enq[Len(deq) + 1]
    BY <2>1 DEF Front
  <2>3. Pending' = n
    BY <1>4, <2>1, <2>2 DEF Pending
  <2>4. \A i \in 1..n : Front(i)' = Front(i + 1)
    <3>1. ASSUME NEW i \in 1..n PROVE Front(i)' = Front(i + 1)
      <4>1. Len(deq') + i = Len(deq) + (i + 1)
        BY <2>1, <2>2
      <4>2. QED BY <4>1 DEF Front
    <3>2. QED BY <3>1
  <2>5. Histories'
    <3>1. Len(deq') <= Len(enq')
      BY <1>4, <2>1, <2>2 DEF Pending
    <3>2. ASSUME NEW i \in 1..Len(deq') PROVE deq'[i] = enq'[i]
      <4>1. i \in 1..Len(deq) \/ i = Len(deq) + 1
        BY <2>1, <2>2
      <4>2. QED BY <2>1, <2>2, <4>1
    <3>3. QED BY <2>1, <3>1, <3>2 DEF Histories
  <2>6. QED BY <2>3, <2>4, <2>5
<1>6. /\ \A i \in 0..n : e[i] = d[i + 1] - T
      /\ \A i \in 0..n : d[i + 1] \in 0..(SegSize - 1) /\ T <= d[i + 1]
      /\ e \in [0..n -> 0..(SegSize - 1)]
  <2>1. ASSUME NEW i \in 0..n
        PROVE  d[i + 1] \in 0..(SegSize - 1) /\ T <= d[i + 1]
    <3>1. i + 1 \in 0..(n + 1) /\ 1 \in 0..(n + 1) /\ 1 <= i + 1
      OBVIOUS
    <3>2. d[1] + ((i + 1) - 1) <= d[i + 1] /\ d[i + 1] \in 0..(SegSize - 1)
      BY <1>4, <3>1
    <3>3. d[1] = T
      BY <1>4
    <3>4. PICK y \in 0..(SegSize - 1) : y = d[i + 1]
      BY <3>2
    <3>5. T + ((i + 1) - 1) <= y
      BY <3>2, <3>3, <3>4
    <3>6. T <= y
      BY <1>2, <1>3, <3>5
    <3>7. QED BY <3>4, <3>6
  <2>2. ASSUME NEW i \in 0..n PROVE d[i + 1] - d[1] \in 0..(SegSize - 1)
    <3>1. PICK y \in 0..(SegSize - 1) : y = d[i + 1] /\ T <= y
      BY <2>1
    <3>2. y - T \in 0..(SegSize - 1)
      BY <1>2, <1>3, <3>1
    <3>3. QED BY <1>4, <3>1, <3>2
  <2>3. QED BY <1>4, <2>1, <2>2
<1> HIDE DEF e
<1>7. ASSUME NEW x \in 0..(SegSize - 1), T <= x, NEW j \in Nat, x + j < SegSize
      PROVE  /\ Wrap(SegSize, head' + (x - T) + j) = Wrap(SegSize, head + x + j)
             /\ Boundary(SegSize, head' + (x - T)) = Boundary(SegSize, head + x)
             /\ head' \in 0..SegSize
  <2>1. head' = Boundary(SegSize, head + T)
    BY <1>m DEF T
  <2>2. QED BY <1>2, <1>3, <1>7, <2>1, GoOnBehind
<1>8. tail' = Boundary(SegSize, head' + e[n]) /\ e[n] = Used - T /\ Used = d[n + 1]
      /\ head' \in 0..SegSize
  <2>1. e[n] = d[n + 1] - T /\ d[n + 1] \in 0..(SegSize - 1) /\ T <= d[n + 1]
    BY <1>6
  <2>2. Used = d[n + 1]
    BY <1>1, <1>2, <1>4, <2>1, UsedIs
  <2>3. tail = Boundary(SegSize, head + d[n + 1])
    BY <1>1, <1>4
  <2>4. d[n + 1] + 0 < SegSize
    BY <1>2, <2>1
  <2>5. QED BY <1>7, <2>1, <2>2, <2>3, <2>4
<1>9. ASSUME NEW i \in 0..(n - 1)
      PROVE  e[i + 1] = e[i] + TotalLen(Front(i + 1)'.len)
  <2>1. i \in 0..n /\ i + 1 \in 0..n /\ i + 1 \in 1..n
    OBVIOUS
  <2>2. d[(i + 1) + 1] = d[i + 1] + TotalLen(Front((i + 1) + 1).len)
    BY <1>4, <2>1
  <2>3. TotalLen(Front((i + 1) + 1).len) \in Nat
    <3>1. (i + 1) + 1 \in 1..Pending
      BY <1>4
    <3>2. QED BY <3>1, Shapes
  <2>4. e[i + 1] = d[(i + 1) + 1] - T /\ e[i] = d[i + 1] - T /\ d[i + 1] \in Nat
    BY <1>2, <1>6, <2>1
  <2>5. e[i + 1] = e[i] + TotalLen(Front((i + 1) + 1).len)
    BY <1>3, <2>2, <2>3, <2>4
  <2>6. QED BY <1>5, <2>1, <2>5
<1>10. ASSUME NEW i \in 0..n, NEW j \in 0..n, i <= j
       PROVE  e[i] + (j - i) <= e[j]
  <2>1. i + 1 \in 0..(n + 1) /\ j + 1 \in 0..(n + 1) /\ i + 1 <= j + 1
    BY <1>10
  <2>2. d[i + 1] + ((j + 1) - (i + 1)) <= d[j + 1]
    BY <1>4, <2>1
  <2>3. /\ e[i] = d[i + 1] - T /\ e[j] = d[j + 1] - T
        /\ d[i + 1] \in Nat /\ d[j + 1] \in Nat
    BY <1>2, <1>6, SMTT(60)
  <2>4. QED BY <1>3, <2>2, <2>3
<1>11. ASSUME NEW i \in 0..(n - 1), NEW j \in 0..(TotalLen(Front(i + 1)'.len) - 1)
       PROVE  At(Front(i + 1), head + e[i], j)'
  <2>1. /\ i + 1 \in 1..n /\ i + 1 \in 0..(Pending - 1) /\ i \in 0..n /\ i + 1 \in 0..n
        /\ (i + 1) + 1 \in 1..Pending
    BY <1>4
  <2>2. Front(i + 1)' = Front((i + 1) + 1)
    BY <1>5, <2>1
  <2>3. j \in 0..(TotalLen(Front((i + 1) + 1).len) - 1)
    BY <2>2
  <2>4. At(Front((i + 1) + 1), head + d[i + 1], j)
    BY <1>1, <2>1, <2>3 DEF Laid
  <2>5. d[i + 1] + j < SegSize /\ j \in Nat
    <3>1. d[(i + 1) + 1] = d[i + 1] + TotalLen(Front((i + 1) + 1).len)
      BY <1>4, <2>1
    <3>2. TotalLen(Front((i + 1) + 1).len) \in Nat
      BY <2>1, Shapes
    <3>3. (i + 1) + 1 \in 0..(n + 1) /\ i + 1 \in 0..(n + 1)
      BY <2>1
    <3>4. d[(i + 1) + 1] \in 0..(SegSize - 1) /\ d[i + 1] \in 0..(SegSize - 1)
      BY <1>4, <3>3
    <3>5. PICK t \in Nat : t = TotalLen(Front((i + 1) + 1).len)
      BY <3>2
    <3>6. j \in 0..(t - 1)
      BY <2>3, <3>5
    <3>7. PICK y \in 0..(SegSize - 1) : y = d[i + 1]
      BY <3>4
    <3>8. y + t < SegSize
      BY <1>2, <3>1, <3>4, <3>5, <3>7
    <3>9. QED BY <1>2, <3>6, <3>7, <3>8
  <2>6. e[i] = d[i + 1] - T /\ d[i + 1] \in 0..(SegSize - 1) /\ T <= d[i + 1]
    BY <1>6, <2>1
  <2>7. Wrap(SegSize, head' + e[i] + j) = Wrap(SegSize, head + d[i + 1] + j)
    BY <1>7, <2>5, <2>6
  <2>8. QED BY <2>2, <2>4, <2>7 DEF At
<1>12. RingSpells'
  <2>1. e[0] = 0
    <3>1. 0 \in 0..n /\ 0 + 1 = 1
      OBVIOUS
    <3>2. QED BY <1>3, <1>4, <1>6, <3>1
  <2>2. Offsets(e)'
    BY <1>5, <1>9, <1>10, <2>1 DEF Offsets
  <2>3. Laid(e)'
    BY <1>5, <1>11 DEF Laid
  <2>4. QED BY <1>5, <1>6, <1>8, <2>2, <2>3 DEF RingSpells
<1>13. Used' = Used - T
  <2>1. PICK u \in 0..(SegSize - 1) : u = e[n]
    BY <1>6
  <2>2. PICK h \in 0..SegSize : h = head'
    BY <1>8
  <2>3. tail' = Boundary(SegSize, h + u)
    BY <1>8, <2>1, <2>2
  <2>4. (IF h = Boundary(SegSize, h + u) THEN 0
          ELSE UsedLen(SegSize, h, Boundary(SegSize, h + u))) = u
    <3>1. SegSize \in Nat
      BY <1>2
    <3>2. QED BY <3>1 DEF UsedLen, Boundary
  <2>5. Used' = u
    BY <2>2, <2>3, <2>4 DEF Used
  <2>6. QED BY <1>8, <2>1, <2>5
<1>14. QED BY <1>4, <1>5, <1>12, <1>13, <1>m DEF T

\* What the store of head does: it takes the first message, whole.
LEMMA DeqStoreTakes ==
  ASSUME FifoAssumption, IInv, FInv, NEW p \in Procs, DeqStore(p)
  PROVE  /\ UNCHANGED <<created, mem, tail, msgCount, enq>> /\ pc[p] = "deqStore"
         /\ Pending > 0 /\ Front(1) \in Message
         /\ head' = Boundary(SegSize, head + TotalLen(Front(1).len))
         /\ deq' = Append(deq, Front(1)) /\ Len(deq') = Len(deq) + 1
         /\ Goto(p, "deqTrailer") /\ loc' = loc
         /\ TrailerOk(loc[p].buf, loc[p].n)
         /\ Delivered(loc[p].buf, loc[p].n) = Front(1)
<1>m. PICK m : m = Front(1)
  OBVIOUS
<1> DEFINE n == loc[p].n
           T == TotalLen(m.len)
<1>1. /\ UNCHANGED <<created, mem, tail, msgCount, enq>> /\ pc[p] = "deqStore"
      /\ head' = DeqHead(blockSize[p], HeaderEnd(blockSize[p], loc[p].h), n)
  BY DEF DeqStore
<1>2. /\ Pending > 0 /\ loc[p].h = head /\ blockSize[p] = SegSize
      /\ n = T - HeaderLen
      /\ \A i \in 0..(n - 1) : loc[p].buf[i] = MsgByte(m, HeaderLen + i)
  BY <1>1, <1>m DEF FInv, Comsuming, FifoAssumption, FullSize
<1>3. m \in Message /\ head \in 0..SegSize /\ Lies(m, head)
  BY <1>2, <1>m, FirstLies
<1> HIDE DEF n
<1>4. /\ TrailerOk(loc[p].buf, n)
      /\ Delivered(loc[p].buf, n) = m
  BY <1>2, <1>3, DeliveredIsFirst DEF TrailerOk
<1>5. /\ deq' = Append(deq, m) /\ Len(deq') = Len(deq) + 1
      /\ Goto(p, "deqTrailer") /\ loc' = loc
  <2>1. deq' = Append(deq, m) /\ Goto(p, "deqTrailer") /\ loc' = loc
    BY <1>4 DEF DeqStore, n
  <2>2. deq \in Seq([id : 0..MaxMsgs, len : Nat])
    BY DEF IInv, TypeOK, HistoryOK
  <2>3. QED BY <2>1, <2>2
<1>6. head' = Boundary(SegSize, head + T)
  BY <1>1, <1>2, <1>3, MessageLen, SizeAssumption, DeqHeadIsBoundary DEF Lies
<1>7. QED BY <1>1, <1>2, <1>3, <1>4, <1>5, <1>6, <1>m DEF n

\* dequeue delivers the first message and leaves its bytes to enqueue.
LEMMA DeqStoreFInv ==
  ASSUME FifoAssumption, IInv, IInv', FInv, NEW p \in Procs, DeqStore(p)
  PROVE  FInv'
<1>m. PICK m : m = Front(1)
  OBVIOUS
<1> DEFINE T == TotalLen(m.len)
<1>1. /\ UNCHANGED <<created, mem, tail, msgCount, enq>> /\ pc[p] = "deqStore"
      /\ Pending > 0 /\ m \in Message /\ deq' = Append(deq, m)
      /\ Goto(p, "deqTrailer") /\ loc' = loc /\ TrailerOk(loc[p].buf, loc[p].n)
      /\ Delivered(loc[p].buf, loc[p].n) = m /\ Len(deq') = Len(deq) + 1
      /\ head' = Boundary(SegSize, head + T)
  BY <1>m, DeqStoreTakes
<1>2. T \in Nat /\ SegSize \in Nat
  BY <1>1, MessageLen, SizeAssumption
<1>3. RingSpells' /\ Histories' /\ Pending' = Pending - 1 /\ Used' = Used - T
  BY <1>1, <1>m, RingShrinks
<1>4. pc'[p] = "deqTrailer" /\ OnlyP(p) /\ p \in Consumers /\ InCall(p)
  <2>1. pc'[p] = "deqTrailer" /\ OnlyP(p)
    BY <1>1, Moves DEF OnlyP
  <2>2. p \in Consumers /\ InCall(p)
    BY <1>1 DEF IInv, TypeOK, PcOK, InCall, Procs, Labels, DeqLabels
  <2>3. QED BY <2>1, <2>2
<1>5. Counted'
  <2>1. Stored' = Stored
    BY <1>1, <1>4 DEF Stored, OnlyP
  <2>2. Taken = 1
    BY <1>1 DEF Taken, TakenLabels
  <2>3. Taken' = 0
    <3>1. \A q \in Procs \ {p} : pc[q] \notin TakenLabels
      BY <1>4, OthersAway DEF DeqLabels, TakenLabels
    <3>2. QED BY <1>4, <3>1 DEF Taken, TakenLabels, OnlyP
  <2>4. /\ msgCount \in Int /\ Pending \in Nat /\ Stored \in {0, 1}
        /\ 0 <= msgCount /\ msgCount + Stored + Taken <= Pending
    BY SizeAssumption, Shapes, FlagTypes DEF FInv, Counted, IInv, TypeOK, SharedOK
  <2>5. msgCount + Stored + 0 <= Pending - 1
    BY <2>2, <2>4
  <2>6. msgCount' = msgCount /\ Pending' = Pending - 1
    BY <1>1, <1>3
  <2>7. QED BY <2>1, <2>3, <2>4, <2>5, <2>6 DEF Counted
<1>6. \A q \in Procs : pc'[q] \notin NoRepairLabels
  BY <1>4 DEF FInv, OnlyP, NoRepairLabels, ClrLabels
<1>7. ASSUME NEW q \in Procs PROVE Producing(q)' /\ Comsuming(q)'
  <2>1. CASE q = p
    <3>1. Len(deq') > 0 /\ deq'[Len(deq')] = m
      <4>1. deq \in Seq([id : 0..MaxMsgs, len : Nat]) /\ Len(deq) \in Nat
        BY DEF IInv, TypeOK, HistoryOK
      <4>2. QED BY <1>1, <4>1
    <3>2. QED BY <1>1, <1>4, <2>1, <3>1 DEF Producing, Comsuming
  <2>2. CASE q # p
    <3>1. /\ Producing(q) /\ pc'[q] = pc[q] /\ loc'[q] = loc[q]
          /\ pc[q] \notin DeqLabels /\ mem' = mem /\ tail' = tail
      BY <1>1, <1>4, <2>2, OthersAway DEF FInv, OnlyP
    <3>2. Comsuming(q)'
      BY <3>1 DEF Comsuming, DeqLabels
    <3>3. PICK u \in 0..(SegSize - 1), w \in 0..(SegSize - 1) :
            Used = u /\ Used' = w /\ w <= u
      <4>1. Used \in 0..(SegSize - 1) /\ T <= Used
        BY <1>1, <1>m, FirstMessage
      <4>2. Used - T \in 0..(SegSize - 1) /\ Used - T <= Used
        BY <1>2, <4>1
      <4>3. QED BY <1>3, <4>1, <4>2
    <3>4. pc[q] = "enqTail" =>
            \E v \in 0..(SegSize - 1) :
              Used' <= v /\ tail = Boundary(SegSize, loc[q].h + v)
      <4>1. SUFFICES ASSUME pc[q] = "enqTail"
                     PROVE  \E v \in 0..(SegSize - 1) :
                              w <= v /\ tail = Boundary(SegSize, loc[q].h + v)
        BY <3>3
      <4>2. PICK v \in 0..(SegSize - 1) :
              u <= v /\ tail = Boundary(SegSize, loc[q].h + v)
        BY <3>1, <3>3, <4>1 DEF Producing
      <4>3. w <= v
        BY <1>2, <3>3, <4>2
      <4>4. QED BY <4>2, <4>3
    <3>5. pc[q] \in {"enqHeader", "enqBody", "enqReload", "enqStore"} =>
            /\ loc[q].t = tail
            /\ loc[q].m \in Message
            /\ Used' + TotalLen(loc[q].m.len) < SegSize
      <4>1. SUFFICES ASSUME pc[q] \in {"enqHeader", "enqBody", "enqReload", "enqStore"}
                     PROVE  /\ loc[q].t = tail
                            /\ loc[q].m \in Message
                            /\ Used' + TotalLen(loc[q].m.len) < SegSize
        OBVIOUS
      <4>2. /\ loc[q].t = tail /\ loc[q].m \in Message
            /\ u + TotalLen(loc[q].m.len) < SegSize
        BY <3>1, <3>3, <4>1 DEF Producing
      <4>3. TotalLen(loc[q].m.len) \in Nat
        BY <4>2, MessageLen
      <4>4. w + TotalLen(loc[q].m.len) < SegSize
        BY <1>2, <3>3, <4>2, <4>3
      <4>5. QED BY <3>3, <4>2, <4>4
    <3>6. Producing(q)'
      BY <3>1, <3>4, <3>5 DEF Producing, At
    <3>7. QED BY <3>2, <3>6
  <2>3. QED BY <2>1, <2>2
<1>8. created'
  BY <1>1 DEF FInv
<1>9. QED BY <1>3, <1>5, <1>6, <1>7, <1>8 DEF FInv

\* The test of the trailing magic number passes: dequeue returns.
LEMMA DeqTrailerReturns ==
  ASSUME FInv, NEW p \in Procs, DeqTrailer(p)
  PROVE  /\ pc[p] = "deqTrailer" /\ Return(p) /\ Len(deq) > 0
         /\ got' = Append(got, deq[Len(deq)])
         /\ UNCHANGED <<shared, nextId, enq, deq, bounds>>
BY DEF DeqTrailer, FInv, Comsuming

LEMMA DeqTrailerFInv ==
  ASSUME IInv, IInv', FInv, NEW p \in Procs, DeqTrailer(p) PROVE FInv'
<1>1. Return(p) /\ UNCHANGED <<shared, enq, deq>>
  BY DeqTrailerReturns
<1>2. QED BY <1>1, Returns, OutsideStep DEF shared

-------------------------------------------------------------------------------
(* The invariant.                                                          *)

\* The repairs, and the calls of clearMQ, have no one to take them.
LEMMA NoRepairSteps ==
  ASSUME FifoAssumption, IInv, FInv, NEW p \in Procs
  PROVE  /\ ~InitMemset(p) /\ ~ReCheck(p) /\ ~ReHead(p) /\ ~ReTail(p)
         /\ ~Check(p) /\ ~CheckProc(p) /\ ~ClearMQ(p)
         /\ ~ClrPid(p) /\ ~ClrHead(p) /\ ~ClrTail(p) /\ ~ClrCount(p) /\ ~ClrDone(p)
<1>1. pc[p] \notin NoRepairLabels
  BY DEF FInv
<1>2. ~ClearMQ(p)
  BY DEF ClearMQ, FifoAssumption, IInv, TypeOK, HistoryOK
<1>3. QED
  BY <1>1, <1>2
  DEF NoRepairLabels, ClrLabels, InitMemset, ReCheck, ReHead, ReTail, ReLoad, Check,
      CheckProc, ClrPid, ClrHead, ClrTail, ClrCount, ClrDone

\* The queue begins empty.
LEMMA InitFInv == ASSUME FifoAssumption, Init PROVE FInv
<1>1. created
  BY DEF Init, FifoAssumption
<1>2. Len(enq) = 0 /\ Len(deq) = 0 /\ Pending = 0 /\ enq \in Seq(Message)
  BY DEF Init, Pending
<1>3. Histories
  BY <1>2 DEF Histories
<1>4. Counted
  BY <1>2 DEF Init, Counted, Stored, Taken, TakenLabels, FifoAssumption
<1>5. SegSize \in Nat /\ SegSize > 0
  <2>1. PICK p \in Procs : TRUE
    BY DEF FifoAssumption
  <2>2. blockSize[p] \in HeaderLen..SegSize
    BY SizeAssumption
  <2>3. QED BY <2>2, SizeAssumption, LayoutAssumption DEF HeaderLen
<1>6. RingSpells
  <2> DEFINE d == [i \in 0..0 |-> 0]
  <2>1. d \in [0..Pending -> 0..(SegSize - 1)] /\ d[0] = 0
    BY <1>2, <1>5
  <2>2. Offsets(d) /\ Laid(d)
    BY <1>2, <2>1 DEF Offsets, Laid
  <2>3. tail = Boundary(SegSize, head + d[Pending])
    BY <1>2, <1>5, <2>1 DEF Init, Boundary
  <2>4. QED BY <2>1, <2>2, <2>3 DEF RingSpells
<1>7. \A p \in Procs : pc[p] = "idle"
  BY DEF Init, FifoAssumption
<1>8. \A p \in Procs : pc[p] \notin NoRepairLabels
  BY <1>7 DEF NoRepairLabels, ClrLabels
<1>9. \A p \in Procs : Producing(p) /\ Comsuming(p)
  BY <1>7 DEF Producing, Comsuming
<1>10. QED BY <1>1, <1>3, <1>4, <1>6, <1>8, <1>9 DEF FInv

\* Every step keeps it.
LEMMA NextFInv ==
  ASSUME FifoAssumption, IInv, IInv', FInv, [Next]_vars PROVE FInv'
<1>1. ASSUME NEW p \in Producers, NEW len \in Lens, Produce(p, len) PROVE FInv'
  BY <1>1, OutsideSteps DEF Procs
<1>2. ASSUME NEW p \in Consumers, Comsume(p) PROVE FInv'
  BY <1>2, ComsumeFInv DEF Procs
<1>3. ASSUME NEW p \in Procs, Step(p) PROVE FInv'
  <2>1. CASE Attach(p) \/ InitPid(p)
    BY <2>1, OutsideSteps
  <2>2. CASE EnqHead(p) \/ EnqTailLoad(p) \/ EnqHeader(p) \/ EnqBody(p)
    BY <2>2, EnqHeadFInv, EnqTailLoadFInv, EnqHeaderFInv, EnqBodyFInv
  <2>3. CASE EnqReload(p) \/ EnqStore(p) \/ EnqCount(p)
    BY <2>3, EnqReloadFInv, EnqStoreFInv, EnqCountFInv
  <2>4. CASE DeqHeadLoad(p) \/ DeqTailLoad(p) \/ DeqCount(p)
    BY <2>4, DeqHeadLoadFInv, DeqTailLoadFInv, DeqCountFInv
  <2>5. CASE DeqHeader(p) \/ DeqCopy(p) \/ DeqStore(p) \/ DeqTrailer(p)
    BY <2>5, DeqHeaderFInv, DeqCopyFInv, DeqStoreFInv, DeqTrailerFInv
  <2>6. QED BY <1>3, <2>1, <2>2, <2>3, <2>4, <2>5, NoRepairSteps DEF Step
<1>4. ASSUME NEW p \in Procs, ClearMQ(p) PROVE FInv'
  BY <1>4, NoRepairSteps
<1>5. ASSUME NEW p \in Procs, Crash(p) PROVE FInv'
  BY <1>5, OutsideSteps
<1>6. CASE UNCHANGED vars
  BY <1>6, ZenonT(60)
  DEF vars, shared, history, bounds, FInv, Histories, RingSpells, Offsets, Laid, At, Front,
      Pending, Counted, Stored, Taken, Producing, Comsuming, Used
<1>7. QED BY <1>1, <1>2, <1>3, <1>4, <1>5, <1>6 DEF Next

-------------------------------------------------------------------------------
\* FInv holds in every reachable state.
LEMMA FifoInvariance == ASSUME FifoAssumption PROVE Spec => []FInv
<1>1. Init => FInv
  BY InitFInv
<1>2. IInv /\ IInv' /\ FInv /\ [Next]_vars => FInv'
  BY NextFInv
<1>3. QED BY <1>1, <1>2, Invariance, PTL DEF Spec

\* Nobody ever finds the ring messed up: with processes that crash at any step
\* but do not clear, no test of dequeue or check fails, whatever the interleaving.
THEOREM RingStaysWhole == ASSUME FifoAssumption PROVE Spec => []NoRepair
<1>1. FInv => NoRepair
  BY DEF FInv, NoRepair, NoRepairLabels, ClrLabels
<1>2. QED BY <1>1, FifoInvariance, PTL

\* The counter never promises a message that is not in the ring.
THEOREM CounterKeepsBehind == ASSUME FifoAssumption PROVE Spec => []CountNeverAhead
<1>1. IInv /\ FInv => CountNeverAhead
  <2> SUFFICES ASSUME IInv, FInv PROVE CountNeverAhead
    OBVIOUS
  <2>1. msgCount \in Int /\ Pending \in Nat
    BY SizeAssumption, Shapes DEF IInv, TypeOK, SharedOK
  <2>2. QED BY <2>1, FlagTypes DEF FInv, Counted, CountNeverAhead, Pending
<1>2. QED BY <1>1, Invariance, FifoInvariance, PTL

-------------------------------------------------------------------------------
(* What comsume returns, of what was taken off the ring.                   *)

\* Whether a consumer has stored head and not yet returned.
Held == IF \E p \in Procs : pc[p] = "deqTrailer" THEN 1 ELSE 0

\* at says where in deq the messages returned are: in order, each once, and none is
\* the one that a consumer still holds.
ReturnedAt(at) ==
  /\ \A i, j \in 1..Len(got) : i < j => at[i] < at[j]
  /\ \A i \in 1..Len(got) : got[i] = deq[at[i]]
  /\ Held = 1 => \A i \in 1..Len(got) : at[i] < Len(deq)

\* The invariant of the returns: what was taken and not returned is held by a
\* consumer or was lost by a crash.
GInv ==
  /\ \E at \in [1..Len(got) -> 1..Len(deq)] : ReturnedAt(at)
  /\ Len(deq) - Len(got) <= crashes + Held

\* The numbers that GInv is about.
LEMMA ReturnTypes ==
  ASSUME IInv
  PROVE  /\ Len(got) \in Nat /\ Len(deq) \in Nat /\ crashes \in Nat /\ Held \in {0, 1}
         /\ deq \in Seq([id : 0..MaxMsgs, len : Nat])
         /\ got \in Seq([id : 0..MaxMsgs, len : Nat])
BY BoundAssumption DEF IInv, TypeOK, HistoryOK, Held

\* Only one process can be between its store of head and its return.
LEMMA HeldAlone ==
  ASSUME IInv, NEW p \in Procs, pc[p] \in DeqLabels
  PROVE  \A q \in Procs \ {p} : pc[q] # "deqTrailer"
<1>1. p \in Consumers /\ InCall(p)
  BY DEF IInv, TypeOK, PcOK, InCall, Procs, Labels, DeqLabels
<1>2. QED BY <1>1, OthersAway DEF DeqLabels

\* A step that neither takes nor returns a message.
LEMMA NothingReturned ==
  ASSUME IInv, GInv, UNCHANGED <<deq, got>>, crashes' \in Nat,
         Held' = 1 => Held = 1, crashes + Held <= crashes' + Held'
  PROVE  GInv'
<1>1. \A at : ReturnedAt(at) => ReturnedAt(at)'
  BY DEF ReturnedAt
<1>2. \E at \in [1..Len(got) -> 1..Len(deq)] : ReturnedAt(at)'
  BY <1>1 DEF GInv
<1>3. Held' \in {0, 1}
  BY DEF Held
<1>4. QED BY <1>2, <1>3, ReturnTypes DEF GInv

\* The store of head takes a message, which its consumer holds.
LEMMA DeqStoreGInv ==
  ASSUME FifoAssumption, IInv, FInv, GInv, NEW p \in Procs, DeqStore(p) PROVE GInv'
<1>1. /\ pc[p] = "deqStore" /\ Goto(p, "deqTrailer") /\ UNCHANGED <<got, crashes>>
      /\ deq' = Append(deq, Front(1)) /\ Len(deq') = Len(deq) + 1
  BY DeqStoreTakes DEF DeqStore, bounds
<1>2. Held = 0 /\ Held' = 1
  <2>1. Held = 0
    BY <1>1, HeldAlone DEF Held, DeqLabels
  <2>2. pc'[p] = "deqTrailer"
    BY <1>1, Moves
  <2>3. QED BY <2>1, <2>2 DEF Held
<1>3. PICK at \in [1..Len(got) -> 1..Len(deq)] : ReturnedAt(at)
  BY DEF GInv
<1>4. /\ Len(deq) \in Nat /\ Len(got) \in Nat
      /\ \A i \in 1..Len(deq) : deq'[i] = deq[i]
  <2>1. deq \in Seq([id : 0..MaxMsgs, len : Nat])
    BY ReturnTypes
  <2>2. QED BY <1>1, <2>1, ReturnTypes
<1>5. \A i \in 1..Len(got) : at[i] \in 1..Len(deq) /\ at[i] < Len(deq')
  BY <1>1, <1>3, <1>4
<1>6. ReturnedAt(at)'
  BY <1>1, <1>3, <1>4, <1>5 DEF ReturnedAt
<1>7. at \in [1..Len(got') -> 1..Len(deq')]
  BY <1>1, <1>3, <1>4
<1>8. Len(deq') - Len(got') <= crashes' + Held'
  BY <1>1, <1>2, ReturnTypes DEF GInv
<1>9. QED BY <1>6, <1>7, <1>8 DEF GInv

\* The return gives it to the user.
LEMMA DeqTrailerGInv ==
  ASSUME IInv, FInv, GInv, NEW p \in Procs, DeqTrailer(p) PROVE GInv'
<1> DEFINE n == Len(got)
           k == Len(deq)
<1>1. /\ pc[p] = "deqTrailer" /\ Return(p) /\ UNCHANGED <<deq, crashes>>
      /\ got' = Append(got, deq[k]) /\ k > 0
  BY DeqTrailerReturns DEF bounds
<1>2. Held = 1 /\ Held' = 0
  <2>1. pc'[p] = "idle" /\ \A q \in Procs \ {p} : pc'[q] = pc[q]
    BY <1>1, Returns DEF OnlyP
  <2>2. \A q \in Procs \ {p} : pc[q] # "deqTrailer"
    BY <1>1, HeldAlone DEF DeqLabels
  <2>3. QED BY <1>1, <2>1, <2>2 DEF Held
<1>3. PICK at \in [1..n -> 1..k] : ReturnedAt(at)
  BY DEF GInv
<1>4. /\ n \in Nat /\ k \in Nat /\ Len(got') = n + 1
      /\ \A i \in 1..n : got'[i] = got[i]
      /\ got'[n + 1] = deq[k]
  <2>1. got \in Seq([id : 0..MaxMsgs, len : Nat]) /\ n \in Nat /\ k \in Nat
    BY ReturnTypes
  <2>2. deq \in Seq([id : 0..MaxMsgs, len : Nat])
    BY ReturnTypes
  <2>3. deq[k] \in [id : 0..MaxMsgs, len : Nat]
    <3>1. k \in 1..Len(deq)
      BY <1>1, <2>1
    <3>2. QED BY <2>2, <3>1, ElementOfSeq
  <2>4. QED BY <1>1, <2>1, <2>3, AppendProperties
<1> HIDE DEF n, k
<1>5. /\ \A i \in 1..n : at[i] \in 1..k /\ at[i] < k /\ got[i] = deq[at[i]]
      /\ \A i, j \in 1..n : i < j => at[i] < at[j]
  BY <1>2, <1>3 DEF ReturnedAt, n, k
<1>6. PICK new \in [1..(n + 1) -> 1..k] :
        (\A i \in 1..n : new[i] = at[i]) /\ new[n + 1] = k
  <2> DEFINE f == [i \in 1..(n + 1) |-> IF i <= n THEN at[i] ELSE k]
  <2>1. f \in [1..(n + 1) -> 1..k] /\ (\A i \in 1..n : f[i] = at[i]) /\ f[n + 1] = k
    BY <1>1, <1>4, <1>5
  <2>2. QED BY <2>1
<1>7. \A i, j \in 1..(n + 1) : i < j => new[i] < new[j]
  <2>1. SUFFICES ASSUME NEW i \in 1..(n + 1), NEW j \in 1..(n + 1), i < j
                 PROVE  new[i] < new[j]
    OBVIOUS
  <2>2. i \in 1..n /\ (j \in 1..n \/ j = n + 1)
    BY <1>4, <2>1
  <2>3. QED BY <1>5, <1>6, <2>1, <2>2
<1>8. \A i \in 1..(n + 1) : got'[i] = deq[new[i]]
  <2>1. SUFFICES ASSUME NEW i \in 1..(n + 1) PROVE got'[i] = deq[new[i]]
    OBVIOUS
  <2>2. i \in 1..n \/ i = n + 1
    BY <1>4
  <2>3. QED BY <1>4, <1>5, <1>6, <2>2
<1>9. ReturnedAt(new)'
  BY <1>1, <1>2, <1>4, <1>7, <1>8 DEF ReturnedAt
<1>10. new \in [1..Len(got') -> 1..Len(deq')]
  BY <1>1, <1>4, <1>6 DEF k
<1>11. Len(deq') - Len(got') <= crashes' + Held'
  BY <1>1, <1>2, <1>4, ReturnTypes DEF GInv, n, k
<1>12. QED BY <1>9, <1>10, <1>11 DEF GInv

\* A crash may lose what the process holds, and no more.
LEMMA CrashGInv ==
  ASSUME IInv, GInv, NEW p \in Procs, Crash(p) PROVE GInv'
<1>1. /\ UNCHANGED <<deq, got>> /\ crashes' = crashes + 1
      /\ pc'[p] = "out" /\ \A q \in Procs \ {p} : pc'[q] = pc[q]
  BY Moves DEF Crash, history
<1>2. Held' = 1 => Held = 1
  BY <1>1 DEF Held
<1>3. Held' \in {0, 1}
  BY DEF Held
<1>4. QED BY <1>1, <1>2, <1>3, ReturnTypes, NothingReturned

\* Every other step of p passes neither the store of head nor the return.
LEMMA OtherGInv ==
  ASSUME IInv, GInv, NEW p \in Procs, \A q \in Procs \ {p} : pc'[q] = pc[q],
         UNCHANGED <<deq, got, crashes>>, pc[p] # "deqTrailer", pc'[p] # "deqTrailer"
  PROVE  GInv'
<1>1. Held' = Held
  BY DEF Held
<1>2. QED BY <1>1, ReturnTypes, NothingReturned

\* Every step keeps the invariant of the returns.
LEMMA NextGInv ==
  ASSUME FifoAssumption, IInv, FInv, GInv, [Next]_vars PROVE GInv'
<1> DEFINE Other(p) ==
      /\ UNCHANGED <<deq, got, crashes>> /\ pc[p] # "deqTrailer"
      /\ pc' = pc \/ \E l \in Labels \ {"deqTrailer"} : Goto(p, l)
<1>1. ASSUME NEW p \in Procs, Other(p) PROVE GInv'
  <2>1. (\A q \in Procs \ {p} : pc'[q] = pc[q]) /\ pc'[p] # "deqTrailer"
    BY <1>1, Moves
  <2>2. QED BY <1>1, <2>1, OtherGInv
<1>2. ASSUME NEW p \in Procs, Step(p) PROVE GInv'
  <2>1. CASE Attach(p) \/ InitPid(p)
    <3>1. Other(p)
      BY <2>1 DEF Attach, InitPid, Labels, history, bounds
    <3>2. QED BY <1>1, <3>1
  <2>2. CASE EnqHead(p) \/ EnqTailLoad(p) \/ EnqHeader(p) \/ EnqBody(p)
    <3>1. Other(p)
      BY <2>2 DEF EnqHead, EnqTailLoad, EnqHeader, EnqBody, Return, Labels, EnqLabels,
                  history, bounds
    <3>2. QED BY <1>1, <3>1
  <2>3. CASE EnqReload(p) \/ EnqStore(p) \/ EnqCount(p)
    <3>1. Other(p)
      BY <2>3 DEF EnqReload, EnqStore, EnqCount, Return, Labels, EnqLabels, history, bounds
    <3>2. QED BY <1>1, <3>1
  <2>4. CASE DeqHeadLoad(p) \/ DeqTailLoad(p) \/ DeqCount(p) \/ DeqCopy(p)
    <3>1. Other(p)
      BY <2>4 DEF DeqHeadLoad, DeqTailLoad, DeqCount, DeqCopy, Return, Labels, DeqLabels,
                  history, bounds
    <3>2. QED BY <1>1, <3>1
  <2>5. CASE DeqHeader(p)
    <3>1. UNCHANGED <<deq, got, crashes>> /\ pc[p] = "deqHeader"
      BY <2>5 DEF DeqHeader, history, bounds
    <3>2. Goto(p, "reCheck") \/ Goto(p, "idle") \/ Goto(p, "deqCopy")
      BY <2>5 DEF DeqHeader, Return
    <3>3. Other(p)
      BY <3>1, <3>2 DEF Labels, DeqLabels
    <3>4. QED BY <1>1, <3>3
  <2>6. QED
    BY <1>2, <2>1, <2>2, <2>3, <2>4, <2>5, DeqStoreGInv, DeqTrailerGInv, NoRepairSteps
    DEF Step
<1>3. ASSUME NEW p \in Producers, NEW len \in Lens, Produce(p, len) PROVE GInv'
  <2>1. p \in Procs /\ Other(p)
    BY <1>3 DEF Produce, Procs, Labels, EnqLabels, history, bounds
  <2>2. QED BY <1>1, <2>1
<1>4. ASSUME NEW p \in Consumers, Comsume(p) PROVE GInv'
  <2>1. p \in Procs /\ Other(p)
    BY <1>4 DEF Comsume, Procs, Labels, DeqLabels, history, bounds
  <2>2. QED BY <1>1, <2>1
<1>5. ASSUME NEW p \in Procs, ClearMQ(p) PROVE FALSE
  BY <1>5, NoRepairSteps
<1>6. CASE UNCHANGED vars
  <2>1. UNCHANGED <<deq, got, crashes>> /\ Held' = Held
    BY <1>6 DEF vars, history, bounds, Held
  <2>2. QED BY <2>1, ReturnTypes, NothingReturned
<1>7. QED BY <1>2, <1>3, <1>4, <1>5, <1>6, CrashGInv DEF Next

\* The processes between a store of head and the return, in number.
LEMMA HeldIs ==
  ASSUME IInv PROVE Cardinality({p \in Procs : pc[p] = "deqTrailer"}) = Held
<1> DEFINE S == {p \in Procs : pc[p] = "deqTrailer"}
<1>1. CASE \E p \in Procs : pc[p] = "deqTrailer"
  <2>1. PICK p \in Procs : pc[p] = "deqTrailer"
    BY <1>1
  <2>2. S = {p}
    BY <2>1, HeldAlone DEF DeqLabels
  <2>3. QED BY <1>1, <2>2, FS_Singleton DEF Held
<1>2. CASE ~\E p \in Procs : pc[p] = "deqTrailer"
  <2>1. S = {}
    BY <1>2
  <2>2. QED BY <1>2, <2>1, FS_EmptySet DEF Held
<1>3. QED BY <1>1, <1>2

\* Messages leave the ring once, whole, in the order they were published, and are
\* returned in that order, except those whose consumer crashed before its return.
THEOREM FirstInFirstOut == ASSUME FifoAssumption PROVE Spec => []DeliveredInOrder
<1>1. Init => GInv
  <2> SUFFICES ASSUME Init PROVE GInv
    OBVIOUS
  <2>1. got = << >> /\ Len(got) = 0 /\ Len(deq) = 0 /\ Held = 0 /\ crashes = 0
    BY DEF Init, Held, FifoAssumption
  <2>2. \A at : ReturnedAt(at)
    BY <2>1 DEF ReturnedAt
  <2>3. \E at : at \in [1..Len(got) -> 1..Len(deq)]
    <3>1. [i \in 1..Len(got) |-> i] \in [1..Len(got) -> 1..Len(deq)]
      BY <2>1
    <3>2. QED BY <3>1
  <2>4. \E at \in [1..Len(got) -> 1..Len(deq)] : ReturnedAt(at)
    BY <2>2, <2>3
  <2>5. Len(deq) - Len(got) <= crashes + Held
    BY <2>1
  <2>6. QED BY <2>4, <2>5 DEF GInv
<1>2. IInv /\ FInv /\ GInv /\ [Next]_vars => GInv'
  BY NextGInv
<1>3. IInv /\ FInv /\ GInv => DeliveredInOrder
  <2> SUFFICES ASSUME IInv, FInv, GInv PROVE DeliveredInOrder
    OBVIOUS
  <2>1. \E at \in [1..Len(got) -> 1..Len(deq)] :
          /\ \A i, j \in 1..Len(got) : i < j => at[i] < at[j]
          /\ \A i \in 1..Len(got) : got[i] = deq[at[i]]
    BY DEF GInv, ReturnedAt
  <2>2. Len(deq) - Len(got) <= crashes + Cardinality({p \in Procs : pc[p] = "deqTrailer"})
    BY HeldIs DEF GInv
  <2>3. QED BY <2>1, <2>2 DEF FInv, Histories, DeliveredInOrder
<1>4. QED BY <1>1, <1>2, <1>3, Invariance, FifoInvariance, PTL DEF Spec

-------------------------------------------------------------------------------
(* The bytes of the ring refine the FIFO queue of MessageFifo.             *)

\* One step of Parse, with f for what Parse says of fewer bytes.
Parsed(f, u, h) ==
  IF u = 0 THEN << >>
  ELSE IF ~WholeAt(h, u) THEN <<Torn>>
  ELSE <<Delivered(BodyAt(h), TotalAt(h) - HeaderLen)>>
         \o f[u - TotalAt(h)][NextAt(h)]

\* Parsed needs of f what it says of fewer bytes.
LEMMA ParsedLess ==
  ASSUME NEW n \in Nat, NEW u \in 0..n, NEW h, NEW f, NEW g,
         \A v \in 0..(n - 1) : g[v] = f[v]
  PROVE  Parsed(g, u, h) = Parsed(f, u, h)
<1>1. CASE u = 0 \/ ~WholeAt(h, u)
  BY <1>1 DEF Parsed
<1>2. CASE u # 0 /\ WholeAt(h, u)
  <2>1. TotalAt(h) \in TotalLen(0)..u
    BY <1>2 DEF WholeAt
  <2>2. TotalLen(0) \in Nat \ {0}
    BY LayoutAssumption DEF TotalLen
  <2>3. u - TotalAt(h) \in 0..(n - 1)
    BY <2>1, <2>2
  <2>4. QED BY <1>2, <2>3 DEF Parsed
<1>3. QED BY <1>1, <1>2

\* The recursive function Parse exists: it satisfies its defining equation.
LEMMA ParseIs ==
  ASSUME NEW u \in 0..SegSize, NEW h \in 0..SegSize
  PROVE  Parse[u][h] = Parsed(Parse, u, h)
<1> DEFINE Approx(f, n) ==
      f = [v \in 0..n |-> [x \in 0..SegSize |-> Parsed(f, v, x)]]
<1>1. SegSize \in Nat
  BY SizeAssumption
<1>2. \A n \in 0..SegSize : \E f : Approx(f, n)
  <2> DEFINE Bad == {n \in 0..SegSize : ~\E f : Approx(f, n)}
  <2>1. SUFFICES ASSUME Bad # {} PROVE FALSE
    OBVIOUS
  <2>2. Bad \in SUBSET Nat
    BY <1>1
  <2>3. PICK n \in Bad : \A k \in Bad : n <= k
    <3> HIDE DEF Bad
    <3>1. QED BY <2>1, <2>2, LeastNat
  <2>4. n \in 0..SegSize
    OBVIOUS
  <2>5. CASE n = 0
    <3> DEFINE f == [v \in 0..0 |-> [x \in 0..SegSize |-> << >>]]
    <3>1. \A x \in 0..SegSize : Parsed(f, 0, x) = << >>
      BY DEF Parsed
    <3>2. [x \in 0..SegSize |-> << >>] = [x \in 0..SegSize |-> Parsed(f, 0, x)]
      BY <3>1
    <3>3. \A v \in 0..0 : v = 0
      OBVIOUS
    <3> HIDE DEF f
    <3>4. f = [v \in 0..0 |-> [x \in 0..SegSize |-> Parsed(f, v, x)]]
      BY <3>2, <3>3 DEF f
    <3>5. QED BY <2>5, <3>4
  <2>6. CASE n # 0
    <3>1. n - 1 \in 0..SegSize /\ ~(n <= n - 1) /\ n \in Nat
      BY <1>1, <2>4, <2>6
    <3>2. PICK f : Approx(f, n - 1)
      BY <2>3, <3>1
    <3> DEFINE g == [v \in 0..n |-> [x \in 0..SegSize |-> Parsed(f, v, x)]]
    <3>3. \A v \in 0..(n - 1) : g[v] = f[v]
      <4>1. \A v \in 0..(n - 1) : v \in 0..n
        BY <3>1
      <4>2. QED BY <3>2, <4>1
    <3>4. \A v \in 0..n, x \in 0..SegSize : Parsed(g, v, x) = Parsed(f, v, x)
      <4> HIDE DEF g
      <4>1. QED BY <3>1, <3>3, ParsedLess
    <3>5. Approx(g, n)
      <4> DEFINE k == [v \in 0..n |-> [x \in 0..SegSize |-> Parsed(g, v, x)]]
      <4>1. g = k
        <5> HIDE DEF g
        <5>1. k = [v \in 0..n |-> [x \in 0..SegSize |-> Parsed(f, v, x)]]
          BY <3>4
        <5>2. QED BY <5>1 DEF g
      <4>2. QED BY <4>1
    <3>6. QED BY <3>5
  <2>7. QED BY <2>5, <2>6
<1>3. PICK f : Approx(f, SegSize)
  BY <1>1, <1>2, SMTT(60)
<1>4. Parse = CHOOSE g : Approx(g, SegSize)
  BY DEF Parse, Parsed
<1>5. Approx(Parse, SegSize)
  BY <1>3, <1>4
<1> DEFINE Row(v) == [x \in 0..SegSize |-> Parsed(Parse, v, x)]
<1>6. Row(u)[h] = Parsed(Parse, u, h)
  OBVIOUS
<1>7. Parse = [v \in 0..SegSize |-> Row(v)]
  BY <1>5
<1> HIDE DEF Row
<1>8. Parse[u] = Row(u)
  BY <1>7
<1>9. QED BY <1>6, <1>8

-------------------------------------------------------------------------------
(* What Parse makes of the messages in the ring.                           *)

\* A message that lies at h is parsed as the message it is.
LEMMA ParseMessage ==
  ASSUME FifoAssumption, NEW m \in Message, NEW h \in 0..SegSize, Lies(m, h),
         NEW u \in 0..SegSize, TotalLen(m.len) <= u
  PROVE  Parse[u][h] = <<m>> \o Parse[u - TotalLen(m.len)]
                                     [Boundary(SegSize, h + TotalLen(m.len))]
<1> DEFINE T == TotalLen(m.len)
           n == T - HeaderLen
<1>1. /\ m.len \in Nat /\ T \in Nat /\ T < SegSize /\ SegSize \in Nat
      /\ T > 0 /\ TotalLen(0) <= T /\ TotalLen(0) \in Nat
  BY MessageLen, SizeAssumption, LayoutAssumption DEF Lies, TotalLen
<1>2. MagicAt(HeaderBytes(SegSize, h), 0) /\ Decoded(HeaderBytes(SegSize, h)) = {T}
  BY HeaderRead
<1>3. TotalAt(h) = T
  BY <1>2 DEF TotalAt
<1>4. BodyAt(h) = BodyBytes(SegSize, h, n)
  BY <1>3 DEF BodyAt
<1>5. /\ n >= MSG_MAGIC_NUM_LEN
      /\ MagicAt(BodyAt(h), n - MSG_MAGIC_NUM_LEN)
      /\ Delivered(BodyAt(h), n) = m
  <2>1. \A i \in 0..(n - 1) : BodyBytes(SegSize, h, n)[i] = MsgByte(m, HeaderLen + i)
    BY BodyRead
  <2> HIDE DEF n
  <2>2. n = TotalLen(m.len) - HeaderLen
    BY DEF n
  <2>3. QED BY <1>4, <2>1, <2>2, DeliveredIsFirst
<1>6. Cardinality({T}) = 1
  BY FS_Singleton
<1>7. WholeAt(h, u)
  <2>1. T \in TotalLen(0)..u
    BY <1>1
  <2>2. QED BY <1>2, <1>3, <1>5, <1>6, <2>1 DEF WholeAt
<1>8. NextAt(h) = Boundary(SegSize, h + T)
  BY <1>1, <1>3, DeqHeadIsBoundary DEF NextAt
<1>9. u # 0
  BY <1>1
<1> HIDE DEF T
<1>10. Parse[u][h] = Parsed(Parse, u, h)
  BY ParseIs
<1>11. QED BY <1>3, <1>5, <1>7, <1>8, <1>9, <1>10 DEF Parsed, T

\* No bytes spell no messages.
LEMMA ParseNothing == ASSUME NEW h \in 0..SegSize PROVE Parse[0][h] = << >>
<1>1. 0 \in 0..SegSize
  BY SizeAssumption
<1>2. QED BY <1>1, ParseIs DEF Parsed

\* The messages published and not yet delivered, from the k-th on.
Since(k) == SubSeq(enq, Len(deq) + k + 1, Len(enq))

\* The pending messages from the k-th on are the k-th and those after it.
LEMMA SinceIs ==
  ASSUME IInv, FInv
  PROVE  /\ \A k \in 0..(Pending - 1) : Since(k) = <<Front(k + 1)>> \o Since(k + 1)
         /\ Since(Pending) = << >>
<1>1. /\ enq \in Seq(Message) /\ Len(deq) \in Nat /\ Len(enq) \in Nat
      /\ Pending \in Nat /\ Pending = Len(enq) - Len(deq)
  BY Shapes DEF FInv, Histories, Pending
<1>2. Since(Pending) = << >>
  BY <1>1 DEF Since
<1>3. ASSUME NEW k \in 0..(Pending - 1)
      PROVE  Since(k) = <<Front(k + 1)>> \o Since(k + 1)
  <2>1. PICK a \in 1..Len(enq) : a = Len(deq) + k + 1
    BY <1>1
  <2>2. Since(k) = SubSeq(enq, a, Len(enq)) /\ Since(k + 1) = SubSeq(enq, a + 1, Len(enq))
        /\ Front(k + 1) = enq[a]
    BY <1>1, <2>1 DEF Since, Front
  <2>3. SubSeq(enq, a, Len(enq)) = <<enq[a]>> \o SubSeq(enq, a + 1, Len(enq))
    BY <1>1, <2>1
  <2>4. QED BY <2>2, <2>3
<1>4. QED BY <1>2, <1>3

\* Read off memory, the ring holds the messages published and not delivered.
LEMMA InRingIs ==
  ASSUME FifoAssumption, IInv, FInv PROVE InRing = Since(0)
<1>1. PICK d \in [0..Pending -> 0..(SegSize - 1)] :
        Offsets(d) /\ Laid(d) /\ tail = Boundary(SegSize, head + d[Pending])
  BY DEF FInv, RingSpells
<1>2. Pending \in Nat /\ SegSize \in Nat /\ head \in 0..SegSize
  BY Shapes
<1>n. PICK n \in Nat : n = Pending
  BY <1>2
<1>3. d[n] \in 0..(SegSize - 1) /\ Used = d[n] /\ d[0] = 0
  <2>1. d[n] \in 0..(SegSize - 1)
    BY <1>2, <1>n
  <2>2. QED BY <1>1, <1>2, <1>n, <2>1, UsedIs DEF Offsets
<1> DEFINE Good(k) == Parse[d[n] - d[k]][Boundary(SegSize, head + d[k])] = Since(k)
<1>4. Good(n)
  <2>1. d[n] - d[n] = 0 /\ Boundary(SegSize, head + d[n]) \in 0..SegSize
    BY <1>2, <1>3 DEF Boundary
  <2>2. Since(n) = << >>
    BY <1>n, SinceIs
  <2>3. QED BY <2>1, <2>2, ParseNothing
<1>5. ASSUME NEW k \in 0..(n - 1), Good(k + 1) PROVE Good(k)
  <2> DEFINE m == Front(k + 1)
             T == TotalLen(m.len)
             h == Boundary(SegSize, head + d[k])
  <2>1. m \in Message /\ T \in Nat
    <3>1. k + 1 \in 1..Pending
      BY <1>n
    <3>2. QED BY <3>1, Shapes
  <2>2. d[k + 1] = d[k] + T
    BY <1>1, <1>n DEF Offsets
  <2>3. d[k] \in Nat /\ d[k + 1] \in Nat /\ d[n] \in Nat /\ d[k + 1] <= d[n] /\ d[n] < SegSize
    <3>1. k + 1 \in 0..Pending /\ Pending \in 0..Pending /\ k \in 0..Pending /\ k + 1 <= Pending
      BY <1>n
    <3>2. d[k + 1] + (Pending - (k + 1)) <= d[Pending]
      BY <1>1, <3>1 DEF Offsets
    <3>3. d[k] \in 0..(SegSize - 1) /\ d[k + 1] \in 0..(SegSize - 1)
      BY <3>1
    <3>4. QED BY <1>2, <1>n, <1>3, <3>2, <3>3
  <2>4. \A j \in 0..(T - 1) : At(m, head + d[k], j)
    BY <1>1, <1>n DEF Laid
  <2> HIDE DEF T, m
  <2>a. PICK a \in Nat : a = d[k]
    BY <2>3
  <2>b. d[k + 1] = a + T /\ a + T <= d[n] /\ a + T < SegSize
    BY <1>2, <2>1, <2>2, <2>3, <2>a
  <2>5. h \in 0..SegSize
    <3>1. a < SegSize
      BY <1>2, <2>1, <2>b
    <3>2. Boundary(SegSize, head + a) \in 0..SegSize
      BY <1>2, <3>1 DEF Boundary
    <3>3. QED BY <2>a, <3>2
  <2>6. ASSUME NEW j \in 0..(T - 1) PROVE At(m, h, j)
    <3>1. Wrap(SegSize, h + j) = Wrap(SegSize, head + (d[k] + j))
      <4>1. a + j < SegSize /\ j \in Nat
        BY <1>2, <2>1, <2>b
      <4>2. Wrap(SegSize, Boundary(SegSize, head + a) + j) = Wrap(SegSize, head + (a + j))
        BY <1>2, <4>1, GoOn
      <4>3. QED BY <2>a, <4>2
    <3>2. head + (d[k] + j) = head + d[k] + j
      BY <1>2, <2>3
    <3>3. At(m, head + d[k], j)
      BY <2>4
    <3>4. QED BY <3>1, <3>2, <3>3 DEF At
  <2>7. Lies(m, h)
    <3>1. T < SegSize
      BY <1>2, <2>1, <2>2, <2>3
    <3>2. QED BY <2>6, <3>1 DEF Lies, T
  <2>8. /\ d[n] - d[k] \in 0..SegSize /\ T <= d[n] - d[k]
        /\ (d[n] - d[k]) - T = d[n] - d[k + 1]
    BY <1>2, <2>1, <2>2, <2>3, SMTT(60)
  <2>9. Boundary(SegSize, h + T) = Boundary(SegSize, head + d[k + 1])
    <3>1. Boundary(SegSize, Boundary(SegSize, head + a) + T) = Boundary(SegSize, head + (a + T))
      BY <1>2, <2>1, <2>b, GoOn
    <3>2. QED BY <2>a, <2>b, <3>1
  <2> HIDE DEF h
  <2>10. Parse[d[n] - d[k]][h] = <<m>> \o Parse[d[n] - d[k + 1]][Boundary(SegSize, h + T)]
    BY <2>1, <2>5, <2>7, <2>8, ParseMessage DEF T
  <2>11. Since(k) = <<m>> \o Since(k + 1)
    BY <1>n, SinceIs DEF m
  <2>12. QED BY <1>5, <2>9, <2>10, <2>11 DEF h
<1> HIDE DEF Good
<1>6. Good(0)
  <2> DEFINE Steps == {k \in 0..n : Good(n - k)}
  <2>1. SUFFICES ASSUME (0..n) \ Steps # {} PROVE FALSE
    <3>1. n \in 0..n /\ n - n = 0
      OBVIOUS
    <3>2. QED BY <2>1, <3>1
  <2>2. (0..n) \ Steps \in SUBSET Nat
    OBVIOUS
  <2>3. PICK k \in (0..n) \ Steps : \A j \in (0..n) \ Steps : k <= j
    <3> HIDE DEF Steps
    <3>1. QED BY <2>1, <2>2, LeastNat
  <2>4. k # 0
    <3>1. n - 0 = n
      OBVIOUS
    <3>2. QED BY <1>4, <3>1
  <2>5. k - 1 \in 0..n /\ ~(k <= k - 1) /\ n - k \in 0..(n - 1)
        /\ n - (k - 1) = (n - k) + 1
    BY <2>4
  <2>6. Good((n - k) + 1)
    BY <2>3, <2>5
  <2>7. Good(n - k)
    BY <1>5, <2>5, <2>6
  <2>8. QED BY <2>7
<1>7. d[n] - d[0] = Used /\ Boundary(SegSize, head + d[0]) = head
  BY <1>2, <1>3 DEF Boundary
<1>8. QED BY <1>6, <1>7 DEF Good, InRing

-------------------------------------------------------------------------------
(* The refinement, step by step.                                           *)

\* Only the store of tail publishes and only the store of head delivers.
LEMMA StepKinds ==
  ASSUME FifoAssumption, IInv, FInv, [Next]_vars
  PROVE  \/ UNCHANGED <<enq, deq>>
         \/ \E p \in Procs : EnqStore(p) \/ DeqStore(p)
<1>1. ASSUME NEW p \in Procs, Step(p), ~EnqStore(p), ~DeqStore(p)
      PROVE  UNCHANGED <<enq, deq>>
  <2>1. CASE Attach(p) \/ InitPid(p)
    BY <2>1 DEF Attach, InitPid, history
  <2>2. CASE EnqHead(p) \/ EnqTailLoad(p) \/ EnqHeader(p) \/ EnqBody(p)
             \/ EnqReload(p) \/ EnqCount(p)
    BY <2>2 DEF EnqHead, EnqTailLoad, EnqHeader, EnqBody, EnqReload, EnqCount, history
  <2>3. CASE DeqHeadLoad(p) \/ DeqTailLoad(p) \/ DeqCount(p) \/ DeqHeader(p)
             \/ DeqCopy(p) \/ DeqTrailer(p)
    BY <2>3
    DEF DeqHeadLoad, DeqTailLoad, DeqCount, DeqHeader, DeqCopy, DeqTrailer, history
  <2>4. QED BY <1>1, <2>1, <2>2, <2>3, NoRepairSteps DEF Step
<1>2. ASSUME NEW p \in Procs, ClearMQ(p) PROVE FALSE
  BY <1>2, NoRepairSteps
<1>3. ASSUME NEW p \in Procs, Crash(p) PROVE UNCHANGED <<enq, deq>>
  BY <1>3 DEF Crash, history
<1>4. ASSUME NEW p \in Producers, NEW len \in Lens, Produce(p, len)
      PROVE  UNCHANGED <<enq, deq>>
  BY <1>4 DEF Produce, history
<1>5. ASSUME NEW p \in Consumers, Comsume(p) PROVE UNCHANGED <<enq, deq>>
  BY <1>5 DEF Comsume, history
<1>6. CASE UNCHANGED vars
  BY <1>6 DEF vars, history
<1>7. QED BY <1>1, <1>2, <1>3, <1>4, <1>5, <1>6 DEF Next

\* An empty ring to begin with.
LEMMA InitIsFifoInit ==
  ASSUME FifoAssumption, Init PROVE Fifo!Init
<1>1. IInv /\ FInv
  BY InitIInv, InitFInv
<1>2. Pending = 0
  BY DEF Init, Pending
<1>3. InRing = << >>
  BY <1>1, <1>2, InRingIs, SinceIs
<1>4. QED BY <1>3 DEF Fifo!Init, Init

\* Appending to a sequence appends to each of its suffixes.
LEMMA SuffixOfAppend ==
  ASSUME NEW S, NEW s \in Seq(S), NEW m \in S, NEW a \in 1..(Len(s) + 1)
  PROVE  /\ SubSeq(s, a, Len(s)) \in Seq(S)
         /\ SubSeq(Append(s, m), a, Len(s) + 1) = Append(SubSeq(s, a, Len(s)), m)
<1> DEFINE n == Len(s)
           t == SubSeq(s, a, n)
           A == Append(s, m)
<1>1. n \in Nat /\ a \in Int /\ n \in Int /\ A \in Seq(S) /\ Len(A) = n + 1 /\ A[n + 1] = m
  BY AppendProperties
<1>2. t \in Seq(S) /\ SubSeq(A, a, n) = t
  <2>1. CASE a <= n
    <3>1. A = s \o <<m>> /\ <<m>> \in Seq(S)
      BY AppendIsConcat
    <3>2. a \in 1..Len(s) /\ n \in 1..Len(s)
      BY <1>1, <2>1
    <3>3. SubSeq(A, a, n) = t
      BY <3>1, <3>2, SubSeqOfConcat1
    <3>4. t \in Seq(S)
      BY <3>2
    <3>5. QED BY <3>3, <3>4
  <2>2. CASE a = n + 1
    <3>1. n < a
      BY <1>1, <2>2
    <3>2. SubSeq(A, a, n) = << >> /\ t = << >>
      BY <1>1, <3>1, SubSeqEmpty
    <3>3. QED BY <3>2
  <2>3. QED BY <1>1, <2>1, <2>2
<1>3. SubSeq(A, a, n + 1) = SubSeq(A, a, (n + 1) - 1) \o <<A[n + 1]>>
  <2>1. a \in 1..Len(A) /\ n + 1 \in a..Len(A)
    BY <1>1
  <2> HIDE DEF A, n
  <2>2. QED BY <1>1, <2>1, SubSeqRecursiveSecond
<1>4. Append(t, m) = t \o <<m>>
  <2> HIDE DEF t
  <2>1. QED BY <1>2, AppendIsConcat
<1>5. (n + 1) - 1 = n
  BY <1>1
<1>6. QED BY <1>1, <1>2, <1>3, <1>4, <1>5

\* The store of tail is Send, the store of head Receive, and every other step
\* leaves queue and received as they are.
LEMMA StepIsFifoStep ==
  ASSUME FifoAssumption, IInv, FInv, IInv', FInv',
         InRing = Since(0), InRing' = Since(0)', [Next]_vars
  PROVE  [Fifo!Next]_<<InRing, deq>>
<1>1. /\ enq \in Seq(Message) /\ Len(deq) \in Nat /\ Len(enq) \in Nat
      /\ Pending = Len(enq) - Len(deq) /\ Pending \in Nat
      /\ InRing = SubSeq(enq, Len(deq) + 1, Len(enq))
      /\ InRing' = SubSeq(enq', Len(deq') + 1, Len(enq'))
  <2>1. Len(deq) + 0 + 1 = Len(deq) + 1 /\ Len(deq') + 0 + 1 = Len(deq') + 1
    <3>1. Len(deq) \in Nat /\ Len(deq') \in Nat
      BY DEF IInv, TypeOK, HistoryOK
    <3>2. QED BY <3>1
  <2>2. QED BY <2>1, Shapes DEF FInv, Histories, Pending, Since
<1>2. CASE UNCHANGED <<enq, deq>>
  BY <1>1, <1>2
<1>3. ASSUME NEW p \in Procs, EnqStore(p) PROVE Fifo!Send
  <2> DEFINE m == loc[p].m
  <2>1. m \in Message /\ enq' = Append(enq, m) /\ deq' = deq
    BY <1>3, BeforeWriting DEF EnqStore
  <2>2. InRing' = Append(InRing, m) /\ Len(InRing') = Len(InRing) + 1
    <3> HIDE DEF m
    <3>1. PICK a \in 1..(Len(enq) + 1) : a = Len(deq) + 1
      BY <1>1
    <3>2. InRing = SubSeq(enq, a, Len(enq)) /\ InRing' = SubSeq(enq', a, Len(enq) + 1)
      BY <1>1, <2>1, <3>1
    <3>3. /\ SubSeq(enq, a, Len(enq)) \in Seq(Message)
          /\ SubSeq(Append(enq, m), a, Len(enq) + 1) = Append(SubSeq(enq, a, Len(enq)), m)
      BY <1>1, <2>1, <3>1, SuffixOfAppend
    <3>4. Len(Append(InRing, m)) = Len(InRing) + 1
      BY <2>1, <3>2, <3>3, AppendProperties
    <3>5. QED BY <2>1, <3>2, <3>3, <3>4
  <2>3. QED BY <2>1, <2>2 DEF Fifo!Send
<1>4. ASSUME NEW p \in Procs, DeqStore(p) PROVE Fifo!Receive
  <2>1. Pending > 0 /\ deq' = Append(deq, Front(1)) /\ enq' = enq
    BY <1>4, DeqStoreTakes
  <2>2. PICK a \in 1..Len(enq) : a = Len(deq) + 1
    BY <1>1, <2>1
  <2>3. InRing = SubSeq(enq, a, Len(enq)) /\ Front(1) = enq[a]
    BY <1>1, <2>2 DEF Front
  <2>4. InRing' = SubSeq(enq, a + 1, Len(enq))
    <3>1. deq \in Seq([id : 0..MaxMsgs, len : Nat])
      BY DEF IInv, TypeOK, HistoryOK
    <3>2. Len(deq') = Len(deq) + 1
      BY <2>1, <3>1
    <3>3. QED BY <1>1, <2>1, <2>2, <3>2
  <2>5. /\ Head(InRing) = Front(1) /\ Tail(InRing) = InRing'
        /\ InRing # << >>
    <3>1. Len(enq) \in a..Len(enq)
      BY <1>1, <2>2
    <3>2. Head(InRing) = Front(1) /\ Tail(InRing) = InRing'
      BY <1>1, <2>2, <2>3, <2>4, <3>1, HeadTailOfSubSeq
    <3>3. Len(InRing) # 0
      BY <1>1, <2>2, <2>3
    <3>4. QED BY <3>2, <3>3
  <2>6. QED BY <2>1, <2>5 DEF Fifo!Receive
<1>5. QED BY <1>2, <1>3, <1>4, StepKinds DEF Fifo!Next

\* Whatever crashes and interleavings, the bytes of the ring behave as a FIFO
\* queue: what enqueue publishes is appended, what dequeue delivers is its head.
THEOREM RingImplementsFifo == ASSUME FifoAssumption PROVE Spec => FifoSpec
<1>1. Init => Fifo!Init
  BY InitIsFifoInit
<1>2. IInv /\ FInv => InRing = Since(0)
  BY InRingIs
<1>3. IInv /\ FInv /\ IInv' /\ FInv' /\ InRing = Since(0) /\ (InRing = Since(0))'
        /\ [Next]_vars => [Fifo!Next]_<<InRing, deq>>
  BY StepIsFifoStep
<1>4. QED BY <1>1, <1>2, <1>3, Invariance, FifoInvariance, PTL
          DEF Spec, FifoSpec, Fifo!Spec

-------------------------------------------------------------------------------
(* The counter's bookkeeping.                                              *)

\* Every consumer's buffer holds every message with its trailing magic number.
AmpleAssumption ==
  \A p \in Consumers, len \in Lens : len + MSG_MAGIC_NUM_LEN <= bufSize[p]

\* The counter's accounting: while nobody has crashed nothing is lost to it.
Exact == crashes = 0 => msgCount + Stored + Taken = Pending

\* A step of p that passes none of the steps that count, publish or deliver.
LEMMA NotCounted ==
  ASSUME Exact, NEW p \in Procs, \A q \in Procs \ {p} : pc'[q] = pc[q],
         UNCHANGED <<enq, deq, msgCount, crashes>>,
         pc'[p] = "enqCount" <=> pc[p] = "enqCount",
         pc'[p] \in TakenLabels <=> pc[p] \in TakenLabels
  PROVE  Exact'
<1>1. Stored' = Stored
  BY DEF Stored
<1>2. Taken' = Taken
  BY DEF Taken
<1>3. QED BY <1>1, <1>2 DEF Exact, Pending

\* The flags, from the label of the only process that can set them.
LEMMA AtLabel ==
  ASSUME IInv, NEW p \in Procs
  PROVE  /\ pc[p] = "enqCount" => Stored = 1
         /\ pc[p] \in EnqLabels \ {"enqCount"} => Stored = 0
         /\ pc[p] \in TakenLabels => Taken = 1
         /\ pc[p] \in DeqLabels \ TakenLabels => Taken = 0
<1>1. ASSUME pc[p] \in EnqLabels PROVE \A q \in Procs \ {p} : pc[q] # "enqCount"
  <2>1. p \in Producers /\ InCall(p)
    BY <1>1 DEF IInv, TypeOK, PcOK, InCall, Procs, Labels, EnqLabels
  <2>2. QED BY <2>1, OthersAway DEF EnqLabels
<1>2. ASSUME pc[p] \in DeqLabels PROVE \A q \in Procs \ {p} : pc[q] \notin TakenLabels
  <2>1. p \in Consumers /\ InCall(p)
    BY <1>2 DEF IInv, TypeOK, PcOK, InCall, Procs, Labels, DeqLabels
  <2>2. QED BY <2>1, OthersAway DEF DeqLabels, TakenLabels
<1>3. QED BY <1>1, <1>2 DEF Stored, Taken, EnqLabels

\* What a step of p does to the flags.
LEMMA FlagsMove ==
  ASSUME IInv, NEW p \in Procs, \A q \in Procs \ {p} : pc'[q] = pc[q]
  PROVE  /\ (pc[p] = "enqCount" <=> pc'[p] = "enqCount") => Stored' = Stored
         /\ (pc[p] \in TakenLabels <=> pc'[p] \in TakenLabels) => Taken' = Taken
         /\ pc'[p] = "enqCount" => Stored' = 1
         /\ pc'[p] \in TakenLabels => Taken' = 1
         /\ pc[p] = "enqCount" /\ pc'[p] # "enqCount" => Stored' = 0
         /\ pc[p] \in TakenLabels /\ pc'[p] \notin TakenLabels => Taken' = 0
<1>1. pc[p] = "enqCount" => \A q \in Procs \ {p} : pc[q] # "enqCount"
  <2>1. pc[p] = "enqCount" => p \in Producers /\ InCall(p)
    BY DEF IInv, TypeOK, PcOK, InCall, Procs, Labels, EnqLabels
  <2>2. QED BY <2>1, OthersAway DEF EnqLabels
<1>2. pc[p] \in TakenLabels => \A q \in Procs \ {p} : pc[q] \notin TakenLabels
  <2>1. pc[p] \in TakenLabels => p \in Consumers /\ InCall(p)
    BY DEF IInv, TypeOK, PcOK, InCall, Procs, Labels, DeqLabels, TakenLabels
  <2>2. QED BY <2>1, OthersAway DEF DeqLabels, TakenLabels
<1>3. (pc[p] = "enqCount" <=> pc'[p] = "enqCount") => Stored' = Stored
  BY DEF Stored
<1>4. (pc[p] \in TakenLabels <=> pc'[p] \in TakenLabels) => Taken' = Taken
  BY DEF Taken
<1>5. QED BY <1>1, <1>2, <1>3, <1>4 DEF Stored, Taken

\* The numbers of the accounting: the counter cannot wrap around.
LEMMA CountTypes ==
  ASSUME IInv, FInv
  PROVE  /\ msgCount \in Int /\ Pending \in Nat /\ Stored \in {0, 1} /\ Taken \in {0, 1}
         /\ 0 <= msgCount /\ msgCount + Stored + Taken <= Pending
         /\ Pending < CountLimit /\ CountLimit \in Nat
<1>1. Pending <= Used /\ Used \in 0..(SegSize - 1) /\ Pending \in Nat
  BY FirstMessage, Shapes
<1>2. SegSize < CountLimit /\ CountLimit \in Nat /\ SegSize \in Nat
  BY SizeAssumption
<1>3. QED
  BY <1>1, <1>2, FlagTypes DEF FInv, Counted, IInv, TypeOK, SharedOK

\* Storing tail puts one message in the ring and sets Stored.
LEMMA EnqStoreExact ==
  ASSUME FifoAssumption, IInv, FInv, Exact, NEW p \in Procs, EnqStore(p) PROVE Exact'
<1>1. /\ UNCHANGED <<deq, msgCount, crashes>> /\ pc[p] = "enqStore" /\ pc'[p] = "enqCount"
      /\ \A q \in Procs \ {p} : pc'[q] = pc[q]
      /\ enq' = Append(enq, loc[p].m)
  BY Moves DEF EnqStore, bounds
<1>2. Stored = 0 /\ Stored' = 1 /\ Taken' = Taken
  BY <1>1, AtLabel, FlagsMove DEF EnqLabels, TakenLabels
<1>3. Pending' = Pending + 1
  <2>1. enq \in Seq(Message) /\ Len(deq) \in Nat
    BY Shapes DEF FInv, Histories
  <2>2. QED BY <1>1, <2>1 DEF Pending
<1>4. QED BY <1>1, <1>2, <1>3, CountTypes DEF Exact

\* The increment clears it.
LEMMA EnqCountExact ==
  ASSUME IInv, FInv, Exact, NEW p \in Procs, EnqCount(p) PROVE Exact'
<1>1. /\ UNCHANGED <<enq, deq, crashes>> /\ pc[p] = "enqCount" /\ pc'[p] = "idle"
      /\ \A q \in Procs \ {p} : pc'[q] = pc[q]
  BY Returns DEF EnqCount, history, bounds, OnlyP
<1>2. Stored = 1 /\ Stored' = 0 /\ Taken' = Taken
  BY <1>1, AtLabel, FlagsMove DEF TakenLabels
<1>3. msgCount' = msgCount + 1
  BY <1>2, CountTypes DEF EnqCount, Incremented
<1>4. Pending' = Pending
  BY <1>1 DEF Pending
<1>5. QED BY <1>1, <1>2, <1>3, <1>4, CountTypes DEF Exact

\* The decrement sets Taken.
LEMMA DeqCountExact ==
  ASSUME IInv, FInv, Exact, NEW p \in Procs, DeqCount(p) PROVE Exact'
<1>1. /\ UNCHANGED <<enq, deq, crashes>> /\ pc[p] = "deqCount" /\ pc'[p] = "deqHeader"
      /\ \A q \in Procs \ {p} : pc'[q] = pc[q]
  BY Moves DEF DeqCount, history, bounds
<1>2. Taken = 0 /\ Taken' = 1 /\ Stored' = Stored
  BY <1>1, AtLabel, FlagsMove DEF DeqLabels, TakenLabels
<1>3. msgCount' = msgCount - 1
  BY CountTypes DEF DeqCount, Decremented
<1>4. Pending' = Pending
  BY <1>1 DEF Pending
<1>5. QED BY <1>1, <1>2, <1>3, <1>4, CountTypes DEF Exact

\* With an ample buffer the first message is always copied.
LEMMA DeqHeaderExact ==
  ASSUME FifoAssumption, AmpleAssumption, IInv, FInv, Exact, NEW p \in Procs, DeqHeader(p)
  PROVE  Exact'
<1>m. PICK m : m = Front(1)
  OBVIOUS
<1> DEFINE T == TotalLen(m.len)
           hdr == HeaderBytes(SegSize, head)
<1>1. /\ UNCHANGED <<enq, deq, msgCount, crashes>> /\ pc[p] = "deqHeader"
  BY DEF DeqHeader, shared, history, bounds
<1>2. /\ Pending > 0 /\ loc[p].h = head /\ blockSize[p] = SegSize
      /\ T <= UsedLen(SegSize, head, loc[p].t)
  BY <1>1, <1>m DEF FInv, Comsuming, FifoAssumption, FullSize
<1>3. MagicAt(hdr, 0) /\ Decoded(hdr) = {T} /\ m \in Message
  BY <1>2, <1>m, FirstLies, HeaderRead
<1>4. T \in Nat /\ UsedLen(SegSize, head, loc[p].t) \in Int
  <2>1. loc[p].t \in Nat
    <3>1. loc[p] \in Local
      BY DEF IInv, TypeOK, LocOK
    <3>2. QED BY <3>1, LocalFields
  <2>2. QED BY <1>3, <2>1, Shapes, MessageLen DEF UsedLen
<1>5. T >= HeaderLen /\ T - HeaderLen <= bufSize[p]
  <2>1. p \in Consumers
    BY <1>1 DEF IInv, TypeOK, PcOK, Procs, DeqLabels
  <2>2. m.len \in Lens /\ m.len \in Nat
    BY <1>3, MessageLen DEF Message
  <2>3. m.len + MSG_MAGIC_NUM_LEN <= bufSize[p] /\ bufSize[p] \in Nat
    BY <2>1, <2>2, SizeAssumption DEF AmpleAssumption
  <2>4. QED BY <2>2, <2>3, LayoutAssumption DEF TotalLen, HeaderLen
<1> HIDE DEF hdr, T
<1>6. Goto(p, "deqCopy")
  BY <1>2, <1>3, <1>4, <1>5 DEF DeqHeader, hdr
<1>7. QED BY <1>1, <1>6, Moves, NotCounted DEF TakenLabels

\* Storing head takes the message out and clears it.
LEMMA DeqStoreExact ==
  ASSUME FifoAssumption, IInv, FInv, IInv', FInv', Exact, NEW p \in Procs, DeqStore(p)
  PROVE  Exact'
<1>1. /\ UNCHANGED <<enq, msgCount, crashes>> /\ pc[p] = "deqStore" /\ pc'[p] = "deqTrailer"
      /\ \A q \in Procs \ {p} : pc'[q] = pc[q]
      /\ deq' = Append(deq, Front(1))
  BY DeqStoreTakes, Moves DEF DeqStore, bounds
<1>2. Taken = 1 /\ Taken' = 0 /\ Stored' = Stored
  BY <1>1, AtLabel, FlagsMove DEF TakenLabels
<1>3. Pending' = Pending - 1
  <2>1. deq \in Seq([id : 0..MaxMsgs, len : Nat]) /\ Len(enq) \in Nat
    BY Shapes DEF IInv, TypeOK, HistoryOK
  <2>2. QED BY <1>1, <2>1 DEF Pending
<1>4. QED BY <1>1, <1>2, <1>3, CountTypes DEF Exact

\* Every step keeps the accounting.
LEMMA NextExact ==
  ASSUME FifoAssumption, AmpleAssumption, IInv, FInv, IInv', FInv', Exact, [Next]_vars
  PROVE  Exact'
<1>1. ASSUME NEW p \in Procs,
             Attach(p) \/ InitPid(p) \/ EnqHead(p) \/ EnqTailLoad(p) \/ EnqHeader(p)
             \/ EnqBody(p) \/ EnqReload(p) \/ DeqHeadLoad(p) \/ DeqTailLoad(p)
             \/ DeqCopy(p) \/ DeqTrailer(p)
      PROVE  Exact'
  <2>1. \A l \in Labels : Goto(p, l) =>
          pc'[p] = l /\ \A q \in Procs \ {p} : pc'[q] = pc[q]
    BY Moves
  <2>2. CASE Attach(p) \/ InitPid(p)
    <3>1. UNCHANGED <<enq, deq, msgCount, crashes>>
          /\ pc[p] \notin TakenLabels \cup {"enqCount"}
          /\ \E l \in Labels \ (TakenLabels \cup {"enqCount"}) : Goto(p, l)
      BY <2>2 DEF Attach, InitPid, Labels, EnqLabels, history, bounds, TakenLabels
    <3>2. QED BY <2>1, <3>1, NotCounted
  <2>3. CASE EnqHead(p) \/ EnqTailLoad(p) \/ EnqHeader(p) \/ EnqBody(p) \/ EnqReload(p)
    <3>1. UNCHANGED <<enq, deq, msgCount, crashes>>
          /\ pc[p] \notin TakenLabels \cup {"enqCount"}
          /\ \E l \in Labels \ (TakenLabels \cup {"enqCount"}) : Goto(p, l)
      BY <2>3
      DEF EnqHead, EnqTailLoad, EnqHeader, EnqBody, EnqReload, Labels, EnqLabels, shared,
          history, bounds, TakenLabels, Return
    <3>2. QED BY <2>1, <3>1, NotCounted
  <2>4. CASE DeqHeadLoad(p) \/ DeqTailLoad(p)
    <3>1. UNCHANGED <<enq, deq, msgCount, crashes>>
          /\ pc[p] \notin TakenLabels \cup {"enqCount"}
          /\ \E l \in Labels \ (TakenLabels \cup {"enqCount"}) : Goto(p, l)
      BY <2>4
      DEF DeqHeadLoad, DeqTailLoad, Labels, DeqLabels, shared, history, bounds,
          TakenLabels, Return
    <3>2. QED BY <2>1, <3>1, NotCounted
  <2>5. CASE DeqCopy(p)
    <3>1. UNCHANGED <<enq, deq, msgCount, crashes>>
          /\ pc[p] = "deqCopy" /\ Goto(p, "deqStore")
      BY <2>5 DEF DeqCopy, shared, history, bounds
    <3>2. QED BY <3>1, Moves, NotCounted DEF TakenLabels
  <2>6. CASE DeqTrailer(p)
    <3>1. UNCHANGED <<enq, deq, msgCount, crashes>>
          /\ pc[p] = "deqTrailer" /\ Goto(p, "idle")
      BY <2>6, DeqTrailerReturns DEF shared, bounds, Return
    <3>2. QED BY <3>1, Moves, NotCounted DEF TakenLabels
  <2>7. QED BY <1>1, <2>2, <2>3, <2>4, <2>5, <2>6
<1>2. ASSUME NEW p \in Procs, Step(p) PROVE Exact'
  BY <1>1, <1>2, EnqStoreExact, EnqCountExact, DeqCountExact, DeqHeaderExact,
     DeqStoreExact, NoRepairSteps DEF Step
<1>3. ASSUME NEW p \in Producers, NEW len \in Lens, Produce(p, len) PROVE Exact'
  <2>1. p \in Procs /\ UNCHANGED <<enq, deq, msgCount, crashes>>
        /\ pc[p] = "idle" /\ Goto(p, "enqHead")
    BY <1>3 DEF Produce, shared, history, bounds, Procs
  <2>2. QED BY <2>1, Moves, NotCounted DEF TakenLabels
<1>4. ASSUME NEW p \in Consumers, Comsume(p) PROVE Exact'
  <2>1. p \in Procs /\ UNCHANGED <<enq, deq, msgCount, crashes>> /\ pc[p] = "idle"
        /\ (pc' = pc \/ Goto(p, "deqHead"))
    BY <1>4 DEF Comsume, shared, history, bounds, Procs
  <2>2. CASE pc' = pc
    BY <2>1, <2>2, NotCounted
  <2>3. CASE Goto(p, "deqHead")
    BY <2>1, <2>3, Moves, NotCounted DEF TakenLabels
  <2>4. QED BY <2>1, <2>2, <2>3
<1>5. ASSUME NEW p \in Procs, ClearMQ(p) PROVE FALSE
  BY <1>5, NoRepairSteps
<1>6. ASSUME NEW p \in Procs, Crash(p) PROVE Exact'
  <2>1. crashes' = crashes + 1 /\ crashes \in Nat
    BY <1>6, BoundAssumption DEF Crash, IInv, TypeOK, HistoryOK
  <2>2. QED BY <2>1 DEF Exact
<1>7. CASE UNCHANGED vars
  BY <1>7 DEF vars, shared, history, bounds, Exact, Stored, Taken, Pending
<1>8. QED BY <1>2, <1>3, <1>4, <1>5, <1>6, <1>7 DEF Next

\* The processes between a store and its count, in number.
LEMMA InBetween ==
  ASSUME IInv
  PROVE  Cardinality({p \in Procs :
           pc[p] \in {"enqCount", "deqHeader", "deqCopy", "deqStore"}}) = Stored + Taken
<1> DEFINE E == {p \in Procs : pc[p] = "enqCount"}
           D == {p \in Procs : pc[p] \in TakenLabels}
           S == {p \in Procs : pc[p] \in {"enqCount", "deqHeader", "deqCopy", "deqStore"}}
<1>1. S = E \cup D /\ E \cap D = {}
  BY DEF TakenLabels
<1>2. Cardinality(E) = Stored /\ IsFiniteSet(E)
  <2>1. CASE \E p \in Procs : pc[p] = "enqCount"
    <3>1. PICK p \in Procs : pc[p] = "enqCount"
      BY <2>1
    <3>2. p \in Producers /\ InCall(p)
      BY <3>1 DEF IInv, TypeOK, PcOK, InCall, Procs, Labels, EnqLabels
    <3>3. \A q \in Procs \ {p} : pc[q] # "enqCount"
      BY <3>2, OthersAway DEF EnqLabels
    <3>4. E = {p}
      BY <3>1, <3>3
    <3>5. QED BY <2>1, <3>4, FS_Singleton DEF Stored
  <2>2. CASE ~\E p \in Procs : pc[p] = "enqCount"
    <3>1. E = {}
      BY <2>2
    <3>2. QED BY <2>2, <3>1, FS_EmptySet DEF Stored
  <2>3. QED BY <2>1, <2>2
<1>3. Cardinality(D) = Taken /\ IsFiniteSet(D)
  <2>1. CASE \E p \in Procs : pc[p] \in TakenLabels
    <3>1. PICK p \in Procs : pc[p] \in TakenLabels
      BY <2>1
    <3>2. p \in Consumers /\ InCall(p)
      BY <3>1 DEF IInv, TypeOK, PcOK, InCall, Procs, Labels, DeqLabels, TakenLabels
    <3>3. \A q \in Procs \ {p} : pc[q] \notin TakenLabels
      BY <3>2, OthersAway DEF DeqLabels, TakenLabels
    <3>4. D = {p}
      BY <3>1, <3>3
    <3>5. QED BY <2>1, <3>4, FS_Singleton DEF Taken
  <2>2. CASE ~\E p \in Procs : pc[p] \in TakenLabels
    <3>1. D = {}
      BY <2>2
    <3>2. QED BY <2>2, <3>1, FS_EmptySet DEF Taken
  <2>3. QED BY <2>1, <2>2
<1>4. Cardinality(E \cup D) = Cardinality(E) + Cardinality(D) - Cardinality(E \cap D)
  <2> HIDE DEF E, D
  <2>1. QED BY <1>2, <1>3, FS_Union
<1>5. Cardinality(E \cap D) = 0
  BY <1>1, FS_EmptySet
<1> HIDE DEF E, D
<1>6. QED BY <1>1, <1>2, <1>3, <1>4, <1>5, FlagTypes DEF S

\* As long as nobody crashes and every buffer is ample, the counter is the number
\* of messages in the ring, less one for each call that is between its store of
\* an index and its count.
THEOREM CounterIsExact ==
  ASSUME FifoAssumption, AmpleAssumption PROVE Spec => []CountAccounting
<1>1. Init => Exact
  <2> SUFFICES ASSUME Init PROVE Exact
    OBVIOUS
  <2>1. Pending = 0 /\ msgCount = 0 /\ Stored = 0 /\ Taken = 0
    BY DEF Init, Pending, Stored, Taken, TakenLabels, FifoAssumption
  <2>2. QED BY <2>1 DEF Exact
<1>2. IInv /\ FInv /\ IInv' /\ FInv' /\ Exact /\ [Next]_vars => Exact'
  BY NextExact
<1>3. IInv /\ FInv /\ Exact => CountAccounting
  <2> SUFFICES ASSUME IInv, FInv, Exact, crashes = 0 PROVE
        msgCount = Len(InRing) - Cardinality({p \in Procs :
          pc[p] \in {"enqCount", "deqHeader", "deqCopy", "deqStore"}})
    BY DEF CountAccounting
  <2>1. Len(InRing) = Pending
    <3>1. /\ enq \in Seq(Message) /\ Len(deq) \in Nat /\ Len(enq) \in Nat
          /\ Pending \in Nat /\ Pending = Len(enq) - Len(deq)
      BY Shapes DEF FInv, Histories, Pending
    <3>2. InRing = SubSeq(enq, Len(deq) + 0 + 1, Len(enq))
      BY InRingIs DEF Since
    <3>3. QED BY <3>1, <3>2
  <2>2. msgCount + Stored + Taken = Pending
    BY DEF Exact
  <2>3. QED BY <2>1, <2>2, InBetween, CountTypes
<1>4. QED BY <1>1, <1>2, <1>3, Invariance, FifoInvariance, PTL DEF Spec
===============================================================================
