-------------------------------- MODULE ShmMQ ---------------------------------
(***************************************************************************)
(* The shared-memory message queue of shmutil/shm_msg_queue.{h,cc}: a ring *)
(* of bytes with the indices head and tail, a message counter and a pid    *)
(* word, used by processes that run ShmMQProducer / ShmMQComsumer (Locked  *)
(* = FALSE) or ShmMQLockProducer / ShmMQLockComsumer (Locked = TRUE).      *)
(*                                                                         *)
(* One step is one access to shared memory: a load or store of an index,   *)
(* an atomic operation on the counter, or a copy to or from the block.     *)
(* Accesses take effect in program order, which is what x86 guarantees for *)
(* this code (every call ends in a locked instruction).  A process may     *)
(* crash between any two steps; the kernel then drops its flock.           *)
(***************************************************************************)
EXTENDS RingLayout, Sequences, FiniteSets

CONSTANTS
  Producers, Consumers,  \* the processes on each side
  NoProc,                \* no process: pid word 0, lock free
  Locked,                \* the flock-protected classes are used
  SegSize,               \* blockSize_ of the process that creates the segment
  blockSize,             \* blockSize_ of each process, from its own shmSize
  bufSize,               \* bufSize each consumer passes to comsume
  Lens,                  \* dataLen of the messages produced
  CountLimit,            \* 2^31 in the code: msgCount_ wraps at this value
  Booted,                \* start with the segment set up, or with nothing
  MaxMsgs,               \* bound: messages that get space in the ring
  MaxClears,             \* bound: calls of clearMQ by users
  MaxCrashes             \* bound: crashes

Procs == Producers \cup Consumers
Sides == {"producer", "comsumer"}

ASSUME ProcsAssumption ==
  /\ Producers \cap Consumers = {}
  /\ NoProc \notin Procs
  /\ Locked \in BOOLEAN
  /\ Booted \in BOOLEAN

\* The classes without a lock are for one writer and one reader (README).
ASSUME ExclusiveAssumption ==
  \/ Locked
  \/ /\ \A p, q \in Producers : p = q
     /\ \A p, q \in Consumers : p = q

\* Sizes: every process has room for a header, and none attaches with a shmSize
\* larger than the segment's.
ASSUME SizeAssumption ==
  /\ SegSize \in Nat
  /\ blockSize \in [Procs -> HeaderLen..SegSize]
  /\ bufSize \in [Consumers -> Nat]
  /\ Lens \subseteq Nat
  /\ CountLimit \in Nat
  /\ SegSize < CountLimit    \* shmSize is an int

\* enqueue adds its lengths in uint32_t: no message is so long that the sum wraps.
ASSUME LengthAssumption == \A len \in Lens : TotalLen(len) < 2 * CountLimit

ASSUME BoundAssumption ==
  /\ MaxMsgs \in Nat
  /\ MaxClears \in Nat
  /\ MaxCrashes \in Nat

VARIABLES
  created,   \* the segment exists
  mem,       \* block_: the bytes of the ring
  head,      \* *head_
  tail,      \* *tail_
  msgCount,  \* pstat_->msgCount_
  pid,       \* *pid_
  lock,      \* holder of each lock file
  pc,        \* where each process is in its call
  loc,       \* locals of that call
  nextId,    \* identity of the next message (bounds the model)
  enq,       \* history: messages published by a store of tail
  deq,       \* history: messages a store of head took off the ring
  got,       \* history: messages comsume returned with kOk
  clears, crashes  \* counters for the bounds

shared  == <<created, mem, head, tail, msgCount, pid>>
history == <<nextId, enq, deq, got>>
bounds  == <<clears, crashes>>
vars    == <<shared, lock, pc, loc, history, bounds>>

-------------------------------------------------------------------------------
(* Bytes.  Data bytes are abstracted to the message they belong to.        *)

Zero            == <<"zero">>
MagicByte(j)    == <<"magic", j>>
LenByte(j, len) == <<"len", j, len>>
DataByte(id, j) == <<"data", id, j>>

NoMsg == [id |-> 0, len |-> 0]
Torn  == [id |-> 0, len |-> 1]   \* data that is not one message's

\* Faulty variant: the trailing magic number starts from the wrong offset.
MsgByte_Trailer(m, i) ==
  IF i < MSG_MAGIC_NUM_LEN THEN MagicByte(i)
  ELSE IF i < HeaderLen THEN LenByte(i - MSG_MAGIC_NUM_LEN, m.len)
  ELSE IF i < HeaderLen + m.len THEN DataByte(m.id, i - HeaderLen)
  ELSE MagicByte(i - HeaderLen)

\* Byte i of message m as enqueue lays it out.
MsgByte(m, i) ==
  IF i < MSG_MAGIC_NUM_LEN THEN MagicByte(i)
  ELSE IF i < HeaderLen THEN LenByte(i - MSG_MAGIC_NUM_LEN, m.len)
  ELSE IF i < HeaderLen + m.len THEN DataByte(m.id, i - HeaderLen)
  ELSE MagicByte(i - HeaderLen - m.len)

\* The block after enqueue copied bytes first..last of message m to tail t.
Written(B, t, m, first, last) ==
  [x \in DOMAIN mem |->
     IF \E i \in first..last : EnqPos(B, t, m.len, i) = x
     THEN MsgByte(m, CHOOSE i \in first..last : EnqPos(B, t, m.len, i) = x)
     ELSE mem[x]]

\* The magic number begins at index k of the bytes f.
MagicAt(f, k) == \A j \in 0..(MSG_MAGIC_NUM_LEN - 1) : f[k + j] = MagicByte(j)

\* dequeue's header bytes at h, and the n data bytes behind them (in a buffer of
\* fixed length, Zero behind them).
HeaderBytes(B, h) == [i \in 0..(HeaderLen - 1) |-> mem[HeaderPos(B, h, i)]]
BodyBytes(B, h, n) ==
  [i \in 0..(SegSize - 1) |->
     IF i < n THEN mem[BodyPos(B, HeaderEnd(B, h), n, i)] ELSE Zero]

\* What the length field may decode to: the total length that was written, or,
\* when its bytes are not one length field, whatever number they spell (all that
\* exceed the block are alike).
Decoded(hdr) ==
  LET field(j) == hdr[MSG_MAGIC_NUM_LEN + j]
      Spells(len) == \A j \in 0..(MSG_HEAD_SIZE - 1) : field(j) = LenByte(j, len)
  IN  IF \E len \in Lens : Spells(len)
      THEN {TotalLen(len) : len \in {x \in Lens : Spells(x)}}
      ELSE IF \A j \in 0..(MSG_HEAD_SIZE - 1) : field(j) = Zero THEN {0}
      ELSE 0..(SegSize + 1)

\* The message whose data the first n bytes of buf hold.
Delivered(buf, n) ==
  LET len == n - MSG_MAGIC_NUM_LEN
      Holds(id) == \A j \in 0..(len - 1) : buf[j] = DataByte(id, j)
  IN  IF \E id \in 1..MaxMsgs : Holds(id)
      THEN [id |-> CHOOSE id \in 1..MaxMsgs : Holds(id), len |-> len]
      ELSE Torn

-------------------------------------------------------------------------------
(* Helpers.                                                                *)

Side(p) == IF p \in Producers THEN "producer" ELSE "comsumer"

NoBytes == [x \in 0..(SegSize - 1) |-> Zero]
NoLoc == [h |-> 0, t |-> 0, n |-> 0, m |-> NoMsg, buf |-> NoBytes]

\* increment() and decrement() of an AtomicInt32.
Incremented(c) == IF c = CountLimit - 1 THEN -CountLimit ELSE c + 1
Decremented(c) == IF c = -CountLimit THEN CountLimit - 1 ELSE c - 1

\* check(): the first test, on the caller's copies.
Valid(p, h, t) == h <= blockSize[p] /\ t <= blockSize[p]

Goto(p, l) == pc' = [pc EXCEPT ![p] = l]

\* Faulty variant: does not wait for the lock.
Acquire_NoWait(p) == UNCHANGED lock

\* flock(LOCK_EX): one open file description per process and side.
Acquire(p) ==
  IF Locked
  THEN /\ lock[Side(p)] = NoProc
       /\ lock' = [lock EXCEPT ![Side(p)] = p]
  ELSE UNCHANGED lock

Release(p) == lock' = [s \in Sides |-> IF lock[s] = p THEN NoProc ELSE lock[s]]

\* The call returns (and unlocks).
Return(p) ==
  /\ Goto(p, "idle")
  /\ Release(p)
  /\ loc' = [loc EXCEPT ![p] = NoLoc]

\* checkProcExist (kill(0, 0) succeeds): what is starting is a new process.
Alive(q) == q \in Procs => pc[q] \notin {"out", "memset", "initPid"}

-------------------------------------------------------------------------------
(* init: attach, creating the segment if there is none.                    *)

Attach(p) ==
  /\ pc[p] = "out"
  /\ \/ /\ created
        /\ Goto(p, "initPid")
     \/ /\ ~created
        /\ blockSize[p] = SegSize
        /\ Goto(p, "memset")
  /\ created' = TRUE
  /\ UNCHANGED <<mem, head, tail, msgCount, pid, lock, loc, history, bounds>>

InitMemset(p) ==
  /\ pc[p] = "memset"
  /\ head' = 0
  /\ tail' = 0
  /\ Goto(p, "initPid")
  /\ UNCHANGED <<created, mem, msgCount, pid, lock, loc, history, bounds>>

InitPid(p) ==
  /\ pc[p] = "initPid"
  /\ pid' = NoProc
  /\ Goto(p, "idle")
  /\ UNCHANGED <<created, mem, head, tail, msgCount, lock, loc, history, bounds>>

-------------------------------------------------------------------------------
(* enqueue.                                                                *)

Produce(p, len) ==
  /\ pc[p] = "idle"
  /\ nextId <= MaxMsgs
  /\ Acquire(p)
  /\ loc' = [loc EXCEPT ![p].m = [id |-> 0, len |-> len]]
  /\ Goto(p, "enqHead")
  /\ UNCHANGED <<shared, history, bounds>>

EnqHead(p) ==
  /\ pc[p] = "enqHead"
  /\ loc' = [loc EXCEPT ![p].h = head]
  /\ Goto(p, "enqTail")
  /\ UNCHANGED <<shared, lock, history, bounds>>

\* Load tail, check both indices, return kErrNotEnoughSpace if it is full.
EnqTailLoad(p) ==
  LET len  == loc[p].m.len
      free == FreeLen(blockSize[p], loc[p].h, tail)
      ok   == Valid(p, loc[p].h, tail)
  IN  /\ pc[p] = "enqTail"
      /\ \/ /\ ~ok
            /\ Goto(p, "check")
            /\ UNCHANGED <<loc, lock, nextId>>
         \/ /\ ok
            /\ free <= TotalLen(len)
            /\ Return(p)
            /\ UNCHANGED nextId
         \/ /\ ok
            /\ free > TotalLen(len)
            /\ loc' = [loc EXCEPT ![p].t = tail, ![p].m.id = nextId]
            /\ nextId' = nextId + 1
            /\ Goto(p, "enqHeader")
            /\ UNCHANGED lock
      /\ UNCHANGED <<shared, enq, deq, got, bounds>>

EnqHeader(p) ==
  /\ pc[p] = "enqHeader"
  /\ mem' = Written(blockSize[p], loc[p].t, loc[p].m, 0, HeaderLen - 1)
  /\ Goto(p, "enqBody")
  /\ UNCHANGED <<created, head, tail, msgCount, pid, lock, loc, history, bounds>>

\* Data and trailing magic.  If the message lies in one piece the code adds to
\* *tail_, loading it again; otherwise it stores a value computed from its copy.
EnqBody(p) ==
  LET B == blockSize[p]
      t == loc[p].t
      m == loc[p].m
  IN  /\ pc[p] = "enqBody"
      /\ mem' = Written(B, t, m, HeaderLen, TotalLen(m.len) - 1)
      /\ \/ /\ InOnePiece(B, t, m.len)
            /\ Goto(p, "enqReload")
            /\ UNCHANGED loc
         \/ /\ ~InOnePiece(B, t, m.len)
            /\ loc' = [loc EXCEPT ![p].n = EnqTail(B, t, m.len)]
            /\ Goto(p, "enqStore")
      /\ UNCHANGED <<created, head, tail, msgCount, pid, lock, history, bounds>>

EnqReload(p) ==
  /\ pc[p] = "enqReload"
  /\ loc' = [loc EXCEPT ![p].n = tail + TotalLen(loc[p].m.len)]
  /\ Goto(p, "enqStore")
  /\ UNCHANGED <<shared, lock, history, bounds>>

EnqStore(p) ==
  /\ pc[p] = "enqStore"
  /\ tail' = loc[p].n
  /\ enq' = Append(enq, loc[p].m)
  /\ Goto(p, "enqCount")
  /\ UNCHANGED <<created, mem, head, msgCount, pid, lock, loc, nextId, deq, got,
                 bounds>>

\* Faulty variant: a new message is not counted.
EnqCount_Missing(p) ==
  /\ pc[p] = "enqCount"
  /\ Return(p)
  /\ UNCHANGED <<shared, history, bounds>>

EnqCount(p) ==
  /\ pc[p] = "enqCount"
  /\ msgCount' = Incremented(msgCount)
  /\ Return(p)
  /\ UNCHANGED <<created, mem, head, tail, pid, history, bounds>>

-------------------------------------------------------------------------------
(* comsume: the test of msgCount, then dequeue.                            *)

Comsume(p) ==
  /\ pc[p] = "idle"
  /\ \/ /\ msgCount = 0             \* kErrShmMQEmpty
        /\ Locked => lock[Side(p)] = NoProc
        /\ UNCHANGED <<lock, pc>>
     \/ /\ msgCount # 0
        /\ Acquire(p)
        /\ Goto(p, "deqHead")
  /\ UNCHANGED <<shared, loc, history, bounds>>

DeqHeadLoad(p) ==
  /\ pc[p] = "deqHead"
  /\ loc' = [loc EXCEPT ![p].h = head]
  /\ Goto(p, "deqTail")
  /\ UNCHANGED <<shared, lock, history, bounds>>

DeqTailLoad(p) ==
  LET ok == Valid(p, loc[p].h, tail)
  IN  /\ pc[p] = "deqTail"
      /\ \/ /\ ~ok
            /\ Goto(p, "check")
            /\ UNCHANGED <<loc, lock>>
         \/ /\ ok
            /\ loc[p].h = tail        \* kErrShmMQEmpty
            /\ Return(p)
         \/ /\ ok
            /\ loc[p].h # tail
            /\ loc' = [loc EXCEPT ![p].t = tail]
            /\ Goto(p, "deqCount")
            /\ UNCHANGED lock
      /\ UNCHANGED <<shared, history, bounds>>

\* Faulty variant: the counter does not go down.
DeqCount_Missing(p) ==
  /\ pc[p] = "deqCount"
  /\ Goto(p, "deqHeader")
  /\ UNCHANGED <<shared, lock, loc, history, bounds>>

\* The counter goes down before the message is examined.
DeqCount(p) ==
  /\ pc[p] = "deqCount"
  /\ msgCount' = Decremented(msgCount)
  /\ Goto(p, "deqHeader")
  /\ UNCHANGED <<created, mem, head, tail, pid, lock, loc, history, bounds>>

\* Copy the header and test it: magic number, length against the used bytes,
\* data (with the trailing magic) against the buffer.  A length below the
\* header's makes the unsigned dataLen huge, so it also exceeds the buffer.
DeqHeader(p) ==
  LET hdr == HeaderBytes(blockSize[p], loc[p].h)
      used == UsedLen(blockSize[p], loc[p].h, loc[p].t)
      Fits(n) == n >= HeaderLen /\ n - HeaderLen <= bufSize[p]
  IN  /\ pc[p] = "deqHeader"
      /\ \/ /\ ~MagicAt(hdr, 0)
            /\ Goto(p, "reCheck")
            /\ UNCHANGED <<loc, lock>>
         \/ /\ MagicAt(hdr, 0)
            /\ \E n \in Decoded(hdr) :
                 \/ /\ n > used
                    /\ Goto(p, "reCheck")
                    /\ UNCHANGED <<loc, lock>>
                 \/ /\ n <= used
                    /\ ~Fits(n)       \* kErrInputBufNotEnoughSpace
                    /\ Return(p)
                 \/ /\ n <= used
                    /\ Fits(n)
                    /\ loc' = [loc EXCEPT ![p].n = n - HeaderLen]
                    /\ Goto(p, "deqCopy")
                    /\ UNCHANGED lock
      /\ UNCHANGED <<shared, history, bounds>>

DeqCopy(p) ==
  /\ pc[p] = "deqCopy"
  /\ loc' = [loc EXCEPT
       ![p].buf = BodyBytes(blockSize[p], loc[p].h, loc[p].n)]
  /\ Goto(p, "deqStore")
  /\ UNCHANGED <<shared, lock, history, bounds>>

\* The trailing magic number in the copy.  (A dataLen below MSG_MAGIC_NUM_LEN would
\* make the code look outside the buffer; the model takes the mismatch.)
TrailerOk(buf, n) ==
  /\ n >= MSG_MAGIC_NUM_LEN
  /\ MagicAt(buf, n - MSG_MAGIC_NUM_LEN)

\* The store of head takes the message off the ring, before its last test.
DeqStore(p) ==
  LET buf == loc[p].buf
      n   == loc[p].n
  IN  /\ pc[p] = "deqStore"
      /\ head' = DeqHead(blockSize[p], HeaderEnd(blockSize[p], loc[p].h), n)
      /\ deq' = IF TrailerOk(buf, n) THEN Append(deq, Delivered(buf, n)) ELSE deq
      /\ Goto(p, "deqTrailer")
      /\ UNCHANGED <<created, mem, tail, msgCount, pid, lock, loc, nextId, enq, got,
                     bounds>>

\* The test of the trailing magic number, and the return of the message.
DeqTrailer(p) ==
  LET buf == loc[p].buf
      n   == loc[p].n
  IN  /\ pc[p] = "deqTrailer"
      /\ \/ /\ TrailerOk(buf, n)
            /\ got' = Append(got, Delivered(buf, n))
            /\ Return(p)
         \/ /\ ~TrailerOk(buf, n)
            /\ Goto(p, "reCheck")
            /\ UNCHANGED <<lock, loc, got>>
      /\ UNCHANGED <<shared, nextId, enq, deq, bounds>>

-------------------------------------------------------------------------------
(* check after a failed test, and clearMQ.                                 *)

\* check(*head_, *tail_): the compiler may evaluate the arguments in either order.
ReCheck(p) ==
  /\ pc[p] = "reCheck"
  /\ \/ /\ loc' = [loc EXCEPT ![p].h = head]
        /\ Goto(p, "reTail")
     \/ /\ loc' = [loc EXCEPT ![p].t = tail]
        /\ Goto(p, "reHead")
  /\ UNCHANGED <<shared, lock, history, bounds>>

\* With both loaded: clearMQ if they are valid, else the rest of check.
ReLoad(p, label, h, t) ==
  /\ pc[p] = label
  /\ \/ Valid(p, h, t) /\ Goto(p, "clrPid")
     \/ ~Valid(p, h, t) /\ Goto(p, "check")
  /\ UNCHANGED <<shared, lock, loc, history, bounds>>

ReTail(p) == ReLoad(p, "reTail", loc[p].h, tail)
ReHead(p) == ReLoad(p, "reHead", head, loc[p].t)

\* check with invalid indices: clear, unless a live process is clearing.  The
\* pid word is loaded for the test against 0 and again for checkProcExist, and
\* kill(0, 0) succeeds.
Check(p) ==
  /\ pc[p] = "check"
  /\ \/ pid = NoProc /\ Goto(p, "clrPid")
     \/ pid # NoProc /\ Goto(p, "checkProc")
  /\ UNCHANGED <<shared, lock, loc, history, bounds>>

CheckProc(p) ==
  /\ pc[p] = "checkProc"
  /\ \/ /\ ~Alive(pid)
        /\ Goto(p, "clrPid")
        /\ UNCHANGED <<loc, lock>>
     \/ /\ Alive(pid)
        /\ Return(p)
  /\ UNCHANGED <<shared, history, bounds>>

ClearMQ(p) ==
  /\ pc[p] = "idle"
  /\ clears < MaxClears
  /\ clears' = clears + 1
  /\ Acquire(p)
  /\ Goto(p, "clrPid")
  /\ UNCHANGED <<shared, loc, history, crashes>>

ClrPid(p) ==
  /\ pc[p] = "clrPid"
  /\ pid' = p
  /\ Goto(p, "clrHead")
  /\ UNCHANGED <<created, mem, head, tail, msgCount, lock, loc, history, bounds>>

ClrHead(p) ==
  /\ pc[p] = "clrHead"
  /\ head' = 0
  /\ Goto(p, "clrTail")
  /\ UNCHANGED <<created, mem, tail, msgCount, pid, lock, loc, history, bounds>>

ClrTail(p) ==
  /\ pc[p] = "clrTail"
  /\ tail' = 0
  /\ Goto(p, "clrCount")
  /\ UNCHANGED <<created, mem, head, msgCount, pid, lock, loc, history, bounds>>

ClrCount(p) ==
  /\ pc[p] = "clrCount"
  /\ msgCount' = 0
  /\ Goto(p, "clrDone")
  /\ UNCHANGED <<created, mem, head, tail, pid, lock, loc, history, bounds>>

ClrDone(p) ==
  /\ pc[p] = "clrDone"
  /\ pid' = NoProc
  /\ Return(p)
  /\ UNCHANGED <<created, mem, head, tail, msgCount, history, bounds>>

-------------------------------------------------------------------------------
\* The process ends: by detaching (fini) when idle, or by a crash anywhere.
Crash(p) ==
  /\ pc[p] # "out"
  /\ crashes < MaxCrashes
  /\ crashes' = crashes + 1
  /\ Goto(p, "out")
  /\ Release(p)
  /\ loc' = [loc EXCEPT ![p] = NoLoc]
  /\ UNCHANGED <<shared, history, clears>>

-------------------------------------------------------------------------------
Init ==
  /\ created = Booted
  /\ mem = NoBytes
  /\ head = 0
  /\ tail = 0
  /\ msgCount = 0
  /\ pid = NoProc
  /\ lock = [s \in Sides |-> NoProc]
  /\ pc = [p \in Procs |-> IF Booted THEN "idle" ELSE "out"]
  /\ loc = [p \in Procs |-> NoLoc]
  /\ nextId = 1
  /\ enq = << >>
  /\ deq = << >>
  /\ got = << >>
  /\ clears = 0
  /\ crashes = 0

\* The rest of a call (or of init) that p has begun.
Step(p) ==
  \/ Attach(p) \/ InitMemset(p) \/ InitPid(p)
  \/ EnqHead(p) \/ EnqTailLoad(p) \/ EnqHeader(p) \/ EnqBody(p)
  \/ EnqReload(p) \/ EnqStore(p) \/ EnqCount(p)
  \/ DeqHeadLoad(p) \/ DeqTailLoad(p) \/ DeqCount(p) \/ DeqHeader(p)
  \/ DeqCopy(p) \/ DeqStore(p) \/ DeqTrailer(p)
  \/ ReCheck(p) \/ ReHead(p) \/ ReTail(p) \/ Check(p) \/ CheckProc(p)
  \/ ClrPid(p) \/ ClrHead(p) \/ ClrTail(p) \/ ClrCount(p) \/ ClrDone(p)

Next ==
  \/ \E p \in Producers, len \in Lens : Produce(p, len)
  \/ \E p \in Consumers : Comsume(p)
  \/ \E p \in Procs : Step(p) \/ ClearMQ(p) \/ Crash(p)

Spec == Init /\ [][Next]_vars

\* A call that has begun goes on; consumers keep polling (the examples' loops).
Fairness ==
  /\ \A p \in Procs : WF_vars(Step(p))
  /\ WF_vars(\E p \in Consumers : Comsume(p))

FairSpec == Spec /\ Fairness
===============================================================================
