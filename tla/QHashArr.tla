------------------------------- MODULE QHashArr -------------------------------
(***************************************************************************)
(* The slot table of shmutil/qhasharr.c, kept in shared memory: one        *)
(* writer that calls put, remove and clear, and readers that call get,     *)
(* exist and getnext without any lock.                                     *)
(*                                                                         *)
(* A step of the writer is a store, a copy to or within one slot, or a     *)
(* group of stores of which a reader looks at one only; it may die between *)
(* two steps, and nothing repairs the table when it comes back.  A step of *)
(* a reader inspects one slot.                                             *)
(***************************************************************************)
EXTENDS Integers, Sequences, FiniteSets

CONSTANTS
  Keys, Values,  \* what is stored under what
  Readers,       \* processes that only read
  None,          \* no key, no value
  maxslots,      \* slots of the table
  Hash,          \* qhashmurmur3_32(key) % maxslots
  ValSize,       \* encoded size of a value
  VALUESIZE,     \* _Q_HASHARR_VALUESIZE: value bytes of a key's first slot
  EXTSIZE,       \* sizeof(union _slot_data): value bytes of an extension slot
  WithClear,     \* the writer also calls clear
  ReaderCalls,   \* what the readers call: "get", "exist", "traverse"
  MaxOps,        \* bound: calls of the writer
  MaxCrashes     \* bound: crashes of the writer

Slots == 0..(maxslots - 1)

\* The wrapper stores no empty values: it always adds a length field.
ASSUME TableAssumption ==
  /\ maxslots \in Nat \ {0}
  /\ Hash \in [Keys -> Slots]
  /\ ValSize \in [Values -> Nat \ {0}]
  /\ VALUESIZE \in Nat \ {0}
  /\ EXTSIZE \in Nat \ {0}
  /\ None \notin Keys \cup Values
  /\ WithClear \in BOOLEAN
  /\ ReaderCalls \subseteq {"get", "exist", "traverse"}
  /\ MaxOps \in Nat
  /\ MaxCrashes \in Nat

VARIABLES
  slots,      \* the slots
  usedslots,  \* tbl->usedslots
  num,        \* tbl->num
  wpc, w,     \* where the writer is in its call, and its locals
  reply,      \* its last call: its arguments, and what it returned when it is over
  rpc, rd,    \* the same for each reader's call, and what it returned
  before,     \* history: the table's contents when the writer's call began
  during,     \* history: what the writer did during each reader's call
  ops, crashes  \* counters for the bounds

table   == <<slots, usedslots, num>>
writer  == <<wpc, w, reply, before, ops, crashes>>
readers == <<rpc, rd, during>>
vars    == <<table, writer, readers>>

-------------------------------------------------------------------------------
(* Slots.  Value bytes are abstracted to the put they come from: the chunk *)
(* of value val of key that starts at byte from.                           *)

Chunk(k, v, from) == [key |-> k, val |-> v, from |-> from]
ZeroBytes == Chunk(None, None, 0)

EmptySlot == [count |-> 0, hash |-> 0, size |-> 0, link |-> 0,
              key |-> None, data |-> ZeroBytes]

Smaller(a, b) == IF a <= b THEN a ELSE b

\* Faulty variant: the last slot takes all that is left.
ChunkSize_Uncapped(v, from) == ValSize[v] - from

\* Bytes that fit the slot a value's byte from goes to, and chunk j's place.
ChunkSize(v, from) ==
  IF from = 0 THEN Smaller(ValSize[v], VALUESIZE)
  ELSE Smaller(ValSize[v] - from, EXTSIZE)
ChunkFrom(j) == IF j = 1 THEN 0 ELSE VALUESIZE + (j - 2) * EXTSIZE

\* What a reader gets; for kOk with the key that the value was stored under.
Result(err, k, v) == [err |-> err, key |-> k, val |-> v]
NotFound == Result("kErrNotFound", None, None)
Exists == Result("exists", None, None)
Traversed == Result("traversed", None, None)
TraversalFailed == Result("kErrLruInit", None, None)

\* verifyShmValue on the pieces a get copied.  The length, value and check code
\* must be those of one put; bytes behind them are not looked at, and an empty
\* value is accepted, which is what zeroed memory decodes to.
WholeValue(got, m) ==
  LET k == got[1].data.key
      v == got[1].data.val
  IN  /\ v # None
      /\ \A j \in 1..m :
           /\ got[j].data = Chunk(k, v, ChunkFrom(j))
           /\ IF j < m THEN got[j].n = ChunkSize(v, ChunkFrom(j))
                       ELSE got[j].n >= ChunkSize(v, ChunkFrom(j))
      /\ ChunkFrom(m) + ChunkSize(v, ChunkFrom(m)) = ValSize[v]

verifyShmValue(got) ==
  IF got # << >> /\ (\/ got[1].data = ZeroBytes
                    \/ \E m \in 1..Len(got) : WholeValue(got, m))
  THEN Result("kOk", got[1].data.key, got[1].data.val)
  ELSE Result("kErrDataMess", None, None)

\* The slots in the cyclic order of the scans.
Dist(a, b) == IF b >= a THEN b - a ELSE b - a + maxslots
Nearest(a, S) == CHOOSE i \in S : \A j \in S : Dist(a, i) <= Dist(a, j)
After(i) == IF i + 1 >= maxslots THEN 0 ELSE i + 1

\* _find_empty(startidx), with startidx already wrapped.
find_empty(start) ==
  LET free == {i \in Slots : slots[i].count = 0}
  IN  IF free = {} THEN -1 ELSE Nearest(start, free)

\* The first slots of the keys that hash to h: the leading one has their number
\* as its count, the others -1.
IsFirst(i, h) == slots[i].hash = h /\ (slots[i].count > 0 \/ slots[i].count = -1)

\* _get_idx: the scan gives up after as many first slots as the leading one
\* counts.
get_idx(k) ==
  LET h == Hash[k]
      firsts == {i \in Slots : IsFirst(i, h)}
      passed(i) == {j \in firsts : Dist(h, j) < Dist(h, i)}
      hits == {i \in firsts : /\ slots[i].key = k
                              /\ Cardinality(passed(i)) < slots[h].count}
  IN  IF hits = {} THEN -1 ELSE Nearest(h, hits)

\* The slots of a value from slot i on, as far as _get_data follows them, and -1
\* behind the last one.
Walk(i) ==
  LET link == [j \in Slots \cup {-1} |-> IF j = -1 THEN -1 ELSE slots[j].link]
      at[n \in 0..(maxslots + 1)] == IF n = 0 THEN i ELSE link[at[n - 1]]
  IN  at

\* What _get_data finds there: nothing if there is no end.
Content(i) ==
  LET at == Walk(i)
      last == CHOOSE n \in 0..maxslots : at[n] # -1 /\ at[n + 1] = -1
      piece(n) == [data |-> slots[at[n]].data, n |-> slots[at[n]].size]
  IN  IF at[maxslots + 1] # -1 THEN << >> ELSE [j \in 1..(last + 1) |-> piece(j - 1)]

\* The table's contents: what an undisturbed get returns for each key.
View ==
  [k \in {x \in Keys : get_idx(x) # -1} |->
     LET value == verifyShmValue(Content(get_idx(k)))
     IN  IF value.err = "kOk" /\ value.key = k THEN value.val ELSE None]

-------------------------------------------------------------------------------
(* The writer's calls.                                                     *)

NoWrite == [op |-> "none", key |-> None, val |-> None, idx |-> 0, cur |-> 0,
            aux |-> 0, cnt |-> 0, done |-> 0, loops |-> 0, then |-> "removed",
            again |-> FALSE]

NoRead == [call |-> "none", key |-> None, at |-> 0, start |-> 0, n |-> 0,
           sum |-> 0, done |-> 0, loops |-> 0, got |-> << >>, idx |-> 0,
           seen |-> << >>, res |-> Result("none", None, None)]

Goto(l) == wpc' = l

\* What the readers were told until now is of no further use to them.
Begin(op, k, v) ==
  /\ wpc = "idle"
  /\ ops < MaxOps
  /\ ops' = ops + 1
  /\ w' = [NoWrite EXCEPT !.op = op, !.key = k, !.val = v]
  /\ reply' = [op |-> op, key |-> k, val |-> v, err |-> "none"]
  /\ before' = View
  /\ during' = [r \in Readers |->
       IF /\ rpc[r] # "idle"
          /\ during[r] # "touched"
          /\ op # "clear" /\ rd[r].key # k
          /\ rd[r].key \in DOMAIN View
       THEN "steady" ELSE "touched"]
  /\ rd' = [r \in Readers |-> IF rpc[r] = "idle" THEN NoRead ELSE rd[r]]
  /\ UNCHANGED <<table, crashes, rpc>>

Return(err) ==
  /\ Goto("idle")
  /\ w' = NoWrite
  /\ reply' = [reply EXCEPT !.err = err]

\* remove returns, to the caller or to the put that replaces the key's value.
Removed(err) ==
  IF w.again /\ err = "ok"
  THEN /\ Goto("put")
       /\ w' = [NoWrite EXCEPT !.op = w.op, !.key = w.key, !.val = w.val]
       /\ UNCHANGED reply
  ELSE Return(err)

still == UNCHANGED <<before, ops, crashes, readers>>

\* Faulty variant: the copy is not counted.
copy_slot_Uncounted(to, from) ==
  /\ slots' = [slots EXCEPT ![to] = slots[from]]
  /\ UNCHANGED usedslots

\* _copy_slot and _remove_slot.
copy_slot(to, from) ==
  IF slots[to].count = 0 /\ slots[from].count # 0
  THEN /\ slots' = [slots EXCEPT ![to] = slots[from]]
       /\ usedslots' = usedslots + 1
  ELSE UNCHANGED <<slots, usedslots>>

remove_slot(i) ==
  IF slots[i].count # 0
  THEN /\ slots' = [slots EXCEPT ![i].count = 0]
       /\ usedslots' = usedslots - 1
  ELSE UNCHANGED <<slots, usedslots>>

Put(k, v) == Begin("put", k, v) /\ Goto("put")
Remove(k) == Begin("remove", k, None) /\ Goto("remove")
Clear     == WithClear /\ Begin("clear", None, None) /\ Goto("clear")

\* qhasharr_put decides where the key goes: its hash slot if that is empty, the
\* next empty slot if the hash slot leads other keys, or the hash slot after
\* what occupies it has moved away.  A key that is stored is removed first.
ChoosePlace ==
  LET h == Hash[w.key]
      e == find_empty(IF slots[h].count > 0 THEN h ELSE After(h))
      place(i, cnt, l) == /\ w' = [w EXCEPT !.idx = i, !.cnt = cnt]
                          /\ Goto(l)
                          /\ UNCHANGED reply
  IN  /\ wpc = "put"
      /\ IF usedslots >= maxslots THEN Return("ENOBUFS")
         ELSE \/ /\ slots[h].count = 0
                 /\ place(h, 1, "putCount")
              \/ /\ slots[h].count > 0
                 /\ get_idx(w.key) # -1
                 /\ w' = [w EXCEPT !.again = TRUE]
                 /\ Goto("remove")
                 /\ UNCHANGED reply
              \/ /\ slots[h].count > 0
                 /\ get_idx(w.key) = -1
                 /\ IF e = -1 THEN Return("ENOBUFS") ELSE place(e, -1, "putCount")
              \/ /\ slots[h].count < 0
                 /\ IF e = -1 THEN Return("ENOBUFS") ELSE place(e, 1, "move")
      /\ UNCHANGED table
      /\ still

\* The slot in the way is copied to the empty slot w.idx, released, and what
\* links to it adjusted; then put continues at the hash slot.
Move ==
  /\ wpc = "move"
  /\ copy_slot(w.idx, Hash[w.key])
  /\ Goto("moveFree")
  /\ UNCHANGED <<num, w, reply>>
  /\ still

MoveFree ==
  /\ wpc = "moveFree"
  /\ remove_slot(Hash[w.key])
  /\ Goto("moveLinks")
  /\ UNCHANGED <<num, w, reply>>
  /\ still

\* Faulty variant: the slot before a moved extension slot is not adjusted.
MovedLinks_NoMother(i) ==
  [x \in Slots |->
     [slots[x] EXCEPT !.hash = IF x = slots[i].link THEN i ELSE @]]

\* The neighbours of moved slot i: the slot before it if it is an extension, and
\* the one behind it.
MovedLinks(i) ==
  LET mother == IF slots[i].count = -2
                THEN [slots EXCEPT ![slots[i].hash].link = i] ELSE slots
  IN  [x \in Slots |->
         [mother[x] EXCEPT !.hash = IF x = mother[i].link THEN i ELSE @]]

MoveLinks ==
  /\ wpc = "moveLinks"
  /\ slots' = MovedLinks(w.idx)
  /\ w' = [w EXCEPT !.idx = Hash[w.key]]
  /\ Goto("putCount")
  /\ UNCHANGED <<usedslots, num, reply>>
  /\ still

\* _put_data at slot w.idx: the key, then one chunk after the other.
PutCount ==
  /\ wpc = "putCount"
  /\ IF slots[w.idx].count # 0
     THEN Return("EFAULT") /\ UNCHANGED slots
     ELSE /\ slots' = [slots EXCEPT ![w.idx].count = w.cnt]
          /\ Goto("putHash")
          /\ UNCHANGED <<w, reply>>
  /\ UNCHANGED <<usedslots, num>>
  /\ still

PutHash ==
  /\ wpc = "putHash"
  /\ slots' = [slots EXCEPT ![w.idx].hash = Hash[w.key]]
  /\ Goto("putKey")
  /\ UNCHANGED <<usedslots, num, w, reply>>
  /\ still

PutKey ==
  /\ wpc = "putKey"
  /\ slots' = [slots EXCEPT ![w.idx].key = w.key]
  /\ w' = [w EXCEPT !.cur = w.idx]
  /\ Goto("putEnd")
  /\ UNCHANGED <<usedslots, num, reply>>
  /\ still

\* Until here a reader that knows the key follows what the slot linked to before.
PutEnd ==
  /\ wpc = "putEnd"
  /\ slots' = [slots EXCEPT ![w.idx].link = -1]
  /\ Goto("putValue")
  /\ UNCHANGED <<usedslots, num, w, reply>>
  /\ still

PutValue ==
  /\ wpc = "putValue"
  /\ slots' = [slots EXCEPT ![w.cur].data = Chunk(w.key, w.val, w.done)]
  /\ Goto("putSize")
  /\ UNCHANGED <<usedslots, num, w, reply>>
  /\ still

\* With the last chunk put returns, unless it must count a collision.
PutSize ==
  LET n == ChunkSize(w.val, w.done)
  IN  /\ wpc = "putSize"
      /\ slots' = [slots EXCEPT ![w.cur].size = n]
      /\ usedslots' = usedslots + 1
      /\ num' = IF slots[w.cur].count = -2 THEN num ELSE num + 1
      /\ \/ /\ w.done + n < ValSize[w.val]
            /\ w' = [w EXCEPT !.done = @ + n]
            /\ Goto("putExt")
            /\ UNCHANGED reply
         \/ /\ w.done + n >= ValSize[w.val]
            /\ IF w.cnt = -1 THEN Goto("putLead") /\ UNCHANGED <<w, reply>>
               ELSE Return("ok")
      /\ still

\* Without an empty slot for the next chunk the key is removed again.
PutExt ==
  LET e == find_empty(After(w.cur))
  IN  /\ wpc = "putExt"
      /\ \/ /\ e = -1
            /\ w' = [w EXCEPT !.cur = w.idx, !.then = "undone"]
            /\ Goto("remData")
            /\ UNCHANGED slots
         \/ /\ e # -1
            /\ slots' = [slots EXCEPT ![e] = EmptySlot]
            /\ w' = [w EXCEPT !.aux = e]
            /\ Goto("putExtHead")
      /\ UNCHANGED <<usedslots, num, reply>>
      /\ still

PutExtHead ==
  /\ wpc = "putExtHead"
  /\ slots' = [slots EXCEPT ![w.aux].count = -2, ![w.aux].hash = w.cur,
                            ![w.aux].link = -1]
  /\ Goto("putLink")
  /\ UNCHANGED <<usedslots, num, w, reply>>
  /\ still

PutLink ==
  /\ wpc = "putLink"
  /\ slots' = [slots EXCEPT ![w.cur].link = w.aux]
  /\ w' = [w EXCEPT !.cur = w.aux]
  /\ Goto("putValue")
  /\ UNCHANGED <<usedslots, num, reply>>
  /\ still

PutLead ==
  /\ wpc = "putLead"
  /\ slots' = [slots EXCEPT ![Hash[w.key]].count = @ + 1]
  /\ Return("ok")
  /\ UNCHANGED <<usedslots, num>>
  /\ still

Undone ==
  /\ wpc = "undone"
  /\ Return("ENOBUFS")
  /\ UNCHANGED table
  /\ still

\* qhasharr_remove: a lone key is just removed; a leading key is replaced by
\* another one of its hash; any other key is taken off the leader's count.
ChooseRemoval ==
  LET i == get_idx(w.key)
      dups == {j \in Slots \ {i} : slots[j].count = -1 /\ slots[j].hash = Hash[w.key]}
      continue(cur, aux, cnt, then, l) ==
        /\ w' = [w EXCEPT !.idx = i, !.cur = cur, !.aux = aux, !.cnt = cnt,
                          !.then = then]
        /\ Goto(l)
        /\ UNCHANGED reply
  IN  /\ wpc = "remove"
      /\ IF i = -1 THEN Removed("ENOENT")
         ELSE \/ /\ slots[i].count = 1
                 /\ continue(i, 0, 0, "removed", "remData")
              \/ /\ slots[i].count > 1
                 /\ IF dups = {} THEN Removed("EFAULT")
                    ELSE continue(i, Nearest(After(i), dups), slots[i].count,
                                  "remCopy", "remData")
              \/ /\ slots[i].count = -1
                 /\ IF slots[slots[i].hash].count <= 1 THEN Removed("EFAULT")
                    ELSE continue(i, 0, 0, "removed", "remCount")
      /\ UNCHANGED table
      /\ still

RemCount ==
  /\ wpc = "remCount"
  /\ slots' = [slots EXCEPT ![slots[w.cur].hash].count = @ - 1]
  /\ Goto("remData")
  /\ UNCHANGED <<usedslots, num, w, reply>>
  /\ still

\* _remove_data stops at the end of the chain or after more than maxslots slots.
ChainEnds(link, loops) == link = -1 \/ loops + 1 > maxslots

RemData ==
  LET link == slots[w.cur].link
  IN  /\ wpc = "remData"
      /\ remove_slot(w.cur)
      /\ \/ /\ ChainEnds(link, w.loops)
            /\ num' = num - 1
            /\ w' = [w EXCEPT !.loops = 0]
            /\ Goto(w.then)
         \/ /\ ~ChainEnds(link, w.loops)
            /\ w' = [w EXCEPT !.cur = link, !.loops = @ + 1]
            /\ UNCHANGED <<num, wpc>>
      /\ UNCHANGED reply
      /\ still

RemCopy ==
  /\ wpc = "remCopy"
  /\ copy_slot(w.idx, w.aux)
  /\ Goto("remFree")
  /\ UNCHANGED <<num, w, reply>>
  /\ still

RemFree ==
  /\ wpc = "remFree"
  /\ remove_slot(w.aux)
  /\ Goto("remLead")
  /\ UNCHANGED <<num, w, reply>>
  /\ still

\* Faulty variant: the slot behind the new leading slot keeps its back link.
Promoted_NoLink(i, n) == [slots EXCEPT ![i].count = n]

\* Faulty variant: the promoted key keeps the count of a colliding one.
Promoted_NoCount(i, n) ==
  [x \in Slots |->
     [slots[x] EXCEPT !.hash = IF x = slots[i].link THEN i ELSE @]]

\* Slot i leads n keys now, and the slot behind it points back to it.
Promoted(i, n) ==
  [x \in Slots |->
     [slots[x] EXCEPT !.count = IF x = i THEN n ELSE @,
                      !.hash = IF x = slots[i].link THEN i ELSE @]]

RemLead ==
  /\ wpc = "remLead"
  /\ slots' = Promoted(w.idx, w.cnt - 1)
  /\ Goto("removed")
  /\ UNCHANGED <<usedslots, num, w, reply>>
  /\ still

RemDone ==
  /\ wpc = "removed"
  /\ Removed("ok")
  /\ UNCHANGED table
  /\ still

\* qhasharr_clear does nothing when the counter of used slots is 0.
ClrCounters ==
  /\ wpc = "clear"
  /\ IF usedslots = 0 THEN Return("ok") /\ UNCHANGED <<usedslots, num>>
     ELSE /\ usedslots' = 0
          /\ num' = 0
          /\ Goto("clrSlots")
          /\ UNCHANGED <<w, reply>>
  /\ UNCHANGED slots
  /\ still

ClrSlots ==
  /\ wpc = "clrSlots"
  /\ slots' = [slots EXCEPT ![w.cur] = EmptySlot]
  /\ IF w.cur = maxslots - 1 THEN Return("ok")
     ELSE w' = [w EXCEPT !.cur = @ + 1] /\ UNCHANGED <<wpc, reply>>
  /\ UNCHANGED <<usedslots, num>>
  /\ still

\* The writer dies in a call; the next one attaches to the table as it is.
Crash ==
  /\ wpc # "idle"
  /\ crashes < MaxCrashes
  /\ crashes' = crashes + 1
  /\ Goto("idle")
  /\ w' = NoWrite
  /\ UNCHANGED <<table, reply, before, ops, readers>>

-------------------------------------------------------------------------------
(* A reader's call: get is _get_idx and the two passes of _get_data, exist *)
(* _get_idx alone, a traversal getnext from slot to slot.                  *)

RGoto(r, l) == rpc' = [rpc EXCEPT ![r] = l]

RReturn(r, res) ==
  /\ RGoto(r, "idle")
  /\ rd' = [rd EXCEPT ![r] = [NoRead EXCEPT !.call = rd[r].call, !.key = rd[r].key,
                                           !.seen = rd[r].seen, !.res = res]]

rest == UNCHANGED <<table, writer, during>>

\* The history of a call: "calm" while the writer is in no call, "steady" while
\* it is in calls for other keys and the key is stored, then "touched".
RBegin(r, call, k, l) ==
  /\ rpc[r] = "idle"
  /\ call \in ReaderCalls
  /\ RGoto(r, l)
  /\ rd' = [rd EXCEPT ![r] = [NoRead EXCEPT !.call = call, !.key = k,
                                           !.at = IF k = None THEN 0 ELSE Hash[k]]]
  /\ during' = [during EXCEPT ![r] =
       IF wpc = "idle" THEN "calm"
       ELSE IF k \in DOMAIN before /\ w.op # "clear" /\ w.key # k
       THEN "steady" ELSE "touched"]
  /\ UNCHANGED <<table, writer>>

Get(r, k)   == RBegin(r, "get", k, "lead")
Exist(r, k) == RBegin(r, "exist", k, "lead")

GetLead(r) ==
  /\ rpc[r] = "lead"
  /\ IF slots[rd[r].at].count > 0
     THEN RGoto(r, "scan") /\ UNCHANGED rd
     ELSE RReturn(r, NotFound)
  /\ rest

\* Faulty variant: without the test the scan goes round for ever.
ScanEnds_Never(i, h) == FALSE

\* Faulty variant: the last slot is not looked at.
ScanEnds_Early(i, h) == After(After(i)) = h

\* "check loop": the scan is back at the hash slot.
ScanEnds(i, h) == After(i) = h

\* One turn of the scan: n counts the keys with this hash passed so far.
GetScan(r) ==
  LET h == Hash[rd[r].key]
      i == rd[r].at
      first == IsFirst(i, h)
      hit == first /\ slots[i].key = rd[r].key
      more == rd[r].n < slots[h].count
  IN  /\ rpc[r] = "scan"
      /\ \/ /\ more /\ hit
            /\ rd[r].call = "exist"
            /\ RReturn(r, Exists)
         \/ /\ more /\ hit
            /\ rd[r].call = "get"
            /\ RGoto(r, "sum")
            /\ rd' = [rd EXCEPT ![r].start = i, ![r].n = 0]
         \/ /\ more /\ ~hit /\ ~ScanEnds(i, h)
            /\ rd' = [rd EXCEPT ![r].at = After(i),
                                ![r].n = IF first THEN @ + 1 ELSE @]
            /\ UNCHANGED rpc
         \/ /\ ~more \/ (~hit /\ ScanEnds(i, h))
            /\ RReturn(r, NotFound)
      /\ rest

\* A traversal: getNextKVPair from slot 0 on as long as it returns kOk, as in
\* initLruMem.  It skips empty and extension slots; a value that does not verify
\* ends it.
Traverse(r) == RBegin(r, "traverse", None, "slot")

\* Faulty variant: extension slots count as keys.
KeySlot_Any(i) == slots[i].count # 0

KeySlot(i) == slots[i].count \notin {0, -2}

\* On to the slot behind idx, with what was returned for idx.
Onward(r, seen) ==
  IF rd[r].idx = maxslots - 1
  THEN /\ RGoto(r, "idle")
       /\ rd' = [rd EXCEPT ![r] = [NoRead EXCEPT !.call = "traverse", !.seen = seen,
                                                !.res = Traversed]]
  ELSE /\ RGoto(r, "slot")
       /\ rd' = [rd EXCEPT ![r] = [NoRead EXCEPT !.call = "traverse", !.seen = seen,
                                                !.idx = rd[r].idx + 1]]

TravSlot(r) ==
  LET i == rd[r].idx
  IN  /\ rpc[r] = "slot"
      /\ \/ /\ ~KeySlot(i)
            /\ Onward(r, rd[r].seen)
         \/ /\ KeySlot(i)
            /\ RGoto(r, "sum")
            /\ rd' = [rd EXCEPT ![r].key = slots[i].key, ![r].at = i, ![r].start = i]
      /\ rest

\* _get_data is through: what it found is returned, or listed under the slot's
\* name and the traversal goes on.
GotData(r, res) ==
  IF rd[r].call = "get" THEN RReturn(r, res)
  ELSE IF res.err # "kOk" THEN RReturn(r, TraversalFailed)
  ELSE Onward(r, Append(rd[r].seen, [key |-> rd[r].key, val |-> res.val]))

\* "check the dead lock" of both passes.
TooLong(loops) == loops + 1 > maxslots

\* First pass: add the sizes of the slots of the chain.
GetSum(r) ==
  LET s == slots[rd[r].at]
  IN  /\ rpc[r] = "sum"
      /\ \/ /\ s.link = -1
            /\ RGoto(r, "size")
            /\ rd' = [rd EXCEPT ![r].sum = @ + s.size, ![r].at = rd[r].start,
                                ![r].loops = 0]
         \/ /\ s.link # -1
            /\ TooLong(rd[r].loops)
            /\ GotData(r, NotFound)
         \/ /\ s.link # -1
            /\ ~TooLong(rd[r].loops)
            /\ rd' = [rd EXCEPT ![r].sum = @ + s.size, ![r].at = s.link,
                                ![r].loops = @ + 1]
            /\ UNCHANGED rpc
      /\ rest

\* Second pass: as long as bytes are missing, load a slot's size ...
GetSize(r) ==
  LET size == slots[rd[r].at].size
  IN  /\ rpc[r] = "size"
      /\ \/ /\ rd[r].done >= rd[r].sum
            /\ GotData(r, verifyShmValue(rd[r].got))
         \/ /\ rd[r].done < rd[r].sum
            /\ rd[r].done + size > rd[r].sum
            /\ GotData(r, NotFound)
         \/ /\ rd[r].done < rd[r].sum
            /\ rd[r].done + size <= rd[r].sum
            /\ rd' = [rd EXCEPT ![r].n = size]
            /\ RGoto(r, "copy")
      /\ rest

\* ... and copy as many of its bytes.
GetCopy(r) ==
  LET s == slots[rd[r].at]
      got == IF rd[r].n = 0 THEN rd[r].got
             ELSE Append(rd[r].got, [data |-> s.data, n |-> rd[r].n])
  IN  /\ rpc[r] = "copy"
      /\ \/ /\ s.link = -1
            /\ GotData(r, verifyShmValue(got))
         \/ /\ s.link # -1
            /\ TooLong(rd[r].loops)
            /\ GotData(r, NotFound)
         \/ /\ s.link # -1
            /\ ~TooLong(rd[r].loops)
            /\ rd' = [rd EXCEPT ![r].at = s.link, ![r].loops = @ + 1,
                                ![r].done = @ + rd[r].n, ![r].got = got]
            /\ RGoto(r, "size")
      /\ rest

-------------------------------------------------------------------------------
Init ==
  /\ slots = [i \in Slots |-> EmptySlot]
  /\ usedslots = 0
  /\ num = 0
  /\ wpc = "idle"
  /\ w = NoWrite
  /\ reply = [op |-> "none", key |-> None, val |-> None, err |-> "none"]
  /\ rpc = [r \in Readers |-> "idle"]
  /\ rd = [r \in Readers |-> NoRead]
  /\ before = << >>
  /\ during = [r \in Readers |-> "touched"]
  /\ ops = 0
  /\ crashes = 0

\* The rest of the writer's call, of a reader's call.
WStep ==
  \/ ChoosePlace \/ Move \/ MoveFree \/ MoveLinks
  \/ PutCount \/ PutHash \/ PutKey \/ PutEnd \/ PutValue \/ PutSize
  \/ PutExt \/ PutExtHead \/ PutLink \/ PutLead \/ Undone
  \/ ChooseRemoval \/ RemCount \/ RemData \/ RemCopy \/ RemFree \/ RemLead
  \/ RemDone \/ ClrCounters \/ ClrSlots

RStep(r) ==
  \/ GetLead(r) \/ GetScan(r) \/ TravSlot(r)
  \/ GetSum(r) \/ GetSize(r) \/ GetCopy(r)

Next ==
  \/ \E k \in Keys : Remove(k) \/ \E v \in Values : Put(k, v)
  \/ Clear \/ WStep \/ Crash
  \/ \E r \in Readers :
       \/ RStep(r) \/ Traverse(r)
       \/ \E k \in Keys : Get(r, k) \/ Exist(r, k)

Spec == Init /\ [][Next]_vars
===============================================================================
