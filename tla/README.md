# Shared-memory queue and hash table: models, checks and proofs

`shmutil` offers two data structures in System V shared memory: a **ring queue** of
messages (`shm_msg_queue.*`) and a **hash table** for one writer and many readers
(`shm_mrsw_hashtable.*` over `qhasharr.c`). Both are used by separate processes with
few or no locks. This directory holds TLA+ models of them, TLC runs that check the
models on small instances, and TLAPS proofs of what holds for every size.

## 1. The system

| component | state | operations | who shares it |
|---|---|---|---|
| ring queue, class `ShmMQ` | in the segment: `msgCount_`, `processCount_`, `head`, `tail`, `pid`, the block; in the process: `blockSize_` | `init`, `enqueue`, `dequeue`, `check`, `clearMQ`, `isEmpty`, `getstat` | all producers and consumers |
| queue front ends `ShmMQProducer`, `ShmMQComsumer`, `ShmMQLockProducer`, `ShmMQLockComsumer` | the lock files, one per side | `produce`, `comsume`, `clearMQ`; the locked classes wrap each call in `flock` | producers share one lock file, consumers the other |
| slot table `qhasharr` | `usedslots`, `num`, the array of slots | `put`, `remove`, `clear`, `get`, `exist`, `getnext` | one writer, many readers, no lock |
| wrapper `MrswHashtable` | `lru_`, `mutex_`, per process | `init`, `getValue`, `setValue`, `deleteKey`, `clearTable`, `getNext`, `isExist`, `getStats` | threads of one process; several writers bring a lock of their own (README.md:12) |
| `SimpleLru` | list of keys and an index into it | `visitKey`, `removeKey`, `getRemoveKey` | the wrapper |
| `atomic.h`, `mutex.h`, `current_thread.*` | a counter, a pthread mutex, a thread id | | |
| `md5.c` | `QMD5_CTX`: count of bits, state, buffer, on the caller's stack | `QMD5Init`, `QMD5Update`, `QMD5Final`, together `qhashmd5` | nobody |
| `qhash.c`, `common.h` | none | `qhashmurmur3_32`, `checkProcExist` | |

A producer copies a message, framed by a magic number and its length in front and the
magic number behind, into the block, publishes it by storing `tail`, then increments
`msgCount_`. A consumer first tests `msgCount_`, loads `head` and `tail`, decrements
`msgCount_`, copies the message out, and releases its bytes by storing `head`. Anything
that looks damaged makes it reset the whole queue.

The slot table keeps a key in the slot its hash names, or in another free slot if that
leads keys of the same hash; a slot occupied by a stranger is cleared by moving the
stranger away. A value too large for its first slot continues in extension slots, linked
both ways. Readers walk the same slots while the writer changes them, and rely on a check
code inside the value (`encodeValueStr`, `verifyShmValue`). When the table is full the
wrapper deletes the key its list names last and tries again. A process that attaches to
the table fills its list by traversing the slots. MD5 tells truncated keys apart and is
the check code of long values.

### What is hard, and what correctness means

* *Queue.* A message can be cut by the end of the block at any byte; `head = tail` must
  mean empty only; `tail` and the counter are stored in two steps, which a consumer may
  see in between; a process may die between any two; `clearMQ` may run at any time in any
  process (every example producer calls it when it starts). Correct means: it is a FIFO
  queue, nothing accepted is lost or damaged, the counter never announces what is not
  there, no copy leaves the block.
* *Slot table.* Moves, promotions of a key to the leading slot, and puts that fail half-way
  must keep counts, links and counters right, which shows only in a later call. Correct
  means: to its writer it is a bounded map; a reader gets what is stored, finds what is
  stored, and always returns; a traversal lists each key once.
* *Wrapper.* The list is in the process and the table in the segment, so they differ after
  deletions, clears, restarts, and what other writers store. Correct means: eviction finds
  all room the process knows of, takes the oldest key, and ends.
* *MD5.* Pieces of any length, a length counted in two words, padding that may need a block
  of its own, a buffer that nobody clears. Correct means: the digest depends on the message
  only, as MD5 prescribes.

`PROJECT.json` lists the hazards one by one with the line where each bites and the
properties that cover it.

## 2. The modules

| module | models | |
|---|---|---|
| `RingLayout` | the index and offset arithmetic of `enqueue` and `dequeue` | operators only |
| `ShmMQ` | `ShmMQ` and its four front ends | EXTENDS `RingLayout` |
| `MessageFifo` | what the queue promises: an abstract FIFO queue | |
| `ShmMQProps` | properties of `ShmMQ`, the refinement of `MessageFifo`, the inductive invariant | EXTENDS `ShmMQ` |
| `ShmMQProofs` | theorems of the ring arithmetic; of `ShmMQ` under clears and crashes; without clears: FIFO order, counter, refinement | EXTENDS `ShmMQProps` |
| `QHashArr` | `qhasharr.c` under one writer and any number of readers | |
| `KVTable` | what the slot table promises its writer: a bounded map | |
| `QHashArrProps` | properties of `QHashArr`, the refinement of `KVTable` | EXTENDS `QHashArr` |
| `MrswHashtable` | the writing side of the wrapper in several processes: `init`, `setValue`, `deleteKey`, `clearTable`, `SimpleLru` | INSTANCE `KVTable` |
| `MrswHashtableProps` | its properties | EXTENDS `MrswHashtable` |
| `QHashArrProofs`, `MrswHashtableProofs` | theorems of the slot table, of the wrapper | |
| `QHashArrLinksProofs` | theorems of the order of a slot table whose writer has not died | EXTENDS `QHashArrProofs` |
| `QHashArrValuesProofs` | theorems of what such a table stores, the refinement | EXTENDS `QHashArrLinksProofs` |
| `QHashArrReadersProofs` | theorems of what readers get while the writer makes no call | EXTENDS `QHashArrValuesProofs` |
| `SumLemmas` | sums over finite sets and least elements, for all proofs | |
| `QMD5`, `QMD5Props` | the streaming part of `md5.c`, and its properties | |
| `QMD5Proofs` | theorems of MD5's streaming and padding | EXTENDS `QMD5Props` |
| `MC...` | constants of the runs | |

The two layers of the hash table are composed through `KVTable`: `QHashArr` is shown to
implement it, and `MrswHashtable` calls it, one action for each table call.

### `ShmMQ`

One action is one access to shared memory. `pc[p]` says where process `p` is in its call,
`loc[p]` holds that call's locals.

| code | actions |
|---|---|
| `getmemory`, `init` | `Attach`, `InitMemset` (creator only), `InitPid` |
| `produce`, `enqueue` | `Produce` (takes the lock), `EnqHead`, `EnqTailLoad` (with `check` and the space test), `EnqHeader`, `EnqBody`, `EnqReload` (the load in `*tail_ +=`), `EnqStore`, `EnqCount` |
| `comsume`, `dequeue` | `Comsume` (takes the lock, tests the counter), `DeqHeadLoad`, `DeqTailLoad`, `DeqCount`, `DeqHeader` (with its tests), `DeqCopy`, `DeqStore`, `DeqTrailer` (the test of the trailing magic number, and the return) |
| `check(*head_, *tail_)` after a failed test | `ReCheck`, `ReTail`, `ReHead` (either order of the two loads) |
| the rest of `check` | `Check`, `CheckProc` |
| `clearMQ` | `ClearMQ`, `ClrPid`, `ClrHead`, `ClrTail`, `ClrCount`, `ClrDone` |
| `fini`, or the process dies | `Crash`; the lock is dropped |

Abstractions. Accesses take effect in program order: on x86 loads are not reordered with
loads nor stores with stores, and nothing here depends on a load overtaking a store; on a
weaker machine nothing in the code orders the store of `tail` behind the copy. A `memcpy`
is one step; the bytes a producer writes are not visible before `tail` is stored, so no
consumer can tell, except after a racing clear. Data bytes are named after their message
and are never equal to the magic number. A length field that is not one written by a
producer decodes to any number. Lengths are numbers; `enqueue` adds them in `uint32_t`
(line 222), where 12 more than a length of 2^32 - 12 and above wraps, the space test passes
and the copy leaves the segment. `LengthAssumption` excludes such messages; nothing here is
shown of them. `deq` is the history of what a store of `head` took off the ring, `got` that
of what `comsume` then returned. A `flock` that fails is a stutter. `processCount_` is
left out. All processes are assumed to attach with a size not above the segment's.

### `QHashArr`

A writer's step is a store, a copy to or within one slot, or a group of stores of which a
reader looks at one only (a slot's `count` and the counter `usedslots`; a slot's link and
the back link of the slot behind it, which readers do not follow). The writer may die
between steps. A reader's step looks at one slot; `size` is loaded again in the second
pass, as in `_get_data`, and before the bytes are copied.

| code | actions |
|---|---|
| `qhasharr_put` | `Put`, `ChoosePlace`, `Move`, `MoveFree`, `MoveLinks`, `PutLead` |
| `_put_data` | `PutCount`, `PutHash`, `PutKey`, `PutEnd`, `PutValue`, `PutSize`, `PutExt`, `PutExtHead`, `PutLink`, `Undone` |
| `qhasharr_remove`, also inside `put` | `Remove`, `ChooseRemoval`, `RemCount`, `RemData` (one slot a step), `RemCopy`, `RemFree`, `RemLead`, `RemDone` |
| `qhasharr_clear` | `Clear`, `ClrCounters`, `ClrSlots` (one slot a step) |
| `getValue`, `isExist` | `Get`, `Exist`, `GetLead`, `GetScan` (`_get_idx`), `GetSum`, `GetSize`, `GetCopy` (`_get_data`), `verifyShmValue` |
| `initLruMem`, `getNext` until the end | `Traverse`, `TravSlot` (`qhasharr_getnext`), then the steps of `_get_data`; `GotData` and `Onward` say what becomes of a value |

Abstractions. The hash of a key is the constant `Hash`. A key (its bytes, length and MD5)
is stored and compared in one step, and so are the value bytes of one slot. Value bytes
are named after the put they come from. `verifyShmValue` accepts a whole value, whatever
follows it, and zeroed bytes, which decode to an empty value; it never accepts a mixture.
Values are never empty because the wrapper adds a length field to them. Keys have at most
`_Q_HASHARR_KEYSIZE` bytes (README.md:14), so a traversal returns them whole. When the
writer begins a call, what idle readers were told before is forgotten: no property needs
it any more, and the runs stay small. `reply` is the writer's last call: its arguments as
they were when it began, and what it returned once it is over.

### `MrswHashtable`

`Create` and `Publish` are `init` of the process that creates the segment; in between the
table has no slots, `setValue` of others fails (`PutNowhere`), and if the creator dies
there it stays so. `qhasharr` does not set `errno` for a table without slots, so what
`setValue` and `deleteKey` return then is any of the codes that an `errno` of earlier calls
leads to. `Attach` is `getShm` with `initLruMem`; the order of the slots is any
order of the stored keys. `SetValue` is the comparison with the stored value, `PutOk` and
`PutFull` are `qhasharr_put` and what follows it, `Evict` is one turn of the loop up to
`deleteKey` and `removeKey`. With an empty list that is `deleteKey("")`, which fails and
ends `setValue`.

`Procs` write, each with its list (`lruMem[p]`), one call at a time: `Alone` is the lock
that README.md:12 asks the users for. Each process has one thread. A process dies between
table calls here; deaths inside a table call are in `QHashArr`. `store` and `since` are
history: who stored a key when, and when each process attached, so that the properties can
say what a process can know of the table (`Knows`).

### `QMD5`

One action is one call. The bytes of a message are told apart, and so are the bytes of the
padding, of the length, and stale bytes of the buffer. `QMD5Transform` compresses one block
into the state; the state is represented by the blocks it was given, so that two digests
are equal exactly if MD5's input to the compression is. `Init` may come in the middle of a
message: a context is used again.

## 3. The runs

`tlc -config X.cfg M` for each run of `PROJECT.json`; none takes more than about two
minutes.

| run | instance | shows |
|---|---|---|
| `mq_spsc` | 1 producer, 1 consumer, no lock; lengths 1, 2, 3; 6 messages | `FifoSpec`, `CountAccounting`, `EveryMessageDelivered` |
| `mq_locked` | 2 producers, 2 consumers, locked; 4 messages; 2 deaths anywhere | `FifoSpec`, `CountAccounting`, `NoRepair`, `DeliveredInOrder`, `CountNeverAhead` |
| `mq_clear` | creation of the segment, 1 clear, 2 deaths; a consumer with a smaller `shmSize` and a small buffer | `AccessInBlock`, `CheckNeverFails` |
| `ht_writer` | 4 slots, 4 keys (3 collide, the other's slot is in their way), values of 1, 2, 3 slots; 6 calls | `TableSpec`, `LinksMutual`, `CountersExact`, `BystandersReadable` |
| `ht_readers` | 3 slots, 3 keys, 1 reader that gets, asks and traverses, 3 calls of the writer, 1 death in a call | `CalmGet`, `CalmTraversal`, `ReadersAreWaitFree` |
| `lru` | 3 slots, 3 keys, values of 1, 2 and 4 slots; 2 writers, one of which evicts; creation, 4 calls, 1 death | `LruCoversTable`, `RoomIsFound`, `EvictsOldest`, `SetReturns` |
| `md5` | blocks of 8 bytes, words of 8 bits, messages of up to 80 bytes in any pieces | `PiecesDoNotMatter`, `DigestIsOfPaddedMessage` |
| `mq_small_buffer`, `mq_clear_race`, `ht_wrong_value`, `ht_lost_key`, `ht_attach` | | violated, see section 5 |

*Queue bounds.* The magic number takes two bytes and the length one, so a message of n
bytes takes n + 5 of the 14 bytes of the ring: two messages fit and never fill it, and with
six messages of lengths 1 to 3 every branch of `enqueue` and `dequeue` is taken: in one
piece, data split, trailing magic number split (also one byte of it), header split, and
messages that end exactly at the end of the block. `CountLimit` (2^31 in the code) only
has to exceed the ring's size, so that a wrap of the counter would be seen. `mq_locked`
uses the symmetry of its two producers and of its two consumers; two deaths are one on
each side, or one of a process that came back. The full-sized producer and the smaller
consumer of `mq_clear` reach every branch of `check`.

*Table bounds.* Three or four slots of 2 and 3 value bytes make values of one, two and
three slots; two home slots, one in the way of the other's overflow, force every move.
Three calls are put, remove, put: enough for a slot to be used again while a reader
sleeps. `ht_writer` has no reader because `TableSpec` is about the writer; its calls are
bounded, so the run ends in states without successor and does not check for deadlock, and
`lru` likewise. `ht_writer` and `ht_readers` use the symmetry of colliding keys; their properties
are invariants and step properties. In `lru` two stores of one writer and the eviction of
another, or three stores and one more of a key stored before, fit in four calls; the
values of four slots never fit.

*MD5's bounds.* Blocks of 8 bytes with a length of 2 leave the same cases as blocks of 64
with a length of 8, and words of 8 bits carry after 32 bytes, which the real ones do after
512 MB; a message of 80 bytes carries twice, and single pieces of 32 bytes and more take
the shift of `inputLen >> 29`.

*Fairness.* Only that a call that has begun goes on (weak fairness of the rest of the
call), which holds for a process that is scheduled and not killed, and, for
`EveryMessageDelivered`, that consumers keep calling `comsume`, as the loop in
`example/mq_single_consumer.cc:32` does. Nobody is required to start any other call. The
run with `EveryMessageDelivered` has no lock; no fairness of `flock` is assumed. `lru`
assumes that the rest of a `setValue` goes on (`FairSpec`). That readers' calls end needs
no fairness of anybody else: `ReadersAreWaitFree` gives each state of a call a rank, which
each step of the reader lowers, whatever the writer does in between, also for ever.

*What a refinement says.* `FifoSpec` reads the messages off the bytes between `head` and
`tail` at every step (`InRing`) and requires that each step is a send, a receive of the
front message or neither; so a torn, lost, duplicated or overwritten message is a
violation at the moment it happens. `TableSpec` reads the map off the slots between calls
(`View`, the result of an undisturbed get for each key) and requires each call to have its
abstract effect and answer: a refused put changes nothing, a put that fails half-way
removes the key's old value, no call changes another key. `KVTable` answers the call that
was begun, so the value it stores is that call's argument.

*What the queue returns.* The store of `head` takes a message off the ring before `dequeue`
tests its trailing magic number and returns it. A consumer that dies in between has lost
it for everybody: `DeliveredInOrder` says that messages leave the ring in the order they
were published, that `comsume` returns those in the same order, and that it leaves out at
most one for each death. `EveryMessageDelivered`, without deaths, is about what is returned.

*What a dying writer leaves.* Nobody repairs the slot table, so every step of `put` and
`remove` is a state that a death would leave for good. `BystandersReadable` takes each of
them and compares what `get` finds (`View`) with what the table held when the call began:
keys the call is not about keep their values, whole, and at which points which of them
cannot be found: one of the keys with the call's hash while a colliding slot and the count
that includes it disagree, all of them while the leading slot is replaced
(`qhasharr.c:657-662`), one of another hash while a slot is moved or written over.
`CalmGet` and `CalmTraversal` do not say this: they compare readers with `View`, where such
a key is missing as well. `clear` is left out, it is about every key.

Every property is also run against a faulty variant of a definition (the `..._Xyz`
operators) to show that it can fail.

## 4. The proofs

Proved for every value of the constants that satisfies the modules' named assumptions: any
number of processes, sizes, lengths, keys and calls. `BoundAssumption`, `MaxOps` and the
like only say that the bounds of the runs are numbers; no proof depends on their values.

| theorem | states | further assumptions |
|---|---|---|
| `ShmMQProofs!RoundTrip`, `AcceptedFits` | the arithmetic of `enqueue` and `dequeue` agree | |
| `ShmMQProofs!TypeCorrect` | `ShmMQProps!TypeOK` | |
| `ShmMQProofs!IndicesStayInBlock` | `CheckNeverFails` | |
| `ShmMQProofs!CopiesStayInSegment` | `AccessInBlock`, for messages whose total length fits a `uint32_t` (`LengthAssumption`) | |
| `ShmMQProofs!RingStaysWhole` | `NoRepair` | `FifoAssumption` |
| `ShmMQProofs!FirstInFirstOut` | `DeliveredInOrder` | `FifoAssumption` |
| `ShmMQProofs!CounterKeepsBehind` | `CountNeverAhead` | `FifoAssumption` |
| `ShmMQProofs!RingImplementsFifo` | `FifoSpec` | `FifoAssumption` |
| `ShmMQProofs!CounterIsExact` | `CountAccounting` | `FifoAssumption`, `AmpleAssumption` |
| `QHashArrProofs!IndicesStayInTable` | `QHashArrProps!TypeOK` | |
| `QHashArrProofs!ReadingIsWaitFree` | `ReadersAreWaitFree` | |
| `QHashArrLinksProofs!LinksStayMutual` | `LinksMutual` as long as `crashes = 0` | |
| `QHashArrLinksProofs!CountersStayExact` | `CountersExact` as long as `crashes = 0` | |
| `QHashArrValuesProofs!TableIsMap` | `TableSpec` as long as `crashes = 0` | |
| `QHashArrReadersProofs!CalmReads` | `CalmGet` | |
| `QHashArrReadersProofs!CalmTraverses` | `CalmTraversal` | |
| `MrswHashtableProofs!WriterTypes` | `MrswHashtableProps!TypeOK` | |
| `MrswHashtableProofs!ListCoversTable` | `LruCoversTable` | |
| `MrswHashtableProofs!EvictionFindsRoom` | `RoomIsFound` | |
| `MrswHashtableProofs!EvictionTakesOldest` | `EvictsOldest` | |
| `QMD5Proofs!MD5Types` | `QMD5Props!TypeOK` | `PowerAssumption` |
| `QMD5Proofs!MD5Pieces` | `PiecesDoNotMatter` | `PowerAssumption` |
| `QMD5Proofs!MD5Digest` | `DigestIsOfPaddedMessage` | `PowerAssumption` |

*The ring's arithmetic.* The three ways `enqueue` writes and the two tests by which
`dequeue` reads agree byte by byte, and `dequeue` stores as `head` what `enqueue` stored as
`tail`. A message that passes the space test touches no used byte and leaves `head`
different from `tail`. The argument: each position computed by the code equals one formula,
the i-th byte of a ring (`Wrap`), and each index stored equals one boundary (`Boundary`).

*Staying inside the segment*, with clears and crashes anywhere. `CheckNeverFails` is about
each process that attached with the segment's full size, whatever the others attached with.
`AccessInBlock` is not inductive. `IInv` adds: who is in a call holds its side's lock, or
is alone on it (needed since another producer's store of `tail` would invalidate
`Writing`); indices and copies of them lie in the segment; while a message is written,
`tail` still is the writer's copy or 0 (this is what makes the second load in `*tail_ +=`
harmless to the bounds even when a clear comes between); what is being read fits in the
used length the reader computed. There is one lemma for each action, here and below.

*The queue is a queue.* `FifoAssumption`: the queue exists, nobody clears it, every process
attached with the whole segment, and a message has data. Clears and smaller sizes are
exactly what `mq_clear`, `mq_clear_race` and `mq_small_buffer` are about, and with them the
theorems are false; deaths of any process anywhere are included. The instances `mq_spsc`
and `mq_locked` satisfy it, both classes of front ends do. `IInv` is about indices only;
the invariant `FInv` is about bytes. There are offsets from `head`, one for each message
published and not taken off, at which the bytes of that message lie, the last of them at
`tail` (`RingSpells`); the messages taken off are the first ones published (`Histories`);
the counter and the calls between index and count do not exceed the messages (`Counted`);
no process is on its way to a repair; and for each point of `enqueue` and `dequeue` what
the call has read and written so far (`Producing`, `Comsuming`). An old copy of `head` is
enough for the space test since `head` only moves away from `tail`. The store of `tail`
then extends the offsets by one message, the store of `head` drops the first one, and
`RoundTrip` and `AcceptedFits` supply the bytes. What `comsume` returned is embedded, in
order, in what was taken off: `GInv` adds that a message somebody still holds (`deqTrailer`)
is the last one taken off, so that its return extends the embedding, and that the two
lengths differ by no more than the deaths and the message held.

The same invariant gives the refinement: the operator that reads the messages off the bytes
(`InRing`, a recursive function of the number of bytes) yields exactly the messages at the
offsets, proved by taking the least number of bytes for which it does not. So the store of
`tail` is the abstract `Send`, the store of `head` `Receive`, everything else a stutter.

`CountAccounting` holds while nobody has died. `AmpleAssumption` says that each consumer's
buffer holds each message with the magic number behind it, without which the count is wrong
for good (section 5, 1). Its invariant `Exact` is the equation with both flags in place.

*The slot table*, under any writer's death at any step and any number of readers. What the
writer does depends on the table it finds, which after a crash is any table; so the
invariant `QInv` does not say that the table is in order. It says what each local of the
writer is worth at each point of a call (`Locals`), that a count exceeds neither the number
of calls begun nor, while a call may still raise it, the number before (`Counted`), and
what a reader asked for (`Asked`). Counts are not bounded by the number of slots: after two
deaths a put may find a link left by the first one to a slot that leads other keys now, and
counts can pass `maxslots`; the type of `count` says `MaxOps` for this reason. Hence every
index that anybody follows is a slot. Each loop of the readers bounds itself; `Rank` adds up
the bounds of the loops a call has before it, and each step lowers it: the scan from a slot
meets the slots in the order of `Dist`, the two passes count their links.

*The slot table's order*, until its writer first dies in a call (after that the properties
are false, as `hazards` about half-made puts say; `ht_writer` has no crashes). The invariant
`SInv` names for each point of a call a table that is in order (`Whole`: links mutual, keys
where they hash to, the number of keys of each hash, both counters), and how it is obtained
from the slots as they are: leaving out the slot that is being written or was just copied
(`Without`), taking a copied slot back to where it was (`BackAt`), with one slot that has
lost the slot before it (the set `O` of `Linked`, while a chain is released), with one key
more or less than a leading slot counts (`Pending`, `Left`). The lemmas before it are about
tables, not about steps: what a slot added, a chain extended, a used slot relocated, a
first slot orphaned, an orphan released do to a table in order (`LeadAdded`, `Extended`,
`Relocated`, `Orphaned`, `Released`). `RemData` reaches the end of its chain, and not its
limit of `maxslots` turns, because each turn empties a slot. That `num` counts the keys
that are found (`SettledCounters`) needs `get_idx` to find each of them although it gives
up after as many first slots as the leading one counts (`GetIdxFinds`).

*What the slot table stores*, again until its writer first dies in a call. `VInv` goes on
where `SInv` stops: for each point of `put`, `remove` and `clear` the table named there
spells its values (`Spelled`: along the links, each slot holds the chunk that follows the
one before it, and a last slot ends its value) and stores (`Stores`) the contents the call
began with, `before`; or those without the call's key (`Rest`); or those with the part of
the key's new value written so far (`New`). `Outcome` is what a call that has returned has
done. That `put` refuses or fails exactly when `KVTable` says so is a count of slots: each
used slot belongs to one first slot (`Rooted`) at one place of its value (`OnePiece`), and
each place of a value has its slot (`ChainExists`), so the used slots are the sum of the
blocks of the values (`UsedIs`). A table that spells and stores a map shows it: the walk of
`_get_data` from the slot that `get_idx` finds takes the pieces of the value in order
(`ViewIs`). With that each writer's step is a step of `KVTable` or a stutter
(`TableStep`); that it answers the call the client began, with that call's arguments, is
`Answering`. `Spelled` and `Stores` are about tables, and so are the lemmas about what a
slot added, a value extended, a slot relocated or released does to them.

*What readers get* while the writer makes no call, on any table: also one that a crash left
half-written, since nothing is assumed of the slots beyond `QInv`. The two theorems compare
a reader, which looks at one slot a step, with `View`, which looks at the whole table. So
`CInv` says of a reader whose call has met no call of the writer that its scan has passed
as many first slots of the hash as it has counted, none of them the key's (`Scanned`); that
its first pass has added up the sizes along the walk (`Summing`); that its second pass has
copied the pieces along the same walk (`Fetching`, `Took`); and that its traversal has
listed what the slots behind it hold (`Listed`). `GetScan` stops after as many first slots
as the leading slot counts, and `View` finds the same slot within that number or none
(`GetIdxHits`). A value that verifies has a byte in each of its slots, so the second pass,
which stops when it has as many bytes as the first pass summed, has by then copied the
whole value, and what may follow it does not matter (`WholeIs`, `GotWhole`); chains that run in circles never verify. What
a traversal lists besides (nothing, and each key once) is claimed for a writer that has not
died, and then follows from `SInv` and `VInv` (`SlotReads`).

*The wrapper*, for any number of writers under their lock. `LruCoversTable` is inductive
only together with `Listed`: a process that is down has an empty list, no key is in a list
twice, and the keys that a process knows are in the list in the order of their stores, the
last first. `Dated` says that no date lies behind the call that is not over, so that what is
pushed to the front is the youngest; `Refused` that a process evicts because its value did
not fit. `RoomIsFound` is then a sum: an empty list means that the process knows no key of
the table, so what is used belongs to others. The sums are those of the community modules'
folds; that such a sum is that of one element and the rest (`SumLemmas`) is proved by way of
a smallest set for which it fails.

*MD5*, for blocks and words of any size, messages of any length, pieces of any length.
`Holds` is what an open context is worth: `count` is congruent to the bits of the message,
modulo two words; what is compressed is the message's whole blocks; the buffer below the
index is the rest. `UpdatedHolds` says that a call of `QMD5Update` turns a context that
holds `m` into one that holds `m` and the input, whether the input completes the block in
the buffer or not; it does not say from which call `m` came, so that it serves the message,
the padding and the length alike, and a buffer full of another message's bytes. The carry
and the wrap of the two words are `CountedIsCount`, the index `IdxIsRest`. What
`QMD5Pad` appends is then the padding prescribed: its number of zeros is the least that
makes whole blocks (`ZerosAre`, `PaddedIsPrescribed`), its last bytes are the length even
when the two words have overflowed (`EncodeIsLength`). `PowerAssumption` states facts that
follow from `QMD5Assumption` by way of powers of two, of which the provers know nothing: a
word is a number greater than 0, and two words are made of whole bytes. TLC evaluates it in
`md5`.

Model-checked only, and why:

* Liveness, `EveryMessageDelivered` and `SetReturns`: outside the prover's scope. What
  `SetReturns` rests on, that each turn of the loop shortens the list or ends it, is not
  stated apart from it.
* `BystandersReadable`. `VInv` names the table at each point of a call; what `get_idx` makes
  of the tables in between, where counts and slots disagree, is not proved.
* The violated properties of section 5.

## 5. Where the code departs from what is said of it

1. `mq_small_buffer` / `QuietCount`: `dequeue` decrements `msgCount_` (line 346) before it
   finds the caller's buffer too small (405). The message stays, uncounted; the next
   `comsume` says the queue is empty. The header calls it the "msg count in the queue".
2. `mq_clear_race` / `QuietParses`: a clear between a consumer's loads and its store of
   `head` leaves a stale `head` behind `tail = 0`, and what lies between them is not
   messages. The locked classes have the same race, their two sides lock different files.
   The consumer's own tests find the damage later and reset the queue again; by the proofs
   nothing outside the block is touched meanwhile.
3. `ht_wrong_value` / `OwnValue`: a key is stored in its slot before its value; a reader
   between the two returns the previous tenant's value, whose check code is right.
4. `ht_lost_key` / `SteadyKeyFound`: removing a leading key sets the count of its hash to
   0 for a moment; a reader of another key with this hash is told that it does not exist.
5. `ht_attach` / `AttachSucceeds`: `init` traverses the table and gives up at the first
   value that does not verify, so a process that attaches while a writer is in `put` may be
   refused with `kErrLruInit`, also one that only reads: `hashtable_reader.cc` leaves
   `isLruEliminate` at its default. After a writer died there, every later `init` is
   refused until the key is set again by a process that has not attached with elimination.

Limits that no source line denies, and that the properties state as exceptions: with
several writers, keys that another writer stored cannot be evicted, and `setValue` then
fails with `kErrInvalidParams` (`RoomIsFound`); a creator of the table that dies between
`shmget` and `qhasharr` leaves a table to which all can attach and nobody can store. In
`qhashmurmur3_32` the tail is mixed with `(k << 13) | (k >> (32 - 15))`, which is no
rotation, unlike the loop's; it only makes the hash weaker, any function of the key will do.

A further consequence of the order in `dequeue`, allowed by `CountNeverAhead`: a consumer
that dies after the decrement leaves the counter one too low for good. One that dies after
the store of `head` and before it returns (415-437) takes its message with it.

## 6. Not modelled

* Messages whose length plus 12 does not fit a `uint32_t` (`LengthAssumption`).
* `getstat`, `getMsgCount`, `getStats`: reads without effect. `processCount_`.
* Threads of one process: `mutex_` orders single table calls, `lru_` is outside of it.
* A `put` between the stores of `maxslots` and of the two counters in `qhasharr`; the
  readers' side of a table without slots.
* A traversal that starts at another slot than 0: `hashtable_reader.cc:84` does not
  initialize its index. Keys longer than `_Q_HASHARR_KEYSIZE`, which README.md:14 excludes;
  a traversal returns them cut.
* The rounds of `QMD5Transform`, `qhashmurmur3_32`, byte order; failures of `malloc`,
  `shmget`, `shmat`, `open`, `flock`; the string and integer wrappers of `qhasharr.c`.
* `fini` of the locked classes forgetting to reset `mfd_`; a descriptor shared by `fork`.
* The main programs of `example/`, apart from what they say of the library's use.

## 7. Plan

Done, in this order: ring arithmetic with its proofs, queue, its refinement, its inductive
invariant; slot table, its refinement, its readers and traversals; wrapper with LRU and
several writers, creation of the table; MD5; then the proofs that the queue is a FIFO queue
and its counter exact, that eviction is right, that readers of the slot table stay inside
and end, that its writer keeps it in order, that MD5 digests the padded message however it
is cut, that the slot table implements the bounded map, and that undisturbed readers get
what it stores. Each safety property of a passing run is now a theorem, but for
`BystandersReadable`. Left to TLC are that one and the two liveness properties. Left to be stated is what a reader may be given while the writer is
in a call: section 5, 3 to 5, says what is not so.
