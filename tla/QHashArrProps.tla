----------------------------- MODULE QHashArrProps -----------------------------
(***************************************************************************)
(* What the slot table of QHashArr should satisfy.                         *)
(***************************************************************************)
EXTENDS QHashArr

Index == Slots \cup {-1}

WriterLabels == {"idle", "put", "move", "moveFree", "moveLinks", "putCount",
  "putHash", "putKey", "putEnd", "putValue", "putSize", "putExt", "putExtHead",
  "putLink", "putLead", "undone", "remove", "remCount", "remData", "remCopy",
  "remFree", "remLead", "removed", "clear", "clrSlots"}
ReaderLabels == {"idle", "lead", "scan", "slot", "sum", "size", "copy"}

Errors == {"none", "ok", "ENOBUFS", "ENOENT", "EFAULT"}
ReaderErrors ==
  {"none", "kOk", "kErrNotFound", "kErrDataMess", "exists", "traversed", "kErrLruInit"}

Bytes == [key : Keys \cup {None}, val : Values \cup {None}, from : Nat]
Size == (0..VALUESIZE) \cup (0..EXTSIZE)
Slot ==
  [count : -2..MaxOps, hash : Slots, size : Size, link : Index, key : Keys \cup {None},
   data : Bytes]

Call ==
  [op : {"none", "put", "remove", "clear"}, key : Keys \cup {None},
   val : Values \cup {None}, idx : Slots, cur : Slots, aux : Slots,
   cnt : -1..MaxOps, done : Nat, loops : Nat,
   then : {"removed", "remCopy", "undone"}, again : BOOLEAN]

Reply ==
  [op : {"none", "put", "remove", "clear"}, key : Keys \cup {None},
   val : Values \cup {None}, err : Errors]

Reading ==
  [call : ReaderCalls \cup {"none"}, key : Keys \cup {None}, at : Slots, start : Slots,
   n : Nat, sum : Nat, done : Nat, loops : 0..maxslots,
   got : Seq([data : Bytes, n : Nat]), idx : Slots,
   seen : Seq([key : Keys \cup {None}, val : Values \cup {None}]),
   res : [err : ReaderErrors, key : Keys \cup {None}, val : Values \cup {None}]]

\* Types of the variables; every index lies in the table, also the ones that
\* readers follow, and also after a crash in the middle of a call.  A count may
\* pass maxslots where crashes left links to slots that serve other keys now, but
\* no call raises one by more than 1.
TypeOK ==
  /\ slots \in [Slots -> Slot]
  /\ usedslots \in Int
  /\ num \in Int
  /\ wpc \in WriterLabels
  /\ w \in Call
  /\ reply \in Reply
  /\ rpc \in [Readers -> ReaderLabels]
  /\ rd \in [Readers -> Reading]
  /\ during \in [Readers -> {"calm", "steady", "touched"}]
  /\ ops \in 0..MaxOps

-------------------------------------------------------------------------------
(* The table between the writer's calls.                                   *)

Idle == wpc = "idle"

Nonempty == {i \in Slots : slots[i].count # 0}

\* The two counters agree with the slots, after every path through put (moves,
\* failures half-way), remove and clear: usedslots decides whether put tries at
\* all (line 275) and whether clear does anything (line 718).
CountersExact ==
  Idle => /\ usedslots = Cardinality(Nonempty)
          /\ num = Cardinality(DOMAIN View)

\* The links that later moves and removals rely on: a slot that has a next slot
\* is named by it, every extension slot has exactly the one before it, a leading
\* slot sits at its hash and counts the keys that hash there.
LinksMutual ==
  Idle =>
    \A i \in Nonempty :
      /\ slots[i].link # -1 => /\ slots[slots[i].link].count = -2
                               /\ slots[slots[i].link].hash = i
      /\ slots[i].count = -2 => slots[slots[i].hash].link = i
      /\ slots[i].count = -1 => slots[slots[i].hash].count > 1
      /\ slots[i].count > 0 =>
           /\ slots[i].hash = i
           /\ slots[i].count = Cardinality({j \in Slots : IsFirst(j, i)})

\* What a writer that dies leaves of the keys its call is not about.  put and
\* remove move, promote and unlink slots of other keys, store by store.  Wherever
\* the call stops, a key that get finds has its own value, whole, and get misses
\* none, except: one key with the call's hash, from the store of a colliding slot's
\* count to that of its leading slot (909-321) or from that of the leading slot to
\* the release of the colliding one (676-679); all of them while the leading slot
\* is replaced (657-662); one key of another hash, while a moved slot is there
\* twice (339-341) or a new slot still has the hash of an earlier use (909-910).
Replaced == w.then = "remCopy"

Hiding(k) ==
  IF Hash[k] = Hash[w.key]
  THEN {"putHash", "putKey", "putEnd", "putValue", "putSize", "putExt", "putExtHead",
        "putLink", "putLead", "remData", "remCopy", "remFree", "remLead"}
  ELSE {"moveFree", "putHash"}

BystandersReadable ==
  ~Idle /\ w.op # "clear" =>
    LET others == DOMAIN before \ {w.key}
        hidden == others \ DOMAIN View
    IN  /\ \A k \in others \ hidden : View[k] = before[k]
        /\ \A k \in hidden : wpc \in Hiding(k)
        /\ Cardinality(hidden) > 1 => Replaced

\* Refinement: to its writer the table is KVTable's bounded map.  A call takes
\* effect when it returns; until then the contents are those it began with.
\* Whatever slots its values lie in and however often they were moved, get finds
\* every key that was put and not removed, whole.
BlocksOf ==
  [v \in Values |-> CHOOSE n \in 1..ValSize[v] :
     ChunkFrom(n) < ValSize[v] /\ ValSize[v] <= ChunkFrom(n + 1)]

Table == INSTANCE KVTable WITH
  Key <- Keys, Val <- Values, Capacity <- maxslots, Blocks <- BlocksOf,
  map <- IF Idle THEN View ELSE before

TableSpec == Table!Spec

-------------------------------------------------------------------------------
(* Readers.                                                                *)

\* getValue returns a value that was stored for the key it was asked for
\* (README.md:10: readers operate concurrently with the writer).
OwnValue ==
  \A r \in Readers :
    rd[r].res.err = "kOk" => rd[r].res.key = rd[r].key

Answered(r, call) == rpc[r] = "idle" /\ rd[r].call = call

\* A get during which the writer makes no call returns what is stored, found
\* after collisions and moves and put together from all its slots, and exist
\* says whether it is; also on a table that a crash left half-written, for the
\* keys it left whole.
CalmGet ==
  \A r \in Readers :
    LET k == rd[r].key
    IN  during[r] = "calm" =>
          /\ Answered(r, "get") =>
               IF k \notin DOMAIN View THEN rd[r].res = NotFound
               ELSE View[k] # None => rd[r].res = Result("kOk", k, View[k])
          /\ Answered(r, "exist") =>
               rd[r].res = IF k \in DOMAIN View THEN Exists ELSE NotFound

\* A traversal (initLruMem, or getNext until the end) during which the writer
\* makes no call returns each stored key once, with its value.  Where a writer
\* died it may fail or list keys that get does not find, but what get finds it
\* lists, unless it fails.
CalmTraversal ==
  \A r \in Readers :
    during[r] = "calm" /\ Answered(r, "traverse") =>
      LET seen == rd[r].seen
          keys == {seen[i].key : i \in DOMAIN seen}
      IN  /\ rd[r].res = Traversed => DOMAIN View \subseteq keys
          /\ crashes = 0 =>
               /\ rd[r].res = Traversed
               /\ keys = DOMAIN View
               /\ Len(seen) = Cardinality(keys)
               /\ \A i \in DOMAIN seen : seen[i].val = View[seen[i].key]

\* A key that is stored, and that the writer left alone during the get, is found.
SteadyKeyFound ==
  \A r \in Readers :
    during[r] = "steady" =>
      rd[r].res.err \notin {"kErrNotFound", "kErrDataMess"}

\* A process attaches to a table that a writer is at work on: readers operate
\* concurrently with the writer (README.md:10), and init, which the example
\* reader calls with isLruEliminate, traverses the table.
AttachSucceeds == \A r \in Readers : rd[r].res # TraversalFailed

-------------------------------------------------------------------------------
(* Every reader's call returns after a bounded number of its own steps,    *)
(* although the links it follows may change, form a cycle or be left       *)
(* half-made by a crash.                                                   *)

\* Steps that _get_data takes at most from where r is in it.
DataRank(r) ==
  LET left == maxslots - rd[r].loops
  IN  CASE rpc[r] = "sum"  -> left + 2 * maxslots + 3
        [] rpc[r] = "size" -> 2 * left + 2
        [] rpc[r] = "copy" -> 2 * left + 1

\* Steps that r's call takes at most from where it is.
Rank(r) ==
  LET perSlot == 3 * maxslots + 5
  IN  CASE rpc[r] = "idle" -> 0
        [] rpc[r] = "lead" -> 4 * maxslots + 4
        [] rpc[r] = "scan" ->
             (maxslots - Dist(Hash[rd[r].key], rd[r].at)) + 3 * maxslots + 3
        [] rpc[r] = "slot" -> (maxslots - rd[r].idx) * perSlot
        [] rpc[r] \in {"sum", "size", "copy"} ->
             DataRank(r) + IF rd[r].call = "get" THEN 0
                           ELSE (maxslots - rd[r].idx - 1) * perSlot

\* Each step of a reader's call brings its end nearer, whatever the writer does
\* or left behind: the scan and the two passes each bound themselves.
ReadersAreWaitFree ==
  [][\A r \in Readers :
       rpc[r] # "idle" /\ <<rpc[r], rd[r]>>' # <<rpc[r], rd[r]>> =>
         0 <= Rank(r)' /\ Rank(r)' < Rank(r)]_vars
===============================================================================
