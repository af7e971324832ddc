----------------------------- MODULE QHashArrProofs -----------------------------
(***************************************************************************)
(* Proofs about the slot table, for any number of slots, keys, values,     *)
(* readers, calls and crashes: the types of its variables, and that every  *)
(* reader's call is bounded whatever the writer does to the slots it reads.*)
(***************************************************************************)
EXTENDS QHashArrProps, SumLemmas, SequenceTheorems

\* The points of the writer's call inside put, and inside the removal of a key.
PutLabels == {"put", "move", "moveFree", "moveLinks", "putCount", "putHash", "putKey",
  "putEnd", "putValue", "putSize", "putExt", "putExtHead", "putLink", "putLead", "undone"}
RemLabels == {"remove", "remCount", "remData", "remCopy", "remFree", "remLead", "removed"}

\* What the writer's locals are worth at each point of its call.
Locals ==
  /\ wpc = "idle" => w = NoWrite
  /\ wpc # "idle" => ops > 0
  /\ wpc \in PutLabels => w.op = "put" /\ w.then # "remCopy"
  /\ wpc \in RemLabels => w.op \in {"put", "remove"}
  /\ w.op = "put" => w.key \in Keys /\ w.val \in Values /\ w.done < ValSize[w.val]
  /\ w.op = "remove" => w.key \in Keys
  /\ w.again \/ w.then = "undone" => w.op = "put"
  /\ wpc \in {"put", "remove"} => w.cnt = 0
  /\ wpc \in PutLabels \ {"put", "undone"} => w.cnt \in {1, -1}
  /\ wpc = "putLead" => w.cnt = -1
  /\ wpc \in RemLabels /\ w.cnt = 1 => w.then = "undone"
  /\ wpc = "removed" => w.then # "undone"
  /\ w.then = "remCopy" => w.cnt > 1 /\ w.cnt < ops
  /\ wpc \in {"remCopy", "remFree", "remLead"} => w.then = "remCopy"
  /\ wpc = "remCount" => slots[slots[w.cur].hash].count > 1

\* No count exceeds the calls that may have raised it.
Counted ==
  \A i \in Slots :
    slots[i].count <= IF wpc = "idle" \/ w.cnt = 1 THEN ops ELSE ops - 1

\* The types of what the writer writes.
Written ==
  /\ slots \in [Slots -> Slot]
  /\ usedslots \in Int
  /\ num \in Int
  /\ wpc \in WriterLabels
  /\ w \in Call
  /\ reply \in Reply
  /\ ops \in 0..MaxOps

\* What holds of the writer and of the table at every point of its call.
WInv == Written /\ Locals /\ Counted

\* What a reader's locals are worth.
Asked ==
  \A r \in Readers :
    /\ rpc[r] \in {"lead", "scan"} =>
         rd[r].call \in {"get", "exist"} /\ rd[r].key \in Keys /\ rd[r].loops = 0
    /\ rpc[r] = "slot" => rd[r].call = "traverse" /\ rd[r].loops = 0
    /\ rpc[r] \in {"sum", "size", "copy"} => rd[r].call \in {"get", "traverse"}

\* The types of what a reader keeps.
Read ==
  /\ rpc \in [Readers -> ReaderLabels]
  /\ rd \in [Readers -> Reading]
  /\ during \in [Readers -> {"calm", "steady", "touched"}]

\* What holds of the readers whatever the slots they read hold.
RInv == Read /\ Asked

-------------------------------------------------------------------------------
(* The scans.                                                              *)

\* The cyclic order starts at a and has every slot once.
LEMMA DistType ==
  ASSUME NEW a \in Slots, NEW b \in Slots
  PROVE  /\ Dist(a, b) \in 0..(maxslots - 1)
         /\ After(a) \in Slots
BY TableAssumption DEF Slots, Dist, After

\* Among any slots there is one that a scan from a meets first.
LEMMA NearestIs ==
  ASSUME NEW a \in Slots, NEW S \in SUBSET Slots, S # {}
  PROVE  /\ Nearest(a, S) \in S
         /\ \A j \in S : Dist(a, Nearest(a, S)) <= Dist(a, j)
<1> DEFINE D == {Dist(a, i) : i \in S}
<1>1. D \in SUBSET Nat /\ D # {}
  BY DistType
<1>2. PICK n \in D : \A m \in D : n <= m
  <2> HIDE DEF D
  <2>1. QED BY <1>1, LeastNat
<1>3. \E i \in S : \A j \in S : Dist(a, i) <= Dist(a, j)
  BY <1>2
<1>4. QED BY <1>3 DEF Nearest

\* What find_empty and get_idx return is -1 or a slot.
LEMMA FindEmptyIs ==
  ASSUME Written, NEW start \in Slots
  PROVE  /\ find_empty(start) \in Index
         /\ find_empty(start) # -1 => slots[find_empty(start)].count = 0
<1> DEFINE free == {i \in Slots : slots[i].count = 0}
<1>1. free # {} => Nearest(start, free) \in free
  <2>1. free \in SUBSET Slots
    OBVIOUS
  <2> HIDE DEF free
  <2>2. QED BY <2>1, NearestIs
<1>2. QED BY <1>1 DEF find_empty, Index

\* What get_idx returns is -1 or the first slot of that key.
LEMMA GetIdxIs ==
  ASSUME Written, NEW k \in Keys
  PROVE  /\ get_idx(k) \in Index
         /\ get_idx(k) # -1 => /\ IsFirst(get_idx(k), Hash[k])
                              /\ slots[get_idx(k)].key = k
<1> DEFINE h == Hash[k]
           firsts == {i \in Slots : IsFirst(i, h)}
           passed(i) == {j \in firsts : Dist(h, j) < Dist(h, i)}
           hits == {i \in firsts : /\ slots[i].key = k
                                  /\ Cardinality(passed(i)) < slots[h].count}
<1>1. get_idx(k) = IF hits = {} THEN -1 ELSE Nearest(h, hits)
  BY DEF get_idx
<1>2. hits \in SUBSET Slots /\ \A i \in hits : IsFirst(i, h) /\ slots[i].key = k
  OBVIOUS
<1>3. h \in Slots
  BY TableAssumption
<1> HIDE DEF hits, h
<1>4. hits # {} => Nearest(h, hits) \in hits
  BY <1>2, <1>3, NearestIs
<1>5. QED BY <1>1, <1>2, <1>4 DEF Index, h

-------------------------------------------------------------------------------
(* The writer's steps.                                                     *)

\* Counts and calls are numbers.
LEMMA CountType ==
  ASSUME Written
  PROVE  /\ MaxOps \in Nat /\ ops \in Nat /\ ops <= MaxOps
         /\ \A i \in Slots : slots[i].count \in Int /\ slots[i].count >= -2
BY TableAssumption DEF Written, Slot

\* One field of one slot is stored.
LEMMA StoreCount ==
  ASSUME Written, NEW i \in Slots, NEW c \in -2..MaxOps,
         slots' = [slots EXCEPT ![i].count = c]
  PROVE  /\ slots' \in [Slots -> Slot]
         /\ slots'[i].count = c
         /\ \A j \in Slots : j # i => slots'[j].count = slots[j].count
         /\ \A j \in Slots : slots'[j].hash = slots[j].hash
BY DEF Written, Slot

\* A store to any other field leaves the counts alone.
LEMMA StoreOther ==
  ASSUME Written, NEW i \in Slots,
         \/ \E h \in Slots : slots' = [slots EXCEPT ![i].hash = h]
         \/ \E k \in Keys : slots' = [slots EXCEPT ![i].key = k]
         \/ \E l \in Index : slots' = [slots EXCEPT ![i].link = l]
         \/ \E n \in Size : slots' = [slots EXCEPT ![i].size = n]
         \/ \E d \in Bytes : slots' = [slots EXCEPT ![i].data = d]
  PROVE  /\ slots' \in [Slots -> Slot]
         /\ \A j \in Slots : slots'[j].count = slots[j].count
BY DEF Written, Slot

\* A slot is emptied, or gets a copy of another one.
LEMMA RemoveSlot ==
  ASSUME Written, NEW i \in Slots, remove_slot(i)
  PROVE  /\ slots' \in [Slots -> Slot] /\ usedslots' \in Int
         /\ slots'[i].count = 0
         /\ \A j \in Slots : j # i => slots'[j] = slots[j]
<1>1. 0 \in -2..MaxOps
  BY TableAssumption
<1>2. QED BY <1>1, StoreCount DEF Written, Slot, remove_slot

\* A copied slot is a slot, or stays what it was where the code copies nothing.
LEMMA CopySlot ==
  ASSUME Written, NEW to \in Slots, NEW from \in Slots, copy_slot(to, from)
  PROVE  /\ slots' \in [Slots -> Slot] /\ usedslots' \in Int
         /\ \A j \in Slots : j # to => slots'[j] = slots[j]
         /\ slots'[to] \in {slots[to], slots[from]}
BY DEF Written, copy_slot

\* The locals of no call.
LEMMA NoWriteType == NoWrite \in Call
<1>1. 0 \in Slots /\ 0 \in -1..MaxOps
  BY TableAssumption DEF Slots
<1>2. QED BY <1>1 DEF NoWrite, Call

\* A call begins: put, remove or clear with its arguments.
LEMMA BeginInv ==
  ASSUME WInv, NEW op \in {"put", "remove", "clear"}, NEW k \in Keys \cup {None},
         NEW v \in Values \cup {None}, NEW l \in WriterLabels, Begin(op, k, v), Goto(l),
         \/ op = "put" /\ l = "put" /\ k \in Keys /\ v \in Values
         \/ op = "remove" /\ l = "remove" /\ k \in Keys
         \/ op = "clear" /\ l = "clear"
  PROVE  WInv'
<1>1. w = NoWrite /\ slots' = slots /\ ops' = ops + 1 /\ wpc' = l /\ ops' \in 0..MaxOps
  BY TableAssumption DEF WInv, Written, Locals, Begin, Goto, table
<1>2. w' \in Call /\ w'.op = op /\ w'.key = k /\ w'.val = v /\ w'.done = 0 /\ w'.cnt = 0
      /\ w'.again = FALSE /\ w'.then = "removed"
  <2>1. NoWrite \in Call
    BY NoWriteType
  <2>2. w' = [NoWrite EXCEPT !.op = op, !.key = k, !.val = v]
    BY DEF Begin
  <2>3. w' \in Call /\ w'.op = op /\ w'.key = k /\ w'.val = v
    BY <2>1, <2>2 DEF Call
  <2>4. /\ w'.done = NoWrite.done /\ w'.cnt = NoWrite.cnt /\ w'.again = NoWrite.again
        /\ w'.then = NoWrite.then
    BY <2>1, <2>2 DEF Call
  <2>5. QED BY <2>3, <2>4 DEF NoWrite
<1>3. Written'
  BY <1>1, <1>2 DEF WInv, Written, Begin, table, Reply, Errors
<1>4. Locals'
  BY <1>1, <1>2, TableAssumption DEF WInv, Written, Locals, PutLabels, RemLabels
<1>5. Counted'
  BY <1>1, <1>2 DEF WInv, Written, Counted, Slot
<1>6. QED BY <1>3, <1>4, <1>5 DEF WInv

\* A call returns, or its writer dies: the next one starts anew.
LEMMA ReturnInv ==
  ASSUME WInv, wpc' = "idle", w' = NoWrite, UNCHANGED ops,
         reply' \in Reply,
         slots' \in [Slots -> Slot], usedslots' \in Int, num' \in Int,
         \A i \in Slots : slots'[i].count <= ops
  PROVE  WInv'
<1>1. NoWrite \in Call
  BY NoWriteType
<1>2. Written'
  BY <1>1 DEF WInv, Written, WriterLabels
<1>3. Locals'
  BY DEF Locals, NoWrite, PutLabels, RemLabels
<1>4. Counted'
  BY DEF Counted, NoWrite
<1>5. QED BY <1>2, <1>3, <1>4 DEF WInv

\* What Return gives, in a call with a reply.
LEMMA Returning ==
  ASSUME WInv, NEW err \in Errors, Return(err)
  PROVE  /\ wpc' = "idle" /\ w' = NoWrite
         /\ reply' \in Reply
BY DEF WInv, Written, Call, Reply, Return, Goto

\* What bounds the counts in a call bounds them after it.
LEMMA CountedOps ==
  ASSUME WInv
  PROVE  \A i \in Slots : slots[i].count <= ops
BY DEF WInv, Written, Counted, Slot

\* w' is well formed if it differs from w in well-formed locals.
LEMMA LocalTypes ==
  ASSUME Written,
         NEW idx \in Slots, NEW cur \in Slots, NEW aux \in Slots, NEW cnt \in -1..MaxOps,
         NEW done \in Nat, NEW loops \in Nat, NEW then \in {"removed", "remCopy", "undone"},
         NEW again \in BOOLEAN,
         w' = [w EXCEPT !.idx = idx, !.cur = cur, !.aux = aux, !.cnt = cnt,
                        !.done = done, !.loops = loops, !.then = then, !.again = again]
  PROVE  /\ w' \in Call
         /\ w'.op = w.op /\ w'.key = w.key /\ w'.val = w.val
         /\ w'.idx = idx /\ w'.cur = cur /\ w'.aux = aux /\ w'.cnt = cnt
         /\ w'.done = done /\ w'.loops = loops /\ w'.then = then /\ w'.again = again
BY DEF Written, Call

\* A call that goes on keeps the invariant if no count grows but to 1, at its end.
LEMMA InCall ==
  ASSUME WInv, wpc # "idle", wpc' \in WriterLabels \ {"idle"}, UNCHANGED <<ops, reply>>,
         w' \in Call, slots' \in [Slots -> Slot], usedslots' \in Int, num' \in Int, Locals',
         w.cnt = 1 => w'.cnt = 1,
         \A i \in Slots :
           \/ \E j \in Slots : slots'[i].count <= slots[j].count
           \/ slots'[i].count <= 0
           \/ slots'[i].count < ops
           \/ w'.cnt = 1 /\ slots'[i].count = 1
  PROVE  WInv'
<1>1. Written'
  BY DEF WInv, Written
<1>2. /\ MaxOps \in Nat /\ ops \in Nat /\ ops > 0
      /\ \A i \in Slots : slots[i].count \in Int
  BY CountType DEF WInv, Locals
<1>3. \A i \in Slots : slots'[i].count \in Int
  BY <1>1, CountType DEF Written, Slot
<1>4. \A j \in Slots : slots[j].count <= IF w.cnt = 1 THEN ops ELSE ops - 1
  BY DEF WInv, Counted
<1>5. \A i \in Slots : slots'[i].count <= IF w'.cnt = 1 THEN ops ELSE ops - 1
  BY <1>2, <1>3, <1>4
<1>6. Counted'
  BY <1>2, <1>5 DEF Counted
<1>7. QED BY <1>1, <1>6 DEF WInv

\* qhasharr_put: the outcomes of choosing a place.
LEMMA ChoosePlaceInv == ASSUME WInv, ChoosePlace PROVE WInv'
<1> DEFINE h == Hash[w.key]
           e == find_empty(IF slots[h].count > 0 THEN h ELSE After(h))
<1>0. /\ MaxOps \in Nat /\ ops \in Nat /\ ops <= MaxOps
      /\ \A i \in Slots : slots[i].count \in Int /\ slots[i].count >= -2
  BY CountType DEF WInv
<1>1. /\ wpc = "put" /\ w.op = "put" /\ w.key \in Keys /\ w.cnt = 0 /\ ops > 0
      /\ h \in Slots /\ e \in Index /\ UNCHANGED <<slots, usedslots, num, ops>>
  <2>1. wpc = "put" /\ w.op = "put" /\ w.key \in Keys /\ ops > 0 /\ w.cnt = 0
    BY DEF ChoosePlace, WInv, Locals, PutLabels
  <2>2. h \in Slots
    BY <2>1, TableAssumption
  <2>3. e \in Index
    BY <2>2, DistType, FindEmptyIs DEF WInv
  <2>4. QED BY <2>1, <2>2, <2>3 DEF ChoosePlace, table, still
<1>2. ASSUME Return("ENOBUFS") PROVE WInv'
  BY <1>1, <1>2, Returning, CountedOps, ReturnInv DEF Errors, WInv, Written
<1>3. ASSUME NEW i \in Slots, NEW cnt \in {1, -1}, NEW l \in {"putCount", "move"},
             w' = [w EXCEPT !.idx = i, !.cnt = cnt], wpc' = l, reply' = reply
      PROVE  WInv'
  <2>0. cnt \in -1..MaxOps
    BY <1>0, <1>1
  <2>1. /\ w' \in Call
        /\ w'.op = w.op /\ w'.key = w.key /\ w'.val = w.val /\ w'.done = w.done
        /\ w'.then = w.then /\ w'.again = w.again /\ w'.cnt = cnt
    BY <1>1, <1>3, <2>0 DEF WInv, Written, Call
  <2>2. Locals'
    BY <1>1, <1>3, <2>1 DEF WInv, Locals, PutLabels, RemLabels
  <2>3. \A j \in Slots : slots'[j].count <= slots[j].count
    BY <1>0, <1>1
  <2>4. QED BY <1>1, <1>3, <2>1, <2>2, <2>3, InCall DEF WInv, Written, WriterLabels
<1>4. ASSUME w' = [w EXCEPT !.again = TRUE], wpc' = "remove", reply' = reply
      PROVE  WInv'
  <2>1. /\ w' \in Call
        /\ w'.op = w.op /\ w'.key = w.key /\ w'.val = w.val /\ w'.done = w.done
        /\ w'.then = w.then /\ w'.cnt = w.cnt
    BY <1>4 DEF WInv, Written, Call
  <2>2. Locals'
    BY <1>1, <1>4, <2>1 DEF WInv, Locals, PutLabels, RemLabels
  <2>3. \A j \in Slots : slots'[j].count <= slots[j].count
    BY <1>0, <1>1
  <2>4. QED BY <1>1, <1>4, <2>1, <2>2, <2>3, InCall DEF WInv, Written, WriterLabels
<1>5. QED BY <1>1, <1>2, <1>3, <1>4 DEF ChoosePlace, Goto, Index

\* What a step of put knows.
LEMMA InPut ==
  ASSUME WInv, wpc \in PutLabels \ {"put", "undone"}
  PROVE  /\ wpc # "idle" /\ w.op = "put" /\ w.then # "remCopy" /\ ops > 0
         /\ w.key \in Keys /\ w.val \in Values /\ Hash[w.key] \in Slots
         /\ w.cnt \in {1, -1}
         /\ w.idx \in Slots /\ w.cur \in Slots /\ w.aux \in Slots
         /\ w.done \in Nat /\ w.done < ValSize[w.val] /\ ValSize[w.val] \in Nat
BY TableAssumption DEF WInv, Written, Call, Locals, PutLabels

\* A step of put that leaves the locals alone and raises no count.
LEMMA PutGoesOn ==
  ASSUME WInv, wpc \in PutLabels \ {"put", "undone"}, wpc' \in PutLabels \ {"put", "undone"},
         wpc' = "putLead" => w.cnt = -1, UNCHANGED <<w, ops, reply>>, slots' \in [Slots -> Slot], usedslots' \in Int,
         num' \in Int,
         \A i \in Slots :
           \/ \E j \in Slots : slots'[i].count <= slots[j].count
           \/ slots'[i].count <= 0
           \/ w.cnt = 1 /\ slots'[i].count = 1
  PROVE  WInv'
<1>1. Locals'
  BY InPut DEF WInv, Locals, PutLabels, RemLabels
<1>2. w' \in Call /\ (w.cnt = 1 => w'.cnt = 1)
  BY DEF WInv, Written
<1>3. wpc' \in WriterLabels \ {"idle"}
  BY DEF PutLabels, WriterLabels
<1>4. QED BY <1>1, <1>2, <1>3, InPut, InCall

\* The neighbours of a moved slot, and a new leading slot.
LEMMA MovedLinksType ==
  ASSUME Written, NEW i \in Slots
  PROVE  /\ MovedLinks(i) \in [Slots -> Slot]
         /\ \A x \in Slots : MovedLinks(i)[x].count = slots[x].count
<1> DEFINE mother == IF slots[i].count = -2
                     THEN [slots EXCEPT ![slots[i].hash].link = i] ELSE slots
<1>1. mother \in [Slots -> Slot] /\ \A x \in Slots : mother[x].count = slots[x].count
  BY DEF Written, Slot, Index
<1>2. MovedLinks(i) = [x \in Slots |->
         [mother[x] EXCEPT !.hash = IF x = mother[i].link THEN i ELSE @]]
  BY DEF MovedLinks
<1> HIDE DEF mother
<1>3. \A x \in Slots : mother[x].hash \in Slots
  BY <1>1 DEF Slot
<1>4. ASSUME NEW x \in Slots
      PROVE  MovedLinks(i)[x] \in Slot /\ MovedLinks(i)[x].count = mother[x].count
  <2>1. PICK s, h : s = mother[x] /\ h = IF x = mother[i].link THEN i ELSE mother[x].hash
    OBVIOUS
  <2>2. MovedLinks(i)[x] = [s EXCEPT !.hash = h]
    BY <1>2, <2>1
  <2>3. s \in Slot /\ h \in Slots
    BY <1>1, <1>3, <2>1
  <2>4. MovedLinks(i)[x] \in Slot /\ MovedLinks(i)[x].count = s.count
    BY <2>2, <2>3 DEF Slot
  <2>5. QED BY <2>1, <2>4
<1>5. QED BY <1>1, <1>2, <1>4

\* What Promoted writes: one count, and one back link.
LEMMA PromotedType ==
  ASSUME Written, NEW i \in Slots, NEW n \in -2..MaxOps
  PROVE  /\ Promoted(i, n) \in [Slots -> Slot]
         /\ Promoted(i, n)[i].count = n
         /\ \A x \in Slots \ {i} : Promoted(i, n)[x].count = slots[x].count
<1>1. \A x \in Slots : slots[x] \in Slot /\ slots[x].hash \in Slots
                       /\ slots[x].count \in -2..MaxOps
  BY DEF Written, Slot
<1>2. Promoted(i, n) =
        [x \in Slots |->
           [slots[x] EXCEPT !.count = IF x = i THEN n ELSE slots[x].count,
                            !.hash = IF x = slots[i].link THEN i ELSE slots[x].hash]]
  BY DEF Promoted
<1>3. ASSUME NEW x \in Slots
      PROVE  /\ Promoted(i, n)[x] \in Slot
             /\ Promoted(i, n)[x].count = IF x = i THEN n ELSE slots[x].count
  <2>1. PICK s, c, h : /\ s = slots[x]
                       /\ c = IF x = i THEN n ELSE slots[x].count
                       /\ h = IF x = slots[i].link THEN i ELSE slots[x].hash
    OBVIOUS
  <2>2. Promoted(i, n)[x] = [s EXCEPT !.count = c, !.hash = h]
    BY <1>2, <2>1
  <2>3. s \in Slot /\ c \in -2..MaxOps /\ h \in Slots
    BY <1>1, <2>1
  <2>4. Promoted(i, n)[x] \in Slot /\ Promoted(i, n)[x].count = c
    BY <2>2, <2>3 DEF Slot
  <2>5. QED BY <2>1, <2>4
<1>4. QED BY <1>2, <1>3

\* The slot in the way is copied, ...
LEMMA MoveInv == ASSUME WInv, Move PROVE WInv'
<1>1. wpc \in PutLabels \ {"put", "undone"} /\ wpc' \in PutLabels \ {"put", "undone", "putLead"}
  BY DEF Move, Goto, PutLabels
<1>2. Written /\ w.idx \in Slots /\ Hash[w.key] \in Slots
  BY <1>1, InPut DEF WInv
<1>3. /\ slots' \in [Slots -> Slot] /\ usedslots' \in Int
      /\ \A j \in Slots : slots'[j] \in {slots[w.idx], slots[Hash[w.key]], slots[j]}
  BY <1>2, CopySlot DEF Move
<1>4. \A i \in Slots : \E j \in Slots : slots'[i].count <= slots[j].count
  BY <1>2, <1>3, CountType
<1>5. QED BY <1>1, <1>2, <1>3, <1>4, PutGoesOn DEF Move, still, Written

\* ... the slot moved is released, ...
LEMMA MoveFreeInv == ASSUME WInv, MoveFree PROVE WInv'
<1>1. wpc \in PutLabels \ {"put", "undone"} /\ wpc' \in PutLabels \ {"put", "undone", "putLead"}
  BY DEF MoveFree, Goto, PutLabels
<1>2. Written /\ Hash[w.key] \in Slots
  BY <1>1, InPut DEF WInv
<1>3. /\ slots' \in [Slots -> Slot] /\ usedslots' \in Int
      /\ \A j \in Slots : slots'[j].count = 0 \/ slots'[j] = slots[j]
  BY <1>2, RemoveSlot DEF MoveFree
<1>4. \A i \in Slots :
        (\E j \in Slots : slots'[i].count <= slots[j].count) \/ slots'[i].count <= 0
  BY <1>2, <1>3, CountType
<1>5. QED BY <1>1, <1>2, <1>3, <1>4, PutGoesOn DEF MoveFree, still, Written

\* ... and the links of its neighbours are stored.
LEMMA MoveLinksInv == ASSUME WInv, MoveLinks PROVE WInv'
<1>1. wpc \in PutLabels \ {"put", "undone"} /\ wpc' = "putCount" /\ wpc = "moveLinks"
  BY DEF MoveLinks, Goto, PutLabels
<1>2. Written /\ w.idx \in Slots /\ Hash[w.key] \in Slots
  BY <1>1, InPut DEF WInv
<1>3. /\ slots' \in [Slots -> Slot]
      /\ \A j \in Slots : slots'[j].count = slots[j].count
  BY <1>2, MovedLinksType DEF MoveLinks
<1>4. \A i \in Slots : slots'[i].count <= slots[i].count
  BY <1>2, <1>3, CountType
<1>5. /\ w' \in Call
      /\ w'.op = w.op /\ w'.key = w.key /\ w'.val = w.val /\ w'.done = w.done
      /\ w'.then = w.then /\ w'.again = w.again /\ w'.cnt = w.cnt
  BY <1>2 DEF MoveLinks, Written, Call
<1>6. Locals'
  BY <1>1, <1>5, InPut DEF MoveLinks, still, WInv, Locals, PutLabels, RemLabels
<1>7. QED BY <1>1, <1>2, <1>3, <1>4, <1>5, <1>6, InPut, InCall
      DEF MoveLinks, still, Written, WriterLabels

\* _put_data: the count, which the new call may raise to ops at most, ...
LEMMA PutCountInv == ASSUME WInv, PutCount PROVE WInv'
<1>1. wpc \in PutLabels \ {"put", "undone"} /\ Written
  BY DEF PutCount, PutLabels, WInv
<1>2. w.idx \in Slots /\ w.cnt \in -1..MaxOps /\ w.cnt \in {1, -1}
      /\ UNCHANGED <<usedslots, num, ops>>
  BY <1>1, InPut DEF Written, Call, PutCount, still
<1>3. CASE slots[w.idx].count # 0
  BY <1>1, <1>2, <1>3, Returning, CountedOps, ReturnInv DEF PutCount, Written, Errors
<1>4. CASE slots[w.idx].count = 0
  <2>1. w.cnt \in -2..MaxOps
    BY <1>2, TableAssumption
  <2>2. /\ slots' \in [Slots -> Slot]
        /\ slots'[w.idx].count = w.cnt
        /\ \A j \in Slots : j # w.idx => slots'[j].count = slots[j].count
    BY <1>1, <1>2, <1>4, <2>1, StoreCount DEF PutCount
  <2>3. \A i \in Slots :
          \/ \E j \in Slots : slots'[i].count <= slots[j].count
          \/ slots'[i].count <= 0
          \/ w.cnt = 1 /\ slots'[i].count = 1
    BY <1>1, <1>2, <2>2, CountType
  <2>4. wpc' \in PutLabels \ {"put", "undone", "putLead"}
    BY <1>4 DEF PutCount, Goto, PutLabels
  <2>5. QED BY <1>1, <1>2, <1>4, <2>2, <2>3, <2>4, PutGoesOn DEF PutCount, Written
<1>5. QED BY <1>3, <1>4

\* ... the hash, ...
LEMMA PutHashInv == ASSUME WInv, PutHash PROVE WInv'
<1>1. /\ wpc \in PutLabels \ {"put", "undone"} /\ wpc' \in PutLabels \ {"put", "undone", "putLead"}
      /\ Written
  BY DEF PutHash, Goto, PutLabels, WInv
<1>2. /\ slots' \in [Slots -> Slot]
      /\ \A j \in Slots : slots'[j].count = slots[j].count
  BY <1>1, InPut, StoreOther DEF PutHash
<1>3. \A i \in Slots : slots'[i].count <= slots[i].count
  BY <1>1, <1>2, CountType
<1>4. QED BY <1>1, <1>2, <1>3, PutGoesOn DEF PutHash, still, Written

\* ... the key, ...
LEMMA PutKeyInv == ASSUME WInv, PutKey PROVE WInv'
<1>1. wpc \in PutLabels \ {"put", "undone"} /\ wpc' = "putEnd" /\ wpc = "putKey" /\ Written
  BY DEF PutKey, Goto, PutLabels, WInv
<1>2. /\ slots' \in [Slots -> Slot]
      /\ \A j \in Slots : slots'[j].count = slots[j].count
  BY <1>1, InPut, StoreOther DEF PutKey
<1>3. \A i \in Slots : slots'[i].count <= slots[i].count
  BY <1>1, <1>2, CountType
<1>4. /\ w' \in Call
      /\ w'.op = w.op /\ w'.key = w.key /\ w'.val = w.val /\ w'.done = w.done
      /\ w'.then = w.then /\ w'.again = w.again /\ w'.cnt = w.cnt
  BY <1>1, InPut DEF PutKey, Written, Call
<1>5. Locals'
  BY <1>1, <1>4, InPut DEF PutKey, still, WInv, Locals, PutLabels, RemLabels
<1>6. QED BY <1>1, <1>2, <1>3, <1>4, <1>5, InPut, InCall
      DEF PutKey, still, Written, WriterLabels

\* ... the end of its chain, ...
LEMMA PutEndInv == ASSUME WInv, PutEnd PROVE WInv'
<1>1. /\ wpc \in PutLabels \ {"put", "undone"} /\ wpc' \in PutLabels \ {"put", "undone", "putLead"}
      /\ Written
  BY DEF PutEnd, Goto, PutLabels, WInv
<1>2. /\ slots' \in [Slots -> Slot]
      /\ \A j \in Slots : slots'[j].count = slots[j].count
  <2>1. -1 \in Index
    BY DEF Index
  <2>2. QED BY <1>1, <2>1, InPut, StoreOther DEF PutEnd
<1>3. \A i \in Slots : slots'[i].count <= slots[i].count
  BY <1>1, <1>2, CountType
<1>4. QED BY <1>1, <1>2, <1>3, PutGoesOn DEF PutEnd, still, Written

\* ... and the chunks of the value.
LEMMA PutValueInv == ASSUME WInv, PutValue PROVE WInv'
<1>1. /\ wpc \in PutLabels \ {"put", "undone"} /\ wpc' \in PutLabels \ {"put", "undone", "putLead"}
      /\ Written
  BY DEF PutValue, Goto, PutLabels, WInv
<1>2. /\ slots' \in [Slots -> Slot]
      /\ \A j \in Slots : slots'[j].count = slots[j].count
  <2>1. Chunk(w.key, w.val, w.done) \in Bytes
    BY <1>1, InPut DEF Chunk, Bytes
  <2>2. QED BY <1>1, <2>1, InPut, StoreOther DEF PutValue
<1>3. \A i \in Slots : slots'[i].count <= slots[i].count
  BY <1>1, <1>2, CountType
<1>4. QED BY <1>1, <1>2, <1>3, PutGoesOn DEF PutValue, still, Written

\* The bytes that fit a slot.
LEMMA ChunkSizeType ==
  ASSUME NEW v \in Values, NEW from \in Nat, from < ValSize[v]
  PROVE  ChunkSize(v, from) \in Size /\ ChunkSize(v, from) \in Nat \ {0}
BY TableAssumption DEF ChunkSize, Smaller, Size

\* The zeroed slot.
LEMMA EmptySlotType == EmptySlot \in Slot /\ EmptySlot.count = 0
<1>1. 0 \in Slots /\ 0 \in -2..MaxOps /\ 0 \in Index /\ 0 \in Size
  BY TableAssumption DEF Slots, Index, Size
<1>2. ZeroBytes \in Bytes
  BY DEF ZeroBytes, Chunk, Bytes
<1>3. QED BY <1>1, <1>2 DEF EmptySlot, Slot

\* A slot is cleared.
LEMMA ZeroSlot ==
  ASSUME Written, NEW i \in Slots, slots' = [slots EXCEPT ![i] = EmptySlot]
  PROVE  /\ slots' \in [Slots -> Slot]
         /\ \A j \in Slots : slots'[j].count = 0 \/ slots'[j] = slots[j]
         /\ \A j \in Slots :
              (\E x \in Slots : slots'[j].count <= slots[x].count) \/ slots'[j].count <= 0
<1>1. /\ slots' \in [Slots -> Slot]
      /\ \A j \in Slots : slots'[j].count = 0 \/ slots'[j] = slots[j]
  BY EmptySlotType DEF Written
<1>2. QED BY <1>1, CountType

\* After a chunk put returns, counts a collision or goes on to another slot.
LEMMA PutSizeInv == ASSUME WInv, PutSize PROVE WInv'
<1> DEFINE n == ChunkSize(w.val, w.done)
<1>1. wpc = "putSize" /\ wpc \in PutLabels \ {"put", "undone"} /\ Written
  BY DEF PutSize, PutLabels, WInv
<1>2. n \in Size /\ n \in Nat \ {0}
  BY <1>1, InPut, ChunkSizeType
<1> HIDE DEF n
<1>3. slots' = [slots EXCEPT ![w.cur].size = n] /\ ops' = ops
      /\ usedslots' = usedslots + 1
      /\ num' = (IF slots[w.cur].count = -2 THEN num ELSE num + 1)
  BY DEF PutSize, still, n
<1>4. /\ slots' \in [Slots -> Slot] /\ usedslots' \in Int /\ num' \in Int
      /\ \A j \in Slots : slots'[j].count = slots[j].count
  <2>1. /\ slots' \in [Slots -> Slot]
        /\ \A j \in Slots : slots'[j].count = slots[j].count
    BY <1>1, <1>2, <1>3, InPut, StoreOther
  <2>2. QED BY <1>1, <1>3, <2>1 DEF Written
<1>5. \A i \in Slots : slots'[i].count <= slots[i].count /\ slots'[i].count <= ops
  BY <1>1, <1>4, CountType, CountedOps
<1>6. CASE w.done + n < ValSize[w.val] /\ w' = [w EXCEPT !.done = @ + n]
           /\ Goto("putExt") /\ UNCHANGED reply
  <2>1. /\ w' \in Call
        /\ w'.op = w.op /\ w'.key = w.key /\ w'.val = w.val /\ w'.done = w.done + n
        /\ w'.then = w.then /\ w'.again = w.again /\ w'.cnt = w.cnt
    BY <1>1, <1>2, <1>6 DEF Written, Call
  <2>2. Locals'
    BY <1>1, <1>3, <1>6, <2>1, InPut DEF WInv, Locals, PutLabels, RemLabels, Goto
  <2>3. QED BY <1>1, <1>3, <1>4, <1>5, <1>6, <2>1, <2>2, InPut, InCall
        DEF WriterLabels, Goto
<1>7. CASE Return("ok")
  BY <1>3, <1>4, <1>5, <1>7, Returning, ReturnInv DEF Errors
<1>8. CASE w.cnt = -1 /\ Goto("putLead") /\ UNCHANGED <<w, reply>>
  <2>1. wpc' \in PutLabels \ {"put", "undone"}
    BY <1>8 DEF PutLabels, Goto
  <2>2. QED BY <1>1, <1>3, <1>4, <1>5, <1>8, <2>1, PutGoesOn
<1>9. QED BY <1>6, <1>7, <1>8 DEF PutSize, n

\* A slot for the next chunk is found and cleared, or the put undone.
LEMMA PutExtInv == ASSUME WInv, PutExt PROVE WInv'
<1> DEFINE e == find_empty(After(w.cur))
<1>1. wpc = "putExt" /\ wpc \in PutLabels \ {"put", "undone"} /\ Written
      /\ UNCHANGED <<usedslots, num, reply, ops>>
  BY DEF PutExt, PutLabels, WInv, still
<1>2. e \in Index
  <2>1. After(w.cur) \in Slots
    BY <1>1, InPut, DistType
  <2>2. QED BY <1>1, <2>1, FindEmptyIs
<1>3. \A i \in Slots : slots[i].count <= slots[i].count
  BY <1>1, CountType
<1> HIDE DEF e
<1>4. CASE w' = [w EXCEPT !.cur = w.idx, !.then = "undone"] /\ Goto("remData")
           /\ UNCHANGED slots
  <2>1. /\ w' \in Call
        /\ w'.op = w.op /\ w'.key = w.key /\ w'.val = w.val /\ w'.done = w.done
        /\ w'.then = "undone" /\ w'.again = w.again /\ w'.cnt = w.cnt
    BY <1>1, <1>4 DEF Written, Call
  <2>2. Locals'
    BY <1>1, <1>4, <2>1, InPut DEF WInv, Locals, PutLabels, RemLabels, Goto
  <2>3. QED BY <1>1, <1>3, <1>4, <2>1, <2>2, InPut, InCall DEF WriterLabels, Goto, Written
<1>5. CASE e # -1 /\ slots' = [slots EXCEPT ![e] = EmptySlot] /\ w' = [w EXCEPT !.aux = e]
           /\ Goto("putExtHead")
  <2>1. e \in Slots
    BY <1>2, <1>5 DEF Index
  <2>2. /\ w' \in Call
        /\ w'.op = w.op /\ w'.key = w.key /\ w'.val = w.val /\ w'.done = w.done
        /\ w'.then = w.then /\ w'.again = w.again /\ w'.cnt = w.cnt
    BY <1>1, <1>5, <2>1 DEF Written, Call
  <2>3. Locals'
    BY <1>1, <1>5, <2>2, InPut DEF WInv, Locals, PutLabels, RemLabels, Goto
  <2>4. /\ slots' \in [Slots -> Slot]
        /\ \A j \in Slots :
             (\E x \in Slots : slots'[j].count <= slots[x].count) \/ slots'[j].count <= 0
    BY <1>1, <1>5, <2>1, ZeroSlot
  <2>5. QED BY <1>1, <1>5, <2>2, <2>3, <2>4, InPut, InCall DEF WriterLabels, Goto, Written
<1>6. QED BY <1>4, <1>5 DEF PutExt, e

\* The head of an extension slot is stored, ...
LEMMA PutExtHeadInv == ASSUME WInv, PutExtHead PROVE WInv'
<1>1. /\ wpc \in PutLabels \ {"put", "undone"} /\ wpc' \in PutLabels \ {"put", "undone", "putLead"}
      /\ Written
  BY DEF PutExtHead, Goto, PutLabels, WInv
<1>2. /\ slots' \in [Slots -> Slot]
      /\ \A j \in Slots : slots'[j].count = slots[j].count \/ slots'[j].count = -2
  <2>1. -1 \in Index /\ -2 \in -2..MaxOps
    BY TableAssumption DEF Index
  <2>2. QED BY <1>1, <2>1, InPut DEF PutExtHead, Written, Slot
<1>3. \A i \in Slots :
        (\E j \in Slots : slots'[i].count <= slots[j].count) \/ slots'[i].count <= 0
  BY <1>1, <1>2, CountType
<1>4. QED BY <1>1, <1>2, <1>3, PutGoesOn DEF PutExtHead, still, Written

\* ... and the slot before it linked to it.
LEMMA PutLinkInv == ASSUME WInv, PutLink PROVE WInv'
<1>1. wpc \in PutLabels \ {"put", "undone"} /\ wpc' = "putValue" /\ wpc = "putLink" /\ Written
  BY DEF PutLink, Goto, PutLabels, WInv
<1>2. /\ slots' \in [Slots -> Slot]
      /\ \A j \in Slots : slots'[j].count = slots[j].count
  <2>1. w.aux \in Index /\ w.cur \in Slots
    BY <1>1, InPut DEF Index
  <2>2. QED BY <1>1, <2>1, StoreOther DEF PutLink
<1>3. \A i \in Slots : slots'[i].count <= slots[i].count
  BY <1>1, <1>2, CountType
<1>4. /\ w' \in Call
      /\ w'.op = w.op /\ w'.key = w.key /\ w'.val = w.val /\ w'.done = w.done
      /\ w'.then = w.then /\ w'.again = w.again /\ w'.cnt = w.cnt
  BY <1>1, InPut DEF PutLink, Written, Call
<1>5. Locals'
  BY <1>1, <1>4, InPut DEF PutLink, still, WInv, Locals, PutLabels, RemLabels
<1>6. QED BY <1>1, <1>2, <1>3, <1>4, <1>5, InPut, InCall
      DEF PutLink, still, Written, WriterLabels

\* A collision is counted: the one step that raises a stored count.
LEMMA PutLeadInv == ASSUME WInv, PutLead PROVE WInv'
<1>1. wpc \in PutLabels \ {"put", "undone"} /\ Written
  BY DEF PutLead, PutLabels, WInv
<1>2. /\ w.cnt = -1 /\ Hash[w.key] \in Slots /\ w.key \in Keys
      /\ \A i \in Slots : slots[i].count \in Int /\ slots[i].count >= -2
                          /\ slots[i].count <= ops - 1
      /\ MaxOps \in Nat /\ ops \in Nat /\ ops <= MaxOps
  BY <1>1, InPut, CountType DEF PutLead, WInv, Locals, Counted
<1>3. slots[Hash[w.key]].count + 1 \in -2..MaxOps
  BY <1>2
<1>4. slots' = [slots EXCEPT ![Hash[w.key]].count = slots[Hash[w.key]].count + 1]
  BY DEF PutLead
<1>5. /\ slots' \in [Slots -> Slot]
      /\ slots'[Hash[w.key]].count = slots[Hash[w.key]].count + 1
      /\ \A j \in Slots : j # Hash[w.key] => slots'[j].count = slots[j].count
  BY <1>1, <1>2, <1>3, <1>4, StoreCount
<1>6. \A i \in Slots : slots'[i].count <= ops
  BY <1>2, <1>5
<1>7. QED BY <1>1, <1>5, <1>6, Returning, ReturnInv DEF PutLead, still, Errors, Written

\* The undone put returns ENOBUFS.
LEMMA UndoneInv == ASSUME WInv, Undone PROVE WInv'
BY Returning, CountedOps, ReturnInv DEF Undone, table, still, Errors, WInv, Written

\* The key's value is gone: remove returns, or put goes on.
LEMMA RemovedInv ==
  ASSUME WInv, wpc \in {"remove", "removed"}, NEW err \in Errors, Removed(err),
         UNCHANGED <<slots, usedslots, num, ops>>
  PROVE  WInv'
<1>1. CASE Return(err)
  BY <1>1, Returning, CountedOps, ReturnInv DEF WInv, Written
<1>2. CASE w.again /\ Goto("put") /\ UNCHANGED reply
           /\ w' = [NoWrite EXCEPT !.op = w.op, !.key = w.key, !.val = w.val]
  <2>1. /\ w.op = "put" /\ w.key \in Keys /\ w.val \in Values /\ wpc # "idle" /\ ops > 0
        /\ w.cnt # 1 /\ ValSize[w.val] > 0
    BY <1>2, TableAssumption DEF WInv, Locals, RemLabels
  <2>2. /\ w' \in Call /\ w'.op = "put" /\ w'.key = w.key /\ w'.val = w.val
        /\ w'.done = NoWrite.done /\ w'.cnt = NoWrite.cnt /\ w'.then = NoWrite.then
        /\ w'.again = NoWrite.again
    BY <1>2, <2>1, NoWriteType DEF Call
  <2>3. w'.done = 0 /\ w'.cnt = 0 /\ w'.then = "removed" /\ w'.again = FALSE
    BY <2>2 DEF NoWrite
  <2>4. Locals'
    BY <1>2, <2>1, <2>2, <2>3 DEF Locals, PutLabels, RemLabels, Goto
  <2>5. \A i \in Slots : slots'[i].count <= slots[i].count
    BY CountType DEF WInv
  <2>6. QED BY <1>2, <2>1, <2>2, <2>4, <2>5, InCall DEF WriterLabels, Goto, WInv, Written
<1>3. QED BY <1>1, <1>2 DEF Removed

\* qhasharr_remove: the outcomes of choosing how to remove a key.
LEMMA ChooseRemovalInv == ASSUME WInv, ChooseRemoval PROVE WInv'
<1> DEFINE i == get_idx(w.key)
           dups == {j \in Slots \ {i} : slots[j].count = -1 /\ slots[j].hash = Hash[w.key]}
<1>1. /\ wpc = "remove" /\ wpc \in RemLabels /\ w.key \in Keys /\ w.cnt = 0 /\ ops > 0
      /\ Written /\ UNCHANGED <<slots, usedslots, num, ops>>
  BY DEF ChooseRemoval, WInv, Locals, RemLabels, table, still
<1>2. i \in Index
  BY <1>1, GetIdxIs
<1>3. i # -1 => i \in Slots /\ slots[i].count \in -2..MaxOps /\ slots[i].hash \in Slots
  BY <1>1, <1>2 DEF Index, Written, Slot
<1>4. i # -1 /\ dups # {} => Nearest(After(i), dups) \in dups
  <2>1. dups \in SUBSET Slots
    OBVIOUS
  <2> HIDE DEF dups
  <2>2. QED BY <1>3, <2>1, DistType, NearestIs
<1>5. ASSUME NEW err \in Errors, Removed(err) PROVE WInv'
  BY <1>1, <1>5, RemovedInv
<1>6. \A x \in Slots : slots'[x].count <= slots[x].count
  BY <1>1, CountType
<1>7. ASSUME w' \in Call, w'.op = w.op, w'.key = w.key, w'.val = w.val, w'.done = w.done,
             w'.again = w.again, w'.cnt # 1, w'.then # "undone",
             w'.then = "remCopy" => w'.cnt > 1 /\ w'.cnt < ops,
             wpc' \in {"remData", "remCount"}, reply' = reply,
             wpc' = "remCount" => slots[slots[w'.cur].hash].count > 1
      PROVE  WInv'
  <2>1. Locals'
    BY <1>1, <1>7 DEF WInv, Locals, PutLabels, RemLabels
  <2>2. QED BY <1>1, <1>6, <1>7, <2>1, InCall DEF WriterLabels, Written
<1>8. \/ i = -1 /\ Removed("ENOENT")
      \/ i # -1 /\ Removed("EFAULT")
      \/ /\ i # -1 /\ wpc' = "remData" /\ reply' = reply
         /\ w' = [w EXCEPT !.idx = i, !.cur = i, !.aux = 0, !.cnt = 0, !.then = "removed"]
      \/ /\ i # -1 /\ slots[i].count > 1 /\ dups # {} /\ wpc' = "remData" /\ reply' = reply
         /\ w' = [w EXCEPT !.idx = i, !.cur = i, !.aux = Nearest(After(i), dups),
                           !.cnt = slots[i].count, !.then = "remCopy"]
      \/ /\ i # -1 /\ ~(slots[slots[i].hash].count <= 1)
         /\ wpc' = "remCount" /\ reply' = reply
         /\ w' = [w EXCEPT !.idx = i, !.cur = i, !.aux = 0, !.cnt = 0, !.then = "removed"]
  BY DEF ChooseRemoval, Goto
<1>9. 0 \in Slots /\ 0 \in 0..MaxOps
  BY TableAssumption DEF Slots
<1>10. i # -1 /\ slots[i].count > 1 => slots[i].count \in 0..MaxOps /\ slots[i].count # 1
  BY <1>3, TableAssumption
<1>11. i # -1 /\ ~(slots[slots[i].hash].count <= 1) => slots[slots[i].hash].count > 1
  BY <1>1, <1>3, CountType
<1>12. dups \subseteq Slots
  OBVIOUS
<1> HIDE DEF i, dups
<1>13. CASE Removed("ENOENT") \/ Removed("EFAULT")
  BY <1>5, <1>13 DEF Errors
<1>14. CASE /\ i # -1 /\ wpc' = "remData" /\ reply' = reply
            /\ w' = [w EXCEPT !.idx = i, !.cur = i, !.aux = 0, !.cnt = 0, !.then = "removed"]
  <2>1. i \in Slots /\ 0 \in -1..MaxOps
    BY <1>3, <1>9, <1>14
  <2>2. /\ w' \in Call /\ w'.op = w.op /\ w'.key = w.key /\ w'.val = w.val
        /\ w'.done = w.done /\ w'.again = w.again /\ w'.cnt = 0 /\ w'.then = "removed"
    BY <1>1, <1>9, <1>14, <2>1 DEF Written, Call
  <2>3. QED BY <1>7, <1>14, <2>2
<1>15. CASE /\ i # -1 /\ slots[i].count > 1 /\ dups # {} /\ wpc' = "remData" /\ reply' = reply
            /\ w' = [w EXCEPT !.idx = i, !.cur = i, !.aux = Nearest(After(i), dups),
                              !.cnt = slots[i].count, !.then = "remCopy"]
  <2>1. i \in Slots /\ Nearest(After(i), dups) \in Slots /\ slots[i].count \in -1..MaxOps
    BY <1>3, <1>4, <1>10, <1>12, <1>15
  <2>2. /\ w' \in Call /\ w'.op = w.op /\ w'.key = w.key /\ w'.val = w.val
        /\ w'.done = w.done /\ w'.again = w.again /\ w'.cnt = slots[i].count
        /\ w'.then = "remCopy"
    BY <1>1, <1>15, <2>1 DEF Written, Call
  <2>3. slots[i].count < ops
    BY <1>1, <2>1, CountType DEF WInv, Counted
  <2>4. QED BY <1>7, <1>10, <1>15, <2>2, <2>3
<1>16. CASE /\ i # -1 /\ ~(slots[slots[i].hash].count <= 1)
            /\ wpc' = "remCount" /\ reply' = reply
            /\ w' = [w EXCEPT !.idx = i, !.cur = i, !.aux = 0, !.cnt = 0, !.then = "removed"]
  <2>1. i \in Slots /\ slots[slots[i].hash].count > 1 /\ 0 \in -1..MaxOps
    BY <1>3, <1>9, <1>11, <1>16
  <2>2. /\ w' \in Call /\ w'.op = w.op /\ w'.key = w.key /\ w'.val = w.val
        /\ w'.done = w.done /\ w'.again = w.again /\ w'.cnt = 0 /\ w'.then = "removed"
        /\ w'.cur = i
    BY <1>1, <1>9, <1>16, <2>1 DEF Written, Call
  <2>3. QED BY <1>7, <1>16, <2>1, <2>2
<1>17. QED BY <1>8, <1>13, <1>14, <1>15, <1>16

\* A step of remove that leaves the locals alone and raises no count.
LEMMA RemoveGoesOn ==
  ASSUME WInv, wpc \in RemLabels, UNCHANGED <<w, ops, reply>>,
         \/ wpc = "remCount" /\ wpc' = "remData"
         \/ wpc = "remCopy" /\ wpc' = "remFree"
         \/ wpc = "remFree" /\ wpc' = "remLead"
         \/ wpc = "remLead" /\ wpc' = "removed",
         slots' \in [Slots -> Slot], usedslots' \in Int, num' \in Int,
         \A i \in Slots :
           \/ \E j \in Slots : slots'[i].count <= slots[j].count
           \/ slots'[i].count <= 0
           \/ slots'[i].count < ops
  PROVE  WInv'
<1>1. Locals'
  BY DEF WInv, Locals, PutLabels, RemLabels
<1>2. w' \in Call /\ (w.cnt = 1 => w'.cnt = 1)
  BY DEF WInv, Written
<1>3. wpc' \in WriterLabels \ {"idle"} /\ wpc # "idle"
  BY DEF RemLabels, WriterLabels
<1>4. QED BY <1>1, <1>2, <1>3, InCall

\* The leader's count is lowered; it was above 1.
LEMMA RemCountInv == ASSUME WInv, RemCount PROVE WInv'
<1>1. wpc \in RemLabels /\ Written /\ wpc = "remCount" /\ wpc' = "remData" /\ w.cur \in Slots
  BY DEF RemCount, RemLabels, WInv, Goto, Written, Call
<1>2. /\ slots[w.cur].hash \in Slots /\ slots[slots[w.cur].hash].count > 1
      /\ slots[slots[w.cur].hash].count \in Int
      /\ slots[slots[w.cur].hash].count - 1 \in -2..MaxOps
  BY <1>1, TableAssumption DEF WInv, Written, Slot, Locals
<1>3. slots' = [slots EXCEPT ![slots[w.cur].hash].count = slots[slots[w.cur].hash].count - 1]
  BY DEF RemCount
<1>4. /\ slots' \in [Slots -> Slot]
      /\ slots'[slots[w.cur].hash].count = slots[slots[w.cur].hash].count - 1
      /\ \A j \in Slots : j # slots[w.cur].hash => slots'[j].count = slots[j].count
  BY <1>1, <1>2, <1>3, StoreCount
<1>5. \A i \in Slots : slots'[i].count <= slots[i].count
  BY <1>1, <1>2, <1>4, CountType
<1>6. QED BY <1>1, <1>4, <1>5, RemoveGoesOn DEF RemCount, still, Written

\* _remove_data releases a slot and follows its link, or is through.
LEMMA RemDataInv == ASSUME WInv, RemData PROVE WInv'
<1> DEFINE link == slots[w.cur].link
<1>1. /\ wpc = "remData" /\ wpc \in RemLabels /\ Written /\ w.cur \in Slots /\ link \in Index
      /\ w.op \in {"put", "remove"} /\ ops > 0 /\ UNCHANGED <<reply, ops>>
  BY DEF RemData, RemLabels, WInv, Written, Call, Slot, Locals, still
<1>2. /\ slots' \in [Slots -> Slot] /\ usedslots' \in Int
      /\ \A j \in Slots : slots'[j].count = 0 \/ slots'[j] = slots[j]
  BY <1>1, RemoveSlot DEF RemData
<1>3. \A i \in Slots :
        (\E j \in Slots : slots'[i].count <= slots[j].count) \/ slots'[i].count <= 0
  BY <1>1, <1>2, CountType
<1>4. \/ num' = num - 1 /\ w' = [w EXCEPT !.loops = 0] /\ wpc' = w.then
      \/ link # -1 /\ w' = [w EXCEPT !.cur = link, !.loops = @ + 1] /\ UNCHANGED <<num, wpc>>
  BY DEF RemData, Goto, ChainEnds
<1> HIDE DEF link
<1>5. CASE num' = num - 1 /\ w' = [w EXCEPT !.loops = 0] /\ wpc' = w.then
  <2>1. /\ w' \in Call /\ w'.op = w.op /\ w'.key = w.key /\ w'.val = w.val
        /\ w'.done = w.done /\ w'.again = w.again /\ w'.cnt = w.cnt /\ w'.then = w.then
        /\ w.then \in {"removed", "remCopy", "undone"}
    BY <1>1, <1>5 DEF Written, Call
  <2>2. Locals'
    <3>1. CASE w.then = "removed"
      BY <1>1, <1>5, <2>1, <3>1 DEF WInv, Locals, PutLabels, RemLabels
    <3>2. CASE w.then = "remCopy"
      BY <1>1, <1>5, <2>1, <3>2 DEF WInv, Locals, PutLabels, RemLabels
    <3>3. CASE w.then = "undone"
      BY <1>1, <1>5, <2>1, <3>3 DEF WInv, Locals, PutLabels, RemLabels
    <3>4. QED BY <2>1, <3>1, <3>2, <3>3
  <2>3. num' \in Int /\ wpc' \in WriterLabels \ {"idle"}
    BY <1>1, <1>5, <2>1 DEF Written, WriterLabels
  <2>4. QED BY <1>1, <1>2, <1>3, <1>5, <2>1, <2>2, <2>3, InCall
<1>6. CASE link # -1 /\ w' = [w EXCEPT !.cur = link, !.loops = @ + 1] /\ UNCHANGED <<num, wpc>>
  <2>1. link \in Slots
    BY <1>1, <1>6 DEF Index
  <2>2. /\ w' \in Call /\ w'.op = w.op /\ w'.key = w.key /\ w'.val = w.val
        /\ w'.done = w.done /\ w'.again = w.again /\ w'.cnt = w.cnt /\ w'.then = w.then
    <3>1. PICK n \in Nat : n = w.loops + 1
      BY <1>1 DEF Written, Call
    <3>2. w' = [w EXCEPT !.cur = link, !.loops = n]
      BY <1>6, <3>1
    <3>3. QED BY <1>1, <2>1, <3>1, <3>2 DEF Written, Call
  <2>3. Locals'
    BY <1>1, <1>6, <2>2 DEF WInv, Locals, PutLabels, RemLabels
  <2>4. num' \in Int /\ wpc' \in WriterLabels \ {"idle"}
    BY <1>1, <1>6 DEF Written, WriterLabels
  <2>5. QED BY <1>1, <1>2, <1>3, <1>6, <2>2, <2>3, <2>4, InCall
<1>7. QED BY <1>4, <1>5, <1>6

\* The next key of a leader's hash is copied to the leader's slot, ...
LEMMA RemCopyInv == ASSUME WInv, RemCopy PROVE WInv'
<1>1. wpc \in RemLabels /\ Written /\ wpc = "remCopy" /\ wpc' = "remFree"
      /\ w.idx \in Slots /\ w.aux \in Slots
  BY DEF RemCopy, RemLabels, WInv, Goto, Written, Call
<1>2. /\ slots' \in [Slots -> Slot] /\ usedslots' \in Int
      /\ \A j \in Slots : slots'[j] \in {slots[w.idx], slots[w.aux], slots[j]}
  BY <1>1, CopySlot DEF RemCopy
<1>3. \A i \in Slots : \E j \in Slots : slots'[i].count <= slots[j].count
  BY <1>1, <1>2, CountType
<1>4. QED BY <1>1, <1>2, <1>3, RemoveGoesOn DEF RemCopy, still, Written

\* ... the slot it came from released, ...
LEMMA RemFreeInv == ASSUME WInv, RemFree PROVE WInv'
<1>1. wpc \in RemLabels /\ Written /\ wpc = "remFree" /\ wpc' = "remLead" /\ w.aux \in Slots
  BY DEF RemFree, RemLabels, WInv, Goto, Written, Call
<1>2. /\ slots' \in [Slots -> Slot] /\ usedslots' \in Int
      /\ \A j \in Slots : slots'[j].count = 0 \/ slots'[j] = slots[j]
  BY <1>1, RemoveSlot DEF RemFree
<1>3. \A i \in Slots :
        (\E j \in Slots : slots'[i].count <= slots[j].count) \/ slots'[i].count <= 0
  BY <1>1, <1>2, CountType
<1>4. QED BY <1>1, <1>2, <1>3, RemoveGoesOn DEF RemFree, still, Written

\* ... and the count of the leader carried over, less one.
LEMMA RemLeadInv == ASSUME WInv, RemLead PROVE WInv'
<1>1. wpc \in RemLabels /\ Written /\ wpc = "remLead" /\ wpc' = "removed" /\ w.idx \in Slots
      /\ w.cnt > 1 /\ w.cnt < ops /\ w.cnt \in Int /\ ops \in Nat /\ ops <= MaxOps
  <2>1. w.cnt \in Int
    BY TableAssumption DEF WInv, Written, Call
  <2>2. QED BY <2>1, CountType DEF RemLead, RemLabels, WInv, Goto, Written, Call, Locals
<1>2. w.cnt - 1 \in -2..MaxOps /\ w.cnt - 1 < ops
  BY <1>1, TableAssumption
<1>3. /\ slots' \in [Slots -> Slot] /\ slots'[w.idx].count = w.cnt - 1
      /\ \A j \in Slots \ {w.idx} : slots'[j].count = slots[j].count
  BY <1>1, <1>2, PromotedType DEF RemLead
<1>4. \A i \in Slots : slots'[i].count <= slots[i].count \/ slots'[i].count < ops
  BY <1>1, <1>2, <1>3, CountType
<1>5. QED BY <1>1, <1>3, <1>4, RemoveGoesOn DEF RemLead, still, Written

\* The removal returns, or a put begins again after it.
LEMMA RemDoneInv == ASSUME WInv, RemDone PROVE WInv'
BY RemovedInv DEF RemDone, table, still, Errors

\* qhasharr_clear: the counters first, ...
LEMMA ClrCountersInv == ASSUME WInv, ClrCounters PROVE WInv'
<1>1. /\ wpc = "clear" /\ Written /\ slots' = slots /\ ops' = ops
      /\ usedslots' \in Int /\ num' \in Int
  BY DEF ClrCounters, still, WInv, Written
<1>2. CASE Return("ok")
  BY <1>1, <1>2, Returning, CountedOps, ReturnInv DEF Errors, Written
<1>3. CASE Goto("clrSlots") /\ UNCHANGED <<w, reply>>
  <2>1. Locals'
    BY <1>1, <1>3 DEF WInv, Locals, PutLabels, RemLabels, Goto
  <2>2. \A i \in Slots : slots'[i].count <= slots[i].count
    BY <1>1, CountType
  <2>3. QED BY <1>1, <1>3, <2>1, <2>2, InCall DEF WriterLabels, Goto, Written
<1>4. QED BY <1>2, <1>3 DEF ClrCounters

\* ... then the slots.
LEMMA ClrSlotsInv == ASSUME WInv, ClrSlots PROVE WInv'
<1>1. /\ wpc = "clrSlots" /\ Written /\ w.cur \in Slots /\ UNCHANGED <<usedslots, num, ops>>
      /\ slots' = [slots EXCEPT ![w.cur] = EmptySlot]
  BY DEF ClrSlots, still, WInv, Written, Call
<1>2. /\ slots' \in [Slots -> Slot]
      /\ \A j \in Slots : slots'[j].count = 0 \/ slots'[j] = slots[j]
      /\ \A j \in Slots :
           (\E x \in Slots : slots'[j].count <= slots[x].count) \/ slots'[j].count <= 0
  BY <1>1, ZeroSlot
<1>3. CASE Return("ok")
  <2>1. \A i \in Slots : slots'[i].count <= ops
    BY <1>1, <1>2, CountedOps, CountType
  <2>2. QED BY <1>1, <1>2, <1>3, <2>1, Returning, ReturnInv DEF Errors, Written
<1>4. CASE w.cur # maxslots - 1 /\ w' = [w EXCEPT !.cur = @ + 1] /\ UNCHANGED <<wpc, reply>>
  <2>1. w.cur + 1 \in Slots
    BY <1>1, <1>4, TableAssumption DEF Slots
  <2>2. /\ w' \in Call /\ w'.op = w.op /\ w'.key = w.key /\ w'.val = w.val
        /\ w'.done = w.done /\ w'.again = w.again /\ w'.cnt = w.cnt /\ w'.then = w.then
    BY <1>1, <1>4, <2>1 DEF Written, Call
  <2>3. Locals'
    BY <1>1, <1>4, <2>2 DEF WInv, Locals, PutLabels, RemLabels
  <2>4. QED BY <1>1, <1>2, <1>4, <2>2, <2>3, InCall DEF WriterLabels, Written
<1>5. QED BY <1>3, <1>4 DEF ClrSlots

\* The writer dies: its locals are gone, and Locals holds of the next one's.
LEMMA CrashInv == ASSUME WInv, Crash PROVE WInv'
BY CountedOps, ReturnInv DEF Crash, Goto, table, WInv, Written

\* Every step of the writer's call keeps the invariant, and leaves the readers alone.
LEMMA WStepInv ==
  ASSUME WInv, WStep
  PROVE  WInv' /\ UNCHANGED readers
<1>1. CASE ChoosePlace \/ Move \/ MoveFree \/ MoveLinks
  BY <1>1, ChoosePlaceInv, MoveInv, MoveFreeInv, MoveLinksInv
  DEF ChoosePlace, Move, MoveFree, MoveLinks, still
<1>2. CASE PutCount \/ PutHash \/ PutKey \/ PutEnd \/ PutValue \/ PutSize
  BY <1>2, PutCountInv, PutHashInv, PutKeyInv, PutEndInv, PutValueInv, PutSizeInv
  DEF PutCount, PutHash, PutKey, PutEnd, PutValue, PutSize, still
<1>3. CASE PutExt \/ PutExtHead \/ PutLink \/ PutLead \/ Undone
  BY <1>3, PutExtInv, PutExtHeadInv, PutLinkInv, PutLeadInv, UndoneInv
  DEF PutExt, PutExtHead, PutLink, PutLead, Undone, still
<1>4. CASE ChooseRemoval \/ RemCount \/ RemData \/ RemCopy
  BY <1>4, ChooseRemovalInv, RemCountInv, RemDataInv, RemCopyInv
  DEF ChooseRemoval, RemCount, RemData, RemCopy, still
<1>5. CASE RemFree \/ RemLead \/ RemDone \/ ClrCounters \/ ClrSlots
  BY <1>5, RemFreeInv, RemLeadInv, RemDoneInv, ClrCountersInv, ClrSlotsInv
  DEF RemFree, RemLead, RemDone, ClrCounters, ClrSlots, still
<1>6. QED BY <1>1, <1>2, <1>3, <1>4, <1>5 DEF WStep

\* A new call of the writer keeps its invariant.
LEMMA CallInv ==
  ASSUME WInv, Clear \/ \E k \in Keys : Remove(k) \/ \E v \in Values : Put(k, v)
  PROVE  WInv'
<1>1. ASSUME NEW k \in Keys, NEW v \in Values, Put(k, v) PROVE WInv'
  BY <1>1, BeginInv DEF Put, WriterLabels
<1>2. ASSUME NEW k \in Keys, Remove(k) PROVE WInv'
  BY <1>2, BeginInv DEF Remove, WriterLabels
<1>3. CASE Clear
  BY <1>3, BeginInv DEF Clear, WriterLabels
<1>4. QED BY <1>1, <1>2, <1>3

-------------------------------------------------------------------------------
(* The readers' steps.                                                     *)

\* What verifyShmValue returns is a reader's error, and what pieces hold.
LEMMA VerifyType ==
  ASSUME NEW got \in Seq([data : Bytes, n : Nat])
  PROVE  /\ verifyShmValue(got) \in
              [err : ReaderErrors, key : Keys \cup {None}, val : Values \cup {None}]
<1>1. got # << >> => got[1] \in [data : Bytes, n : Nat]
  <2>1. got # << >> => Len(got) \in Nat \ {0}
    BY EmptySeq, LenProperties
  <2>2. got # << >> => 1 \in 1..Len(got)
    BY <2>1
  <2>3. QED BY <2>2, ElementOfSeq
<1>2. got # << >> => got[1].data.key \in Keys \cup {None} /\ got[1].data.val \in Values \cup {None}
  BY <1>1 DEF Bytes
<1>3. QED BY <1>2 DEF verifyShmValue, Result, ReaderErrors

\* The locals of a reader between its calls.
LEMMA NoReadType == NoRead \in Reading
<1>1. 0 \in Slots /\ 0 \in 0..maxslots
  BY TableAssumption DEF Slots
<1>2. Result("none", None, None) \in
        [err : ReaderErrors, key : Keys \cup {None}, val : Values \cup {None}]
  BY DEF Result, ReaderErrors
<1>3. QED BY <1>1, <1>2 DEF NoRead, Reading

\* A reader's locals are replaced by others of its type.
LEMMA Reads ==
  ASSUME RInv, NEW r \in Readers, NEW l \in ReaderLabels, NEW x \in Reading,
         rpc' = [rpc EXCEPT ![r] = l], rd' = [rd EXCEPT ![r] = x], during' = during,
         l \in {"lead", "scan"} =>
           x.call \in {"get", "exist"} /\ x.key \in Keys /\ x.loops = 0,
         l = "slot" => x.call = "traverse" /\ x.loops = 0,
         l \in {"sum", "size", "copy"} => x.call \in {"get", "traverse"}
  PROVE  RInv'
BY DEF RInv, Read, Asked

\* The other readers stay where they are.
Only(r) == \A q \in Readers \ {r} : rpc'[q] = rpc[q] /\ rd'[q] = rd[q]

\* What a call may return, and what a traversal lists.
Results == [err : ReaderErrors, key : Keys \cup {None}, val : Values \cup {None}]
\* What a traversal has listed so far.
Listing == Seq([key : Keys \cup {None}, val : Values \cup {None}])

\* A call returns.
LEMMA RReturnStep ==
  ASSUME RInv, NEW r \in Readers, NEW res \in Results, RReturn(r, res), during' = during
  PROVE  RInv' /\ Only(r) /\ rpc'[r] = "idle"
<1>1. PICK x : x = [NoRead EXCEPT !.call = rd[r].call, !.key = rd[r].key,
                                  !.seen = rd[r].seen, !.res = res]
  OBVIOUS
<1>2. rd[r] \in Reading
  BY DEF RInv, Read
<1>3. x \in Reading
  BY <1>1, <1>2, NoReadType DEF Reading, Results
<1>4. rpc' = [rpc EXCEPT ![r] = "idle"] /\ rd' = [rd EXCEPT ![r] = x]
  BY <1>1 DEF RReturn, RGoto
<1>5. RInv'
  BY <1>3, <1>4, Reads DEF ReaderLabels
<1>6. QED BY <1>4, <1>5 DEF RInv, Read, Only

\* A traversal goes on to the next slot, or ends.
Goes(r) ==
  /\ rpc'[r] = "slot" /\ rd[r].call = "traverse"
  /\ rd'[r].idx = rd[r].idx + 1 /\ rd[r].idx + 1 < maxslots

\* A traversal goes on to the next slot or ends.
LEMMA OnwardStep ==
  ASSUME RInv, NEW r \in Readers, NEW seen \in Listing, Onward(r, seen),
         rd[r].call = "traverse", during' = during
  PROVE  RInv' /\ Only(r) /\ (rpc'[r] = "idle" \/ Goes(r))
<1>1. rd[r] \in Reading /\ rd[r].idx \in Slots /\ "traverse" \in ReaderCalls \cup {"none"}
  BY DEF RInv, Read, Reading
<1>2. Traversed \in Results
  BY DEF Traversed, Result, Results, ReaderErrors
<1>3. CASE rd[r].idx = maxslots - 1
  <2>1. PICK x : x = [NoRead EXCEPT !.call = "traverse", !.seen = seen, !.res = Traversed]
    OBVIOUS
  <2>2. x \in Reading
    BY <1>1, <1>2, <2>1, NoReadType DEF Reading, Results, Listing
  <2>3. rpc' = [rpc EXCEPT ![r] = "idle"] /\ rd' = [rd EXCEPT ![r] = x]
    BY <1>3, <2>1 DEF Onward, RGoto
  <2>4. RInv'
    BY <2>2, <2>3, Reads DEF ReaderLabels
  <2>5. QED BY <2>3, <2>4 DEF RInv, Read, Only
<1>4. CASE rd[r].idx # maxslots - 1
  <2>1. PICK n : n = rd[r].idx + 1
    OBVIOUS
  <2>2. n \in Slots /\ n < maxslots
    BY <1>1, <1>4, <2>1, TableAssumption DEF Slots
  <2>3. PICK x : x = [NoRead EXCEPT !.call = "traverse", !.seen = seen, !.idx = n]
    OBVIOUS
  <2>4. x \in Reading /\ x.call = "traverse" /\ x.loops = NoRead.loops /\ x.idx = n
    BY <1>1, <2>2, <2>3, NoReadType DEF Reading, Listing
  <2>5. rpc' = [rpc EXCEPT ![r] = "slot"] /\ rd' = [rd EXCEPT ![r] = x]
    BY <1>4, <2>1, <2>3 DEF Onward, RGoto
  <2>6. x.loops = 0
    BY <2>4 DEF NoRead
  <2>7. RInv'
    BY <2>4, <2>5, <2>6, Reads DEF ReaderLabels
  <2>8. QED BY <2>1, <2>2, <2>4, <2>5, <2>7 DEF RInv, Read, Only, Goes
<1>5. QED BY <1>3, <1>4

\* _get_data is through: get returns, a traversal goes on or ends.
LEMMA GotDataStep ==
  ASSUME RInv, NEW r \in Readers, rpc[r] \in {"sum", "size", "copy"},
         NEW res \in Results, GotData(r, res), during' = during
  PROVE  RInv' /\ Only(r) /\ (rpc'[r] = "idle" \/ Goes(r))
<1>1. rd[r].call \in {"get", "traverse"} /\ rd[r] \in Reading
  BY DEF RInv, Read, Asked
<1>2. CASE RReturn(r, res)
  BY <1>2, RReturnStep
<1>3. CASE RReturn(r, TraversalFailed)
  <2>1. TraversalFailed \in Results
    BY DEF TraversalFailed, Result, Results, ReaderErrors
  <2>2. QED BY <1>3, <2>1, RReturnStep
<1>4. CASE rd[r].call # "get" /\ Onward(r, Append(rd[r].seen, [key |-> rd[r].key, val |-> res.val]))
  <2>1. PICK e : e = [key |-> rd[r].key, val |-> res.val]
    OBVIOUS
  <2>2. e \in [key : Keys \cup {None}, val : Values \cup {None}] /\ rd[r].seen \in Listing
    BY <1>1, <2>1 DEF Reading, Results, Listing
  <2>3. Append(rd[r].seen, e) \in Listing
    BY <2>2, AppendProperties DEF Listing
  <2>4. QED BY <1>1, <1>4, <2>1, <2>3, OnwardStep
<1>5. QED BY <1>2, <1>3, <1>4 DEF GotData

-------------------------------------------------------------------------------
(* The rank.                                                               *)

\* More than the steps a traversal takes for one slot.
PerSlot == 3 * maxslots + 5

\* The slots that a traversal has still to look at.
LEMMA PerSlotTimes ==
  ASSUME NEW n \in Nat
  PROVE  /\ n * PerSlot \in Nat
         /\ (n + 1) * PerSlot = n * PerSlot + PerSlot
<1>1. PICK p \in Nat : p = PerSlot
  BY TableAssumption DEF PerSlot
<1>2. n * p \in Nat /\ (n + 1) * p = n * p + p
  BY SMT
<1>3. QED BY <1>1, <1>2

\* The steps a traversal has before it after this slot.
Beyond(x) == IF x.call = "get" THEN 0 ELSE (maxslots - x.idx - 1) * PerSlot

\* The bound on the steps left, by label and locals.
RankOf(l, x) ==
  CASE l = "idle" -> 0
    [] l = "lead" -> 4 * maxslots + 4
    [] l = "scan" -> (maxslots - Dist(Hash[x.key], x.at)) + 3 * maxslots + 3
    [] l = "slot" -> (maxslots - x.idx) * PerSlot
    [] l = "sum"  -> ((maxslots - x.loops) + 2 * maxslots + 3) + Beyond(x)
    [] l = "size" -> (2 * (maxslots - x.loops) + 2) + Beyond(x)
    [] l = "copy" -> (2 * (maxslots - x.loops) + 1) + Beyond(x)

\* Rank is RankOf of the reader's label and locals, ...
LEMMA RankIs ==
  ASSUME NEW r, rpc[r] \in ReaderLabels
  PROVE  Rank(r) = RankOf(rpc[r], rd[r])
<1>1. CASE rpc[r] \in {"idle", "lead", "scan", "slot"}
  BY <1>1 DEF Rank, RankOf, PerSlot
<1>2. CASE rpc[r] \in {"sum", "size", "copy"}
  BY <1>2 DEF Rank, RankOf, DataRank, Beyond, PerSlot
<1>3. QED BY <1>1, <1>2 DEF ReaderLabels

\* ... before and after a step.
LEMMA RankIsNext ==
  ASSUME NEW r, rpc'[r] \in ReaderLabels
  PROVE  Rank(r)' = RankOf(rpc'[r], rd'[r])
<1>1. CASE rpc'[r] \in {"idle", "lead", "scan", "slot"}
  BY <1>1 DEF Rank, RankOf, PerSlot
<1>2. CASE rpc'[r] \in {"sum", "size", "copy"}
  BY <1>2 DEF Rank, RankOf, DataRank, Beyond, PerSlot
<1>3. QED BY <1>1, <1>2 DEF ReaderLabels

\* What the rank is worth at each point of a call.
LEMMA RankFacts ==
  ASSUME NEW x \in Reading
  PROVE  /\ maxslots \in Nat \ {0} /\ Beyond(x) \in Nat
         /\ x.loops \in 0..maxslots /\ x.idx \in 0..(maxslots - 1)
         /\ RankOf("idle", x) = 0
         /\ RankOf("lead", x) = 4 * maxslots + 4
         /\ RankOf("scan", x) = (maxslots - Dist(Hash[x.key], x.at)) + 3 * maxslots + 3
         /\ RankOf("slot", x) = (maxslots - x.idx - 1) * PerSlot + PerSlot
         /\ (maxslots - x.idx - 1) * PerSlot \in Nat
         /\ RankOf("sum", x) = (maxslots - x.loops) + 2 * maxslots + 3 + Beyond(x)
         /\ RankOf("size", x) = 2 * (maxslots - x.loops) + 2 + Beyond(x)
         /\ RankOf("copy", x) = 2 * (maxslots - x.loops) + 1 + Beyond(x)
<1>2. maxslots \in Nat \ {0} /\ x.loops \in 0..maxslots /\ x.idx \in 0..(maxslots - 1)
  BY TableAssumption DEF Reading, Slots
<1>3. PICK n \in Nat : n = maxslots - x.idx - 1
  BY <1>2
<1>4. n * PerSlot \in Nat /\ (n + 1) * PerSlot = n * PerSlot + PerSlot
  BY PerSlotTimes
<1>5. Beyond(x) \in Nat
  BY <1>3, <1>4 DEF Beyond
<1>6. maxslots - x.idx = n + 1
  BY <1>2, <1>3
<1>7. RankOf("slot", x) = (n + 1) * PerSlot
  BY <1>6 DEF RankOf
<1>8. /\ RankOf("idle", x) = 0
      /\ RankOf("lead", x) = 4 * maxslots + 4
      /\ RankOf("scan", x) = (maxslots - Dist(Hash[x.key], x.at)) + 3 * maxslots + 3
      /\ RankOf("sum", x) = (maxslots - x.loops) + 2 * maxslots + 3 + Beyond(x)
      /\ RankOf("size", x) = 2 * (maxslots - x.loops) + 2 + Beyond(x)
      /\ RankOf("copy", x) = 2 * (maxslots - x.loops) + 1 + Beyond(x)
  BY DEF RankOf
<1>9. QED BY <1>2, <1>3, <1>4, <1>5, <1>7, <1>8

\* Nearer(r): r's call is nearer to its end.
Nearer(r) ==
  /\ RankOf(rpc'[r], rd'[r]) \in Nat
  /\ RankOf(rpc'[r], rd'[r]) < RankOf(rpc[r], rd[r])

\* The end of a slot's data brings the end of the call nearer.
LEMMA GotDataNearer ==
  ASSUME RInv, RInv', NEW r \in Readers, rpc[r] \in {"sum", "size", "copy"},
         rpc'[r] = "idle" \/ Goes(r)
  PROVE  Nearer(r)
<1>1. rd[r] \in Reading /\ rd'[r] \in Reading
  BY DEF RInv, Read
<1>2. RankOf(rpc[r], rd[r]) \in Nat /\ RankOf(rpc[r], rd[r]) > Beyond(rd[r])
      /\ Beyond(rd[r]) \in Nat
  BY <1>1, RankFacts
<1>3. CASE rpc'[r] = "idle"
  <2>1. RankOf(rpc'[r], rd'[r]) = 0
    BY <1>1, <1>3, RankFacts
  <2>2. QED BY <1>2, <2>1 DEF Nearer
<1>4. CASE Goes(r)
  <2>1. RankOf(rpc'[r], rd'[r]) = (maxslots - rd'[r].idx - 1) * PerSlot + PerSlot
        /\ (maxslots - rd'[r].idx - 1) * PerSlot \in Nat
    BY <1>1, <1>4, RankFacts DEF Goes
  <2>2. PICK n \in Nat : n = maxslots - rd'[r].idx - 1 /\ maxslots - rd[r].idx - 1 = n + 1
    BY <1>1, <1>4, RankFacts DEF Goes
  <2>3. (n + 1) * PerSlot = n * PerSlot + PerSlot /\ n * PerSlot \in Nat
    BY PerSlotTimes
  <2>4. Beyond(rd[r]) = (n + 1) * PerSlot
    BY <1>4, <2>2 DEF Beyond, Goes
  <2>5. RankOf(rpc'[r], rd'[r]) = Beyond(rd[r])
    BY <2>1, <2>2, <2>3, <2>4
  <2>6. QED BY <1>2, <2>5 DEF Nearer
<1>5. QED BY <1>3, <1>4

\* Each step of r's call keeps RInv and brings the call's end nearer.
Stepped(r) == RInv' /\ Only(r) /\ Nearer(r)

\* A call that returns before it reads data has come nearer to its end.
LEMMA ReturnNearer ==
  ASSUME RInv, RInv', NEW r \in Readers, rpc[r] # "idle", rpc'[r] = "idle",
         rpc[r] \in {"lead", "scan"}
  PROVE  Nearer(r)
<1>1. rd[r] \in Reading /\ rd'[r] \in Reading /\ rpc[r] \in ReaderLabels
  BY DEF RInv, Read
<1>2. RankOf(rpc'[r], rd'[r]) = 0
  BY <1>1, RankFacts
<1>3. rpc[r] = "scan" => Dist(Hash[rd[r].key], rd[r].at) \in 0..(maxslots - 1)
  <2>1. rpc[r] = "scan" => Hash[rd[r].key] \in Slots /\ rd[r].at \in Slots
    BY <1>1, TableAssumption DEF RInv, Asked, Reading
  <2>2. QED BY <2>1, DistType
<1>4. RankOf(rpc[r], rd[r]) > 0
  <2>1. CASE rpc[r] = "lead"
    BY <1>1, <2>1, RankFacts
  <2>2. CASE rpc[r] = "scan"
    BY <1>1, <1>3, <2>2, RankFacts
  <2>3. QED BY <2>1, <2>2
<1>5. QED BY <1>2, <1>4 DEF Nearer

\* _get_idx: the count of the hash slot is read, ...
LEMMA GetLeadStep ==
  ASSUME RInv, NEW r \in Readers, GetLead(r)
  PROVE  Stepped(r)
<1>1. /\ rpc[r] = "lead" /\ during' = during /\ rd[r] \in Reading
      /\ rd[r].call \in {"get", "exist"} /\ rd[r].key \in Keys /\ rd[r].loops = 0
  BY DEF GetLead, rest, RInv, Read, Asked
<1>2. CASE RGoto(r, "scan") /\ UNCHANGED rd
  <2>1. rpc' = [rpc EXCEPT ![r] = "scan"] /\ rd' = [rd EXCEPT ![r] = rd[r]]
    BY <1>2 DEF RGoto, RInv, Read
  <2>2. RInv'
    BY <1>1, <2>1, Reads DEF ReaderLabels
  <2>3. rpc'[r] = "scan" /\ rd'[r] = rd[r] /\ Only(r)
    BY <1>2, <2>1 DEF RInv, Read, Only
  <2>4. Dist(Hash[rd[r].key], rd[r].at) \in 0..(maxslots - 1)
    BY <1>1, DistType, TableAssumption DEF Reading
  <2>5. /\ RankOf("lead", rd[r]) = 4 * maxslots + 4 /\ maxslots \in Nat \ {0}
        /\ RankOf("scan", rd[r]) = (maxslots - Dist(Hash[rd[r].key], rd[r].at)) + 3 * maxslots + 3
    BY <1>1, RankFacts
  <2>6. Nearer(r)
    BY <1>1, <2>3, <2>4, <2>5 DEF Nearer
  <2>7. QED BY <2>2, <2>3, <2>6 DEF Stepped
<1>3. CASE RReturn(r, NotFound)
  <2>1. NotFound \in Results
    BY DEF NotFound, Result, Results, ReaderErrors
  <2>2. RInv' /\ Only(r) /\ rpc'[r] = "idle"
    BY <1>1, <1>3, <2>1, RReturnStep
  <2>3. QED BY <1>1, <2>2, ReturnNearer DEF Stepped
<1>4. QED BY <1>2, <1>3 DEF GetLead

\* The next slot of a scan is one further from its start.
LEMMA DistNext ==
  ASSUME NEW a \in Slots, NEW b \in Slots, After(b) # a
  PROVE  Dist(a, After(b)) = Dist(a, b) + 1
BY TableAssumption DEF Slots, Dist, After

\* ... and the scan goes on by one slot, up to the hash slot again.
LEMMA GetScanStep ==
  ASSUME RInv, NEW r \in Readers, GetScan(r)
  PROVE  Stepped(r)
<1> DEFINE h == Hash[rd[r].key]
           i == rd[r].at
<1>1. /\ rpc[r] = "scan" /\ during' = during /\ rd[r] \in Reading
      /\ rd[r].call \in {"get", "exist"} /\ rd[r].key \in Keys /\ rd[r].loops = 0
      /\ h \in Slots /\ i \in Slots /\ rd[r].n \in Nat
  BY TableAssumption DEF GetScan, rest, RInv, Read, Asked, Reading
<1>2. /\ RankOf("scan", rd[r]) = (maxslots - Dist(h, i)) + 3 * maxslots + 3
      /\ Dist(h, i) \in 0..(maxslots - 1) /\ maxslots \in Nat \ {0}
      /\ After(i) \in Slots
  BY <1>1, RankFacts, DistType
<1>3. \/ RReturn(r, Exists)
      \/ /\ rd[r].call = "get" /\ RGoto(r, "sum")
         /\ rd' = [rd EXCEPT ![r] = [rd[r] EXCEPT !.start = i, !.n = 0]]
      \/ /\ After(i) # h /\ UNCHANGED rpc
         /\ \E n \in {rd[r].n, rd[r].n + 1} :
              rd' = [rd EXCEPT ![r] = [rd[r] EXCEPT !.at = After(i), !.n = n]]
      \/ RReturn(r, NotFound)
  <2>1. rd \in [Readers -> Reading]
    BY DEF RInv, Read
  <2>2. [rd EXCEPT ![r].start = i, ![r].n = 0]
          = [rd EXCEPT ![r] = [rd[r] EXCEPT !.start = i, !.n = 0]]
    BY <2>1 DEF Reading
  <2>3. ASSUME NEW n
        PROVE  [rd EXCEPT ![r].at = After(i), ![r].n = n]
                 = [rd EXCEPT ![r] = [rd[r] EXCEPT !.at = After(i), !.n = n]]
    BY <2>1 DEF Reading
  <2>4. \/ RReturn(r, Exists)
        \/ /\ rd[r].call = "get" /\ RGoto(r, "sum")
           /\ rd' = [rd EXCEPT ![r].start = i, ![r].n = 0]
        \/ /\ After(i) # h /\ UNCHANGED rpc
           /\ \E n \in {rd[r].n, rd[r].n + 1} :
                rd' = [rd EXCEPT ![r].at = After(i), ![r].n = n]
        \/ RReturn(r, NotFound)
    BY DEF GetScan, ScanEnds
  <2>5. CASE /\ After(i) # h /\ UNCHANGED rpc
             /\ \E n \in {rd[r].n, rd[r].n + 1} :
                  rd' = [rd EXCEPT ![r].at = After(i), ![r].n = n]
    <3>1. PICK n \in {rd[r].n, rd[r].n + 1} : rd' = [rd EXCEPT ![r].at = After(i), ![r].n = n]
      BY <2>5
    <3>2. rd' = [rd EXCEPT ![r] = [rd[r] EXCEPT !.at = After(i), !.n = n]]
      BY <2>3, <3>1
    <3>3. QED BY <2>5, <3>2
  <2>6. QED BY <2>2, <2>4, <2>5
<1> HIDE DEF h, i
<1>4. ASSUME NEW res \in {Exists, NotFound}, RReturn(r, res) PROVE Stepped(r)
  <2>1. res \in Results
    BY DEF NotFound, Exists, Result, Results, ReaderErrors
  <2>2. RInv' /\ Only(r) /\ rpc'[r] = "idle"
    BY <1>1, <1>4, <2>1, RReturnStep
  <2>3. QED BY <1>1, <2>2, ReturnNearer DEF Stepped
<1>5. CASE /\ rd[r].call = "get" /\ RGoto(r, "sum")
           /\ rd' = [rd EXCEPT ![r] = [rd[r] EXCEPT !.start = i, !.n = 0]]
  <2>1. PICK x : x = [rd[r] EXCEPT !.start = i, !.n = 0]
    OBVIOUS
  <2>2. x \in Reading /\ x.call = "get" /\ x.loops = 0
    BY <1>1, <1>5, <2>1 DEF Reading
  <2>3. rpc' = [rpc EXCEPT ![r] = "sum"] /\ rd' = [rd EXCEPT ![r] = x]
    BY <1>5, <2>1 DEF RGoto
  <2>4. RInv'
    BY <1>1, <2>2, <2>3, Reads DEF ReaderLabels
  <2>5. rpc'[r] = "sum" /\ rd'[r] = x /\ Only(r)
    BY <2>3 DEF RInv, Read, Only
  <2>6. RankOf("sum", x) = 3 * maxslots + 3
    BY <1>2, <2>2, RankFacts DEF Beyond
  <2>7. Nearer(r)
    BY <1>1, <1>2, <2>5, <2>6 DEF Nearer
  <2>8. QED BY <2>4, <2>5, <2>7 DEF Stepped
<1>6. ASSUME After(i) # h, UNCHANGED rpc, NEW n \in {rd[r].n, rd[r].n + 1},
             rd' = [rd EXCEPT ![r] = [rd[r] EXCEPT !.at = After(i), !.n = n]]
      PROVE  Stepped(r)
  <2>1. PICK x : x = [rd[r] EXCEPT !.at = After(i), !.n = n]
    OBVIOUS
  <2>0. n \in Nat
    BY <1>1
  <2>2. x \in Reading /\ x.call = rd[r].call /\ x.loops = 0 /\ x.key = rd[r].key
        /\ x.at = After(i)
    BY <1>1, <1>2, <2>0, <2>1 DEF Reading
  <2>3. rpc' = [rpc EXCEPT ![r] = "scan"] /\ rd' = [rd EXCEPT ![r] = x]
    BY <1>1, <1>6, <2>1 DEF RInv, Read
  <2>4. RInv'
    BY <1>1, <2>2, <2>3, Reads DEF ReaderLabels
  <2>5. rpc'[r] = "scan" /\ rd'[r] = x /\ Only(r)
    BY <2>3 DEF RInv, Read, Only
  <2>6. Dist(h, After(i)) = Dist(h, i) + 1 /\ Dist(h, After(i)) \in 0..(maxslots - 1)
    BY <1>1, <1>2, <1>6, DistNext, DistType
  <2>7. RankOf("scan", x) = (maxslots - Dist(h, After(i))) + 3 * maxslots + 3
    BY <2>2, RankFacts DEF h
  <2>8. Nearer(r)
    BY <1>1, <1>2, <2>5, <2>6, <2>7 DEF Nearer
  <2>9. QED BY <2>4, <2>5, <2>8 DEF Stepped
<1>7. QED BY <1>3, <1>4, <1>5, <1>6

\* getnext looks at one slot.
LEMMA TravSlotStep ==
  ASSUME RInv, WInv, NEW r \in Readers, TravSlot(r)
  PROVE  Stepped(r)
<1> DEFINE i == rd[r].idx
<1>1. /\ rpc[r] = "slot" /\ during' = during /\ rd[r] \in Reading
      /\ rd[r].call = "traverse" /\ rd[r].loops = 0 /\ i \in Slots
      /\ rd[r].seen \in Listing /\ slots[i].key \in Keys \cup {None}
  BY DEF TravSlot, rest, RInv, Read, Asked, Reading, Listing, WInv, Written, Slot
<1>2. /\ RankOf("slot", rd[r]) = (maxslots - i - 1) * PerSlot + PerSlot
      /\ (maxslots - i - 1) * PerSlot \in Nat /\ maxslots \in Nat \ {0}
      /\ PerSlot = 3 * maxslots + 5
  BY <1>1, RankFacts DEF PerSlot
<1>3. CASE Onward(r, rd[r].seen)
  <2>1. RInv' /\ Only(r) /\ (rpc'[r] = "idle" \/ Goes(r))
    BY <1>1, <1>3, OnwardStep
  <2>2. rd'[r] \in Reading
    BY <2>1 DEF RInv, Read
  <2>3. CASE rpc'[r] = "idle"
    <3>1. RankOf("idle", rd'[r]) = 0
      BY <2>2, RankFacts
    <3>2. Nearer(r)
      BY <1>1, <1>2, <2>3, <3>1 DEF Nearer
    <3>3. QED BY <2>1, <3>2 DEF Stepped
  <2>4. CASE Goes(r)
    <3>1. /\ RankOf("slot", rd'[r]) = (maxslots - rd'[r].idx - 1) * PerSlot + PerSlot
          /\ (maxslots - rd'[r].idx - 1) * PerSlot \in Nat
      BY <2>2, RankFacts
    <3>2. PICK n \in Nat : n = maxslots - rd'[r].idx - 1 /\ maxslots - i - 1 = n + 1
      BY <1>1, <1>2, <2>2, <2>4, RankFacts DEF Goes
    <3>3. (n + 1) * PerSlot = n * PerSlot + PerSlot
      BY PerSlotTimes
    <3>4. /\ RankOf("slot", rd'[r]) = n * PerSlot + PerSlot /\ n * PerSlot \in Nat
          /\ RankOf("slot", rd[r]) = n * PerSlot + PerSlot + PerSlot
      BY <1>2, <3>1, <3>2, <3>3
    <3>5. PerSlot \in Nat \ {0}
      BY <1>2
    <3>6. Nearer(r)
      BY <1>1, <2>4, <3>4, <3>5 DEF Nearer, Goes
    <3>7. QED BY <2>1, <3>6 DEF Stepped
  <2>5. QED BY <2>1, <2>3, <2>4
<1>4. CASE RGoto(r, "sum")
           /\ rd' = [rd EXCEPT ![r].key = slots[i].key, ![r].at = i, ![r].start = i]
  <2>1. PICK x : x = [rd[r] EXCEPT !.key = slots[i].key, !.at = i, !.start = i]
    OBVIOUS
  <2>2. x \in Reading /\ x.call = "traverse" /\ x.loops = 0 /\ x.idx = i
    BY <1>1, <2>1 DEF Reading
  <2>3. rpc' = [rpc EXCEPT ![r] = "sum"] /\ rd' = [rd EXCEPT ![r] = x]
    BY <1>4, <2>1 DEF RGoto, RInv, Read, Reading
  <2>4. RInv'
    BY <1>1, <2>2, <2>3, Reads DEF ReaderLabels
  <2>5. rpc'[r] = "sum" /\ rd'[r] = x /\ Only(r)
    BY <2>3 DEF RInv, Read, Only
  <2>6. RankOf("sum", x) = 3 * maxslots + 3 + (maxslots - i - 1) * PerSlot
    <3>1. Beyond(x) = (maxslots - i - 1) * PerSlot
      BY <2>2 DEF Beyond
    <3>2. RankOf("sum", x) = (maxslots - x.loops) + 2 * maxslots + 3 + Beyond(x)
      BY <2>2, RankFacts
    <3>3. PICK t \in Nat : t = (maxslots - i - 1) * PerSlot
      BY <1>2
    <3>4. QED BY <1>2, <2>2, <3>1, <3>2, <3>3
  <2>7. Nearer(r)
    <3>1. PICK t \in Nat : t = (maxslots - i - 1) * PerSlot
      BY <1>2
    <3>2. QED BY <1>1, <1>2, <2>5, <2>6, <3>1 DEF Nearer
  <2>8. QED BY <2>4, <2>5, <2>7 DEF Stepped
<1>5. QED BY <1>3, <1>4 DEF TravSlot

\* r's call goes on with locals x at l.
LEMMA DataStep ==
  ASSUME RInv, NEW r \in Readers, rpc[r] \in {"sum", "size", "copy"}, during' = during,
         NEW l \in {"sum", "size", "copy"}, NEW x \in Reading,
         x.call = rd[r].call, x.idx = rd[r].idx,
         rpc' = [rpc EXCEPT ![r] = l], rd' = [rd EXCEPT ![r] = x],
         \/ /\ l = rpc[r] /\ x.loops = rd[r].loops + 1
         \/ rpc[r] = "sum" /\ l = "size" /\ x.loops = 0
         \/ rpc[r] = "size" /\ l = "copy" /\ x.loops = rd[r].loops
         \/ rpc[r] = "copy" /\ l = "size" /\ x.loops = rd[r].loops + 1
  PROVE  Stepped(r)
<1>1. rd[r] \in Reading /\ rd[r].call \in {"get", "traverse"}
  BY DEF RInv, Read, Asked
<1>2. RInv'
  BY <1>1, Reads DEF ReaderLabels
<1>3. rpc'[r] = l /\ rd'[r] = x /\ Only(r)
  BY DEF RInv, Read, Only
<1>4. Beyond(x) = Beyond(rd[r])
  BY DEF Beyond
<1>5. PICK t \in Nat : t = Beyond(rd[r]) /\ t = Beyond(x)
  BY <1>1, <1>4, RankFacts
<1>6. /\ maxslots \in Nat /\ rd[r].loops \in 0..maxslots /\ x.loops \in 0..maxslots
      /\ RankOf("sum", x) = (maxslots - x.loops) + 2 * maxslots + 3 + t
      /\ RankOf("size", x) = 2 * (maxslots - x.loops) + 2 + t
      /\ RankOf("copy", x) = 2 * (maxslots - x.loops) + 1 + t
      /\ RankOf("sum", rd[r]) = (maxslots - rd[r].loops) + 2 * maxslots + 3 + t
      /\ RankOf("size", rd[r]) = 2 * (maxslots - rd[r].loops) + 2 + t
      /\ RankOf("copy", rd[r]) = 2 * (maxslots - rd[r].loops) + 1 + t
  BY <1>1, <1>5, RankFacts
<1>7. Nearer(r)
  BY <1>3, <1>6 DEF Nearer
<1>8. QED BY <1>2, <1>3, <1>7 DEF Stepped

\* _get_data ends in any of its ways.
LEMMA DataEnds ==
  ASSUME RInv, NEW r \in Readers, rpc[r] \in {"sum", "size", "copy"}, during' = during,
         NEW res \in Results, GotData(r, res)
  PROVE  Stepped(r)
BY GotDataStep, GotDataNearer DEF Stepped

\* A missing key is one of the results.
LEMMA NotFoundType == NotFound \in Results
BY DEF NotFound, Result, Results, ReaderErrors

\* _get_data, first pass: its loop counter bounds the links it follows, ...
LEMMA GetSumStep ==
  ASSUME RInv, WInv, NEW r \in Readers, GetSum(r)
  PROVE  Stepped(r)
<1> DEFINE s == slots[rd[r].at]
<1>1. /\ rpc[r] = "sum" /\ during' = during /\ rd[r] \in Reading /\ rd \in [Readers -> Reading]
      /\ s.link \in Index /\ s.size \in Nat /\ rd[r].sum \in Nat
      /\ rd[r].loops \in 0..maxslots /\ rd[r].start \in Slots
      /\ maxslots \in Nat
  <2>1. s \in Slot /\ rd[r] \in Reading
    BY DEF RInv, Read, Reading, WInv, Written
  <2>2. s.size \in Nat
    BY <2>1, TableAssumption DEF Slot, Size
  <2>3. QED BY <2>1, <2>2, TableAssumption DEF GetSum, rest, RInv, Read, Reading, Slot
<1>2. PICK sum \in Nat : sum = rd[r].sum + s.size
  BY <1>1
<1>3. \/ /\ RGoto(r, "size")
         /\ rd' = [rd EXCEPT ![r].sum = sum, ![r].at = rd[r].start, ![r].loops = 0]
      \/ GotData(r, NotFound)
      \/ /\ s.link # -1 /\ ~TooLong(rd[r].loops) /\ UNCHANGED rpc
         /\ rd' = [rd EXCEPT ![r].sum = sum, ![r].at = s.link, ![r].loops = rd[r].loops + 1]
  <2>1. [rd EXCEPT ![r].sum = @ + s.size, ![r].at = rd[r].start, ![r].loops = 0]
          = [rd EXCEPT ![r].sum = sum, ![r].at = rd[r].start, ![r].loops = 0]
    BY <1>2
  <2>2. [rd EXCEPT ![r].sum = @ + s.size, ![r].at = s.link, ![r].loops = @ + 1]
          = [rd EXCEPT ![r].sum = sum, ![r].at = s.link, ![r].loops = rd[r].loops + 1]
    <3>1. [rd EXCEPT ![r].sum = sum, ![r].at = s.link][r].loops = rd[r].loops
      BY <1>1 DEF Reading
    <3>2. QED BY <1>2, <3>1
  <2>3. QED BY <2>1, <2>2 DEF GetSum
<1> HIDE DEF s
<1>4. CASE /\ RGoto(r, "size")
           /\ rd' = [rd EXCEPT ![r].sum = sum, ![r].at = rd[r].start, ![r].loops = 0]
  <2>1. PICK x : x = [rd[r] EXCEPT !.sum = sum, !.at = rd[r].start, !.loops = 0]
    OBVIOUS
  <2>2. x \in Reading /\ x.call = rd[r].call /\ x.loops = 0 /\ x.idx = rd[r].idx
    <3>1. PICK at, n : at = rd[r].start /\ n = 0
      OBVIOUS
    <3>2. at \in Slots /\ n \in 0..maxslots
      BY <1>1, <3>1
    <3>3. x = [rd[r] EXCEPT !.sum = sum, !.at = at, !.loops = n]
      BY <2>1, <3>1
    <3>4. x \in Reading /\ x.call = rd[r].call /\ x.loops = n /\ x.idx = rd[r].idx
      BY <1>1, <3>2, <3>3 DEF Reading
    <3>5. QED BY <3>1, <3>4
  <2>3. rpc' = [rpc EXCEPT ![r] = "size"] /\ rd' = [rd EXCEPT ![r] = x]
    BY <1>1, <1>4, <2>1 DEF RGoto, Reading
  <2>4. QED BY <1>1, <2>2, <2>3, DataStep
<1>5. CASE GotData(r, NotFound)
  BY <1>1, <1>5, NotFoundType, DataEnds
<1>6. CASE /\ s.link # -1 /\ ~TooLong(rd[r].loops) /\ UNCHANGED rpc
           /\ rd' = [rd EXCEPT ![r].sum = sum, ![r].at = s.link, ![r].loops = rd[r].loops + 1]
  <2>1. PICK at, n : at = s.link /\ n = rd[r].loops + 1
    OBVIOUS
  <2>2. at \in Slots /\ n \in 0..maxslots
    BY <1>1, <1>6, <2>1 DEF Index, TooLong
  <2>3. PICK x : x = [rd[r] EXCEPT !.sum = sum, !.at = at, !.loops = n]
    OBVIOUS
  <2>4. x \in Reading /\ x.call = rd[r].call /\ x.loops = n /\ x.idx = rd[r].idx
    BY <1>1, <2>2, <2>3 DEF Reading
  <2>5. rpc' = [rpc EXCEPT ![r] = "sum"] /\ rd' = [rd EXCEPT ![r] = x]
    BY <1>1, <1>6, <2>1, <2>3 DEF Reading, RInv, Read
  <2>6. QED BY <1>1, <2>1, <2>4, <2>5, DataStep
<1>7. QED BY <1>3, <1>4, <1>5, <1>6

\* The chunks copied so far.
Pieces == Seq([data : Bytes, n : Nat])

\* ... second pass: a slot's size is loaded, ...
LEMMA GetSizeStep ==
  ASSUME RInv, WInv, NEW r \in Readers, GetSize(r)
  PROVE  Stepped(r)
<1>1. /\ rpc[r] = "size" /\ during' = during /\ rd[r] \in Reading /\ rd \in [Readers -> Reading]
      /\ rd[r].got \in Pieces
  BY DEF GetSize, rest, RInv, Read, Reading, Pieces
<1>2. PICK size \in Nat : size = slots[rd[r].at].size
  <2>1. slots[rd[r].at] \in Slot
    BY <1>1 DEF Reading, WInv, Written
  <2>2. QED BY <2>1, TableAssumption DEF Slot, Size
<1>3. \/ GotData(r, verifyShmValue(rd[r].got)) \/ GotData(r, NotFound)
      \/ rd' = [rd EXCEPT ![r].n = size] /\ RGoto(r, "copy")
  BY <1>2 DEF GetSize
<1>4. CASE GotData(r, verifyShmValue(rd[r].got))
  <2>1. verifyShmValue(rd[r].got) \in Results
    BY <1>1, VerifyType DEF Results, Pieces
  <2>2. QED BY <1>1, <1>4, <2>1, DataEnds
<1>5. CASE GotData(r, NotFound)
  BY <1>1, <1>5, NotFoundType, DataEnds
<1>6. CASE rd' = [rd EXCEPT ![r].n = size] /\ RGoto(r, "copy")
  <2>1. PICK x : x = [rd[r] EXCEPT !.n = size]
    OBVIOUS
  <2>2. x \in Reading /\ x.call = rd[r].call /\ x.loops = rd[r].loops /\ x.idx = rd[r].idx
    BY <1>1, <2>1 DEF Reading
  <2>3. rpc' = [rpc EXCEPT ![r] = "copy"] /\ rd' = [rd EXCEPT ![r] = x]
    BY <1>6, <2>1 DEF RGoto
  <2>4. QED BY <1>1, <2>2, <2>3, DataStep
<1>7. QED BY <1>3, <1>4, <1>5, <1>6

\* ... and its bytes copied.
LEMMA GetCopyStep ==
  ASSUME RInv, WInv, NEW r \in Readers, GetCopy(r)
  PROVE  Stepped(r)
<1> DEFINE s == slots[rd[r].at]
           more == IF rd[r].n = 0 THEN rd[r].got
                   ELSE Append(rd[r].got, [data |-> s.data, n |-> rd[r].n])
<1>1. /\ rpc[r] = "copy" /\ during' = during /\ rd[r] \in Reading /\ rd \in [Readers -> Reading]
      /\ rd[r].got \in Pieces /\ rd[r].n \in Nat /\ rd[r].done \in Nat
      /\ rd[r].loops \in 0..maxslots /\ maxslots \in Nat
  BY TableAssumption DEF GetCopy, rest, RInv, Read, Reading, Pieces
<1>2. s.link \in Index /\ s.data \in Bytes
  <2>1. s \in Slot
    BY <1>1 DEF Reading, WInv, Written
  <2>2. QED BY <2>1 DEF Slot
<1>3. more \in Pieces
  <2>1. PICK e : e = [data |-> s.data, n |-> rd[r].n]
    OBVIOUS
  <2>2. e \in [data : Bytes, n : Nat]
    BY <1>1, <1>2, <2>1
  <2>3. Append(rd[r].got, e) \in Pieces
    BY <1>1, <2>2, AppendProperties DEF Pieces
  <2>4. QED BY <1>1, <2>1, <2>3
<1>4. PICK got \in Pieces, done \in Nat, n \in Nat :
        got = more /\ done = rd[r].done + rd[r].n /\ n = rd[r].loops + 1
  <2>1. rd[r].done + rd[r].n \in Nat /\ rd[r].loops + 1 \in Nat
    BY <1>1
  <2> HIDE DEF more
  <2>2. QED BY <1>3, <2>1
<1>5. \/ GotData(r, verifyShmValue(got)) \/ GotData(r, NotFound)
      \/ /\ s.link # -1 /\ ~TooLong(rd[r].loops) /\ RGoto(r, "size")
         /\ rd' = [rd EXCEPT ![r].at = s.link, ![r].loops = @ + 1,
                             ![r].done = @ + rd[r].n, ![r].got = more]
  BY <1>4 DEF GetCopy
<1> HIDE DEF s, more
<1>6. CASE GotData(r, verifyShmValue(got))
  <2>1. verifyShmValue(got) \in Results
    BY VerifyType DEF Results, Pieces
  <2>2. QED BY <1>1, <1>6, <2>1, DataEnds
<1>7. CASE GotData(r, NotFound)
  BY <1>1, <1>7, NotFoundType, DataEnds
<1>8. CASE /\ s.link # -1 /\ ~TooLong(rd[r].loops) /\ RGoto(r, "size")
           /\ rd' = [rd EXCEPT ![r].at = s.link, ![r].loops = @ + 1,
                               ![r].done = @ + rd[r].n, ![r].got = more]
  <2>1. PICK at : at = s.link
    OBVIOUS
  <2>2. at \in Slots /\ n \in 0..maxslots
    BY <1>1, <1>2, <1>4, <1>8, <2>1 DEF Index, TooLong
  <2>3. PICK x : x = [rd[r] EXCEPT !.at = at, !.loops = n, !.done = done, !.got = got]
    OBVIOUS
  <2>4. x \in Reading /\ x.call = rd[r].call /\ x.loops = n /\ x.idx = rd[r].idx
    BY <1>1, <2>2, <2>3 DEF Reading, Pieces
  <2>5. rpc' = [rpc EXCEPT ![r] = "size"] /\ rd' = [rd EXCEPT ![r] = x]
    <3>1. [rd EXCEPT ![r].at = at][r].loops = rd[r].loops
      BY <1>1 DEF Reading
    <3>2. [rd EXCEPT ![r].at = at, ![r].loops = n][r].done = rd[r].done
      BY <1>1 DEF Reading
    <3>3. rd' = [rd EXCEPT ![r].at = at, ![r].loops = n, ![r].done = done, ![r].got = got]
      BY <1>4, <1>8, <2>1, <3>1, <3>2
    <3>4. QED BY <1>8, <2>3, <3>3 DEF RGoto
  <2>6. QED BY <1>1, <1>4, <2>4, <2>5, DataStep
<1>9. QED BY <1>5, <1>6, <1>7, <1>8

\* A new call of a reader keeps RInv.
LEMMA RBeginInv ==
  ASSUME RInv, NEW r \in Readers,
         Traverse(r) \/ \E k \in Keys : Get(r, k) \/ Exist(r, k)
  PROVE  RInv' /\ rpc[r] = "idle" /\ Only(r)
<1>1. PICK call \in {"get", "exist", "traverse"}, k \in Keys \cup {None}, l \in {"lead", "slot"} :
        /\ RBegin(r, call, k, l)
        /\ call = "traverse" <=> l = "slot"
        /\ call = "traverse" <=> k = None
  <2>1. ASSUME NEW k \in Keys, Get(r, k) \/ Exist(r, k) PROVE k # None
    BY TableAssumption
  <2>2. QED BY <2>1 DEF Traverse, Get, Exist
<1>2. PICK at : at = IF k = None THEN 0 ELSE Hash[k]
  OBVIOUS
<1>3. at \in Slots
  BY <1>2, TableAssumption DEF Slots
<1>4. PICK x : x = [NoRead EXCEPT !.call = call, !.key = k, !.at = at]
  OBVIOUS
<1>5. x \in Reading /\ x.call = call /\ x.key = k /\ x.loops = NoRead.loops
  BY <1>1, <1>3, <1>4, NoReadType DEF Reading, RBegin
<1>6. rpc' = [rpc EXCEPT ![r] = l] /\ rd' = [rd EXCEPT ![r] = x] /\ rpc[r] = "idle"
      /\ during' = [during EXCEPT ![r] =
           IF wpc = "idle" THEN "calm"
           ELSE IF k \in DOMAIN before /\ w.op # "clear" /\ w.key # k
           THEN "steady" ELSE "touched"]
  BY <1>1, <1>2, <1>4 DEF RBegin, RGoto
<1>7. x.loops = 0
  BY <1>5 DEF NoRead
<1>8. Read'
  BY <1>5, <1>6 DEF RInv, Read, ReaderLabels
<1>9. Asked'
  BY <1>1, <1>5, <1>6, <1>7 DEF RInv, Read, Asked
<1>10. QED BY <1>6, <1>8, <1>9 DEF RInv, Read, Only

\* Beside a new call of the writer readers in a call keep their locals.
LEMMA BeginReaders ==
  ASSUME RInv, Clear \/ \E k \in Keys : Remove(k) \/ \E v \in Values : Put(k, v)
  PROVE  /\ RInv'
         /\ \A r \in Readers : rpc[r] # "idle" => rd'[r] = rd[r] /\ rpc'[r] = rpc[r]
<1>1. PICK op, k, v : Begin(op, k, v)
  BY DEF Clear, Remove, Put
<1>2. /\ rd' = [r \in Readers |-> IF rpc[r] = "idle" THEN NoRead ELSE rd[r]]
      /\ rpc' = rpc
      /\ during' \in [Readers -> {"calm", "steady", "touched"}]
  BY <1>1 DEF Begin
<1>3. RInv'
  BY <1>2, NoReadType DEF RInv, Read, Asked
<1>4. QED BY <1>2, <1>3

-------------------------------------------------------------------------------
(* The theorems.                                                           *)

\* A step of r's call, as the next-state relation has it.
LEMMA RStepStep ==
  ASSUME RInv, WInv, NEW r \in Readers, RStep(r)
  PROVE  Stepped(r)
BY GetLeadStep, GetScanStep, TravSlotStep, GetSumStep, GetSizeStep, GetCopyStep DEF RStep

\* The inductive invariant: the writer's part and the readers' part.
QInv == WInv /\ RInv

\* The initial state.
LEMMA InitQInv == Init => QInv
<1> SUFFICES ASSUME Init PROVE QInv
  OBVIOUS
<1>1. NoWrite \in Call /\ NoRead \in Reading /\ EmptySlot \in Slot /\ EmptySlot.count = 0
  BY NoWriteType, NoReadType, EmptySlotType
<1>2. Written
  BY <1>1, TableAssumption DEF Init, Written, WriterLabels, Reply, Errors
<1>3. Locals
  BY DEF Init, Locals, NoWrite, PutLabels, RemLabels
<1>4. Counted
  BY <1>1 DEF Init, Counted
<1>5. RInv
  BY <1>1 DEF Init, RInv, Read, Asked, ReaderLabels
<1>6. QED BY <1>2, <1>3, <1>4, <1>5 DEF QInv, WInv

\* What the writer's state depends on.
LEMMA WriterStays ==
  ASSUME WInv, UNCHANGED <<table, writer>>
  PROVE  WInv'
BY DEF WInv, Written, Locals, Counted, table, writer

\* What the readers' state depends on.
LEMMA ReadersStay ==
  ASSUME RInv, UNCHANGED readers
  PROVE  RInv'
BY DEF RInv, Read, Asked, readers

\* Every step keeps the invariant, and of the readers only its own moves.
LEMMA NextQInv ==
  ASSUME QInv, Next
  PROVE  /\ QInv'
         /\ \A r \in Readers :
              rpc[r] # "idle" /\ (rpc'[r] # rpc[r] \/ rd'[r] # rd[r]) => Nearer(r)
<1>1. CASE Clear \/ \E k \in Keys : Remove(k) \/ \E v \in Values : Put(k, v)
  BY <1>1, CallInv, BeginReaders DEF QInv
<1>2. CASE WStep
  <2>1. WInv' /\ UNCHANGED readers
    BY <1>2, WStepInv DEF QInv
  <2>2. QED BY <2>1, ReadersStay DEF QInv, readers
<1>3. CASE Crash
  <2>1. WInv' /\ UNCHANGED readers
    BY <1>3, CrashInv DEF QInv, Crash
  <2>2. QED BY <2>1, ReadersStay DEF QInv, readers
<1>4. ASSUME NEW q \in Readers, RStep(q)
      PROVE  /\ QInv'
             /\ \A r \in Readers :
                  rpc[r] # "idle" /\ (rpc'[r] # rpc[r] \/ rd'[r] # rd[r]) => Nearer(r)
  <2>1. Stepped(q)
    BY <1>4, RStepStep DEF QInv
  <2>2. UNCHANGED <<table, writer>>
    BY <1>4 DEF RStep, GetLead, GetScan, TravSlot, GetSum, GetSize, GetCopy, rest
  <2>3. WInv'
    BY <2>2, WriterStays DEF QInv
  <2>4. QED BY <2>1, <2>3 DEF QInv, Stepped, Only
<1>5. ASSUME NEW q \in Readers, Traverse(q) \/ \E k \in Keys : Get(q, k) \/ Exist(q, k)
      PROVE  /\ QInv'
             /\ \A r \in Readers :
                  rpc[r] # "idle" /\ (rpc'[r] # rpc[r] \/ rd'[r] # rd[r]) => Nearer(r)
  <2>1. RInv' /\ rpc[q] = "idle" /\ Only(q)
    BY <1>5, RBeginInv DEF QInv
  <2>2. UNCHANGED <<table, writer>>
    BY <1>5 DEF Traverse, Get, Exist, RBegin
  <2>3. WInv'
    BY <2>2, WriterStays DEF QInv
  <2>4. QED BY <2>1, <2>3 DEF QInv, Only
<1>6. QED BY <1>1, <1>2, <1>3, <1>4, <1>5 DEF Next

\* QInv holds in every reachable state.
THEOREM SlotInvariance == Spec => []QInv
<1>1. QInv /\ [Next]_vars => QInv'
  <2>1. QInv /\ Next => QInv'
    BY NextQInv
  <2>2. QInv /\ UNCHANGED vars => QInv'
    BY WriterStays, ReadersStay DEF QInv, vars
  <2>3. QED BY <2>1, <2>2
<1>2. QED BY <1>1, InitQInv, PTL DEF Spec

\* Every index that the writer or a reader follows lies in the table, and every
\* field of a slot has a legal value, whatever the readers see of a call that is
\* under way or that a crash cut short.
THEOREM IndicesStayInTable == Spec => []TypeOK
<1>1. QInv => TypeOK
  BY DEF QInv, WInv, Written, RInv, Read, TypeOK
<1>2. QED BY <1>1, SlotInvariance, PTL

\* Every call of a reader returns within as many of its own steps as its rank
\* says, whatever the writer does meanwhile, and however links are left after
\* crashes: reading is wait-free.
THEOREM ReadingIsWaitFree == Spec => ReadersAreWaitFree
<1> DEFINE Falls ==
      \A r \in Readers :
        rpc[r] # "idle" /\ <<rpc[r], rd[r]>>' # <<rpc[r], rd[r]>> =>
          0 <= Rank(r)' /\ Rank(r)' < Rank(r)
<1>1. QInv /\ [Next]_vars => [Falls]_vars
  <2> SUFFICES ASSUME QInv, Next, NEW r \in Readers, rpc[r] # "idle",
                      <<rpc[r], rd[r]>>' # <<rpc[r], rd[r]>>
               PROVE  0 <= Rank(r)' /\ Rank(r)' < Rank(r)
    OBVIOUS
  <2>1. QInv' /\ Nearer(r)
    BY NextQInv
  <2>2. rpc[r] \in ReaderLabels /\ rpc'[r] \in ReaderLabels
    BY <2>1 DEF QInv, RInv, Read
  <2>3. Rank(r) = RankOf(rpc[r], rd[r]) /\ Rank(r)' = RankOf(rpc'[r], rd'[r])
    BY <2>2, RankIs, RankIsNext
  <2>4. QED BY <2>1, <2>3 DEF Nearer
<1>2. QED BY <1>1, SlotInvariance, PTL DEF Spec, ReadersAreWaitFree
===============================================================================
