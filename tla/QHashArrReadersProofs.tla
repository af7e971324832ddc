------------------------ MODULE QHashArrReadersProofs ------------------------
(***************************************************************************)
(* Proofs about what readers of the slot table get while its writer makes  *)
(* no call: on any table, also one that a crash left half-written, and on  *)
(* the table of a writer that has not died in a call.                      *)
(***************************************************************************)
EXTENDS QHashArrValuesProofs

-------------------------------------------------------------------------------
(* The invariant.                                                          *)

\* S[m] is the number of bytes in the first m slots of the walk at.  The last
\* conjunct follows from the others by induction; a walk only adds slots.
Sums(at, n, S) ==
  /\ S \in [0..n -> Nat] /\ S[0] = 0
  /\ \A m \in 0..(n - 1) : S[m + 1] = S[m] + slots[at[m]].size
  /\ \A a, b \in 0..n : a <= b => S[a] <= S[b]

\* got has at most a piece of each of the walk's first n slots, and begins with
\* theirs as long as they have bytes.
Took(at, n, got) ==
  /\ Len(got) <= n
  /\ \A b \in 0..n : (\A m \in 0..(b - 1) : slots[at[m]].size # 0) =>
       b <= Len(got) /\ \A j \in 1..b : got[j] = Piece(at[j - 1])

\* A reader that has not reached any data.
Fresh(x) == x.sum = 0 /\ x.done = 0 /\ x.loops = 0 /\ x.got = << >>

\* The first slots of hash h that a scan passes before it comes to slot i.
Passed(h, i) == {j \in Slots : IsFirst(j, h) /\ Dist(h, j) < Dist(h, i)}

Scanned(x) ==
  LET h == Hash[x.key]
  IN  /\ x.n = Cardinality(Passed(h, x.at))
      /\ \A j \in Passed(h, x.at) : slots[j].key # x.key

\* A traversal has listed the keys of the first n slots: all of them, and in a table
\* whose writer has not died nothing else, each once and with its value.
Listed(seen, n) ==
  /\ \A i \in Slots : i < n /\ KeySlot(i) => \E j \in DOMAIN seen : seen[j].key = slots[i].key
  /\ crashes = 0 =>
       /\ \A j \in DOMAIN seen :
            /\ \E i \in Slots : i < n /\ KeySlot(i) /\ seen[j].key = slots[i].key
            /\ seen[j].val = View[seen[j].key]
       /\ \A i, j \in DOMAIN seen : seen[i].key = seen[j].key => i = j

\* Whose data is read: the key's of a get, or the next slot's of a traversal.
Sourced(x) ==
  \/ x.call = "get" /\ x.start = get_idx(x.key) /\ x.key \in Keys
  \/ /\ x.call = "traverse" /\ x.start = x.idx /\ x.key = slots[x.idx].key
     /\ KeySlot(x.idx) /\ Listed(x.seen, x.idx)

\* The two passes of _get_data on the walk from slot x.start on.
Summing(x) ==
  LET at == Walk(x.start)
  IN  /\ x.at = at[x.loops]
      /\ \E S : Sums(at, x.loops, S) /\ x.sum = S[x.loops]
      /\ x.done = 0 /\ x.got = << >>

Fetching(x) ==
  LET at == Walk(x.start)
  IN  /\ x.at = at[x.loops]
      /\ \E e \in 0..maxslots :
           /\ EndsAt(at, e) /\ x.loops <= e
           /\ \E S : Sums(at, e + 1, S) /\ x.sum = S[e + 1] /\ x.done = S[x.loops]
      /\ Took(at, x.loops, x.got)

\* What a call answers.
GetAnswer(x) ==
  IF x.key \notin DOMAIN View THEN x.res = NotFound
  ELSE View[x.key] # None => x.res = Result("kOk", x.key, View[x.key])
ExistAnswer(x) == x.res = IF x.key \in DOMAIN View THEN Exists ELSE NotFound
TraverseAnswer(x) ==
  \/ x.res = Traversed /\ Listed(x.seen, maxslots)
  \/ x.res = TraversalFailed /\ crashes # 0

\* A call, at label l with locals x, that has met no call of the writer.
Calm(l, x) ==
  /\ l = "idle" => /\ x.call = "get" => GetAnswer(x)
                   /\ x.call = "exist" => ExistAnswer(x)
                   /\ x.call = "traverse" => TraverseAnswer(x)
  /\ l \in {"lead", "scan", "slot"} => Fresh(x)
  /\ l = "lead" => x.at = Hash[x.key] /\ x.n = 0
  /\ l = "scan" => Scanned(x)
  /\ l = "slot" => Listed(x.seen, x.idx)
  /\ l \in {"sum", "size", "copy"} => Sourced(x)
  /\ l = "sum" => Summing(x)
  /\ l \in {"size", "copy"} => Fetching(x)
  /\ l = "copy" => x.n = slots[x.at].size

CInv ==
  \A r \in Readers : during[r] = "calm" => wpc = "idle" /\ Calm(rpc[r], rd[r])

\* It speaks of nothing but the slots, and of whether the writer has died.
LEMMA CalmStays ==
  ASSUME slots' = slots, crashes' = crashes, NEW l, NEW x, Calm(l, x)
  PROVE  Calm(l, x)'
<1>1. View' = View
  BY DEF View, get_idx, IsFirst, Content, Walk
<1>2. \A i : Walk(i)' = Walk(i) /\ (KeySlot(i)' <=> KeySlot(i))
  BY DEF Walk, KeySlot
<1>3. \A k : get_idx(k)' = get_idx(k)
  BY DEF get_idx, IsFirst
<1>4. \A h, i : Passed(h, i)' = Passed(h, i)
  BY DEF Passed, IsFirst
<1>5. \A at, n, got : Took(at, n, got)' <=> Took(at, n, got)
  BY DEF Took, Piece
<1>6. \A at, n, S : Sums(at, n, S)' <=> Sums(at, n, S)
  BY DEF Sums
<1>7. \A seen, n : Listed(seen, n)' <=> Listed(seen, n)
  BY <1>1, <1>2 DEF Listed
<1>8. /\ GetAnswer(x)' <=> GetAnswer(x)
      /\ ExistAnswer(x)' <=> ExistAnswer(x)
      /\ TraverseAnswer(x)' <=> TraverseAnswer(x)
  BY <1>1, <1>7 DEF GetAnswer, ExistAnswer, TraverseAnswer
<1>9. (Scanned(x)' <=> Scanned(x)) /\ (Summing(x)' <=> Summing(x)) /\ (Fetching(x)' <=> Fetching(x))
  BY <1>2, <1>4, <1>5, <1>6 DEF Scanned, Summing, Fetching
<1>10. Sourced(x)' <=> Sourced(x)
  BY <1>2, <1>3, <1>7 DEF Sourced
<1>11. QED BY <1>2, <1>3, <1>7, <1>8, <1>9, <1>10 DEF Calm

\* The next state's, for a reader r.
LEMMA CalmNext ==
  ASSUME slots' = slots, crashes' = crashes, wpc' = "idle",
         \A r \in Readers : during'[r] = "calm" => Calm(rpc'[r], rd'[r])
  PROVE  CInv'
BY CalmStays DEF CInv

-------------------------------------------------------------------------------
(* The scan.                                                               *)

\* The slots at which a scan for key k may find it.
Hits(k) ==
  {i \in Slots : /\ IsFirst(i, Hash[k]) /\ slots[i].key = k
                 /\ Cardinality(Passed(Hash[k], i)) < slots[Hash[k]].count}

LEMMA GetIdxHits ==
  ASSUME NEW k
  PROVE  get_idx(k) = IF Hits(k) = {} THEN -1 ELSE Nearest(Hash[k], Hits(k))
<1> DEFINE h == Hash[k]
           firsts == {i \in Slots : IsFirst(i, h)}
           passed(i) == {j \in firsts : Dist(h, j) < Dist(h, i)}
           hits == {i \in firsts : /\ slots[i].key = k
                                  /\ Cardinality(passed(i)) < slots[h].count}
<1>1. get_idx(k) = IF hits = {} THEN -1 ELSE Nearest(h, hits)
  BY DEF get_idx
<1>2. \A i \in Slots : passed(i) = Passed(h, i)
  BY DEF Passed
<1>3. hits = Hits(k)
  BY <1>2 DEF Hits
<1>4. QED BY <1>1, <1>3

\* No two slots are at the same distance.
LEMMA DistOnce ==
  ASSUME NEW a \in Slots, NEW i \in Slots, NEW j \in Slots, Dist(a, i) = Dist(a, j)
  PROVE  i = j
BY TableAssumption DEF Slots, Dist

\* What is passed further on includes what is passed here.
LEMMA PassedIs ==
  ASSUME NEW h \in Slots
  PROVE  /\ \A i \in Slots : Cardinality(Passed(h, i)) \in Nat
         /\ \A i, j \in Slots : Dist(h, i) <= Dist(h, j) =>
              Cardinality(Passed(h, i)) <= Cardinality(Passed(h, j))
         /\ Passed(h, h) = {}
<1>1. \A i \in Slots : Passed(h, i) \in SUBSET Slots
  BY DEF Passed
<1>2. ASSUME NEW i \in Slots, NEW j \in Slots, Dist(h, i) <= Dist(h, j)
      PROVE  Cardinality(Passed(h, i)) <= Cardinality(Passed(h, j))
  <2>1. Passed(h, i) \subseteq Passed(h, j)
    <3>1. Dist(h, i) \in Int /\ Dist(h, j) \in Int /\ \A x \in Slots : Dist(h, x) \in Int
      BY DistType
    <3>2. QED BY <1>2, <3>1 DEF Passed
  <2>2. QED BY <1>1, <2>1, SlotSets, FS_Subset
<1>3. Passed(h, h) = {}
  <2>1. Dist(h, h) = 0 /\ \A x \in Slots : Dist(h, x) \in Nat
    BY DistType DEF Dist, Slots
  <2>2. QED BY <2>1 DEF Passed
<1>4. QED BY <1>1, <1>2, <1>3, SlotSets

\* The scan counts a slot when it goes on behind it.
LEMMA PassedNext ==
  ASSUME NEW h \in Slots, NEW i \in Slots, After(i) # h
  PROVE  /\ IsFirst(i, h) =>
              /\ Passed(h, After(i)) = Passed(h, i) \cup {i}
              /\ Cardinality(Passed(h, After(i))) = Cardinality(Passed(h, i)) + 1
         /\ ~IsFirst(i, h) => Passed(h, After(i)) = Passed(h, i)
<1>1. Dist(h, After(i)) = Dist(h, i) + 1
  BY DistNext
<1>2. \A x \in Slots : Dist(h, x) \in Int
  BY TableAssumption DEF Slots, Dist
<1>3. \A x \in Slots : Dist(h, x) < Dist(h, After(i)) <=> Dist(h, x) < Dist(h, i) \/ x = i
  <2>1. \A x \in Slots : Dist(h, x) = Dist(h, i) => x = i
    BY DistOnce
  <2>2. QED BY <1>1, <1>2, <2>1
<1>4. IsFirst(i, h) => Passed(h, After(i)) = Passed(h, i) \cup {i}
  BY <1>3 DEF Passed
<1>5. ~IsFirst(i, h) => Passed(h, After(i)) = Passed(h, i)
  BY <1>3 DEF Passed
<1>6. i \notin Passed(h, i) /\ Passed(h, i) \in SUBSET Slots
  BY <1>2 DEF Passed
<1>7. QED BY <1>4, <1>5, <1>6, OneMore

\* The scan has found the key, ...
LEMMA ScanHits ==
  ASSUME NEW k \in Keys, NEW i \in Slots, IsFirst(i, Hash[k]), slots[i].key = k,
         \A j \in Passed(Hash[k], i) : slots[j].key # k,
         Cardinality(Passed(Hash[k], i)) < slots[Hash[k]].count
  PROVE  get_idx(k) = i
<1>1. Hash[k] \in Slots
  BY TableAssumption
<1>2. i \in Hits(k) /\ Hits(k) \in SUBSET Slots
  BY DEF Hits
<1>3. PICK n : n = Nearest(Hash[k], Hits(k))
  OBVIOUS
<1>4. n \in Hits(k) /\ Dist(Hash[k], n) <= Dist(Hash[k], i)
  BY <1>1, <1>2, <1>3, NearestIs
<1>5. n \in Slots /\ IsFirst(n, Hash[k]) /\ slots[n].key = k
  BY <1>4 DEF Hits
<1>6. ~(Dist(Hash[k], n) < Dist(Hash[k], i))
  BY <1>5 DEF Passed
<1>7. Dist(Hash[k], n) = Dist(Hash[k], i)
  BY <1>1, <1>4, <1>5, <1>6, DistType
<1>8. n = i
  BY <1>1, <1>5, <1>7, DistOnce
<1>9. QED BY <1>2, <1>3, <1>8, GetIdxHits

\* ... has passed as many keys as there are, ...
LEMMA ScanGivesUp ==
  ASSUME slots \in Tables, NEW k \in Keys, NEW i \in Slots,
         \A j \in Passed(Hash[k], i) : slots[j].key # k,
         ~(Cardinality(Passed(Hash[k], i)) < slots[Hash[k]].count)
  PROVE  get_idx(k) = -1
<1>1. Hash[k] \in Slots
  BY TableAssumption
<1>2. slots[Hash[k]].count \in Int
  BY <1>1, SlotIs
<1>3. ASSUME NEW x \in Hits(k) PROVE FALSE
  <2>1. /\ x \in Slots /\ IsFirst(x, Hash[k]) /\ slots[x].key = k
        /\ Cardinality(Passed(Hash[k], x)) < slots[Hash[k]].count
    BY <1>3 DEF Hits
  <2>2. ~(Dist(Hash[k], x) < Dist(Hash[k], i))
    BY <2>1 DEF Passed
  <2>3. Dist(Hash[k], i) <= Dist(Hash[k], x)
    <3>1. Dist(Hash[k], x) \in Int /\ Dist(Hash[k], i) \in Int
      BY <1>1, <2>1, TableAssumption DEF Slots, Dist
    <3>2. QED BY <2>2, <3>1
  <2>4. Cardinality(Passed(Hash[k], i)) <= Cardinality(Passed(Hash[k], x))
    BY <1>1, <2>1, <2>3, PassedIs
  <2>5. Cardinality(Passed(Hash[k], i)) \in Nat /\ Cardinality(Passed(Hash[k], x)) \in Nat
    BY <1>1, <2>1, PassedIs
  <2>6. QED BY <1>2, <2>1, <2>4, <2>5
<1>4. QED BY <1>3, GetIdxHits

\* ... or is back where it started.
LEMMA ScanIsThrough ==
  ASSUME NEW k \in Keys, NEW i \in Slots, After(i) = Hash[k],
         \A j \in Passed(Hash[k], i) : slots[j].key # k,
         ~(IsFirst(i, Hash[k]) /\ slots[i].key = k)
  PROVE  get_idx(k) = -1
<1>1. Hash[k] \in Slots
  BY TableAssumption
<1>2. \A x \in Slots : Dist(Hash[k], x) \in Int /\ Dist(Hash[k], x) <= Dist(Hash[k], i)
  BY <1>1, TableAssumption DEF Slots, Dist, After
<1>3. ASSUME NEW x \in Hits(k) PROVE FALSE
  <2>1. x \in Slots /\ IsFirst(x, Hash[k]) /\ slots[x].key = k
    BY <1>3 DEF Hits
  <2>2. x # i /\ ~(Dist(Hash[k], x) < Dist(Hash[k], i))
    BY <2>1 DEF Passed
  <2>3. QED BY <1>1, <1>2, <2>1, <2>2, DistOnce
<1>4. QED BY <1>3, GetIdxHits

\* Without a leading slot there is nothing to scan.
LEMMA NoLead ==
  ASSUME slots \in Tables, NEW k \in Keys, ~(slots[Hash[k]].count > 0)
  PROVE  get_idx(k) = -1
<1>1. Hash[k] \in Slots
  BY TableAssumption
<1>2. slots[Hash[k]].count \in Int
  BY <1>1, SlotIs
<1>3. Hits(k) = {}
  BY <1>1, <1>2, PassedIs DEF Hits
<1>4. QED BY <1>3, GetIdxHits

\* The stored keys are those that get_idx finds.
LEMMA ViewHas ==
  ASSUME NEW k \in Keys
  PROVE  k \in DOMAIN View <=> get_idx(k) # -1
BY DEF View

-------------------------------------------------------------------------------
(* The two passes.                                                         *)

\* A sum over one slot more.
LEMMA SumsMore ==
  ASSUME slots \in Tables, NEW at, NEW n \in Nat, at[n] \in Slots, NEW S, Sums(at, n, S)
  PROVE  \E U : Sums(at, n + 1, U) /\ U[n + 1] = S[n] + slots[at[n]].size
<1>1. slots[at[n]].size \in Nat
  BY TableAssumption DEF Tables, Slot, Size
<1>2. S \in [0..n -> Nat] /\ S[n] \in Nat
  BY DEF Sums
<1>3. PICK more \in Nat : more = S[n] + slots[at[n]].size
  BY <1>1, <1>2
<1> DEFINE U == [m \in 0..(n + 1) |-> IF m = n + 1 THEN more ELSE S[m]]
<1>4. U \in [0..(n + 1) -> Nat] /\ U[n + 1] = more /\ \A m \in 0..n : U[m] = S[m]
  BY <1>2, <1>3
<1> HIDE DEF U
<1>5. U[0] = 0
  BY <1>4 DEF Sums
<1>6. ASSUME NEW m \in 0..n PROVE U[m + 1] = U[m] + slots[at[m]].size
  <2>1. CASE m = n
    BY <1>3, <1>4, <2>1
  <2>2. CASE m # n
    BY <1>4, <2>2 DEF Sums
  <2>3. QED BY <2>1, <2>2
<1>7. ASSUME NEW a \in 0..(n + 1), NEW b \in 0..(n + 1), a <= b PROVE U[a] <= U[b]
  <2>1. CASE b # n + 1
    BY <1>4, <1>7, <2>1 DEF Sums
  <2>2. CASE b = n + 1 /\ a # n + 1
    <3>1. S[a] <= S[n] /\ S[a] \in Nat
      BY <1>2, <2>2 DEF Sums
    <3>2. QED BY <1>1, <1>2, <1>3, <1>4, <2>2, <3>1
  <2>3. CASE b = n + 1 /\ a = n + 1
    BY <1>4, <2>3
  <2>4. QED BY <2>1, <2>2, <2>3
<1>8. Sums(at, n + 1, U)
  BY <1>4, <1>5, <1>6, <1>7 DEF Sums
<1>9. QED BY <1>3, <1>4, <1>8

\* No slot, no bytes.
LEMMA SumsNone == ASSUME NEW at PROVE \E S : Sums(at, 0, S) /\ S[0] = 0
<1> DEFINE S == [m \in 0..0 |-> 0]
<1>1. Sums(at, 0, S) /\ S[0] = 0
  BY DEF Sums
<1>2. QED BY <1>1

\* The bytes of a slot are copied, if it has any.
LEMMA TookMore ==
  ASSUME slots \in Tables, NEW at, NEW n \in Nat, at[n] \in Slots, NEW got \in Pieces, Took(at, n, got),
         NEW more, more = IF slots[at[n]].size = 0 THEN got ELSE Append(got, Piece(at[n]))
  PROVE  Took(at, n + 1, more)
<1>1. Len(got) \in Nat /\ Len(got) <= n
  BY LenProperties DEF Pieces, Took
<1>2. CASE slots[at[n]].size = 0
  <2>1. ASSUME NEW b \in 0..(n + 1), \A m \in 0..(b - 1) : slots[at[m]].size # 0
        PROVE  b <= Len(got) /\ \A j \in 1..b : got[j] = Piece(at[j - 1])
    <3>1. b # n + 1
      BY <1>2, <2>1
    <3>2. b \in 0..n
      BY <3>1
    <3>3. QED BY <2>1, <3>2 DEF Took
  <2>2. more = got /\ Len(more) <= n + 1
    BY <1>1, <1>2
  <2>3. QED BY <2>1, <2>2 DEF Took
<1>3. CASE slots[at[n]].size # 0
  <2>1. PICK p : p = Piece(at[n])
    OBVIOUS
  <2>2. p \in [data : Bytes, n : Nat]
    <3>1. slots[at[n]].size \in Nat /\ slots[at[n]].data \in Bytes
      BY TableAssumption DEF Tables, Slot, Size
    <3>2. QED BY <2>1, <3>1 DEF Piece
  <2>3. /\ more = Append(got, p) /\ Len(more) = Len(got) + 1 /\ more[Len(got) + 1] = p
        /\ \A j \in 1..Len(got) : more[j] = got[j]
    BY <1>3, <2>1, <2>2, AppendProperties DEF Pieces
  <2>4. ASSUME NEW b \in 0..(n + 1), \A m \in 0..(b - 1) : slots[at[m]].size # 0
        PROVE  b <= Len(more) /\ \A j \in 1..b : more[j] = Piece(at[j - 1])
    <3>1. CASE b # n + 1
      <4>1. b \in 0..n
        BY <3>1
      <4>2. b <= Len(got) /\ \A j \in 1..b : got[j] = Piece(at[j - 1])
        BY <2>4, <4>1 DEF Took
      <4>3. QED BY <1>1, <2>3, <4>2
    <3>2. CASE b = n + 1
      <4>1. n \in 0..n /\ \A m \in 0..(n - 1) : slots[at[m]].size # 0
        BY <2>4, <3>2
      <4>2. n <= Len(got) /\ \A j \in 1..n : got[j] = Piece(at[j - 1])
        BY <4>1 DEF Took
      <4>3. Len(got) = n
        BY <1>1, <4>2
      <4>4. more[n + 1] = Piece(at[(n + 1) - 1])
        BY <2>1, <2>3, <4>3
      <4>5. QED BY <2>3, <3>2, <4>2, <4>3, <4>4
    <3>3. QED BY <3>1, <3>2
  <2>5. Len(more) <= n + 1
    BY <1>1, <2>3
  <2>6. QED BY <2>4, <2>5 DEF Took
<1>4. QED BY <1>2, <1>3

LEMMA TookNone == ASSUME NEW at PROVE Took(at, 0, << >>)
BY DEF Took

\* The pieces that make up a whole value, wherever they end.
LEMMA WholeIs ==
  ASSUME NEW got, NEW m \in Numbers, WholeValue(got, m), NEW v \in Values, v = got[1].data.val,
         \A j \in 1..m : got[j].n \in Nat
  PROVE  /\ BlocksOf[v] <= m /\ WholeValue(got, BlocksOf[v])
         /\ \A j \in 1..BlocksOf[v] : got[j].n > 0
<1>1. PICK k : k = got[1].data.key
  OBVIOUS
<1>2. PICK b : b = BlocksOf[v]
  OBVIOUS
<1>3. /\ b \in Numbers /\ ChunkFrom(b) < ValSize[v] /\ ValSize[v] <= ChunkFrom(b + 1)
      /\ \A j \in Numbers : ChunkFrom(j) < ValSize[v] <=> j <= b
  BY <1>2, BlocksIs
<1>4. ValSize[v] \in Nat
  BY TableAssumption
<1>5. ChunkFrom(m) + ChunkSize(v, ChunkFrom(m)) = ValSize[v]
  BY DEF WholeValue
<1>6. b <= m
  <2>1. SUFFICES ASSUME m < b PROVE FALSE
    BY <1>3 DEF Numbers
  <2>2. m + 1 \in Numbers /\ m + 1 <= b /\ m <= b
    BY <1>3, <2>1 DEF Numbers
  <2>3. ChunkFrom(m) < ValSize[v] /\ ChunkFrom(m + 1) < ValSize[v] /\ ChunkFrom(m + 1) \in Nat
    BY <1>3, <2>2, ChunkFromIs
  <2>4. ValSize[v] <= ChunkFrom(m + 1)
    BY <1>5, <2>3, ChunkEnds
  <2>5. QED BY <1>4, <2>3, <2>4
<1>7. PICK e : e = ChunkFrom(b) + ChunkSize(v, ChunkFrom(b))
  OBVIOUS
<1>8. e = ValSize[v]
  <2>1. e \in Nat /\ e <= ValSize[v] /\ (e < ValSize[v] => e = ChunkFrom(b + 1))
    BY <1>3, <1>7, ChunkEnds
  <2>2. QED BY <1>3, <1>4, <2>1
<1>9. \A j \in 1..m : /\ got[j].data = Chunk(k, v, ChunkFrom(j))
                      /\ j < m => got[j].n = ChunkSize(v, ChunkFrom(j))
                      /\ got[j].n >= ChunkSize(v, ChunkFrom(j))
  <2>1. \A j \in 1..m : /\ got[j].data = Chunk(k, v, ChunkFrom(j))
                        /\ IF j < m THEN got[j].n = ChunkSize(v, ChunkFrom(j))
                                    ELSE got[j].n >= ChunkSize(v, ChunkFrom(j))
    BY <1>1 DEF WholeValue
  <2>2. QED BY <2>1
<1>10. ASSUME NEW j \in 1..b PROVE got[j].n > 0
  <2>1. j \in Numbers /\ j \in 1..m /\ j <= b
    BY <1>3, <1>6, <1>10 DEF Numbers
  <2>2. ChunkFrom(j) < ValSize[v] /\ ChunkFrom(j) \in Nat
    BY <1>3, <2>1, ChunkFromIs
  <2>3. PICK t : t = ChunkFrom(j) + ChunkSize(v, ChunkFrom(j))
    OBVIOUS
  <2>4. t \in Nat /\ ChunkFrom(j) < t
    BY <2>1, <2>2, <2>3, ChunkEnds
  <2>5. ChunkSize(v, ChunkFrom(j)) \in Int
    BY <2>2, TableAssumption DEF ChunkSize, Smaller
  <2>6. ChunkSize(v, ChunkFrom(j)) > 0
    BY <2>2, <2>3, <2>4, <2>5
  <2>7. got[j].n \in Nat /\ got[j].n >= ChunkSize(v, ChunkFrom(j))
    BY <1>9, <2>1
  <2>8. QED BY <2>5, <2>6, <2>7
<1>11. WholeValue(got, b)
  <2>1. ASSUME NEW j \in 1..b
        PROVE  /\ got[j].data = Chunk(k, v, ChunkFrom(j))
               /\ j < b => got[j].n = ChunkSize(v, ChunkFrom(j))
               /\ got[j].n >= ChunkSize(v, ChunkFrom(j))
    <3>1. j \in 1..m /\ (j < b => j < m)
      BY <1>3, <1>6, <2>1 DEF Numbers
    <3>2. QED BY <1>9, <3>1
  <2>2. v # None
    BY TableAssumption
  <2>3. \A j \in 1..b : /\ got[j].data = Chunk(k, v, ChunkFrom(j))
                        /\ IF j < b THEN got[j].n = ChunkSize(v, ChunkFrom(j))
                                    ELSE got[j].n >= ChunkSize(v, ChunkFrom(j))
    BY <2>1
  <2>4. QED BY <1>1, <1>7, <1>8, <2>2, <2>3 DEF WholeValue
<1>12. QED BY <1>2, <1>6, <1>10, <1>11

\* What verifies, and is no zeroed memory, has pieces that make up its value.
LEMMA VerifiedIs ==
  ASSUME NEW got, NEW k, NEW v, v # None, verifyShmValue(got) = Result("kOk", k, v)
  PROVE  /\ got # << >> /\ got[1].data.key = k /\ got[1].data.val = v
         /\ \E m \in 1..Len(got) : WholeValue(got, m)
<1>1. verifyShmValue(got).err = "kOk" /\ verifyShmValue(got).key = k /\ verifyShmValue(got).val = v
  BY DEF Result
<1>2. /\ got # << >>
      /\ got[1].data = ZeroBytes \/ \E m \in 1..Len(got) : WholeValue(got, m)
  <2>1. Result("kErrDataMess", None, None).err # "kOk"
    BY DEF Result
  <2>2. QED BY <1>1, <2>1 DEF verifyShmValue
<1>3. verifyShmValue(got) = Result("kOk", got[1].data.key, got[1].data.val)
  BY <1>2 DEF verifyShmValue
<1>4. got[1].data.key = k /\ got[1].data.val = v
  BY <1>1, <1>3 DEF Result
<1>5. ZeroBytes.val = None
  BY DEF ZeroBytes, Chunk
<1>6. QED BY <1>2, <1>4, <1>5

\* A get that has copied all bytes of a value has the value.
LEMMA GotWhole ==
  ASSUME slots \in Tables, NEW i \in Slots, NEW at, at = Walk(i), NEW e \in 0..maxslots, EndsAt(at, e),
         NEW S, Sums(at, e + 1, S), NEW n \in 0..(e + 1), S[n] >= S[e + 1],
         NEW got \in Pieces, Took(at, n, got),
         NEW k, NEW v, v # None, verifyShmValue(Content(i)) = Result("kOk", k, v)
  PROVE  verifyShmValue(got) = Result("kOk", k, v)
<1>1. PICK C : C = Content(i)
  OBVIOUS
<1>2. C = [j \in 1..(e + 1) |-> Piece(at[j - 1])]
  BY <1>1, ContentIs
<1>3. Len(C) = e + 1 /\ \A j \in 1..(e + 1) : C[j] = Piece(at[j - 1])
  BY <1>2, TableAssumption
<1>4. \A j \in 0..e : at[j] \in Slots
  BY WalkIs, OneEnd
<1>5. /\ C # << >> /\ C[1].data.key = k /\ C[1].data.val = v
      /\ \E m \in 1..Len(C) : WholeValue(C, m)
  BY <1>1, VerifiedIs
<1>6. PICK m \in 1..(e + 1) : WholeValue(C, m)
  BY <1>3, <1>5
<1>7. \A j \in 1..(e + 1) :
        /\ at[j - 1] \in Slots
        /\ C[j].n = slots[at[j - 1]].size /\ C[j].data = slots[at[j - 1]].data /\ C[j].n \in Nat
  <2>1. ASSUME NEW j \in 1..(e + 1)
        PROVE  /\ at[j - 1] \in Slots
               /\ C[j].n = slots[at[j - 1]].size /\ C[j].data = slots[at[j - 1]].data /\ C[j].n \in Nat
    <3>1. PICK s \in Slots : s = at[j - 1]
      BY <1>4, <2>1
    <3>2. slots[s].size \in Nat
      BY TableAssumption DEF Tables, Slot, Size
    <3>3. C[j] = Piece(s)
      BY <1>3, <3>1
    <3>4. QED BY <3>1, <3>2, <3>3 DEF Piece
  <2>2. QED BY <2>1
<1>8. v \in Values
  <2>1. at[0] \in Slots /\ 1 \in 1..(e + 1) /\ 1 - 1 = 0
    BY <1>4
  <2>2. v = slots[at[0]].data.val
    BY <1>5, <1>7, <2>1
  <2>3. QED BY <2>1, <2>2 DEF Tables, Slot, Bytes
<1>9. PICK b : b = BlocksOf[v]
  OBVIOUS
<1>10. m \in Numbers /\ \A j \in 1..m : C[j].n \in Nat
  BY <1>7 DEF Numbers
<1>11. b <= m /\ WholeValue(C, b) /\ (\A j \in 1..b : C[j].n > 0) /\ b \in Numbers
  BY <1>5, <1>6, <1>8, <1>9, <1>10, WholeIs, BlocksIs
<1>12. \A j \in 0..(b - 1) : slots[at[j]].size # 0
  <2>1. ASSUME NEW j \in 0..(b - 1) PROVE slots[at[j]].size # 0
    <3>1. j + 1 \in 1..b /\ j + 1 \in 1..(e + 1) /\ (j + 1) - 1 = j
      BY <1>6, <1>11 DEF Numbers
    <3>2. QED BY <1>7, <1>11, <3>1
  <2>2. QED BY <2>1
<1>13. b <= n
  <2>1. SUFFICES ASSUME n < b PROVE FALSE
    BY <1>11 DEF Numbers
  <2>2. n \in 0..e /\ n \in 0..(b - 1) /\ n + 1 \in 0..(e + 1)
    BY <1>6, <1>11, <2>1 DEF Numbers
  <2>3. S[n + 1] = S[n] + slots[at[n]].size /\ S[n + 1] <= S[e + 1]
    BY <2>2 DEF Sums
  <2>4. S[n] \in Nat /\ S[n + 1] \in Nat /\ S[e + 1] \in Nat
    BY <2>2 DEF Sums
  <2>5. slots[at[n]].size \in Nat /\ slots[at[n]].size # 0
    <3>1. at[n] \in Slots
      BY <1>4, <2>2
    <3>2. QED BY <1>12, <2>2, <3>1, TableAssumption DEF Tables, Slot, Size
  <2>6. PICK s0 \in Nat, s1 \in Nat, s2 \in Nat, z \in Nat :
          s0 = S[n] /\ s1 = S[n + 1] /\ s2 = S[e + 1] /\ z = slots[at[n]].size
    BY <2>4, <2>5
  <2>7. s1 = s0 + z /\ s1 <= s2 /\ z # 0 /\ s0 >= s2
    BY <2>3, <2>5, <2>6
  <2>8. QED BY <2>7
<1>14. b \in 0..n /\ b \in 1..(e + 1)
  BY <1>6, <1>11, <1>13 DEF Numbers
<1>15. b <= Len(got) /\ \A j \in 1..b : got[j] = C[j]
  <2>1. b <= Len(got) /\ \A j \in 1..b : got[j] = Piece(at[j - 1])
    BY <1>12, <1>14 DEF Took
  <2>2. \A j \in 1..b : C[j] = Piece(at[j - 1])
    BY <1>3, <1>14
  <2>3. QED BY <2>1, <2>2
<1>16. 1 \in 1..b /\ b \in 1..Len(got)
  <2>1. Len(got) \in Nat
    BY LenProperties DEF Pieces
  <2>2. QED BY <1>11, <1>15, <2>1 DEF Numbers
<1>17. got[1].data.key = k /\ got[1].data.val = v
  BY <1>5, <1>15, <1>16
<1>18. WholeValue(got, b)
  <2>1. got[1] = C[1] /\ \A j \in 1..b : got[j] = C[j]
    BY <1>15, <1>16
  <2>2. QED BY <1>11, <2>1 DEF WholeValue
<1>19. got # << >>
  <2>1. got # << >> \/ Len(got) = 0
    BY DEF Pieces
  <2>2. QED BY <1>16, <2>1
<1>20. QED BY <1>16, <1>17, <1>18, <1>19 DEF verifyShmValue

\* A chain without an end holds nothing.
LEMMA EndlessIs ==
  ASSUME NEW i, Walk(i)[maxslots + 1] # -1
  PROVE  verifyShmValue(Content(i)).err # "kOk"
BY DEF Content, verifyShmValue, Result

-------------------------------------------------------------------------------
(* What is stored, and where.                                              *)

\* The table that a writer leaves who has not died in a call.
Sound == crashes = 0 => Settled /\ Spelled(slots, {})

\* The value in View is what get's passes find from the key's slot on.
LEMMA ViewReads ==
  ASSUME NEW k \in DOMAIN View, View[k] # None
  PROVE  /\ k \in Keys /\ get_idx(k) # -1
         /\ verifyShmValue(Content(get_idx(k))) = Result("kOk", k, View[k])
<1>1. PICK value : value = verifyShmValue(Content(get_idx(k)))
  OBVIOUS
<1>2. k \in Keys /\ get_idx(k) # -1
  BY DEF View
<1>3. View[k] = IF value.err = "kOk" /\ value.key = k THEN value.val ELSE None
  BY <1>1, <1>2 DEF View
<1>4. value.err = "kOk" /\ value.key = k /\ value.val = View[k]
  BY <1>3
<1>5. value = Result(value.err, value.key, value.val)
  BY <1>1 DEF verifyShmValue, Result
<1>6. QED BY <1>1, <1>2, <1>4, <1>5

\* A slot that a traversal reads is where get finds its key, and holds its value.
LEMMA SlotReads ==
  ASSUME Written, Settled, Spelled(slots, {}), NEW i \in Slots, KeySlot(i)
  PROVE  LET k == slots[i].key
         IN  /\ k \in DOMAIN View /\ View[k] # None
             /\ verifyShmValue(Content(i)) = Result("kOk", k, View[k])
             /\ \A j \in Slots : KeySlot(j) /\ slots[j].key = k => j = i
<1>1. /\ slots \in Tables /\ Placed(slots, {})
  BY DEF Written, Tables, Settled, Whole, InOrder
<1>2. \A j \in Slots : KeySlot(j) => j \in Leading(slots)
  <2>1. \A j \in Slots : slots[j].count \in Int /\ slots[j].count >= -2
    BY <1>1, SlotIs
  <2>2. QED BY <2>1 DEF KeySlot, Leading
<1>3. PICK k : k = slots[i].key
  OBVIOUS
<1>4. /\ i \in Leading(slots) /\ k \in Keys
      /\ \A j \in Slots : KeySlot(j) /\ slots[j].key = k => j = i
  <2>1. Leading(slots) \ {} = Leading(slots)
    OBVIOUS
  <2>2. QED BY <1>1, <1>2, <1>3, <2>1 DEF Placed
<1>5. k \in DOMAIN View /\ View[k] = slots[i].data.val
  <2>1. Stores(slots, {}, View)
    BY ViewStored
  <2>2. i \in Leading(slots) \ {}
    BY <1>4
  <2> HIDE DEF View
  <2>3. QED BY <1>3, <2>1, <2>2 DEF Stores
<1>6. View[k] # None
  <2>1. i \in Busy(slots)
    BY <1>1, <1>4, BusyFirst
  <2>2. slots[i].data.val \in Values
    BY <2>1 DEF Spelled
  <2>3. QED BY <1>5, <2>2, TableAssumption
<1>7. get_idx(k) = i
  <2>1. get_idx(k) \in Leading(slots) /\ slots[get_idx(k)].key = k
    BY <1>4, <1>5, <1>6, ViewReads, GetIdxFinds
  <2>2. KeySlot(get_idx(k)) /\ get_idx(k) \in Slots
    BY <2>1 DEF Leading, KeySlot
  <2>3. QED BY <1>4, <2>1, <2>2
<1>8. QED BY <1>3, <1>4, <1>5, <1>6, <1>7, ViewReads

\* A key that get finds is in a slot that a traversal reads.
LEMMA KeyListed ==
  ASSUME Written, NEW k \in DOMAIN View
  PROVE  get_idx(k) \in Slots /\ KeySlot(get_idx(k)) /\ slots[get_idx(k)].key = k
<1>1. k \in Keys /\ get_idx(k) # -1
  BY DEF View
<1>2. get_idx(k) \in Slots /\ IsFirst(get_idx(k), Hash[k]) /\ slots[get_idx(k)].key = k
  BY <1>1, GetIdxIs DEF Index
<1>3. slots[get_idx(k)].count \in Int
  BY <1>2 DEF Written, Slot
<1>4. QED BY <1>2, <1>3 DEF IsFirst, KeySlot

-------------------------------------------------------------------------------
(* A reader's steps while the writer makes no call.                        *)

\* A traversal's list grows by what the next slot holds, or by nothing.
LEMMA ListedOn ==
  ASSUME NEW i \in Slots, ~KeySlot(i), NEW seen, Listed(seen, i)
  PROVE  Listed(seen, i + 1)
<1>1. \A j \in Slots : j < i + 1 /\ KeySlot(j) <=> j < i /\ KeySlot(j)
  BY DEF Slots
<1>2. QED BY <1>1 DEF Listed

LEMMA ListedMore ==
  ASSUME Written, Sound, NEW i \in Slots, KeySlot(i), NEW seen \in Listing, Listed(seen, i),
         NEW e, e.key = slots[i].key, e \in [key : Keys \cup {None}, val : Values \cup {None}],
         crashes = 0 => e.val = View[slots[i].key]
  PROVE  Listed(Append(seen, e), i + 1)
<1>1. PICK more : more = Append(seen, e)
  OBVIOUS
<1>2. PICK n \in Nat : n = Len(seen)
  BY LenProperties DEF Listing
<1>3. /\ DOMAIN seen = 1..n /\ DOMAIN more = 1..(n + 1) /\ more[n + 1] = e
      /\ \A j \in 1..n : more[j] = seen[j]
  <2>1. seen \in Seq([key : Keys \cup {None}, val : Values \cup {None}])
    BY DEF Listing
  <2>2. Len(more) = n + 1 /\ more[n + 1] = e /\ \A j \in 1..n : more[j] = seen[j]
    BY <1>1, <1>2, <2>1, AppendProperties
  <2>3. more \in Seq([key : Keys \cup {None}, val : Values \cup {None}])
    BY <1>1, <2>1, AppendProperties
  <2>4. QED BY <1>2, <2>1, <2>2, <2>3, LenProperties
<1>4. \A j \in Slots : j < i + 1 <=> j < i \/ j = i
  BY DEF Slots
<1>5. ASSUME NEW j \in Slots, j < i + 1, KeySlot(j)
      PROVE  \E m \in DOMAIN more : more[m].key = slots[j].key
  <2>1. CASE j = i
    <3>1. n + 1 \in DOMAIN more /\ more[n + 1].key = slots[j].key
      BY <1>3, <2>1
    <3>2. QED BY <3>1
  <2>2. CASE j < i
    <3>1. PICK m \in DOMAIN seen : seen[m].key = slots[j].key
      BY <1>5, <2>2 DEF Listed
    <3>2. m \in DOMAIN more /\ more[m] = seen[m]
      BY <1>3
    <3>3. QED BY <3>1, <3>2
  <2>3. QED BY <1>4, <1>5, <2>1, <2>2
<1>6. ASSUME crashes = 0
      PROVE  /\ \A m \in DOMAIN more :
                  /\ \E j \in Slots : j < i + 1 /\ KeySlot(j) /\ more[m].key = slots[j].key
                  /\ more[m].val = View[more[m].key]
             /\ \A a, b \in DOMAIN more : more[a].key = more[b].key => a = b
  <2>1. /\ \A m \in DOMAIN seen :
             /\ \E j \in Slots : j < i /\ KeySlot(j) /\ seen[m].key = slots[j].key
             /\ seen[m].val = View[seen[m].key]
        /\ \A a, b \in DOMAIN seen : seen[a].key = seen[b].key => a = b
    BY <1>6 DEF Listed
  <2>2. \A j \in Slots : KeySlot(j) /\ slots[j].key = slots[i].key => j = i
    BY <1>6, SlotReads DEF Sound
  <2> HIDE DEF View
  <2>3. ASSUME NEW m \in DOMAIN more
        PROVE  /\ \E j \in Slots : j < i + 1 /\ KeySlot(j) /\ more[m].key = slots[j].key
               /\ more[m].val = View[more[m].key]
    <3>1. CASE m = n + 1
      BY <1>3, <1>4, <1>6, <3>1
    <3>2. CASE m # n + 1
      <4>1. m \in DOMAIN seen /\ more[m] = seen[m]
        BY <1>3, <3>2
      <4>2. PICK j \in Slots : j < i /\ KeySlot(j) /\ seen[m].key = slots[j].key
        BY <2>1, <4>1
      <4>3. QED BY <1>4, <2>1, <4>1, <4>2
    <3>3. QED BY <3>1, <3>2
  <2>4. \A m \in DOMAIN seen : seen[m].key # slots[i].key
    <3>1. ASSUME NEW m \in DOMAIN seen, seen[m].key = slots[i].key PROVE FALSE
      <4>1. PICK j \in Slots : j < i /\ KeySlot(j) /\ seen[m].key = slots[j].key
        BY <2>1
      <4>2. QED BY <2>2, <3>1, <4>1 DEF Slots
    <3>2. QED BY <3>1
  <2>5. ASSUME NEW a \in DOMAIN more, NEW b \in DOMAIN more, more[a].key = more[b].key
        PROVE  a = b
    <3>1. CASE a = n + 1 /\ b # n + 1
      BY <1>3, <2>4, <2>5, <3>1
    <3>2. CASE b = n + 1 /\ a # n + 1
      BY <1>3, <2>4, <2>5, <3>2
    <3>3. CASE a # n + 1 /\ b # n + 1
      BY <1>3, <2>1, <2>5, <3>3
    <3>4. QED BY <3>1, <3>2, <3>3
  <2>6. QED BY <2>3, <2>5
<1>7. QED BY <1>1, <1>5, <1>6 DEF Listed

\* The locals with which a call returns.
LEMMA ReturnLocals ==
  ASSUME RInv, NEW r \in Readers, NEW res, RReturn(r, res)
  PROVE  /\ rpc'[r] = "idle" /\ rd'[r].res = res
         /\ rd'[r].call = rd[r].call /\ rd'[r].key = rd[r].key /\ rd'[r].seen = rd[r].seen
<1>1. PICK x : x = [NoRead EXCEPT !.call = rd[r].call, !.key = rd[r].key,
                                  !.seen = rd[r].seen, !.res = res]
  OBVIOUS
<1>2. rpc' = [rpc EXCEPT ![r] = "idle"] /\ rd' = [rd EXCEPT ![r] = x]
  BY <1>1 DEF RReturn, RGoto
<1>3. rpc'[r] = "idle" /\ rd'[r] = x
  BY <1>2 DEF RInv, Read
<1>4. QED BY <1>1, <1>3 DEF NoRead

\* A call that returns is calm if it answers.
LEMMA IdleCalm ==
  ASSUME NEW x, x.call = "get" => GetAnswer(x), x.call = "exist" => ExistAnswer(x),
         x.call = "traverse" => TraverseAnswer(x)
  PROVE  Calm("idle", x)
BY DEF Calm

\* A traversal goes on to the next slot, or is through.
LEMMA OnwardCalm ==
  ASSUME RInv, NEW r \in Readers, NEW seen, Onward(r, seen), Listed(seen, rd[r].idx + 1)
  PROVE  Calm(rpc'[r], rd'[r])
<1>1. rd[r].idx \in Slots
  BY DEF RInv, Read, Reading
<1>2. CASE rd[r].idx = maxslots - 1
  <2>1. PICK x : x = [NoRead EXCEPT !.call = "traverse", !.seen = seen, !.res = Traversed]
    OBVIOUS
  <2>2. rpc' = [rpc EXCEPT ![r] = "idle"] /\ rd' = [rd EXCEPT ![r] = x]
    BY <1>2, <2>1 DEF Onward, RGoto
  <2>3. rpc'[r] = "idle" /\ rd'[r] = x
    BY <2>2 DEF RInv, Read
  <2>4. x.call = "traverse" /\ x.seen = seen /\ x.res = Traversed
    BY <2>1 DEF NoRead
  <2>5. rd[r].idx + 1 = maxslots
    BY <1>2, TableAssumption
  <2>6. TraverseAnswer(x)
    BY <2>4, <2>5 DEF TraverseAnswer
  <2>7. QED BY <2>3, <2>4, <2>6, IdleCalm
<1>3. CASE rd[r].idx # maxslots - 1
  <2>1. PICK n : n = rd[r].idx + 1
    OBVIOUS
  <2>2. PICK x : x = [NoRead EXCEPT !.call = "traverse", !.seen = seen, !.idx = n]
    OBVIOUS
  <2>3. rpc' = [rpc EXCEPT ![r] = "slot"] /\ rd' = [rd EXCEPT ![r] = x]
    BY <1>3, <2>1, <2>2 DEF Onward, RGoto
  <2>4. rpc'[r] = "slot" /\ rd'[r] = x
    BY <2>3 DEF RInv, Read
  <2>5. /\ x.seen = seen /\ x.idx = n
        /\ x.sum = 0 /\ x.done = 0 /\ x.loops = 0 /\ x.got = << >>
    BY <2>2 DEF NoRead
  <2>6. Listed(x.seen, x.idx)
    BY <2>1, <2>5
  <2>7. QED BY <2>4, <2>5, <2>6 DEF Calm, Fresh
<1>4. QED BY <1>2, <1>3

\* _get_data is through with the slots from x.start on.
LEMMA GotCalm ==
  ASSUME Written, Sound, RInv, NEW r \in Readers, NEW x, x = rd[r], NEW res \in Results, GotData(r, res),
         Sourced(x),
         \A k, v : v # None /\ verifyShmValue(Content(x.start)) = Result("kOk", k, v) =>
                     res = Result("kOk", k, v)
  PROVE  Calm(rpc'[r], rd'[r])
<1>1. x \in Reading /\ x.start \in Slots /\ x.idx \in Slots /\ x.seen \in Listing
      /\ x.key \in Keys \cup {None}
  BY DEF RInv, Read, Reading, Listing
<1>2. CASE x.call = "get" /\ x.start = get_idx(x.key) /\ x.key \in Keys
  <2>1. PICK k \in Keys : k = x.key
    BY <1>2
  <2>2. RReturn(r, res)
    BY <1>2 DEF GotData
  <2>3. PICK y : y = rd'[r]
    OBVIOUS
  <2>4. rpc'[r] = "idle" /\ y.res = res /\ y.call = "get" /\ y.key = k
    BY <1>2, <2>1, <2>2, <2>3, ReturnLocals
  <2>5. k \in DOMAIN View
    <3>1. get_idx(k) # -1
      BY <1>1, <1>2, <2>1, TableAssumption DEF Slots
    <3>2. QED BY <3>1, ViewHas
  <2>6. View[k] # None => res = Result("kOk", k, View[k])
    <3> HIDE DEF View
    <3>1. QED BY <1>2, <2>1, <2>5, ViewReads
  <2>7. GetAnswer(y)
    BY <2>4, <2>5, <2>6 DEF GetAnswer
  <2>8. Calm("idle", y)
    BY <2>4, <2>7, IdleCalm
  <2>9. QED BY <2>3, <2>4, <2>8
<1>3. CASE /\ x.call = "traverse" /\ x.start = x.idx /\ x.key = slots[x.idx].key
           /\ KeySlot(x.idx) /\ Listed(x.seen, x.idx)
  <2>1. PICK k : k = slots[x.idx].key
    OBVIOUS
  <2>2. crashes = 0 => res = Result("kOk", k, View[k])
    <3>1. SUFFICES ASSUME crashes = 0 PROVE res = Result("kOk", k, View[k])
      OBVIOUS
    <3>2. View[k] # None /\ verifyShmValue(Content(x.idx)) = Result("kOk", k, View[k])
      BY <1>1, <1>3, <2>1, <3>1, SlotReads DEF Sound
    <3>3. QED BY <1>3, <3>2
  <2>3. crashes = 0 => res.err = "kOk" /\ res.val = View[k]
    BY <2>2 DEF Result
  <2>4. CASE res.err # "kOk"
    <3>1. RReturn(r, TraversalFailed)
      BY <1>3, <2>4 DEF GotData
    <3>2. PICK y : y = rd'[r]
      OBVIOUS
    <3>3. rpc'[r] = "idle" /\ y.res = TraversalFailed /\ y.call = "traverse"
      BY <1>3, <3>1, <3>2, ReturnLocals
    <3>4. TraverseAnswer(y)
      BY <2>3, <2>4, <3>3 DEF TraverseAnswer
    <3>5. Calm("idle", y)
      BY <3>3, <3>4, IdleCalm
    <3>6. QED BY <3>2, <3>3, <3>5
  <2>5. CASE res.err = "kOk"
    <3>1. PICK e : e = [key |-> x.key, val |-> res.val]
      OBVIOUS
    <3>2. Onward(r, Append(x.seen, e))
      BY <1>3, <2>5, <3>1 DEF GotData
    <3>3. /\ e.key = k /\ (crashes = 0 => e.val = View[k])
          /\ e \in [key : Keys \cup {None}, val : Values \cup {None}]
      BY <1>1, <1>3, <2>1, <2>3, <3>1 DEF Results
    <3>4. Listed(Append(x.seen, e), x.idx + 1)
      BY <1>1, <1>3, <2>1, <3>3, ListedMore
    <3>5. QED BY <3>2, <3>4, OnwardCalm
  <2>6. QED BY <2>4, <2>5
<1>4. QED BY <1>2, <1>3 DEF Sourced

\* A step of a pass reads on for the same slot.
LEMMA SourceStays ==
  ASSUME NEW x, NEW y, Sourced(x), y.call = x.call, y.start = x.start, y.key = x.key, y.idx = x.idx,
         y.seen = x.seen
  PROVE  Sourced(y)
BY DEF Sourced

\* One turn of the first pass.
LEMMA GetSumCalm ==
  ASSUME Written, Sound, RInv, NEW r \in Readers, GetSum(r), Calm(rpc[r], rd[r])
  PROVE  Calm(rpc'[r], rd'[r])
<1>1. PICK x : x = rd[r]
  OBVIOUS
<1>2. PICK s : s = slots[x.at]
  OBVIOUS
<1>3. /\ rpc[r] = "sum" /\ x \in Reading /\ rd \in [Readers -> Reading] /\ slots \in Tables
      /\ x.at \in Slots /\ x.start \in Slots /\ x.loops \in 0..maxslots /\ x.sum \in Nat /\ maxslots \in Nat
      /\ rpc \in [Readers -> ReaderLabels]
  BY <1>1, TableAssumption DEF GetSum, RInv, Read, Reading, Written, Tables
<1>4. s.size \in Nat /\ s.link \in Index
  <2>1. s \in Slot
    BY <1>2, <1>3 DEF Tables
  <2>2. QED BY <2>1, TableAssumption DEF Slot, Size
<1>5. Sourced(x) /\ Summing(x)
  BY <1>1, <1>3 DEF Calm
<1>6. PICK at : at = Walk(x.start)
  OBVIOUS
<1>7. Follows(slots, x.start, at)
  BY <1>3, <1>6, WalkIs
<1>8. PICK n \in 0..maxslots : n = x.loops
  BY <1>3
<1>9. /\ at[0] = x.start /\ at[n] = x.at /\ at[n + 1] = s.link
      /\ n + 1 \in 0..(maxslots + 1) /\ x.done = 0 /\ x.got = << >>
  <2>1. x.at # -1
    BY <1>3 DEF Slots
  <2>2. QED BY <1>2, <1>3, <1>5, <1>6, <1>7, <1>8, <2>1 DEF Follows, Summing
<1>10. PICK U : Sums(at, n + 1, U) /\ U[n + 1] = x.sum + s.size
  <2>1. PICK S : Sums(at, n, S) /\ x.sum = S[n]
    BY <1>5, <1>6, <1>8 DEF Summing
  <2>2. QED BY <1>2, <1>3, <1>9, <2>1, SumsMore
<1>11. PICK sum \in Nat : sum = x.sum + s.size
  BY <1>3, <1>4
<1>12. CASE /\ s.link = -1 /\ RGoto(r, "size")
            /\ rd' = [rd EXCEPT ![r].sum = sum, ![r].at = x.start, ![r].loops = 0]
  <2>1. PICK y : y = [x EXCEPT !.sum = sum, !.at = x.start, !.loops = 0]
    OBVIOUS
  <2>2. rpc' = [rpc EXCEPT ![r] = "size"] /\ rd' = [rd EXCEPT ![r] = y]
    BY <1>1, <1>3, <1>12, <2>1 DEF RGoto, Reading
  <2>3. rpc'[r] = "size" /\ rd'[r] = y
    BY <1>3, <2>2
  <2>4. /\ y.sum = sum /\ y.at = x.start /\ y.loops = 0 /\ y.done = x.done /\ y.got = x.got
        /\ y.call = x.call /\ y.start = x.start /\ y.key = x.key /\ y.idx = x.idx /\ y.seen = x.seen
    BY <1>3, <2>1 DEF Reading
  <2>5. EndsAt(at, n)
    BY <1>3, <1>9, <1>12 DEF EndsAt, Slots
  <2>6. U[0] = 0 /\ y.sum = U[n + 1] /\ y.done = 0
    BY <1>9, <1>10, <1>11, <2>4 DEF Sums
  <2>7. Took(at, 0, << >>)
    BY TookNone
  <2>8. Fetching(y)
    <3>1. y.at = at[y.loops] /\ Took(at, y.loops, y.got) /\ 0 <= n
      BY <1>9, <2>4, <2>7
    <3>2. EndsAt(at, n) /\ y.loops <= n /\ Sums(at, n + 1, U) /\ y.sum = U[n + 1] /\ y.done = U[y.loops]
      BY <1>10, <2>4, <2>5, <2>6, <3>1
    <3>3. at = Walk(y.start)
      BY <1>6, <2>4
    <3>4. QED BY <3>1, <3>2, <3>3 DEF Fetching
  <2>9. Sourced(y)
    BY <1>5, <2>4, SourceStays
  <2>10. QED BY <2>3, <2>8, <2>9 DEF Calm
<1>13. CASE s.link # -1 /\ TooLong(x.loops) /\ GotData(r, NotFound)
  <2>1. n = maxslots
    BY <1>3, <1>8, <1>13 DEF TooLong
  <2>2. Walk(x.start)[maxslots + 1] # -1
    BY <1>6, <1>9, <1>13, <2>1
  <2>3. \A k, v : verifyShmValue(Content(x.start)) # Result("kOk", k, v)
    BY <2>2, EndlessIs DEF Result
  <2>4. QED BY <1>1, <1>5, <1>13, <2>3, NotFoundType, GotCalm
<1>14. CASE /\ s.link # -1 /\ ~TooLong(x.loops) /\ UNCHANGED rpc
            /\ rd' = [rd EXCEPT ![r].sum = sum, ![r].at = s.link, ![r].loops = n + 1]
  <2>1. PICK link, m : link = s.link /\ m = n + 1
    OBVIOUS
  <2>2. PICK y : y = [x EXCEPT !.sum = sum, !.at = link, !.loops = m]
    OBVIOUS
  <2>3. rd' = [rd EXCEPT ![r] = y]
    BY <1>1, <1>3, <1>14, <2>1, <2>2 DEF Reading
  <2>4. rpc'[r] = "sum" /\ rd'[r] = y
    BY <1>3, <1>14, <2>3
  <2>5. /\ y.sum = sum /\ y.at = link /\ y.loops = m /\ y.done = x.done /\ y.got = x.got
        /\ y.call = x.call /\ y.start = x.start /\ y.key = x.key /\ y.idx = x.idx /\ y.seen = x.seen
    BY <1>3, <2>2 DEF Reading
  <2>6. Summing(y)
    BY <1>6, <1>9, <1>10, <1>11, <2>1, <2>5 DEF Summing
  <2>7. Sourced(y)
    BY <1>5, <2>5, SourceStays
  <2>8. QED BY <2>4, <2>6, <2>7 DEF Calm
<1>15. \/ /\ s.link = -1 /\ RGoto(r, "size")
          /\ rd' = [rd EXCEPT ![r].sum = sum, ![r].at = x.start, ![r].loops = 0]
       \/ s.link # -1 /\ TooLong(x.loops) /\ GotData(r, NotFound)
       \/ /\ s.link # -1 /\ ~TooLong(x.loops) /\ UNCHANGED rpc
          /\ rd' = [rd EXCEPT ![r].sum = sum, ![r].at = s.link, ![r].loops = n + 1]
  <2>1. [rd EXCEPT ![r].sum = @ + s.size, ![r].at = rd[r].start, ![r].loops = 0]
          = [rd EXCEPT ![r].sum = sum, ![r].at = x.start, ![r].loops = 0]
    BY <1>1, <1>11
  <2>2. [rd EXCEPT ![r].sum = @ + s.size, ![r].at = s.link, ![r].loops = @ + 1]
          = [rd EXCEPT ![r].sum = sum, ![r].at = s.link, ![r].loops = n + 1]
    <3>1. [rd EXCEPT ![r].sum = sum, ![r].at = s.link][r].loops = rd[r].loops
      BY <1>3 DEF Reading
    <3>2. QED BY <1>1, <1>8, <1>11, <3>1
  <2>3. QED BY <1>1, <1>2, <2>1, <2>2 DEF GetSum
<1>16. QED BY <1>12, <1>13, <1>14, <1>15

\* What the second pass knows of the walk.
LEMMA FetchingIs ==
  ASSUME Written, NEW x \in Reading, Fetching(x), NEW at, at = Walk(x.start)
  PROVE  \E e \in 0..maxslots, n \in 0..maxslots : \E S :
           /\ n = x.loops /\ n <= e /\ EndsAt(at, e) /\ Took(at, n, x.got)
           /\ Sums(at, e + 1, S) /\ x.sum = S[e + 1] /\ x.done = S[n]
           /\ S[n] \in Nat /\ S[n + 1] \in Nat /\ S[e + 1] \in Nat
           /\ S[n + 1] = S[n] + slots[x.at].size /\ S[n + 1] <= S[e + 1]
           /\ at[n] = x.at /\ at[n + 1] = slots[x.at].link
           /\ (at[n + 1] = -1 <=> n = e)
<1>1. slots \in Tables /\ x.at \in Slots /\ x.start \in Slots /\ x.loops \in 0..maxslots /\ maxslots \in Nat
  BY TableAssumption DEF Written, Tables, Reading
<1>2. Follows(slots, x.start, at)
  BY <1>1, WalkIs
<1>3. PICK e \in 0..maxslots :
        EndsAt(at, e) /\ x.loops <= e /\ \E S : Sums(at, e + 1, S) /\ x.sum = S[e + 1] /\ x.done = S[x.loops]
  BY DEF Fetching
<1>4. PICK S : Sums(at, e + 1, S) /\ x.sum = S[e + 1] /\ x.done = S[x.loops]
  BY <1>3
<1>5. PICK n \in 0..maxslots : n = x.loops
  BY <1>1
<1>6. n \in 0..(e + 1) /\ n + 1 \in 0..(e + 1) /\ n \in 0..e /\ e + 1 \in 0..(e + 1)
  BY <1>3, <1>5
<1>7. at[n] = x.at
  BY <1>5 DEF Fetching
<1>8. S[n] \in Nat /\ S[n + 1] \in Nat /\ S[e + 1] \in Nat /\ S[n + 1] <= S[e + 1]
      /\ S[n + 1] = S[n] + slots[x.at].size
  BY <1>4, <1>6, <1>7 DEF Sums
<1>9. at[n + 1] = slots[x.at].link
  BY <1>1, <1>2, <1>7 DEF Follows, Slots
<1>10. at[n + 1] = -1 <=> n = e
  <2>1. n = e => at[n + 1] = -1
    BY <1>3 DEF EndsAt
  <2>2. n # e => at[n + 1] # -1
    <3>1. n # e => n + 1 \in 0..e
      BY <1>6
    <3>2. \A m \in 0..e : at[m] \in Slots
      BY <1>2, <1>3, OneEnd
    <3>3. QED BY <3>1, <3>2 DEF Slots
  <2>3. QED BY <2>1, <2>2
<1>11. Took(at, n, x.got) /\ n <= e
  BY <1>3, <1>5 DEF Fetching
<1>12. QED BY <1>3, <1>4, <1>5, <1>7, <1>8, <1>9, <1>10, <1>11

\* One turn of the second pass: a slot's size, ...
LEMMA GetSizeCalm ==
  ASSUME Written, Sound, RInv, NEW r \in Readers, GetSize(r), Calm(rpc[r], rd[r])
  PROVE  Calm(rpc'[r], rd'[r])
<1>1. PICK x : x = rd[r]
  OBVIOUS
<1>2. PICK size : size = slots[x.at].size
  OBVIOUS
<1>3. /\ rpc[r] = "size" /\ x \in Reading /\ rd \in [Readers -> Reading] /\ slots \in Tables
      /\ x.start \in Slots /\ rpc \in [Readers -> ReaderLabels] /\ x.got \in Pieces
  BY <1>1 DEF GetSize, RInv, Read, Reading, Written, Tables, Pieces
<1>4. Sourced(x) /\ Fetching(x)
  BY <1>1, <1>3 DEF Calm
<1>5. PICK at : at = Walk(x.start)
  OBVIOUS
<1>6. PICK e \in 0..maxslots, n \in 0..maxslots : \E S :
        /\ n = x.loops /\ n <= e /\ EndsAt(at, e) /\ Took(at, n, x.got)
        /\ Sums(at, e + 1, S) /\ x.sum = S[e + 1] /\ x.done = S[n]
        /\ S[n] \in Nat /\ S[n + 1] \in Nat /\ S[e + 1] \in Nat
        /\ S[n + 1] = S[n] + size /\ S[n + 1] <= S[e + 1]
  BY <1>2, <1>3, <1>4, <1>5, FetchingIs
<1>7. PICK S :
        /\ n = x.loops /\ n <= e /\ EndsAt(at, e) /\ Took(at, n, x.got)
        /\ Sums(at, e + 1, S) /\ x.sum = S[e + 1] /\ x.done = S[n]
        /\ S[n] \in Nat /\ S[n + 1] \in Nat /\ S[e + 1] \in Nat
        /\ S[n + 1] = S[n] + size /\ S[n + 1] <= S[e + 1]
  BY <1>6
<1>8. CASE x.done >= x.sum /\ GotData(r, verifyShmValue(x.got))
  <2>1. PICK res : res = verifyShmValue(x.got)
    OBVIOUS
  <2>2. res \in Results
    BY <1>3, <2>1, VerifyType DEF Results, Pieces
  <2>3. S[n] >= S[e + 1] /\ n \in 0..(e + 1)
    BY <1>7, <1>8
  <2>4. \A k, v : v # None /\ verifyShmValue(Content(x.start)) = Result("kOk", k, v) =>
                    res = Result("kOk", k, v)
    BY <1>3, <1>5, <1>7, <2>1, <2>3, GotWhole
  <2>5. QED BY <1>1, <1>4, <1>8, <2>1, <2>2, <2>4, GotCalm
<1>9. CASE x.done < x.sum /\ x.done + size > x.sum
  <2>1. x.done + size <= x.sum /\ x.sum \in Nat /\ x.done + size \in Nat
    BY <1>7
  <2>2. QED BY <1>9, <2>1
<1>10. CASE rd' = [rd EXCEPT ![r].n = size] /\ RGoto(r, "copy")
  <2>1. PICK y : y = [x EXCEPT !.n = size]
    OBVIOUS
  <2>2. rpc' = [rpc EXCEPT ![r] = "copy"] /\ rd' = [rd EXCEPT ![r] = y]
    BY <1>1, <1>10, <2>1 DEF RGoto
  <2>3. rpc'[r] = "copy" /\ rd'[r] = y
    BY <1>3, <2>2
  <2>4. /\ y.n = size /\ y.at = x.at /\ y.loops = x.loops /\ y.sum = x.sum /\ y.done = x.done
        /\ y.got = x.got /\ y.start = x.start
        /\ y.call = x.call /\ y.key = x.key /\ y.idx = x.idx /\ y.seen = x.seen
    BY <1>3, <2>1 DEF Reading
  <2>5. Fetching(y)
    BY <1>4, <2>4 DEF Fetching
  <2>6. Sourced(y)
    BY <1>4, <2>4, SourceStays
  <2>7. QED BY <1>2, <2>3, <2>4, <2>5, <2>6 DEF Calm
<1>11. \/ x.done >= x.sum /\ GotData(r, verifyShmValue(x.got))
       \/ x.done < x.sum /\ x.done + size > x.sum
       \/ rd' = [rd EXCEPT ![r].n = size] /\ RGoto(r, "copy")
  BY <1>1, <1>2 DEF GetSize
<1>12. QED BY <1>8, <1>9, <1>10, <1>11

\* ... and its bytes.
LEMMA GetCopyCalm ==
  ASSUME Written, Sound, RInv, NEW r \in Readers, GetCopy(r), Calm(rpc[r], rd[r])
  PROVE  Calm(rpc'[r], rd'[r])
<1>1. PICK x : x = rd[r]
  OBVIOUS
<1>2. PICK s : s = slots[x.at]
  OBVIOUS
<1>3. /\ rpc[r] = "copy" /\ x \in Reading /\ rd \in [Readers -> Reading] /\ slots \in Tables
      /\ x.start \in Slots /\ x.at \in Slots /\ rpc \in [Readers -> ReaderLabels] /\ x.got \in Pieces
      /\ x.loops \in 0..maxslots /\ maxslots \in Nat
  BY <1>1, TableAssumption DEF GetCopy, RInv, Read, Reading, Written, Tables, Pieces
<1>4. Sourced(x) /\ Fetching(x) /\ x.n = s.size
  BY <1>1, <1>2, <1>3 DEF Calm
<1>5. PICK at : at = Walk(x.start)
  OBVIOUS
<1>6. PICK e \in 0..maxslots, n \in 0..maxslots : \E S :
        /\ n = x.loops /\ n <= e /\ EndsAt(at, e) /\ Took(at, n, x.got)
        /\ Sums(at, e + 1, S) /\ x.sum = S[e + 1] /\ x.done = S[n]
        /\ S[n] \in Nat /\ S[n + 1] \in Nat /\ S[e + 1] \in Nat
        /\ S[n + 1] = S[n] + s.size /\ S[n + 1] <= S[e + 1]
        /\ at[n] = x.at /\ at[n + 1] = s.link
        /\ (at[n + 1] = -1 <=> n = e)
  BY <1>2, <1>3, <1>4, <1>5, FetchingIs
<1>7. PICK S :
        /\ n = x.loops /\ n <= e /\ EndsAt(at, e) /\ Took(at, n, x.got)
        /\ Sums(at, e + 1, S) /\ x.sum = S[e + 1] /\ x.done = S[n]
        /\ S[n] \in Nat /\ S[n + 1] \in Nat /\ S[e + 1] \in Nat
        /\ S[n + 1] = S[n] + s.size /\ S[n + 1] <= S[e + 1]
        /\ at[n] = x.at /\ at[n + 1] = s.link
        /\ (at[n + 1] = -1 <=> n = e)
  BY <1>6
<1>8. s.size \in Nat /\ s.link \in Index /\ s.data \in Bytes
  <2>1. s \in Slot
    BY <1>2, <1>3 DEF Tables
  <2>2. QED BY <2>1, TableAssumption DEF Slot, Size
<1>9. PICK got : got = IF x.n = 0 THEN x.got ELSE Append(x.got, [data |-> s.data, n |-> x.n])
  OBVIOUS
<1>10. got \in Pieces /\ Took(at, n + 1, got)
  <2>1. [data |-> s.data, n |-> x.n] = Piece(at[n])
    BY <1>2, <1>4, <1>7 DEF Piece
  <2>2. got = IF slots[at[n]].size = 0 THEN x.got ELSE Append(x.got, Piece(at[n]))
    BY <1>2, <1>4, <1>7, <1>9, <2>1
  <2>3. Took(at, n + 1, got)
    <3>1. n \in Nat /\ at[n] \in Slots /\ Took(at, n, x.got)
      BY <1>3, <1>7
    <3>2. QED BY <1>3, <2>2, <3>1, TookMore
  <2>4. PICK p : p = [data |-> s.data, n |-> x.n]
    OBVIOUS
  <2>5. p \in [data : Bytes, n : Nat]
    BY <1>4, <1>8, <2>4
  <2>6. got \in Pieces
    BY <1>3, <1>9, <2>4, <2>5, AppendProperties DEF Pieces
  <2>7. QED BY <2>3, <2>6
<1>11. CASE s.link = -1 /\ GotData(r, verifyShmValue(got))
  <2>1. PICK res : res = verifyShmValue(got)
    OBVIOUS
  <2>2. res \in Results
    BY <1>10, <2>1, VerifyType DEF Results, Pieces
  <2>3. Took(at, e + 1, got) /\ e + 1 \in 0..(e + 1)
    BY <1>7, <1>10, <1>11
  <2>4. S[e + 1] >= S[e + 1]
    BY <1>7
  <2>5. \A k, v : v # None /\ verifyShmValue(Content(x.start)) = Result("kOk", k, v) =>
                    res = Result("kOk", k, v)
    BY <1>3, <1>5, <1>7, <1>10, <2>1, <2>3, <2>4, GotWhole
  <2>6. QED BY <1>1, <1>4, <1>11, <2>1, <2>2, <2>5, GotCalm
<1>12. CASE s.link # -1 /\ TooLong(x.loops)
  <2>1. n = maxslots /\ n = e
    BY <1>3, <1>7, <1>12 DEF TooLong
  <2>2. QED BY <1>7, <1>12, <2>1
<1>13. CASE /\ s.link # -1 /\ ~TooLong(x.loops) /\ RGoto(r, "size")
            /\ rd' = [rd EXCEPT ![r].at = s.link, ![r].loops = @ + 1,
                                ![r].done = @ + rd[r].n, ![r].got = got]
  <2>1. PICK link, m, done : link = s.link /\ m = n + 1 /\ done = x.done + x.n
    OBVIOUS
  <2>2. PICK y : y = [x EXCEPT !.at = link, !.loops = m, !.done = done, !.got = got]
    OBVIOUS
  <2>3. rpc' = [rpc EXCEPT ![r] = "size"] /\ rd' = [rd EXCEPT ![r] = y]
    <3>1. [rd EXCEPT ![r].at = link][r].loops = x.loops
      BY <1>1, <1>3 DEF Reading
    <3>2. [rd EXCEPT ![r].at = link, ![r].loops = m][r].done = x.done
      BY <1>1, <1>3 DEF Reading
    <3>3. rd' = [rd EXCEPT ![r].at = link, ![r].loops = m, ![r].done = done, ![r].got = got]
      BY <1>1, <1>7, <1>13, <2>1, <3>1, <3>2
    <3>4. QED BY <1>1, <1>13, <2>2, <3>3 DEF RGoto
  <2>4. rpc'[r] = "size" /\ rd'[r] = y
    BY <1>3, <2>3
  <2>5. /\ y.at = link /\ y.loops = m /\ y.sum = x.sum /\ y.done = done /\ y.got = got
        /\ y.start = x.start
        /\ y.call = x.call /\ y.key = x.key /\ y.idx = x.idx /\ y.seen = x.seen
    BY <1>3, <2>2 DEF Reading
  <2>6. m <= e /\ y.done = S[m] /\ y.at = at[m]
    <3>1. n # e
      BY <1>7, <1>13
    <3>2. QED BY <1>4, <1>7, <2>1, <2>5, <3>1
  <2>7. Fetching(y)
    <3>1. EndsAt(at, e) /\ y.loops <= e /\ Sums(at, e + 1, S) /\ y.sum = S[e + 1] /\ y.done = S[y.loops]
      BY <1>7, <2>5, <2>6
    <3>2. y.at = at[y.loops] /\ Took(at, y.loops, y.got) /\ at = Walk(y.start)
      BY <1>5, <1>10, <2>1, <2>5, <2>6
    <3>3. QED BY <3>1, <3>2 DEF Fetching
  <2>8. Sourced(y)
    BY <1>4, <2>5, SourceStays
  <2>9. QED BY <2>4, <2>7, <2>8 DEF Calm
<1>14. \/ s.link = -1 /\ GotData(r, verifyShmValue(got))
       \/ s.link # -1 /\ TooLong(x.loops)
       \/ /\ s.link # -1 /\ ~TooLong(x.loops) /\ RGoto(r, "size")
          /\ rd' = [rd EXCEPT ![r].at = s.link, ![r].loops = @ + 1,
                              ![r].done = @ + rd[r].n, ![r].got = got]
  BY <1>1, <1>2, <1>9 DEF GetCopy
<1>15. QED BY <1>11, <1>12, <1>13, <1>14

\* A call begins.
LEMMA ListedNone == Listed(<< >>, 0)
<1>1. \A i \in Slots : ~(i < 0)
  BY DEF Slots
<1>2. DOMAIN << >> = {}
  OBVIOUS
<1>3. QED BY <1>1, <1>2 DEF Listed

LEMMA RBeginCalm ==
  ASSUME RInv, NEW r \in Readers, Traverse(r) \/ \E k \in Keys : Get(r, k) \/ Exist(r, k)
  PROVE  Calm(rpc'[r], rd'[r])
<1>1. PICK call \in {"get", "exist", "traverse"}, k \in Keys \cup {None}, l \in {"lead", "slot"} :
        RBegin(r, call, k, l) /\ (l = "lead" => k # None)
  <2>1. \A k \in Keys : k # None
    BY TableAssumption
  <2>2. CASE Traverse(r)
    <3>1. RBegin(r, "traverse", None, "slot") /\ "slot" # "lead"
      BY <2>2 DEF Traverse
    <3>2. QED BY <3>1
  <2>3. CASE \E k \in Keys : Get(r, k) \/ Exist(r, k)
    <3>1. PICK k \in Keys : RBegin(r, "get", k, "lead") \/ RBegin(r, "exist", k, "lead")
      BY <2>3 DEF Get, Exist
    <3>2. QED BY <2>1, <3>1
  <2>4. QED BY <2>2, <2>3
<1>2. PICK at : at = IF k = None THEN 0 ELSE Hash[k]
  OBVIOUS
<1>3. PICK x : x = [NoRead EXCEPT !.call = call, !.key = k, !.at = at]
  OBVIOUS
<1>4. rpc' = [rpc EXCEPT ![r] = l] /\ rd' = [rd EXCEPT ![r] = x]
  BY <1>1, <1>2, <1>3 DEF RBegin, RGoto
<1>5. rpc'[r] = l /\ rd'[r] = x
  BY <1>4 DEF RInv, Read
<1>6. /\ x.key = k /\ x.at = at /\ x.n = 0 /\ x.seen = << >> /\ x.idx = 0
      /\ x.sum = 0 /\ x.done = 0 /\ x.loops = 0 /\ x.got = << >>
  BY <1>3 DEF NoRead
<1>7. CASE l = "lead"
  <2>1. x.at = Hash[x.key]
    BY <1>1, <1>2, <1>6, <1>7
  <2>2. QED BY <1>5, <1>6, <1>7, <2>1 DEF Calm, Fresh
<1>8. CASE l = "slot"
  <2>1. Listed(x.seen, x.idx)
    BY <1>6, ListedNone
  <2>2. QED BY <1>5, <1>6, <1>8, <2>1 DEF Calm, Fresh
<1>9. QED BY <1>7, <1>8

\* Without the key get and exist say so.
LEMMA NotThere ==
  ASSUME RInv, NEW r \in Readers, RReturn(r, NotFound), rpc[r] \in {"lead", "scan"},
         get_idx(rd[r].key) = -1
  PROVE  Calm(rpc'[r], rd'[r])
<1>1. rd[r].key \in Keys /\ rd[r].call \in {"get", "exist"}
  BY DEF RInv, Asked
<1>2. PICK y : y = rd'[r]
  OBVIOUS
<1>3. rpc'[r] = "idle" /\ y.res = NotFound /\ y.call \in {"get", "exist"} /\ y.key = rd[r].key
  BY <1>1, <1>2, ReturnLocals
<1>4. y.key \notin DOMAIN View
  BY <1>1, <1>3, ViewHas
<1>5. GetAnswer(y) /\ ExistAnswer(y)
  BY <1>3, <1>4 DEF GetAnswer, ExistAnswer
<1>6. Calm("idle", y)
  BY <1>3, <1>5, IdleCalm
<1>7. QED BY <1>2, <1>3, <1>6

LEMMA GetLeadCalm ==
  ASSUME Written, RInv, NEW r \in Readers, GetLead(r), Calm(rpc[r], rd[r])
  PROVE  Calm(rpc'[r], rd'[r])
<1>1. PICK x : x = rd[r]
  OBVIOUS
<1>2. /\ rpc[r] = "lead" /\ x.key \in Keys /\ Fresh(x) /\ x.at = Hash[x.key] /\ x.n = 0
      /\ slots \in Tables /\ Hash[x.key] \in Slots
  BY <1>1, TableAssumption DEF GetLead, RInv, Asked, Calm, Written, Tables
<1>3. CASE RGoto(r, "scan") /\ UNCHANGED rd
  <2>1. rpc'[r] = "scan" /\ rd'[r] = x
    BY <1>1, <1>3 DEF RGoto, RInv, Read
  <2>2. Scanned(x)
    <3>1. Passed(Hash[x.key], x.at) = {} /\ Cardinality(Passed(Hash[x.key], x.at)) = 0
      BY <1>2, PassedIs, FS_EmptySet
    <3>2. QED BY <1>2, <3>1 DEF Scanned
  <2>3. QED BY <1>2, <2>1, <2>2 DEF Calm
<1>4. CASE ~(slots[x.at].count > 0) /\ RReturn(r, NotFound)
  <2>1. get_idx(x.key) = -1
    BY <1>2, <1>4, NoLead
  <2>2. QED BY <1>1, <1>2, <1>4, <2>1, NotThere
<1>5. QED BY <1>1, <1>3, <1>4 DEF GetLead

\* One turn of the scan.
LEMMA GetScanCalm ==
  ASSUME Written, RInv, NEW r \in Readers, GetScan(r), Calm(rpc[r], rd[r])
  PROVE  Calm(rpc'[r], rd'[r])
<1>1. PICK x : x = rd[r]
  OBVIOUS
<1>2. PICK h, i, k : h = Hash[x.key] /\ i = x.at /\ k = x.key
  OBVIOUS
<1>3. /\ rpc[r] = "scan" /\ k \in Keys /\ Fresh(x) /\ x \in Reading /\ rpc \in [Readers -> ReaderLabels]
      /\ slots \in Tables /\ h \in Slots /\ i \in Slots /\ h = Hash[k]
      /\ x.n = Cardinality(Passed(h, i)) /\ rd \in [Readers -> Reading]
      /\ \A j \in Passed(h, i) : slots[j].key # k
  BY <1>1, <1>2, TableAssumption DEF GetScan, RInv, Read, Reading, Asked, Calm, Scanned, Written, Tables
<1>4. PICK n \in Nat : n = x.n
  BY <1>3 DEF Reading
<1>5. CASE /\ n < slots[h].count /\ IsFirst(i, h) /\ slots[i].key = k
  <2>1. get_idx(k) = i
    BY <1>3, <1>4, <1>5, ScanHits
  <2>2. get_idx(k) # -1
    BY <1>3, <2>1 DEF Slots
  <2>3. CASE x.call = "exist" /\ RReturn(r, Exists)
    <3>1. PICK y : y = rd'[r]
      OBVIOUS
    <3>2. rpc'[r] = "idle" /\ y.res = Exists /\ y.call = "exist" /\ y.key = k
      BY <1>1, <1>2, <2>3, <3>1, ReturnLocals
    <3>3. ExistAnswer(y)
      BY <1>3, <2>2, <3>2, ViewHas DEF ExistAnswer
    <3>4. Calm("idle", y)
      BY <3>2, <3>3, IdleCalm
    <3>5. QED BY <3>1, <3>2, <3>4
  <2>4. CASE /\ x.call = "get" /\ RGoto(r, "sum")
             /\ rd' = [rd EXCEPT ![r].start = i, ![r].n = 0]
    <3>1. PICK y : y = [x EXCEPT !.start = i, !.n = 0]
      OBVIOUS
    <3>2. rpc' = [rpc EXCEPT ![r] = "sum"] /\ rd' = [rd EXCEPT ![r] = y]
      BY <1>1, <2>4, <3>1 DEF RGoto
    <3>3. rpc'[r] = "sum" /\ rd'[r] = y
      BY <1>3, <3>2
    <3>4. /\ y.start = i /\ y.at = i /\ y.call = "get" /\ y.key = k
          /\ y.sum = 0 /\ y.done = 0 /\ y.loops = 0 /\ y.got = << >>
      BY <1>2, <1>3, <2>4, <3>1 DEF Reading, Fresh
    <3>5. Sourced(y)
      BY <1>3, <2>1, <3>4 DEF Sourced
    <3>6. Walk(i)[0] = i
      BY <1>3, WalkIs DEF Follows
    <3>7. Summing(y)
      BY <3>4, <3>6, SumsNone DEF Summing
    <3>8. QED BY <3>3, <3>5, <3>7 DEF Calm
  <2>5. \/ x.call = "exist" /\ RReturn(r, Exists)
        \/ /\ x.call = "get" /\ RGoto(r, "sum")
           /\ rd' = [rd EXCEPT ![r].start = i, ![r].n = 0]
    BY <1>1, <1>2, <1>4, <1>5 DEF GetScan
  <2>6. QED BY <2>3, <2>4, <2>5
<1>6. CASE /\ ~(IsFirst(i, h) /\ slots[i].key = k) /\ After(i) # h /\ rpc' = rpc
           /\ rd' = [rd EXCEPT ![r].at = After(i), ![r].n = IF IsFirst(i, h) THEN @ + 1 ELSE @]
  <2>1. PICK at, m : at = After(i) /\ m = IF IsFirst(i, h) THEN n + 1 ELSE n
    OBVIOUS
  <2>2. PICK y : y = [x EXCEPT !.at = at, !.n = m]
    OBVIOUS
  <2>3. rd' = [rd EXCEPT ![r] = y]
    <3>1. [rd EXCEPT ![r].at = at][r].n = x.n
      BY <1>1, <1>3 DEF Reading
    <3>2. rd' = [rd EXCEPT ![r].at = at, ![r].n = m]
      BY <1>4, <1>6, <2>1, <3>1
    <3>3. QED BY <1>1, <2>2, <3>2
  <2>4. rpc'[r] = "scan" /\ rd'[r] = y
    BY <1>3, <1>6, <2>3
  <2>5. /\ y.at = at /\ y.n = m /\ y.key = k /\ Fresh(y)
    BY <1>2, <1>3, <2>2 DEF Reading, Fresh
  <2>6. m = Cardinality(Passed(h, at)) /\ \A j \in Passed(h, at) : slots[j].key # k
    BY <1>3, <1>4, <1>6, <2>1, PassedNext
  <2>7. Scanned(y)
    BY <1>3, <2>5, <2>6 DEF Scanned
  <2>8. QED BY <2>4, <2>5, <2>7 DEF Calm
<1>7. CASE /\ RReturn(r, NotFound)
           /\ ~(n < slots[h].count) \/ (~(IsFirst(i, h) /\ slots[i].key = k) /\ After(i) = h)
  <2>1. get_idx(k) = -1
    BY <1>3, <1>4, <1>7, ScanGivesUp, ScanIsThrough
  <2>2. QED BY <1>1, <1>2, <1>3, <1>7, <2>1, NotThere
<1>8. QED BY <1>1, <1>2, <1>4, <1>5, <1>6, <1>7 DEF GetScan, ScanEnds

\* A traversal looks at one slot.
LEMMA TravSlotCalm ==
  ASSUME Written, RInv, NEW r \in Readers, TravSlot(r), Calm(rpc[r], rd[r])
  PROVE  Calm(rpc'[r], rd'[r])
<1>1. PICK x : x = rd[r]
  OBVIOUS
<1>2. PICK i : i = x.idx
  OBVIOUS
<1>3. /\ rpc[r] = "slot" /\ x.call = "traverse" /\ Fresh(x) /\ x \in Reading /\ i \in Slots
      /\ rpc \in [Readers -> ReaderLabels] /\ rd \in [Readers -> Reading]
      /\ slots \in Tables /\ Listed(x.seen, i)
  BY <1>1, <1>2 DEF TravSlot, RInv, Read, Reading, Asked, Calm, Written, Tables
<1>4. CASE ~KeySlot(i) /\ Onward(r, x.seen)
  <2>1. Listed(x.seen, i + 1)
    BY <1>3, <1>4, ListedOn
  <2>2. QED BY <1>1, <1>2, <1>4, <2>1, OnwardCalm
<1>5. CASE /\ KeySlot(i) /\ RGoto(r, "sum")
           /\ rd' = [rd EXCEPT ![r].key = slots[i].key, ![r].at = i, ![r].start = i]
  <2>1. PICK k : k = slots[i].key
    OBVIOUS
  <2>2. PICK y : y = [x EXCEPT !.key = k, !.at = i, !.start = i]
    OBVIOUS
  <2>3. rpc' = [rpc EXCEPT ![r] = "sum"] /\ rd' = [rd EXCEPT ![r] = y]
    BY <1>1, <1>5, <2>1, <2>2 DEF RGoto
  <2>4. rpc'[r] = "sum" /\ rd'[r] = y
    BY <1>3, <2>3
  <2>5. /\ y.key = k /\ y.start = i /\ y.at = i /\ y.idx = i /\ y.call = "traverse" /\ y.seen = x.seen
        /\ y.sum = 0 /\ y.done = 0 /\ y.loops = 0 /\ y.got = << >>
    BY <1>2, <1>3, <2>2 DEF Reading, Fresh
  <2>6. Sourced(y)
    BY <1>3, <1>5, <2>1, <2>5 DEF Sourced
  <2>7. Walk(i)[0] = i
    BY <1>3, WalkIs DEF Follows
  <2>8. Summing(y)
    BY <2>5, <2>7, SumsNone DEF Summing
  <2>9. QED BY <2>4, <2>6, <2>8 DEF Calm
<1>6. QED BY <1>1, <1>2, <1>4, <1>5 DEF TravSlot

-------------------------------------------------------------------------------
(* The theorems.                                                           *)

\* Between the writer's calls the table is sound, unless it has died in one.
LEMMA IdleSound ==
  ASSUME LInv, TInv, wpc = "idle"
  PROVE  Sound
BY DEF LInv, SInv, TInv, VInv, Quiet, Sound

\* No reader's call is calm any more once the writer is in a call.
LEMMA NoneCalm ==
  ASSUME CInv, wpc # "idle", during' = during
  PROVE  CInv'
BY DEF CInv

\* A step of r's call beside an idle writer.
LEMMA RStepCalm ==
  ASSUME Written, Sound, RInv, NEW r \in Readers, RStep(r), Calm(rpc[r], rd[r])
  PROVE  Calm(rpc'[r], rd'[r])
BY GetLeadCalm, GetScanCalm, TravSlotCalm, GetSumCalm, GetSizeCalm, GetCopyCalm DEF RStep

\* The other readers' calls stay calm.
LEMMA OthersCalm ==
  ASSUME CInv, NEW r \in Readers, Only(r), UNCHANGED <<table, writer>>, wpc = "idle",
         \A q \in Readers \ {r} : during'[q] = during[q],
         during'[r] = "calm" => Calm(rpc'[r], rd'[r])
  PROVE  CInv'
<1>1. slots' = slots /\ crashes' = crashes /\ wpc' = "idle"
  BY DEF table, writer
<1>2. ASSUME NEW q \in Readers, during'[q] = "calm" PROVE Calm(rpc'[q], rd'[q])
  <2>1. CASE q = r
    BY <1>2, <2>1
  <2>2. CASE q # r
    <3>1. during[q] = "calm" /\ rpc'[q] = rpc[q] /\ rd'[q] = rd[q]
      BY <1>2, <2>2 DEF Only
    <3>2. Calm(rpc[q], rd[q])
      BY <3>1 DEF CInv
    <3>3. QED BY <3>1, <3>2
  <2>3. QED BY <2>1, <2>2
<1>3. QED BY <1>1, <1>2, CalmNext

LEMMA InitCalm == ASSUME Init PROVE CInv
BY DEF Init, CInv

LEMMA NextCalm ==
  ASSUME QInv, LInv, TInv, CInv, [Next]_vars
  PROVE  CInv'
<1>0. WInv /\ RInv /\ Written
  BY DEF QInv, WInv
<1>1. CASE Clear \/ \E k \in Keys : Remove(k) \/ \E v \in Values : Put(k, v)
  <2>1. PICK op, k, v : Begin(op, k, v)
    BY <1>1 DEF Clear, Remove, Put
  <2>2. \A r \in Readers : during'[r] # "calm"
    BY <2>1 DEF Begin
  <2>3. QED BY <2>2 DEF CInv
<1>2. CASE WStep
  <2>1. UNCHANGED readers
    BY <1>0, <1>2, WStepInv
  <2>2. wpc # "idle"
    BY <1>2 DEF WStep, ChoosePlace, Move, MoveFree, MoveLinks, PutCount, PutHash, PutKey, PutEnd,
         PutValue, PutSize, PutExt, PutExtHead, PutLink, PutLead, Undone, ChooseRemoval, RemCount,
         RemData, RemCopy, RemFree, RemLead, RemDone, ClrCounters, ClrSlots
  <2>3. QED BY <2>1, <2>2, NoneCalm DEF readers
<1>3. CASE Crash
  BY <1>3, NoneCalm DEF Crash, readers
<1>4. ASSUME NEW r \in Readers, RStep(r) PROVE CInv'
  <2>1. during' = during /\ UNCHANGED <<table, writer>>
    BY <1>4 DEF RStep, GetLead, GetScan, TravSlot, GetSum, GetSize, GetCopy, rest
  <2>2. CASE wpc # "idle"
    BY <2>1, <2>2, NoneCalm
  <2>3. CASE wpc = "idle"
    <3>1. Only(r)
      BY <1>0, <1>4, RStepStep DEF Stepped
    <3>2. during'[r] = "calm" => Calm(rpc'[r], rd'[r])
      <4>1. SUFFICES ASSUME during'[r] = "calm" PROVE Calm(rpc'[r], rd'[r])
        OBVIOUS
      <4>2. Calm(rpc[r], rd[r])
        BY <2>1, <4>1 DEF CInv
      <4>3. QED BY <1>0, <1>4, <2>3, <4>2, IdleSound, RStepCalm
    <3>3. QED BY <2>1, <2>3, <3>1, <3>2, OthersCalm
  <2>4. QED BY <2>2, <2>3
<1>5. ASSUME NEW r \in Readers, Traverse(r) \/ \E k \in Keys : Get(r, k) \/ Exist(r, k)
      PROVE  CInv'
  <2>1. /\ UNCHANGED <<table, writer>>
        /\ \E k : during' = [during EXCEPT ![r] =
             IF wpc = "idle" THEN "calm"
             ELSE IF k \in DOMAIN before /\ w.op # "clear" /\ w.key # k
             THEN "steady" ELSE "touched"]
    BY <1>5 DEF Traverse, Get, Exist, RBegin
  <2>2. during \in [Readers -> {"calm", "steady", "touched"}]
    BY <1>0 DEF RInv, Read
  <2>3. \A q \in Readers \ {r} : during'[q] = during[q]
    BY <2>1, <2>2
  <2>4. CASE wpc # "idle"
    <3>1. during'[r] # "calm"
      BY <2>1, <2>2, <2>4
    <3>2. \A q \in Readers : during'[q] # "calm"
      BY <2>3, <2>4, <3>1 DEF CInv
    <3>3. QED BY <3>2 DEF CInv
  <2>5. CASE wpc = "idle"
    <3>1. Only(r)
      BY <1>0, <1>5, RBeginInv
    <3>2. Calm(rpc'[r], rd'[r])
      BY <1>0, <1>5, RBeginCalm
    <3>3. QED BY <2>1, <2>3, <2>5, <3>1, <3>2, OthersCalm
  <2>6. QED BY <2>4, <2>5
<1>6. CASE UNCHANGED vars
  <2>1. CASE wpc # "idle"
    BY <1>6, <2>1, NoneCalm DEF vars, readers
  <2>2. CASE wpc = "idle"
    <3>1. slots' = slots /\ crashes' = crashes /\ wpc' = "idle"
          /\ during' = during /\ rpc' = rpc /\ rd' = rd
      BY <1>6, <2>2 DEF vars, table, writer, readers
    <3>2. \A r \in Readers : during'[r] = "calm" => Calm(rpc'[r], rd'[r])
      BY <3>1 DEF CInv
    <3>3. QED BY <3>1, <3>2, CalmNext
  <2>3. QED BY <2>1, <2>2
<1>7. QED BY <1>1, <1>2, <1>3, <1>4, <1>5, <1>6 DEF Next

\* CInv holds in every reachable state.
THEOREM CalmInvariance == Spec => []CInv
<1>1. QInv /\ LInv /\ TInv /\ CInv /\ [Next]_vars => CInv'
  BY NextCalm
<1>2. Init => CInv
  BY InitCalm
<1>3. QED BY <1>1, <1>2, SlotInvariance, LinksInvariance, ValuesInvariance, PTL DEF Spec

\* A get or an exist during which the writer makes no call answers from what is
\* stored: the scan finds the key's slot among all slots of its hash, and the two
\* passes put its value together from all its slots, whatever moves and removals
\* came before, and also on a table that a crash left half-written, for the keys
\* it left whole.
THEOREM CalmReads == Spec => []CalmGet
<1>1. CInv => CalmGet
  BY DEF CInv, Calm, GetAnswer, ExistAnswer, CalmGet, Answered
<1>2. QED BY <1>1, CalmInvariance, PTL

\* A traversal's list has as many elements as keys.
LEMMA ListedCount ==
  ASSUME NEW seen \in Listing, \A i, j \in DOMAIN seen : seen[i].key = seen[j].key => i = j
  PROVE  Len(seen) = Cardinality({seen[i].key : i \in DOMAIN seen})
<1>1. PICK n \in Nat : n = Len(seen) /\ DOMAIN seen = 1..n
  BY LenProperties DEF Listing
<1>2. PICK S : S = {seen[i].key : i \in DOMAIN seen}
  OBVIOUS
<1> DEFINE f == [i \in 1..n |-> seen[i].key]
<1>3. f \in [1..n -> S] /\ (\A s \in S : \E i \in 1..n : f[i] = s)
      /\ \A i, j \in 1..n : f[i] = f[j] => i = j
  BY <1>1, <1>2
<1> HIDE DEF f
<1>4. f \in Bijection(1..n, S)
  BY <1>3 DEF Bijection, Injection, Surjection, IsInjective
<1>5. ExistsBijection(1..n, S)
  BY <1>4 DEF ExistsBijection
<1>6. IsFiniteSet(S) /\ Cardinality(S) = n
  BY <1>5, FS_CountingElements, FS_NatBijection
<1>7. QED BY <1>1, <1>2, <1>6

\* A traversal during which the writer makes no call lists every key that get
\* finds; in the table of a writer that has not died it lists nothing else, each
\* key once and with the value that get returns.
THEOREM CalmTraverses == Spec => []CalmTraversal
<1>1. QInv /\ LInv /\ TInv /\ CInv => CalmTraversal
  <2>1. SUFFICES ASSUME QInv, LInv, TInv, CInv, NEW r \in Readers, during[r] = "calm",
                        Answered(r, "traverse")
                 PROVE  LET seen == rd[r].seen
                            keys == {seen[i].key : i \in DOMAIN seen}
                        IN  /\ rd[r].res = Traversed => DOMAIN View \subseteq keys
                            /\ crashes = 0 =>
                                 /\ rd[r].res = Traversed
                                 /\ keys = DOMAIN View
                                 /\ Len(seen) = Cardinality(keys)
                                 /\ \A i \in DOMAIN seen : seen[i].val = View[seen[i].key]
    BY DEF CalmTraversal
  <2>2. PICK seen : seen = rd[r].seen
    OBVIOUS
  <2>3. PICK keys : keys = {seen[i].key : i \in DOMAIN seen}
    OBVIOUS
  <2>4. Written /\ seen \in Listing /\ wpc = "idle" /\ Sound
    <3>1. wpc = "idle" /\ rd[r] \in Reading /\ Written
      BY <2>1 DEF CInv, QInv, WInv, RInv, Read
    <3>2. QED BY <2>1, <2>2, <3>1, IdleSound DEF Reading, Listing
  <2>5. TraverseAnswer(rd[r])
    BY <2>1 DEF CInv, Calm, Answered
  <2>6. \/ rd[r].res = Traversed /\ Listed(seen, maxslots)
        \/ rd[r].res = TraversalFailed /\ crashes # 0
    BY <2>2, <2>5 DEF TraverseAnswer
  <2>7. rd[r].res = TraversalFailed => rd[r].res # Traversed
    BY DEF TraversalFailed, Traversed, Result
  <2>8. ASSUME Listed(seen, maxslots) PROVE DOMAIN View \subseteq keys
    <3>1. ASSUME NEW k \in DOMAIN View PROVE k \in keys
      <4>1. PICK i \in Slots : KeySlot(i) /\ slots[i].key = k
        BY <2>4, <3>1, KeyListed
      <4>2. i < maxslots
        BY <4>1, TableAssumption DEF Slots
      <4>3. \E j \in DOMAIN seen : seen[j].key = k
        BY <2>8, <4>1, <4>2 DEF Listed
      <4>4. QED BY <2>3, <4>3
    <3>2. QED BY <3>1
  <2>9. ASSUME crashes = 0
        PROVE  /\ rd[r].res = Traversed /\ keys = DOMAIN View
               /\ Len(seen) = Cardinality(keys)
               /\ \A i \in DOMAIN seen : seen[i].val = View[seen[i].key]
    <3>1. rd[r].res = Traversed /\ Listed(seen, maxslots)
      BY <2>6, <2>9
    <3>2. /\ \A j \in DOMAIN seen :
               /\ \E i \in Slots : i < maxslots /\ KeySlot(i) /\ seen[j].key = slots[i].key
               /\ seen[j].val = View[seen[j].key]
          /\ \A i, j \in DOMAIN seen : seen[i].key = seen[j].key => i = j
      BY <2>9, <3>1 DEF Listed
    <3>3. ASSUME NEW j \in DOMAIN seen PROVE seen[j].key \in DOMAIN View
      <4>1. PICK i \in Slots : KeySlot(i) /\ seen[j].key = slots[i].key
        BY <3>2
      <4>2. slots[i].key \in DOMAIN View
        BY <2>4, <2>9, <4>1, SlotReads DEF Sound
      <4>3. QED BY <4>1, <4>2
    <3>4. keys = DOMAIN View
      <4> HIDE DEF View
      <4>1. QED BY <2>3, <2>8, <3>1, <3>3
    <3>5. Len(seen) = Cardinality(keys)
      BY <2>3, <2>4, <3>2, ListedCount
    <3>6. QED BY <3>1, <3>2, <3>4, <3>5
  <2>10. QED BY <2>2, <2>3, <2>6, <2>7, <2>8, <2>9
<1>2. QED BY <1>1, SlotInvariance, LinksInvariance, ValuesInvariance, CalmInvariance, PTL

===============================================================================
