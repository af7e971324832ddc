-------------------------- MODULE QHashArrValuesProofs --------------------------
(***************************************************************************)
(* Proofs about what the slot table stores: to a writer that has not died  *)
(* in a call it is the bounded map of KVTable, whatever its keys hash to   *)
(* and wherever put and remove move their slots.                           *)
(***************************************************************************)
EXTENDS QHashArrLinksProofs, SumLemmas

-------------------------------------------------------------------------------
(* What a table holds.                                                     *)

\* The value byte behind a slot's last one.
End(s) == s.data.from + s.size

\* Each slot in use holds one chunk of a value, the slot it links to the next one
\* of the same put, and the last slot of a value its last bytes; only the slots of
\* X may lack what follows.
Spelled(T, X) ==
  \A i \in Busy(T) :
    LET d == T[i].data
    IN  /\ d.key \in Keys /\ d.val \in Values /\ d.from \in Nat /\ d.from < ValSize[d.val]
        /\ d = Chunk(d.key, d.val, d.from)
        /\ T[i].size = ChunkSize(d.val, d.from)
        /\ T[i].count # -2 => d.from = 0 /\ d.key = T[i].key
        /\ T[i].link # -1 => /\ End(T[i]) < ValSize[d.val]
                             /\ T[T[i].link].data = Chunk(d.key, d.val, End(T[i]))
        /\ T[i].link = -1 /\ i \notin X => End(T[i]) = ValSize[d.val]

\* The keys that have a first slot other than O, and their values, are those of m.
Stores(T, O, m) ==
  /\ m = [k \in {T[i].key : i \in Leading(T) \ O} |-> m[k]]
  /\ \A i \in Leading(T) \ O : m[T[i].key] = T[i].data.val

Holds(T, X, m) == Spelled(T, X) /\ Stores(T, {}, m)

-------------------------------------------------------------------------------
(* How single stores change what a table holds.                            *)

SameBytes(s, t) == t.data = s.data /\ t.size = s.size

\* Whatever is no part of the chunks and links of used slots does not matter.
AlikeBytes(T, U) == \A i \in Slots : T[i].count # 0 => SameBytes(T[i], U[i])

LEMMA AlikeSpelled ==
  ASSUME NEW T \in Tables, NEW U \in Tables, Alike(T, U), AlikeBytes(T, U),
         NEW O, NEW X, Linked(T, O), Spelled(T, X)
  PROVE  Spelled(U, X)
<1>1. Busy(U) = Busy(T)
  BY SlotIs DEF Alike, Busy
<1>2. \A i \in Busy(T) :
        /\ i \in Slots /\ U[i].data = T[i].data /\ U[i].size = T[i].size
        /\ U[i].link = T[i].link /\ U[i].key = T[i].key
        /\ U[i].count # -2 => T[i].count # -2
  BY DEF Alike, AlikeBytes, SameBytes, Busy, Keeps
<1>3. ASSUME NEW i \in Busy(T), T[i].link # -1
      PROVE  U[T[i].link].data = T[T[i].link].data
  <2>1. T[i].link \in Slots /\ T[T[i].link].count = -2
    BY <1>2, <1>3, SlotIs DEF Linked
  <2>2. T[i].link \in Busy(T)
    BY <2>1 DEF Busy
  <2>3. QED BY <1>2, <2>2
<1>4. QED BY <1>1, <1>2, <1>3 DEF Spelled, End

LEMMA AlikeStores ==
  ASSUME NEW T \in Tables, NEW U \in Tables, Alike(T, U), AlikeBytes(T, U), NEW O, NEW m,
         Stores(T, O, m)
  PROVE  Stores(U, O, m)
<1>1. Leading(U) = Leading(T)
  BY SlotIs DEF Alike, Leading
<1>2. \A i \in Leading(T) : U[i].key = T[i].key /\ U[i].data = T[i].data
  BY SlotIs DEF Alike, AlikeBytes, SameBytes, Keeps, Leading
<1>3. {U[i].key : i \in Leading(T) \ O} = {T[i].key : i \in Leading(T) \ O}
  BY <1>2
<1>4. QED BY <1>1, <1>2, <1>3 DEF Stores

\* The same slots, counted as before.
LEMMA SameAlike == ASSUME NEW T, NEW U, Same(T, U) PROVE Alike(T, U)
BY DEF Same, Alike

\* A key gets its first slot, with the first chunk of its value.
LEMMA LeadSpelled ==
  ASSUME NEW T \in Tables, NEW U \in Tables, Linked(T, {}), Spelled(T, {}),
         NEW x \in Slots, T[x].count = 0, Beside(T, U, x), AlikeBytes(T, U),
         NEW k \in Keys, NEW v \in Values, FirstOf(U, x, k),
         U[x].data = Chunk(k, v, 0), U[x].size = ChunkSize(v, 0)
  PROVE  Spelled(U, {x})
<1>1. \A i \in Busy(U) : i # x => i \in Busy(T)
  BY DEF Beside, Busy
<1>2. \A i \in Busy(T) :
        /\ i \in Slots /\ i # x /\ U[i].data = T[i].data /\ U[i].size = T[i].size
        /\ U[i].link = T[i].link /\ U[i].key = T[i].key /\ U[i].count = T[i].count
  BY DEF Beside, AlikeBytes, SameBytes, Busy, Keeps
<1>3. ASSUME NEW i \in Busy(T), T[i].link # -1
      PROVE  U[T[i].link].data = T[T[i].link].data
  <2>1. T[i].link \in Slots /\ T[T[i].link].count = -2
    BY <1>2, <1>3, SlotIs DEF Linked
  <2>2. T[i].link \in Busy(T)
    BY <2>1 DEF Busy
  <2>3. QED BY <1>2, <2>2
<1>4. \A i \in Busy(U) : i # x =>
        LET d == U[i].data
        IN  /\ d.key \in Keys /\ d.val \in Values /\ d.from \in Nat /\ d.from < ValSize[d.val]
            /\ d = Chunk(d.key, d.val, d.from)
            /\ U[i].size = ChunkSize(d.val, d.from)
            /\ U[i].count # -2 => d.from = 0 /\ d.key = U[i].key
            /\ U[i].link # -1 => /\ End(U[i]) < ValSize[d.val]
                                 /\ U[U[i].link].data = Chunk(d.key, d.val, End(U[i]))
            /\ U[i].link = -1 /\ i \notin {x} => End(U[i]) = ValSize[d.val]
  BY <1>1, <1>2, <1>3 DEF Spelled, End
<1>5. LET d == U[x].data
      IN  /\ d.key = k /\ d.val = v /\ d.from = 0 /\ d.from < ValSize[d.val]
          /\ d = Chunk(d.key, d.val, d.from)
          /\ U[x].size = ChunkSize(d.val, d.from)
          /\ U[x].link = -1 /\ U[x].key = k
  <2>1. Chunk(k, v, 0).key = k /\ Chunk(k, v, 0).val = v /\ Chunk(k, v, 0).from = 0
    BY DEF Chunk
  <2>2. ValSize[v] \in Nat \ {0}
    BY TableAssumption
  <2>3. QED BY <2>1, <2>2 DEF FirstOf
<1>6. QED BY <1>4, <1>5 DEF Spelled

Plus(m, k, v) == [j \in DOMAIN m \cup {k} |-> IF j = k THEN v ELSE m[j]]

LEMMA LeadStores ==
  ASSUME NEW T \in Tables, NEW U \in Tables, NEW m, Stores(T, {}, m),
         NEW x \in Slots, T[x].count = 0, Beside(T, U, x), AlikeBytes(T, U),
         NEW k \in Keys, FirstOf(U, x, k), k \notin DOMAIN m
  PROVE  Stores(U, {}, Plus(m, k, U[x].data.val))
<1> DEFINE n == [j \in DOMAIN m \cup {k} |-> IF j = k THEN U[x].data.val ELSE m[j]]
<1>1. Leading(U) = Leading(T) \cup {x} /\ x \notin Leading(T)
  BY SlotIs DEF Beside, Leading, FirstOf
<1>2. \A i \in Leading(T) : U[i].key = T[i].key /\ U[i].data = T[i].data
  BY <1>1, SlotIs DEF Beside, AlikeBytes, SameBytes, Keeps, Leading
<1>3. DOMAIN m = {T[i].key : i \in Leading(T)}
  BY DEF Stores
<1>4. DOMAIN n = {U[i].key : i \in Leading(U)}
  BY <1>1, <1>2, <1>3 DEF FirstOf
<1>5. n[k] = U[x].data.val /\ U[x].key = k
  BY DEF FirstOf
<1>6. \A i \in Leading(T) : n[U[i].key] = U[i].data.val
  BY <1>2, <1>3 DEF Stores
<1>7. n = [j \in DOMAIN n |-> n[j]] /\ Leading(U) \ {} = Leading(U)
  OBVIOUS
<1> HIDE DEF n
<1>8. \A i \in Leading(U) : n[U[i].key] = U[i].data.val
  BY <1>1, <1>5, <1>6
<1>9. Stores(U, {}, n)
  BY <1>4, <1>7, <1>8 DEF Stores
<1>10. QED BY <1>9 DEF n, Plus

\* A value gets another slot, with its next chunk.
LEMMA ExtendedSpelled ==
  ASSUME NEW T \in Tables, NEW U \in Tables, Linked(T, {}),
         NEW x \in Slots, T[x].count = 0, NEW p \in Busy(T), T[p].link = -1, Spelled(T, {p}),
         U[x].count = -2, U[x].link = -1,
         U[x].data = Chunk(T[p].data.key, T[p].data.val, End(T[p])),
         End(T[p]) \in Nat, End(T[p]) < ValSize[T[p].data.val],
         U[x].size = ChunkSize(T[p].data.val, End(T[p])),
         \A i \in Slots \ {x} :
           /\ U[i].count = T[i].count /\ U[i].key = T[i].key /\ SameBytes(T[i], U[i])
           /\ U[i].link = IF i = p THEN x ELSE T[i].link
  PROVE  Spelled(U, {x})
<1>1. \A i \in Busy(U) : i # x => i \in Busy(T)
  BY DEF Busy
<1>2. \A i \in Busy(T) :
        /\ i \in Slots /\ i # x /\ U[i].data = T[i].data /\ U[i].size = T[i].size
        /\ U[i].link = (IF i = p THEN x ELSE T[i].link)
        /\ U[i].key = T[i].key /\ U[i].count = T[i].count
  BY DEF SameBytes, Busy
<1>3. ASSUME NEW i \in Busy(T), T[i].link # -1
      PROVE  U[T[i].link].data = T[T[i].link].data /\ i # p
  <2>1. T[i].link \in Slots /\ T[T[i].link].count = -2
    BY <1>2, <1>3, SlotIs DEF Linked
  <2>2. T[i].link \in Busy(T)
    BY <2>1 DEF Busy
  <2>3. QED BY <1>2, <1>3, <2>2
<1>4. ASSUME NEW i \in Busy(U), i # x
      PROVE
        LET d == U[i].data
        IN  /\ d.key \in Keys /\ d.val \in Values /\ d.from \in Nat /\ d.from < ValSize[d.val]
            /\ d = Chunk(d.key, d.val, d.from)
            /\ U[i].size = ChunkSize(d.val, d.from)
            /\ U[i].count # -2 => d.from = 0 /\ d.key = U[i].key
            /\ U[i].link # -1 => /\ End(U[i]) < ValSize[d.val]
                                 /\ U[U[i].link].data = Chunk(d.key, d.val, End(U[i]))
            /\ U[i].link = -1 /\ i \notin {x} => End(U[i]) = ValSize[d.val]
  <2>1. i \in Busy(T) /\ x # -1
    BY <1>1, <1>4, SlotIs
  <2>2. CASE i = p
    <3>1. U[p].link = x /\ U[p].data = T[p].data /\ U[p].size = T[p].size /\ U[p].key = T[p].key
          /\ U[p].count = T[p].count
      BY <1>2
    <3>2. End(U[p]) = End(T[p])
      BY <3>1 DEF End
    <3>3. U[p].data = Chunk(T[p].data.key, T[p].data.val, T[p].data.from)
      BY <3>1 DEF Spelled
    <3>4. QED BY <2>1, <2>2, <3>1, <3>2 DEF Spelled
  <2>3. CASE i # p
    BY <1>2, <1>3, <2>1, <2>3 DEF Spelled, End
  <2>4. QED BY <2>2, <2>3
<1>5. LET d == U[x].data
      IN  /\ d.key \in Keys /\ d.val \in Values /\ d.from \in Nat /\ d.from < ValSize[d.val]
          /\ d = Chunk(d.key, d.val, d.from)
          /\ U[x].size = ChunkSize(d.val, d.from)
  <2>1. T[p].data.key \in Keys /\ T[p].data.val \in Values
    BY DEF Spelled
  <2>2. U[x].data.key = T[p].data.key /\ U[x].data.val = T[p].data.val /\ U[x].data.from = End(T[p])
    BY DEF Chunk
  <2>3. QED BY <2>1, <2>2
<1>6. QED BY <1>4, <1>5 DEF Spelled

LEMMA ExtendedStores ==
  ASSUME NEW T \in Tables, NEW U \in Tables, NEW m, Stores(T, {}, m),
         NEW x \in Slots, T[x].count = 0, U[x].count = -2,
         \A i \in Slots \ {x} :
           U[i].count = T[i].count /\ U[i].key = T[i].key /\ SameBytes(T[i], U[i])
  PROVE  Stores(U, {}, m)
<1>1. Leading(U) = Leading(T)
  BY SlotIs DEF Leading
<1>2. \A i \in Leading(T) : U[i].key = T[i].key /\ U[i].data = T[i].data
  BY SlotIs DEF SameBytes, Leading
<1>3. {U[i].key : i \in Leading(T) \ {}} = {T[i].key : i \in Leading(T) \ {}}
  BY <1>2
<1>4. QED BY <1>1, <1>2, <1>3 DEF Stores

\* A used slot moves, with its chunk, and its neighbours name it.
LEMMA RelocatedSpelled ==
  ASSUME NEW T \in Tables, NEW U \in Tables, Linked(T, {}), Spelled(T, {}),
         NEW from \in Busy(T), NEW to \in Slots, T[to].count = 0,
         U[from].count = 0,
         U[to].link = T[from].link, U[to].key = T[from].key, SameBytes(T[from], U[to]),
         U[to].count # -2 => T[from].count # -2,
         \A i \in Slots \ {from, to} :
           /\ U[i].count = T[i].count /\ U[i].key = T[i].key
           /\ U[i].link = IF T[from].count = -2 /\ i = T[from].hash THEN to ELSE T[i].link,
         \A i \in Slots \ {to} : SameBytes(T[i], U[i])
  PROVE  Spelled(U, {})
<1>0. from \in Slots /\ from # to /\ to # -1 /\ T[from].count # 0
  BY SlotIs DEF Busy
<1>1. \A i \in Busy(U) : i # to => i \in Busy(T) /\ i # from
  BY DEF Busy
<1>2. \A i \in Busy(T) :
        /\ i \in Slots /\ i # to /\ U[i].data = T[i].data /\ U[i].size = T[i].size
        /\ i # from => /\ U[i].link = (IF T[from].count = -2 /\ i = T[from].hash THEN to ELSE T[i].link)
                       /\ U[i].key = T[i].key /\ U[i].count = T[i].count
  BY <1>0 DEF SameBytes, Busy
<1>3. ASSUME NEW i \in Busy(T), T[i].link # -1
      PROVE  /\ T[i].link \in Busy(T) /\ U[T[i].link].data = T[T[i].link].data
             /\ T[i].link = from => T[from].count = -2 /\ T[from].hash = i
  <2>1. T[i].link \in Slots /\ T[T[i].link].count = -2 /\ T[T[i].link].hash = i
    BY <1>2, <1>3, SlotIs DEF Linked
  <2>2. T[i].link \in Busy(T)
    BY <2>1 DEF Busy
  <2>3. QED BY <1>2, <1>3, <2>1, <2>2
<1>4. U[to].data = T[from].data /\ U[to].size = T[from].size
  BY DEF SameBytes
<1>5. ASSUME NEW i \in Busy(U), i # to
      PROVE
        LET d == U[i].data
        IN  /\ d.key \in Keys /\ d.val \in Values /\ d.from \in Nat /\ d.from < ValSize[d.val]
            /\ d = Chunk(d.key, d.val, d.from)
            /\ U[i].size = ChunkSize(d.val, d.from)
            /\ U[i].count # -2 => d.from = 0 /\ d.key = U[i].key
            /\ U[i].link # -1 => /\ End(U[i]) < ValSize[d.val]
                                 /\ U[U[i].link].data = Chunk(d.key, d.val, End(U[i]))
            /\ U[i].link = -1 /\ i \notin {} => End(U[i]) = ValSize[d.val]
  <2>1. i \in Busy(T) /\ i # from
    BY <1>1, <1>5
  <2>2. CASE T[from].count = -2 /\ i = T[from].hash
    <3>1. T[i].link = from
      BY <2>1, <2>2 DEF Linked
    <3>2. from # -1
      BY <1>0, SlotIs
    <3>3. U[i].link = to /\ End(U[i]) = End(T[i])
      BY <1>2, <2>1, <2>2 DEF End
    <3>4. /\ End(T[i]) < ValSize[T[i].data.val]
          /\ T[from].data = Chunk(T[i].data.key, T[i].data.val, End(T[i]))
      BY <2>1, <3>1, <3>2 DEF Spelled
    <3>5. QED BY <1>0, <1>2, <1>4, <2>1, <3>3, <3>4 DEF Spelled
  <2>3. CASE ~(T[from].count = -2 /\ i = T[from].hash)
    <3>1. U[i].link = T[i].link /\ End(U[i]) = End(T[i])
      BY <1>2, <2>1, <2>3 DEF End
    <3>2. QED BY <1>2, <1>3, <2>1, <3>1 DEF Spelled
  <2>4. QED BY <2>2, <2>3
<1>6. LET d == U[to].data
      IN  /\ d.key \in Keys /\ d.val \in Values /\ d.from \in Nat /\ d.from < ValSize[d.val]
          /\ d = Chunk(d.key, d.val, d.from)
          /\ U[to].size = ChunkSize(d.val, d.from)
          /\ U[to].count # -2 => d.from = 0 /\ d.key = U[to].key
          /\ U[to].link # -1 => /\ End(U[to]) < ValSize[d.val]
                                /\ U[U[to].link].data = Chunk(d.key, d.val, End(U[to]))
          /\ U[to].link = -1 /\ to \notin {} => End(U[to]) = ValSize[d.val]
  <2>1. End(U[to]) = End(T[from])
    BY <1>4 DEF End
  <2>2. QED BY <1>3, <1>4, <2>1 DEF Spelled
<1>7. QED BY <1>5, <1>6 DEF Spelled

LEMMA RelocatedStores ==
  ASSUME NEW T \in Tables, NEW U \in Tables, NEW m, Stores(T, {}, m),
         NEW from \in Busy(T), NEW to \in Slots, T[to].count = 0,
         U[from].count = 0, U[to].key = T[from].key, SameBytes(T[from], U[to]),
         \/ U[to].count = T[from].count
         \/ U[to].count > 0 /\ T[from].count = -1,
         \A i \in Slots \ {from, to} :
           U[i].count = T[i].count /\ U[i].key = T[i].key /\ SameBytes(T[i], U[i])
  PROVE  Stores(U, {}, m)
<1>0. from \in Slots /\ from # to /\ to \notin Leading(T) /\ from \notin Leading(U)
  BY DEF Busy, Leading
<1>1. to \in Leading(U) <=> from \in Leading(T)
  BY <1>0, SlotIs DEF Leading
<1>2. \A i \in Slots \ {from, to} : i \in Leading(U) <=> i \in Leading(T)
  BY DEF Leading
<1>3. \A i \in Slots \ {from, to} : U[i].key = T[i].key /\ U[i].data = T[i].data
  BY DEF SameBytes
<1>4. U[to].key = T[from].key /\ U[to].data = T[from].data
  BY DEF SameBytes
<1>5. Leading(T) \subseteq Slots /\ Leading(U) \subseteq Slots
  BY DEF Leading
<1>6. {U[i].key : i \in Leading(U)} = {T[i].key : i \in Leading(T)}
  <2>1. ASSUME NEW i \in Leading(U) PROVE U[i].key \in {T[j].key : j \in Leading(T)}
    BY <1>0, <1>1, <1>2, <1>3, <1>4, <1>5
  <2>2. ASSUME NEW i \in Leading(T) PROVE T[i].key \in {U[j].key : j \in Leading(U)}
    BY <1>0, <1>1, <1>2, <1>3, <1>4, <1>5
  <2>3. QED BY <2>1, <2>2
<1>7. ASSUME NEW i \in Leading(U) PROVE m[U[i].key] = U[i].data.val
  <2>1. \A j \in Leading(T) : m[T[j].key] = T[j].data.val
    BY DEF Stores
  <2>2. CASE i = to
    BY <1>1, <1>4, <1>7, <2>1, <2>2
  <2>3. CASE i # to
    <3>1. i \in Leading(T) /\ U[i].key = T[i].key /\ U[i].data = T[i].data
      BY <1>0, <1>2, <1>3, <1>5, <1>7, <2>3
    <3>2. QED BY <2>1, <3>1
  <2>4. QED BY <2>2, <2>3
<1>8. Leading(T) \ {} = Leading(T) /\ Leading(U) \ {} = Leading(U)
  OBVIOUS
<1>9. QED BY <1>6, <1>7, <1>8 DEF Stores

\* The orphan is released, with its chunk.
LEMMA ReleasedSpelled ==
  ASSUME NEW T \in Tables, NEW U \in Tables, NEW o \in Busy(T), Linked(T, {o}), Frees(T, U, o),
         NEW X, Spelled(T, X)
  PROVE  Spelled(U, X)
<1>1. \A i \in Busy(U) : i \in Busy(T) /\ U[i] = T[i]
  BY DEF Frees, Busy
<1>2. \A i \in Busy(U) : U[i].link # -1 => U[U[i].link] = T[T[i].link]
  <2>1. \A i \in Busy(T) : i \in Slots /\ T[i].link # o
    BY DEF Linked, Busy
  <2>2. QED BY <1>1, <2>1, SlotIs DEF Frees
<1>3. QED BY <1>1, <1>2 DEF Spelled

LEMMA ReleasedStores ==
  ASSUME NEW T, NEW U, NEW o, NEW P, Frees(T, U, o), Leading(U) \ P = Leading(T) \ {o},
         NEW m, Stores(T, {o}, m)
  PROVE  Stores(U, P, m)
<1>1. \A i \in Leading(U) \ P : U[i] = T[i]
  BY DEF Frees, Leading
<1>2. {U[i].key : i \in Leading(T) \ {o}} = {T[i].key : i \in Leading(T) \ {o}}
  BY <1>1
<1>3. QED BY <1>1, <1>2 DEF Stores

\* The first slot of a key is taken off: the rest of the keys remain.
LEMMA OrphanedStores ==
  ASSUME NEW T, Placed(T, {}), NEW o \in Leading(T), NEW m, Stores(T, {}, m)
  PROVE  /\ Stores(T, {o}, [k \in DOMAIN m \ {T[o].key} |-> m[k]])
         /\ T[o].key \in DOMAIN m
<1> DEFINE n == [k \in DOMAIN m \ {T[o].key} |-> m[k]]
<1>1. DOMAIN m = {T[i].key : i \in Leading(T)} /\ \A i \in Leading(T) : m[T[i].key] = T[i].data.val
  BY DEF Stores
<1>2. \A i \in Leading(T) \ {o} : T[i].key # T[o].key
  BY DEF Placed
<1>3. DOMAIN n = {T[i].key : i \in Leading(T) \ {o}}
  BY <1>1, <1>2
<1>4. \A i \in Leading(T) \ {o} : n[T[i].key] = T[i].data.val
  BY <1>1, <1>2
<1>5. n = [k \in DOMAIN n |-> n[k]]
  OBVIOUS
<1> HIDE DEF n
<1>6. Stores(T, {o}, n)
  BY <1>3, <1>4, <1>5 DEF Stores
<1>7. QED BY <1>1, <1>6 DEF n

\* A table holds one thing.
LEMMA StoresOne ==
  ASSUME NEW T, NEW O, NEW m, NEW n, Stores(T, O, m), Stores(T, O, n)
  PROVE  m = n
<1> DEFINE D == {T[i].key : i \in Leading(T) \ O}
<1>1. \A k \in D : m[k] = n[k]
  BY DEF Stores
<1>2. m = [k \in D |-> m[k]] /\ n = [k \in D |-> n[k]]
  BY DEF Stores
<1> HIDE DEF D
<1>3. [k \in D |-> m[k]] = [k \in D |-> n[k]]
  BY <1>1
<1>4. QED BY <1>2, <1>3

-------------------------------------------------------------------------------
(* The chunks of a value.                                                  *)

Numbers == Nat \ {0}

\* Products of naturals.
LEMMA ProductGrows ==
  ASSUME NEW a \in Nat, NEW b \in Nat, NEW e \in Numbers
  PROVE  /\ a * e \in Nat /\ (a + 1) * e = a * e + e /\ a <= a * e
         /\ a < b => a * e + e <= b * e
<1>1. a * e \in Nat /\ b * e \in Nat /\ (a + 1) * e = a * e + e
  BY DEF Numbers
<1>2. a <= a * e
  BY <1>1 DEF Numbers
<1>3. ASSUME a < b PROVE a * e + e <= b * e
  <2>1. PICK c \in Nat : b = a + 1 + c
    <3>1. b - a - 1 \in Nat /\ b = a + 1 + (b - a - 1)
      BY <1>3
    <3>2. QED BY <3>1
  <2>2. b * e = (a + 1) * e + c * e /\ c * e \in Nat /\ (a + 1) * e \in Nat
    BY <2>1 DEF Numbers
  <2>3. QED BY <1>1, <2>2
<1>4. QED BY <1>1, <1>2, <1>3

\* Where chunk j starts.
LEMMA ChunkFromIs ==
  ASSUME NEW j \in Numbers
  PROVE  /\ ChunkFrom(j) \in Nat /\ (ChunkFrom(j) = 0 <=> j = 1)
         /\ ChunkFrom(j + 1) = ChunkFrom(j) + (IF j = 1 THEN VALUESIZE ELSE EXTSIZE)
         /\ j <= ChunkFrom(j + 1)
<1>0. VALUESIZE \in Numbers /\ EXTSIZE \in Numbers /\ j \in Nat /\ j >= 1
  BY TableAssumption DEF Numbers
<1>1. CASE j = 1
  BY <1>0, <1>1 DEF ChunkFrom, Numbers
<1>2. CASE j # 1
  <2>1. j - 2 \in Nat /\ j + 1 # 1 /\ j + 1 - 2 = (j - 2) + 1
    BY <1>0, <1>2
  <2>2. PICK a : a = j - 2
    OBVIOUS
  <2>3. PICK p : p = a * EXTSIZE
    OBVIOUS
  <2>4. p \in Nat /\ (a + 1) * EXTSIZE = p + EXTSIZE /\ a <= p
    BY <1>0, <2>1, <2>2, <2>3, ProductGrows
  <2>5. ChunkFrom(j) = VALUESIZE + p
    BY <1>2, <2>2, <2>3 DEF ChunkFrom
  <2>5a. ChunkFrom(j + 1) = VALUESIZE + (a + 1) * EXTSIZE
    <3>1. PICK n : n = j + 1
      OBVIOUS
    <3>2. n # 1 /\ n - 2 = a + 1
      BY <1>0, <1>2, <2>2, <3>1
    <3>3. ChunkFrom(n) = VALUESIZE + (n - 2) * EXTSIZE
      BY <3>2 DEF ChunkFrom
    <3>4. ChunkFrom(n) = VALUESIZE + (a + 1) * EXTSIZE
      BY <3>2, <3>3, Zenon
    <3>5. QED BY <3>1, <3>4
  <2> HIDE DEF Numbers
  <2>6. VALUESIZE \in Nat /\ VALUESIZE >= 1 /\ EXTSIZE \in Nat /\ EXTSIZE >= 1
    BY <1>0 DEF Numbers
  <2>7. QED BY <1>0, <1>2, <2>2, <2>4, <2>5, <2>5a, <2>6
<1>3. QED BY <1>1, <1>2

\* Later chunks start further back.
LEMMA ChunkFromGrows ==
  ASSUME NEW i \in Numbers, NEW j \in Numbers, i < j
  PROVE  ChunkFrom(i) < ChunkFrom(j) /\ ChunkFrom(i + 1) <= ChunkFrom(j)
<1>0. VALUESIZE \in Nat /\ VALUESIZE >= 1 /\ EXTSIZE \in Numbers
  BY TableAssumption DEF Numbers
<1>1. i \in Nat /\ j \in Nat /\ i >= 1 /\ j >= 2 /\ j # 1 /\ i + 1 # 1
  BY DEF Numbers
<1>2. PICK a \in Nat, b \in Nat : a = i - 1 /\ b = j - 2 /\ a <= b
  BY <1>1
<1>3. PICK p, q : p = a * EXTSIZE /\ q = b * EXTSIZE
  OBVIOUS
<1>4. p \in Nat /\ q \in Nat /\ p <= q
  <2>1. p \in Nat /\ q \in Nat /\ (a < b => p + EXTSIZE <= q)
    BY <1>0, <1>3, ProductGrows
  <2>2. CASE a = b
    BY <1>3, <2>1, <2>2
  <2>3. CASE a < b
    BY <1>0, <2>1, <2>3 DEF Numbers
  <2>4. QED BY <1>2, <2>2, <2>3
<1>5. ChunkFrom(j) = VALUESIZE + q
  BY <1>1, <1>2, <1>3 DEF ChunkFrom
<1>6. ChunkFrom(i + 1) = VALUESIZE + p
  <2>1. (i + 1) - 2 = a
    BY <1>1, <1>2
  <2>2. QED BY <1>1, <1>3, <2>1 DEF ChunkFrom
<1>7. ChunkFrom(i) < ChunkFrom(i + 1)
  BY <1>0, ChunkFromIs DEF Numbers
<1>8. QED BY <1>0, <1>4, <1>5, <1>6, <1>7, ChunkFromIs

\* A chunk ends with the value, or where the next one starts.
LEMMA ChunkEnds ==
  ASSUME NEW v \in Values, NEW j \in Numbers, ChunkFrom(j) < ValSize[v],
         NEW e, e = ChunkFrom(j) + ChunkSize(v, ChunkFrom(j))
  PROVE  /\ e \in Nat /\ ChunkFrom(j) < e /\ e <= ValSize[v]
         /\ e < ValSize[v] => e = ChunkFrom(j + 1)
         /\ e = ValSize[v] => ValSize[v] <= ChunkFrom(j + 1)
<1>1. /\ ValSize[v] \in Nat /\ VALUESIZE \in Nat /\ VALUESIZE >= 1 /\ EXTSIZE \in Nat /\ EXTSIZE >= 1
  BY TableAssumption
<1>2. /\ ChunkFrom(j) \in Nat /\ (ChunkFrom(j) = 0 <=> j = 1)
      /\ ChunkFrom(j + 1) = ChunkFrom(j) + (IF j = 1 THEN VALUESIZE ELSE EXTSIZE)
  BY ChunkFromIs
<1> HIDE DEF ChunkFrom
<1>3. CASE j = 1
  BY <1>1, <1>2, <1>3 DEF ChunkSize, Smaller
<1>4. CASE j # 1
  BY <1>1, <1>2, <1>4 DEF ChunkSize, Smaller
<1>5. QED BY <1>3, <1>4

\* The number of a value's chunks.
LEMMA BlocksIs ==
  ASSUME NEW v \in Values
  PROVE  /\ BlocksOf[v] \in Numbers
         /\ ChunkFrom(BlocksOf[v]) < ValSize[v] /\ ValSize[v] <= ChunkFrom(BlocksOf[v] + 1)
         /\ \A j \in Numbers : ChunkFrom(j) < ValSize[v] <=> j <= BlocksOf[v]
<1>1. ValSize[v] \in Nat /\ ValSize[v] >= 1
  BY TableAssumption
<1> DEFINE Enough == {n \in Numbers : ValSize[v] <= ChunkFrom(n + 1)}
<1>2. ValSize[v] \in Enough /\ Enough \in SUBSET Nat
  BY <1>1, ChunkFromIs DEF Numbers
<1>3. PICK n \in Enough : \A m \in Enough : n <= m
  <2> HIDE DEF Enough
  <2>1. QED BY <1>2, LeastNat
<1>4. n \in 1..ValSize[v] /\ n \in Numbers
  BY <1>1, <1>2, <1>3 DEF Numbers
<1>5. ChunkFrom(n) < ValSize[v]
  <2>1. CASE n = 1
    BY <1>1, <2>1 DEF ChunkFrom
  <2>2. CASE n # 1
    <3>1. n - 1 \in Numbers /\ (n - 1) + 1 = n /\ n - 1 < n
      BY <1>4, <2>2 DEF Numbers
    <3>2. n - 1 \notin Enough
      BY <1>3, <1>4, <3>1 DEF Numbers
    <3>3. QED BY <1>1, <1>4, <3>1, <3>2, ChunkFromIs
  <2>3. QED BY <2>1, <2>2
<1> DEFINE b == BlocksOf[v]
<1>6. b = CHOOSE x \in 1..ValSize[v] : ChunkFrom(x) < ValSize[v] /\ ValSize[v] <= ChunkFrom(x + 1)
  BY DEF BlocksOf
<1>7. b \in 1..ValSize[v] /\ ChunkFrom(b) < ValSize[v] /\ ValSize[v] <= ChunkFrom(b + 1)
  <2>1. ChunkFrom(n) < ValSize[v] /\ ValSize[v] <= ChunkFrom(n + 1)
    BY <1>3, <1>5
  <2> HIDE DEF b
  <2>2. QED BY <1>4, <1>6, <2>1
<1>8. b \in Numbers
  BY <1>1, <1>7 DEF Numbers
<1> HIDE DEF b
<1>9. ASSUME NEW j \in Numbers PROVE ChunkFrom(j) < ValSize[v] <=> j <= b
  <2>1. ChunkFrom(j) \in Nat /\ ChunkFrom(b) \in Nat /\ ChunkFrom(b + 1) \in Nat /\ b + 1 \in Numbers
    BY <1>8, ChunkFromIs DEF Numbers
  <2>2. CASE j < b
    BY <1>1, <1>7, <1>8, <2>1, <2>2, ChunkFromGrows
  <2>3. CASE j = b
    BY <1>7, <1>8, <2>3 DEF Numbers
  <2>4. CASE b < j
    BY <1>1, <1>7, <1>8, <2>1, <2>4, ChunkFromGrows DEF Numbers
  <2>5. QED BY <1>8, <2>2, <2>3, <2>4 DEF Numbers
<1>10. QED BY <1>7, <1>8, <1>9 DEF b

-------------------------------------------------------------------------------
(* The slots of a key.                                                     *)

\* An extension slot holds the chunk behind that of the slot it hangs on.
LEMMA BehindIs ==
  ASSUME NEW T \in Tables, Linked(T, {}), NEW X, Spelled(T, X),
         NEW i \in Busy(T), T[i].count = -2
  PROVE  LET p == T[i].hash
         IN  /\ p \in Busy(T) /\ T[p].link = i /\ i # -1
             /\ T[i].data = Chunk(T[p].data.key, T[p].data.val, End(T[p]))
             /\ T[i].data.key = T[p].data.key /\ T[i].data.val = T[p].data.val
             /\ T[i].data.from = End(T[p]) /\ End(T[p]) < ValSize[T[p].data.val]
<1>1. T[i].hash \in Busy(T) /\ T[T[i].hash].link = i /\ i # -1
  BY SlotIs DEF Linked, Busy
<1>2. LET p == T[i].hash
      IN  /\ T[i].data = Chunk(T[p].data.key, T[p].data.val, End(T[p]))
          /\ End(T[p]) < ValSize[T[p].data.val]
  BY <1>1 DEF Spelled
<1>3. QED BY <1>1, <1>2 DEF Chunk

\* Slots in use that are no extension slots are first slots.
LEMMA BusyFirst ==
  ASSUME NEW T \in Tables
  PROVE  /\ \A i \in Busy(T) : i \in Slots /\ (T[i].count # -2 => i \in Leading(T))
         /\ \A i \in Leading(T) : i \in Busy(T) /\ T[i].count # -2
BY SlotIs DEF Busy, Leading

\* Every slot in use belongs to a key that has a first slot, and holds one of the
\* chunks of its value.
IsPiece(T, i, l, j) ==
  /\ T[l].data.key = T[i].data.key /\ T[l].data.val = T[i].data.val
  /\ T[i].data.from = ChunkFrom(j)

LEMMA Rooted ==
  ASSUME NEW T \in Tables, Linked(T, {}), NEW X, Spelled(T, X), NEW i \in Busy(T)
  PROVE  \E l \in Leading(T), j \in Numbers : IsPiece(T, i, l, j)
<1> DEFINE Bad == {x \in Busy(T) : ~\E l \in Leading(T), j \in Numbers : IsPiece(T, x, l, j)}
           F == {T[x].data.from : x \in Bad}
<1>1. SUFFICES ASSUME Bad # {} PROVE FALSE
  OBVIOUS
<1>2. F \in SUBSET Nat /\ F # {}
  BY <1>1 DEF Spelled
<1>3. PICK f \in F : \A g \in F : f <= g
  <2> HIDE DEF F
  <2>1. QED BY <1>2, LeastNat
<1>4. PICK x \in Busy(T) : x \in Bad /\ T[x].data.from = f
  BY <1>3
<1>4a. f \in Nat /\ \A y \in Bad : f <= T[y].data.from
  BY <1>2, <1>3
<1>4b. \A l \in Leading(T), j \in Numbers : ~IsPiece(T, x, l, j)
  BY <1>4
<1>4c. \A y \in Busy(T) : y \notin Bad => \E l \in Leading(T), j \in Numbers : IsPiece(T, y, l, j)
  OBVIOUS
<1> HIDE DEF Bad, F
<1>5. CASE T[x].count # -2
  <2>1. x \in Leading(T)
    BY <1>4, <1>5, BusyFirst
  <2>2. T[x].data.from = ChunkFrom(1) /\ 1 \in Numbers
    BY <1>4, <1>5 DEF Spelled, ChunkFrom, Numbers
  <2>3. QED BY <1>4b, <2>1, <2>2 DEF IsPiece
<1>6. CASE T[x].count = -2
  <2>1. PICK p \in Busy(T) :
          /\ T[x].data.key = T[p].data.key /\ T[x].data.val = T[p].data.val
          /\ T[x].data.from = End(T[p]) /\ End(T[p]) < ValSize[T[p].data.val]
    BY <1>4, <1>6, BehindIs
  <2>2. /\ T[p].data.val \in Values /\ T[p].data.from \in Nat
        /\ T[p].data.from < ValSize[T[p].data.val]
        /\ T[p].size = ChunkSize(T[p].data.val, T[p].data.from)
    BY DEF Spelled
  <2>3. T[p].data.from < f
    <3>1. T[p].size \in Nat /\ T[p].size > 0
      BY <2>2, ChunkSizeType
    <3>2. QED BY <1>4, <2>1, <2>2, <3>1 DEF End
  <2>4. p \notin Bad
    BY <1>4a, <2>2, <2>3
  <2>5. PICK l \in Leading(T), j \in Numbers : IsPiece(T, p, l, j)
    BY <1>4c, <2>4
  <2>6. End(T[p]) = ChunkFrom(j + 1) /\ j + 1 \in Numbers
    <3>1. T[p].data.from = ChunkFrom(j)
      BY <2>5 DEF IsPiece
    <3>2. End(T[p]) = ChunkFrom(j) + ChunkSize(T[p].data.val, ChunkFrom(j))
      BY <2>2, <3>1 DEF End
    <3>3. QED BY <2>1, <2>2, <3>1, <3>2, ChunkEnds DEF Numbers
  <2>7. IsPiece(T, x, l, j + 1)
    BY <2>1, <2>5, <2>6 DEF IsPiece
  <2>8. QED BY <1>4b, <2>6, <2>7
<1>7. QED BY <1>5, <1>6

\* The slots with a key's chunks.
Of(T, k) == {i \in Busy(T) : T[i].data.key = k}

\* Slot i holds chunk j of value v of key k.
LEMMA OfKey ==
  ASSUME NEW T \in Tables, Linked(T, {}), Placed(T, {}), NEW X, Spelled(T, X),
         NEW l \in Leading(T), NEW k, k = T[l].key, NEW i \in Of(T, k)
  PROVE  \E j \in Numbers :
           /\ T[i].data = Chunk(k, T[l].data.val, ChunkFrom(j))
           /\ T[i].data.val = T[l].data.val /\ T[i].data.from = ChunkFrom(j)
           /\ j <= BlocksOf[T[l].data.val]
<1>1. i \in Busy(T) /\ T[i].data.key = k
  BY DEF Of
<1>2. PICK r \in Leading(T), j \in Numbers : IsPiece(T, i, r, j)
  BY <1>1, Rooted
<1>3. T[r].data.key = T[r].key
  BY BusyFirst DEF Spelled
<1>4. r = l
  BY <1>1, <1>2, <1>3 DEF IsPiece, Placed
<1>5. /\ T[i].data = Chunk(T[i].data.key, T[i].data.val, T[i].data.from)
      /\ T[i].data.val \in Values /\ T[i].data.from < ValSize[T[i].data.val]
  BY <1>1 DEF Spelled
<1>6. j <= BlocksOf[T[l].data.val]
  BY <1>2, <1>4, <1>5, BlocksIs DEF IsPiece
<1>7. QED BY <1>1, <1>2, <1>4, <1>5, <1>6 DEF IsPiece

\* No chunk is stored twice.
LEMMA OnePiece ==
  ASSUME NEW T \in Tables, Linked(T, {}), Placed(T, {}), NEW X, Spelled(T, X),
         NEW l \in Leading(T), NEW k, k = T[l].key, NEW a \in Of(T, k), NEW b \in Of(T, k),
         T[a].data.from = T[b].data.from
  PROVE  a = b
<1> DEFINE Twin(x, y) == x # y /\ T[x].data.from = T[y].data.from
           Bad == {x \in Of(T, k) : \E y \in Of(T, k) : Twin(x, y)}
           F == {T[x].data.from : x \in Bad}
<1>1. SUFFICES ASSUME Bad # {} PROVE FALSE
  OBVIOUS
<1>2. F \in SUBSET Nat /\ F # {}
  BY <1>1 DEF Spelled, Of
<1>3. PICK f \in F : \A g \in F : f <= g
  <2> HIDE DEF F
  <2>1. QED BY <1>2, LeastNat
<1>4. PICK x \in Of(T, k), y \in Of(T, k) : Twin(x, y) /\ T[x].data.from = f
  BY <1>3
<1>5. \A z \in Of(T, k) : z \in Busy(T) /\ T[z].data.key = k /\ T[z].data.val = T[l].data.val
  BY OfKey DEF Of
<1>6. ASSUME NEW z \in Of(T, k), f = 0, T[z].data.from = f
      PROVE  z = l
  <2>1. T[z].count # -2
    <3>1. SUFFICES ASSUME T[z].count = -2 PROVE FALSE
      OBVIOUS
    <3>2. PICK p \in Busy(T) : T[z].data.from = End(T[p])
      BY <1>5, <3>1, BehindIs
    <3>3. /\ T[p].data.val \in Values /\ T[p].data.from \in Nat
          /\ T[p].data.from < ValSize[T[p].data.val]
          /\ T[p].size = ChunkSize(T[p].data.val, T[p].data.from)
      BY DEF Spelled
    <3>4. T[p].size \in Nat /\ T[p].size > 0
      BY <3>3, ChunkSizeType
    <3>5. QED BY <1>6, <3>2, <3>3, <3>4 DEF End
  <2>2. z \in Leading(T) /\ T[z].key = k
    BY <1>5, <2>1, BusyFirst DEF Spelled
  <2>3. QED BY <2>2 DEF Placed
<1>7. ASSUME NEW z \in Of(T, k), f # 0, T[z].data.from = f
      PROVE  LET p == T[z].hash
             IN  /\ p \in Of(T, k) /\ T[p].link = z /\ T[p].data.from < f
                 /\ \E j \in Numbers : T[p].data.from = ChunkFrom(j) /\ f = ChunkFrom(j + 1)
  <2>1. T[z].count = -2
    BY <1>5, <1>7 DEF Spelled
  <2>2. PICK p \in Busy(T) :
          /\ p = T[z].hash /\ T[p].link = z
          /\ T[z].data.key = T[p].data.key
          /\ T[z].data.from = End(T[p]) /\ End(T[p]) < ValSize[T[p].data.val]
    BY <1>5, <2>1, BehindIs
  <2>3. p \in Of(T, k)
    BY <1>5, <2>2 DEF Of
  <2>4. PICK j \in Numbers : T[p].data.from = ChunkFrom(j)
    BY <2>3, OfKey
  <2>5. /\ T[p].data.val \in Values /\ T[p].data.from < ValSize[T[p].data.val]
        /\ T[p].size = ChunkSize(T[p].data.val, T[p].data.from)
    BY DEF Spelled
  <2>6. End(T[p]) = ChunkFrom(j) + ChunkSize(T[p].data.val, ChunkFrom(j))
    BY <2>4, <2>5 DEF End
  <2>7. End(T[p]) = ChunkFrom(j + 1) /\ ChunkFrom(j) < End(T[p])
    BY <2>2, <2>4, <2>5, <2>6, ChunkEnds
  <2>8. QED BY <1>7, <2>2, <2>3, <2>4, <2>7
<1>8. CASE f = 0
  BY <1>4, <1>6, <1>8
<1>9. CASE f # 0
  <2>1. PICK p \in Of(T, k) :
          /\ p = T[x].hash /\ T[p].link = x /\ T[p].data.from < f
          /\ \E j \in Numbers : T[p].data.from = ChunkFrom(j) /\ f = ChunkFrom(j + 1)
    BY <1>4, <1>7, <1>9
  <2>2. PICK q \in Of(T, k) :
          /\ q = T[y].hash /\ T[q].link = y /\ T[q].data.from < f
          /\ \E j \in Numbers : T[q].data.from = ChunkFrom(j) /\ f = ChunkFrom(j + 1)
    BY <1>4, <1>7, <1>9
  <2>3. PICK i \in Numbers, j \in Numbers :
          /\ T[p].data.from = ChunkFrom(i) /\ f = ChunkFrom(i + 1)
          /\ T[q].data.from = ChunkFrom(j) /\ f = ChunkFrom(j + 1)
    BY <2>1, <2>2
  <2>4. i = j
    <3>1. i \in Nat /\ j \in Nat /\ i + 1 \in Numbers /\ j + 1 \in Numbers
      BY DEF Numbers
    <3>2. \A m, n \in Numbers : m < n => ChunkFrom(m) < ChunkFrom(n)
      BY ChunkFromGrows
    <3>3. ChunkFrom(i + 1) \in Nat /\ ChunkFrom(i + 1) = ChunkFrom(j + 1)
      BY <2>3, <3>1, ChunkFromIs
    <3>4. ~(i + 1 < j + 1) /\ ~(j + 1 < i + 1)
      BY <3>1, <3>2, <3>3
    <3>5. QED BY <3>1, <3>4
  <2>5. p # q
    BY <1>4, <2>1, <2>2
  <2>6. Twin(p, q)
    BY <2>3, <2>4, <2>5
  <2>7. T[p].data.from \in F
    BY <2>6
  <2>8. T[p].data.from \in Nat /\ f \in Nat /\ f <= T[p].data.from
    <3> HIDE DEF F
    <3>1. QED BY <1>2, <1>3, <2>7
  <2>9. QED BY <2>1, <2>8
<1>10. QED BY <1>8, <1>9

\* The slots f[1], ..., f[n] hold the first n chunks of value v of key k, each links
\* to the next, and no other slot holds a chunk of k.
IsChain(T, k, v, n, f) ==
  /\ f \in [1..n -> Of(T, k)]
  /\ \A j \in 1..n : /\ T[f[j]].data = Chunk(k, v, ChunkFrom(j))
                     /\ T[f[j]].link = IF j = n THEN -1 ELSE f[j + 1]
  /\ \A i \in Of(T, k) : \E j \in 1..n : i = f[j]

LEMMA ChainExists ==
  ASSUME NEW T \in Tables, Linked(T, {}), Placed(T, {}), NEW X, Spelled(T, X),
         NEW l \in Leading(T), NEW k, k = T[l].key, NEW v, v = T[l].data.val
  PROVE  \E n \in Numbers : \E f \in [1..n -> Of(T, k)] :
           /\ IsChain(T, k, v, n, f)
           /\ f[1] = l
           /\ n <= BlocksOf[v]
           /\ f[n] \notin X => n = BlocksOf[v]
<1> DEFINE J == {j \in Numbers : \E i \in Of(T, k) : T[i].data.from = ChunkFrom(j)}
           After1 == {m \in Numbers : m + 1 \notin J}
<1>1. \A i \in Of(T, k) : /\ i \in Busy(T) /\ T[i].data.key = k
                          /\ T[i].data.val = v /\ v \in Values
                          /\ T[i].data.from < ValSize[v]
                          /\ \E j \in J : T[i].data = Chunk(k, v, ChunkFrom(j)) /\ T[i].data.from = ChunkFrom(j)
  BY OfKey DEF Of, Spelled
<1>2. l \in Of(T, k) /\ T[l].data.from = ChunkFrom(1) /\ 1 \in J
  <2>1. l \in Busy(T) /\ T[l].data.key = k /\ T[l].data.from = 0
    BY BusyFirst DEF Spelled
  <2>2. QED BY <2>1 DEF Of, ChunkFrom, Numbers
<1>3. v \in Values /\ BlocksOf[v] \in Numbers
  BY <1>1, <1>2, BlocksIs
<1>4. \A j \in J : j \in Numbers /\ j <= BlocksOf[v]
  BY <1>1, <1>3, BlocksIs
\* The slot before a later chunk's holds the chunk before it.
<1>5. ASSUME NEW i \in Of(T, k), NEW j \in Numbers, T[i].data.from = ChunkFrom(j + 1)
      PROVE  \E p \in Of(T, k) : T[p].data.from = ChunkFrom(j) /\ T[p].link = i
  <2>1. j + 1 \in Numbers /\ j + 1 # 1
    BY DEF Numbers
  <2>2. T[i].data.from # 0
    BY <1>5, <2>1, ChunkFromIs
  <2>3. T[i].count = -2
    BY <1>1, <2>2 DEF Spelled
  <2>4. PICK p \in Busy(T) :
          /\ T[p].link = i /\ T[i].data.key = T[p].data.key
          /\ T[i].data.from = End(T[p]) /\ End(T[p]) < ValSize[T[p].data.val]
    BY <1>1, <2>3, BehindIs
  <2>5. p \in Of(T, k)
    BY <1>1, <2>4 DEF Of
  <2>6. PICK m \in Numbers : T[p].data.from = ChunkFrom(m)
    BY <1>1, <1>4, <2>5
  <2>7. T[p].size = ChunkSize(v, ChunkFrom(m)) /\ ChunkFrom(m) < ValSize[v]
    BY <1>1, <2>5, <2>6 DEF Spelled
  <2>8. End(T[p]) = ChunkFrom(m + 1)
    BY <1>1, <1>3, <2>4, <2>5, <2>6, <2>7, ChunkEnds DEF End
  <2>9. m = j
    <3>1. m \in Nat /\ j \in Nat /\ m + 1 \in Numbers /\ j + 1 \in Numbers
      BY DEF Numbers
    <3>2. \A x, y \in Numbers : x < y => ChunkFrom(x) < ChunkFrom(y)
      BY ChunkFromGrows
    <3>3. ChunkFrom(m + 1) \in Nat /\ ChunkFrom(m + 1) = ChunkFrom(j + 1)
      BY <1>5, <2>4, <2>8, <3>1, ChunkFromIs
    <3>4. ~(m + 1 < j + 1) /\ ~(j + 1 < m + 1)
      BY <3>1, <3>2, <3>3
    <3>5. QED BY <3>1, <3>4
  <2>10. QED BY <2>4, <2>5, <2>6, <2>9
<1>6. \A j \in Numbers : j + 1 \in J => j \in J
  BY <1>5
<1>7. BlocksOf[v] \in After1 /\ After1 \in SUBSET Nat
  BY <1>3, <1>4 DEF Numbers
<1>8. PICK n \in Numbers : n \in After1 /\ \A m \in After1 : n <= m
  <2>1. PICK n \in After1 : \A m \in After1 : n <= m
    <3> HIDE DEF After1
    <3>1. QED BY <1>7, LeastNat
  <2>2. QED BY <2>1
<1>9. n + 1 \notin J /\ \A m \in Numbers : m < n => m + 1 \in J
  BY <1>8 DEF Numbers
<1> HIDE DEF J, After1
<1>10. J = 1..n
  <2>1. \A j \in 1..n : j \in J
    <3>1. SUFFICES ASSUME NEW j \in 1..n PROVE j \in J
      OBVIOUS
    <3>2. CASE j = 1
      BY <1>2, <3>2
    <3>3. CASE j # 1
      <4>1. j - 1 \in Numbers /\ j - 1 < n /\ (j - 1) + 1 = j
        BY <3>3 DEF Numbers
      <4>2. QED BY <1>9, <4>1
    <3>4. QED BY <3>2, <3>3
  <2> DEFINE Far == {j \in J : n < j}
  <2>2. Far = {}
    <3>1. SUFFICES ASSUME Far # {} PROVE FALSE
      OBVIOUS
    <3>2. Far \in SUBSET Nat
      BY <1>4 DEF Numbers
    <3>3. PICK j \in Far : \A m \in Far : j <= m
      <4> HIDE DEF Far
      <4>1. QED BY <3>1, <3>2, LeastNat
    <3>4. j \in J /\ n < j /\ j \in Numbers /\ j # n + 1
      BY <1>4, <1>9, <3>3
    <3>5. j - 1 \in Numbers /\ (j - 1) + 1 = j /\ n < j - 1
      BY <3>4 DEF Numbers
    <3>6. j - 1 \in Far
      BY <1>6, <3>4, <3>5
    <3>7. QED BY <3>3, <3>5, <3>6 DEF Numbers
  <2>3. \A j \in J : j \in 1..n
    BY <1>4, <2>2 DEF Numbers
  <2>4. QED BY <2>1, <2>3
<1>11. n \in J /\ n <= BlocksOf[v] /\ n \in Nat /\ n >= 1
  BY <1>4, <1>10 DEF Numbers
<1> DEFINE f == [j \in 1..n |-> CHOOSE i \in Of(T, k) : T[i].data.from = ChunkFrom(j)]
<1>12. \A j \in 1..n : f[j] \in Of(T, k) /\ T[f[j]].data.from = ChunkFrom(j)
  <2>1. \A j \in 1..n : \E i \in Of(T, k) : T[i].data.from = ChunkFrom(j)
    BY <1>10 DEF J
  <2>2. QED BY <2>1
<1>13. f \in [1..n -> Of(T, k)]
  BY <1>12
<1> HIDE DEF f
<1>14. \A i \in Of(T, k), j \in 1..n : T[i].data.from = ChunkFrom(j) => i = f[j]
  BY <1>12, OnePiece
<1>15. \A i \in Of(T, k) : \E j \in 1..n : i = f[j] /\ T[i].data = Chunk(k, v, ChunkFrom(j))
  BY <1>1, <1>10, <1>14
<1>16. \A j \in 1..n : T[f[j]].data = Chunk(k, v, ChunkFrom(j))
  <2>1. \A i \in Of(T, k) : T[i].data = Chunk(k, v, T[i].data.from)
    BY <1>1 DEF Spelled
  <2>2. QED BY <1>12, <2>1
<1>17. f[1] = l
  BY <1>2, <1>11, <1>14
\* What f[j] links to holds chunk j + 1.
<1>18. ASSUME NEW j \in 1..n, T[f[j]].link # -1
       PROVE  T[f[j]].link \in Of(T, k) /\ T[T[f[j]].link].data.from = ChunkFrom(j + 1)
  <2> DEFINE i == f[j]
             x == T[i].link
  <2>1. i \in Busy(T) /\ T[i].data.key = k /\ T[i].data.val = v /\ T[i].data.from = ChunkFrom(j)
    BY <1>1, <1>12
  <2>2. x \in Slots /\ T[x].count = -2 /\ i \in Slots
    BY <1>18, <2>1, SlotIs DEF Linked, Busy
  <2>3. x \in Busy(T)
    BY <2>2 DEF Busy
  <2>4. End(T[i]) < ValSize[v] /\ T[x].data = Chunk(k, v, End(T[i]))
        /\ T[i].size = ChunkSize(v, ChunkFrom(j)) /\ ChunkFrom(j) < ValSize[v]
    BY <1>18, <2>1 DEF Spelled
  <2>5. T[x].data.key = k /\ T[x].data.from = End(T[i])
    BY <2>4 DEF Chunk
  <2>6. End(T[i]) = ChunkFrom(j) + ChunkSize(v, ChunkFrom(j))
    BY <2>1, <2>4 DEF End
  <2>7. j \in Numbers
    BY <1>11 DEF Numbers
  <2>8. End(T[i]) = ChunkFrom(j + 1)
    BY <1>3, <2>4, <2>6, <2>7, ChunkEnds
  <2>9. QED BY <2>3, <2>5, <2>8 DEF Of
<1>19. ASSUME NEW j \in 1..n PROVE T[f[j]].link = IF j = n THEN -1 ELSE f[j + 1]
  <2>0. j \in Numbers /\ j + 1 \in Numbers /\ n \in Numbers
    BY <1>11 DEF Numbers
  <2>1. CASE j = n
    <3>1. SUFFICES ASSUME T[f[j]].link # -1 PROVE FALSE
      BY <2>1
    <3>2. n + 1 \in J
      BY <1>18, <2>0, <2>1, <3>1 DEF J
    <3>3. QED BY <1>9, <3>2
  <2>2. CASE j # n
    <3>1. j + 1 \in 1..n
      BY <1>11, <2>2
    <3>2. f[j + 1] \in Of(T, k) /\ T[f[j + 1]].data.from = ChunkFrom(j + 1)
      BY <1>12, <3>1
    <3>3. PICK p \in Of(T, k) : T[p].data.from = ChunkFrom(j) /\ T[p].link = f[j + 1]
      BY <1>5, <2>0, <3>2
    <3>4. p = f[j]
      BY <1>14, <3>3
    <3>5. QED BY <2>2, <3>3, <3>4
  <2>3. QED BY <2>1, <2>2
<1>20. ASSUME f[n] \notin X PROVE n = BlocksOf[v]
  <2>1. f[n] \in Busy(T) /\ T[f[n]].data.val = v /\ T[f[n]].data.from = ChunkFrom(n)
        /\ T[f[n]].link = -1
    BY <1>1, <1>11, <1>12, <1>19
  <2>2. End(T[f[n]]) = ValSize[v] /\ T[f[n]].size = ChunkSize(v, ChunkFrom(n))
        /\ ChunkFrom(n) < ValSize[v]
    BY <1>20, <2>1 DEF Spelled
  <2>3. ValSize[v] <= ChunkFrom(n + 1)
    BY <1>3, <2>1, <2>2, ChunkEnds DEF End
  <2>4. ~(n + 1 <= BlocksOf[v])
    <3>1. n + 1 \in Numbers /\ ValSize[v] \in Nat
      BY <1>3, <1>11, TableAssumption DEF Numbers
    <3>2. QED BY <1>3, <2>3, <3>1, BlocksIs, ChunkFromIs
  <2>5. QED BY <1>3, <1>11, <2>4 DEF Numbers
<1>21. IsChain(T, k, v, n, f)
  BY <1>13, <1>15, <1>16, <1>19 DEF IsChain
<1>22. QED BY <1>8, <1>11, <1>13, <1>17, <1>20, <1>21

\* A chain has as many slots as it has chunks.
LEMMA ChainCount ==
  ASSUME NEW T \in Tables, NEW k, NEW v, NEW n \in Numbers, NEW f, IsChain(T, k, v, n, f)
  PROVE  Cardinality(Of(T, k)) = n /\ n <= maxslots /\ f \in Injection(1..n, Of(T, k))
<1>1. n \in Nat /\ \A j \in 1..n : j \in Numbers
  BY DEF Numbers
<1>2. \A i, j \in 1..n : f[i] = f[j] => i = j
  <2>1. SUFFICES ASSUME NEW i \in 1..n, NEW j \in 1..n, f[i] = f[j] PROVE i = j
    OBVIOUS
  <2>2. T[f[i]].data = Chunk(k, v, ChunkFrom(i)) /\ T[f[i]].data = Chunk(k, v, ChunkFrom(j))
    BY <2>1 DEF IsChain
  <2>3. ChunkFrom(i) = ChunkFrom(j)
    BY <2>2 DEF Chunk
  <2>4. i \in Numbers /\ j \in Numbers /\ ChunkFrom(i) \in Nat
    BY <1>1, ChunkFromIs
  <2>5. ~(i < j) /\ ~(j < i)
    BY <2>3, <2>4, ChunkFromGrows
  <2>6. QED BY <2>5
<1>3. f \in [1..n -> Of(T, k)] /\ \A i \in Of(T, k) : \E j \in 1..n : f[j] = i
  BY DEF IsChain
<1>4. f \in Injection(1..n, Of(T, k)) /\ f \in Surjection(1..n, Of(T, k))
  BY <1>2, <1>3 DEF Injection, IsInjective, Surjection
<1>5. ExistsBijection(1..n, Of(T, k))
  BY <1>4 DEF Bijection, ExistsBijection
<1>6. Cardinality(Of(T, k)) = n
  BY <1>1, <1>5, FS_CountingElements
<1>7. Of(T, k) \in SUBSET Slots
  BY DEF Of, Busy
<1>8. QED BY <1>4, <1>6, <1>7, SlotSets

\* What the keys' chains take is what is in use.
LEMMA BusyIsSum ==
  ASSUME NEW T \in Tables, Linked(T, {}), NEW X, Spelled(T, X), NEW m, Stores(T, {}, m)
  PROVE  /\ IsFiniteSet(DOMAIN m)
         /\ Cardinality(Busy(T)) =
              SumFunctionOnSet([k \in DOMAIN m |-> Cardinality(Of(T, k))], DOMAIN m)
<1> DEFINE D == DOMAIN m
           g == [i \in Busy(T) |-> T[i].data.key]
<1>1. D = {T[i].key : i \in Leading(T)}
  BY DEF Stores
<1>2. IsFiniteSet(Busy(T)) /\ IsFiniteSet(Leading(T))
  <2>1. Busy(T) \in SUBSET Slots /\ Leading(T) \in SUBSET Slots
    BY DEF Busy, Leading
  <2>2. QED BY <2>1, SlotSets
<1>3. IsFiniteSet(D)
  <2>1. IsFiniteSet({T[i].key : i \in Leading(T)})
    <3> DEFINE h == [i \in Leading(T) |-> T[i].key]
    <3>1. h \in Surjection(Leading(T), {T[i].key : i \in Leading(T)})
      BY DEF Surjection
    <3>2. QED BY <1>2, <3>1, FS_Surjection
  <2>2. QED BY <1>1, <2>1
<1>4. \A i \in Busy(T) : g[i] \in D
  <2>1. SUFFICES ASSUME NEW i \in Busy(T) PROVE T[i].data.key \in D
    OBVIOUS
  <2>2. PICK l \in Leading(T) : T[l].data.key = T[i].data.key
    BY Rooted DEF IsPiece
  <2>3. T[l].data.key = T[l].key
    BY BusyFirst DEF Spelled
  <2>4. QED BY <1>1, <2>2, <2>3
<1>5. \A k \in D : {i \in Busy(T) : g[i] = k} = Of(T, k)
  BY DEF Of
<1>6. [k \in D |-> Cardinality({i \in Busy(T) : g[i] = k})] = [k \in D |-> Cardinality(Of(T, k))]
  BY <1>5
<1> HIDE DEF D, g
<1>7. Cardinality(Busy(T)) = SumFunctionOnSet([k \in D |-> Cardinality({i \in Busy(T) : g[i] = k})], D)
  BY <1>2, <1>3, <1>4, SumOfParts
<1>8. QED BY <1>3, <1>6, <1>7 DEF D

\* Blocks of the values of a map.
Sizes(m) == [k \in DOMAIN m |-> BlocksOf[m[k]]]

LEMMA UsedIsSum == ASSUME NEW m PROVE Table!Used(m) = SumFunctionOnSet(Sizes(m), DOMAIN m)
<1>1. Table!Used(m) = SumFunctionOnSet(Sizes(m), DOMAIN Sizes(m))
  BY DEF Table!Used, Table!SumFunction, Table!SumFunctionOnSet, Table!FoldFunctionOnSet,
         Table!MapThenFoldSet, SumFunctionOnSet, FoldFunctionOnSet, MapThenFoldSet, Sizes
<1>2. DOMAIN Sizes(m) = DOMAIN m
  BY DEF Sizes
<1>3. QED BY <1>1, <1>2

\* A table whose values are complete has as many slots in use as its values have
\* blocks; while a value is incomplete, fewer.
LEMMA UsedIs ==
  ASSUME NEW T \in Tables, Linked(T, {}), Placed(T, {}), NEW m, Holds(T, {}, m)
  PROVE  Table!Used(m) = Cardinality(Busy(T))
<1> DEFINE f == [k \in DOMAIN m |-> Cardinality(Of(T, k))]
<1>1. Spelled(T, {}) /\ Stores(T, {}, m)
  BY DEF Holds
<1>2. ASSUME NEW k \in DOMAIN m PROVE Cardinality(Of(T, k)) = BlocksOf[m[k]]
  <2>1. PICK l \in Leading(T) : k = T[l].key /\ m[k] = T[l].data.val
    BY <1>1 DEF Stores
  <2>2. PICK n \in Numbers : \E g \in [1..n -> Of(T, k)] :
          IsChain(T, k, T[l].data.val, n, g) /\ n = BlocksOf[T[l].data.val]
    BY <1>1, <2>1, ChainExists
  <2>3. QED BY <2>1, <2>2, ChainCount
<1>3. f = Sizes(m)
  BY <1>2 DEF Sizes
<1>4. QED BY <1>1, <1>3, BusyIsSum, UsedIsSum

LEMMA UsedLess ==
  ASSUME NEW T \in Tables, Linked(T, {}), Placed(T, {}), NEW m, NEW e \in Busy(T), Holds(T, {e}, m),
         T[e].link = -1, End(T[e]) < ValSize[T[e].data.val]
  PROVE  Cardinality(Busy(T)) < Table!Used(m)
<1> DEFINE f == [k \in DOMAIN m |-> Cardinality(Of(T, k))]
           b == Sizes(m)
           D == DOMAIN m
           z == T[e].data.key
<1>1. Spelled(T, {e}) /\ Stores(T, {}, m)
  BY DEF Holds
<1>2. ASSUME NEW k \in D
      PROVE  /\ Cardinality(Of(T, k)) \in Nat /\ BlocksOf[m[k]] \in Nat
             /\ Cardinality(Of(T, k)) <= BlocksOf[m[k]]
             /\ k = z => Cardinality(Of(T, k)) < BlocksOf[m[k]]
  <2>1. PICK l \in Leading(T) : k = T[l].key /\ m[k] = T[l].data.val
    BY <1>1 DEF Stores
  <2> DEFINE v == T[l].data.val
  <2>2. PICK n \in Numbers : \E g \in [1..n -> Of(T, k)] :
          IsChain(T, k, v, n, g) /\ n <= BlocksOf[v]
    BY <1>1, <2>1, ChainExists
  <2>3. PICK g \in [1..n -> Of(T, k)] : IsChain(T, k, v, n, g)
    BY <2>2
  <2>4. Cardinality(Of(T, k)) = n /\ n \in Nat
    BY <2>3, ChainCount DEF Numbers
  <2>5. v \in Values
    BY <1>1, BusyFirst DEF Spelled
  <2>6. BlocksOf[v] \in Nat
    BY <2>5, BlocksIs DEF Numbers
  <2>7. ASSUME k = z PROVE n # BlocksOf[v]
    <3>1. e \in Of(T, k)
      BY <2>7 DEF Of
    <3>2. PICK j \in 1..n : e = g[j]
      BY <2>3, <3>1 DEF IsChain
    <3>3. j \in Numbers
      BY <2>4 DEF Numbers
    <3>4. T[e].data = Chunk(k, v, ChunkFrom(j))
      BY <2>3, <3>2 DEF IsChain
    <3>5. T[e].data.from = ChunkFrom(j) /\ T[e].data.val = v
      BY <3>4 DEF Chunk
    <3>6. j = n
      <4>1. SUFFICES ASSUME j # n PROVE FALSE
        OBVIOUS
      <4>2. j + 1 \in 1..n
        BY <2>4, <4>1
      <4>3. T[g[j]].link = g[j + 1] /\ g[j + 1] \in Busy(T)
        BY <2>3, <4>1, <4>2 DEF IsChain, Of
      <4>4. QED BY <3>2, <4>3, SlotIs DEF Busy
    <3>7. End(T[e]) = ChunkFrom(n) + ChunkSize(v, ChunkFrom(n)) /\ ChunkFrom(n) < ValSize[v]
      BY <1>1, <3>5, <3>6 DEF Spelled, End
    <3>8. ChunkFrom(n + 1) < ValSize[v]
      BY <2>5, <3>5, <3>7, ChunkEnds
    <3>9. n + 1 <= BlocksOf[v]
      BY <2>4, <2>5, <3>8, BlocksIs DEF Numbers
    <3>10. QED BY <2>4, <2>6, <3>9
  <2>8. QED BY <2>1, <2>2, <2>4, <2>6, <2>7
<1>3. z \in D
  <2>1. PICK l \in Leading(T) : T[l].data.key = z
    BY <1>1, Rooted DEF IsPiece
  <2>2. T[l].data.key = T[l].key
    BY <1>1, BusyFirst DEF Spelled
  <2>3. QED BY <1>1, <2>1, <2>2 DEF Stores
<1>4. IsFiniteSet(D) /\ Cardinality(Busy(T)) = SumFunctionOnSet(f, D)
  BY <1>1, BusyIsSum
<1>5. \A k \in D : /\ f[k] \in Nat /\ b[k] \in Nat /\ f[k] <= b[k]
                   /\ k = z => f[k] < b[k]
  BY <1>2 DEF Sizes
<1> HIDE DEF f, b, D, z
<1>6. /\ SumFunctionOnSet(f, D) = f[z] + SumFunctionOnSet(f, D \ {z})
      /\ SumFunctionOnSet(b, D) = b[z] + SumFunctionOnSet(b, D \ {z})
  BY <1>3, <1>4, <1>5, SumTakesAny
<1>7. IsFiniteSet(D \ {z}) /\ \A k \in D \ {z} : f[k] \in Nat /\ b[k] \in Nat /\ f[k] <= b[k]
  BY <1>4, <1>5, FS_Subset
<1>8. SumFunctionOnSet(f, D \ {z}) <= SumFunctionOnSet(b, D \ {z})
  BY <1>7, SumAtMost
<1>9. SumFunctionOnSet(f, D \ {z}) \in Nat /\ SumFunctionOnSet(b, D \ {z}) \in Nat
  BY <1>7, SumType
<1>10. SumFunctionOnSet(f, D) < SumFunctionOnSet(b, D)
  BY <1>3, <1>5, <1>6, <1>8, <1>9
<1>11. QED BY <1>4, <1>10, UsedIsSum DEF b, D

\* A map with a key less is no larger.
LEMMA UsedRest ==
  ASSUME NEW m, IsFiniteSet(DOMAIN m), \A k \in DOMAIN m : m[k] \in Values, NEW k0
  PROVE  /\ Table!Used([k \in DOMAIN m \ {k0} |-> m[k]]) <= Table!Used(m)
         /\ Table!Used([k \in DOMAIN m \ {k0} |-> m[k]]) \in Nat /\ Table!Used(m) \in Nat
<1> DEFINE D == DOMAIN m
           n == [k \in D \ {k0} |-> m[k]]
<1>1. \A k \in D : Sizes(m)[k] \in Nat
  BY BlocksIs DEF Sizes, Numbers
<1>2. \A k \in D \ {k0} : Sizes(n)[k] = Sizes(m)[k]
  BY DEF Sizes
<1>3. IsFiniteSet(D \ {k0}) /\ DOMAIN n = D \ {k0}
  BY FS_Subset
<1>4. Table!Used(n) = SumFunctionOnSet(Sizes(n), D \ {k0})
  BY <1>3, UsedIsSum
<1>5. SumFunctionOnSet(Sizes(n), D \ {k0}) = SumFunctionOnSet(Sizes(m), D \ {k0})
  <2> HIDE DEF n, D
  <2>1. QED BY <1>2, <1>3, SumOfSame
<1>6. SumFunctionOnSet(Sizes(m), D \ {k0}) \in Nat /\ SumFunctionOnSet(Sizes(m), D) \in Nat
  <2> HIDE DEF n, D
  <2>1. IsFiniteSet(D)
    BY DEF D
  <2>2. QED BY <1>1, <1>3, <2>1, SumType
<1>7. CASE k0 \in D
  <2> HIDE DEF n
  <2>1. SumFunctionOnSet(Sizes(m), D) = Sizes(m)[k0] + SumFunctionOnSet(Sizes(m), D \ {k0})
    BY <1>1, <1>7, SumTakesAny
  <2>2. QED BY <1>1, <1>4, <1>5, <1>6, <1>7, <2>1, UsedIsSum DEF n
<1>8. CASE k0 \notin D
  <2>1. D \ {k0} = D
    BY <1>8
  <2>2. QED BY <1>4, <1>5, <1>6, <2>1, UsedIsSum
<1>9. QED BY <1>7, <1>8

-------------------------------------------------------------------------------
(* What get finds in the slots of a key.                                   *)

Follows(T, i, at) ==
  /\ at[0] = i
  /\ \A n \in 0..(maxslots + 1) : at[n] \in Slots \cup {-1}
  /\ \A n \in 0..maxslots : at[n + 1] = IF at[n] = -1 THEN -1 ELSE T[at[n]].link

\* The walk from a slot on is the function that it is written as.
LEMMA WalkIs ==
  ASSUME slots \in Tables, NEW i \in Slots
  PROVE  Follows(slots, i, Walk(i))
<1> DEFINE link == [j \in Slots \cup {-1} |-> IF j = -1 THEN -1 ELSE slots[j].link]
           Starts(N, g) == /\ g \in [0..N -> Slots \cup {-1}]
                           /\ \A n \in 0..N : g[n] = IF n = 0 THEN i ELSE link[g[n - 1]]
           Is(g) == g = [n \in 0..(maxslots + 1) |-> IF n = 0 THEN i ELSE link[g[n - 1]]]
           Bad == {N \in Nat : ~\E g : Starts(N, g)}
<1>1. \A j \in Slots \cup {-1} : /\ link[j] \in Slots \cup {-1}
                                 /\ link[j] = IF j = -1 THEN -1 ELSE slots[j].link
  BY SlotIs
<1> HIDE DEF link, Starts
<1>2. Bad = {}
  <2>1. SUFFICES ASSUME Bad # {} PROVE FALSE
    OBVIOUS
  <2>2. Bad \in SUBSET Nat
    OBVIOUS
  <2>3. PICK N \in Bad : \A M \in Bad : N <= M
    <3> HIDE DEF Bad
    <3>1. QED BY <2>1, <2>2, LeastNat
  <2>4. N \in Nat /\ ~\E g : Starts(N, g)
    BY <2>3
  <2>5. N # 0
    <3>1. SUFFICES ASSUME N = 0 PROVE FALSE
      OBVIOUS
    <3>2. Starts(0, [n \in 0..0 |-> i])
      BY DEF Starts
    <3>3. QED BY <2>4, <3>1, <3>2
  <2>6. N - 1 \in Nat /\ N - 1 \notin Bad
    <3> HIDE DEF Bad
    <3>1. QED BY <2>3, <2>4, <2>5
  <2>7. PICK g : Starts(N - 1, g)
    BY <2>6
  <2> DEFINE h == [n \in 0..N |-> IF n = N THEN link[g[N - 1]] ELSE g[n]]
  <2>8. Starts(N, h)
    <3>1. g[N - 1] \in Slots \cup {-1}
      BY <2>4, <2>6, <2>7 DEF Starts
    <3>2. h \in [0..N -> Slots \cup {-1}]
      BY <1>1, <2>4, <2>7, <3>1 DEF Starts
    <3>3. ASSUME NEW n \in 0..N PROVE h[n] = IF n = 0 THEN i ELSE link[h[n - 1]]
      <4>1. CASE n = N
        BY <2>4, <2>5, <4>1
      <4>2. CASE n # N
        BY <2>4, <2>7, <4>2 DEF Starts
      <4>3. QED BY <4>1, <4>2
    <3>4. QED BY <3>2, <3>3 DEF Starts
  <2>9. QED BY <2>4, <2>8
<1>3. maxslots \in Nat
  BY TableAssumption
<1>4. PICK g : Starts(maxslots + 1, g)
  <2>1. \A N \in Nat : \E g : Starts(N, g)
    BY <1>2
  <2>2. maxslots + 1 \in Nat
    BY <1>3
  <2>3. QED BY <2>1, <2>2
<1>5. Is(g)
  BY <1>4 DEF Starts
<1>6. Walk(i) = CHOOSE f : Is(f)
  BY DEF Walk, link
<1>7. Is(Walk(i))
  <2> HIDE DEF Is
  <2>1. QED BY <1>5, <1>6
<1> DEFINE at == Walk(i)
<1>8. \A n \in 0..(maxslots + 1) : at[n] = IF n = 0 THEN i ELSE link[at[n - 1]]
  <2> HIDE DEF at
  <2>1. QED BY <1>7 DEF at
<1> HIDE DEF at
<1>9. \A n \in 0..(maxslots + 1) : at[n] \in Slots \cup {-1}
  <2> DEFINE Off == {n \in 0..(maxslots + 1) : at[n] \notin Slots \cup {-1}}
  <2>1. SUFFICES ASSUME Off # {} PROVE FALSE
    OBVIOUS
  <2>2. Off \in SUBSET Nat
    BY <1>3
  <2>3. PICK n \in Off : \A m \in Off : n <= m
    <3> HIDE DEF Off
    <3>1. QED BY <2>1, <2>2, LeastNat
  <2>4. n # 0 /\ n \in 0..(maxslots + 1)
    BY <1>8, <2>3
  <2>5. n - 1 \in 0..(maxslots + 1) /\ n - 1 \notin Off
    BY <1>3, <2>3, <2>4
  <2>6. at[n - 1] \in Slots \cup {-1}
    BY <2>5
  <2>7. at[n] \in Slots \cup {-1}
    BY <1>1, <1>8, <2>4, <2>6
  <2>8. QED BY <2>3, <2>7
<1>10. ASSUME NEW n \in 0..maxslots PROVE at[n + 1] = IF at[n] = -1 THEN -1 ELSE slots[at[n]].link
  <2>1. n + 1 \in 0..(maxslots + 1) /\ n + 1 # 0 /\ n + 1 - 1 = n /\ n \in 0..(maxslots + 1)
    BY <1>3
  <2>2. at[n + 1] = link[at[n]]
    BY <1>8, <2>1
  <2>3. QED BY <1>1, <1>9, <2>1, <2>2
<1>11. at[0] = i
  BY <1>3, <1>8
<1>12. QED BY <1>9, <1>10, <1>11 DEF Follows, at

\* A walk that is over stays where it is.
LEMMA WalkOver ==
  ASSUME NEW T, NEW i, NEW at, Follows(T, i, at), NEW n \in 0..(maxslots + 1), at[n] = -1,
         NEW m \in 0..(maxslots + 1), n <= m
  PROVE  at[m] = -1
<1> DEFINE On == {x \in n..(maxslots + 1) : at[x] # -1}
<1>0. maxslots \in Nat
  BY TableAssumption
<1>1. SUFFICES ASSUME On # {} PROVE FALSE
  BY <1>0
<1>2. On \in SUBSET Nat
  BY <1>0
<1>3. PICK x \in On : \A y \in On : x <= y
  <2> HIDE DEF On
  <2>1. QED BY <1>1, <1>2, LeastNat
<1>4. x \in n..(maxslots + 1) /\ at[x] # -1 /\ x # n
  BY <1>3
<1>5. x - 1 \in n..(maxslots + 1) /\ x - 1 \notin On /\ x - 1 \in 0..maxslots /\ (x - 1) + 1 = x
  BY <1>0, <1>3, <1>4
<1>6. at[x - 1] = -1
  BY <1>5
<1>7. at[(x - 1) + 1] = -1
  BY <1>5, <1>6 DEF Follows
<1>8. QED BY <1>4, <1>5, <1>7

\* Where the walk ends; there is no other end.
EndsAt(at, n) == at[n] # -1 /\ at[n + 1] = -1

LEMMA OneEnd ==
  ASSUME NEW T, NEW i, NEW at, Follows(T, i, at), NEW n \in 0..maxslots, EndsAt(at, n)
  PROVE  /\ \A m \in 0..n : at[m] \in Slots
         /\ \A m \in (n + 1)..(maxslots + 1) : at[m] = -1
         /\ \A m \in 0..maxslots : EndsAt(at, m) => m = n
<1>0. maxslots \in Nat /\ n + 1 \in 0..(maxslots + 1) /\ n \in 0..(maxslots + 1)
  BY TableAssumption
<1>1. \A m \in 0..n : at[m] # -1
  BY <1>0, WalkOver DEF EndsAt
<1>2. \A m \in (n + 1)..(maxslots + 1) : at[m] = -1
  BY <1>0, WalkOver DEF EndsAt
<1>3. \A m \in 0..n : at[m] \in Slots
  BY <1>0, <1>1 DEF Follows
<1>4. ASSUME NEW m \in 0..maxslots, EndsAt(at, m) PROVE m = n
  <2>1. ~(m < n)
    <3>1. SUFFICES ASSUME m < n PROVE FALSE
      OBVIOUS
    <3>2. m + 1 \in 0..n
      BY <1>0, <3>1
    <3>3. QED BY <1>1, <1>4, <3>2 DEF EndsAt
  <2>2. ~(n < m)
    <3>1. SUFFICES ASSUME n < m PROVE FALSE
      OBVIOUS
    <3>2. m \in (n + 1)..(maxslots + 1)
      BY <1>0, <3>1
    <3>3. QED BY <1>2, <1>4, <3>2 DEF EndsAt
  <2>3. QED BY <1>0, <2>1, <2>2
<1>5. QED BY <1>2, <1>3, <1>4

\* A slot's bytes, as a get copies them; the content of a walk that ends.
Piece(i) == [data |-> slots[i].data, n |-> slots[i].size]

LEMMA ContentIs ==
  ASSUME slots \in Tables, NEW i \in Slots, NEW n \in 0..maxslots, EndsAt(Walk(i), n)
  PROVE  Content(i) = [j \in 1..(n + 1) |-> Piece(Walk(i)[j - 1])]
<1> DEFINE at == Walk(i)
           last == CHOOSE m \in 0..maxslots : at[m] # -1 /\ at[m + 1] = -1
<1>1. Follows(slots, i, at)
  BY WalkIs
<1> HIDE DEF at
<1>2. at[maxslots + 1] = -1
  <2>1. maxslots \in Nat
    BY TableAssumption
  <2>2. maxslots + 1 \in (n + 1)..(maxslots + 1)
    BY <2>1
  <2>3. QED BY <1>1, <2>2, OneEnd DEF at
<1>3. \A m \in 0..maxslots : (at[m] # -1 /\ at[m + 1] = -1) <=> m = n
  BY <1>1, OneEnd DEF EndsAt, at
<1>4. last = n
  BY <1>3
<1>5. Content(i) = IF at[maxslots + 1] # -1 THEN << >> ELSE [j \in 1..(last + 1) |-> Piece(at[j - 1])]
  BY DEF Content, Piece, at
<1> HIDE DEF last
<1>6. QED BY <1>2, <1>4, <1>5 DEF at

\* From its first slot on a walk follows the key's chain.
Along(at, f, n) ==
  /\ n - 1 \in 0..maxslots
  /\ EndsAt(at, n - 1)
  /\ \A m \in 0..(n - 1) : at[m] = f[m + 1]

LEMMA ChainWalk ==
  ASSUME slots \in Tables, NEW k, NEW v, NEW n \in Numbers, NEW f, IsChain(slots, k, v, n, f)
  PROVE  Along(Walk(f[1]), f, n)
<1> DEFINE at == Walk(f[1])
           Off == {m \in 0..(n - 1) : at[m] # f[m + 1]}
<1>1. n \in Nat /\ n >= 1 /\ n <= maxslots /\ maxslots \in Nat
  BY ChainCount, TableAssumption DEF Numbers
<1>2. /\ \A j \in 1..n : f[j] \in Slots /\ f[j] # -1
      /\ \A j \in 1..n : slots[f[j]].link = IF j = n THEN -1 ELSE f[j + 1]
  BY SlotIs DEF IsChain, Of, Busy
<1>3. Follows(slots, f[1], at)
  BY <1>1, <1>2, WalkIs
<1> HIDE DEF at
<1>4. ASSUME NEW m \in 0..(n - 1), at[m] = f[m + 1]
      PROVE  at[m + 1] = IF m = n - 1 THEN -1 ELSE f[m + 2]
  <2>1. m \in 0..maxslots /\ m + 1 \in 1..n
    BY <1>1
  <2>2. at[m + 1] = slots[f[m + 1]].link
    BY <1>2, <1>3, <1>4, <2>1 DEF Follows
  <2>3. QED BY <1>1, <1>2, <2>1, <2>2
<1>5. Off = {}
  <2>1. SUFFICES ASSUME Off # {} PROVE FALSE
    OBVIOUS
  <2>2. Off \in SUBSET Nat
    BY <1>1
  <2>3. PICK m \in Off : \A x \in Off : m <= x
    <3> HIDE DEF Off
    <3>1. QED BY <2>1, <2>2, LeastNat
  <2>4. m \in 0..(n - 1) /\ at[m] # f[m + 1] /\ m # 0
    BY <1>1, <1>3, <2>3 DEF Follows
  <2>5. m - 1 \in 0..(n - 1) /\ m - 1 \notin Off /\ m - 1 # n - 1
    BY <1>1, <2>3, <2>4
  <2>6. at[m - 1] = f[(m - 1) + 1]
    BY <2>5
  <2>7. at[(m - 1) + 1] = f[(m - 1) + 2]
    BY <1>4, <2>5, <2>6
  <2>8. (m - 1) + 1 = m /\ (m - 1) + 2 = m + 1
    BY <2>4
  <2>9. QED BY <2>4, <2>7, <2>8
<1>6. \A m \in 0..(n - 1) : at[m] = f[m + 1]
  BY <1>5
<1>7. EndsAt(at, n - 1)
  <2>1. n - 1 \in 0..(n - 1) /\ (n - 1) + 1 = n /\ n \in 1..n
    BY <1>1
  <2>2. at[n - 1] = f[n] /\ f[n] # -1
    BY <1>2, <1>6, <2>1
  <2>3. at[(n - 1) + 1] = -1
    BY <1>4, <1>6, <2>1
  <2>4. QED BY <2>2, <2>3 DEF EndsAt
<1>8. QED BY <1>1, <1>6, <1>7 DEF at, Along

\* Of a complete value get returns all.
LEMMA ChainRead ==
  ASSUME slots \in Tables, NEW X, Spelled(slots, X), NEW k, NEW v \in Values, NEW n \in Numbers,
         NEW f, IsChain(slots, k, v, n, f), n = BlocksOf[v]
  PROVE  verifyShmValue(Content(f[1])) = Result("kOk", k, v)
<1> DEFINE got == Content(f[1])
<1>1. n \in Nat /\ n >= 1 /\ n \in 1..n /\ 1 \in 1..n
  BY DEF Numbers
<1>2. f[1] \in Slots
  BY <1>1 DEF IsChain, Of, Busy
<1>3. got = [j \in 1..n |-> Piece(f[j])]
  <2>1. n - 1 \in 0..maxslots /\ EndsAt(Walk(f[1]), n - 1)
        /\ \A m \in 0..(n - 1) : Walk(f[1])[m] = f[m + 1]
    <3>1. Along(Walk(f[1]), f, n)
      BY ChainWalk
    <3>2. QED BY <3>1 DEF Along
  <2>2. got = [j \in 1..((n - 1) + 1) |-> Piece(Walk(f[1])[j - 1])]
    BY <1>2, <2>1, ContentIs
  <2>3. (n - 1) + 1 = n /\ \A j \in 1..n : Walk(f[1])[j - 1] = f[j]
    <3>1. \A j \in 1..n : j - 1 \in 0..(n - 1) /\ (j - 1) + 1 = j
      BY <1>1
    <3>2. QED BY <1>1, <2>1, <3>1
  <2>4. QED BY <2>2, <2>3
<1> HIDE DEF got
<1>4. ASSUME NEW j \in 1..n
      PROVE  got[j].data = Chunk(k, v, ChunkFrom(j)) /\ got[j].n = ChunkSize(v, ChunkFrom(j))
  <2>1. slots[f[j]].data = Chunk(k, v, ChunkFrom(j)) /\ f[j] \in Busy(slots)
    BY DEF IsChain, Of
  <2>2. slots[f[j]].data.val = v /\ slots[f[j]].data.from = ChunkFrom(j)
    BY <2>1 DEF Chunk
  <2>3. slots[f[j]].size = ChunkSize(v, ChunkFrom(j))
    BY <2>1, <2>2 DEF Spelled
  <2>4. QED BY <1>3, <2>1, <2>3 DEF Piece
<1>5. ChunkFrom(1) = 0 /\ got[1].data = Chunk(k, v, 0)
  BY <1>1, <1>4 DEF ChunkFrom
<1>6. got[1].data.key = k /\ got[1].data.val = v
  BY <1>5 DEF Chunk
<1>7. v # None
  BY TableAssumption
<1>8. ChunkFrom(n) + ChunkSize(v, ChunkFrom(n)) = ValSize[v]
  <2>1. ChunkFrom(n) < ValSize[v] /\ ValSize[v] <= ChunkFrom(n + 1) /\ ValSize[v] \in Nat
    BY BlocksIs, TableAssumption
  <2>2. PICK e : e = ChunkFrom(n) + ChunkSize(v, ChunkFrom(n))
    OBVIOUS
  <2>3. e \in Nat /\ e <= ValSize[v] /\ (e < ValSize[v] => e = ChunkFrom(n + 1))
    BY <2>1, <2>2, ChunkEnds
  <2>4. e = ValSize[v]
    BY <2>1, <2>3
  <2>5. QED BY <2>2, <2>4
<1>9. ChunkSize(v, ChunkFrom(n)) \in Nat /\ \A j \in 1..n : got[j].n = ChunkSize(v, ChunkFrom(j))
  <2>1. n \in 1..n /\ ChunkFrom(n) \in Nat /\ ChunkFrom(n) < ValSize[v]
    BY <1>1, BlocksIs, ChunkFromIs
  <2>2. QED BY <1>4, <2>1, ChunkSizeType
<1>10. WholeValue(got, n)
  <2>1. \A j \in 1..n : IF j < n THEN got[j].n = ChunkSize(v, ChunkFrom(j))
                                 ELSE got[j].n >= ChunkSize(v, ChunkFrom(j))
    <3>1. \A j \in 1..n : ~(j < n) => j = n
      BY <1>1
    <3>2. QED BY <1>9, <3>1
  <2>2. QED BY <1>4, <1>6, <1>7, <1>8, <2>1 DEF WholeValue
<1>11. Len(got) = n /\ got # << >>
  BY <1>1, <1>3
<1>12. verifyShmValue(got) = Result("kOk", k, v)
  BY <1>1, <1>6, <1>10, <1>11 DEF verifyShmValue
<1>13. QED BY <1>12 DEF got

\* The contents of a table in order, with complete values.
LEMMA ViewStored ==
  ASSUME Written, Settled, Spelled(slots, {})
  PROVE  Stores(slots, {}, View) /\ Holds(slots, {}, View)
<1>1. /\ slots \in Tables /\ Linked(slots, {}) /\ Placed(slots, {})
  BY DEF Written, Tables, Settled, Whole, InOrder
<1>2. \A i \in Leading(slots) : slots[i].key \in Keys
  BY <1>1 DEF Placed
<1>3. \A k \in Keys : get_idx(k) # -1 <=> \E i \in Leading(slots) : slots[i].key = k
  BY GetIdxFinds DEF Has
<1>4. {x \in Keys : get_idx(x) # -1} = {slots[i].key : i \in Leading(slots)}
  BY <1>2, <1>3
<1>5. View = [k \in {slots[i].key : i \in Leading(slots)} |-> View[k]]
  BY <1>4 DEF View
<1>6. ASSUME NEW i \in Leading(slots) PROVE View[slots[i].key] = slots[i].data.val
  <2> DEFINE k == slots[i].key
             v == slots[i].data.val
  <2>1. k \in Keys /\ get_idx(k) # -1
    BY <1>2, <1>3
  <2>2. get_idx(k) = i
    <3>1. get_idx(k) \in Leading(slots) /\ slots[get_idx(k)].key = k
      BY <2>1, GetIdxFinds
    <3>2. QED BY <1>1, <3>1 DEF Placed
  <2>3. PICK n \in Numbers : \E f \in [1..n -> Of(slots, k)] :
          /\ IsChain(slots, k, v, n, f) /\ f[1] = i
          /\ f[n] \notin {} => n = BlocksOf[v]
    BY <1>1, ChainExists
  <2>4. PICK f \in [1..n -> Of(slots, k)] :
          IsChain(slots, k, v, n, f) /\ f[1] = i /\ n = BlocksOf[v]
    BY <2>3
  <2>5. v \in Values
    BY <1>1, BusyFirst DEF Spelled
  <2> HIDE DEF k, v
  <2>6. verifyShmValue(Content(get_idx(k))) = Result("kOk", k, v)
    BY <1>1, <2>2, <2>4, <2>5, ChainRead
  <2>7. View[k] = v
    BY <2>1, <2>6 DEF View, Result
  <2>8. QED BY <2>7 DEF k, v
<1>7. Leading(slots) \ {} = Leading(slots)
  OBVIOUS
<1>8. Stores(slots, {}, View)
  <2> HIDE DEF View
  <2>1. QED BY <1>5, <1>6, <1>7 DEF Stores
<1>9. QED BY <1>8 DEF Holds

\* So a table that holds a map shows it.
LEMMA ViewIs ==
  ASSUME Written, Settled, NEW m, Holds(slots, {}, m)
  PROVE  View = m
BY ViewStored, StoresOne DEF Holds

-------------------------------------------------------------------------------
(* The invariant.                                                          *)

\* What the table held when the call began, without the call's key, and with it.
Rest == [k \in DOMAIN before \ {w.key} |-> before[k]]
New  == [k \in DOMAIN before \cup {w.key} |-> IF k = w.key THEN w.val ELSE before[k]]

Room    == Table!Used(before) < maxslots
TooMuch == Table!Used(New) > maxslots

\* The slots with the chunk in them that is being written; the slots with chunks of
\* the key that is being removed.
FilledAt(S, i, d, n) == [S EXCEPT ![i].data = d, ![i].size = n]
Filled == FilledAt(slots, w.cur, Chunk(w.key, w.val, w.done), ChunkSize(w.val, w.done))
InHand == {i \in Slots : slots[i].data.key = w.key}

\* The value is stored up to and including slot w.cur.
Cut == slots[w.cur].data.key = w.key /\ slots[w.cur].data.val = w.val /\ End(slots[w.cur]) = w.done

VInv ==
  /\ wpc = "idle" => Spelled(slots, {})
  /\ wpc = "put" =>
       /\ Spelled(slots, {})
       /\ Stores(slots, {}, before) \/ (Room /\ Stores(slots, {}, Rest))
  /\ wpc \in {"put", "remove"} => w.then = "removed"
  /\ wpc \in PutLabels \ {"put"} => Room
  /\ wpc \in {"move", "putCount"} => Holds(slots, {}, Rest)
  /\ wpc \in {"moveFree", "putHash", "putKey", "putEnd"} => Holds(Without(slots, w.idx), {}, Rest)
  /\ wpc = "moveLinks" =>
       Holds(BackAt(slots, Home, w.idx), {}, Rest) /\ SameBytes(slots[Home], slots[w.idx])
  /\ wpc \in {"putValue", "putSize"} => Holds(Filled, {w.cur}, New)
  /\ wpc = "putSize" => slots[w.cur].data = Chunk(w.key, w.val, w.done)
  /\ wpc \in {"putExt", "putExtHead"} => Holds(slots, {w.cur}, New) /\ Cut
  /\ wpc = "putLink" => Holds(Without(slots, w.aux), {w.cur}, New) /\ Cut
  /\ wpc \in {"putValue", "putSize", "putExt", "putExtHead", "putLink"} => slots[w.idx].key = w.key
  /\ wpc = "putLead" => Holds(slots, {}, New)
  /\ wpc = "undone" => Holds(slots, {}, Rest) /\ TooMuch
  /\ wpc \in RemLabels =>
       /\ w.op = "put" /\ w.then # "undone" => w.again /\ Room /\ w.key \in DOMAIN before
       /\ w.then = "undone" => Room /\ TooMuch
       /\ w.op = "remove" /\ wpc # "remove" => w.key \in DOMAIN before
  /\ wpc \in {"remove", "remCount"} => Holds(slots, {}, before)
  /\ wpc = "remCount" => slots[w.cur].key = w.key /\ w.then = "removed"
  /\ wpc = "remData" =>
       /\ Spelled(slots, InHand) /\ Stores(slots, {w.cur}, Rest)
       /\ slots[w.cur].data.key = w.key
  /\ wpc \in {"remCopy", "removed"} => Holds(slots, {}, Rest)
  /\ wpc = "remFree" => Holds(Without(slots, w.idx), {}, Rest)
  /\ wpc = "remLead" =>
       Holds(BackAt(slots, w.aux, w.idx), {}, Rest) /\ SameBytes(slots[w.aux], slots[w.idx])
  /\ wpc \in {"clear", "clrSlots"} => w.op = "clear" /\ w.key = None

\* What a call has done when it returns.
Told(err) == reply' = [reply EXCEPT !.err = err]

Outcome ==
  \/ /\ w.op = "put" /\ Told("ENOBUFS")
     /\ ~Room /\ Holds(slots', {}, before)
  \/ /\ w.op = "put" /\ Told("ENOBUFS")
     /\ Room /\ TooMuch /\ Holds(slots', {}, Rest)
  \/ /\ w.op = "put" /\ Told("ok")
     /\ Room /\ ~TooMuch /\ Holds(slots', {}, New)
  \/ /\ w.op = "remove" /\ Told("ENOENT")
     /\ w.key \notin DOMAIN before /\ Holds(slots', {}, before)
  \/ /\ w.op = "remove" /\ Told("ok")
     /\ w.key \in DOMAIN before /\ Holds(slots', {}, Rest)
  \/ /\ w.op = "clear" /\ w.key = None /\ Told("ok")
     /\ Holds(slots', {}, << >>)

-------------------------------------------------------------------------------
(* What the steps share.                                                   *)

\* A call's key, value and start do not change.
LEMMA Kept ==
  ASSUME before' = before, w'.key = w.key, w'.val = w.val
  PROVE  Rest' = Rest /\ New' = New /\ (Room' <=> Room) /\ (TooMuch' <=> TooMuch)
BY DEF Rest, New, Room, TooMuch

\* Stores that do not matter leave what the table holds.
LEMMA AlikeHolds ==
  ASSUME NEW T \in Tables, NEW U \in Tables, Alike(T, U), AlikeBytes(T, U),
         NEW X, NEW m, Linked(T, {}), Holds(T, X, m)
  PROVE  Holds(U, X, m)
BY AlikeSpelled, AlikeStores DEF Holds

\* The bytes of the tables of a call.
LEMMA WithoutBytes ==
  ASSUME NEW T \in Tables, NEW i \in Slots, NEW x \in Slots
  PROVE  SameBytes(T[x], Without(T, i)[x])
<1>1. T[x] \in Slot
  BY DEF Tables
<1>2. QED BY <1>1 DEF Without, SameBytes, Tables, Slot

LEMMA BackAtBytes ==
  ASSUME NEW T \in Tables, NEW from \in Slots, NEW to \in Slots, from # to, NEW x \in Slots
  PROVE  SameBytes(T[x], BackAt(T, from, to)[x])
<1>1. T[x] \in Slot /\ T[to] \in Slot
  BY DEF Tables
<1>2. QED BY <1>1 DEF BackAt, SameBytes, Tables, Slot

\* What is stored in a slot does not matter to the table without it.
LEMMA BeneathHolds ==
  ASSUME NEW S \in Tables, NEW S1 \in Tables, NEW i \in Slots, \A x \in Slots \ {i} : S1[x] = S[x],
         Linked(Without(S, i), {}), NEW X, NEW m, Holds(Without(S, i), X, m)
  PROVE  Holds(Without(S1, i), X, m)
<1>1. /\ Same(Without(S, i), Without(S1, i))
      /\ Without(S, i) \in Tables /\ Without(S1, i) \in Tables
  BY Beneath
<1>2. \A x \in Slots : /\ SameBytes(S[x], Without(S, i)[x]) /\ SameBytes(S1[x], Without(S1, i)[x])
                       /\ Without(S, i)[x].count # 0 => x # i
  BY WithoutBytes, WithoutIs
<1>3. AlikeBytes(Without(S, i), Without(S1, i))
  BY <1>2 DEF AlikeBytes, SameBytes
<1>4. QED BY <1>1, <1>3, SameAlike, AlikeHolds

\* An empty slot may be left out.
LEMMA BesideHolds ==
  ASSUME NEW S \in Tables, NEW i \in Slots, S[i].count = 0, Linked(S, {}), NEW X, NEW m, Holds(S, X, m)
  PROVE  Holds(Without(S, i), X, m) /\ Linked(Without(S, i), {})
<1>1. Same(S, Without(S, i)) /\ Without(S, i) \in Tables
  BY BesideEmpty
<1>2. AlikeBytes(S, Without(S, i))
  BY WithoutBytes DEF AlikeBytes
<1>3. Holds(Without(S, i), X, m)
  BY <1>1, <1>2, SameAlike, AlikeHolds
<1>4. PICK U : U = Without(S, i)
  OBVIOUS
<1>5. Linked(U, {})
  <2>1. U \in Tables /\ \A x \in Slots : U[x].count = S[x].count /\ (S[x].count # 0 => Keeps(S, U, x))
    BY <1>1, <1>4 DEF Same
  <2>2. Busy(U) = Busy(S)
    BY <2>1 DEF Busy
  <2>3. \A x \in Busy(S) : x \in Slots /\ U[x].count = S[x].count /\ U[x].link = S[x].link /\ U[x].hash = S[x].hash
    BY <2>1 DEF Busy, Keeps
  <2>4. \A x \in Busy(S) : S[x].link # -1 => S[x].link \in Busy(S)
    <3>1. SUFFICES ASSUME NEW x \in Busy(S), S[x].link # -1 PROVE S[x].link \in Busy(S)
      OBVIOUS
    <3>2. S[x].link \in Slots /\ S[S[x].link].count = -2
      BY <2>3, <3>1, SlotIs DEF Linked
    <3>3. QED BY <3>2 DEF Busy
  <2>5. QED BY <2>2, <2>3, <2>4 DEF Linked
<1>6. QED BY <1>3, <1>4, <1>5

\* Of a table in order: what stores k, and what does not.
LEMMA StoredKeys ==
  ASSUME NEW T, NEW m, Stores(T, {}, m), NEW k
  PROVE  /\ Has(T, k) <=> k \in DOMAIN m
         /\ m = [x \in DOMAIN m |-> m[x]]
<1>1. DOMAIN m = {T[i].key : i \in Leading(T)} /\ m = [x \in DOMAIN m |-> m[x]]
  BY DEF Stores
<1>2. QED BY <1>1 DEF Has

\* What is the same without a key has not got the key.
LEMMA RestIs ==
  ASSUME NEW T, Stores(T, {}, before), ~Has(T, w.key)
  PROVE  Rest = before
<1>1. w.key \notin DOMAIN before /\ before = [k \in DOMAIN before |-> before[k]]
  BY StoredKeys
<1>2. DOMAIN before \ {w.key} = DOMAIN before
  BY <1>1
<1>3. Rest = [k \in DOMAIN before |-> before[k]]
  BY <1>2 DEF Rest
<1>4. QED BY <1>1, <1>3

\* A table that is not full has an empty slot.
LEMMA SomeEmpty ==
  ASSUME Written, Cardinality(Busy(slots)) < maxslots, NEW start \in Slots
  PROVE  find_empty(start) # -1
<1> DEFINE free == {i \in Slots : slots[i].count = 0}
<1>1. free # {}
  <2>1. SUFFICES ASSUME free = {} PROVE FALSE
    OBVIOUS
  <2>2. Busy(slots) = Slots
    BY <2>1 DEF Busy
  <2>3. QED BY <2>2, SlotSets, TableAssumption
<1>2. Nearest(start, free) \in Slots
  <2>1. free \in SUBSET Slots
    OBVIOUS
  <2> HIDE DEF free
  <2>2. QED BY <1>1, <2>1, NearestIs
<1>3. -1 \notin Slots
  BY SlotIs, TableAssumption DEF Slots
<1>4. QED BY <1>1, <1>2, <1>3 DEF find_empty

\* What is in use when a call begins.
LEMMA UsedAtStart ==
  ASSUME Written, Settled, NEW m, Holds(slots, {}, m)
  PROVE  /\ Table!Used(m) = Cardinality(Busy(slots)) /\ usedslots = Cardinality(Busy(slots))
         /\ Linked(slots, {}) /\ Placed(slots, {}) /\ slots \in Tables
<1>1. slots \in Tables /\ Linked(slots, {}) /\ Placed(slots, {}) /\ usedslots = Cardinality(Busy(slots))
  BY DEF Written, Tables, Settled, Whole, InOrder
<1>2. QED BY <1>1, UsedIs

-------------------------------------------------------------------------------
(* The contents that a call begins with.                                   *)

\* They are finite, and made of values.
Known(m) == IsFiniteSet(DOMAIN m) /\ \A k \in DOMAIN m : m[k] \in Values
BInv == wpc # "idle" => Known(before)

LEMMA HeldKnown ==
  ASSUME NEW T \in Tables, Linked(T, {}), NEW X, NEW m, Holds(T, X, m)
  PROVE  Known(m)
<1>1. IsFiniteSet(DOMAIN m)
  BY BusyIsSum DEF Holds
<1>2. ASSUME NEW k \in DOMAIN m PROVE m[k] \in Values
  <2>1. PICK i \in Leading(T) : k = T[i].key /\ m[k] = T[i].data.val
    BY DEF Holds, Stores
  <2>2. QED BY <2>1, BusyFirst DEF Holds, Spelled
<1>3. QED BY <1>1, <1>2 DEF Known

LEMMA BeginKnown ==
  ASSUME WInv, SInv, VInv, NEW op, NEW k, NEW v, Begin(op, k, v)
  PROVE  BInv'
<1>1. wpc = "idle" /\ before' = View /\ Written /\ Settled /\ Spelled(slots, {})
  BY DEF Begin, VInv, SInv, Quiet, WInv
<1>2. slots \in Tables /\ Linked(slots, {})
  BY <1>1 DEF Written, Tables, Settled, Whole, InOrder
<1>3. Known(View)
  BY <1>1, <1>2, ViewStored, HeldKnown
<1>4. QED BY <1>1, <1>3 DEF BInv

LEMMA KnownStays ==
  ASSUME BInv, WStep PROVE BInv' /\ before' = before
<1>1. before' = before /\ wpc # "idle"
  BY DEF WStep, still, ChoosePlace, Move, MoveFree, MoveLinks, PutCount, PutHash, PutKey, PutEnd,
         PutValue, PutSize, PutExt, PutExtHead, PutLink, PutLead, Undone, ChooseRemoval, RemCount,
         RemData, RemCopy, RemFree, RemLead, RemDone, ClrCounters, ClrSlots
<1>2. QED BY <1>1 DEF BInv

\* A table that holds less than at the start of the call is not full either.
LEMMA StillFits ==
  ASSUME Written, Settled, Known(before), Room, Holds(slots, {}, Rest)
  PROVE  usedslots < maxslots
<1>1. Table!Used(Rest) <= Table!Used(before) /\ Table!Used(Rest) \in Nat /\ Table!Used(before) \in Nat
  BY UsedRest DEF Known, Rest
<1>2. Table!Used(Rest) = usedslots
  BY UsedAtStart
<1>3. QED BY <1>1, <1>2, TableAssumption DEF Room

-------------------------------------------------------------------------------
(* The steps of put.                                                       *)

\* A call begins with what the table shows.
LEMMA BeginValues ==
  ASSUME WInv, SInv, VInv, NEW op \in {"put", "remove", "clear"}, NEW k, NEW v,
         op = "clear" => k = None, Begin(op, k, v), Goto(op)
  PROVE  VInv'
<1>1. /\ wpc = "idle" /\ wpc' = op /\ slots' = slots /\ before' = View
      /\ w' = [NoWrite EXCEPT !.op = op, !.key = k, !.val = v]
  BY DEF Begin, Goto, table
<1>2. w'.op = op /\ w'.key = k /\ w'.then = "removed"
  BY <1>1 DEF NoWrite
<1>3. Spelled(slots, {}) /\ Holds(slots, {}, View) /\ Stores(slots, {}, View)
  BY <1>1, ViewStored DEF VInv, SInv, Quiet, WInv
<1>4. Spelled(slots', {}) /\ Holds(slots', {}, before') /\ Stores(slots', {}, before')
  BY <1>1, <1>3
<1>5. CASE op = "put"
  BY <1>1, <1>2, <1>4, <1>5 DEF VInv, RemLabels
<1>6. CASE op = "remove"
  BY <1>1, <1>2, <1>4, <1>6 DEF VInv, PutLabels, RemLabels
<1>7. CASE op = "clear"
  BY <1>1, <1>2, <1>7 DEF VInv, PutLabels, RemLabels
<1>8. QED BY <1>5, <1>6, <1>7

\* Where a put finds that the table is full or holds its key, and where it does not.
LEMMA ChoosePlaceValues ==
  ASSUME WInv, WInv', SInv, VInv, BInv, ChoosePlace
  PROVE  VInv' /\ (wpc' = "idle" => Outcome)
<1> DEFINE h == Hash[w.key]
           e == find_empty(IF slots[h].count > 0 THEN h ELSE After(h))
<1>1. /\ wpc = "put" /\ w.key \in Keys /\ w.val \in Values /\ Written /\ Settled /\ w.op = "put"
      /\ w.then = "removed" /\ Spelled(slots, {})
      /\ UNCHANGED <<slots, usedslots, num, before>> /\ h \in Slots /\ w \in Call
      /\ Stores(slots, {}, before) \/ (Room /\ Stores(slots, {}, Rest))
  BY TableAssumption DEF ChoosePlace, WInv, Written, Locals, PutLabels, SInv, Quiet, VInv, table, still
<1>2. slots \in Tables /\ Placed(slots, {}) /\ usedslots = Cardinality(Busy(slots))
      /\ Cardinality(Busy(slots)) \in Nat /\ maxslots \in Nat
  <2>1. Busy(slots) \in SUBSET Slots
    BY DEF Busy
  <2>2. QED BY <1>1, <2>1, SlotSets, TableAssumption DEF Written, Tables, Settled, Whole, InOrder
<1>3. Stores(slots, {}, before) => Table!Used(before) = usedslots
  BY <1>1, UsedAtStart DEF Holds
<1>4. ASSUME Stores(slots, {}, Rest), ~Stores(slots, {}, before) PROVE usedslots < maxslots /\ Room
  <2>1. Room /\ Holds(slots, {}, Rest)
    BY <1>1, <1>4 DEF Holds
  <2>2. QED BY <1>1, <2>1, StillFits DEF BInv
<1>5. usedslots < maxslots => Room
  BY <1>1, <1>3, <1>4 DEF Room
<1>6. usedslots < maxslots => e # -1
  BY <1>1, <1>2, SomeEmpty, DistType
<1>7. CASE usedslots >= maxslots /\ Return("ENOBUFS")
  <2>1. wpc' = "idle" /\ reply' = [reply EXCEPT !.err = "ENOBUFS"]
    BY <1>7 DEF Return, Goto
  <2>2. Stores(slots, {}, before) /\ ~Room
    BY <1>1, <1>2, <1>3, <1>4, <1>7 DEF Room
  <2>3. Outcome
    BY <1>1, <2>1, <2>2 DEF Outcome, Told, Holds
  <2>4. VInv'
    BY <1>1, <2>1 DEF VInv, PutLabels, RemLabels
  <2>5. QED BY <2>3, <2>4
<1>8. CASE usedslots < maxslots /\ ~(slots[h].count > 0 /\ get_idx(w.key) # -1)
  <2>1. ~Has(slots, w.key)
    <3>1. CASE slots[h].count > 0
      BY <1>1, <1>8, <3>1, GetIdxFinds
    <3>2. CASE ~(slots[h].count > 0)
      <4>1. Named(slots, h) = {}
        BY <1>1, <1>2, <3>2, NoneHere DEF Settled, Whole
      <4>2. QED BY <1>1, <1>2, <4>1 DEF Has, Placed, Named
    <3>3. QED BY <3>1, <3>2
  <2>2. Holds(slots, {}, Rest)
    BY <1>1, <2>1, RestIs DEF Holds
  <2>3. PICK i \in Slots, c \in {1, -1}, l \in {"putCount", "move"} :
          w' = [w EXCEPT !.idx = i, !.cnt = c] /\ wpc' = l
    <3>1. e \in Index
      BY <1>1, DistType, FindEmptyIs
    <3>2. \/ w' = [w EXCEPT !.idx = h, !.cnt = 1] /\ wpc' = "putCount"
          \/ w' = [w EXCEPT !.idx = e, !.cnt = -1] /\ wpc' = "putCount"
          \/ w' = [w EXCEPT !.idx = e, !.cnt = 1] /\ wpc' = "move"
      BY <1>2, <1>6, <1>8 DEF ChoosePlace, Goto
    <3>3. QED BY <1>1, <1>6, <1>8, <3>1, <3>2 DEF Index
  <2>4. w'.key = w.key /\ w'.val = w.val
    BY <1>1, <2>3 DEF Call
  <2>5. Room' /\ Holds(slots', {}, Rest')
    BY <1>1, <1>5, <1>8, <2>2, <2>4, Kept
  <2>6. QED BY <2>3, <2>5 DEF VInv, RemLabels
<1>9. CASE usedslots < maxslots /\ slots[h].count > 0 /\ get_idx(w.key) # -1
  <2>1. w' = [w EXCEPT !.again = TRUE] /\ wpc' = "remove"
    BY <1>1, <1>2, <1>9 DEF ChoosePlace, Goto, Slot, Written
  <2>2. w'.key = w.key /\ w'.val = w.val /\ w'.again /\ w'.then = "removed" /\ w'.op = "put"
    BY <1>1, <2>1 DEF Call
  <2>3. Has(slots, w.key)
    BY <1>1, <1>9, GetIdxFinds
  <2>4. ~Stores(slots, {}, Rest)
    <3>1. w.key \notin DOMAIN Rest
      BY DEF Rest
    <3>2. QED BY <2>3, <3>1, StoredKeys
  <2>5. Holds(slots, {}, before) /\ w.key \in DOMAIN before
    BY <1>1, <2>3, <2>4, StoredKeys DEF Holds
  <2>6. Room' /\ Holds(slots', {}, before') /\ w'.key \in DOMAIN before'
    BY <1>1, <1>5, <1>9, <2>2, <2>5, Kept
  <2>7. QED BY <2>1, <2>2, <2>6 DEF VInv, PutLabels, RemLabels
<1>10. QED BY <1>2, <1>7, <1>8, <1>9 DEF ChoosePlace, Written

\* Copying a slot, and releasing it where it was, keeps what the table holds.
LEMMA CopyingHolds ==
  ASSUME Written, NEW from \in Slots, NEW to \in Slots, slots[to].count = 0, slots[from].count < 0,
         copy_slot(to, from), slots' \in Tables, Linked(slots, {}), NEW X, NEW m, Holds(slots, X, m)
  PROVE  Holds(Without(slots', to), X, m)
<1>1. slots' = [slots EXCEPT ![to] = slots[from]] /\ slots \in Tables
  BY DEF copy_slot, Written, Tables
<1>2. \A x \in Slots \ {to} : slots'[x] = slots[x]
  BY <1>1 DEF Tables
<1>3. Holds(Without(slots, to), X, m) /\ Linked(Without(slots, to), {})
  BY <1>1, BesideHolds
<1>4. QED BY <1>1, <1>2, <1>3, BeneathHolds

LEMMA FreeingHolds ==
  ASSUME Written, NEW from \in Slots, NEW to \in Slots, Copied(from, to), remove_slot(from),
         Linked(Without(slots, to), {}), NEW X, NEW m, Holds(Without(slots, to), X, m)
  PROVE  Holds(BackAt(slots', from, to), X, m) /\ SameBytes(slots'[from], slots'[to])
<1>1. slots' = [slots EXCEPT ![from].count = 0] /\ from # to /\ slots \in Tables
  BY DEF remove_slot, Copied, Written, Tables, Slot
<1>2. slots' \in Tables /\ Same(Without(slots, to), BackAt(slots', from, to))
  BY Freeing
<1>3. \A x \in Slots : SameBytes(slots[x], slots'[x])
  BY <1>1 DEF SameBytes, Tables, Slot
<1>4. Without(slots, to) \in Tables /\ BackAt(slots', from, to) \in Tables
  BY <1>1, <1>2, WithoutIs, BackAtIs
<1>5. \A x \in Slots : /\ SameBytes(slots[x], Without(slots, to)[x])
                       /\ SameBytes(slots'[x], BackAt(slots', from, to)[x])
  BY <1>1, <1>2, WithoutBytes, BackAtBytes
<1>6. AlikeBytes(Without(slots, to), BackAt(slots', from, to))
  BY <1>3, <1>5 DEF AlikeBytes, SameBytes
<1>7. Holds(BackAt(slots', from, to), X, m)
  BY <1>2, <1>4, <1>6, SameAlike, AlikeHolds
<1>8. SameBytes(slots'[from], slots'[to])
  BY <1>3 DEF Copied, SameBytes
<1>9. QED BY <1>7, <1>8

\* So does naming it where it is now.
LEMMA AdjustedHolds ==
  ASSUME NEW T \in Tables, NEW U \in Tables, NEW C, NEW used, NEW keys, NEW from \in Slots, NEW to \in Slots,
         T = BackAt(slots, from, to), Whole(T, {}, C, used, keys), Written,
         Moving(from, to),
         \A x \in Slots :
           /\ x # to => U[x].count = slots[x].count
           /\ U[x].key = slots[x].key
           /\ U[x].link = IF slots[to].count = -2 /\ x = slots[to].hash THEN to ELSE slots[x].link
           /\ SameBytes(slots[x], U[x]),
         \/ U[to].count = slots[to].count
         \/ U[to].count > 0 /\ slots[to].count = -1,
         SameBytes(slots[from], slots[to]), NEW m, Holds(T, {}, m)
  PROVE  Holds(U, {}, m)
<1>1. /\ slots \in Tables /\ from # to
      /\ \A x \in Slots :
           /\ T[x].count = IF x = to THEN 0 ELSE IF x = from THEN slots[to].count ELSE slots[x].count
           /\ Keeps(slots, T, x)
           /\ SameBytes(slots[x], T[x])
  <2>1. slots \in Tables /\ from # to
    BY DEF Written, Tables, Moving
  <2>2. QED BY <2>1, BackAtIs, BackAtBytes
<1>2. /\ T[to].count = 0 /\ T[from].count = slots[to].count /\ T[from].count < 0 /\ from \in Busy(T)
      /\ T[from].hash = slots[to].hash /\ T[from].link = slots[to].link /\ T[from].key = slots[to].key
      /\ T[from].count = -2 => slots[to].hash # to
  <2>1. /\ T[to].count = 0 /\ T[from].count = slots[to].count /\ T[from].count < 0 /\ from \in Busy(T)
        /\ T[from].hash = slots[to].hash /\ T[from].link = slots[to].link /\ T[from].key = slots[to].key
    BY <1>1 DEF Moving, Keeps, Busy
  <2>2. QED BY <2>1 DEF Whole, InOrder, Linked, Busy
<1>3. U[from].count = 0 /\ U[to].key = T[from].key /\ U[to].link = T[from].link
  BY <1>1, <1>2 DEF Moving
<1>4. \A x \in Slots \ {from, to} :
        /\ U[x].count = T[x].count /\ U[x].key = T[x].key
        /\ U[x].link = IF T[from].count = -2 /\ x = T[from].hash THEN to ELSE T[x].link
        /\ SameBytes(T[x], U[x])
  <2> SUFFICES ASSUME NEW x \in Slots \ {from, to}
               PROVE  /\ U[x].count = T[x].count /\ U[x].key = T[x].key
                      /\ U[x].link = IF T[from].count = -2 /\ x = T[from].hash THEN to ELSE T[x].link
                      /\ SameBytes(T[x], U[x])
    OBVIOUS
  <2>1. T[x].count = slots[x].count /\ Keeps(slots, T, x) /\ SameBytes(slots[x], T[x])
    BY <1>1
  <2>2. QED BY <1>2, <2>1 DEF Keeps, SameBytes
<1>5. \A x \in Slots : SameBytes(T[x], U[x])
  BY <1>1 DEF SameBytes
<1>6. SameBytes(T[from], U[to])
  BY <1>1 DEF SameBytes
<1>7. Linked(T, {}) /\ Spelled(T, {}) /\ Stores(T, {}, m)
  BY DEF Whole, InOrder, Holds
<1>8. Spelled(U, {})
  <2>1. U[to].count # -2 => T[from].count # -2
    BY <1>2
  <2>2. \A i \in Slots \ {to} : SameBytes(T[i], U[i])
    BY <1>5
  <2>3. \A x \in Slots \ {from, to} :
          /\ U[x].count = T[x].count /\ U[x].key = T[x].key
          /\ U[x].link = IF T[from].count = -2 /\ x = T[from].hash THEN to ELSE T[x].link
    BY <1>4
  <2>4. QED BY <1>2, <1>3, <1>6, <1>7, <2>1, <2>2, <2>3, RelocatedSpelled
<1>9. Stores(U, {}, m)
  <2>1. \/ U[to].count = T[from].count
        \/ U[to].count > 0 /\ T[from].count = -1
    BY <1>2
  <2>2. \A i \in Slots \ {from, to} : U[i].count = T[i].count /\ U[i].key = T[i].key /\ SameBytes(T[i], U[i])
    BY <1>4
  <2>3. QED BY <1>2, <1>3, <1>6, <1>7, <2>1, <2>2, RelocatedStores
<1>10. QED BY <1>8, <1>9 DEF Holds

\* Links and counts are adjusted beside the bytes.
LEMMA MovedBytes ==
  ASSUME Written, NEW i \in Slots
  PROVE  \A x \in Slots : SameBytes(slots[x], MovedLinks(i)[x])
<1> DEFINE mother == IF slots[i].count = -2
                     THEN [slots EXCEPT ![slots[i].hash].link = i] ELSE slots
<1>1. mother \in [Slots -> Slot] /\ \A x \in Slots : SameBytes(slots[x], mother[x])
  BY DEF Written, Slot, Index, SameBytes
<1>2. MovedLinks(i) = [x \in Slots |->
         [mother[x] EXCEPT !.hash = IF x = mother[i].link THEN i ELSE @]]
  BY DEF MovedLinks
<1> HIDE DEF mother
<1>3. ASSUME NEW x \in Slots PROVE SameBytes(mother[x], MovedLinks(i)[x])
  <2>1. PICK s, h : s = mother[x] /\ h = IF x = mother[i].link THEN i ELSE mother[x].hash
    OBVIOUS
  <2>2. MovedLinks(i)[x] = [s EXCEPT !.hash = h]
    BY <1>2, <2>1
  <2>3. s \in Slot
    BY <1>1, <2>1
  <2>4. QED BY <2>1, <2>2, <2>3 DEF Slot, SameBytes
<1>4. QED BY <1>1, <1>3 DEF SameBytes

LEMMA PromotedBytes ==
  ASSUME Written, NEW i \in Slots, NEW n
  PROVE  \A x \in Slots : SameBytes(slots[x], Promoted(i, n)[x])
<1> SUFFICES ASSUME NEW x \in Slots PROVE SameBytes(slots[x], Promoted(i, n)[x])
  OBVIOUS
<1>1. PICK s, c, h : /\ s = slots[x]
                     /\ c = IF x = i THEN n ELSE slots[x].count
                     /\ h = IF x = slots[i].link THEN i ELSE slots[x].hash
  OBVIOUS
<1>2. Promoted(i, n)[x] = [s EXCEPT !.count = c, !.hash = h]
  BY <1>1 DEF Promoted
<1>3. s \in Slot
  BY <1>1 DEF Written
<1>4. QED BY <1>1, <1>2, <1>3 DEF Slot, SameBytes

\* The slot in the way is copied, released where it was, and its neighbours name it.
LEMMA MoveValues == ASSUME WInv, WInv', SInv, VInv, Move PROVE VInv'
<1>1. /\ wpc = "move" /\ wpc' = "moveFree" /\ w' = w /\ before' = before
      /\ Settled /\ slots[w.idx].count = 0 /\ slots[Home].count < 0 /\ copy_slot(w.idx, Home)
      /\ w.key \in Keys /\ Holds(slots, {}, Rest) /\ Room
  BY Going DEF Move, Goto, still, SInv, VInv, Quiet, PutLabels, Home
<1>2. Linked(slots, {})
  BY <1>1 DEF Settled, Whole, InOrder
<1>3. Holds(Without(slots', w.idx), {}, Rest)
  BY <1>1, <1>2, Going, CopyingHolds
<1>4. Holds(Without(slots', w'.idx), {}, Rest') /\ Room'
  BY <1>1, <1>3, Kept
<1>5. QED BY <1>1, <1>4 DEF VInv, RemLabels

LEMMA MoveFreeValues == ASSUME WInv, WInv', SInv, VInv, MoveFree PROVE VInv'
<1>1. /\ wpc = "moveFree" /\ wpc' = "moveLinks" /\ w' = w /\ before' = before
      /\ Linked(Without(slots, w.idx), {}) /\ Copied(Home, w.idx) /\ remove_slot(Home)
      /\ w.key \in Keys /\ Holds(Without(slots, w.idx), {}, Rest) /\ Room
  BY Going DEF MoveFree, Goto, still, SInv, VInv, PutLabels, Home, Whole, InOrder
<1>2. Holds(BackAt(slots', Home, w.idx), {}, Rest) /\ SameBytes(slots'[Home], slots'[w.idx])
  BY <1>1, Going, FreeingHolds
<1>3. Home' = Home /\ Rest' = Rest /\ Room'
  BY <1>1, Kept DEF Home
<1>4. QED BY <1>1, <1>2, <1>3 DEF VInv, RemLabels

LEMMA MoveLinksValues == ASSUME WInv, WInv', SInv, VInv, MoveLinks PROVE VInv'
<1> DEFINE T == BackAt(slots, Home, w.idx)
<1>1. /\ wpc = "moveLinks" /\ wpc' = "putCount" /\ w' = [w EXCEPT !.idx = Home] /\ before' = before
      /\ Whole(T, {}, Lead(T), usedslots, num) /\ Moving(Home, w.idx)
      /\ slots' = MovedLinks(w.idx) /\ w.key \in Keys
      /\ Holds(T, {}, Rest) /\ SameBytes(slots[Home], slots[w.idx]) /\ Room
  BY Going DEF MoveLinks, Goto, still, SInv, VInv, PutLabels, Home
<1>2. w'.key = w.key /\ w'.val = w.val
  BY <1>1, Going DEF Call
<1>3. Home \in Slots /\ T \in Tables /\ slots' \in Tables /\ Home # w.idx /\ w.idx \in Slots
  <2>1. Home # w.idx
    BY <1>1 DEF Moving
  <2>2. QED BY <1>1, <2>1, Going, BackAtIs
<1>4. slots[w.idx].count = -2 => slots[w.idx].hash # w.idx
  <2>1. /\ T[w.idx].count = 0 /\ T[Home].count = slots[w.idx].count
        /\ T[Home].hash = slots[w.idx].hash
    BY <1>1, <1>3, Going, BackAtIs DEF Moving, Keeps
  <2>2. QED BY <1>1, <1>3, <2>1 DEF Whole, InOrder, Linked, Busy
<1>5. \A x \in Slots :
        /\ slots'[x].count = slots[x].count
        /\ slots'[x].key = slots[x].key
        /\ slots'[x].link = IF slots[w.idx].count = -2 /\ x = slots[w.idx].hash THEN w.idx
                            ELSE slots[x].link
  BY <1>1, <1>3, <1>4, Going, MovedLinksIs
<1>6. \A x \in Slots : SameBytes(slots[x], slots'[x])
  BY <1>1, <1>3, Going, MovedBytes
<1>7. Holds(slots', {}, Rest)
  BY <1>1, <1>3, <1>5, <1>6, Going, AdjustedHolds
<1>8. Rest' = Rest /\ Room'
  BY <1>1, <1>2, Kept
<1>9. QED BY <1>1, <1>7, <1>8 DEF VInv, RemLabels

\* The key's first slot is filled beside the table: its count, ...
LEMMA PutCountValues == ASSUME WInv, WInv', SInv, VInv, PutCount PROVE VInv'
<1>1. /\ wpc = "putCount" /\ before' = before /\ Settled /\ slots[w.idx].count = 0
      /\ Holds(slots, {}, Rest) /\ Room
  BY DEF PutCount, still, SInv, VInv, Quiet, PutLabels
<1>2. wpc' = "putHash" /\ w' = w /\ slots' = [slots EXCEPT ![w.idx].count = w.cnt]
  BY <1>1 DEF PutCount, Goto
<1>3. \A x \in Slots \ {w.idx} : slots'[x] = slots[x]
  BY <1>2, Going DEF Tables
<1>4. Holds(Without(slots, w.idx), {}, Rest) /\ Linked(Without(slots, w.idx), {})
  BY <1>1, Going, BesideHolds DEF Settled, Whole, InOrder
<1>5. Holds(Without(slots', w.idx), {}, Rest)
  BY <1>3, <1>4, Going, BeneathHolds
<1>6. Rest' = Rest /\ Room'
  BY <1>1, <1>2, Kept
<1>7. QED BY <1>2, <1>5, <1>6 DEF VInv, RemLabels

\* ... its hash, ...
LEMMA PutHashValues == ASSUME WInv, WInv', SInv, VInv, PutHash PROVE VInv'
<1>1. /\ wpc = "putHash" /\ wpc' = "putKey" /\ w' = w /\ before' = before /\ Growing
      /\ slots' = [slots EXCEPT ![w.idx].hash = Hash[w.key]]
      /\ Holds(Without(slots, w.idx), {}, Rest) /\ Room
  BY DEF PutHash, Goto, still, SInv, VInv, PutLabels
<1>2. \A x \in Slots \ {w.idx} : slots'[x] = slots[x]
  BY <1>1, Going DEF Tables
<1>3. Linked(Without(slots, w.idx), {})
  BY <1>1 DEF Growing, Whole, InOrder
<1>4. Holds(Without(slots', w.idx), {}, Rest)
  BY <1>1, <1>2, <1>3, Going, BeneathHolds
<1>5. Rest' = Rest /\ Room'
  BY <1>1, Kept
<1>6. QED BY <1>1, <1>4, <1>5 DEF VInv, RemLabels

\* ... its key, ...
LEMMA PutKeyValues == ASSUME WInv, WInv', SInv, VInv, PutKey PROVE VInv'
<1>1. /\ wpc = "putKey" /\ wpc' = "putEnd" /\ w' = [w EXCEPT !.cur = w.idx] /\ before' = before
      /\ Growing /\ slots' = [slots EXCEPT ![w.idx].key = w.key]
      /\ Holds(Without(slots, w.idx), {}, Rest) /\ Room
  BY DEF PutKey, Goto, still, SInv, VInv, PutLabels
<1>2. \A x \in Slots \ {w.idx} : slots'[x] = slots[x]
  BY <1>1, Going DEF Tables
<1>3. Linked(Without(slots, w.idx), {})
  BY <1>1 DEF Growing, Whole, InOrder
<1>4. Holds(Without(slots', w.idx), {}, Rest)
  BY <1>1, <1>2, <1>3, Going, BeneathHolds
<1>5. w'.idx = w.idx /\ w'.key = w.key /\ w'.val = w.val
  BY <1>1, Going DEF Call
<1>6. Rest' = Rest /\ Room'
  BY <1>1, <1>5, Kept
<1>7. QED BY <1>1, <1>4, <1>5, <1>6 DEF VInv, RemLabels

\* What a chunk and its size change.
LEMMA FilledIs ==
  ASSUME NEW S \in Tables, NEW i \in Slots, NEW d \in Bytes, NEW n \in Size,
         NEW U, U = FilledAt(S, i, d, n)
  PROVE  /\ U \in Tables
         /\ \A x \in Slots : U[x].count = S[x].count /\ Keeps(S, U, x)
         /\ \A x \in Slots \ {i} : U[x] = S[x]
         /\ U[i].data = d /\ U[i].size = n
<1>1. PICK s, t : s = S[i] /\ t = [[s EXCEPT !.data = d] EXCEPT !.size = n]
  OBVIOUS
<1>2. s \in Slot
  BY <1>1 DEF Tables
<1>3. /\ t \in Slot /\ t.data = d /\ t.size = n /\ t.count = s.count
      /\ t.hash = s.hash /\ t.link = s.link /\ t.key = s.key
  BY <1>1, <1>2 DEF Slot
<1>4. U = [S EXCEPT ![i] = t]
  BY <1>1 DEF Tables, FilledAt
<1>5. U \in Tables /\ U[i] = t /\ \A x \in Slots \ {i} : U[x] = S[x]
  BY <1>3, <1>4 DEF Tables
<1>6. QED BY <1>1, <1>3, <1>5 DEF Keeps

\* The chunk that put writes next.
LEMMA ChunkIs ==
  ASSUME WInv, wpc \in PutLabels \ {"put", "undone"}
  PROVE  /\ Chunk(w.key, w.val, w.done) \in Bytes /\ ChunkSize(w.val, w.done) \in Size
         /\ ChunkSize(w.val, w.done) \in Nat \ {0}
         /\ Chunk(w.key, w.val, w.done).key = w.key /\ Chunk(w.key, w.val, w.done).val = w.val
         /\ Chunk(w.key, w.val, w.done).from = w.done
<1>1. w.key \in Keys /\ w.val \in Values /\ w.done \in Nat /\ w.done < ValSize[w.val]
  BY InPut
<1>2. QED BY <1>1, ChunkSizeType DEF Chunk, Bytes

\* ... and the end of its chain: from here on the key is taken to be stored.
LEMMA PutEndValues == ASSUME WInv, WInv', SInv, VInv, PutEnd PROVE VInv'
<1> DEFINE k == w.key
           x == w.idx
           T == Without(slots, x)
           U == FilledAt(slots', x, Chunk(k, w.val, 0), ChunkSize(w.val, 0))
<1>1. /\ wpc = "putEnd" /\ wpc' = "putValue" /\ w' = w /\ before' = before /\ Growing /\ Headed
      /\ w.done = 0 /\ w.cur = x /\ slots' = [slots EXCEPT ![x].link = -1]
      /\ Holds(T, {}, Rest) /\ Room /\ w.key \in Keys /\ w.val \in Values /\ w.cnt \in {1, -1}
  BY InPut DEF PutEnd, Goto, still, SInv, VInv, PutLabels, Headed
<1>2. /\ T \in Tables /\ Linked(T, {}) /\ Chosen /\ slots[x].count = w.cnt
      /\ \A i \in Slots : /\ T[i].count = (IF i = x THEN 0 ELSE slots[i].count) /\ Keeps(slots, T, i)
                          /\ SameBytes(slots[i], T[i])
  <2>1. Linked(T, {}) /\ Chosen /\ slots[x].count = w.cnt
    BY <1>1 DEF Growing, Whole, InOrder
  <2>2. QED BY <2>1, Going, WithoutIs, WithoutBytes
<1>3. /\ slots'[x].hash = Home /\ slots'[x].count = w.cnt /\ slots'[x].key = k /\ slots'[x].link = -1
      /\ \A i \in Slots \ {x} : slots'[i] = slots[i]
  BY <1>1, <1>2, Going DEF Written, Slot, Headed
<1>4. /\ U \in Tables
      /\ \A i \in Slots : U[i].count = slots'[i].count /\ Keeps(slots', U, i)
      /\ \A i \in Slots \ {x} : U[i] = slots'[i]
      /\ U[x].data = Chunk(k, w.val, 0) /\ U[x].size = ChunkSize(w.val, 0)
  <2>1. Chunk(k, w.val, 0) \in Bytes /\ ChunkSize(w.val, 0) \in Size
    BY <1>1, ChunkIs DEF PutLabels
  <2>2. QED BY <2>1, Going, FilledIs
<1> HIDE DEF T, U
<1>5. Beside(T, U, x) /\ AlikeBytes(T, U) /\ T[x].count = 0
  BY <1>2, <1>3, <1>4, Going DEF Beside, Keeps, AlikeBytes, SameBytes
<1>6. FirstOf(U, x, k)
  BY <1>1, <1>2, <1>3, <1>4, Going DEF FirstOf, Chosen, Home, Keeps
<1>7. Spelled(U, {x})
  BY <1>1, <1>2, <1>4, <1>5, <1>6, Going, LeadSpelled DEF Holds
<1>8. k \notin DOMAIN Rest /\ DOMAIN Rest \cup {k} = DOMAIN before \cup {k}
      /\ \A j \in DOMAIN before \ {k} : Rest[j] = before[j]
  BY DEF Rest
<1>9. Stores(U, {}, New)
  <2>1. Stores(U, {}, Plus(Rest, k, U[x].data.val))
    BY <1>1, <1>2, <1>4, <1>5, <1>6, <1>8, Going, LeadStores DEF Holds
  <2>2. U[x].data.val = w.val
    BY <1>4 DEF Chunk
  <2>3. Plus(Rest, k, U[x].data.val) = New
    BY <1>8, <2>2 DEF New, Plus
  <2>4. QED BY <2>1, <2>3
<1>10. Filled' = U /\ New' = New /\ Room'
  BY <1>1, Kept DEF Filled, U
<1>11. Holds(Filled', {w'.cur}, New')
  BY <1>1, <1>7, <1>9, <1>10 DEF Holds
<1>12. slots'[w'.idx].key = w'.key
  BY <1>1, <1>3
<1>13. QED BY <1>1, <1>10, <1>11, <1>12 DEF VInv, RemLabels

\* The chunk is written in two stores.
LEMMA FilledBoth ==
  ASSUME NEW S \in Tables, NEW U \in Tables, NEW i \in Slots, NEW d \in Bytes, NEW n \in Size,
         \A x \in Slots : U[x].count = S[x].count /\ Keeps(S, U, x),
         \A x \in Slots \ {i} : U[x] = S[x]
  PROVE  /\ FilledAt(U, i, d, n) = FilledAt(S, i, d, n)
         /\ U[i].data = d /\ U[i].size = n => FilledAt(S, i, d, n) = U
<1>1. PICK F, G : F = FilledAt(S, i, d, n) /\ G = FilledAt(U, i, d, n)
  OBVIOUS
<1>2. /\ F \in Tables /\ G \in Tables
      /\ \A x \in Slots : F[x].count = S[x].count /\ Keeps(S, F, x)
      /\ \A x \in Slots : G[x].count = U[x].count /\ Keeps(U, G, x)
      /\ \A x \in Slots \ {i} : F[x] = S[x] /\ G[x] = U[x]
      /\ F[i].data = d /\ F[i].size = n /\ G[i].data = d /\ G[i].size = n
  BY <1>1, FilledIs
<1>3. F[i] \in Slot /\ G[i] \in Slot /\ U[i] \in Slot
  BY <1>2 DEF Tables
<1>4. F[i] = G[i] /\ (U[i].data = d /\ U[i].size = n => F[i] = U[i])
  BY <1>2, <1>3 DEF Keeps, Slot
<1>5. \A x \in Slots : F[x] = G[x] /\ (U[i].data = d /\ U[i].size = n => F[x] = U[x])
  BY <1>2, <1>4
<1>6. F = G /\ (U[i].data = d /\ U[i].size = n => F = U)
  BY <1>2, <1>5 DEF Tables
<1>7. QED BY <1>1, <1>6

\* A chunk is stored: first its bytes, ...
LEMMA PutValueValues == ASSUME WInv, WInv', SInv, VInv, PutValue PROVE VInv'
<1> DEFINE D == Chunk(w.key, w.val, w.done)
           n == ChunkSize(w.val, w.done)
<1>1. /\ wpc = "putValue" /\ wpc' = "putSize" /\ w' = w /\ before' = before
      /\ slots' = [slots EXCEPT ![w.cur].data = D]
      /\ Holds(Filled, {w.cur}, New) /\ Room /\ slots[w.idx].key = w.key
  BY DEF PutValue, Goto, still, VInv, PutLabels
<1>2. D \in Bytes /\ n \in Size
  BY <1>1, ChunkIs DEF PutLabels
<1>3. slots'[w.cur].data = D
  BY <1>1, Going DEF Written, Slot
<1>4. /\ slots'[w.idx].key = w.key
      /\ \A x \in Slots : slots'[x].count = slots[x].count /\ Keeps(slots, slots', x)
      /\ \A x \in Slots \ {w.cur} : slots'[x] = slots[x]
  BY <1>1, Going, DataStored DEF Keeps
<1> HIDE DEF D, n
<1>5. FilledAt(slots', w.cur, D, n) = FilledAt(slots, w.cur, D, n)
  BY <1>2, <1>4, Going, FilledBoth
<1>6. Filled' = Filled
  BY <1>1, <1>5 DEF Filled, D, n
<1>7. Holds(Filled', {w'.cur}, New') /\ Room'
  BY <1>1, <1>6, Kept
<1>8. QED BY <1>1, <1>3, <1>4, <1>7 DEF VInv, RemLabels, D

\* More slots may lack what follows; a complete one does not.
LEMMA SpelledMore ==
  ASSUME NEW T, NEW X, NEW Y, X \subseteq Y, Spelled(T, X)
  PROVE  Spelled(T, Y)
BY DEF Spelled

LEMMA SpelledOut ==
  ASSUME NEW T, NEW e, Spelled(T, {e}), End(T[e]) = ValSize[T[e].data.val]
  PROVE  Spelled(T, {})
BY DEF Spelled

\* What is stored in full fits the table.
LEMMA NewFits ==
  ASSUME NEW T \in Tables, Linked(T, {}), Placed(T, {}), Holds(T, {}, New)
  PROVE  ~TooMuch
<1>1. Table!Used(New) = Cardinality(Busy(T))
  BY UsedIs
<1>2. QED BY <1>1, AtMostAll, TableAssumption DEF TooMuch

\* ... and then its size.  With the last chunk the value is stored.
LEMMA PutSizeValues ==
  ASSUME WInv, WInv', SInv, VInv, PutSize
  PROVE  VInv' /\ (wpc' = "idle" => Outcome)
<1> DEFINE D == Chunk(w.key, w.val, w.done)
           n == ChunkSize(w.val, w.done)
<1>1. /\ wpc = "putSize" /\ before' = before /\ slots' = [slots EXCEPT ![w.cur].size = n]
      /\ slots[w.cur].data = D /\ Holds(Filled, {w.cur}, New) /\ Room
      /\ slots[w.idx].key = w.key
  BY DEF PutSize, Goto, still, VInv, PutLabels
<1>2. /\ D \in Bytes /\ n \in Size /\ n \in Nat \ {0}
      /\ D.key = w.key /\ D.val = w.val /\ D.from = w.done
      /\ w.op = "put" /\ w.val \in Values /\ w.done \in Nat /\ w.done < ValSize[w.val]
      /\ ValSize[w.val] \in Nat /\ w \in Call
  BY <1>1, ChunkIs, InPut, Going DEF PutLabels
<1>3. slots'[w.cur].data = D /\ slots'[w.cur].size = n
  BY <1>1, Going DEF Written, Slot
<1>4. /\ slots'[w.idx].key = w.key
      /\ \A x \in Slots : slots'[x].count = slots[x].count /\ Keeps(slots, slots', x)
      /\ \A x \in Slots \ {w.cur} : slots'[x] = slots[x]
  BY <1>1, Going, DataStored DEF Keeps
<1>5. w.done + n <= ValSize[w.val]
  BY <1>2, TableAssumption DEF ChunkSize, Smaller
<1> HIDE DEF D, n
<1>6. FilledAt(slots, w.cur, D, n) = slots'
  BY <1>2, <1>3, <1>4, Going, FilledBoth
<1>7. Holds(slots', {w.cur}, New)
  BY <1>1, <1>6 DEF Filled, D, n
<1>8. /\ slots'[w.cur].data.key = w.key /\ slots'[w.cur].data.val = w.val
      /\ End(slots'[w.cur]) = w.done + n
  BY <1>2, <1>3 DEF End
<1>9. CASE w.done + n < ValSize[w.val]
  <2>1. w' = [w EXCEPT !.done = @ + n] /\ wpc' = "putExt"
    BY <1>2, <1>9 DEF PutSize, Goto, n
  <2>2. /\ w'.key = w.key /\ w'.val = w.val /\ w'.cur = w.cur /\ w'.idx = w.idx
        /\ w'.done = w.done + n
    BY <1>2, <2>1 DEF Call
  <2>3. Cut'
    BY <1>8, <2>2 DEF Cut
  <2>4. Room' /\ Holds(slots', {w'.cur}, New')
    BY <1>1, <1>7, <2>2, Kept
  <2>5. QED BY <1>4, <2>1, <2>2, <2>3, <2>4 DEF VInv, RemLabels
<1>10. CASE ~(w.done + n < ValSize[w.val])
  <2>1. Holds(slots', {}, New)
    <3>1. End(slots'[w.cur]) = ValSize[slots'[w.cur].data.val]
      BY <1>2, <1>5, <1>8, <1>10
    <3>2. QED BY <1>7, <3>1, SpelledOut DEF Holds
  <2>2. CASE wpc' = "putLead" /\ w' = w
    <3>1. Room' /\ Holds(slots', {}, New')
      BY <1>1, <2>1, <2>2, Kept
    <3>2. QED BY <2>2, <3>1 DEF VInv, RemLabels
  <2>3. CASE Return("ok")
    <3>1. wpc' = "idle" /\ Told("ok")
      BY <2>3 DEF Return, Goto, Told
    <3>2. Linked(slots', {}) /\ Placed(slots', {})
      BY PutSizeWhole DEF Whole, InOrder
    <3>3. ~TooMuch
      BY <2>1, <3>2, Going, NewFits
    <3>4. Outcome
      BY <1>1, <1>2, <2>1, <3>1, <3>3 DEF Outcome
    <3>5. VInv'
      BY <2>1, <3>1 DEF VInv, PutLabels, RemLabels, Holds
    <3>6. QED BY <3>4, <3>5
  <2>4. QED BY <1>2, <1>10, <2>2, <2>3 DEF PutSize, Goto, n
<1>11. QED BY <1>9, <1>10

\* Without the key, the table that put makes is the one it began with.
LEMMA RestOfNew == [k \in DOMAIN New \ {w.key} |-> New[k]] = Rest
<1>1. DOMAIN New \ {w.key} = DOMAIN before \ {w.key}
  BY DEF New
<1>2. \A k \in DOMAIN before \ {w.key} : New[k] = before[k]
  BY DEF New
<1>3. [k \in DOMAIN before \ {w.key} |-> New[k]] = [k \in DOMAIN before \ {w.key} |-> before[k]]
  BY <1>2
<1>4. QED BY <1>1, <1>3 DEF Rest

\* A value that finds no room for its next chunk is larger than what is left.
LEMMA NoRoomLeft ==
  ASSUME WInv, Written, slots \in Tables, Linked(slots, {}), Placed(slots, {}), NEW start \in Slots,
         find_empty(start) = -1, NEW e \in Busy(slots), Holds(slots, {e}, New), slots[e].link = -1,
         End(slots[e]) < ValSize[slots[e].data.val]
  PROVE  TooMuch
<1>1. Cardinality(Busy(slots)) < Table!Used(New)
  BY UsedLess
<1>2. ~(Cardinality(Busy(slots)) < maxslots)
  BY SomeEmpty
<1>3. Table!Used(New) \in Nat
  <2>1. Known(New)
    BY HeldKnown
  <2>2. QED BY <2>1, UsedRest DEF Known
<1>4. QED BY <1>1, <1>2, <1>3, AtMostAll, TableAssumption DEF TooMuch

\* So it is removed again, its first slot first.
LEMMA UndoValues ==
  ASSUME WInv, WInv', SInv, VInv, wpc = "putExt", find_empty(After(w.cur)) = -1,
         w' = [w EXCEPT !.cur = w.idx, !.then = "undone"], wpc' = "remData", slots' = slots,
         before' = before
  PROVE  VInv'
<1>1. /\ Holds(slots, {w.cur}, New) /\ Cut /\ Room /\ slots[w.idx].key = w.key
      /\ Extending(slots, usedslots) /\ Last
  BY DEF VInv, SInv, PutLabels
<1>2. /\ w'.key = w.key /\ w'.val = w.val /\ w'.cur = w.idx /\ w'.then = "undone" /\ w'.op = "put"
      /\ w.cnt \in {1, -1} /\ w.done < ValSize[w.val]
  BY Going, InPut DEF Call, PutLabels
<1>3. /\ Linked(slots, {}) /\ Placed(slots, {}) /\ slots[w.idx].count = w.cnt
  BY <1>1 DEF Extending, Whole, InOrder
<1>4. w.cur \in Busy(slots) /\ slots[w.cur].link = -1 /\ w.idx \in Leading(slots)
      /\ w.idx \in Busy(slots) /\ slots[w.idx].count # -2
  BY <1>1, <1>2, <1>3, Going DEF Last, Busy, Leading
<1>5. End(slots[w.cur]) < ValSize[slots[w.cur].data.val]
  BY <1>1, <1>2 DEF Cut
<1>6. TooMuch
  BY <1>1, <1>3, <1>4, <1>5, Going, DistType, NoRoomLeft
<1>7. Stores(slots, {w.idx}, Rest)
  <2>1. Stores(slots, {w.idx}, [k \in DOMAIN New \ {slots[w.idx].key} |-> New[k]])
    BY <1>1, <1>3, <1>4, OrphanedStores DEF Holds
  <2>2. QED BY <1>1, <2>1, RestOfNew
<1>8. Spelled(slots, InHand)
  <2>1. {w.cur} \subseteq InHand
    BY <1>1, Going DEF InHand, Cut
  <2>2. QED BY <1>1, <2>1, SpelledMore DEF Holds
<1>9. slots[w.idx].data.key = w.key
  BY <1>1, <1>4 DEF Holds, Spelled
<1>10. InHand' = InHand /\ Rest' = Rest /\ Room' /\ TooMuch'
  BY <1>1, <1>2, <1>6, Kept DEF InHand
<1>11. QED BY <1>2, <1>7, <1>8, <1>9, <1>10 DEF VInv, PutLabels

\* A slot for the next chunk: none, or one that is cleared, ...
LEMMA PutExtValues == ASSUME WInv, WInv', SInv, VInv, PutExt PROVE VInv'
<1> DEFINE e == find_empty(After(w.cur))
<1>1. /\ wpc = "putExt" /\ before' = before /\ Holds(slots, {w.cur}, New) /\ Cut /\ Room
      /\ slots[w.idx].key = w.key /\ Extending(slots, usedslots) /\ Last
      /\ w.cnt \in {1, -1}
  BY InPut DEF PutExt, still, VInv, SInv, PutLabels
<1>2. CASE e = -1
  BY <1>1, <1>2, UndoValues DEF PutExt, Goto
<1>3. CASE e # -1
  <2>1. slots' = [slots EXCEPT ![e] = EmptySlot] /\ w' = [w EXCEPT !.aux = e] /\ wpc' = "putExtHead"
    BY <1>3 DEF PutExt, Goto
  <2>2. e \in Slots /\ slots[e].count = 0
    BY <1>3, Going, DistType, FindEmptyIs DEF Index
  <2> HIDE DEF e
  <2>3. slots'[e].count = 0 /\ \A x \in Slots \ {e} : slots'[x] = slots[x]
    BY <2>1, <2>2, Going, EmptySlotType DEF Tables
  <2>4. Alike(slots, slots') /\ AlikeBytes(slots, slots')
    BY <2>2, <2>3 DEF Alike, Keeps, AlikeBytes, SameBytes
  <2>5. Linked(slots, {}) /\ slots[w.idx].count = w.cnt /\ w.idx # e /\ w.cur # e
    BY <1>1, <2>2 DEF Extending, Whole, InOrder, Last
  <2>6. Holds(slots', {w.cur}, New)
    BY <1>1, <2>4, <2>5, Going, AlikeHolds
  <2>7. w'.key = w.key /\ w'.val = w.val /\ w'.cur = w.cur /\ w'.idx = w.idx /\ w'.done = w.done
    BY <2>1, <2>2, Going DEF Call
  <2>8. slots'[w.cur] = slots[w.cur] /\ slots'[w.idx] = slots[w.idx]
    BY <2>3, <2>5, Going
  <2>9. Cut' /\ slots'[w'.idx].key = w'.key
    BY <1>1, <2>7, <2>8 DEF Cut
  <2>10. Room' /\ Holds(slots', {w'.cur}, New')
    BY <1>1, <2>6, <2>7, Kept
  <2>11. QED BY <2>1, <2>9, <2>10 DEF VInv, RemLabels
<1>4. QED BY <1>2, <1>3

\* ... its head, ...
LEMMA PutExtHeadValues == ASSUME WInv, WInv', SInv, VInv, PutExtHead PROVE VInv'
<1>1. /\ wpc = "putExtHead" /\ wpc' = "putLink" /\ w' = w /\ before' = before
      /\ Holds(slots, {w.cur}, New) /\ Cut /\ Room
      /\ slots[w.idx].key = w.key /\ Extending(slots, usedslots) /\ Last
      /\ slots[w.aux].count = 0 /\ w.cnt \in {1, -1}
  BY InPut DEF PutExtHead, Goto, still, VInv, SInv, PutLabels
<1>2. \A x \in Slots \ {w.aux} : slots'[x] = slots[x]
  BY Going DEF PutExtHead, Tables
<1>3. Linked(slots, {}) /\ slots[w.idx].count = w.cnt /\ w.idx # w.aux /\ w.cur # w.aux
  BY <1>1 DEF Extending, Whole, InOrder, Last
<1>4. Holds(Without(slots, w.aux), {w.cur}, New) /\ Linked(Without(slots, w.aux), {})
  BY <1>1, <1>3, Going, BesideHolds
<1>5. Holds(Without(slots', w.aux), {w.cur}, New)
  BY <1>2, <1>4, Going, BeneathHolds
<1>6. slots'[w.cur] = slots[w.cur] /\ slots'[w.idx] = slots[w.idx]
  BY <1>2, <1>3, Going
<1>7. Cut' /\ slots'[w'.idx].key = w'.key
  BY <1>1, <1>6 DEF Cut
<1>8. Room' /\ Holds(Without(slots', w'.aux), {w'.cur}, New')
  BY <1>1, <1>5, Kept
<1>9. QED BY <1>1, <1>7, <1>8 DEF VInv, RemLabels

\* ... and the link to it.
LEMMA PutLinkValues == ASSUME WInv, WInv', SInv, VInv, PutLink PROVE VInv'
<1> DEFINE T == Without(slots, w.aux)
           D == Chunk(w.key, w.val, w.done)
           n == ChunkSize(w.val, w.done)
           U == FilledAt(slots', w.aux, D, n)
<1>1. /\ wpc = "putLink" /\ wpc' = "putValue" /\ w' = [w EXCEPT !.cur = w.aux] /\ before' = before
      /\ Holds(T, {w.cur}, New) /\ Cut /\ Room /\ slots[w.idx].key = w.key
      /\ Extending(T, usedslots) /\ Last /\ w.cur # w.aux
      /\ slots[w.aux].count = -2 /\ slots[w.aux].link = -1
  BY DEF PutLink, Goto, still, VInv, SInv, PutLabels
<1>2. /\ w'.idx = w.idx /\ w'.key = w.key /\ w'.val = w.val /\ w'.cur = w.aux /\ w'.done = w.done
      /\ w.done \in Nat /\ w.done < ValSize[w.val]
  BY <1>1, Going, InPut DEF Call, PutLabels
<1>3. \A x \in Slots : /\ slots'[x].count = slots[x].count /\ slots'[x].key = slots[x].key
                       /\ slots'[x].data = slots[x].data /\ slots'[x].size = slots[x].size
                       /\ slots'[x].link = IF x = w.cur THEN w.aux ELSE slots[x].link
  BY Going DEF PutLink, Written, Slot, Index
<1>4. /\ T \in Tables
      /\ \A x \in Slots : /\ T[x].count = (IF x = w.aux THEN 0 ELSE slots[x].count)
                          /\ Keeps(slots, T, x) /\ SameBytes(slots[x], T[x])
  BY Going, WithoutIs, WithoutBytes
<1>5. D \in Bytes /\ n \in Size
  BY <1>1, ChunkIs DEF PutLabels
<1> HIDE DEF T
<1>6. /\ U \in Tables
      /\ \A x \in Slots : U[x].count = slots'[x].count /\ Keeps(slots', U, x)
      /\ \A x \in Slots \ {w.aux} : U[x] = slots'[x]
      /\ U[w.aux].data = D /\ U[w.aux].size = n
  <2>1. PICK V, d, m : V = U /\ d = D /\ m = n
    OBVIOUS
  <2>2. V = FilledAt(slots', w.aux, d, m) /\ d \in Bytes /\ m \in Size
    BY <1>5, <2>1
  <2>3. /\ V \in Tables
        /\ \A x \in Slots : V[x].count = slots'[x].count /\ Keeps(slots', V, x)
        /\ \A x \in Slots \ {w.aux} : V[x] = slots'[x]
        /\ V[w.aux].data = d /\ V[w.aux].size = m
    BY <2>2, Going, FilledIs
  <2>4. QED BY <2>1, <2>3
<1>7. Linked(T, {}) /\ Spelled(T, {w.cur}) /\ Stores(T, {}, New)
  BY <1>1 DEF Extending, Whole, InOrder, Holds
<1>8. /\ w.cur \in Busy(T) /\ T[w.cur].link = -1 /\ T[w.aux].count = 0
      /\ T[w.cur].data.key = w.key /\ T[w.cur].data.val = w.val /\ End(T[w.cur]) = w.done
  BY <1>1, <1>4, Going DEF Last, Busy, Keeps, Cut, SameBytes, End
<1>9. \A i \in Slots \ {w.aux} :
        /\ U[i].count = T[i].count /\ U[i].key = T[i].key /\ SameBytes(T[i], U[i])
        /\ U[i].link = IF i = w.cur THEN w.aux ELSE T[i].link
  BY <1>3, <1>4, <1>6 DEF Keeps, SameBytes
<1>10. U[w.aux].count = -2 /\ U[w.aux].link = -1
  BY <1>1, <1>3, <1>6, Going DEF Keeps
<1>11. Spelled(U, {w.aux}) /\ Stores(U, {}, New)
  <2>1. PICK V, p, x : V = U /\ p = w.cur /\ x = w.aux
    OBVIOUS
  <2>2. /\ V \in Tables /\ x \in Slots /\ T[x].count = 0 /\ p \in Busy(T) /\ T[p].link = -1
        /\ Spelled(T, {p}) /\ V[x].count = -2 /\ V[x].link = -1
        /\ \A i \in Slots \ {x} :
             /\ V[i].count = T[i].count /\ V[i].key = T[i].key /\ SameBytes(T[i], V[i])
             /\ V[i].link = IF i = p THEN x ELSE T[i].link
    BY <1>6, <1>7, <1>8, <1>9, <1>10, <2>1, Going
  <2>3. /\ V[x].data = Chunk(T[p].data.key, T[p].data.val, End(T[p]))
        /\ End(T[p]) \in Nat /\ End(T[p]) < ValSize[T[p].data.val]
        /\ V[x].size = ChunkSize(T[p].data.val, End(T[p]))
    BY <1>2, <1>6, <1>8, <2>1
  <2>4. Spelled(V, {x})
    BY <1>4, <1>7, <2>2, <2>3, ExtendedSpelled
  <2>5. Stores(V, {}, New)
    BY <1>4, <1>7, <2>2, ExtendedStores
  <2>6. QED BY <2>1, <2>4, <2>5
<1>12. Filled' = U
  BY <1>2 DEF Filled
<1>13. Room' /\ Holds(Filled', {w'.cur}, New')
  BY <1>1, <1>2, <1>11, <1>12, Kept DEF Holds
<1>14. slots'[w'.idx].key = w'.key
  BY <1>1, <1>2, <1>3, Going
<1>15. QED BY <1>1, <1>13, <1>14 DEF VInv, RemLabels

\* The collision is counted, and put returns.
LEMMA PutLeadValues ==
  ASSUME WInv, WInv', SInv, VInv, PutLead
  PROVE  VInv' /\ Outcome
<1>1. /\ wpc = "putLead" /\ wpc' = "idle" /\ Told("ok") /\ w.op = "put"
      /\ Holds(slots, {}, New) /\ Room /\ Extending(slots, usedslots) /\ Home \in Slots
      /\ slots' = [slots EXCEPT ![Home].count = slots[Home].count + 1] /\ w.cnt = -1
  BY InPut DEF PutLead, VInv, SInv, PutLabels, Home, Return, Goto, Told, WInv, Locals
<1>2. slots[Home].count > 0 /\ slots[Home].count \in Int /\ Linked(slots, {}) /\ Placed(slots, {})
  BY <1>1, Going, SlotIs DEF Extending, Chosen, Whole, InOrder
<1>3. \A x \in Slots : /\ slots'[x].count = IF x = Home THEN slots[x].count + 1 ELSE slots[x].count
                       /\ Keeps(slots, slots', x) /\ SameBytes(slots[x], slots'[x])
  BY <1>1, Going DEF Written, Slot, Keeps, SameBytes
<1>4. Alike(slots, slots') /\ AlikeBytes(slots, slots')
  BY <1>2, <1>3 DEF Alike, AlikeBytes
<1>5. Holds(slots', {}, New)
  BY <1>1, <1>2, <1>4, Going, AlikeHolds
<1>6. ~TooMuch
  BY <1>1, <1>2, Going, NewFits
<1>7. Outcome
  BY <1>1, <1>5, <1>6 DEF Outcome
<1>8. VInv'
  BY <1>1, <1>5 DEF VInv, PutLabels, RemLabels, Holds
<1>9. QED BY <1>7, <1>8

\* A put that found no room says so; the key is gone.
LEMMA UndoneValues ==
  ASSUME WInv, WInv', SInv, VInv, Undone
  PROVE  VInv' /\ Outcome
<1>1. /\ wpc = "undone" /\ wpc' = "idle" /\ Told("ENOBUFS") /\ w.op = "put" /\ slots' = slots
      /\ Holds(slots, {}, Rest) /\ Room /\ TooMuch
  BY DEF Undone, VInv, PutLabels, Return, Goto, Told, WInv, Locals, table
<1>2. QED BY <1>1 DEF Outcome, VInv, PutLabels, RemLabels, Holds

-------------------------------------------------------------------------------
(* The steps of remove and clear.                                          *)

\* The first slot of the key is taken off: the rest is what the table held.
LEMMA OffTable ==
  ASSUME NEW T \in Tables, Placed(T, {}), NEW o \in Leading(T), T[o].key = w.key,
         Holds(T, {}, before)
  PROVE  Stores(T, {o}, Rest) /\ T[o].data.key = w.key /\ w.key \in DOMAIN before
<1>1. Stores(T, {o}, Rest) /\ w.key \in DOMAIN before
  BY OrphanedStores DEF Holds, Rest
<1>2. T[o].data.key = w.key
  BY BusyFirst DEF Holds, Spelled
<1>3. QED BY <1>1, <1>2

\* Its slots are released from there on.
LEMMA RemovalValues ==
  ASSUME WInv, WInv', VInv, Placed(slots', {}), w'.cur \in Leading(slots'),
         slots'[w'.cur].key = w.key, Holds(slots', {}, before), before' = before, wpc' = "remData",
         w'.key = w.key, w'.op = w.op, w'.again = w.again, w'.then # "undone",
         w.op = "put" => w.again /\ Room
  PROVE  VInv'
<1>1. /\ Stores(slots', {w'.cur}, Rest) /\ slots'[w'.cur].data.key = w.key
      /\ w.key \in DOMAIN before /\ Spelled(slots', {})
  BY Going, OffTable DEF Holds
<1>2. Rest' = Rest /\ Room' = Room
  BY DEF Rest, Room
<1>3. Spelled(slots', InHand')
  BY <1>1, SpelledMore
<1>4. QED BY <1>1, <1>2, <1>3 DEF VInv, PutLabels, RemLabels

\* A slot that hashes where another one leads is not alone there.
LEMMA NotAlone ==
  ASSUME NEW T \in Tables, InOrder(T, {}, Lead(T)), NEW i \in Leading(T)
  PROVE  /\ T[i].count = -1 => T[T[i].hash].count > 1
         /\ T[i].count > 1 => \E j \in Slots \ {i} : T[j].count = -1 /\ T[j].hash = i
<1> DEFINE h == T[i].hash
           N == Named(T, h)
<1>1. i \in N /\ N \in SUBSET Slots /\ N \ {} = N /\ h \in Slots /\ i \in Slots
  BY SlotIs DEF Named, Leading
<1>2. Cardinality(N) = IF T[h].count > 0 THEN T[h].count ELSE 0
  BY <1>1, LeadType DEF InOrder, Numbered, Lead
<1>3. \A j \in Leading(T) : /\ j \in Slots /\ T[j].count \in Int
                            /\ T[j].count > 0 => T[j].hash = j
                            /\ T[j].count = -1 => T[j].hash # j
  BY SlotIs, BusyFirst DEF InOrder, Placed
<1> HIDE DEF h, N
<1>4. Cardinality(N \ {i}) = Cardinality(N) - 1 /\ Cardinality(N) \in Nat /\ Cardinality(N \ {i}) \in Nat
      /\ IsFiniteSet(N \ {i})
  <2>1. N \ {i} \in SUBSET Slots
    BY <1>1
  <2>2. QED BY <1>1, <2>1, OneLess, SlotSets
<1>5. ASSUME T[i].count = -1 PROVE T[h].count > 1
  <2>1. T[h].count > 0
    BY <1>2, <1>4, SlotIs, <1>1
  <2>2. h \in N \ {i}
    BY <1>1, <1>3, <1>5, <2>1 DEF N, Named, Leading, h
  <2>3. Cardinality(N \ {i}) # 0
    BY <1>4, <2>2, FS_EmptySet
  <2>4. QED BY <1>1, <1>2, <1>4, <2>1, <2>3, SlotIs
<1>6. ASSUME T[i].count > 1 PROVE \E j \in Slots \ {i} : T[j].count = -1 /\ T[j].hash = i
  <2>1. h = i
    BY <1>3, <1>6, <1>1 DEF h
  <2>2. Cardinality(N \ {i}) # 0
    BY <1>1, <1>2, <1>4, <1>6, <2>1, SlotIs
  <2>3. PICK j : j \in N \ {i}
    BY <2>2, FS_EmptySet
  <2>4. j \in Leading(T) /\ j # i /\ T[j].hash = i
    BY <2>1, <2>3 DEF N, Named
  <2>5. T[j].count = -1
    BY <1>3, <2>4 DEF Leading
  <2>6. QED BY <1>3, <2>4, <2>5
<1>7. QED BY <1>5, <1>6 DEF h

\* remove finds a key that is stored, and no other.
LEMMA ChooseRemovalValues ==
  ASSUME WInv, WInv', SInv, VInv, ChooseRemoval
  PROVE  VInv' /\ (wpc' = "idle" => Outcome)
<1> DEFINE i == get_idx(w.key)
           dups == {j \in Slots \ {i} : slots[j].count = -1 /\ slots[j].hash = Hash[w.key]}
<1>1. /\ wpc = "remove" /\ w.key \in Keys /\ w.op \in {"put", "remove"} /\ Written /\ Settled
      /\ slots' = slots /\ before' = before /\ Holds(slots, {}, before)
      /\ w.op = "put" => w.again /\ Room /\ w.key \in DOMAIN before
      /\ w.then = "removed"
  BY DEF ChooseRemoval, WInv, Locals, RemLabels, SInv, Quiet, VInv, table, still
<1>2. slots \in Tables /\ Placed(slots, {}) /\ InOrder(slots, {}, Lead(slots))
  BY <1>1 DEF Written, Tables, Settled, Whole, InOrder
<1>3. Has(slots, w.key) <=> w.key \in DOMAIN before
  BY <1>1, StoredKeys DEF Holds
<1>4. CASE i = -1
  <2>1. w.key \notin DOMAIN before /\ w.op = "remove"
    BY <1>1, <1>3, <1>4, GetIdxFinds
  <2>2. Removed("ENOENT")
    BY <1>4 DEF ChooseRemoval
  <2>3. Return("ENOENT")
    BY <2>2 DEF Removed
  <2>4. wpc' = "idle" /\ Told("ENOENT")
    BY <2>3 DEF Return, Goto, Told
  <2>5. Outcome
    BY <1>1, <2>1, <2>4 DEF Outcome
  <2>6. VInv'
    BY <1>1, <2>4 DEF VInv, PutLabels, RemLabels, Holds
  <2>7. QED BY <2>5, <2>6
<1>5. CASE i # -1
  <2>1. i \in Leading(slots) /\ slots[i].key = w.key /\ i \in Slots /\ slots[i].count \in Int
    BY <1>1, <1>2, <1>5, GetIdxFinds, BusyFirst, SlotIs
  <2>2. slots[i].hash = Hash[w.key] /\ (slots[i].count > 0 => slots[i].hash = i)
    BY <1>2, <2>1, BusyFirst DEF Placed
  <2>3. slots[i].count = -1 => slots[slots[i].hash].count > 1
    BY <1>2, <2>1, NotAlone
  <2>4. slots[i].count > 1 => dups # {}
    BY <1>2, <2>1, <2>2, NotAlone
  <2>5. slots[slots[i].hash].count \in Int /\ w.key \in DOMAIN before
    BY <1>2, <1>3, <2>1, SlotIs DEF Has
  <2>6. \/ /\ w' = [w EXCEPT !.idx = i, !.cur = i, !.aux = 0, !.cnt = 0, !.then = "removed"]
           /\ wpc' \in {"remData", "remCount"}
        \/ /\ w' = [w EXCEPT !.idx = i, !.cur = i, !.aux = Nearest(After(i), dups),
                             !.cnt = slots[i].count, !.then = "remCopy"]
           /\ wpc' = "remData"
    BY <1>5, <2>1, <2>3, <2>4, <2>5 DEF ChooseRemoval, Goto
  <2>7. /\ w'.key = w.key /\ w'.cur = i /\ w'.then \in {"removed", "remCopy"}
        /\ w'.op = w.op /\ w'.again = w.again /\ wpc' \in {"remData", "remCount"}
        /\ wpc' = "remCount" => w'.then = "removed"
    BY <2>6, <2>1, Going DEF Call
  <2> HIDE DEF i, dups
  <2>8. CASE wpc' = "remData"
    BY <1>1, <1>2, <2>1, <2>7, <2>8, RemovalValues
  <2>9. CASE wpc' = "remCount"
    <3>1. Room' = Room /\ before' = before
      BY <1>1 DEF Room
    <3>2. QED BY <1>1, <2>1, <2>5, <2>7, <2>9, <3>1 DEF VInv, PutLabels, RemLabels
  <2>10. QED BY <2>7, <2>8, <2>9
<1>6. QED BY <1>4, <1>5

\* One key less to count.
LEMMA RemCountValues == ASSUME WInv, WInv', SInv, VInv, RemCount PROVE VInv'
<1> DEFINE h == slots[w.cur].hash
<1>1. /\ wpc = "remCount" /\ wpc' = "remData" /\ w' = w /\ before' = before
      /\ Settled /\ slots[w.cur].count = -1 /\ slots[h].count > 1
      /\ slots' = [slots EXCEPT ![h].count = slots[h].count - 1]
      /\ Holds(slots, {}, before) /\ slots[w.cur].key = w.key /\ w.then = "removed"
      /\ w.op = "put" => w.again /\ Room
  BY DEF RemCount, Goto, still, SInv, Quiet, WInv, Locals, VInv, RemLabels
<1>2. h \in Slots /\ slots[h].count \in Int
  BY Going, SlotIs
<1> HIDE DEF h
<1>3. \A x \in Slots : /\ slots'[x].count = IF x = h THEN slots[h].count - 1 ELSE slots[x].count
                       /\ Keeps(slots, slots', x) /\ SameBytes(slots[x], slots'[x])
  BY <1>1, <1>2, Going DEF Written, Slot, Keeps, SameBytes
<1>4. Alike(slots, slots') /\ AlikeBytes(slots, slots') /\ w.cur # h
  <2>1. slots[h].count > 0 /\ slots[h].count - 1 > 0 /\ w.cur # h
    BY <1>1, <1>2
  <2>2. \A x \in Slots :
          slots'[x].count = slots[x].count \/ (slots[x].count > 0 /\ slots'[x].count > 0)
    BY <1>3, <2>1
  <2>3. QED BY <1>3, <2>1, <2>2 DEF Alike, AlikeBytes
<1>5. InOrder(slots, {}, Lead(slots)) /\ Linked(slots, {})
  BY <1>1 DEF Settled, Whole, InOrder
<1>6. Holds(slots', {}, before)
  BY <1>1, <1>4, <1>5, Going, AlikeHolds
<1>7. Placed(slots', {}) /\ Leading(slots') = Leading(slots)
  BY <1>4, <1>5, Going, AlikeOrder DEF InOrder
<1>8. w.cur \in Leading(slots') /\ slots'[w.cur].key = w.key
  BY <1>1, <1>3, <1>7, Going DEF Leading, Keeps
<1>9. QED BY <1>1, <1>6, <1>7, <1>8, RemovalValues

\* A slot is released.  Behind the last one nothing is left of the key.
LEMMA RemDataValues == ASSUME WInv, WInv', SInv, VInv, RemData PROVE VInv'
<1> DEFINE o == w.cur
           O == Behind(slots, o)
<1>1. /\ wpc = "remData" /\ before' = before /\ Removing /\ remove_slot(o)
      /\ w.then \in {"removed", "remCopy", "undone"} /\ w.loops \in Nat
      /\ Spelled(slots, InHand) /\ Stores(slots, {o}, Rest) /\ slots[o].data.key = w.key
      /\ w.then = "undone" => Room /\ TooMuch
      /\ w.op = "put" /\ w.then # "undone" => w.again /\ Room /\ w.key \in DOMAIN before
      /\ w.op = "remove" => w.key \in DOMAIN before
  BY Going DEF RemData, still, SInv, Call, VInv, RemLabels
<1>2. slots' = [slots EXCEPT ![o].count = 0] /\ o \in Busy(slots)
  BY <1>1, Going DEF remove_slot, Removing, Busy
<1>3. /\ slots'[o].count = 0 /\ slots'[o].data = slots[o].data
      /\ \A x \in Slots \ {o} : slots'[x] = slots[x]
  BY <1>2, Going DEF Written, Slot
<1>4. /\ Linked(slots', O)
      /\ Leading(slots') \ O = Leading(slots) \ {o}
      /\ slots[o].link # -1 => slots[o].link \in Busy(slots') /\ slots[slots[o].link].count = -2
      /\ Spelled(slots', InHand) /\ Stores(slots', O, Rest)
      /\ Busy(slots') = Busy(slots) \ {o}
  <2>1. PICK T, U, q, C : T = slots /\ U = slots' /\ q = o /\ C = Left(slots, {o})
    OBVIOUS
  <2>2. T \in Tables /\ U \in Tables /\ q \in Busy(T) /\ InOrder(T, {q}, C) /\ Linked(T, {q})
    BY <1>1, <1>2, <2>1, Going DEF Removing, Whole, InOrder
  <2>3. Frees(T, U, q)
    BY <1>3, <2>1 DEF Frees
  <2>4a. /\ InOrder(U, Behind(T, q), C)
         /\ Leading(U) \ Behind(T, q) = Leading(T) \ {q}
         /\ T[q].link # -1 => T[q].link \in Busy(U) /\ T[T[q].link].count = -2
         /\ Busy(U) = Busy(T) \ {q}
    BY <2>2, <2>3, Released
  <2>4. Linked(U, Behind(T, q))
    BY <2>4a DEF InOrder
  <2>5. Spelled(U, InHand)
    BY <1>1, <2>1, <2>2, <2>3, ReleasedSpelled
  <2>6. Stores(U, Behind(T, q), Rest)
    BY <1>1, <2>1, <2>3, <2>4a, ReleasedStores
  <2>7. QED BY <2>1, <2>4, <2>4a, <2>5, <2>6
<1>5. \A x \in Slots : slots'[x].data = slots[x].data
  BY <1>3
<1>6. ~(w.loops + 1 > maxslots)
  <2>1. Cardinality(Busy(slots')) = Cardinality(Busy(slots)) - 1
        /\ Cardinality(Busy(slots)) \in Nat /\ Cardinality(Busy(slots')) \in Nat
    <3>1. Busy(slots) \in SUBSET Slots
      BY DEF Busy
    <3>2. QED BY <1>2, <1>4, <3>1, OneLess, AtMostAll
  <2>2. QED BY <1>1, <2>1, TableAssumption DEF Removing
<1>7. ASSUME w'.key = w.key
      PROVE  InHand' = InHand /\ Rest' = Rest /\ (Room' <=> Room)
  BY <1>1, <1>5, <1>7 DEF InHand, Rest, Room
<1>8. CASE slots[o].link = -1 /\ w' = [w EXCEPT !.loops = 0] /\ wpc' = w.then
  <2>1. /\ w'.key = w.key /\ w'.val = w.val /\ w'.then = w.then /\ w'.op = w.op /\ w'.again = w.again
    BY <1>8, Going DEF Call
  <2>2. O = {} /\ Linked(slots', {}) /\ Stores(slots', {}, Rest)
    BY <1>4, <1>8 DEF Behind
  <2>3. ASSUME NEW i \in Busy(slots') PROVE i \notin InHand
    <3>1. PICK l \in Leading(slots') : slots'[l].data.key = slots'[i].data.key
      BY <1>4, <2>2, Going, Rooted DEF IsPiece
    <3>2. slots'[l].data.key = slots'[l].key /\ i \in Slots
      BY <1>4, <3>1, Going, BusyFirst DEF Spelled
    <3>3. slots'[l].key \in DOMAIN Rest
      BY <2>2, <3>1 DEF Stores
    <3>4. slots'[l].key # w.key
      BY <3>3 DEF Rest
    <3>5. QED BY <1>5, <3>1, <3>2, <3>4 DEF InHand
  <2>4. Holds(slots', {}, Rest)
    <3>1. Spelled(slots', {})
      BY <1>4, <2>3 DEF Spelled
    <3>2. QED BY <2>2, <3>1 DEF Holds
  <2>5. Rest' = Rest /\ (Room' <=> Room) /\ (TooMuch' <=> TooMuch)
    BY <1>1, <2>1, Kept
  <2>6. CASE w.then = "undone"
    BY <1>1, <1>8, <2>1, <2>4, <2>5, <2>6 DEF VInv, PutLabels, RemLabels
  <2>7. CASE w.then # "undone"
    BY <1>1, <1>8, <2>1, <2>4, <2>5, <2>7 DEF VInv, PutLabels, RemLabels
  <2>8. QED BY <2>6, <2>7
<1>9. CASE /\ slots[o].link # -1 /\ w' = [w EXCEPT !.cur = slots[o].link, !.loops = @ + 1]
           /\ wpc' = wpc
  <2>1. /\ w'.key = w.key /\ w'.val = w.val /\ w'.then = w.then /\ w'.op = w.op /\ w'.again = w.again
        /\ w'.cur = slots[o].link
    BY <1>9, Going DEF Call
  <2>2. O = {w'.cur} /\ w'.cur \in Slots
    BY <1>4, <1>9, <2>1 DEF Behind, Busy
  <2>3. slots[w'.cur].data.key = w.key
    <3>1. slots[slots[o].link].data
            = Chunk(slots[o].data.key, slots[o].data.val, End(slots[o]))
      BY <1>1, <1>2, <1>9 DEF Spelled
    <3>2. QED BY <1>1, <2>1, <3>1 DEF Chunk
  <2>4. slots'[w'.cur].data.key = w'.key
    BY <1>5, <2>1, <2>2, <2>3
  <2>5. Rest' = Rest /\ (Room' <=> Room) /\ (TooMuch' <=> TooMuch) /\ InHand' = InHand
    BY <1>1, <1>7, <2>1, Kept
  <2>6. QED BY <1>1, <1>4, <1>9, <2>1, <2>2, <2>4, <2>5 DEF VInv, PutLabels, RemLabels
<1>10. QED BY <1>6, <1>8, <1>9 DEF RemData, ChainEnds, Goto

\* Another key of the hash is copied to the slot of the key that led them, ...
LEMMA RemCopyValues == ASSUME WInv, WInv', SInv, VInv, RemCopy PROVE VInv'
<1>1. /\ wpc = "remCopy" /\ wpc' = "remFree" /\ w' = w /\ before' = before
      /\ Linked(slots, {}) /\ slots[w.idx].count = 0 /\ slots[w.aux].count < 0
      /\ copy_slot(w.idx, w.aux) /\ Holds(slots, {}, Rest)
      /\ w.op = "put" /\ w.then # "undone" => w.again /\ Room /\ w.key \in DOMAIN before
      /\ w.op = "remove" => w.key \in DOMAIN before
      /\ w.then = "undone" => Room /\ TooMuch
  BY DEF RemCopy, Goto, still, SInv, Whole, InOrder, VInv, RemLabels
<1>2. Holds(Without(slots', w.idx), {}, Rest)
  BY <1>1, Going, CopyingHolds
<1>3. Rest' = Rest /\ (Room' <=> Room) /\ (TooMuch' <=> TooMuch)
  BY <1>1, Kept
<1>4. QED BY <1>1, <1>2, <1>3 DEF VInv, PutLabels, RemLabels

\* ... released where it was, ...
LEMMA RemFreeValues == ASSUME WInv, WInv', SInv, VInv, RemFree PROVE VInv'
<1>1. /\ wpc = "remFree" /\ wpc' = "remLead" /\ w' = w /\ before' = before
      /\ Linked(Without(slots, w.idx), {}) /\ Copied(w.aux, w.idx) /\ remove_slot(w.aux)
      /\ Holds(Without(slots, w.idx), {}, Rest)
      /\ w.op = "put" /\ w.then # "undone" => w.again /\ Room /\ w.key \in DOMAIN before
      /\ w.op = "remove" => w.key \in DOMAIN before
      /\ w.then = "undone" => Room /\ TooMuch
  BY DEF RemFree, Goto, still, SInv, Whole, InOrder, VInv, RemLabels
<1>2. Holds(BackAt(slots', w.aux, w.idx), {}, Rest) /\ SameBytes(slots'[w.aux], slots'[w.idx])
  BY <1>1, Going, FreeingHolds
<1>3. Rest' = Rest /\ (Room' <=> Room) /\ (TooMuch' <=> TooMuch)
  BY <1>1, Kept
<1>4. QED BY <1>1, <1>2, <1>3 DEF VInv, PutLabels, RemLabels

\* ... and leads what remains.
LEMMA RemLeadValues == ASSUME WInv, WInv', SInv, VInv, RemLead PROVE VInv'
<1> DEFINE T == BackAt(slots, w.aux, w.idx)
           n == w.cnt - 1
<1>1. /\ wpc = "remLead" /\ wpc' = "removed" /\ w' = w /\ before' = before
      /\ w.cnt > 1 /\ w.cnt \in Int
      /\ Whole(T, {}, Left(T, {}), usedslots, num) /\ Moving(w.aux, w.idx)
      /\ slots[w.idx].count = -1 /\ slots' = Promoted(w.idx, n)
      /\ Holds(T, {}, Rest) /\ SameBytes(slots[w.aux], slots[w.idx])
      /\ w.op = "put" /\ w.then # "undone" => w.again /\ Room /\ w.key \in DOMAIN before
      /\ w.op = "remove" => w.key \in DOMAIN before
      /\ w.then = "undone" => Room /\ TooMuch
  BY Going, TableAssumption DEF RemLead, Goto, still, SInv, WInv, Locals, Call, VInv, RemLabels
<1>2. \A x \in Slots :
        /\ slots'[x].count = IF x = w.idx THEN n ELSE slots[x].count
        /\ slots'[x].link = slots[x].link /\ slots'[x].key = slots[x].key
        /\ SameBytes(slots[x], slots'[x])
  BY <1>1, Going, PromotedIs, PromotedBytes
<1>3. Holds(slots', {}, Rest)
  <2>1. PICK U, C, from, to : U = slots' /\ C = Left(T, {}) /\ from = w.aux /\ to = w.idx
    OBVIOUS
  <2>2. /\ U \in Tables /\ from \in Slots /\ to \in Slots /\ T = BackAt(slots, from, to)
        /\ Whole(T, {}, C, usedslots, num) /\ Moving(from, to)
        /\ SameBytes(slots[from], slots[to]) /\ T \in Tables
    <3>1. w.aux # w.idx
      BY <1>1 DEF Moving
    <3>2. QED BY <1>1, <2>1, <3>1, Going, BackAtIs
  <2>3. \A x \in Slots :
           /\ x # to => U[x].count = slots[x].count
           /\ U[x].key = slots[x].key
           /\ U[x].link = IF slots[to].count = -2 /\ x = slots[to].hash THEN to ELSE slots[x].link
           /\ SameBytes(slots[x], U[x])
    BY <1>1, <1>2, <2>1
  <2>4. U[to].count > 0 /\ slots[to].count = -1
    BY <1>1, <1>2, <2>1, <2>2
  <2> HIDE DEF T
  <2>5. Holds(U, {}, Rest)
    BY <1>1, <2>2, <2>3, <2>4, Going, AdjustedHolds
  <2>6. QED BY <2>1, <2>5
<1>4. Rest' = Rest /\ (Room' <=> Room) /\ (TooMuch' <=> TooMuch)
  BY <1>1, Kept
<1>5. QED BY <1>1, <1>3, <1>4 DEF VInv, PutLabels, RemLabels

\* remove is done, and put finds the key gone.
LEMMA RemDoneValues ==
  ASSUME WInv, WInv', SInv, VInv, RemDone
  PROVE  VInv' /\ (wpc' = "idle" => Outcome)
<1>1. /\ wpc = "removed" /\ w.op \in {"put", "remove"} /\ slots' = slots /\ before' = before
      /\ w.then # "undone" /\ Holds(slots, {}, Rest)
      /\ w.op = "put" => w.again /\ Room
      /\ w.op = "remove" => w.key \in DOMAIN before
      /\ w.again => w.op = "put"
  BY DEF RemDone, VInv, RemLabels, WInv, Locals, table, still
<1>2. CASE w.again
  <2>1. wpc' = "put" /\ w' = [NoWrite EXCEPT !.op = w.op, !.key = w.key, !.val = w.val]
    BY <1>2 DEF RemDone, Removed, Goto
  <2>2. w'.key = w.key /\ w'.val = w.val /\ w'.then = "removed"
    BY <2>1 DEF NoWrite
  <2>3. Rest' = Rest /\ (Room' <=> Room)
    BY <1>1, <2>2, Kept
  <2>4. QED BY <1>1, <1>2, <2>1, <2>2, <2>3 DEF VInv, RemLabels, Holds
<1>3. CASE ~w.again
  <2>1. Return("ok")
    BY <1>3 DEF RemDone, Removed
  <2>2. wpc' = "idle" /\ Told("ok")
    BY <2>1 DEF Return, Goto, Told
  <2>3. Outcome
    BY <1>1, <1>3, <2>2 DEF Outcome
  <2>4. VInv'
    BY <1>1, <2>2 DEF VInv, PutLabels, RemLabels, Holds
  <2>5. QED BY <2>3, <2>4
<1>4. QED BY <1>2, <1>3

\* An empty table holds nothing.
LEMMA NothingHeld ==
  ASSUME NEW T \in Tables, \A i \in Slots : T[i].count = 0
  PROVE  Holds(T, {}, << >>)
<1>1. Busy(T) = {} /\ Leading(T) = {}
  BY DEF Busy, Leading
<1>2. << >> = [k \in {} |-> << >>[k]]
  OBVIOUS
<1>3. {T[i].key : i \in Leading(T) \ {}} = {}
  BY <1>1
<1>4. << >> = [k \in {T[i].key : i \in Leading(T) \ {}} |-> << >>[k]]
  BY <1>2, <1>3
<1>5. Stores(T, {}, << >>)
  BY <1>1, <1>4 DEF Stores
<1>6. QED BY <1>1, <1>5 DEF Holds, Spelled

\* clear does nothing if the table is empty, and empties it otherwise.
LEMMA ClrCountersValues ==
  ASSUME WInv, WInv', SInv, VInv, ClrCounters
  PROVE  VInv' /\ (wpc' = "idle" => Outcome)
<1>1. /\ wpc = "clear" /\ slots' = slots /\ w.op = "clear" /\ w.key = None /\ Settled
  BY DEF ClrCounters, VInv, SInv, Quiet
<1>2. CASE usedslots = 0
  <2>1. wpc' = "idle" /\ Told("ok")
    BY <1>2 DEF ClrCounters, Return, Goto, Told
  <2>2. Busy(slots) = {}
    <3>1. Busy(slots) \in SUBSET Slots /\ Cardinality(Busy(slots)) = 0
      BY <1>1, <1>2 DEF Busy, Settled, Whole
    <3>2. QED BY <3>1, SlotSets, FS_EmptySet
  <2>3. \A i \in Slots : slots[i].count = 0
    BY <2>2 DEF Busy
  <2>4. Holds(slots', {}, << >>)
    BY <1>1, <2>3, Going, NothingHeld
  <2>5. Outcome
    BY <1>1, <2>1, <2>4 DEF Outcome
  <2>6. VInv'
    BY <2>1, <2>4 DEF VInv, PutLabels, RemLabels, Holds
  <2>7. QED BY <2>5, <2>6
<1>3. CASE usedslots # 0
  <2>1. wpc' = "clrSlots" /\ w' = w
    BY <1>3 DEF ClrCounters, Goto
  <2>2. QED BY <1>1, <2>1 DEF VInv, PutLabels, RemLabels
<1>4. QED BY <1>2, <1>3

LEMMA ClrSlotsValues ==
  ASSUME WInv, WInv', SInv, VInv, ClrSlots
  PROVE  VInv' /\ (wpc' = "idle" => Outcome)
<1>1. /\ wpc = "clrSlots" /\ w.op = "clear" /\ w.key = None
      /\ \A i \in Slots : i < w.cur => slots[i].count = 0
      /\ slots' = [slots EXCEPT ![w.cur] = EmptySlot]
  BY DEF ClrSlots, VInv, SInv
<1>2. CASE w.cur = maxslots - 1
  <2>1. wpc' = "idle" /\ Told("ok")
    BY <1>2 DEF ClrSlots, Return, Goto, Told
  <2>2. \A i \in Slots : slots'[i].count = 0
    <3>1. EmptySlot.count = 0 /\ \A i \in Slots : i < w.cur \/ i = w.cur
      BY <1>2, EmptySlotType, TableAssumption DEF Slots
    <3>2. QED BY <1>1, <3>1, Going DEF Tables
  <2>3. Holds(slots', {}, << >>)
    BY <2>2, Going, NothingHeld
  <2>4. Outcome
    BY <1>1, <2>1, <2>3 DEF Outcome
  <2>5. VInv'
    BY <2>1, <2>3 DEF VInv, PutLabels, RemLabels, Holds
  <2>6. QED BY <2>4, <2>5
<1>3. CASE w.cur # maxslots - 1
  <2>1. wpc' = "clrSlots" /\ w' = [w EXCEPT !.cur = @ + 1]
    BY <1>1, <1>3 DEF ClrSlots
  <2>2. w'.op = "clear" /\ w'.key = None
    BY <1>1, <2>1, Going DEF Call
  <2>3. QED BY <2>1, <2>2 DEF VInv, PutLabels, RemLabels
<1>4. QED BY <1>2, <1>3

-------------------------------------------------------------------------------
(* The invariant holds.                                                    *)

\* What others do leaves it as it is.
LEMMA ValuesStay == ASSUME VInv, BInv, UNCHANGED <<table, writer>> PROVE VInv' /\ BInv'
<1>1. UNCHANGED <<slots, usedslots, num, wpc, w, before>>
  BY DEF table, writer
<1>2. /\ Rest' = Rest /\ New' = New /\ (Room' <=> Room) /\ (TooMuch' <=> TooMuch)
      /\ Filled' = Filled /\ InHand' = InHand /\ (Cut' <=> Cut) /\ Home' = Home
  BY <1>1 DEF Rest, New, Room, TooMuch, Filled, InHand, Cut, Home
<1>3. BInv'
  BY <1>1 DEF BInv
<1>4. VInv'
  BY <1>1, <1>2, SMTT(60) DEF VInv
<1>5. QED BY <1>3, <1>4

\* Every step of a call keeps the table in the state of the point it reaches, and
\* the last one has the call's effect.
LEMMA WStepValues ==
  ASSUME WInv, WInv', SInv, VInv, BInv, WStep
  PROVE  VInv' /\ (wpc' = "idle" => Outcome)
<1>1. CASE ChoosePlace \/ Move \/ MoveFree \/ MoveLinks
  <2>1. wpc' = "idle" => ChoosePlace
    BY <1>1 DEF Move, MoveFree, MoveLinks, Goto
  <2>2. QED BY <1>1, <2>1, ChoosePlaceValues, MoveValues, MoveFreeValues, MoveLinksValues
<1>2. CASE PutCount \/ PutHash \/ PutKey \/ PutEnd \/ PutValue \/ PutSize
  <2>1. wpc' = "idle" => PutSize
    <3>1. ASSUME PutCount PROVE wpc' # "idle"
      BY <3>1 DEF PutCount, SInv, Goto
    <3>2. QED BY <1>2, <3>1 DEF PutHash, PutKey, PutEnd, PutValue, Goto
  <2>2. QED BY <1>2, <2>1, PutCountValues, PutHashValues, PutKeyValues, PutEndValues,
               PutValueValues, PutSizeValues
<1>3. CASE PutExt \/ PutExtHead \/ PutLink \/ PutLead \/ Undone
  <2>1. wpc' = "idle" => PutLead \/ Undone
    BY <1>3 DEF PutExt, PutExtHead, PutLink, Goto
  <2>2. QED BY <1>3, <2>1, PutExtValues, PutExtHeadValues, PutLinkValues, PutLeadValues,
               UndoneValues
<1>4. CASE ChooseRemoval \/ RemCount \/ RemData \/ RemCopy
  <2>1. wpc' = "idle" => ChooseRemoval
    <3>1. ASSUME RemData PROVE wpc' # "idle"
      BY <3>1 DEF RemData, Goto, WInv, Written, Call
    <3>2. QED BY <1>4, <3>1 DEF RemCount, RemCopy, Goto
  <2>2. QED BY <1>4, <2>1, ChooseRemovalValues, RemCountValues, RemDataValues, RemCopyValues
<1>5. CASE RemFree \/ RemLead \/ RemDone \/ ClrCounters \/ ClrSlots
  <2>1. wpc' = "idle" => RemDone \/ ClrCounters \/ ClrSlots
    BY <1>5 DEF RemFree, RemLead, Goto
  <2>2. QED BY <1>5, <2>1, RemFreeValues, RemLeadValues, RemDoneValues, ClrCountersValues,
               ClrSlotsValues
<1>6. QED BY <1>1, <1>2, <1>3, <1>4, <1>5 DEF WStep

\* The table's contents, as long as no writer has died in a call.
TInv == crashes = 0 => VInv /\ BInv

LEMMA InitValues == ASSUME Init PROVE TInv
<1>1. \A i \in Slots : slots[i].count = 0
  BY EmptySlotType DEF Init
<1>2. Spelled(slots, {})
  BY <1>1 DEF Spelled, Busy
<1>3. QED BY <1>2 DEF Init, TInv, VInv, BInv, PutLabels, RemLabels

LEMMA NextValues ==
  ASSUME QInv, QInv', LInv, LInv', TInv, [Next]_vars
  PROVE  TInv'
<1>0. WInv /\ WInv' /\ (crashes = 0 => SInv) /\ crashes \in Nat
  BY TableAssumption DEF QInv, LInv
<1>1. CASE Clear \/ \E k \in Keys : Remove(k) \/ \E v \in Values : Put(k, v)
  <2>1. PICK op, k, v : /\ op \in {"put", "remove", "clear"} /\ (op = "clear" => k = None)
                        /\ Begin(op, k, v) /\ Goto(op)
    BY <1>1 DEF Clear, Remove, Put
  <2>2. crashes' = crashes
    BY <2>1 DEF Begin
  <2>3. crashes = 0 => VInv' /\ BInv'
    BY <1>0, <2>1, BeginValues, BeginKnown DEF TInv
  <2>4. QED BY <2>2, <2>3 DEF TInv
<1>2. CASE WStep
  <2>1. crashes = 0 => VInv' /\ BInv' /\ crashes' = crashes
    BY <1>0, <1>2, WStepValues, WStepLinks, KnownStays DEF TInv
  <2>2. crashes' = crashes
    BY <1>2 DEF WStep, ChoosePlace, Move, MoveFree, MoveLinks, PutCount, PutHash, PutKey,
      PutEnd, PutValue, PutSize, PutExt, PutExtHead, PutLink, PutLead, Undone, ChooseRemoval,
      RemCount, RemData, RemCopy, RemFree, RemLead, RemDone, ClrCounters, ClrSlots, still
  <2>3. QED BY <2>1, <2>2 DEF TInv
<1>3. CASE Crash
  BY <1>0, <1>3 DEF Crash, TInv
<1>4. CASE UNCHANGED <<table, writer>>
  BY <1>4, ValuesStay DEF TInv, writer
<1>5. ASSUME NEW r \in Readers,
             RStep(r) \/ Traverse(r) \/ \E k \in Keys : Get(r, k) \/ Exist(r, k)
      PROVE  UNCHANGED <<table, writer>>
  BY <1>5 DEF RStep, GetLead, GetScan, TravSlot, GetSum, GetSize, GetCopy, rest, Traverse, Get,
              Exist, RBegin
<1>6. CASE UNCHANGED vars
  BY <1>4, <1>6 DEF vars
<1>7. QED BY <1>1, <1>2, <1>3, <1>4, <1>5, <1>6 DEF Next

\* The invariant holds in every reachable state.
THEOREM ValuesInvariance == Spec => []TInv
<1>1. QInv /\ QInv' /\ LInv /\ LInv' /\ TInv /\ [Next]_vars => TInv'
  BY NextValues
<1>2. QED BY <1>1, InitValues, SlotInvariance, LinksInvariance, PTL DEF Spec

\* The call that the writer is in is the one its client began, and the client of
\* a call that is over has its answer.
Answering ==
  crashes = 0 =>
    IF wpc = "idle" THEN reply.op = "none" \/ reply.err # "none"
    ELSE /\ reply = [op |-> w.op, key |-> w.key, val |-> w.val, err |-> "none"]
         /\ w.op # "put" => w.val = None

\* A step inside a call keeps the call's arguments.
LEMMA ArgumentsStay ==
  ASSUME WInv, WStep, wpc' # "idle"
  PROVE  w'.op = w.op /\ w'.key = w.key /\ w'.val = w.val /\ reply' = reply
<1>1. w \in Call
  BY DEF WInv, Written
<1>2. ASSUME NEW err, Return(err) PROVE FALSE
  BY <1>2 DEF Return, Goto
<1>3. CASE w' = [NoWrite EXCEPT !.op = w.op, !.key = w.key, !.val = w.val] /\ reply' = reply
  <2>1. NoWrite \in Call
    BY NoWriteType
  <2>2. QED BY <1>1, <1>3, <2>1 DEF Call
<1>4. ASSUME NEW err, Removed(err)
      PROVE  w' = [NoWrite EXCEPT !.op = w.op, !.key = w.key, !.val = w.val] /\ reply' = reply
  BY <1>2, <1>4 DEF Removed
<1>5. CASE ChoosePlace \/ PutCount
  BY <1>1, <1>2, <1>5 DEF ChoosePlace, PutCount, Call
<1>6. CASE Move \/ MoveFree \/ MoveLinks \/ PutHash \/ PutKey \/ PutEnd \/ PutValue
  BY <1>1, <1>6 DEF Move, MoveFree, MoveLinks, PutHash, PutKey, PutEnd, PutValue, Call
<1>7. CASE PutSize \/ PutExt \/ PutExtHead \/ PutLink \/ PutLead \/ Undone
  BY <1>1, <1>2, <1>7 DEF PutSize, PutExt, PutExtHead, PutLink, PutLead, Undone, Call
<1>8. CASE ChooseRemoval
  BY <1>1, <1>3, <1>4, <1>8 DEF ChooseRemoval, Call
<1>9. CASE RemCount \/ RemData \/ RemCopy \/ RemFree \/ RemLead
  BY <1>1, <1>9 DEF RemCount, RemData, RemCopy, RemFree, RemLead, Call
<1>10. CASE RemDone
  BY <1>3, <1>4, <1>10 DEF RemDone
<1>11. CASE ClrCounters \/ ClrSlots
  BY <1>1, <1>2, <1>11 DEF ClrCounters, ClrSlots, Call
<1>12. QED BY <1>5, <1>6, <1>7, <1>8, <1>9, <1>10, <1>11 DEF WStep

LEMMA NextAnswering ==
  ASSUME QInv, QInv', LInv, LInv', TInv, Answering, [Next]_vars
  PROVE  Answering'
<1>0. WInv /\ WInv' /\ reply \in Reply /\ crashes \in Nat
  BY TableAssumption DEF QInv, LInv, WInv, Written
<1>1. CASE Clear \/ \E k \in Keys : Remove(k) \/ \E v \in Values : Put(k, v)
  <2>1. PICK op, k, v : /\ Begin(op, k, v) /\ Goto(op) /\ op # "idle"
                        /\ op # "put" => v = None
    BY <1>1 DEF Clear, Remove, Put
  <2>2. w' = [NoWrite EXCEPT !.op = op, !.key = k, !.val = v] /\ wpc' # "idle"
        /\ reply' = [op |-> op, key |-> k, val |-> v, err |-> "none"]
    BY <2>1 DEF Begin, Goto
  <2>3. w'.op = op /\ w'.key = k /\ w'.val = v
    BY <2>2 DEF NoWrite
  <2>4. QED BY <2>1, <2>2, <2>3 DEF Answering
<1>2. CASE WStep
  <2>1. crashes' = crashes /\ wpc # "idle"
    BY <1>2 DEF WStep, ChoosePlace, Move, MoveFree, MoveLinks, PutCount, PutHash, PutKey,
      PutEnd, PutValue, PutSize, PutExt, PutExtHead, PutLink, PutLead, Undone, ChooseRemoval,
      RemCount, RemData, RemCopy, RemFree, RemLead, RemDone, ClrCounters, ClrSlots, still
  <2>2. CASE crashes # 0
    BY <2>1, <2>2 DEF Answering
  <2>3. CASE crashes = 0 /\ wpc' = "idle"
    <3>1. Outcome
      BY <1>0, <1>2, <2>3, WStepValues DEF LInv, TInv
    <3>2. PICK err \in {"ok", "ENOBUFS", "ENOENT"} : reply' = [reply EXCEPT !.err = err]
      BY <3>1 DEF Outcome, Told
    <3>3. reply'.err = err
      BY <1>0, <3>2 DEF Reply
    <3>4. QED BY <2>3, <3>3 DEF Answering
  <2>4. CASE crashes = 0 /\ wpc' # "idle"
    <3>1. w'.op = w.op /\ w'.key = w.key /\ w'.val = w.val /\ reply' = reply
      BY <1>0, <1>2, <2>4, ArgumentsStay
    <3>2. QED BY <2>1, <2>4, <3>1 DEF Answering
  <2>5. QED BY <2>2, <2>3, <2>4
<1>3. CASE Crash
  BY <1>0, <1>3 DEF Crash, Answering
<1>4. CASE UNCHANGED <<table, writer>>
  BY <1>4 DEF Answering, writer
<1>5. ASSUME NEW r \in Readers,
             RStep(r) \/ Traverse(r) \/ \E k \in Keys : Get(r, k) \/ Exist(r, k)
      PROVE  UNCHANGED <<table, writer>>
  BY <1>5 DEF RStep, GetLead, GetScan, TravSlot, GetSum, GetSize, GetCopy, rest, Traverse, Get,
              Exist, RBegin
<1>6. CASE UNCHANGED vars
  BY <1>4, <1>6 DEF vars
<1>7. QED BY <1>1, <1>2, <1>3, <1>4, <1>5, <1>6 DEF Next

\* Every call that ends is answered as the call it was, with the arguments it had.
THEOREM CallsAreAnswered == Spec => []Answering
<1>1. Init => Answering
  BY DEF Init, Answering
<1>2. QInv /\ QInv' /\ LInv /\ LInv' /\ TInv /\ Answering /\ [Next]_vars => Answering'
  BY NextAnswering
<1>3. QED BY <1>1, <1>2, SlotInvariance, LinksInvariance, ValuesInvariance, PTL DEF Spec

-------------------------------------------------------------------------------
(* The refinement.                                                         *)

\* What the writer's client sees.
Shown == IF Idle THEN View ELSE before

\* A table between calls that stores a map shows it, before and after a step.
Shows == Written /\ Settled /\ Spelled(slots, {}) => Stores(slots, {}, View)

LEMMA ShowsAlways == Shows
BY ViewStored DEF Shows

LEMMA ShowsNext == Shows'
BY ShowsAlways, PTL

LEMMA ShownAfter ==
  ASSUME WInv', SInv', wpc' = "idle", NEW m, Holds(slots', {}, m)
  PROVE  Shown' = m
<1>1. Stores(slots', {}, View')
  BY ShowsNext DEF Shows, WInv, SInv, Quiet, Holds
<1>2. PICK T, n : T = slots' /\ n = View'
  OBVIOUS
<1>3. n = m
  <2>1. Stores(T, {}, n) /\ Stores(T, {}, m)
    BY <1>1, <1>2 DEF Holds
  <2>2. QED BY <2>1, StoresOne
<1>4. QED BY <1>2, <1>3 DEF Shown, Idle

\* What is left without the call's key, and what is there with it, in KVTable's terms.
LEMMA InTable ==
  ASSUME wpc # "idle"
  PROVE  /\ Shown = before /\ Table!Without(w.key) = Rest /\ Table!With(w.key, w.val) = New
<1>1. ~Idle
  BY DEF Idle
<1>2. QED
  BY <1>1 DEF Shown, Table!Without, Table!Restrict, Rest, Table!With, New

\* The abstract table's steps: nothing, a call that begins, and one that returns.
LEMMA CallStep ==
  ASSUME Answering, crashes = 0,
         NEW op, NEW k, NEW v, Begin(op, k, v), Goto(op), op # "idle"
  PROVE  Table!Call(op, k, v)
<1>1. /\ wpc = "idle" /\ wpc' = op /\ before' = View
      /\ reply' = [op |-> op, key |-> k, val |-> v, err |-> "none"]
  BY DEF Begin, Goto
<1>2. Idle /\ ~Idle'
  BY <1>1 DEF Idle
<1>3. reply.op = "none" \/ reply.err # "none"
  BY <1>1 DEF Answering
<1>4. QED BY <1>1, <1>2, <1>3 DEF Table!Call, Table!Reply

LEMMA ReturnStep ==
  ASSUME WInv, WInv', SInv', VInv, BInv, Answering, crashes = 0,
         wpc # "idle", wpc' = "idle", Outcome,
         w.op \in {"put", "remove"} => w.key \in Keys, w.op = "put" => w.val \in Values,
         w.op \in {"remove", "clear"} => w.val = None
  PROVE  Table!Next
<1>0. /\ Table!Asked(w.op, w.key, w.val)
      /\ \A err : Told(err) => Table!Reply(w.op, w.key, w.val, err)
  <2>1. reply = [op |-> w.op, key |-> w.key, val |-> w.val, err |-> "none"]
    BY DEF Answering
  <2>2. QED BY <2>1 DEF Table!Asked, Table!Reply, Told
<1>1. /\ Shown = before /\ Table!Without(w.key) = Rest /\ Table!With(w.key, w.val) = New
  BY InTable
<1>2. (IF Idle THEN View ELSE before) = before
  BY <1>1 DEF Shown
<1>3. \A m : Holds(slots', {}, m) => (IF Idle THEN View ELSE before)' = m
  BY ShownAfter DEF Shown
<1>4. CASE w.op = "put" /\ Told("ENOBUFS") /\ ~Room /\ Holds(slots', {}, before)
  <2>1. Table!PutRefused(w.key, w.val)
    <3>1. Table!Used(before) >= maxslots
      <4>1. Table!Used(before) \in Nat
        BY UsedRest DEF BInv, Known
      <4>2. QED BY <1>4, <4>1, TableAssumption DEF Room
    <3>2. (IF Idle THEN View ELSE before)' = before
      BY <1>3, <1>4
    <3>3. QED BY <1>0, <1>2, <1>4, <3>1, <3>2 DEF Table!PutRefused
  <2>2. QED BY <1>0, <1>4, <2>1 DEF Table!Next
<1>5. CASE w.op = "put" /\ Told("ENOBUFS") /\ Room /\ TooMuch /\ Holds(slots', {}, Rest)
  <2>1. (IF Idle THEN View ELSE before)' = Rest
    BY <1>3, <1>5
  <2>2. Table!PutFailed(w.key, w.val)
    BY <1>0, <1>1, <1>2, <1>5, <2>1 DEF Table!PutFailed, Room, TooMuch
  <2>3. QED BY <1>0, <1>5, <2>2 DEF Table!Next
<1>6. CASE w.op = "put" /\ Told("ok") /\ Room /\ ~TooMuch /\ Holds(slots', {}, New)
  <2>1. (IF Idle THEN View ELSE before)' = New
    BY <1>3, <1>6
  <2>1a. Table!Used(New) <= maxslots
    <3>1. slots' \in Tables /\ Linked(slots', {})
      BY DEF WInv, Written, Tables, SInv, Quiet, Settled, Whole, InOrder
    <3>2. Known(New)
      BY <1>6, <3>1, HeldKnown
    <3>3. Table!Used(New) \in Nat
      BY <3>2, UsedRest DEF Known
    <3>4. QED BY <1>6, <3>3, TableAssumption DEF TooMuch
  <2>2. Table!PutStored(w.key, w.val)
    BY <1>0, <1>1, <1>2, <1>6, <2>1, <2>1a DEF Table!PutStored, Room, TooMuch
  <2>3. QED BY <1>0, <1>6, <2>2 DEF Table!Next
<1>7. CASE /\ w.op = "remove" /\ Told("ENOENT") /\ w.key \notin DOMAIN before
           /\ Holds(slots', {}, before)
  <2>1. (IF Idle THEN View ELSE before)' = before
    BY <1>3, <1>7
  <2>1a. Rest = before
    <3>1. before = [k \in DOMAIN before |-> before[k]]
      BY <1>7 DEF Holds, Stores
    <3>2. DOMAIN before \ {w.key} = DOMAIN before
      BY <1>7
    <3>3. QED BY <3>1, <3>2 DEF Rest
  <2>2. Table!Remove(w.key)
    BY <1>0, <1>1, <1>2, <1>7, <2>1, <2>1a DEF Table!Remove
  <2>3. QED BY <1>0, <1>7, <2>2 DEF Table!Next
<1>8. CASE w.op = "remove" /\ Told("ok") /\ w.key \in DOMAIN before /\ Holds(slots', {}, Rest)
  <2>1. (IF Idle THEN View ELSE before)' = Rest
    BY <1>3, <1>8
  <2>2. Table!Remove(w.key)
    BY <1>0, <1>1, <1>2, <1>8, <2>1 DEF Table!Remove
  <2>3. QED BY <1>0, <1>8, <2>2 DEF Table!Next
<1>9. CASE w.op = "clear" /\ w.key = None /\ Told("ok") /\ Holds(slots', {}, << >>)
  <2>1. (IF Idle THEN View ELSE before)' = << >>
    BY <1>3, <1>9
  <2>2. Table!Clear
    BY <1>0, <1>9, <2>1 DEF Table!Clear
  <2>3. QED BY <1>0, <1>9, <2>2 DEF Table!Next
<1>10. QED BY <1>4, <1>5, <1>6, <1>7, <1>8, <1>9 DEF Outcome

\* Every step of a writer that has not died in a call is a step of the table, or
\* leaves what its client sees and was told.
LEMMA TableStep ==
  ASSUME QInv, QInv', LInv, LInv', TInv, Answering, crashes = 0, crashes' = 0, [Next]_vars
  PROVE  Table!Next \/ UNCHANGED <<Shown, reply>>
<1>0. WInv /\ WInv' /\ SInv /\ SInv' /\ VInv /\ BInv
  BY DEF QInv, LInv, TInv
<1>1. CASE Clear \/ \E k \in Keys : Remove(k) \/ \E v \in Values : Put(k, v)
  <2>1. CASE Clear
    <3>1. Table!Call("clear", None, None)
      BY <2>1, CallStep DEF Clear
    <3>2. QED BY <3>1 DEF Table!Next
  <2>2. ASSUME NEW k \in Keys, Remove(k) PROVE Table!Next
    <3>1. Table!Call("remove", k, None)
      BY <2>2, CallStep DEF Remove
    <3>2. QED BY <3>1 DEF Table!Next
  <2>3. ASSUME NEW k \in Keys, NEW v \in Values, Put(k, v) PROVE Table!Next
    <3>1. Table!Call("put", k, v)
      BY <2>3, CallStep DEF Put
    <3>2. QED BY <3>1 DEF Table!Next
  <2>4. QED BY <1>1, <2>1, <2>2, <2>3
<1>2. CASE WStep
  <2>1. wpc # "idle"
    BY <1>2 DEF WStep, ChoosePlace, Move, MoveFree, MoveLinks, PutCount, PutHash, PutKey,
      PutEnd, PutValue, PutSize, PutExt, PutExtHead, PutLink, PutLead, Undone, ChooseRemoval,
      RemCount, RemData, RemCopy, RemFree, RemLead, RemDone, ClrCounters, ClrSlots
  <2>2. CASE wpc' = "idle"
    <3>1. Outcome
      BY <1>0, <1>2, <2>2, WStepValues
    <3>2. /\ w.op \in {"put", "remove"} => w.key \in Keys
          /\ w.op = "put" => w.val \in Values
      BY <1>0 DEF WInv, Locals
    <3>3. w.op \in {"remove", "clear"} => w.val = None
      BY <2>1 DEF Answering
    <3>4. QED BY <1>0, <2>1, <2>2, <3>1, <3>2, <3>3, ReturnStep
  <2>3. CASE wpc' # "idle"
    <3>1. before' = before
      BY <1>0, <1>2, KnownStays
    <3>2. Shown' = Shown
      BY <2>1, <2>3, <3>1 DEF Shown, Idle
    <3>3. reply' = reply
      BY <1>0, <1>2, <2>3, ArgumentsStay
    <3>4. QED BY <3>2, <3>3
  <2>4. QED BY <2>2, <2>3
<1>3. CASE Crash
  BY <1>3 DEF Crash
<1>4. CASE UNCHANGED <<table, writer>>
  <2>1. UNCHANGED <<slots, wpc, before, reply>>
    BY <1>4 DEF table, writer
  <2>2. View' = View
    BY <2>1 DEF View, get_idx, IsFirst, Content, Walk
  <2>3. QED BY <2>1, <2>2 DEF Shown, Idle
<1>5. ASSUME NEW r \in Readers,
             RStep(r) \/ Traverse(r) \/ \E k \in Keys : Get(r, k) \/ Exist(r, k)
      PROVE  UNCHANGED <<table, writer>>
  BY <1>5 DEF RStep, GetLead, GetScan, TravSlot, GetSum, GetSize, GetCopy, rest, Traverse, Get,
              Exist, RBegin
<1>6. CASE UNCHANGED vars
  BY <1>4, <1>6 DEF vars
<1>7. QED BY <1>1, <1>2, <1>3, <1>4, <1>5, <1>6 DEF Next

\* It starts empty.
LEMMA TableInit == ASSUME Init PROVE Table!Init
<1>1. slots \in Tables /\ \A i \in Slots : slots[i].count = 0
  BY EmptySlotType DEF Init, Tables
<1>2. QInv /\ LInv /\ TInv
  BY InitQInv, InitLinks, InitValues
<1>3. Written /\ Settled /\ Spelled(slots, {})
  BY <1>2 DEF Init, QInv, WInv, LInv, SInv, Quiet, TInv, VInv
<1>4. View = << >>
  BY <1>1, <1>3, NothingHeld, ViewIs
<1>5. QED BY <1>4 DEF Init, Table!Init, Idle

\* As long as the writer does not die in a call, the slot table is KVTable's map of
\* bounded size: whatever its keys hash to, however put and remove move the slots of
\* other keys about, and whether a value fits or is taken back half-written, each call
\* returns what the map's call returns, and get finds afterwards what the map holds.
THEOREM TableIsMap == Spec /\ [](crashes = 0) => TableSpec
<1>1. Init => Table!Init
  BY TableInit
<1>2. QInv /\ QInv' /\ LInv /\ LInv' /\ TInv /\ Answering /\ crashes = 0 /\ (crashes = 0)' /\ [Next]_vars
        => [Table!Next]_<<Shown, reply>>
  BY TableStep
<1>3. [Table!Next]_<<Shown, reply>> => [Table!Next]_<<IF Idle THEN View ELSE before, reply>>
  BY DEF Shown
<1>4. QED BY <1>1, <1>2, <1>3, SlotInvariance, LinksInvariance, ValuesInvariance, CallsAreAnswered, PTL
      DEF Spec, TableSpec, Table!Spec

===============================================================================
