-------------------------- MODULE QHashArrLinksProofs --------------------------
(***************************************************************************)
(* Proofs about the slot table of a writer that has not died in a call:    *)
(* between its calls the links are mutual and the counters exact, for any  *)
(* number of slots, keys, values and calls.                                *)
(***************************************************************************)
EXTENDS QHashArrProofs

-------------------------------------------------------------------------------
(* What a table in order is.                                               *)

Tables == [Slots -> Slot]

\* The slots in use, the first slots of the keys, and those that hash to h.
Busy(T) == {i \in Slots : T[i].count # 0}
Leading(T) == {i \in Slots : T[i].count > 0 \/ T[i].count = -1}
Named(T, h) == {i \in Leading(T) : T[i].hash = h}

\* Each slot and the one behind it name each other.  The slots of O, of which
\* there is at most one, have lost the slot before them.
Linked(T, O) ==
  /\ \A i \in Busy(T) :
       /\ T[i].link # i
       /\ T[i].link # -1 => T[T[i].link].count = -2 /\ T[T[i].link].hash = i
  /\ \A i \in Busy(T) \ O :
       T[i].count = -2 => T[i].hash \in Busy(T) /\ T[T[i].hash].link = i
  /\ \A i \in O, j \in Busy(T) : T[j].link # i

\* Leading slots are where their keys hash to, and no key is stored twice.
Placed(T, O) ==
  /\ \A i \in Busy(T) \ O : /\ T[i].count > 0 => T[i].hash = i
                            /\ T[i].count = -1 => T[i].hash # i
  /\ \A i \in Leading(T) \ O : T[i].key \in Keys /\ Hash[T[i].key] = T[i].hash
  /\ \A i, j \in Leading(T) \ O : T[i].key = T[j].key => i = j

\* C[h] is the number of the keys that hash to h.
Numbered(T, O, C) == \A h \in Slots : Cardinality(Named(T, h) \ O) = C[h]

InOrder(T, O, C) == Linked(T, O) /\ Placed(T, O) /\ Numbered(T, O, C)

\* The number of keys that the slot at h itself counts.
LeadOf(T, O) == [h \in Slots |-> IF T[h].count > 0 /\ h \notin O THEN T[h].count ELSE 0]

\* The same slots are in use in T and U, for the same; leading slots may count
\* different numbers of keys.
Keeps(T, U, i) == U[i].hash = T[i].hash /\ U[i].link = T[i].link /\ U[i].key = T[i].key
Alike(T, U) ==
  \A i \in Slots : /\ U[i].count = T[i].count \/ (T[i].count > 0 /\ U[i].count > 0)
                   /\ T[i].count # 0 => Keeps(T, U, i)

-------------------------------------------------------------------------------
(* How single stores change a table in order.                              *)

\* The types of a slot's fields.
LEMMA SlotIs ==
  ASSUME NEW T \in Tables, NEW i \in Slots
  PROVE  /\ T[i].count \in Int /\ T[i].count >= -2
         /\ T[i].hash \in Slots
         /\ T[i].link = -1 \/ T[i].link \in Slots
         /\ i # -1
<1>1. T[i] \in Slot
  BY DEF Tables
<1>2. T[i].count \in -2..MaxOps /\ T[i].hash \in Slots /\ T[i].link \in Index
  BY <1>1 DEF Slot
<1>3. QED BY <1>2, TableAssumption DEF Index, Slots

\* Sets of slots are finite.
LEMMA SlotSets ==
  /\ IsFiniteSet(Slots) /\ Cardinality(Slots) = maxslots
  /\ \A S \in SUBSET Slots : IsFiniteSet(S) /\ Cardinality(S) \in Nat /\ Cardinality(S) <= maxslots
<1>1. IsFiniteSet(Slots) /\ Cardinality(Slots) = maxslots
  <2>1. 0 \in Int /\ maxslots - 1 \in Int /\ maxslots \in Nat \ {0}
    BY TableAssumption
  <2>2. QED BY <2>1, FS_Interval DEF Slots
<1>2. QED BY <1>1, FS_Subset, FS_CardinalityType

\* Whatever is no part of the links and keys of used slots does not matter.
LEMMA AlikeOrder ==
  ASSUME NEW T \in Tables, NEW U \in Tables, Alike(T, U), NEW O, NEW C, InOrder(T, O, C)
  PROVE  /\ InOrder(U, O, C)
         /\ Busy(U) = Busy(T) /\ Leading(U) = Leading(T)
<1>1. Busy(U) = Busy(T) /\ Leading(U) = Leading(T) /\ Leading(T) \subseteq Busy(T)
  BY SlotIs DEF Alike, Busy, Leading
<1>2. \A i \in Busy(T) :
        /\ i \in Slots /\ Keeps(T, U, i)
        /\ U[i].count = T[i].count \/ (T[i].count > 0 /\ U[i].count > 0)
  BY DEF Alike, Busy
<1>3. \A h : Named(U, h) = Named(T, h)
  BY <1>1, <1>2 DEF Named, Keeps
<1>4. Linked(U, O)
  <2>1. ASSUME NEW i \in Busy(T), T[i].link # -1
        PROVE  U[T[i].link].count = -2 /\ U[T[i].link].hash = i
    <3>1. T[i].link \in Slots /\ T[T[i].link].count = -2 /\ T[T[i].link].hash = i
      BY <1>2, <2>1, SlotIs DEF InOrder, Linked
    <3>2. T[i].link \in Busy(T)
      BY <3>1 DEF Busy
    <3>3. QED BY <1>2, <3>1, <3>2 DEF Keeps
  <2>2. \A i \in Busy(T) \ O :
          U[i].count = -2 => T[i].hash \in Busy(T) /\ U[T[i].hash].link = i
    BY <1>2 DEF InOrder, Linked, Keeps
  <2>3. QED BY <1>1, <1>2, <2>1, <2>2 DEF InOrder, Linked, Keeps
<1>5. Placed(U, O)
  BY <1>1, <1>2 DEF InOrder, Placed, Keeps
<1>6. Numbered(U, O, C)
  BY <1>3 DEF InOrder, Numbered
<1>7. QED BY <1>1, <1>4, <1>5, <1>6 DEF InOrder

\* Equal counts, equal leaders.
LEMMA SameLeads ==
  ASSUME NEW T, NEW U, NEW O, \A i \in Slots : U[i].count = T[i].count
  PROVE  LeadOf(U, O) = LeadOf(T, O)
BY DEF LeadOf

\* The first slot of key k, and the count of its hash that goes with it.
FirstOf(T, x, k) ==
  /\ T[x].hash = Hash[k] /\ T[x].key = k /\ T[x].link = -1
  /\ (T[x].count = 1 /\ x = Hash[k]) \/ (T[x].count = -1 /\ x # Hash[k])

Changed(C, h, n) == [C EXCEPT ![h] = @ + n]

\* Key k has a first slot.
Has(T, k) == \E i \in Leading(T) : T[i].key = k

\* Everything but slot x stays as it was.
Beside(T, U, x) == \A i \in Slots \ {x} : U[i].count = T[i].count /\ Keeps(T, U, i)

\* A key gets its first slot.
LEMMA LeadAdded ==
  ASSUME NEW T \in Tables, NEW U \in Tables, NEW C \in [Slots -> Int], InOrder(T, {}, C),
         NEW x \in Slots, T[x].count = 0, Beside(T, U, x), NEW k \in Keys,
         FirstOf(U, x, k), ~Has(T, k)
  PROVE  /\ InOrder(U, {}, Changed(C, Hash[k], 1))
         /\ Busy(U) = Busy(T) \cup {x} /\ x \notin Busy(T)
         /\ Leading(U) = Leading(T) \cup {x} /\ x \notin Leading(T)
<1>1. /\ Busy(U) = Busy(T) \cup {x} /\ x \notin Busy(T)
      /\ Leading(U) = Leading(T) \cup {x} /\ x \notin Leading(T)
      /\ Leading(T) \subseteq Busy(T)
  BY SlotIs DEF Beside, Busy, Leading, FirstOf
<1>2. \A i \in Busy(T) : i \in Slots /\ i # x /\ U[i].count = T[i].count /\ Keeps(T, U, i)
  BY <1>1 DEF Beside, Busy
<1>3. Linked(U, {})
  <2>1. ASSUME NEW i \in Busy(T), T[i].link # -1
        PROVE  U[T[i].link].count = -2 /\ U[T[i].link].hash = i
    <3>1. T[i].link \in Slots /\ T[T[i].link].count = -2 /\ T[T[i].link].hash = i
      BY <1>2, <2>1, SlotIs DEF InOrder, Linked
    <3>2. T[i].link \in Busy(T)
      BY <3>1 DEF Busy
    <3>3. QED BY <1>2, <3>1, <3>2 DEF Keeps
  <2>2. \A i \in Busy(T) : U[i].link # i /\ U[i].link = T[i].link
    BY <1>2 DEF InOrder, Linked, Keeps
  <2>3. \A i \in Busy(T) : U[i].count = -2 => U[i].hash \in Busy(T) /\ U[U[i].hash].link = i
    BY <1>2 DEF InOrder, Linked, Keeps
  <2>4. x # -1 /\ U[x].count # -2 /\ U[x].link = -1
    BY SlotIs DEF FirstOf
  <2>5. QED BY <1>1, <2>1, <2>2, <2>3, <2>4 DEF Linked
<1>4. Placed(U, {})
  <2>1. \A i \in Busy(T) : /\ U[i].count > 0 => U[i].hash = i
                           /\ U[i].count = -1 => U[i].hash # i
    BY <1>2 DEF InOrder, Placed, Keeps
  <2>2. /\ U[x].count > 0 => U[x].hash = x
        /\ U[x].count = -1 => U[x].hash # x
        /\ U[x].hash = Hash[k] /\ U[x].key = k
    BY DEF FirstOf
  <2>3. /\ \A i \in Leading(T) : U[i].key = T[i].key /\ U[i].hash = T[i].hash
        /\ \A i \in Leading(T) : T[i].key \in Keys /\ Hash[T[i].key] = T[i].hash
        /\ \A i, j \in Leading(T) : T[i].key = T[j].key => i = j
        /\ \A i \in Leading(T) : T[i].key # k
    BY <1>1, <1>2 DEF InOrder, Placed, Keeps, Has
  <2>4. QED BY <1>1, <2>1, <2>2, <2>3 DEF Placed
<1>5. Numbered(U, {}, Changed(C, Hash[k], 1))
  <2> SUFFICES ASSUME NEW h \in Slots
               PROVE  Cardinality(Named(U, h)) = [C EXCEPT ![Hash[k]] = @ + 1][h]
    BY DEF Numbered, Changed
  <2>1. Cardinality(Named(T, h)) = C[h] /\ Named(T, h) \subseteq Slots /\ x \notin Named(T, h)
    <3>1. Named(T, h) \ {} = Named(T, h)
      OBVIOUS
    <3>2. QED BY <1>1, <3>1 DEF InOrder, Numbered, Named, Leading
  <2>2. IsFiniteSet(Named(T, h))
    BY <2>1, SlotSets
  <2>3. CASE h = Hash[k]
    <3>1. Named(U, h) = Named(T, h) \cup {x}
      BY <1>1, <1>2, <2>3 DEF Named, Keeps, FirstOf
    <3>2. QED BY <2>1, <2>2, <2>3, <3>1, FS_AddElement, ZenonT(60)
  <2>4. CASE h # Hash[k]
    <3>1. Named(U, h) = Named(T, h)
      BY <1>1, <1>2, <2>4 DEF Named, Keeps, FirstOf
    <3>2. QED BY <2>1, <2>4, <3>1
  <2>5. QED BY <2>3, <2>4
<1>6. QED BY <1>1, <1>3, <1>4, <1>5 DEF InOrder

\* A value gets another slot x behind slot p.
LEMMA Extended ==
  ASSUME NEW T \in Tables, NEW U \in Tables, NEW C, InOrder(T, {}, C),
         NEW x \in Slots, T[x].count = 0, NEW p \in Busy(T), T[p].link = -1,
         U[x].count = -2, U[x].hash = p, U[x].link = -1,
         \A i \in Slots \ {x} :
           /\ U[i].count = T[i].count /\ U[i].hash = T[i].hash /\ U[i].key = T[i].key
           /\ U[i].link = IF i = p THEN x ELSE T[i].link
  PROVE  /\ InOrder(U, {}, C)
         /\ Busy(U) = Busy(T) \cup {x} /\ x \notin Busy(T)
         /\ Leading(U) = Leading(T)
         /\ LeadOf(U, {}) = LeadOf(T, {})
<1>1. /\ Busy(U) = Busy(T) \cup {x} /\ x \notin Busy(T)
      /\ Leading(U) = Leading(T) /\ Leading(T) \subseteq Busy(T)
      /\ p \in Slots /\ p # x /\ x # -1
  BY SlotIs DEF Busy, Leading
<1>2. \A i \in Busy(T) :
        /\ i \in Slots /\ i # x /\ U[i].count = T[i].count
        /\ U[i].hash = T[i].hash /\ U[i].key = T[i].key
        /\ U[i].link = IF i = p THEN x ELSE T[i].link
  BY <1>1 DEF Busy
<1>3. Linked(U, {})
  <2>1. ASSUME NEW i \in Busy(T), T[i].link # -1
        PROVE  U[T[i].link].count = -2 /\ U[T[i].link].hash = i /\ i # p
    <3>1. T[i].link \in Slots /\ T[T[i].link].count = -2 /\ T[T[i].link].hash = i
      BY <1>2, <2>1, SlotIs DEF InOrder, Linked
    <3>2. T[i].link \in Busy(T)
      BY <3>1 DEF Busy
    <3>3. QED BY <1>2, <2>1, <3>1, <3>2
  <2>2. \A i \in Busy(T) : U[i].link # i
    BY <1>1, <1>2 DEF InOrder, Linked
  <2>3. ASSUME NEW i \in Busy(T), U[i].count = -2
        PROVE  U[i].hash \in Busy(T) /\ U[U[i].hash].link = i
    <3>1. T[i].count = -2 /\ T[i].hash \in Busy(T) /\ T[T[i].hash].link = i /\ U[i].hash = T[i].hash
      BY <1>2, <2>3 DEF InOrder, Linked
    <3>2. i # -1
      BY <1>2, SlotIs
    <3>3. QED BY <1>2, <3>1, <3>2
  <2>4. \A i \in Busy(U) :
       /\ U[i].link # i
       /\ U[i].link # -1 => U[U[i].link].count = -2 /\ U[U[i].link].hash = i
    BY <1>1, <1>2, <2>1, <2>2
  <2>5. \A i \in Busy(U) : U[i].count = -2 => U[i].hash \in Busy(U) /\ U[U[i].hash].link = i
    BY <1>1, <1>2, <2>3
  <2>6. QED BY <2>4, <2>5 DEF Linked
<1>4. Placed(U, {})
  <2>1. \A i \in Busy(T) : /\ U[i].count > 0 => U[i].hash = i
                           /\ U[i].count = -1 => U[i].hash # i
    BY <1>2 DEF InOrder, Placed
  <2>3. /\ \A i \in Leading(T) : U[i].key = T[i].key /\ U[i].hash = T[i].hash
        /\ \A i \in Leading(T) : T[i].key \in Keys /\ Hash[T[i].key] = T[i].hash
        /\ \A i, j \in Leading(T) : T[i].key = T[j].key => i = j
    BY <1>1, <1>2 DEF InOrder, Placed
  <2>4. QED BY <1>1, <2>1, <2>3 DEF Placed
<1>5. \A h : Named(U, h) = Named(T, h)
  BY <1>1, <1>2 DEF Named
<1>6. Numbered(U, {}, C)
  BY <1>5 DEF InOrder, Numbered
<1>7. LeadOf(U, {}) = LeadOf(T, {})
  <2>1. \A h \in Slots : IF U[h].count > 0 THEN T[h].count = U[h].count ELSE ~(T[h].count > 0)
    BY <1>1
  <2>2. QED BY <2>1 DEF LeadOf
<1>8. QED BY <1>1, <1>3, <1>4, <1>6, <1>7 DEF InOrder

\* One slot more, one slot less, and one for another.
LEMMA OneMore ==
  ASSUME NEW S \in SUBSET Slots, NEW b \in Slots, b \notin S, NEW R, R = S \cup {b}
  PROVE  Cardinality(R) = Cardinality(S) + 1
BY SlotSets, FS_AddElement

\* The count without one of the slots.
LEMMA OneLess ==
  ASSUME NEW S \in SUBSET Slots, NEW a \in S, NEW R, R = S \ {a}
  PROVE  Cardinality(R) = Cardinality(S) - 1
BY SlotSets, FS_RemoveElement

\* The count with one slot replaced by another.
LEMMA Swapped ==
  ASSUME NEW S \in SUBSET Slots, NEW a \in S, NEW b \in Slots, b \notin S,
         NEW R, R = (S \ {a}) \cup {b}
  PROVE  Cardinality(R) = Cardinality(S)
<1>1. S \ {a} \in SUBSET Slots /\ b \notin S \ {a} /\ Cardinality(S) \in Nat
  BY SlotSets
<1>2. Cardinality(S \ {a}) = Cardinality(S) - 1
  BY OneLess
<1>3. Cardinality(R) = Cardinality(S \ {a}) + 1
  BY <1>1, OneMore
<1>4. QED BY <1>1, <1>2, <1>3

\* A used slot moves: from is released, to serves in its place, and its
\* neighbours name to.  It keeps its kind, or becomes the leading slot of its hash.
LEMMA Relocated ==
  ASSUME NEW T \in Tables, NEW U \in Tables, NEW C, InOrder(T, {}, C),
         NEW from \in Busy(T), NEW to \in Slots, T[to].count = 0,
         U[from].count = 0,
         U[to].hash = T[from].hash, U[to].link = T[from].link, U[to].key = T[from].key,
         \/ U[to].count = T[from].count /\ T[from].count < 0 /\ Named(T, to) = {}
         \/ U[to].count > 0 /\ T[from].count = -1 /\ T[from].hash = to,
         \A i \in Slots \ {from, to} :
           /\ U[i].count = T[i].count /\ U[i].key = T[i].key
           /\ U[i].hash = IF i = T[from].link THEN to ELSE T[i].hash
           /\ U[i].link = IF T[from].count = -2 /\ i = T[from].hash THEN to ELSE T[i].link
  PROVE  /\ InOrder(U, {}, C)
         /\ Busy(U) = (Busy(T) \ {from}) \cup {to} /\ to \notin Busy(T)
         /\ Cardinality(Leading(U)) = Cardinality(Leading(T))
<1>1. /\ from \in Slots /\ from # to /\ to # -1 /\ to \notin Busy(T) /\ from # -1
      /\ Busy(U) = (Busy(T) \ {from}) \cup {to}
      /\ Leading(T) \subseteq Busy(T)
  BY SlotIs DEF Busy, Leading
<1>2. \A i \in Busy(T) \ {from} :
        /\ i \in Slots /\ i # to /\ i # -1 /\ U[i].count = T[i].count /\ U[i].key = T[i].key
        /\ U[i].hash = IF i = T[from].link THEN to ELSE T[i].hash
        /\ U[i].link = IF T[from].count = -2 /\ i = T[from].hash THEN to ELSE T[i].link
  BY <1>1, SlotIs DEF Busy
<1>3. \A i \in Busy(T) :
        /\ T[i].link # i
        /\ T[i].link # -1 => /\ T[i].link \in Busy(T)
                             /\ T[T[i].link].count = -2 /\ T[T[i].link].hash = i
  <2> SUFFICES ASSUME NEW i \in Busy(T)
               PROVE  /\ T[i].link # i
                      /\ T[i].link # -1 => /\ T[i].link \in Busy(T)
                                           /\ T[T[i].link].count = -2 /\ T[T[i].link].hash = i
    OBVIOUS
  <2>1. i \in Slots
    BY DEF Busy
  <2>2. T[i].link = -1 \/ T[i].link \in Slots
    BY <2>1, SlotIs
  <2>3. QED BY <2>2 DEF InOrder, Linked, Busy
<1>4. \A i \in Busy(T) : T[i].count = -2 => T[i].hash \in Busy(T) /\ T[T[i].hash].link = i
  BY DEF InOrder, Linked
<1>5. Linked(U, {})
  <2>1. ASSUME NEW i \in Busy(U), U[i].link # -1
        PROVE  U[U[i].link].count = -2 /\ U[U[i].link].hash = i /\ U[i].link # i
    <3>1. CASE i = to
      BY <1>1, <1>2, <1>3, <2>1, <3>1
    <3>2. CASE i \in Busy(T) \ {from} /\ T[from].count = -2 /\ i = T[from].hash
      BY <1>1, <1>2, <3>2
    <3>3. CASE i \in Busy(T) \ {from} /\ ~(T[from].count = -2 /\ i = T[from].hash)
      <4>1. U[i].link = T[i].link
        BY <1>2, <3>3
      <4>2. PICK l \in Busy(T) : l = T[i].link /\ T[l].count = -2 /\ T[l].hash = i /\ l # i
        BY <1>3, <2>1, <3>3, <4>1
      <4>3. l # from /\ l # T[from].link
        <5>1. l # -1 /\ l = T[from].link => T[l].hash = from
          BY <1>3
        <5>2. QED BY <2>1, <3>3, <4>1, <4>2, <5>1
      <4>4. QED BY <1>2, <4>1, <4>2, <4>3
    <3>4. QED BY <1>1, <3>1, <3>2, <3>3
  <2>2. ASSUME NEW i \in Busy(U), U[i].count = -2
        PROVE  U[i].hash \in Busy(U) /\ U[U[i].hash].link = i
    <3>1. CASE i = to
      <4>1. PICK h \in Busy(T) : h = T[from].hash /\ T[h].link = from
        BY <1>4, <2>2, <3>1
      <4>2. h # from /\ T[from].count = -2
        BY <1>3, <2>2, <3>1, <4>1
      <4>3. QED BY <1>1, <1>2, <3>1, <4>1, <4>2
    <3>2. CASE i \in Busy(T) \ {from} /\ i = T[from].link
      BY <1>1, <1>2, <3>2
    <3>3. CASE i \in Busy(T) \ {from} /\ i # T[from].link
      <4>1. PICK h \in Busy(T) : h = T[i].hash /\ T[h].link = i
        BY <1>2, <1>4, <2>2, <3>3
      <4>2. h # from
        BY <3>3, <4>1
      <4>3. ~(T[from].count = -2 /\ h = T[from].hash)
        BY <1>4, <3>3, <4>1
      <4>4. QED BY <1>1, <1>2, <3>3, <4>1, <4>2, <4>3
    <3>4. QED BY <1>1, <3>1, <3>2, <3>3
  <2>3. to # -1 /\ \A i \in Busy(U) : U[i].link = i => U[i].link # -1
    BY <1>1, <1>2
  <2>4. QED BY <2>1, <2>2, <2>3 DEF Linked
<1>6. \A i \in Busy(T) \ {from} : T[i].count # -2 => U[i].hash = T[i].hash
  BY <1>1, <1>2, <1>3
<1>7. /\ \A i \in Slots \ {from, to} :
           (i \in Leading(U) <=> i \in Leading(T)) /\ (i \in Leading(T) => U[i].hash = T[i].hash)
      /\ to \notin Leading(T) /\ from \notin Leading(U)
      /\ to \in Leading(U) <=> from \in Leading(T)
  <2>1. ASSUME NEW i \in Slots \ {from, to}
        PROVE  (i \in Leading(U) <=> i \in Leading(T)) /\ (i \in Leading(T) => U[i].hash = T[i].hash)
    <3>1. i \in Leading(T) => T[i].count # -2 /\ i \in Busy(T)
      BY SlotIs DEF Leading, Busy
    <3>2. QED BY <1>6, <3>1 DEF Leading
  <2>2. QED BY <1>1, <2>1 DEF Leading, Busy
<1>8. Leading(U) = IF from \in Leading(T) THEN (Leading(T) \ {from}) \cup {to} ELSE Leading(T)
  <2>1. Leading(U) \subseteq Slots /\ Leading(T) \subseteq Slots
    BY DEF Leading
  <2>2. \A i \in Slots : i \in Leading(U) <=>
          i \in IF from \in Leading(T) THEN (Leading(T) \ {from}) \cup {to} ELSE Leading(T)
    BY <1>1, <1>7
  <2>3. (IF from \in Leading(T) THEN (Leading(T) \ {from}) \cup {to} ELSE Leading(T)) \subseteq Slots
    BY <2>1
  <2>4. QED BY <2>1, <2>2, <2>3
<1>9. \A h \in Slots : Named(U, h) = IF from \in Named(T, h) THEN (Named(T, h) \ {from}) \cup {to}
                                    ELSE Named(T, h)
  <2> SUFFICES ASSUME NEW h \in Slots
               PROVE  Named(U, h) = IF from \in Named(T, h) THEN (Named(T, h) \ {from}) \cup {to}
                                    ELSE Named(T, h)
    OBVIOUS
  <2>1. \A i \in Leading(T) \ {from} : U[i].hash = T[i].hash
    BY <1>1, <1>7 DEF Leading
  <2>2. QED BY <1>1, <1>7, <1>8, <2>1 DEF Named
<1>10. Placed(U, {})
  <2>1. ASSUME NEW i \in Busy(U)
        PROVE  (U[i].count > 0 => U[i].hash = i) /\ (U[i].count = -1 => U[i].hash # i)
    <3>1. CASE i \in Busy(T) \ {from}
      BY <1>2, <1>6, <3>1 DEF InOrder, Placed
    <3>2. CASE i = to
      <4>1. T[from].count = -1 /\ T[from].hash = to => from \in Named(T, to)
        BY <1>1 DEF Named, Leading
      <4>2. T[from].count \in Int /\ U[to].count \in Int
        BY <1>1, SlotIs
      <4>3. QED BY <3>2, <4>1, <4>2
    <3>3. QED BY <1>1, <3>1, <3>2
  <2>2. \A i \in Leading(T) \ {from} : U[i].hash = T[i].hash /\ U[i].key = T[i].key
    BY <1>1, <1>2, <1>7 DEF Leading
  <2>3. /\ \A i \in Leading(T) : T[i].key \in Keys /\ Hash[T[i].key] = T[i].hash
        /\ \A i, j \in Leading(T) : T[i].key = T[j].key => i = j
    BY DEF InOrder, Placed
  <2>4. \A i \in Leading(U) : \E j \in Leading(T) :
          /\ U[i].hash = T[j].hash /\ U[i].key = T[j].key
          /\ j = IF i = to THEN from ELSE i
    BY <1>1, <1>7, <1>8, <2>2
  <2>5. \A i, j \in Leading(U) : U[i].key = U[j].key => i = j
    BY <1>1, <1>7, <2>3, <2>4
  <2>6. QED BY <2>1, <2>3, <2>4, <2>5 DEF Placed
<1>11. Numbered(U, {}, C)
  <2> SUFFICES ASSUME NEW h \in Slots PROVE Cardinality(Named(U, h) \ {}) = C[h]
    BY DEF Numbered
  <2>1. Named(T, h) \in SUBSET Slots /\ to \notin Named(T, h)
    BY <1>7 DEF Named, Leading
  <2>2. Cardinality(Named(U, h)) = Cardinality(Named(T, h))
    <3>1. CASE from \in Named(T, h)
      <4>1. Named(U, h) = (Named(T, h) \ {from}) \cup {to}
        BY <1>9, <3>1
      <4>2. QED BY <2>1, <3>1, <4>1, Swapped
    <3>2. CASE from \notin Named(T, h)
      BY <1>9, <3>2
    <3>3. QED BY <3>1, <3>2
  <2>3. Named(U, h) \ {} = Named(U, h) /\ Named(T, h) \ {} = Named(T, h)
    OBVIOUS
  <2>4. QED BY <2>2, <2>3 DEF InOrder, Numbered
<1>12. Cardinality(Leading(U)) = Cardinality(Leading(T))
  <2>1. Leading(T) \in SUBSET Slots
    BY DEF Leading
  <2>2. from \in Slots /\ to \notin Leading(T)
    BY <1>1, <1>7
  <2>3. CASE from \in Leading(T)
    <3>1. Leading(U) = (Leading(T) \ {from}) \cup {to}
      BY <1>8, <2>3
    <3>2. QED BY <2>1, <2>2, <2>3, <3>1, Swapped
  <2>4. CASE from \notin Leading(T)
    BY <1>8, <2>4
  <2>5. QED BY <2>3, <2>4
<1>13. QED BY <1>1, <1>5, <1>10, <1>11, <1>12 DEF InOrder

\* The first slot of a key is taken off the count of its hash: it is orphaned.
LEMMA Orphaned ==
  ASSUME NEW T \in Tables, NEW C \in [Slots -> Int], InOrder(T, {}, C), NEW o \in Leading(T)
  PROVE  InOrder(T, {o}, Changed(C, T[o].hash, -1))
<1>1. o \in Slots /\ T[o].hash \in Slots /\ o \in Named(T, T[o].hash) /\ o # -1 /\ T[o].count # -2
  BY SlotIs DEF Leading, Named
<1>2. Linked(T, {o})
  <2>1. \A j \in Busy(T) : T[j].link # o
    BY <1>1 DEF InOrder, Linked
  <2>2. QED BY <2>1 DEF InOrder, Linked
<1>3. Placed(T, {o})
  BY DEF InOrder, Placed
<1>4. Numbered(T, {o}, Changed(C, T[o].hash, -1))
  <2> SUFFICES ASSUME NEW h \in Slots
               PROVE  Cardinality(Named(T, h) \ {o}) = [C EXCEPT ![T[o].hash] = @ + -1][h]
    BY DEF Numbered, Changed
  <2>1. Named(T, h) \in SUBSET Slots /\ Named(T, h) \ {} = Named(T, h)
    BY DEF Named, Leading
  <2>2. Cardinality(Named(T, h)) = C[h]
    BY <2>1 DEF InOrder, Numbered
  <2>3. CASE h = T[o].hash
    <3>1. Cardinality(Named(T, h) \ {o}) = Cardinality(Named(T, h)) - 1
      BY <1>1, <2>1, <2>3, OneLess
    <3>2. QED BY <2>2, <2>3, <3>1
  <2>4. CASE h # T[o].hash
    <3>1. Named(T, h) \ {o} = Named(T, h)
      BY <2>4 DEF Named
    <3>2. QED BY <2>2, <2>4, <3>1
  <2>5. QED BY <2>3, <2>4
<1>5. QED BY <1>2, <1>3, <1>4 DEF InOrder

\* Slot o is released, and nothing else happens.  The slot behind it has lost the
\* slot before it.
Frees(T, U, o) == U[o].count = 0 /\ \A i \in Slots \ {o} : U[i] = T[i]
Behind(T, o) == IF T[o].link = -1 THEN {} ELSE {T[o].link}

\* The orphan is released; the slot behind it, if there is one, is the next orphan.
LEMMA Released ==
  ASSUME NEW T \in Tables, NEW U \in Tables, NEW C, NEW o \in Busy(T), InOrder(T, {o}, C),
         Frees(T, U, o)
  PROVE  /\ InOrder(U, Behind(T, o), C)
         /\ Busy(U) = Busy(T) \ {o}
         /\ Leading(U) \ Behind(T, o) = Leading(T) \ {o}
         /\ LeadOf(U, Behind(T, o)) = LeadOf(T, {o})
         /\ T[o].link # -1 => T[o].link \in Busy(U) /\ T[T[o].link].count = -2
<1>next. PICK O : O = Behind(T, o) /\ O = IF T[o].link = -1 THEN {} ELSE {T[o].link}
  BY DEF Behind
<1>freed. U[o].count = 0 /\ \A i \in Slots \ {o} : U[i] = T[i]
  BY DEF Frees
<1>1. /\ o \in Slots /\ o # -1 /\ Busy(U) = Busy(T) \ {o}
      /\ \A i \in Busy(U) : i \in Slots /\ i # -1 /\ i # o /\ U[i] = T[i]
      /\ Leading(U) = Leading(T) \ {o}
  BY <1>freed, SlotIs DEF Busy, Leading
<1>2. T[o].link # -1 => /\ T[o].link \in Busy(U) /\ T[o].link # o
                        /\ T[T[o].link].count = -2 /\ T[T[o].link].hash = o
                        /\ T[o].link \notin Leading(T)
  <2>1. T[o].link = -1 \/ T[o].link \in Slots
    BY <1>1, SlotIs
  <2>2. QED BY <1>1, <2>1 DEF InOrder, Linked, Busy, Leading
<1>3. O \cap Leading(T) = {} /\ o \notin O
  BY <1>next, <1>2
<1>4. Leading(U) \ O = Leading(T) \ {o}
  BY <1>1, <1>3
<1>5. Linked(U, O)
  <2>1. ASSUME NEW i \in Busy(U)
        PROVE  /\ U[i].link # i
               /\ U[i].link # -1 => U[U[i].link].count = -2 /\ U[U[i].link].hash = i
    <3>1. i \in Busy(T) /\ U[i] = T[i] /\ (T[i].link = -1 \/ T[i].link \in Slots)
      BY <1>1, SlotIs
    <3>2. T[i].link # o
      BY <1>1 DEF InOrder, Linked
    <3>3. QED BY <1>1, <1>freed, <3>1, <3>2 DEF InOrder, Linked
  <2>2. ASSUME NEW i \in Busy(U) \ O, U[i].count = -2
        PROVE  U[i].hash \in Busy(U) /\ U[U[i].hash].link = i
    <3>1. i \in Busy(T) \ {o} /\ U[i] = T[i] /\ i # T[o].link
      BY <1>next, <1>1, <2>2
    <3>2. T[i].hash \in Busy(T) /\ T[T[i].hash].link = i
      BY <2>2, <3>1 DEF InOrder, Linked
    <3>3. T[i].hash # o
      BY <3>1, <3>2
    <3>4. QED BY <1>1, <3>1, <3>2, <3>3
  <2>3. ASSUME NEW i \in O, NEW j \in Busy(U) PROVE U[j].link # i
    <3>1. i = T[o].link /\ i # -1 /\ T[i].hash = o
      BY <1>next, <1>2
    <3>2. QED BY <1>1, <3>1 DEF InOrder, Linked
  <2>4. QED BY <2>1, <2>2, <2>3 DEF Linked
<1>6. Placed(U, O)
  <2>1. \A i \in Leading(U) \ O : i \in Leading(T) \ {o} /\ U[i] = T[i]
    BY <1>4, <1>1, <1>freed DEF Leading
  <2>2. QED BY <1>1, <2>1 DEF InOrder, Placed
<1>7. \A h \in Slots : Named(U, h) \ O = Named(T, h) \ {o}
  <2>1. \A i \in Leading(U) : U[i] = T[i]
    BY <1>1, <1>freed DEF Leading
  <2>2. QED BY <1>1, <1>3, <2>1 DEF Named
<1>8. Numbered(U, O, C)
  BY <1>7 DEF InOrder, Numbered
<1>9. LeadOf(U, O) = LeadOf(T, {o})
  <2>1. \A h \in Slots : (IF U[h].count > 0 /\ h \notin O THEN U[h].count ELSE 0)
                       = (IF T[h].count > 0 /\ h \notin {o} THEN T[h].count ELSE 0)
    <3> SUFFICES ASSUME NEW h \in Slots
                 PROVE  (IF U[h].count > 0 /\ h \notin O THEN U[h].count ELSE 0)
                       = (IF T[h].count > 0 /\ h \notin {o} THEN T[h].count ELSE 0)
      OBVIOUS
    <3>1. CASE h = o
      BY <1>freed, <3>1
    <3>2. CASE h # o
      <4>1. h \in O => ~(T[h].count > 0)
        BY <1>next, <1>2
      <4>2. QED BY <1>freed, <3>2, <4>1
    <3>3. QED BY <3>1, <3>2
  <2>2. QED BY <2>1 DEF LeadOf
<1>10. QED BY <1>next, <1>1, <1>2, <1>4, <1>5, <1>6, <1>8, <1>9 DEF InOrder

-------------------------------------------------------------------------------
(* What holds at each point of a call.                                     *)

Lead(T) == LeadOf(T, {})

\* A table in order, and what its counters should be.
Whole(T, O, C, used, keys) ==
  /\ InOrder(T, O, C)
  /\ used = Cardinality(Busy(T))
  /\ keys = Cardinality(Leading(T) \ O)

\* The table in which slot i is not in use, and the one in which what was copied
\* from one slot to another is still where it was.
Without(T, i) == [T EXCEPT ![i].count = 0]
BackAt(T, from, to) == [T EXCEPT ![from].count = T[to].count, ![to].count = 0]

Home == Hash[w.key]

\* Between calls, and where nothing has been stored yet or everything has.
Quiet == {"idle", "put", "move", "putCount", "remove", "remCount", "removed", "undone", "clear"}
Settled == Whole(slots, {}, Lead(slots), usedslots, num)

\* A slot has been copied; it has been released where it was.
Copied(from, to) == to # from /\ slots[from].count < 0 /\ slots[to] = slots[from]
Moving(from, to) ==
  /\ to # from /\ slots[from].count = 0 /\ slots[to].count < 0
  /\ slots[to].hash = slots[from].hash /\ slots[to].link = slots[from].link
  /\ slots[to].key = slots[from].key

\* The slot chosen for a key: its hash slot, or another one behind a leading slot.
Chosen ==
  /\ w.cnt = 1 => w.idx = Home
  /\ w.cnt = -1 => slots[Home].count > 0 /\ w.idx # Home

\* The key's first slot is being written: the table is in order without it.
Growing ==
  LET T == Without(slots, w.idx)
  IN  /\ Whole(T, {}, Lead(T), usedslots, num)
      /\ Chosen
      /\ w.cnt = -1 => ~Has(T, w.key)
      /\ slots[w.idx].count = w.cnt

Headed == slots[w.idx].hash = Home /\ slots[w.idx].key = w.key /\ w.cur = w.idx

\* The key's further slots are being written: a collision is not counted yet.
Pending(T) == IF w.cnt = -1 THEN Changed(Lead(T), Home, 1) ELSE Lead(T)

Extending(T, used) ==
  /\ Whole(T, {}, Pending(T), used, num)
  /\ Chosen
  /\ slots[w.idx].count = w.cnt /\ slots[w.idx].hash = Home

Last == slots[w.cur].count # 0 /\ slots[w.cur].link = -1

\* A key's slots are being removed: if it led others, their number is kept.
Left(T, O) ==
  IF w.then = "remCopy" THEN [LeadOf(T, O) EXCEPT ![w.idx] = w.cnt - 1] ELSE LeadOf(T, O)

Removing ==
  /\ slots[w.cur].count # 0
  /\ w.loops + Cardinality(Busy(slots)) <= maxslots
  /\ Whole(slots, {w.cur}, Left(slots, {w.cur}), usedslots, num - 1)
  /\ w.then = "remCopy" =>
       /\ slots[w.idx].count = 0 \/ w.cur = w.idx
       /\ slots[w.aux].count = -1 /\ slots[w.aux].hash = w.idx /\ w.aux # w.cur

\* The invariant: what each point of a call finds.
SInv ==
  /\ crashes = 0
  /\ wpc # "remData" => w.loops = 0
  /\ wpc \in {"put", "move", "moveFree", "moveLinks", "putCount", "putHash", "putKey", "putEnd"} =>
       w.done = 0
  /\ wpc \in {"putExt", "putExtHead", "putLink"} => w.done # 0
  /\ wpc = "clear" => w.cur = 0
  /\ wpc \in Quiet => Settled
  /\ wpc \in {"move", "moveFree", "moveLinks"} => w.cnt = 1
  /\ wpc = "move" => slots[w.idx].count = 0 /\ slots[Home].count < 0
  /\ wpc = "moveFree" =>
       LET T == Without(slots, w.idx)
       IN  Whole(T, {}, Lead(T), usedslots - 1, num) /\ Copied(Home, w.idx)
  /\ wpc = "moveLinks" =>
       LET T == BackAt(slots, Home, w.idx)
       IN  Whole(T, {}, Lead(T), usedslots, num) /\ Moving(Home, w.idx)
  /\ wpc = "putCount" =>
       /\ slots[w.idx].count = 0 /\ Chosen
       /\ w.cnt = -1 => ~Has(slots, w.key)
  /\ wpc = "putHash" => Growing
  /\ wpc = "putKey" => Growing /\ slots[w.idx].hash = Home
  /\ wpc = "putEnd" => Growing /\ Headed
  /\ wpc \in {"putValue", "putSize"} /\ w.done = 0 =>
       Growing /\ Headed /\ slots[w.idx].link = -1
  /\ wpc \in {"putValue", "putSize"} /\ w.done # 0 =>
       Extending(slots, usedslots + 1) /\ slots[w.cur].count = -2 /\ slots[w.cur].link = -1
  /\ wpc \in {"putExt", "putExtHead"} => Extending(slots, usedslots) /\ Last
  /\ wpc = "putExtHead" => slots[w.aux].count = 0
  /\ wpc = "putLink" =>
       /\ Extending(Without(slots, w.aux), usedslots) /\ Last /\ w.cur # w.aux
       /\ slots[w.aux].count = -2 /\ slots[w.aux].hash = w.cur /\ slots[w.aux].link = -1
  /\ wpc = "putLead" => Extending(slots, usedslots)
  /\ wpc = "remCount" => w.cur = w.idx /\ slots[w.cur].count = -1 /\ w.then # "remCopy"
  /\ wpc = "remData" => Removing
  /\ wpc = "remCopy" =>
       /\ Whole(slots, {}, Left(slots, {}), usedslots, num)
       /\ slots[w.idx].count = 0 /\ slots[w.aux].count = -1 /\ slots[w.aux].hash = w.idx
  /\ wpc = "remFree" =>
       LET T == Without(slots, w.idx)
       IN  /\ Whole(T, {}, Left(T, {}), usedslots - 1, num) /\ Copied(w.aux, w.idx)
           /\ slots[w.aux].count = -1 /\ slots[w.aux].hash = w.idx
  /\ wpc = "remLead" =>
       LET T == BackAt(slots, w.aux, w.idx)
       IN  /\ Whole(T, {}, Left(T, {}), usedslots, num) /\ Moving(w.aux, w.idx)
           /\ slots[w.idx].count = -1 /\ slots[w.idx].hash = w.idx
  /\ wpc = "clrSlots" =>
       usedslots = 0 /\ num = 0 /\ \A i \in Slots : i < w.cur => slots[i].count = 0

-------------------------------------------------------------------------------
(* The tables of a call.                                                   *)

\* The slots, counts and links of T and U are the same where they matter.
Same(T, U) ==
  \A i \in Slots : U[i].count = T[i].count /\ (T[i].count # 0 => Keeps(T, U, i))

\* What is whole stays whole in the same table.
LEMMA SameTable ==
  ASSUME NEW T \in Tables, NEW U \in Tables, Same(T, U), NEW O, NEW C, NEW used, NEW keys,
         Whole(T, O, C, used, keys)
  PROVE  Whole(U, O, C, used, keys) /\ LeadOf(U, O) = LeadOf(T, O)
<1>1. Alike(T, U)
  BY DEF Same, Alike
<1>2. InOrder(U, O, C) /\ Busy(U) = Busy(T) /\ Leading(U) = Leading(T)
  BY <1>1, AlikeOrder DEF Whole
<1>3. LeadOf(U, O) = LeadOf(T, O)
  BY SameLeads DEF Same
<1>4. QED BY <1>2, <1>3 DEF Whole

\* The same table, with leading slots counted as they are.
LEMMA SameLead ==
  ASSUME NEW T \in Tables, NEW U \in Tables, Same(T, U), NEW O, NEW used, NEW keys,
         Whole(T, O, LeadOf(T, O), used, keys)
  PROVE  Whole(U, O, LeadOf(U, O), used, keys)
BY SameTable

\* What a slot's removal from use leaves.
LEMMA WithoutIs ==
  ASSUME NEW T \in Tables, NEW i \in Slots
  PROVE  /\ Without(T, i) \in Tables
         /\ \A x \in Slots : /\ Without(T, i)[x].count = IF x = i THEN 0 ELSE T[x].count
                             /\ Keeps(T, Without(T, i), x)
<1>1. 0 \in -2..MaxOps
  BY TableAssumption
<1>2. PICK U : U = Without(T, i)
  OBVIOUS
<1>3. /\ U \in Tables
      /\ \A x \in Slots : /\ U[x].count = IF x = i THEN 0 ELSE T[x].count
                          /\ U[x].hash = T[x].hash /\ U[x].link = T[x].link /\ U[x].key = T[x].key
  BY <1>1, <1>2 DEF Without, Tables, Slot
<1>4. QED BY <1>2, <1>3 DEF Keeps

\* What undoing a copy leaves.
LEMMA BackAtIs ==
  ASSUME NEW T \in Tables, NEW from \in Slots, NEW to \in Slots, from # to
  PROVE  /\ BackAt(T, from, to) \in Tables
         /\ \A x \in Slots : /\ BackAt(T, from, to)[x].count =
                                 IF x = to THEN 0 ELSE IF x = from THEN T[to].count ELSE T[x].count
                             /\ Keeps(T, BackAt(T, from, to), x)
<1>1. 0 \in -2..MaxOps /\ T[to].count \in -2..MaxOps
  BY TableAssumption DEF Tables, Slot
<1>2. PICK V : V = [T EXCEPT ![from].count = T[to].count]
  OBVIOUS
<1>3. /\ V \in Tables
      /\ \A x \in Slots : /\ V[x].count = IF x = from THEN T[to].count ELSE T[x].count
                          /\ V[x].hash = T[x].hash /\ V[x].link = T[x].link /\ V[x].key = T[x].key
  BY <1>1, <1>2 DEF Tables, Slot
<1>4. PICK U : U = Without(V, to)
  OBVIOUS
<1>5. /\ U \in Tables
      /\ \A x \in Slots : /\ U[x].count = IF x = to THEN 0 ELSE V[x].count
                          /\ Keeps(V, U, x)
  BY <1>3, <1>4, WithoutIs
<1>6. U = BackAt(T, from, to)
  BY <1>2, <1>4 DEF Without, BackAt
<1>7. QED BY <1>3, <1>5, <1>6 DEF Keeps

\* A slot in use is copied to an empty one.
LEMMA Copying ==
  ASSUME Written, NEW from \in Slots, NEW to \in Slots, slots[to].count = 0,
         slots[from].count < 0, copy_slot(to, from)
  PROVE  /\ usedslots' - 1 = usedslots
         /\ Copied(from, to)' /\ slots'[from] = slots[from]
         /\ slots' \in Tables /\ Same(slots, Without(slots', to))
<1>1. /\ slots' = [slots EXCEPT ![to] = slots[from]] /\ usedslots' = usedslots + 1
      /\ usedslots \in Int /\ from # to
  BY DEF copy_slot, Written
<1>2. slots' \in Tables /\ slots \in Tables /\ \A x \in Slots \ {to} : slots'[x] = slots[x]
  BY <1>1 DEF Written, Tables
<1>3. Same(slots, Without(slots', to))
  <2>1. PICK W : W = Without(slots', to)
    OBVIOUS
  <2>2. \A x \in Slots : W[x].count = (IF x = to THEN 0 ELSE slots'[x].count) /\ Keeps(slots', W, x)
    BY <1>2, <2>1, WithoutIs
  <2>3. Same(slots, W)
    BY <1>2, <2>2 DEF Same, Keeps
  <2>4. QED BY <2>1, <2>3
<1>4. QED BY <1>1, <1>2, <1>3 DEF Copied, Written

\* The slot it was copied from is released.
LEMMA Freeing ==
  ASSUME Written, NEW from \in Slots, NEW to \in Slots, Copied(from, to), remove_slot(from)
  PROVE  /\ usedslots' = usedslots - 1
         /\ Moving(from, to)' /\ slots'[to] = slots[to] /\ slots'[from].hash = slots[from].hash
         /\ slots' \in Tables /\ Same(Without(slots, to), BackAt(slots', from, to))
<1>1. slots' = [slots EXCEPT ![from].count = 0] /\ usedslots' = usedslots - 1 /\ from # to
  BY DEF remove_slot, Copied, Written, Slot
<1>2. /\ slots \in Tables /\ slots' \in Tables
      /\ \A x \in Slots : /\ slots'[x].count = IF x = from THEN 0 ELSE slots[x].count
                          /\ Keeps(slots, slots', x)
      /\ slots'[to] = slots[to]
  BY <1>1, WithoutIs DEF Written, Tables, Without
<1>3. Moving(from, to)'
  BY <1>1, <1>2 DEF Moving, Copied, Keeps
<1>4. Same(Without(slots, to), BackAt(slots', from, to))
  <2>1. PICK W, B : W = Without(slots, to) /\ B = BackAt(slots', from, to)
    OBVIOUS
  <2>2. \A x \in Slots : W[x].count = (IF x = to THEN 0 ELSE slots[x].count) /\ Keeps(slots, W, x)
    <3>1. slots \in Tables /\ W = Without(slots, to)
      BY <1>2, <2>1
    <3>2. QED BY <3>1, WithoutIs
  <2>3. \A x \in Slots :
          /\ B[x].count = IF x = to THEN 0 ELSE IF x = from THEN slots'[to].count ELSE slots'[x].count
          /\ Keeps(slots', B, x)
    <3>1. slots' \in Tables /\ B = BackAt(slots', from, to) /\ from # to
      BY <1>1, <1>2, <2>1
    <3>2. QED BY <3>1, BackAtIs
  <2>4. slots[to].count = slots[from].count
    BY DEF Copied
  <2>5. ASSUME NEW x \in Slots PROVE B[x].count = W[x].count /\ Keeps(W, B, x)
    <3>1. Keeps(W, B, x)
      BY <1>2, <2>2, <2>3 DEF Keeps
    <3>2. B[x].count = W[x].count
      BY <1>2, <2>2, <2>3, <2>4
    <3>3. QED BY <3>1, <3>2
  <2>6. Same(W, B)
    BY <2>5 DEF Same
  <2>7. QED BY <2>1, <2>6
<1>5. QED BY <1>1, <1>2, <1>3, <1>4 DEF Keeps

-------------------------------------------------------------------------------
(* What the table in order tells the calls.                                *)

\* Leads are numbers.
LEMMA LeadType ==
  ASSUME NEW T \in Tables, NEW O
  PROVE  /\ LeadOf(T, O) \in [Slots -> Int]
         /\ \A h \in Slots : LeadOf(T, O)[h] = IF T[h].count > 0 /\ h \notin O THEN T[h].count ELSE 0
<1>1. \A h \in Slots : (IF T[h].count > 0 /\ h \notin O THEN T[h].count ELSE 0) \in Int
  BY SlotIs
<1>2. QED BY <1>1 DEF LeadOf

\* No key hashes to a slot that leads none.
LEMMA NoneHere ==
  ASSUME NEW T \in Tables, NEW h \in Slots, ~(T[h].count > 0), InOrder(T, {}, Lead(T))
  PROVE  Named(T, h) = {}
<1>1. Cardinality(Named(T, h) \ {}) = 0
  BY LeadType DEF InOrder, Numbered, Lead
<1>2. Named(T, h) \in SUBSET Slots /\ Named(T, h) \ {} = Named(T, h)
  BY DEF Named, Leading
<1>3. QED BY <1>1, <1>2, SlotSets, FS_EmptySet

\* An empty table is in order.
LEMMA AllEmpty ==
  ASSUME NEW T \in Tables, \A i \in Slots : T[i].count = 0
  PROVE  Whole(T, {}, Lead(T), 0, 0)
<1>1. Busy(T) = {} /\ Leading(T) = {}
  BY DEF Busy, Leading
<1>2. Cardinality({}) = 0 /\ \A h \in Slots : Named(T, h) = {}
  BY <1>1, FS_EmptySet DEF Named
<1>3. \A h \in Slots : Lead(T)[h] = 0
  BY LeadType DEF Lead
<1>4. QED BY <1>1, <1>2, <1>3 DEF Whole, InOrder, Linked, Placed, Numbered

\* get_idx finds the first slot of every key that has one, and nothing else.
LEMMA GetIdxFinds ==
  ASSUME Written, Settled, NEW k \in Keys
  PROVE  /\ get_idx(k) # -1 => get_idx(k) \in Leading(slots) /\ slots[get_idx(k)].key = k
         /\ get_idx(k) # -1 <=> Has(slots, k)
<1>1. slots \in Tables /\ Hash[k] \in Slots
  BY TableAssumption DEF Written, Tables
<1>2. get_idx(k) # -1 => get_idx(k) \in Leading(slots) /\ slots[get_idx(k)].key = k
  <2>1. get_idx(k) # -1 => get_idx(k) \in Slots
    BY GetIdxIs DEF Index
  <2>2. QED BY <2>1, GetIdxIs DEF IsFirst, Leading
<1>3. ASSUME NEW i \in Leading(slots), slots[i].key = k PROVE get_idx(k) # -1
  <2> DEFINE h == Hash[k]
             firsts == {j \in Slots : IsFirst(j, h)}
             passed(x) == {j \in firsts : Dist(h, j) < Dist(h, x)}
             hits == {x \in firsts : /\ slots[x].key = k
                                    /\ Cardinality(passed(x)) < slots[h].count}
  <2>1. get_idx(k) = IF hits = {} THEN -1 ELSE Nearest(h, hits)
    BY DEF get_idx
  <2>2. i \in Slots /\ slots[i].hash = h /\ i \in firsts
    BY <1>3 DEF Leading, Settled, Whole, InOrder, Placed, IsFirst
  <2>3. firsts = Named(slots, h)
    BY DEF Named, Leading, IsFirst
  <2>4. IsFiniteSet(firsts) /\ Cardinality(firsts) = Lead(slots)[h]
    <3>1. firsts \in SUBSET Slots /\ Named(slots, h) \ {} = firsts
      BY <2>3
    <3>2. QED BY <1>1, <3>1, SlotSets DEF Settled, Whole, InOrder, Numbered
  <2>5. passed(i) \subseteq firsts \ {i}
    <3>1. Dist(h, i) \in Int
      BY <1>1, <2>2, DistType
    <3>2. QED BY <3>1
  <2>6. Cardinality(firsts \ {i}) = Cardinality(firsts) - 1 /\ Cardinality(passed(i)) <= Cardinality(firsts \ {i})
        /\ Cardinality(passed(i)) \in Nat /\ Cardinality(firsts) \in Nat
    <3> HIDE DEF firsts, passed
    <3>1. IsFiniteSet(firsts \ {i}) /\ Cardinality(firsts \ {i}) = Cardinality(firsts) - 1
      BY <2>2, <2>4, FS_RemoveElement
    <3>2. QED BY <2>4, <2>5, <3>1, FS_Subset, FS_CardinalityType
  <2>7. Lead(slots)[h] = IF slots[h].count > 0 THEN slots[h].count ELSE 0
    BY <1>1, LeadType DEF Lead
  <2>8. i \in hits
    <3> HIDE DEF h
    <3>1. Cardinality(passed(i)) < slots[h].count
      <4> HIDE DEF firsts, passed
      <4>1. QED BY <2>4, <2>6, <2>7
    <3>2. QED BY <1>3, <2>2, <3>1
  <2>9. hits \in SUBSET Slots
    OBVIOUS
  <2> HIDE DEF hits
  <2>10. Nearest(h, hits) \in Slots
    BY <1>1, <2>8, <2>9, NearestIs
  <2>11. QED BY <2>1, <2>8, <2>10, SlotIs, <1>1
<1>4. QED BY <1>2, <1>3 DEF Has

-------------------------------------------------------------------------------
(* The steps of a call.                                                    *)

\* What a call that returns leaves must be whole.
LEMMA Returned ==
  ASSUME wpc' = "idle", w' = NoWrite, SInv, UNCHANGED crashes, Settled'
  PROVE  SInv'
BY DEF SInv, Quiet, NoWrite

\* A call that returns without having touched the table.
LEMMA ReturnedAsIs ==
  ASSUME WInv, SInv, NEW err \in Errors, Return(err), UNCHANGED <<slots, usedslots, num, crashes>>, Settled
  PROVE  SInv'
<1>1. Settled'
  BY DEF Settled
<1>2. QED BY <1>1, Returning, Returned

\* A call begins on a whole table.
LEMMA BeginLinks ==
  ASSUME WInv, SInv, NEW op, NEW k, NEW v, NEW l \in {"put", "remove", "clear"},
         Begin(op, k, v), Goto(l)
  PROVE  SInv'
<1>1. wpc = "idle" /\ wpc' = l /\ UNCHANGED <<slots, usedslots, num, crashes>>
      /\ w' = [NoWrite EXCEPT !.op = op, !.key = k, !.val = v]
  BY DEF Begin, Goto, table
<1>2. w'.loops = 0 /\ w'.done = 0 /\ w'.cur = 0
  BY <1>1 DEF NoWrite
<1>3. Settled'
  BY <1>1 DEF SInv, Quiet, Settled
<1>4. QED BY <1>1, <1>2, <1>3 DEF SInv, Quiet

\* The slot for a new key is one that can lead it, or one behind a leading slot.
LEMMA ChoosePlaceLinks == ASSUME WInv, WInv', SInv, ChoosePlace PROVE SInv'
<1> DEFINE h == Hash[w.key]
           e == find_empty(IF slots[h].count > 0 THEN h ELSE After(h))
<1>1. /\ wpc = "put" /\ w.key \in Keys /\ Written /\ Settled /\ w.loops = 0 /\ w.done = 0
      /\ crashes = 0 /\ UNCHANGED <<slots, usedslots, num, crashes>> /\ h \in Slots /\ w \in Call
  BY TableAssumption DEF ChoosePlace, WInv, Written, Locals, PutLabels, SInv, Quiet, table, still
<1>2. Settled'
  BY <1>1 DEF Settled
<1>3. e \in Index /\ (e # -1 => slots[e].count = 0)
  BY <1>1, DistType, FindEmptyIs
<1>4. CASE Return("ENOBUFS")
  BY <1>1, <1>4, ReturnedAsIs DEF Errors
<1>5. CASE slots[h].count = 0 /\ w' = [w EXCEPT !.idx = h, !.cnt = 1] /\ wpc' = "putCount"
  <2>1. w'.idx = h /\ w'.cnt = 1 /\ w'.key = w.key /\ w'.loops = 0 /\ w'.done = 0
    BY <1>1, <1>5 DEF Call
  <2>2. Chosen'
    BY <1>1, <2>1 DEF Chosen, Home
  <2>3. QED BY <1>1, <1>2, <1>5, <2>1, <2>2 DEF SInv, Quiet
<1>6. CASE w' = [w EXCEPT !.again = TRUE] /\ wpc' = "remove"
  <2>1. w'.loops = 0
    BY <1>1, <1>6 DEF Call
  <2>2. QED BY <1>1, <1>2, <1>6, <2>1 DEF SInv, Quiet
<1>7. CASE /\ slots[h].count > 0 /\ get_idx(w.key) = -1 /\ e # -1
           /\ w' = [w EXCEPT !.idx = e, !.cnt = -1] /\ wpc' = "putCount"
  <2>1. w'.idx = e /\ w'.cnt = -1 /\ w'.key = w.key /\ w'.loops = 0 /\ w'.done = 0
    BY <1>1, <1>7 DEF Call
  <2>2. Chosen'
    BY <1>1, <1>3, <1>7, <2>1 DEF Chosen, Home
  <2>3. ~Has(slots, w.key)
    BY <1>1, <1>7, GetIdxFinds
  <2>4. QED BY <1>1, <1>2, <1>3, <1>7, <2>1, <2>2, <2>3 DEF SInv, Quiet
<1>8. CASE /\ slots[h].count < 0 /\ e # -1
           /\ w' = [w EXCEPT !.idx = e, !.cnt = 1] /\ wpc' = "move"
  <2>1. w'.idx = e /\ w'.cnt = 1 /\ w'.key = w.key /\ w'.loops = 0 /\ w'.done = 0
    BY <1>1, <1>8 DEF Call
  <2>2. QED BY <1>1, <1>2, <1>3, <1>8, <2>1 DEF SInv, Quiet, Home
<1>9. QED BY <1>4, <1>5, <1>6, <1>7, <1>8 DEF ChoosePlace, Goto

\* What a step of put or remove knows in general.
LEMMA Going ==
  ASSUME WInv, WInv'
  PROVE  /\ slots \in Tables /\ slots' \in Tables /\ Written /\ w \in Call
         /\ w.idx \in Slots /\ w.cur \in Slots /\ w.aux \in Slots
         /\ w.key \in Keys => Home \in Slots
         /\ usedslots \in Int /\ num \in Int
         /\ wpc \in PutLabels => w.key \in Keys
BY TableAssumption DEF WInv, Written, Call, Tables, Home, Locals

\* The slot in the way is copied, ...
LEMMA MoveLinks1 == ASSUME WInv, WInv', SInv, Move PROVE SInv'
<1> DEFINE T == Without(slots', w.idx)
<1>1. /\ wpc = "move" /\ wpc' = "moveFree" /\ w' = w /\ num' = num /\ crashes' = crashes
      /\ Settled /\ w.loops = 0 /\ w.done = 0 /\ crashes = 0 /\ w.cnt = 1
      /\ slots[w.idx].count = 0 /\ slots[Home].count < 0 /\ copy_slot(w.idx, Home)
      /\ w.key \in Keys
  BY Going DEF Move, Goto, still, SInv, Quiet, PutLabels, Home
<1>2. /\ usedslots' - 1 = usedslots
      /\ Copied(Home, w.idx)'
      /\ slots' \in Tables /\ Same(slots, T)
  BY <1>1, Going, Copying DEF Home
<1>3. T \in Tables /\ slots \in Tables
  BY <1>2, Going, WithoutIs
<1>4. Whole(T, {}, Lead(T), usedslots' - 1, num')
  BY <1>1, <1>2, <1>3, SameLead DEF Settled, Lead
<1>5. QED BY <1>1, <1>2, <1>4 DEF SInv, Quiet, Home

\* ... released where it was, ...
LEMMA MoveLinks2 == ASSUME WInv, WInv', SInv, MoveFree PROVE SInv'
<1> DEFINE T == Without(slots, w.idx)
           U == BackAt(slots', Home, w.idx)
<1>1. /\ wpc = "moveFree" /\ wpc' = "moveLinks" /\ w' = w /\ num' = num /\ crashes' = crashes
      /\ w.loops = 0 /\ w.done = 0 /\ crashes = 0 /\ w.cnt = 1
      /\ Whole(T, {}, Lead(T), usedslots - 1, num) /\ Copied(Home, w.idx)
      /\ remove_slot(Home) /\ w.key \in Keys
  BY Going DEF MoveFree, Goto, still, SInv, PutLabels, Home
<1>2. /\ usedslots' = usedslots - 1
      /\ Moving(Home, w.idx)'
      /\ slots' \in Tables /\ Same(T, U)
  BY <1>1, Going, Freeing DEF Home
<1>3. T \in Tables /\ U \in Tables
  <2>1. Home # w.idx
    BY <1>1 DEF Copied
  <2>2. QED BY <1>1, <1>2, <2>1, Going, WithoutIs, BackAtIs
<1>4. Whole(U, {}, Lead(U), usedslots', num')
  BY <1>1, <1>2, <1>3, SameLead DEF Lead
<1>5. Home' = Home
  BY <1>1 DEF Home
<1>6. QED BY <1>1, <1>2, <1>4, <1>5 DEF SInv, Quiet

\* What MovedLinks and Promoted store, field by field.
LEMMA MovedLinksIs ==
  ASSUME Written, NEW i \in Slots, slots[i].count = -2 => slots[i].hash # i
  PROVE  \A x \in Slots :
           /\ MovedLinks(i)[x].count = slots[x].count /\ MovedLinks(i)[x].key = slots[x].key
           /\ MovedLinks(i)[x].hash = IF x = slots[i].link THEN i ELSE slots[x].hash
           /\ MovedLinks(i)[x].link = IF slots[i].count = -2 /\ x = slots[i].hash THEN i
                                      ELSE slots[x].link
<1> DEFINE mother == IF slots[i].count = -2
                     THEN [slots EXCEPT ![slots[i].hash].link = i] ELSE slots
<1>1. /\ mother \in [Slots -> Slot]
      /\ \A x \in Slots :
           /\ mother[x].count = slots[x].count /\ mother[x].key = slots[x].key
           /\ mother[x].hash = slots[x].hash
           /\ mother[x].link = IF slots[i].count = -2 /\ x = slots[i].hash THEN i ELSE slots[x].link
  BY DEF Written, Slot, Index
<1>2. MovedLinks(i) = [x \in Slots |->
         [mother[x] EXCEPT !.hash = IF x = mother[i].link THEN i ELSE @]]
  BY DEF MovedLinks
<1> HIDE DEF mother
<1>3. mother[i].link = slots[i].link
  BY <1>1
<1>4. ASSUME NEW x \in Slots
      PROVE  /\ MovedLinks(i)[x].count = mother[x].count /\ MovedLinks(i)[x].key = mother[x].key
             /\ MovedLinks(i)[x].link = mother[x].link
             /\ MovedLinks(i)[x].hash = IF x = slots[i].link THEN i ELSE mother[x].hash
  <2>1. PICK s, h : s = mother[x] /\ h = IF x = slots[i].link THEN i ELSE mother[x].hash
    OBVIOUS
  <2>2. MovedLinks(i)[x] = [s EXCEPT !.hash = h]
    BY <1>2, <1>3, <2>1
  <2>3. s \in Slot
    BY <1>1, <2>1
  <2>4. QED BY <2>1, <2>2, <2>3 DEF Slot
<1>5. QED BY <1>1, <1>4

\* The new leading slot, and the slot behind it.
LEMMA PromotedIs ==
  ASSUME Written, NEW i \in Slots, NEW n
  PROVE  \A x \in Slots :
           /\ Promoted(i, n)[x].count = IF x = i THEN n ELSE slots[x].count
           /\ Promoted(i, n)[x].hash = IF x = slots[i].link THEN i ELSE slots[x].hash
           /\ Promoted(i, n)[x].link = slots[x].link /\ Promoted(i, n)[x].key = slots[x].key
<1> SUFFICES ASSUME NEW x \in Slots
             PROVE  /\ Promoted(i, n)[x].count = IF x = i THEN n ELSE slots[x].count
                    /\ Promoted(i, n)[x].hash = IF x = slots[i].link THEN i ELSE slots[x].hash
                    /\ Promoted(i, n)[x].link = slots[x].link /\ Promoted(i, n)[x].key = slots[x].key
  OBVIOUS
<1>1. PICK s, c, h : /\ s = slots[x]
                     /\ c = IF x = i THEN n ELSE slots[x].count
                     /\ h = IF x = slots[i].link THEN i ELSE slots[x].hash
  OBVIOUS
<1>2. Promoted(i, n)[x] = [s EXCEPT !.count = c, !.hash = h]
  BY <1>1 DEF Promoted
<1>3. s \in Slot
  BY <1>1 DEF Written
<1>4. QED BY <1>1, <1>2, <1>3 DEF Slot

\* A slot that was moved is in order again when its neighbours name it.
LEMMA Adjusted ==
  ASSUME NEW T \in Tables, NEW U \in Tables, NEW C, NEW used, NEW keys, NEW from \in Slots, NEW to \in Slots,
         T = BackAt(slots, from, to), Whole(T, {}, C, used, keys), Written,
         Moving(from, to),
         \A x \in Slots :
           /\ x # to => U[x].count = slots[x].count
           /\ U[x].key = slots[x].key
           /\ U[x].hash = IF x = slots[to].link THEN to ELSE slots[x].hash
           /\ U[x].link = IF slots[to].count = -2 /\ x = slots[to].hash THEN to ELSE slots[x].link,
         \/ U[to].count = slots[to].count /\ Named(T, to) = {}
         \/ U[to].count > 0 /\ slots[to].count = -1 /\ slots[to].hash = to
  PROVE  Whole(U, {}, C, used, keys)
<1>1. /\ slots \in Tables /\ from # to
      /\ \A x \in Slots :
           /\ T[x].count = IF x = to THEN 0 ELSE IF x = from THEN slots[to].count ELSE slots[x].count
           /\ Keeps(slots, T, x)
  <2>1. slots \in Tables /\ from # to
    BY DEF Written, Tables, Moving
  <2>2. QED BY <2>1, BackAtIs
<1>2. /\ T[to].count = 0 /\ T[from].count = slots[to].count /\ T[from].count < 0 /\ from \in Busy(T)
      /\ T[from].hash = slots[to].hash /\ T[from].link = slots[to].link /\ T[from].key = slots[to].key
      /\ T[from].count = -2 => slots[to].hash # to
      /\ slots[to].link # to
  <2>1. /\ T[to].count = 0 /\ T[from].count = slots[to].count /\ T[from].count < 0 /\ from \in Busy(T)
        /\ T[from].hash = slots[to].hash /\ T[from].link = slots[to].link /\ T[from].key = slots[to].key
    BY <1>1 DEF Moving, Keeps, Busy
  <2>2. to # -1
    BY <1>1, SlotIs
  <2>3. QED BY <2>1, <2>2 DEF Whole, InOrder, Linked, Busy
<1>3. /\ U[from].count = 0 /\ U[to].key = T[from].key
      /\ U[to].hash = T[from].hash /\ U[to].link = T[from].link
  BY <1>1, <1>2 DEF Moving
<1>4. \A x \in Slots \ {from, to} :
        /\ U[x].count = T[x].count /\ U[x].key = T[x].key
        /\ U[x].hash = IF x = T[from].link THEN to ELSE T[x].hash
        /\ U[x].link = IF T[from].count = -2 /\ x = T[from].hash THEN to ELSE T[x].link
  <2> SUFFICES ASSUME NEW x \in Slots \ {from, to}
               PROVE  /\ U[x].count = T[x].count /\ U[x].key = T[x].key
                      /\ U[x].hash = IF x = T[from].link THEN to ELSE T[x].hash
                      /\ U[x].link = IF T[from].count = -2 /\ x = T[from].hash THEN to ELSE T[x].link
    OBVIOUS
  <2>1. T[x].count = slots[x].count /\ Keeps(slots, T, x)
    BY <1>1
  <2>2. QED BY <1>2, <2>1 DEF Keeps
<1>5. InOrder(T, {}, C)
  BY DEF Whole
<1>6. \/ U[to].count = T[from].count /\ T[from].count < 0 /\ Named(T, to) = {}
      \/ U[to].count > 0 /\ T[from].count = -1 /\ T[from].hash = to
  BY <1>2
<1>7. /\ InOrder(U, {}, C)
      /\ Busy(U) = (Busy(T) \ {from}) \cup {to} /\ to \notin Busy(T)
      /\ Cardinality(Leading(U)) = Cardinality(Leading(T))
  BY <1>2, <1>3, <1>4, <1>5, <1>6, Relocated
<1>8. Cardinality(Busy(U)) = Cardinality(Busy(T))
  <2>1. Busy(T) \in SUBSET Slots
    BY DEF Busy
  <2>2. QED BY <1>2, <1>7, <2>1, Swapped
<1>9. Leading(U) \ {} = Leading(U) /\ Leading(T) \ {} = Leading(T)
  OBVIOUS
<1>10. QED BY <1>7, <1>8, <1>9 DEF Whole

\* ... and its neighbours name it.
LEMMA MoveLinks3 == ASSUME WInv, WInv', SInv, MoveLinks PROVE SInv'
<1> DEFINE T == BackAt(slots, Home, w.idx)
<1>1. /\ wpc = "moveLinks" /\ wpc' = "putCount" /\ w' = [w EXCEPT !.idx = Home]
      /\ usedslots' = usedslots /\ num' = num /\ crashes' = crashes
      /\ w.loops = 0 /\ w.done = 0 /\ crashes = 0 /\ w.cnt = 1
      /\ Whole(T, {}, Lead(T), usedslots, num) /\ Moving(Home, w.idx)
      /\ slots' = MovedLinks(w.idx) /\ w.key \in Keys
  BY Going DEF MoveLinks, Goto, still, SInv, PutLabels, Home
<1>2. w'.idx = Home /\ w'.key = w.key /\ w'.cnt = 1 /\ w'.loops = 0 /\ w'.done = 0
  BY <1>1, Going DEF Call
<1>3. Home \in Slots /\ T \in Tables /\ slots' \in Tables /\ Home # w.idx /\ w.idx \in Slots
  <2>1. Home # w.idx
    BY <1>1 DEF Moving
  <2>2. QED BY <1>1, <2>1, Going, BackAtIs
<1>4. \A x \in Slots :
        T[x].count = IF x = w.idx THEN 0 ELSE IF x = Home THEN slots[w.idx].count ELSE slots[x].count
  BY <1>3, Going, BackAtIs
<1>5. Named(T, w.idx) = {}
  BY <1>1, <1>3, <1>4, NoneHere DEF Whole
<1>6. slots[w.idx].count = -2 => slots[w.idx].hash # w.idx
  <2>1. ASSUME slots[w.idx].count = -2 PROVE slots[w.idx].hash \in Busy(T)
    <3>1. T[Home].count = -2 /\ Home \in Busy(T)
      BY <1>3, <1>4, <2>1 DEF Busy
    <3>2. T[Home].hash = slots[w.idx].hash
      BY <1>1, <1>3, Going, BackAtIs DEF Moving, Keeps
    <3>3. QED BY <1>1, <3>1, <3>2 DEF Whole, InOrder, Linked
  <2>2. w.idx \notin Busy(T)
    BY <1>3, <1>4 DEF Busy
  <2>3. QED BY <2>1, <2>2
<1>7. Whole(slots', {}, Lead(T), usedslots, num)
  <2>1. \A x \in Slots :
           /\ x # w.idx => slots'[x].count = slots[x].count
           /\ slots'[x].key = slots[x].key
           /\ slots'[x].hash = IF x = slots[w.idx].link THEN w.idx ELSE slots[x].hash
           /\ slots'[x].link = IF slots[w.idx].count = -2 /\ x = slots[w.idx].hash THEN w.idx
                              ELSE slots[x].link
    BY <1>1, <1>3, <1>6, Going, MovedLinksIs
  <2>2. slots'[w.idx].count = slots[w.idx].count
    BY <1>1, <1>3, <1>6, Going, MovedLinksIs
  <2>3. QED BY <1>1, <1>3, <1>5, <2>1, <2>2, Going, Adjusted
<1>8. \A x \in Slots : slots'[x].count = slots[x].count
  BY <1>1, <1>3, <1>6, Going, MovedLinksIs
<1>9. Lead(slots') = Lead(T)
  <2>1. \A x \in Slots : IF slots'[x].count > 0 THEN T[x].count = slots'[x].count ELSE ~(T[x].count > 0)
    <3>1. \A x \in Slots : slots[x].count \in Int
      BY Going, SlotIs
    <3>2. slots[w.idx].count < 0 /\ slots[Home].count = 0
      BY <1>1 DEF Moving
    <3>3. QED BY <1>3, <1>4, <1>8, <3>1, <3>2
  <2>2. QED BY <2>1 DEF Lead, LeadOf
<1>10. Settled' /\ Chosen' /\ slots'[w'.idx].count = 0
  BY <1>1, <1>2, <1>3, <1>7, <1>8, <1>9 DEF Settled, Chosen, Home, Moving
<1>11. QED BY <1>1, <1>2, <1>10 DEF SInv, Quiet

\* What is stored in a slot does not matter to the table without it.
LEMMA Beneath ==
  ASSUME NEW S \in Tables, NEW S1 \in Tables, NEW i \in Slots, \A x \in Slots \ {i} : S1[x] = S[x]
  PROVE  /\ Same(Without(S, i), Without(S1, i))
         /\ Without(S, i) \in Tables /\ Without(S1, i) \in Tables
<1>1. PICK T, U : T = Without(S, i) /\ U = Without(S1, i)
  OBVIOUS
<1>2. T \in Tables /\ \A x \in Slots : T[x].count = (IF x = i THEN 0 ELSE S[x].count) /\ Keeps(S, T, x)
  BY <1>1, WithoutIs
<1>3. U \in Tables /\ \A x \in Slots : U[x].count = (IF x = i THEN 0 ELSE S1[x].count) /\ Keeps(S1, U, x)
  BY <1>1, WithoutIs
<1>4. Same(T, U)
  BY <1>2, <1>3 DEF Same, Keeps
<1>5. QED BY <1>1, <1>2, <1>3, <1>4

\* An empty slot may be left out.
LEMMA BesideEmpty ==
  ASSUME NEW S \in Tables, NEW i \in Slots, S[i].count = 0
  PROVE  Same(S, Without(S, i)) /\ Without(S, i) \in Tables
<1>1. PICK T : T = Without(S, i)
  OBVIOUS
<1>2. T \in Tables /\ \A x \in Slots : T[x].count = (IF x = i THEN 0 ELSE S[x].count) /\ Keeps(S, T, x)
  BY <1>1, WithoutIs
<1>3. Same(S, T)
  BY <1>2 DEF Same
<1>4. QED BY <1>1, <1>2, <1>3

\* The same table has the same keys.
LEMMA SameKeys ==
  ASSUME NEW T, NEW U, Same(T, U), NEW k, ~Has(T, k), T \in Tables
  PROVE  ~Has(U, k)
<1>1. ASSUME NEW i \in Leading(U) PROVE U[i].key # k
  <2>1. i \in Slots /\ T[i].count = U[i].count /\ i \in Leading(T) /\ T[i].count # 0
    BY <1>1, SlotIs DEF Same, Leading
  <2>2. QED BY <2>1 DEF Same, Keeps, Has
<1>2. QED BY <1>1 DEF Has

\* The first slot of a key is being written.
LEMMA GrowingStays ==
  ASSUME WInv, WInv', Without(slots, w.idx) \in Tables,
         LET T == Without(slots, w.idx)
         IN  /\ Whole(T, {}, Lead(T), usedslots, num)
             /\ w.cnt = -1 => ~Has(T, w.key),
         Chosen, w.key \in Keys,
         w'.idx = w.idx, w'.cnt = w.cnt, w'.key = w.key, UNCHANGED <<usedslots, num>>,
         \A x \in Slots \ {w.idx} : slots'[x] = slots[x], slots'[w.idx].count = w.cnt
  PROVE  Growing'
<1> DEFINE T == Without(slots, w.idx)
           U == Without(slots', w.idx)
<1>1. T \in Tables /\ U \in Tables /\ Same(T, U)
  BY Going, Beneath
<1>2. Whole(U, {}, Lead(U), usedslots', num')
  BY <1>1, SameLead DEF Lead
<1>3. w.cnt = -1 => ~Has(U, w.key)
  BY <1>1, SameKeys
<1>4. Chosen'
  BY Going DEF Chosen, Home
<1>5. QED BY <1>2, <1>3, <1>4 DEF Growing

\* _put_data: the count of the new first slot, ...
LEMMA PutCountLinks == ASSUME WInv, WInv', SInv, PutCount PROVE SInv'
<1> DEFINE T == Without(slots, w.idx)
<1>1. /\ wpc = "putCount" /\ UNCHANGED <<usedslots, num, crashes>>
      /\ Settled /\ w.loops = 0 /\ w.done = 0 /\ crashes = 0 /\ Chosen /\ w.key \in Keys
      /\ slots[w.idx].count = 0
      /\ w.cnt = -1 => ~Has(slots, w.key)
  BY Going DEF PutCount, still, SInv, Quiet, PutLabels
<1>2. wpc' = "putHash" /\ w' = w /\ slots' = [slots EXCEPT ![w.idx].count = w.cnt]
  BY <1>1 DEF PutCount, Goto
<1>3. T \in Tables /\ Same(slots, T)
  BY <1>1, Going, BesideEmpty
<1>4. Whole(T, {}, Lead(T), usedslots, num)
  BY <1>1, <1>3, Going, SameLead DEF Settled, Lead
<1>5. w.cnt = -1 => ~Has(T, w.key)
  BY <1>1, <1>3, Going, SameKeys
<1>6. slots'[w.idx].count = w.cnt /\ \A x \in Slots \ {w.idx} : slots'[x] = slots[x]
  BY <1>2, Going DEF Written, Slot
<1>7. Growing'
  BY <1>1, <1>2, <1>3, <1>4, <1>5, <1>6, GrowingStays
<1>8. QED BY <1>1, <1>2, <1>7 DEF SInv, Quiet

\* What GrowingStays needs of the invariant.
LEMMA GrowingIs ==
  ASSUME WInv, WInv', Growing, wpc \in PutLabels
  PROVE  /\ Without(slots, w.idx) \in Tables
         /\ LET T == Without(slots, w.idx)
            IN  /\ Whole(T, {}, Lead(T), usedslots, num)
                /\ w.cnt = -1 => ~Has(T, w.key)
         /\ Chosen /\ w.key \in Keys /\ slots[w.idx].count = w.cnt
BY Going, WithoutIs DEF Growing

\* ... its hash, ...
LEMMA PutHashLinks == ASSUME WInv, WInv', SInv, PutHash PROVE SInv'
<1>1. /\ wpc = "putHash" /\ wpc' = "putKey" /\ w' = w /\ UNCHANGED <<usedslots, num, crashes>>
      /\ w.loops = 0 /\ w.done = 0 /\ crashes = 0 /\ Growing
      /\ slots' = [slots EXCEPT ![w.idx].hash = Home]
  BY DEF PutHash, Goto, still, SInv, Home
<1>2. wpc \in PutLabels
  BY <1>1 DEF PutLabels
<1>3. /\ slots'[w.idx].hash = Home /\ slots'[w.idx].count = slots[w.idx].count
      /\ \A x \in Slots \ {w.idx} : slots'[x] = slots[x]
  BY <1>1, Going DEF Written, Slot
<1>4. Growing'
  BY <1>1, <1>2, <1>3, GrowingIs, GrowingStays
<1>5. Home' = Home
  BY <1>1 DEF Home
<1>6. QED BY <1>1, <1>3, <1>4, <1>5 DEF SInv, Quiet

\* ... its key, ...
LEMMA PutKeyLinks == ASSUME WInv, WInv', SInv, PutKey PROVE SInv'
<1>1. /\ wpc = "putKey" /\ wpc' = "putEnd" /\ UNCHANGED <<usedslots, num, crashes>>
      /\ w' = [w EXCEPT !.cur = w.idx]
      /\ w.loops = 0 /\ w.done = 0 /\ crashes = 0 /\ Growing /\ slots[w.idx].hash = Home
      /\ slots' = [slots EXCEPT ![w.idx].key = w.key]
  BY DEF PutKey, Goto, still, SInv
<1>2. wpc \in PutLabels
  BY <1>1 DEF PutLabels
<1>3. /\ slots'[w.idx].hash = Home /\ slots'[w.idx].count = slots[w.idx].count
      /\ slots'[w.idx].key = w.key
      /\ \A x \in Slots \ {w.idx} : slots'[x] = slots[x]
  BY <1>1, Going DEF Written, Slot
<1>4. /\ w'.idx = w.idx /\ w'.cur = w.idx /\ w'.key = w.key /\ w'.cnt = w.cnt
      /\ w'.loops = 0 /\ w'.done = 0
  BY <1>1, Going DEF Call
<1>5. Growing'
  BY <1>1, <1>2, <1>3, <1>4, GrowingIs, GrowingStays
<1>6. Headed'
  BY <1>3, <1>4 DEF Headed, Home
<1>7. QED BY <1>1, <1>4, <1>5, <1>6 DEF SInv, Quiet

\* ... and the end of its chain.
LEMMA PutEndLinks == ASSUME WInv, WInv', SInv, PutEnd PROVE SInv'
<1>1. /\ wpc = "putEnd" /\ wpc' = "putValue" /\ w' = w /\ UNCHANGED <<usedslots, num, crashes>>
      /\ w.loops = 0 /\ w.done = 0 /\ crashes = 0 /\ Growing /\ Headed
      /\ slots' = [slots EXCEPT ![w.idx].link = -1]
  BY DEF PutEnd, Goto, still, SInv
<1>2. wpc \in PutLabels
  BY <1>1 DEF PutLabels
<1>3. /\ slots'[w.idx].hash = slots[w.idx].hash /\ slots'[w.idx].count = slots[w.idx].count
      /\ slots'[w.idx].key = slots[w.idx].key /\ slots'[w.idx].link = -1
      /\ \A x \in Slots \ {w.idx} : slots'[x] = slots[x]
  BY <1>1, Going DEF Written, Slot
<1>4. Growing'
  BY <1>1, <1>2, <1>3, GrowingIs, GrowingStays
<1>5. Headed'
  BY <1>1, <1>3 DEF Headed, Home
<1>6. QED BY <1>1, <1>3, <1>4, <1>5 DEF SInv, Quiet

\* The key's further slots are being written.
LEMMA ExtendingSame ==
  ASSUME NEW T \in Tables, NEW U \in Tables, Same(T, U), NEW used, Extending(T, used)
  PROVE  Whole(U, {}, Pending(U), used, num)
<1>1. Whole(U, {}, Pending(T), used, num) /\ Lead(U) = Lead(T)
  BY SameTable DEF Extending, Lead
<1>2. Pending(U) = Pending(T)
  BY <1>1 DEF Pending
<1>3. QED BY <1>1, <1>2

\* They are, after a store that does not matter to the table.
LEMMA ExtendingStays ==
  ASSUME WInv, WInv', wpc \in PutLabels, Same(slots, slots'), NEW used, Extending(slots, used),
         w'.idx = w.idx, w'.cnt = w.cnt, w'.key = w.key, num' = num,
         slots'[w.idx].count = slots[w.idx].count, slots'[w.idx].hash = slots[w.idx].hash,
         slots'[Home].count = slots[Home].count
  PROVE  Extending(slots, used)'
<1>1. Whole(slots', {}, Pending(slots'), used, num)
  BY Going, ExtendingSame
<1>2. Home' = Home /\ Pending(slots)' = Pending(slots')
  BY DEF Home, Pending
<1>3. Chosen'
  BY <1>2 DEF Extending, Chosen
<1>4. QED BY <1>1, <1>2, <1>3 DEF Extending

\* A store to the value part of a slot.
LEMMA DataStored ==
  ASSUME WInv, NEW i \in Slots,
         \/ \E d : slots' = [slots EXCEPT ![i].data = d]
         \/ \E n : slots' = [slots EXCEPT ![i].size = n]
  PROVE  /\ \A x \in Slots : slots'[x].count = slots[x].count /\ Keeps(slots, slots', x)
         /\ \A x \in Slots \ {i} : slots'[x] = slots[x]
         /\ Same(slots, slots')
<1>1. /\ \A x \in Slots : slots'[x].count = slots[x].count /\ Keeps(slots, slots', x)
      /\ \A x \in Slots \ {i} : slots'[x] = slots[x]
  BY DEF WInv, Written, Slot, Keeps
<1>2. QED BY <1>1 DEF Same

\* A chunk of the value, ...
LEMMA PutValueLinks == ASSUME WInv, WInv', SInv, PutValue PROVE SInv'
<1>1. /\ wpc = "putValue" /\ wpc' = "putSize" /\ w' = w /\ UNCHANGED <<usedslots, num, crashes>>
      /\ w.loops = 0 /\ crashes = 0 /\ wpc \in PutLabels
  BY DEF PutValue, Goto, still, SInv, PutLabels
<1>2. /\ \A x \in Slots : slots'[x].count = slots[x].count /\ Keeps(slots, slots', x)
      /\ \A x \in Slots \ {w.cur} : slots'[x] = slots[x]
      /\ Same(slots, slots')
  BY Going, DataStored DEF PutValue
<1>3. Home \in Slots /\ w.idx \in Slots /\ w.cur \in Slots
  BY <1>1, Going
<1>4. CASE w.done = 0
  <2>1. Growing /\ Headed /\ slots[w.idx].link = -1
    BY <1>1, <1>4 DEF SInv
  <2>2. \A x \in Slots \ {w.idx} : slots'[x] = slots[x]
    BY <1>2, <2>1 DEF Headed
  <2>3. slots'[w.idx].count = w.cnt
    BY <1>2, <1>3, <2>1 DEF Growing
  <2>4. Growing'
    BY <1>1, <2>1, <2>2, <2>3, GrowingIs, GrowingStays
  <2>5. Headed' /\ slots'[w'.idx].link = -1
    BY <1>1, <1>2, <1>3, <2>1 DEF Headed, Home, Keeps
  <2>6. QED BY <1>1, <1>4, <2>4, <2>5 DEF SInv, Quiet
<1>5. CASE w.done # 0
  <2>1. Extending(slots, usedslots + 1) /\ slots[w.cur].count = -2 /\ slots[w.cur].link = -1
    BY <1>1, <1>5 DEF SInv
  <2>2. Extending(slots, usedslots + 1)'
    BY <1>1, <1>2, <1>3, <2>1, Going, ExtendingStays DEF Keeps
  <2>3. slots'[w'.cur].count = -2 /\ slots'[w'.cur].link = -1
    BY <1>1, <1>2, <1>3, <2>1 DEF Keeps
  <2>4. QED BY <1>1, <1>5, <2>2, <2>3 DEF SInv, Quiet
<1>6. QED BY <1>4, <1>5

\* ... and its size: with it the slot counts.
LEMMA PutSizeWhole ==
  ASSUME WInv, WInv', SInv, PutSize
  PROVE  /\ Whole(slots', {}, Pending(slots'), usedslots', num')
         /\ Chosen
         /\ slots'[w.idx].count = w.cnt /\ slots'[w.idx].hash = Home
         /\ slots'[w.cur].count # 0 /\ slots'[w.cur].link = -1
         /\ slots'[Home].count = slots[Home].count
<1>1. /\ wpc = "putSize" /\ wpc \in PutLabels /\ usedslots' = usedslots + 1
      /\ num' = IF slots[w.cur].count = -2 THEN num ELSE num + 1
  BY DEF PutSize, PutLabels
<1>2. /\ \A x \in Slots : slots'[x].count = slots[x].count /\ Keeps(slots, slots', x)
      /\ \A x \in Slots \ {w.cur} : slots'[x] = slots[x]
      /\ Same(slots, slots')
  BY Going, DataStored DEF PutSize
<1>3. /\ Home \in Slots /\ w.idx \in Slots /\ w.cur \in Slots /\ w.key \in Keys /\ w.cnt \in {1, -1}
      /\ Home = Hash[w.key]
  BY <1>1, Going, InPut DEF Home, PutLabels
<1>4. CASE w.done = 0
  <2> DEFINE T == Without(slots, w.idx)
             U == slots'
  <2>1. Growing /\ Headed /\ slots[w.idx].link = -1
    BY <1>1, <1>4 DEF SInv
  <2>2. /\ T \in Tables /\ Whole(T, {}, Lead(T), usedslots, num)
        /\ w.cnt = -1 => ~Has(T, w.key)
        /\ Chosen /\ slots[w.idx].count = w.cnt
    BY <1>1, <2>1, GrowingIs
  <2>3. \A x \in Slots : T[x].count = (IF x = w.idx THEN 0 ELSE slots[x].count) /\ Keeps(slots, T, x)
    BY Going, WithoutIs
  <2>4. Beside(T, U, w.idx) /\ T[w.idx].count = 0
    BY <1>2, <1>3, <2>3 DEF Beside, Keeps
  <2>5. U[w.idx].hash = Home /\ U[w.idx].link = -1 /\ U[w.idx].count = w.cnt
    BY <1>2, <1>3, <2>1, <2>2 DEF Headed, Keeps
  <2>6. FirstOf(U, w.idx, w.key)
    BY <1>2, <1>3, <2>1, <2>2, <2>5 DEF Chosen, FirstOf, Headed, Keeps
  <2>7. ~Has(T, w.key)
    <3>1. CASE w.cnt = -1
      BY <2>2, <3>1
    <3>2. CASE w.cnt = 1
      <4>1. ~(T[Home].count > 0)
        BY <1>3, <2>2, <2>4, <3>2 DEF Chosen
      <4>2. Named(T, Home) = {}
        BY <1>3, <2>2, <4>1, NoneHere DEF Whole
      <4>3. \A i \in Leading(T) : Hash[T[i].key] = T[i].hash
        BY <2>2 DEF Whole, InOrder, Placed
      <4>4. QED BY <1>3, <4>2, <4>3 DEF Named, Has
    <3>3. QED BY <1>3, <3>1, <3>2
  <2>8. Lead(T) \in [Slots -> Int] /\ \A h \in Slots : Lead(T)[h] = IF T[h].count > 0 THEN T[h].count ELSE 0
    BY <2>2, LeadType DEF Lead
  <2>9. /\ InOrder(U, {}, Changed(Lead(T), Home, 1))
        /\ Busy(U) = Busy(T) \cup {w.idx} /\ w.idx \notin Busy(T)
        /\ Leading(U) = Leading(T) \cup {w.idx} /\ w.idx \notin Leading(T)
    <3>1. InOrder(T, {}, Lead(T)) /\ U \in Tables
      BY <2>2, Going DEF Whole
    <3> HIDE DEF T, U
    <3>2. QED BY <1>3, <2>2, <2>4, <2>6, <2>7, <2>8, <3>1, LeadAdded
  <2>10. Cardinality(Busy(U)) = Cardinality(Busy(T)) + 1 /\ Cardinality(Leading(U)) = Cardinality(Leading(T)) + 1
    <3>1. Busy(T) \in SUBSET Slots /\ Leading(T) \in SUBSET Slots
      BY DEF Busy, Leading
    <3>2. QED BY <1>3, <2>9, <3>1, OneMore
  <2>11. Leading(U) \ {} = Leading(U) /\ Leading(T) \ {} = Leading(T)
    OBVIOUS
  <2>12. num' = num + 1
    BY <1>1, <1>3, <2>1, <2>2 DEF Headed
  <2>13. Whole(U, {}, Changed(Lead(T), Home, 1), usedslots', num')
    BY <1>1, <2>2, <2>9, <2>10, <2>11, <2>12 DEF Whole
  <2>14. Pending(U) = Changed(Lead(T), Home, 1)
    <3>1. \A h \in Slots : U[h].count = (IF h = w.idx THEN w.cnt ELSE T[h].count)
      BY <1>2, <2>3, <2>5
    <3>2. CASE w.cnt = -1
      <4>1. \A h \in Slots : IF U[h].count > 0 THEN T[h].count = U[h].count ELSE ~(T[h].count > 0)
        BY <2>4, <3>1, <3>2
      <4>2. Lead(U) = Lead(T)
        BY <4>1 DEF Lead, LeadOf
      <4>3. QED BY <3>2, <4>2 DEF Pending
    <3>3. CASE w.cnt = 1
      <4>1. \A h \in Slots : (IF U[h].count > 0 THEN U[h].count ELSE 0)
                             = Changed(Lead(T), Home, 1)[h]
        BY <1>3, <2>2, <2>4, <2>8, <3>1, <3>3 DEF Chosen, Changed
      <4>2. Changed(Lead(T), Home, 1) = [h \in Slots |-> Changed(Lead(T), Home, 1)[h]]
        BY <2>8 DEF Changed
      <4>3. Lead(U) = Changed(Lead(T), Home, 1)
        BY <4>1, <4>2 DEF Lead, LeadOf
      <4>4. QED BY <3>3, <4>3 DEF Pending
    <3>4. QED BY <1>3, <3>2, <3>3
  <2>15. slots'[w.cur].count # 0 /\ slots'[w.cur].link = -1
    BY <1>3, <2>1, <2>5 DEF Headed
  <2>16. QED BY <1>2, <1>3, <2>2, <2>5, <2>13, <2>14, <2>15
<1>5. CASE w.done # 0
  <2>1. Extending(slots, usedslots + 1) /\ slots[w.cur].count = -2 /\ slots[w.cur].link = -1
    BY <1>1, <1>5 DEF SInv
  <2>2. Whole(slots', {}, Pending(slots), usedslots', num') /\ Lead(slots') = Lead(slots)
    <3>1. Whole(slots, {}, Pending(slots), usedslots', num')
      BY <1>1, <2>1 DEF Extending
    <3>2. QED BY <1>2, <3>1, Going, SameTable DEF Lead
  <2>3. Pending(slots') = Pending(slots)
    BY <2>2 DEF Pending
  <2>4. QED BY <1>2, <1>3, <2>1, <2>2, <2>3 DEF Extending, Keeps
<1>6. QED BY <1>4, <1>5

\* Then put returns, or counts a collision, or goes on to another slot.
LEMMA PutSizeLinks == ASSUME WInv, WInv', SInv, PutSize PROVE SInv'
<1> DEFINE n == ChunkSize(w.val, w.done)
<1>1. /\ wpc = "putSize" /\ UNCHANGED crashes /\ w.loops = 0 /\ crashes = 0
      /\ w.cnt \in {1, -1} /\ Home \in Slots /\ w.done \in Nat
  BY InPut DEF PutSize, still, SInv, PutLabels, Home
<1>2. /\ Whole(slots', {}, Pending(slots'), usedslots', num')
      /\ Chosen
      /\ slots'[w.idx].count = w.cnt /\ slots'[w.idx].hash = Home
      /\ slots'[w.cur].count # 0 /\ slots'[w.cur].link = -1
      /\ slots'[Home].count = slots[Home].count
  BY PutSizeWhole
<1>3. n \in Nat \ {0}
  BY <1>1, InPut, ChunkSizeType DEF PutLabels
<1> HIDE DEF n
<1>4. ASSUME w'.idx = w.idx, w'.key = w.key, w'.cnt = w.cnt PROVE Extending(slots, usedslots)'
  <2>1. Home' = Home /\ Pending(slots)' = Pending(slots')
    BY <1>4 DEF Home, Pending
  <2>2. Chosen'
    BY <1>2, <1>4, <2>1 DEF Chosen
  <2>3. QED BY <1>2, <1>4, <2>1, <2>2 DEF Extending
<1>5. CASE w' = [w EXCEPT !.done = @ + n] /\ wpc' = "putExt"
  <2>1. /\ w'.idx = w.idx /\ w'.key = w.key /\ w'.cnt = w.cnt /\ w'.cur = w.cur
        /\ w'.loops = 0 /\ w'.done # 0
    BY <1>1, <1>3, <1>5, Going DEF Call
  <2>2. Last'
    BY <1>2, <2>1 DEF Last
  <2>3. QED BY <1>1, <1>4, <1>5, <2>1, <2>2 DEF SInv, Quiet
<1>6. CASE w' = w /\ wpc' = "putLead"
  <2>1. Extending(slots, usedslots)'
    BY <1>4, <1>6
  <2>2. QED BY <1>1, <1>6, <2>1 DEF SInv, Quiet
<1>7. CASE w.cnt # -1 /\ wpc' = "idle" /\ w' = NoWrite
  <2>1. Settled'
    BY <1>2, <1>7 DEF Settled, Pending
  <2>2. QED BY <1>1, <1>7, <2>1, Returned
<1>8. QED BY <1>5, <1>6, <1>7 DEF PutSize, Goto, Return, n

\* What is taken off the counts of a whole table.
LEMMA OrphanWhole ==
  ASSUME NEW T \in Tables, NEW C \in [Slots -> Int], NEW used, NEW keys, Whole(T, {}, C, used, keys),
         NEW o \in Leading(T)
  PROVE  Whole(T, {o}, Changed(C, T[o].hash, -1), used, keys - 1)
<1>1. InOrder(T, {o}, Changed(C, T[o].hash, -1))
  BY Orphaned DEF Whole
<1>2. keys = Cardinality(Leading(T)) /\ Leading(T) \in SUBSET Slots
  <2>1. Leading(T) \ {} = Leading(T)
    OBVIOUS
  <2>2. QED BY <2>1 DEF Whole, Leading
<1>3. Cardinality(Leading(T) \ {o}) = keys - 1
  BY <1>2, OneLess
<1>4. QED BY <1>1, <1>3 DEF Whole

\* No more slots are in use than there are.
LEMMA AtMostAll ==
  ASSUME NEW T
  PROVE  Cardinality(Busy(T)) \in Nat /\ Cardinality(Busy(T)) <= maxslots
<1>1. Busy(T) \in SUBSET Slots
  BY DEF Busy
<1>2. QED BY <1>1, SlotSets

\* A value that finds no room is removed again.
LEMMA UndoLinks ==
  ASSUME WInv, WInv', SInv, wpc = "putExt", w' = [w EXCEPT !.cur = w.idx, !.then = "undone"],
         wpc' = "remData", UNCHANGED <<slots, usedslots, num, crashes>>
  PROVE  SInv'
<1>1. /\ w.loops = 0 /\ crashes = 0 /\ w.cnt \in {1, -1} /\ Home \in Slots
      /\ Extending(slots, usedslots)
  BY InPut DEF SInv, PutLabels, Home
<1>2. w'.idx = w.idx /\ w'.cur = w.idx /\ w'.then = "undone" /\ w'.loops = 0
  BY <1>1, Going DEF Call
<1>3. /\ Whole(slots, {}, Pending(slots), usedslots, num) /\ Chosen
      /\ slots[w.idx].count = w.cnt /\ slots[w.idx].hash = Home
  BY <1>1 DEF Extending
<1>4. w.idx \in Leading(slots)
  BY <1>1, <1>3, Going DEF Leading
<1>5. /\ Lead(slots) \in [Slots -> Int] /\ LeadOf(slots, {w.idx}) \in [Slots -> Int]
      /\ \A h \in Slots : Lead(slots)[h] = IF slots[h].count > 0 THEN slots[h].count ELSE 0
      /\ \A h \in Slots : LeadOf(slots, {w.idx})[h] =
                            IF slots[h].count > 0 /\ h # w.idx THEN slots[h].count ELSE 0
  BY Going, LeadType DEF Lead
<1>6. Pending(slots) \in [Slots -> Int]
  BY <1>1, <1>5 DEF Pending, Changed
<1>7. Changed(Pending(slots), Home, -1) = LeadOf(slots, {w.idx})
  <2>1. Changed(Pending(slots), Home, -1) \in [Slots -> Int]
    BY <1>1, <1>6 DEF Changed
  <2>2. \A h \in Slots : Changed(Pending(slots), Home, -1)[h] =
                           IF h = Home THEN Pending(slots)[h] - 1 ELSE Pending(slots)[h]
    BY <1>1, <1>6 DEF Changed
  <2>3. \A h \in Slots : Pending(slots)[h] =
                           IF h = Home /\ w.cnt = -1 THEN Lead(slots)[h] + 1 ELSE Lead(slots)[h]
    BY <1>1, <1>5 DEF Pending, Changed
  <2>4. \A h \in Slots : Changed(Pending(slots), Home, -1)[h] = LeadOf(slots, {w.idx})[h]
    <3> SUFFICES ASSUME NEW h \in Slots
                 PROVE  Changed(Pending(slots), Home, -1)[h] = LeadOf(slots, {w.idx})[h]
      OBVIOUS
    <3>1. slots[h].count \in Int /\ slots[w.idx].count \in Int
      BY Going, SlotIs
    <3>2. PICK c, l, p : c = slots[h].count /\ l = Lead(slots)[h] /\ p = Pending(slots)[h]
      OBVIOUS
    <3>3. /\ c \in Int
          /\ l = IF c > 0 THEN c ELSE 0
          /\ p = IF h = Home /\ w.cnt = -1 THEN l + 1 ELSE l
          /\ Changed(Pending(slots), Home, -1)[h] = IF h = Home THEN p - 1 ELSE p
          /\ LeadOf(slots, {w.idx})[h] = IF c > 0 /\ h # w.idx THEN c ELSE 0
      BY <1>5, <2>2, <2>3, <3>1, <3>2
    <3>4. /\ w.cnt = 1 => Home = w.idx /\ (h = Home => c = 1)
          /\ w.cnt = -1 => (h = w.idx => c = -1)
      BY <1>3, <3>2 DEF Chosen
    <3>5. QED BY <1>1, <3>3, <3>4
  <2>5. QED
    <3>1. PICK C, D : C = Changed(Pending(slots), Home, -1) /\ D = LeadOf(slots, {w.idx})
      OBVIOUS
    <3>2. C \in [Slots -> Int] /\ D \in [Slots -> Int] /\ \A h \in Slots : C[h] = D[h]
      BY <1>5, <2>1, <2>4, <3>1
    <3>3. C = D
      BY <3>2
    <3>4. QED BY <3>1, <3>3
<1>8. Whole(slots, {w.idx}, LeadOf(slots, {w.idx}), usedslots, num - 1)
  BY <1>3, <1>4, <1>6, <1>7, Going, OrphanWhole
<1>9. Removing'
  <2>1. w'.loops + Cardinality(Busy(slots')) <= maxslots
    BY <1>2, AtMostAll, TableAssumption
  <2>2. slots'[w'.cur].count # 0
    BY <1>1, <1>2, <1>3
  <2>3. QED BY <1>2, <1>8, <2>1, <2>2 DEF Removing, Left
<1>10. QED BY <1>1, <1>9 DEF SInv, Quiet

\* A slot for the next chunk: none, or one that is cleared, ...
LEMMA PutExtLinks == ASSUME WInv, WInv', SInv, PutExt PROVE SInv'
<1> DEFINE e == find_empty(After(w.cur))
<1>1. /\ wpc = "putExt" /\ wpc \in PutLabels /\ UNCHANGED <<usedslots, num, crashes>>
      /\ w.loops = 0 /\ crashes = 0 /\ w.done # 0 /\ w.cnt \in {1, -1} /\ Home \in Slots
      /\ Extending(slots, usedslots) /\ Last
  BY InPut DEF PutExt, still, SInv, PutLabels, Home
<1>2. e \in Index /\ (e # -1 => slots[e].count = 0)
  BY Going, DistType, FindEmptyIs
<1>3. CASE w' = [w EXCEPT !.cur = w.idx, !.then = "undone"] /\ wpc' = "remData" /\ UNCHANGED slots
  BY <1>1, <1>3, UndoLinks
<1>4. CASE e # -1 /\ slots' = [slots EXCEPT ![e] = EmptySlot] /\ w' = [w EXCEPT !.aux = e]
           /\ wpc' = "putExtHead"
  <2> HIDE DEF e
  <2>1. e \in Slots /\ slots[e].count = 0
    BY <1>2, <1>4 DEF Index
  <2>2. /\ w'.idx = w.idx /\ w'.key = w.key /\ w'.cnt = w.cnt /\ w'.cur = w.cur /\ w'.aux = e
        /\ w'.loops = 0 /\ w'.done # 0
    BY <1>1, <1>4, <2>1, Going DEF Call
  <2>3. slots'[e].count = 0 /\ \A x \in Slots \ {e} : slots'[x] = slots[x]
    BY <1>4, <2>1, Going, EmptySlotType DEF Written
  <2>4. Same(slots, slots')
    BY <2>1, <2>3 DEF Same, Keeps
  <2>5. e # w.idx /\ e # Home /\ e # w.cur
    BY <1>1, <2>1 DEF Extending, Chosen, Last
  <2>6. Extending(slots, usedslots)'
    BY <1>1, <2>2, <2>3, <2>4, <2>5, Going, ExtendingStays
  <2>7. Last'
    BY <1>1, <2>2, <2>3, <2>5, Going DEF Last
  <2>8. QED BY <1>1, <1>4, <2>2, <2>3, <2>6, <2>7 DEF SInv, Quiet
<1>5. QED BY <1>3, <1>4 DEF PutExt, Goto

\* ... its head, ...
LEMMA PutExtHeadLinks == ASSUME WInv, WInv', SInv, PutExtHead PROVE SInv'
<1> DEFINE U == Without(slots', w.aux)
<1>1. /\ wpc = "putExtHead" /\ wpc \in PutLabels /\ UNCHANGED <<usedslots, num, crashes>>
      /\ wpc' = "putLink" /\ w' = w
      /\ w.loops = 0 /\ crashes = 0 /\ w.done # 0 /\ w.cnt \in {1, -1} /\ Home \in Slots
      /\ Extending(slots, usedslots) /\ Last /\ slots[w.aux].count = 0
  BY InPut DEF PutExtHead, still, SInv, PutLabels, Home, Goto
<1>2. /\ slots'[w.aux].count = -2 /\ slots'[w.aux].hash = w.cur /\ slots'[w.aux].link = -1
      /\ \A x \in Slots \ {w.aux} : slots'[x] = slots[x]
  BY Going DEF PutExtHead, Written, Slot
<1>3. Same(slots, U) /\ U \in Tables
  <2>1. U \in Tables /\ \A x \in Slots : U[x].count = (IF x = w.aux THEN 0 ELSE slots'[x].count) /\ Keeps(slots', U, x)
    BY Going, WithoutIs
  <2> HIDE DEF U
  <2>2. QED BY <1>1, <1>2, <2>1 DEF Same, Keeps
<1>4. w.aux # w.idx /\ w.aux # Home /\ w.aux # w.cur
  BY <1>1 DEF Extending, Chosen, Last
<1>5. slots'[w.idx] = slots[w.idx] /\ slots'[Home] = slots[Home] /\ slots'[w.cur] = slots[w.cur]
  BY <1>1, <1>2, <1>4, Going
<1>6. Extending(Without(slots, w.aux), usedslots)'
  <2>1. Whole(U, {}, Pending(U), usedslots, num)
    BY <1>1, <1>3, Going, ExtendingSame
  <2>2. Home' = Home /\ Pending(Without(slots, w.aux))' = Pending(U)
    BY <1>1 DEF Home, Pending
  <2>3. Chosen'
    BY <1>1, <1>5, <2>2 DEF Extending, Chosen
  <2>4. QED BY <1>1, <1>5, <2>1, <2>2, <2>3 DEF Extending
<1>7. Last'
  BY <1>1, <1>5 DEF Last
<1>8. QED BY <1>1, <1>2, <1>4, <1>6, <1>7 DEF SInv, Quiet

\* ... and the link to it.
LEMMA PutLinkLinks == ASSUME WInv, WInv', SInv, PutLink PROVE SInv'
<1> DEFINE T == Without(slots, w.aux)
<1>1. /\ wpc = "putLink" /\ wpc \in PutLabels /\ UNCHANGED <<usedslots, num, crashes>>
      /\ wpc' = "putValue" /\ w' = [w EXCEPT !.cur = w.aux]
      /\ w.loops = 0 /\ crashes = 0 /\ w.done # 0 /\ w.cnt \in {1, -1} /\ Home \in Slots
      /\ Extending(T, usedslots) /\ Last /\ w.cur # w.aux
      /\ slots[w.aux].count = -2 /\ slots[w.aux].hash = w.cur /\ slots[w.aux].link = -1
  BY InPut DEF PutLink, still, SInv, PutLabels, Home, Goto
<1>2. /\ w'.idx = w.idx /\ w'.key = w.key /\ w'.cnt = w.cnt /\ w'.cur = w.aux
      /\ w'.loops = 0 /\ w'.done # 0
  BY <1>1, Going DEF Call
<1>3. \A x \in Slots : /\ slots'[x].count = slots[x].count /\ slots'[x].hash = slots[x].hash
                       /\ slots'[x].key = slots[x].key
                       /\ slots'[x].link = IF x = w.cur THEN w.aux ELSE slots[x].link
  BY Going DEF PutLink, Written, Slot, Index
<1>4. /\ T \in Tables
      /\ \A x \in Slots : T[x].count = (IF x = w.aux THEN 0 ELSE slots[x].count) /\ Keeps(slots, T, x)
  BY Going, WithoutIs
<1> HIDE DEF T
<1>5. w.cur \in Busy(T) /\ T[w.cur].link = -1 /\ T[w.aux].count = 0
  BY <1>1, <1>4, Going DEF Last, Busy, Keeps
<1>6. \A x \in Slots \ {w.aux} :
        /\ slots'[x].count = T[x].count /\ slots'[x].hash = T[x].hash /\ slots'[x].key = T[x].key
        /\ slots'[x].link = IF x = w.cur THEN w.aux ELSE T[x].link
  BY <1>3, <1>4 DEF Keeps
<1>7. slots'[w.aux].count = -2 /\ slots'[w.aux].hash = w.cur /\ slots'[w.aux].link = -1
  BY <1>1, <1>3, Going
<1>8. Whole(T, {}, Pending(T), usedslots, num) /\ InOrder(T, {}, Pending(T))
  BY <1>1 DEF Extending, Whole
<1>9. /\ InOrder(slots', {}, Pending(T))
      /\ Busy(slots') = Busy(T) \cup {w.aux} /\ w.aux \notin Busy(T)
      /\ Leading(slots') = Leading(T)
      /\ LeadOf(slots', {}) = LeadOf(T, {})
  <2>1. PICK U, C : U = slots' /\ C = Pending(T)
    OBVIOUS
  <2>2. U \in Tables /\ w.aux \in Slots
    BY <2>1, Going
  <2>3. /\ InOrder(U, {}, C)
        /\ Busy(U) = Busy(T) \cup {w.aux} /\ w.aux \notin Busy(T)
        /\ Leading(U) = Leading(T)
        /\ LeadOf(U, {}) = LeadOf(T, {})
    BY <1>4, <1>5, <1>6, <1>7, <1>8, <2>1, <2>2, Extended
  <2>4. QED BY <2>1, <2>3
<1>10. Cardinality(Busy(slots')) = usedslots + 1
  <2>1. Busy(T) \in SUBSET Slots
    BY DEF Busy
  <2>2. QED BY <1>8, <1>9, <2>1, Going, OneMore DEF Whole
<1>11. Whole(slots', {}, Pending(slots'), usedslots + 1, num)
  BY <1>8, <1>9, <1>10 DEF Whole, Pending, Lead
<1>12. Home' = Home /\ Pending(slots)' = Pending(slots')
  BY <1>2 DEF Home, Pending
<1>13. Chosen'
  BY <1>1, <1>2, <1>3, <1>12 DEF Extending, Chosen
<1>14. Extending(slots, usedslots + 1)'
  BY <1>1, <1>2, <1>3, <1>11, <1>12, <1>13, Going DEF Extending
<1>15. QED BY <1>1, <1>2, <1>7, <1>14 DEF SInv, Quiet

\* The collision is counted at last: the leading slot's count is right again.
LEMMA PutLeadLinks == ASSUME WInv, WInv', SInv, PutLead PROVE SInv'
<1>1. /\ wpc = "putLead" /\ UNCHANGED <<usedslots, num, crashes>>
      /\ wpc' = "idle" /\ w' = NoWrite /\ w.cnt = -1
      /\ Extending(slots, usedslots) /\ Home \in Slots
      /\ slots' = [slots EXCEPT ![Home].count = slots[Home].count + 1]
  BY InPut DEF PutLead, still, SInv, PutLabels, Home, Return, Goto, WInv, Locals
<1>2. slots[Home].count > 0 /\ slots[Home].count \in Int
  BY <1>1, Going, SlotIs DEF Extending, Chosen
<1>3. \A x \in Slots : /\ slots'[x].count = IF x = Home THEN slots[x].count + 1 ELSE slots[x].count
                       /\ Keeps(slots, slots', x)
  BY <1>1, Going DEF Written, Slot, Keeps
<1>4. Alike(slots, slots')
  BY <1>2, <1>3 DEF Alike
<1>5. /\ InOrder(slots', {}, Pending(slots))
      /\ Busy(slots') = Busy(slots) /\ Leading(slots') = Leading(slots)
  BY <1>1, <1>4, Going, AlikeOrder DEF Extending, Whole
<1>6. Pending(slots) = Lead(slots')
  <2>1. /\ Lead(slots) \in [Slots -> Int] /\ Lead(slots') \in [Slots -> Int]
        /\ \A h \in Slots : Lead(slots)[h] = IF slots[h].count > 0 THEN slots[h].count ELSE 0
        /\ \A h \in Slots : Lead(slots')[h] = IF slots'[h].count > 0 THEN slots'[h].count ELSE 0
    BY Going, LeadType DEF Lead
  <2>2. PICK C, D : C = Lead(slots) /\ D = Lead(slots')
    OBVIOUS
  <2>3. \A h \in Slots : D[h] = IF h = Home THEN C[h] + 1 ELSE C[h]
    BY <1>2, <1>3, <2>1, <2>2
  <2>4. D = [C EXCEPT ![Home] = @ + 1]
    BY <1>1, <2>1, <2>2, <2>3
  <2>5. QED BY <1>1, <2>2, <2>4 DEF Pending, Changed
<1>7. Settled'
  BY <1>1, <1>5, <1>6 DEF Settled, Whole, Extending
<1>8. QED BY <1>1, <1>7, Returned

\* What was undone left the table whole.
LEMMA UndoneLinks == ASSUME WInv, SInv, Undone PROVE SInv'
<1>1. Settled /\ Return("ENOBUFS") /\ UNCHANGED <<slots, usedslots, num, crashes>>
  BY DEF Undone, SInv, Quiet, table, still
<1>2. QED BY <1>1, ReturnedAsIs DEF Errors

\* remove returns, or put goes on, with a whole table.
LEMMA RemovedLinks ==
  ASSUME WInv, SInv, NEW err \in Errors, Removed(err), UNCHANGED <<slots, usedslots, num, crashes>>,
         Settled
  PROVE  SInv'
<1>1. CASE Return(err)
  BY <1>1, ReturnedAsIs
<1>2. CASE wpc' = "put" /\ w' = [NoWrite EXCEPT !.op = w.op, !.key = w.key, !.val = w.val]
  <2>1. w'.loops = 0 /\ w'.done = 0
    BY <1>2 DEF NoWrite
  <2>2. Settled'
    BY DEF Settled
  <2>3. QED BY <1>2, <2>1, <2>2 DEF SInv, Quiet
<1>3. QED BY <1>1, <1>2 DEF Removed, Goto

\* The key that is removed is taken off the counts, and its slots released.
LEMMA RemovalBegins ==
  ASSUME WInv, WInv', SInv, Settled, w'.cur \in Leading(slots), w'.loops = 0,
         slots'[w'.cur].count = slots[w'.cur].count, wpc' = "remData", crashes' = 0,
         UNCHANGED <<usedslots, num>>, Alike(slots, slots'),
         LET h == slots[w'.cur].hash
         IN  Left(slots, {w.cur})' = Changed(Lead(slots), h, -1),
         w'.then = "remCopy" =>
           /\ w'.cur = w'.idx /\ w'.aux # w'.cur
           /\ slots'[w'.aux].count = -1 /\ slots'[w'.aux].hash = w'.idx
  PROVE  SInv'
<1> DEFINE o == w'.cur
<1>1. /\ InOrder(slots', {}, Lead(slots))
      /\ Busy(slots') = Busy(slots) /\ Leading(slots') = Leading(slots)
  BY Going, AlikeOrder DEF Settled, Whole
<1>2. o \in Slots /\ slots[o].count # 0 /\ slots'[o].hash = slots[o].hash
  BY Going, SlotIs DEF Leading, Alike, Keeps
<1>3. Whole(slots', {}, Lead(slots), usedslots, num)
  BY <1>1 DEF Settled, Whole
<1>4. Whole(slots', {o}, Changed(Lead(slots), slots[o].hash, -1), usedslots, num - 1)
  <2>1. Lead(slots) \in [Slots -> Int] /\ slots' \in Tables /\ o \in Leading(slots')
    BY <1>1, Going, LeadType DEF Lead
  <2>2. QED BY <1>2, <1>3, <2>1, OrphanWhole
<1>5. w'.loops + Cardinality(Busy(slots')) <= maxslots
  BY AtMostAll, TableAssumption
<1>6. Removing'
  BY <1>2, <1>4, <1>5 DEF Removing
<1>7. QED BY <1>6 DEF SInv, Quiet

\* A leading slot's own key goes: the rest of the keys it counts remain.
LEMMA LeaderLess ==
  ASSUME NEW T \in Tables, NEW o \in Slots, T[o].count > 0
  PROVE  /\ [LeadOf(T, {o}) EXCEPT ![o] = T[o].count - 1] = Changed(Lead(T), o, -1)
         /\ T[o].count = 1 => LeadOf(T, {o}) = Changed(Lead(T), o, -1)
<1>1. PICK C, D, n : C = Lead(T) /\ D = LeadOf(T, {o}) /\ n = T[o].count
  OBVIOUS
<1>2. /\ C \in [Slots -> Int] /\ D \in [Slots -> Int] /\ n \in Int
      /\ \A h \in Slots : /\ h # o => C[h] = D[h]
                          /\ h = o => C[h] = n /\ D[h] = 0
  BY <1>1, LeadType, SlotIs DEF Lead
<1>3. [D EXCEPT ![o] = n - 1] = [C EXCEPT ![o] = @ + -1]
  BY <1>2
<1>4. n = 1 => D = [C EXCEPT ![o] = @ + -1]
  BY <1>2
<1>5. QED BY <1>1, <1>3, <1>4 DEF Changed

\* Another key goes: the leading slot counts one less.
LEMMA OtherLess ==
  ASSUME NEW T \in Tables, NEW U \in Tables, NEW h \in Slots, T[h].count > 1,
         NEW o \in Slots, T[o].count = -1,
         \A x \in Slots : U[x].count = IF x = h THEN T[h].count - 1 ELSE T[x].count
  PROVE  LeadOf(U, {o}) = Changed(Lead(T), h, -1)
<1>1. PICK C, D : C = Lead(T) /\ D = LeadOf(U, {o})
  OBVIOUS
<1>2. /\ C \in [Slots -> Int] /\ D \in [Slots -> Int] /\ T[h].count \in Int
      /\ \A x \in Slots : C[x] = IF T[x].count > 0 THEN T[x].count ELSE 0
      /\ \A x \in Slots : D[x] = IF U[x].count > 0 /\ x # o THEN U[x].count ELSE 0
  BY <1>1, LeadType, SlotIs DEF Lead
<1>3. \A x \in Slots : D[x] = IF x = h THEN C[x] - 1 ELSE C[x]
  BY <1>2
<1>4. D = [C EXCEPT ![h] = @ + -1]
  BY <1>2, <1>3
<1>5. QED BY <1>1, <1>4 DEF Changed

\* A table is as it was.
LEMMA AlikeSelf == Alike(slots, slots)
BY DEF Alike, Keeps

\* How a key is removed depends on what its first slot counts.
LEMMA ChooseRemovalLinks == ASSUME WInv, WInv', SInv, ChooseRemoval PROVE SInv'
<1> DEFINE i == get_idx(w.key)
           dups == {j \in Slots \ {i} : slots[j].count = -1 /\ slots[j].hash = Hash[w.key]}
           n == Nearest(After(i), dups)
<1>1. /\ wpc = "remove" /\ w.key \in Keys /\ Written /\ Settled /\ w.loops = 0
      /\ crashes = 0 /\ UNCHANGED <<slots, usedslots, num, crashes>> /\ w \in Call
  BY DEF ChooseRemoval, WInv, Written, Locals, RemLabels, SInv, Quiet, table, still
<1>2. CASE \E err \in {"ENOENT", "EFAULT"} : Removed(err)
  BY <1>1, <1>2, RemovedLinks DEF Errors
<1>3. ASSUME i # -1
      PROVE  /\ i \in Leading(slots) /\ i \in Slots /\ slots[i].hash = Hash[w.key]
             /\ slots[i].count > 0 => slots[i].hash = i
             /\ slots[i].count = -1 => slots[i].hash # i
             /\ slots[i].count # 0
  <2>1. i \in Leading(slots) /\ slots[i].key = w.key
    BY <1>1, <1>3, GetIdxFinds
  <2>2. i \in Leading(slots) \ {} /\ i \in Busy(slots) \ {} /\ i \in Slots
    BY <2>1, Going, SlotIs DEF Leading, Busy
  <2>3. QED BY <1>1, <2>1, <2>2 DEF Settled, Whole, InOrder, Placed, Busy
<1>4. CASE i # -1 /\ slots[i].count = 1 /\ wpc' = "remData"
           /\ w' = [w EXCEPT !.idx = i, !.cur = i, !.aux = 0, !.cnt = 0, !.then = "removed"]
  <2> HIDE DEF i
  <2>1. w'.idx = i /\ w'.cur = i /\ w'.then = "removed" /\ w'.loops = 0
    BY <1>1, <1>4 DEF Call
  <2>2. Left(slots, {w.cur})' = Changed(Lead(slots), slots[i].hash, -1)
    <3>1. slots \in Tables /\ i \in Slots /\ slots[i].count > 0
      BY <1>3, <1>4, Going
    <3>2. LeadOf(slots, {i}) = Changed(Lead(slots), i, -1)
      BY <1>4, <3>1, LeaderLess
    <3>3. slots[i].hash = i
      BY <1>3, <1>4, <3>1
    <3>4. QED BY <1>1, <2>1, <3>2, <3>3 DEF Left
  <2>3. QED BY <1>1, <1>3, <1>4, <2>1, <2>2, AlikeSelf, RemovalBegins
<1>5. CASE i # -1 /\ slots[i].count > 1 /\ dups # {} /\ wpc' = "remData"
           /\ w' = [w EXCEPT !.idx = i, !.cur = i, !.aux = n, !.cnt = slots[i].count,
                             !.then = "remCopy"]
  <2>1. n \in dups
    <3>1. After(i) \in Slots /\ dups \in SUBSET Slots
      BY <1>3, <1>5, DistType
    <3> HIDE DEF dups
    <3>2. QED BY <1>5, <3>1, NearestIs
  <2>2. slots[n].count = -1 /\ slots[n].hash = i /\ n # i
    <3>1. slots[i].count > 0
      BY <1>3, <1>5, Going, SlotIs
    <3>2. QED BY <1>3, <1>5, <2>1, <3>1
  <2> HIDE DEF i, dups, n
  <2>3. w'.idx = i /\ w'.cur = i /\ w'.aux = n /\ w'.cnt = slots[i].count /\ w'.then = "remCopy"
        /\ w'.loops = 0
    BY <1>1, <1>5 DEF Call
  <2>4. Left(slots, {w.cur})' = Changed(Lead(slots), slots[i].hash, -1)
    <3>1. slots[i].count > 0
      BY <1>3, <1>5, Going, SlotIs
    <3>2. slots \in Tables /\ i \in Slots
      BY <1>3, <1>5, Going
    <3>3. [LeadOf(slots, {i}) EXCEPT ![i] = slots[i].count - 1] = Changed(Lead(slots), i, -1)
      BY <3>1, <3>2, LeaderLess
    <3>4. slots[i].hash = i
      BY <1>3, <1>5, <3>1
    <3>5. QED BY <1>1, <2>3, <3>3, <3>4 DEF Left
  <2>5. QED BY <1>1, <1>3, <1>5, <2>2, <2>3, <2>4, AlikeSelf, RemovalBegins
<1>6. CASE i # -1 /\ slots[i].count = -1 /\ wpc' = "remCount"
           /\ w' = [w EXCEPT !.idx = i, !.cur = i, !.aux = 0, !.cnt = 0, !.then = "removed"]
  <2> HIDE DEF i
  <2>1. w'.idx = i /\ w'.cur = i /\ w'.then = "removed" /\ w'.loops = 0
    BY <1>1, <1>6 DEF Call
  <2>2. Settled'
    BY <1>1 DEF Settled
  <2>3. QED BY <1>1, <1>6, <2>1, <2>2 DEF SInv, Quiet
<1>7. QED BY <1>2, <1>4, <1>5, <1>6 DEF ChooseRemoval, Goto

\* One key less to count.
LEMMA RemCountLinks == ASSUME WInv, WInv', SInv, RemCount PROVE SInv'
<1> DEFINE h == slots[w.cur].hash
<1>1. /\ wpc = "remCount" /\ wpc' = "remData" /\ w' = w /\ UNCHANGED <<usedslots, num, crashes>>
      /\ Settled /\ w.loops = 0 /\ crashes = 0
      /\ slots[w.cur].count = -1 /\ w.then # "remCopy" /\ slots[h].count > 1
      /\ slots' = [slots EXCEPT ![h].count = slots[h].count - 1]
  BY DEF RemCount, Goto, still, SInv, Quiet, WInv, Locals
<1>2. h \in Slots /\ slots[h].count \in Int
  BY Going, SlotIs
<1> HIDE DEF h
<1>3. \A x \in Slots : /\ slots'[x].count = IF x = h THEN slots[h].count - 1 ELSE slots[x].count
                       /\ Keeps(slots, slots', x)
  BY <1>1, <1>2, Going DEF Written, Slot, Keeps
<1>4. Alike(slots, slots') /\ w.cur # h
  <2>1. slots[h].count > 0 /\ slots[h].count - 1 > 0 /\ w.cur # h
    BY <1>1, <1>2
  <2>2. \A x \in Slots :
          slots'[x].count = slots[x].count \/ (slots[x].count > 0 /\ slots'[x].count > 0)
    BY <1>3, <2>1
  <2>3. QED BY <1>3, <2>1, <2>2 DEF Alike
<1>5. Left(slots, {w.cur})' = Changed(Lead(slots), h, -1)
  <2>1. LeadOf(slots', {w.cur}) = Changed(Lead(slots), h, -1)
    <3>1. PICK T, U, o : T = slots /\ U = slots' /\ o = w.cur
      OBVIOUS
    <3>2. T \in Tables /\ U \in Tables /\ o \in Slots /\ T[h].count > 1 /\ T[o].count = -1
      BY <1>1, <3>1, Going
    <3>3. \A x \in Slots : U[x].count = IF x = h THEN T[h].count - 1 ELSE T[x].count
      BY <1>3, <3>1
    <3>4. LeadOf(U, {o}) = Changed(Lead(T), h, -1)
      BY <1>2, <3>2, <3>3, OtherLess
    <3>5. QED BY <3>1, <3>4
  <2>2. QED BY <1>1, <2>1 DEF Left
<1>6. w.cur \in Leading(slots) /\ slots'[w.cur].count = slots[w.cur].count
  BY <1>1, <1>3, <1>4, Going DEF Leading
<1>7. QED BY <1>1, <1>4, <1>5, <1>6, RemovalBegins DEF h

\* A slot is released; the next one is that of the key's next chunk.
LEMMA RemDataLinks == ASSUME WInv, WInv', SInv, RemData PROVE SInv'
<1> DEFINE o == w.cur
           O == Behind(slots, o)
<1>1. /\ wpc = "remData" /\ UNCHANGED crashes /\ crashes = 0 /\ Removing /\ remove_slot(o)
      /\ w.then \in {"removed", "remCopy", "undone"} /\ w.loops \in Nat
  BY Going DEF RemData, still, SInv, Call
<1>2. /\ slots' = [slots EXCEPT ![o].count = 0] /\ usedslots' = usedslots - 1
      /\ o \in Busy(slots)
  BY <1>1, Going DEF remove_slot, Removing, Busy
<1>3. slots'[o].count = 0 /\ \A x \in Slots \ {o} : slots'[x] = slots[x]
  BY <1>2, Going DEF Written, Slot
<1>4. /\ InOrder(slots', O, Left(slots, {o}))
      /\ Busy(slots') = Busy(slots) \ {o}
      /\ Leading(slots') \ O = Leading(slots) \ {o}
      /\ LeadOf(slots', O) = LeadOf(slots, {o})
      /\ slots[o].link # -1 => slots[o].link \in Busy(slots') /\ slots[slots[o].link].count = -2
  <2>1. PICK T, U, C, q : T = slots /\ U = slots' /\ C = Left(slots, {o}) /\ q = o
    OBVIOUS
  <2>2. T \in Tables /\ U \in Tables /\ q \in Busy(T) /\ InOrder(T, {q}, C)
    BY <1>1, <1>2, <2>1, Going DEF Removing, Whole
  <2>3. Frees(T, U, q)
    BY <1>3, <2>1 DEF Frees
  <2>4. /\ InOrder(U, Behind(T, q), C)
        /\ Busy(U) = Busy(T) \ {q}
        /\ Leading(U) \ Behind(T, q) = Leading(T) \ {q}
        /\ LeadOf(U, Behind(T, q)) = LeadOf(T, {q})
        /\ T[q].link # -1 => T[q].link \in Busy(U) /\ T[T[q].link].count = -2
    BY <2>2, <2>3, Released
  <2>5. QED BY <2>1, <2>4
<1>5. /\ Cardinality(Busy(slots')) = Cardinality(Busy(slots)) - 1
      /\ Cardinality(Busy(slots)) \in Nat /\ Cardinality(Busy(slots')) \in Nat
  <2>1. Busy(slots) \in SUBSET Slots
    BY DEF Busy
  <2>2. QED BY <1>2, <1>4, <2>1, OneLess, AtMostAll
<1>6. Whole(slots', O, Left(slots, {o}), usedslots', num - 1)
  BY <1>1, <1>2, <1>4, <1>5 DEF Removing, Whole
<1>7. ~(w.loops + 1 > maxslots)
  BY <1>1, <1>5, TableAssumption DEF Removing
<1>8. CASE slots[o].link = -1 /\ num' = num - 1 /\ w' = [w EXCEPT !.loops = 0] /\ wpc' = w.then
  <2>1. w'.idx = w.idx /\ w'.aux = w.aux /\ w'.cnt = w.cnt /\ w'.then = w.then /\ w'.loops = 0
    BY <1>8, Going DEF Call
  <2>2. Whole(slots', {}, Left(slots, {o}), usedslots', num') /\ LeadOf(slots', {}) = LeadOf(slots, {o})
    BY <1>4, <1>6, <1>8 DEF Behind
  <2>3. CASE w.then \in {"removed", "undone"}
    <3>1. Settled'
      BY <2>2, <2>3 DEF Settled, Left, Lead
    <3>2. QED BY <1>1, <1>8, <2>1, <2>3, <3>1 DEF SInv, Quiet
  <2>4. CASE w.then = "remCopy"
    <3>1. Left(slots, {})' = Left(slots, {o})
      BY <2>1, <2>2, <2>4 DEF Left
    <3>2. slots'[w.idx].count = 0
      BY <1>1, <1>3, <2>4, Going DEF Removing
    <3>3. slots'[w.aux] = slots[w.aux]
      BY <1>1, <1>3, <2>4, Going DEF Removing
    <3>4. QED BY <1>1, <1>8, <2>1, <2>2, <2>4, <3>1, <3>2, <3>3 DEF SInv, Quiet, Removing
  <2>5. QED BY <1>1, <2>3, <2>4
<1>9. CASE /\ slots[o].link # -1 /\ w' = [w EXCEPT !.cur = slots[o].link, !.loops = @ + 1]
           /\ wpc' = wpc /\ num' = num
  <2>1. /\ w'.idx = w.idx /\ w'.aux = w.aux /\ w'.cnt = w.cnt /\ w'.then = w.then
        /\ w'.loops = w.loops + 1 /\ w'.cur = slots[o].link
    BY <1>9, Going DEF Call
  <2>2. O = {w'.cur}
    BY <1>9, <2>1 DEF Behind
  <2>3. Left(slots, {w.cur})' = Left(slots, {o})
    BY <1>4, <2>1, <2>2 DEF Left
  <2>4. slots'[w'.cur].count = -2 /\ w'.cur # o /\ w'.cur \in Slots
    BY <1>3, <1>4, <1>9, <2>1 DEF Busy
  <2>5. w'.loops + Cardinality(Busy(slots')) <= maxslots
    BY <1>1, <1>5, <2>1 DEF Removing
  <2>6. w.then = "remCopy" =>
          /\ slots'[w.idx].count = 0
          /\ slots'[w.aux].count = -1 /\ slots'[w.aux].hash = w.idx
          /\ w.aux # w'.cur
    BY <1>1, <1>3, <2>4, Going DEF Removing
  <2>7. Removing'
    BY <1>6, <1>9, <2>1, <2>2, <2>3, <2>4, <2>5, <2>6 DEF Removing
  <2>8. QED BY <1>1, <1>9, <2>7 DEF SInv, Quiet
<1>10. QED BY <1>7, <1>8, <1>9 DEF RemData, ChainEnds, Goto

\* Another key of the hash is copied to the slot of the key that led them, ...
LEMMA RemCopyLinks == ASSUME WInv, WInv', SInv, RemCopy PROVE SInv'
<1> DEFINE T == Without(slots', w.idx)
<1>1. /\ wpc = "remCopy" /\ wpc' = "remFree" /\ w' = w /\ num' = num /\ crashes' = crashes
      /\ w.loops = 0 /\ crashes = 0 /\ w.then = "remCopy"
      /\ Whole(slots, {}, Left(slots, {}), usedslots, num)
      /\ slots[w.idx].count = 0 /\ slots[w.aux].count = -1 /\ slots[w.aux].hash = w.idx
      /\ copy_slot(w.idx, w.aux)
  BY DEF RemCopy, Goto, still, SInv, WInv, Locals
<1>2. /\ usedslots' - 1 = usedslots
      /\ Copied(w.aux, w.idx)' /\ slots'[w.aux] = slots[w.aux]
      /\ slots' \in Tables /\ Same(slots, T)
  BY <1>1, Going, Copying
<1>3. T \in Tables /\ slots \in Tables
  BY <1>2, Going, WithoutIs
<1>4. Whole(T, {}, Left(slots, {}), usedslots, num) /\ LeadOf(T, {}) = LeadOf(slots, {})
  BY <1>1, <1>2, <1>3, SameTable
<1>5. Left(T, {}) = Left(slots, {})
  BY <1>4 DEF Left
<1>6. Whole(T, {}, Left(T, {}), usedslots' - 1, num')
  BY <1>1, <1>2, <1>4, <1>5
<1>7. Left(Without(slots, w.idx), {})' = Left(T, {})
  BY <1>1 DEF Left
<1>8. QED BY <1>1, <1>2, <1>6, <1>7 DEF SInv, Quiet

\* ... released where it was, ...
LEMMA RemFreeLinks == ASSUME WInv, WInv', SInv, RemFree PROVE SInv'
<1> DEFINE T == Without(slots, w.idx)
           U == BackAt(slots', w.aux, w.idx)
<1>1. /\ wpc = "remFree" /\ wpc' = "remLead" /\ w' = w /\ num' = num /\ crashes' = crashes
      /\ w.loops = 0 /\ crashes = 0 /\ w.then = "remCopy"
      /\ Whole(T, {}, Left(T, {}), usedslots - 1, num) /\ Copied(w.aux, w.idx)
      /\ slots[w.aux].count = -1 /\ slots[w.aux].hash = w.idx /\ remove_slot(w.aux)
  BY DEF RemFree, Goto, still, SInv, WInv, Locals
<1>2. /\ usedslots' = usedslots - 1
      /\ Moving(w.aux, w.idx)' /\ slots'[w.idx] = slots[w.idx]
      /\ slots' \in Tables /\ Same(T, U)
  BY <1>1, Going, Freeing
<1>3. T \in Tables /\ U \in Tables
  <2>1. w.aux # w.idx
    BY <1>1 DEF Copied
  <2>2. QED BY <1>2, <2>1, Going, WithoutIs, BackAtIs
<1>4. Whole(U, {}, Left(T, {}), usedslots', num') /\ LeadOf(U, {}) = LeadOf(T, {})
  BY <1>1, <1>2, <1>3, SameTable
<1>5. Left(U, {}) = Left(T, {})
  BY <1>4 DEF Left
<1>6. Left(BackAt(slots, w.aux, w.idx), {})' = Left(U, {})
  BY <1>1 DEF Left
<1>7. slots'[w.idx].count = -1 /\ slots'[w.idx].hash = w.idx
  BY <1>1, <1>2 DEF Copied
<1>8. QED BY <1>1, <1>2, <1>4, <1>5, <1>6, <1>7 DEF SInv, Quiet

\* ... and leads what remains.
LEMMA RemLeadLinks == ASSUME WInv, WInv', SInv, RemLead PROVE SInv'
<1> DEFINE T == BackAt(slots, w.aux, w.idx)
           n == w.cnt - 1
<1>1. /\ wpc = "remLead" /\ wpc' = "removed" /\ w' = w /\ UNCHANGED <<usedslots, num, crashes>>
      /\ w.loops = 0 /\ crashes = 0 /\ w.then = "remCopy" /\ w.cnt > 1 /\ w.cnt \in Int
      /\ Whole(T, {}, Left(T, {}), usedslots, num) /\ Moving(w.aux, w.idx)
      /\ slots[w.idx].count = -1 /\ slots[w.idx].hash = w.idx
      /\ slots' = Promoted(w.idx, n)
  BY Going, TableAssumption DEF RemLead, Goto, still, SInv, WInv, Locals, Call
<1>2. T \in Tables /\ w.aux # w.idx
  <2>1. w.aux # w.idx
    BY <1>1 DEF Moving
  <2>2. QED BY <2>1, Going, BackAtIs
<1>3. \A x \in Slots :
        T[x].count = IF x = w.idx THEN 0 ELSE IF x = w.aux THEN slots[w.idx].count ELSE slots[x].count
  BY <1>2, Going, BackAtIs
<1>4. \A x \in Slots :
        /\ slots'[x].count = IF x = w.idx THEN n ELSE slots[x].count
        /\ slots'[x].hash = IF x = slots[w.idx].link THEN w.idx ELSE slots[x].hash
        /\ slots'[x].link = slots[x].link /\ slots'[x].key = slots[x].key
  BY <1>1, Going, PromotedIs
<1>5. Whole(slots', {}, Left(T, {}), usedslots, num)
  <2>1. PICK U, C, from, to : U = slots' /\ C = Left(T, {}) /\ from = w.aux /\ to = w.idx
    OBVIOUS
  <2>2. /\ U \in Tables /\ from \in Slots /\ to \in Slots /\ T = BackAt(slots, from, to)
        /\ Whole(T, {}, C, usedslots, num) /\ Moving(from, to)
    BY <1>1, <2>1, Going
  <2>3. \A x \in Slots :
           /\ x # to => U[x].count = slots[x].count
           /\ U[x].key = slots[x].key
           /\ U[x].hash = IF x = slots[to].link THEN to ELSE slots[x].hash
           /\ U[x].link = IF slots[to].count = -2 /\ x = slots[to].hash THEN to ELSE slots[x].link
    BY <1>1, <1>4, <2>1
  <2>4. U[to].count > 0 /\ slots[to].count = -1 /\ slots[to].hash = to
    BY <1>1, <1>4, <2>1, <2>2
  <2> HIDE DEF T
  <2>5. Whole(U, {}, C, usedslots, num)
    BY <1>2, <2>2, <2>3, <2>4, Going, Adjusted
  <2>6. QED BY <2>1, <2>5
<1>6. Lead(slots') = Left(T, {})
  <2>1. /\ Lead(slots') \in [Slots -> Int] /\ LeadOf(T, {}) \in [Slots -> Int]
        /\ \A h \in Slots : Lead(slots')[h] = IF slots'[h].count > 0 THEN slots'[h].count ELSE 0
        /\ \A h \in Slots : LeadOf(T, {})[h] = IF T[h].count > 0 THEN T[h].count ELSE 0
    BY <1>2, Going, LeadType DEF Lead
  <2>2. PICK C, D : C = LeadOf(T, {}) /\ D = Lead(slots')
    OBVIOUS
  <2>3. slots[w.aux].count = 0
    BY <1>1 DEF Moving
  <2> HIDE DEF T
  <2>4. \A h \in Slots : D[h] = IF h = w.idx THEN n ELSE C[h]
    BY <1>1, <1>2, <1>3, <1>4, <2>1, <2>2, <2>3, Going
  <2>5. D = [C EXCEPT ![w.idx] = n]
    BY <1>1, <2>1, <2>2, <2>4, Going
  <2>6. QED BY <1>1, <2>2, <2>5 DEF Left
<1>7. Settled'
  BY <1>1, <1>5, <1>6 DEF Settled
<1>8. QED BY <1>1, <1>7 DEF SInv, Quiet

\* remove is done.
LEMMA RemDoneLinks == ASSUME WInv, SInv, RemDone PROVE SInv'
<1>1. Settled /\ Removed("ok") /\ UNCHANGED <<slots, usedslots, num, crashes>>
  BY DEF RemDone, SInv, Quiet, table, still
<1>2. QED BY <1>1, RemovedLinks DEF Errors

\* clear goes through the slots if any is in use, ...
LEMMA ClrCountersLinks == ASSUME WInv, SInv, ClrCounters PROVE SInv'
<1>1. wpc = "clear" /\ Settled /\ w.cur = 0 /\ w.loops = 0 /\ UNCHANGED <<slots, crashes>> /\ crashes = 0
  BY DEF ClrCounters, SInv, Quiet, still
<1>2. CASE Return("ok") /\ UNCHANGED <<usedslots, num>>
  BY <1>1, <1>2, ReturnedAsIs DEF Errors
<1>3. CASE wpc' = "clrSlots" /\ w' = w /\ usedslots' = 0 /\ num' = 0
  <2>1. \A i \in Slots : ~(i < w'.cur)
    BY <1>1, <1>3, TableAssumption DEF Slots
  <2>2. QED BY <1>1, <1>3, <2>1 DEF SInv, Quiet
<1>4. QED BY <1>2, <1>3 DEF ClrCounters, Goto

\* ... one after the other.
LEMMA ClrSlotsLinks == ASSUME WInv, WInv', SInv, ClrSlots PROVE SInv'
<1>1. /\ wpc = "clrSlots" /\ usedslots = 0 /\ num = 0 /\ w.loops = 0 /\ crashes = 0
      /\ UNCHANGED <<usedslots, num, crashes>>
      /\ \A i \in Slots : i < w.cur => slots[i].count = 0
      /\ slots' = [slots EXCEPT ![w.cur] = EmptySlot]
  BY DEF ClrSlots, SInv, still
<1>2. \A i \in Slots : i <= w.cur => slots'[i].count = 0
  <2>1. EmptySlot.count = 0 /\ \A i \in Slots : i <= w.cur => i < w.cur \/ i = w.cur
    BY Going, EmptySlotType, TableAssumption DEF Slots
  <2>2. QED BY <1>1, <2>1, Going DEF Written
<1>3. CASE w.cur = maxslots - 1 /\ wpc' = "idle" /\ w' = NoWrite
  <2>1. \A i \in Slots : slots'[i].count = 0
    BY <1>2, <1>3, TableAssumption DEF Slots
  <2>2. Settled'
    BY <1>1, <2>1, Going, AllEmpty DEF Settled
  <2>3. QED BY <1>1, <1>3, <2>2, Returned
<1>4. CASE w' = [w EXCEPT !.cur = @ + 1] /\ wpc' = wpc
  <2>1. w'.cur = w.cur + 1 /\ w'.loops = 0
    BY <1>1, <1>4, Going DEF Call
  <2>2. \A i \in Slots : i < w'.cur => slots'[i].count = 0
    BY <1>2, <2>1, Going, TableAssumption DEF Slots
  <2>3. QED BY <1>1, <1>4, <2>1, <2>2 DEF SInv, Quiet
<1>5. QED BY <1>3, <1>4 DEF ClrSlots, Return, Goto

-------------------------------------------------------------------------------
(* The theorems.                                                           *)

\* The counter of the bound on crashes, and what holds until the first of them: a
\* death in a call leaves half a value or a count that nobody corrects.
LInv == crashes \in 0..MaxCrashes /\ (crashes = 0 => SInv)

\* What the table's order depends on.
LEMMA LinksStay == ASSUME SInv, UNCHANGED <<table, writer>> PROVE SInv'
<1>1. UNCHANGED <<slots, usedslots, num, wpc, w, crashes>>
  BY DEF table, writer
<1>2. QED
  BY <1>1, SMTT(60)
  DEF SInv, Settled, Copied, Moving, Chosen, Growing, Headed, Pending, Extending, Last, Left,
      Removing, Home

\* Every step of a call keeps the table in the order of the point it reaches.
LEMMA WStepLinks ==
  ASSUME WInv, WInv', SInv, WStep
  PROVE  SInv' /\ UNCHANGED crashes
<1>1. CASE ChoosePlace \/ Move \/ MoveFree \/ MoveLinks
  BY <1>1, ChoosePlaceLinks, MoveLinks1, MoveLinks2, MoveLinks3
  DEF ChoosePlace, Move, MoveFree, MoveLinks, still
<1>2. CASE PutCount \/ PutHash \/ PutKey \/ PutEnd \/ PutValue \/ PutSize
  BY <1>2, PutCountLinks, PutHashLinks, PutKeyLinks, PutEndLinks, PutValueLinks, PutSizeLinks
  DEF PutCount, PutHash, PutKey, PutEnd, PutValue, PutSize, still
<1>3. CASE PutExt \/ PutExtHead \/ PutLink \/ PutLead \/ Undone
  BY <1>3, PutExtLinks, PutExtHeadLinks, PutLinkLinks, PutLeadLinks, UndoneLinks
  DEF PutExt, PutExtHead, PutLink, PutLead, Undone, still
<1>4. CASE ChooseRemoval \/ RemCount \/ RemData \/ RemCopy
  BY <1>4, ChooseRemovalLinks, RemCountLinks, RemDataLinks, RemCopyLinks
  DEF ChooseRemoval, RemCount, RemData, RemCopy, still
<1>5. CASE RemFree \/ RemLead \/ RemDone \/ ClrCounters \/ ClrSlots
  BY <1>5, RemFreeLinks, RemLeadLinks, RemDoneLinks, ClrCountersLinks, ClrSlotsLinks
  DEF RemFree, RemLead, RemDone, ClrCounters, ClrSlots, still
<1>6. QED BY <1>1, <1>2, <1>3, <1>4, <1>5 DEF WStep

\* The table starts empty.
LEMMA InitLinks == ASSUME Init PROVE LInv
<1>1. slots \in Tables /\ \A i \in Slots : slots[i].count = 0
  BY EmptySlotType DEF Init, Tables
<1>2. Settled
  BY <1>1, AllEmpty DEF Init, Settled
<1>3. SInv
  BY <1>2 DEF Init, SInv, NoWrite, Quiet
<1>4. QED BY <1>3, TableAssumption DEF Init, LInv

\* Every step keeps the invariant.
LEMMA NextLinks == ASSUME WInv, WInv', LInv, [Next]_vars PROVE LInv'
<1>1. CASE Clear \/ \E k \in Keys : Remove(k) \/ \E v \in Values : Put(k, v)
  <2>1. UNCHANGED crashes
    BY <1>1 DEF Clear, Remove, Put, Begin
  <2>2. ASSUME SInv, NEW k \in Keys, Remove(k) \/ \E v \in Values : Put(k, v) PROVE SInv'
    BY <2>2, BeginLinks DEF Remove, Put
  <2>3. ASSUME SInv, Clear PROVE SInv'
    BY <2>3, BeginLinks DEF Clear
  <2>4. QED BY <1>1, <2>1, <2>2, <2>3 DEF LInv
<1>2. CASE WStep
  <2>1. UNCHANGED crashes
    BY <1>2 DEF WStep, ChoosePlace, Move, MoveFree, MoveLinks, PutCount, PutHash, PutKey,
      PutEnd, PutValue, PutSize, PutExt, PutExtHead, PutLink, PutLead, Undone, ChooseRemoval,
      RemCount, RemData, RemCopy, RemFree, RemLead, RemDone, ClrCounters, ClrSlots, still
  <2>2. QED BY <1>2, <2>1, WStepLinks DEF LInv
<1>3. CASE Crash
  BY <1>3, TableAssumption DEF Crash, LInv
<1>4. CASE UNCHANGED <<table, writer>>
  <2>1. UNCHANGED crashes
    BY <1>4 DEF writer
  <2>2. QED BY <1>4, <2>1, LinksStay DEF LInv
<1>5. ASSUME NEW r \in Readers,
             RStep(r) \/ Traverse(r) \/ \E k \in Keys : Get(r, k) \/ Exist(r, k)
      PROVE  UNCHANGED <<table, writer>>
  BY <1>5 DEF RStep, GetLead, GetScan, TravSlot, GetSum, GetSize, GetCopy, rest, Traverse, Get,
              Exist, RBegin
<1>6. CASE UNCHANGED vars
  BY <1>4, <1>6 DEF vars
<1>7. QED BY <1>1, <1>2, <1>3, <1>4, <1>5, <1>6 DEF Next

\* Between two calls of a writer that has never died in one, what links to a slot is
\* linked back, moves and removals included, and every leading slot sits at its hash
\* and counts the keys there: what MoveLinks, RemLead and RemCount take for granted.
LEMMA SettledLinks == ASSUME WInv, Settled PROVE LinksMutual
<1>1. slots \in Tables /\ InOrder(slots, {}, Lead(slots)) /\ Nonempty = Busy(slots)
  BY DEF WInv, Written, Tables, Settled, Whole, Nonempty, Busy
<1>2. \A h \in Slots : Cardinality(Named(slots, h)) = Lead(slots)[h]
  <2>1. \A h \in Slots : Named(slots, h) \ {} = Named(slots, h)
    OBVIOUS
  <2>2. QED BY <1>1, <2>1 DEF InOrder, Numbered
<1>3. ASSUME NEW i \in Busy(slots), slots[i].count = -1
      PROVE  slots[slots[i].hash].count > 1
  <2> DEFINE h == slots[i].hash
             S == Named(slots, h)
  <2>1. i \in Slots /\ h \in Slots /\ h # i /\ i \in S
    BY <1>1, <1>3, SlotIs DEF Busy, InOrder, Placed, Named, Leading
  <2>2. S \in SUBSET Slots /\ Cardinality(S) = Lead(slots)[h]
    BY <1>2, <2>1 DEF Named, Leading
  <2>3. Lead(slots)[h] = IF slots[h].count > 0 THEN slots[h].count ELSE 0
    BY <1>1, <2>1, LeadType DEF Lead
  <2>4. slots[h].count > 0 => h \in S
    <3>1. slots[h].count > 0 => h \in Busy(slots)
      BY <2>1 DEF Busy
    <3>2. QED BY <1>1, <2>1, <3>1 DEF InOrder, Placed, Named, Leading
  <2> HIDE DEF S, h
  <2>5. /\ Cardinality(S \ {i}) = Cardinality(S) - 1
        /\ Cardinality(S) \in Nat /\ Cardinality(S \ {i}) \in Nat
    BY <2>1, <2>2, OneLess, SlotSets
  <2>6. slots[h].count > 0
    BY <2>2, <2>3, <2>5
  <2>7. h \in S \ {i} /\ S \ {i} \in SUBSET Slots
    BY <2>1, <2>2, <2>4, <2>6
  <2>8. Cardinality((S \ {i}) \ {h}) = Cardinality(S \ {i}) - 1 /\ Cardinality((S \ {i}) \ {h}) \in Nat
    BY <2>7, OneLess, SlotSets
  <2>9. slots[h].count > 1
    BY <2>2, <2>3, <2>5, <2>6, <2>8
  <2>10. QED BY <2>9 DEF h
<1>4. ASSUME NEW i \in Busy(slots), slots[i].count > 0
      PROVE  slots[i].hash = i /\ slots[i].count = Cardinality({j \in Slots : IsFirst(j, i)})
  <2>1. i \in Slots /\ slots[i].hash = i
    BY <1>1, <1>4 DEF Busy, InOrder, Placed
  <2>2. {j \in Slots : IsFirst(j, i)} = Named(slots, i)
    BY DEF Named, Leading, IsFirst
  <2>3. Lead(slots)[i] = slots[i].count
    BY <1>1, <1>4, <2>1, LeadType DEF Lead
  <2>4. QED BY <1>2, <2>1, <2>2, <2>3
<1>5. QED BY <1>1, <1>3, <1>4 DEF LinksMutual, InOrder, Linked

\* ... and the counters are exact: of the slots in use, and of the keys get_idx finds.
LEMMA SettledCounters == ASSUME WInv, Settled PROVE CountersExact
<1> DEFINE L == Leading(slots)
           D == {k \in Keys : get_idx(k) # -1}
           name == [i \in L |-> slots[i].key]
<1>1. /\ slots \in Tables /\ Nonempty = Busy(slots) /\ L \in SUBSET Slots
      /\ usedslots = Cardinality(Busy(slots)) /\ num = Cardinality(L)
  <2>1. L \ {} = L
    OBVIOUS
  <2>2. QED BY <2>1 DEF WInv, Written, Tables, Settled, Whole, Nonempty, Busy, Leading
<1>2. /\ \A i \in L : slots[i].key \in Keys
      /\ \A i, j \in L : slots[i].key = slots[j].key => i = j
  BY DEF Settled, Whole, InOrder, Placed
<1>3. \A k \in Keys : k \in D <=> \E i \in L : slots[i].key = k
  BY GetIdxFinds DEF WInv, Has
<1> HIDE DEF L
<1>4. name \in [L -> D]
  BY <1>2, <1>3
<1>5. name \in Injection(L, D)
  BY <1>2, <1>4 DEF Injection, IsInjective
<1>6. name \in Surjection(L, D)
  BY <1>3, <1>4 DEF Surjection
<1>7. Cardinality(D) = Cardinality(L)
  <2>1. ExistsBijection(L, D)
    BY <1>5, <1>6 DEF Bijection, ExistsBijection
  <2>2. IsFiniteSet(L)
    BY <1>1, SlotSets
  <2> HIDE DEF D
  <2>3. QED BY <2>1, <2>2, FS_Bijection
<1>8. DOMAIN View = D
  BY DEF View
<1>9. QED BY <1>1, <1>7, <1>8 DEF CountersExact

\* The invariant holds in every reachable state.
THEOREM LinksInvariance == Spec => []LInv
<1>1. Init => LInv
  BY InitLinks
<1>2. QInv /\ QInv' /\ LInv /\ [Next]_vars => LInv'
  BY NextLinks DEF QInv
<1>3. QED BY <1>1, <1>2, SlotInvariance, PTL DEF Spec

\* Between any two calls of a writer that has not died in one, the links are mutual
\* and the leading slots count right, for any number of slots, keys and values.
THEOREM LinksStayMutual == Spec => [](crashes = 0 => LinksMutual)
<1>1. QInv /\ LInv /\ crashes = 0 => LinksMutual
  BY SettledLinks DEF QInv, LInv, SInv, Quiet, LinksMutual, Idle
<1>2. QED BY <1>1, SlotInvariance, LinksInvariance, PTL

\* Likewise tbl->usedslots and tbl->num count the slots in use and the keys.
THEOREM CountersStayExact == Spec => [](crashes = 0 => CountersExact)
<1>1. QInv /\ LInv /\ crashes = 0 => CountersExact
  BY SettledCounters DEF QInv, LInv, SInv, Quiet, CountersExact, Idle
<1>2. QED BY <1>1, SlotInvariance, LinksInvariance, PTL
===============================================================================
