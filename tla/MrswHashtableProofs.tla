-------------------------- MODULE MrswHashtableProofs --------------------------
(***************************************************************************)
(* The writing side of the hash table, for every number of writers, table, *)
(* values and bounds: the list of each process names what it knows of the  *)
(* table, in the order it was stored, and evicting along it finds all the  *)
(* room there is.                                                          *)
(***************************************************************************)
EXTENDS MrswHashtableProps, SumLemmas, SequenceTheorems

\* Only a process that eliminates evicts, and setValue's arguments are in place.
Sets ==
  \A p \in Procs :
    /\ pc[p] = "evict" => p \in Eliminating
    /\ InSet(p) => key[p] \in Keys /\ val[p] \in Values

\* The external lock.
OneSet == \A p, q \in Procs : InSet(p) /\ InSet(q) => p = q

\* Whoever attached or stored, it was before the call that is not over.
Dated ==
  /\ \A p \in Procs : since[p] <= Over
  /\ \A k \in Keys : store[k].at <= Over

\* The table is empty until it has its slots.
Tables ==
  /\ IsFiniteSet(DOMAIN map)
  /\ created = "no" => DOMAIN map = {}
  /\ created = "zero" => DOMAIN map = {}

\* No key is twice on the list.
Unrepeated(list) == \A i, j \in DOMAIN list : list[i] = list[j] => i = j

\* The list of p: the keys p knows in the order of their stores, the last first,
\* among keys that the table lost or that others stored anew.
Listed(p) ==
  /\ pc[p] = "down" => lruMem[p] = << >>
  /\ p \in Eliminating /\ pc[p] # "down" => Knows(p) \subseteq ToSet(lruMem[p])
  /\ Unrepeated(lruMem[p])
  /\ \A i, j \in DOMAIN lruMem[p] :
       i < j /\ lruMem[p][i] \in Knows(p) /\ lruMem[p][j] \in Knows(p)
         => StoredAt(p, lruMem[p][j]) <= StoredAt(p, lruMem[p][i])

\* A process that evicts does so because its value does not fit.
Refused(p) == pc[p] = "evict" => Blocks[val[p]] + Table!Used(map) > maxslots

\* The invariant.
MInv ==
  /\ TypeOK /\ Sets /\ OneSet /\ Dated /\ Tables
  /\ \A p \in Procs : Listed(p) /\ Refused(p)

-------------------------------------------------------------------------------
(* Lists and tables.                                                       *)

\* Pushing to the front, and erasing: s with k before it, and without its n-th key.
IsPushed(s, k, t) ==
  /\ t \in Seq(Keys) /\ Len(t) = Len(s) + 1 /\ t[1] = k
  /\ \A i \in 1..Len(s) : t[i + 1] = s[i]

\* r is s without its element at n.
IsDropped(s, n, r) ==
  /\ r \in Seq(Keys) /\ Len(r) = Len(s) - 1
  /\ \A i \in 1..(Len(s) - 1) : r[i] = IF i < n THEN s[i] ELSE s[i + 1]

\* What a key put in front of a list gives: the key first, the others behind it in
\* their order.
LEMMA Pushed ==
  ASSUME NEW s \in Seq(Keys), NEW k \in Keys
  PROVE  IsPushed(s, k, <<k>> \o s)
<1>t. PICK t : t = <<k>> \o s
  OBVIOUS
<1>1. <<k>> \in Seq(Keys) /\ Len(<<k>>) = 1 /\ <<k>>[1] = k
  OBVIOUS
<1>2. Len(s) \in Nat
  BY LenProperties
<1>3. /\ t \in Seq(Keys) /\ Len(t) = Len(<<k>>) + Len(s)
      /\ \A i \in 1..(Len(<<k>>) + Len(s)) :
           t[i] = IF i <= Len(<<k>>) THEN <<k>>[i] ELSE s[i - Len(<<k>>)]
  BY <1>t, <1>1, ConcatProperties
<1>4. Len(t) = Len(s) + 1
  BY <1>1, <1>2, <1>3
<1>5. \A i \in 1..(Len(s) + 1) : t[i] = IF i <= 1 THEN k ELSE s[i - 1]
  BY <1>1, <1>2, <1>3
<1>6. t[1] = k /\ \A i \in 1..Len(s) : t[i + 1] = s[i]
  BY <1>2, <1>5
<1>7. QED BY <1>t, <1>3, <1>4, <1>6 DEF IsPushed

\* What RemoveAt gives: the list without the element at n, in the same order.
LEMMA Dropped ==
  ASSUME NEW s \in Seq(Keys), NEW n \in 1..Len(s)
  PROVE  IsDropped(s, n, RemoveAt(s, n))
<1>r. PICK r : r = RemoveAt(s, n)
  OBVIOUS
<1> DEFINE b == SubSeq(s, 1, n - 1)
           e == SubSeq(s, n + 1, Len(s))
<1>1. Len(s) \in Nat /\ n \in Nat /\ 1 <= n /\ n <= Len(s)
      /\ \A i \in 1..Len(s) : s[i] \in Keys
  BY LenProperties, ElementOfSeq
<1>2. /\ b \in Seq(Keys) /\ Len(b) = n - 1
      /\ \A i \in 1..(n - 1) : b[i] = s[i]
  <2>1. \A i \in 1..(n - 1) : s[i] \in Keys
    BY <1>1
  <2>2. /\ b \in Seq(Keys) /\ Len(b) = IF 1 <= n - 1 THEN (n - 1) - 1 + 1 ELSE 0
        /\ \A i \in 1..((n - 1) - 1 + 1) : b[i] = s[1 + i - 1]
    BY <1>1, <2>1, SubSeqProperties
  <2> HIDE DEF b
  <2>3. QED BY <1>1, <2>2
<1>3. /\ e \in Seq(Keys) /\ Len(e) = Len(s) - n
      /\ \A i \in 1..(Len(s) - n) : e[i] = s[n + i]
  <2>1. \A i \in (n + 1)..Len(s) : s[i] \in Keys
    BY <1>1
  <2>2. /\ e \in Seq(Keys)
        /\ Len(e) = IF n + 1 <= Len(s) THEN Len(s) - (n + 1) + 1 ELSE 0
        /\ \A i \in 1..(Len(s) - (n + 1) + 1) : e[i] = s[(n + 1) + i - 1]
    BY <1>1, <2>1, SubSeqProperties
  <2> HIDE DEF e
  <2>3. QED BY <1>1, <2>2
<1>4. r = b \o e
  BY <1>r DEF RemoveAt
<1> HIDE DEF b, e
<1>5. /\ r \in Seq(Keys) /\ Len(r) = Len(b) + Len(e)
      /\ \A i \in 1..(Len(b) + Len(e)) :
           r[i] = IF i <= Len(b) THEN b[i] ELSE e[i - Len(b)]
  <2>1. b \in Seq(Keys) /\ e \in Seq(Keys)
    BY <1>2, <1>3
  <2>2. /\ b \o e \in Seq(Keys) /\ Len(b \o e) = Len(b) + Len(e)
        /\ \A i \in 1..(Len(b) + Len(e)) :
             (b \o e)[i] = IF i <= Len(b) THEN b[i] ELSE e[i - Len(b)]
    BY ONLY <2>1, ConcatProperties, Zenon
  <2>3. QED BY <1>4, <2>2
<1>6. PICK l \in Nat : l = Len(s)
  BY <1>1
<1>7. Len(b) + Len(e) = l - 1 /\ Len(b) = n - 1
  BY <1>1, <1>2, <1>3, <1>6
<1>8. /\ r \in Seq(Keys) /\ Len(r) = l - 1
      /\ \A i \in 1..(l - 1) : r[i] = IF i <= n - 1 THEN b[i] ELSE e[i - (n - 1)]
  BY <1>5, <1>7
<1>9. /\ \A i \in 1..(n - 1) : b[i] = s[i]
      /\ \A i \in 1..(l - n) : e[i] = s[n + i]
  BY <1>2, <1>3, <1>6
<1>10. ASSUME NEW i \in 1..(l - 1) PROVE r[i] = IF i < n THEN s[i] ELSE s[i + 1]
  <2>1. n \in 1..l
    BY <1>6
  <2>2. CASE i < n
    BY <1>8, <1>9, <2>1, <2>2
  <2>3. CASE n <= i
    <3>1. r[i] = e[i - (n - 1)] /\ i - (n - 1) \in 1..(l - n)
      BY <1>8, <2>1, <2>3
    <3>2. e[i - (n - 1)] = s[n + (i - (n - 1))] /\ n + (i - (n - 1)) = i + 1
      BY <1>9, <2>1, <3>1
    <3>3. QED BY <2>1, <2>3, <3>1, <3>2
  <2>4. QED BY <2>1, <2>2, <2>3
<1>11. QED BY <1>r, <1>6, <1>8, <1>10 DEF IsDropped

\* t has k in front, once, and the others of s in their order.
Fronted(s, k, t) ==
  /\ 1 \in DOMAIN t /\ t[1] = k
  /\ ToSet(t) = ToSet(s) \cup {k}
  /\ Unrepeated(t)
  /\ \A i, j \in DOMAIN t : 1 < i /\ i < j =>
       \E x, y \in DOMAIN s : x < y /\ t[i] = s[x] /\ t[j] = s[y]
  /\ \A i \in DOMAIN t : i # 1 => (1 < i /\ t[i] # k)

\* A key that was not in the list.
LEMMA FrontedNew ==
  ASSUME NEW s, NEW k, NEW t, NEW l \in Nat,
         DOMAIN s = 1..l, DOMAIN t = 1..(l + 1), t[1] = k,
         \A i \in 1..l : t[i + 1] = s[i] /\ s[i] # k, Unrepeated(s)
  PROVE  Fronted(s, k, t)
<1>1. ASSUME NEW i \in 1..(l + 1), i > 1
      PROVE  i - 1 \in 1..l /\ t[i] = s[i - 1] /\ t[i] # k
  <2>1. i - 1 \in 1..l /\ (i - 1) + 1 = i
    BY <1>1
  <2>2. t[(i - 1) + 1] = s[i - 1] /\ s[i - 1] # k
    BY <2>1
  <2>3. QED BY <2>1, <2>2
<1>2. ToSet(t) = ToSet(s) \cup {k}
  <2>1. \A x \in ToSet(t) : x \in ToSet(s) \cup {k}
    BY <1>1 DEF ToSet
  <2>2. ASSUME NEW i \in 1..l PROVE s[i] \in ToSet(t)
    <3>1. i + 1 \in DOMAIN t /\ t[i + 1] = s[i]
      OBVIOUS
    <3>2. QED BY <3>1 DEF ToSet
  <2>3. k \in ToSet(t)
    BY DEF ToSet
  <2>4. QED BY <2>1, <2>2, <2>3, ZenonT(60) DEF ToSet
<1>3. ASSUME NEW i \in 1..(l + 1), NEW j \in 1..(l + 1), 1 < i, i < j
      PROVE  /\ i - 1 \in 1..l /\ j - 1 \in 1..l /\ i - 1 < j - 1
             /\ t[i] = s[i - 1] /\ t[j] = s[j - 1]
  BY <1>1, <1>3
<1>4. \A i, j \in 1..(l + 1) : i < j => t[i] # t[j]
  <2>1. ASSUME NEW i \in 1..(l + 1), NEW j \in 1..(l + 1), 1 < i, i < j
        PROVE  t[i] # t[j]
    <3>1. /\ i - 1 \in 1..l /\ j - 1 \in 1..l /\ i - 1 # j - 1
          /\ t[i] = s[i - 1] /\ t[j] = s[j - 1]
      BY <1>3, <2>1
    <3>2. QED BY <3>1 DEF Unrepeated
  <2>2. ASSUME NEW j \in 1..(l + 1), 1 < j PROVE t[1] # t[j]
    BY <1>1, <2>2
  <2>3. QED BY <2>1, <2>2
<1>5. Unrepeated(t)
  BY <1>4 DEF Unrepeated
<1>6. ASSUME NEW i \in 1..(l + 1), NEW j \in 1..(l + 1), 1 < i, i < j
      PROVE  \E x, y \in DOMAIN s : x < y /\ t[i] = s[x] /\ t[j] = s[y]
  <2>1. PICK x \in 1..l, y \in 1..l : x = i - 1 /\ y = j - 1
    BY <1>3, <1>6
  <2>2. x < y /\ t[i] = s[x] /\ t[j] = s[y]
    BY <1>3, <1>6, <2>1
  <2>3. QED BY <2>2
<1>7. \A i \in DOMAIN t : i # 1 => (1 < i /\ t[i] # k)
  BY <1>1
<1>8. QED BY <1>2, <1>5, <1>6, <1>7 DEF Fronted

\* A key that was, at place n.
LEMMA FrontedOld ==
  ASSUME NEW s, NEW k, NEW t, NEW l \in Nat, NEW n \in 1..l,
         DOMAIN s = 1..l, DOMAIN t = 1..l, t[1] = k, s[n] = k,
         \A i \in 1..(l - 1) : t[i + 1] = IF i < n THEN s[i] ELSE s[i + 1], Unrepeated(s)
  PROVE  Fronted(s, k, t)
<1> DEFINE at(i) == IF i <= n THEN i - 1 ELSE i
<1>1. ASSUME NEW i \in 1..l, i > 1
      PROVE  at(i) \in 1..l /\ at(i) # n /\ t[i] = s[at(i)] /\ t[i] # k
  <2>1. i - 1 \in 1..(l - 1) /\ (i - 1) + 1 = i
    BY <1>1
  <2>2. t[(i - 1) + 1] = IF i - 1 < n THEN s[i - 1] ELSE s[(i - 1) + 1]
    BY <2>1
  <2>3. at(i) \in 1..l /\ at(i) # n /\ t[i] = s[at(i)]
    BY <1>1, <2>1, <2>2
  <2>4. QED BY <2>3 DEF Unrepeated
<1>2. ToSet(t) = ToSet(s) \cup {k}
  <2>1. \A x \in ToSet(t) : x \in ToSet(s) \cup {k}
    <3>1. \A i \in 1..l : i = 1 \/ i > 1
      OBVIOUS
    <3>2. ASSUME NEW i \in 1..l PROVE t[i] \in ToSet(s) \cup {k}
      <4> HIDE DEF at
      <4>1. QED BY <1>1, <3>1 DEF ToSet
    <3>3. QED BY <3>2 DEF ToSet
  <2>2. ASSUME NEW i \in 1..l PROVE s[i] \in ToSet(t)
    <3>1. CASE i = n
      BY <3>1 DEF ToSet
    <3>2. CASE i < n
      <4>1. i + 1 \in 1..l /\ i + 1 > 1 /\ at(i + 1) = i
        BY <3>2
      <4>2. t[i + 1] = s[i]
        BY <1>1, <4>1
      <4>3. QED BY <4>1, <4>2 DEF ToSet
    <3>3. CASE i > n
      <4>1. i > 1 /\ at(i) = i
        BY <3>3
      <4>2. t[i] = s[i]
        BY <1>1, <4>1
      <4>3. QED BY <4>2 DEF ToSet
    <3>4. QED BY <3>1, <3>2, <3>3
  <2>3. k \in ToSet(t)
    BY DEF ToSet
  <2>4. QED BY <2>1, <2>2, <2>3 DEF ToSet
<1>3. \A i, j \in 1..l : 1 < i /\ i < j => at(i) < at(j)
  OBVIOUS
<1> HIDE DEF at
<1>4. \A i, j \in 1..l : i < j => t[i] # t[j]
  <2>1. ASSUME NEW i \in 1..l, NEW j \in 1..l, 1 < i, i < j PROVE t[i] # t[j]
    <3>1. /\ at(i) \in 1..l /\ at(j) \in 1..l /\ at(i) # at(j)
          /\ t[i] = s[at(i)] /\ t[j] = s[at(j)]
      BY <1>1, <1>3, <2>1
    <3>2. QED BY <3>1 DEF Unrepeated
  <2>2. ASSUME NEW j \in 1..l, 1 < j PROVE t[1] # t[j]
    BY <1>1, <2>2
  <2>3. QED BY <2>1, <2>2
<1>5. Unrepeated(t)
  BY <1>4 DEF Unrepeated
<1>6. ASSUME NEW i \in 1..l, NEW j \in 1..l, 1 < i, i < j
      PROVE  \E x, y \in DOMAIN s : x < y /\ t[i] = s[x] /\ t[j] = s[y]
  <2>1. at(i) \in 1..l /\ at(j) \in 1..l /\ at(i) < at(j)
        /\ t[i] = s[at(i)] /\ t[j] = s[at(j)]
    BY <1>1, <1>3, <1>6
  <2>2. QED BY <2>1
<1>7. \A i \in DOMAIN t : i # 1 => (1 < i /\ t[i] # k)
  BY <1>1
<1>8. 1 \in DOMAIN t
  OBVIOUS
<1>9. QED BY <1>2, <1>5, <1>6, <1>7, <1>8 DEF Fronted

\* visitKey puts k in front, once, and keeps the others in their order.
LEMMA Visited ==
  ASSUME NEW s \in Seq(Keys), NEW k \in Keys, Unrepeated(s)
  PROVE  <<k>> \o Erased(s, k) \in Seq(Keys) /\ Fronted(s, k, <<k>> \o Erased(s, k))
<1>l. PICK l \in Nat : l = Len(s) /\ DOMAIN s = 1..l
  BY LenProperties
<1>1. CASE k \notin ToSet(s)
  <2>1. PICK t : t = <<k>> \o s
    OBVIOUS
  <2>2. IsPushed(s, k, t)
    BY <2>1, Pushed
  <2>3. /\ t \in Seq(Keys) /\ Len(t) = l + 1 /\ t[1] = k
        /\ \A i \in 1..l : t[i + 1] = s[i]
    BY <1>l, <2>2 DEF IsPushed
  <2>4. DOMAIN t = 1..(l + 1)
    BY <2>3, LenProperties
  <2>5. \A i \in 1..l : s[i] # k
    BY <1>l, <1>1 DEF ToSet
  <2>6. Fronted(s, k, t)
    BY <1>l, <2>3, <2>4, <2>5, FrontedNew
  <2>7. Erased(s, k) = s
    BY <1>1 DEF Erased
  <2>8. QED BY <2>1, <2>3, <2>6, <2>7
<1>2. CASE k \in ToSet(s)
  <2>1. PICK n : n = keyToIter(s, k)
    OBVIOUS
  <2>2. n \in 1..l /\ s[n] = k
    BY <1>l, <1>2, <2>1 DEF keyToIter, ToSet
  <2>3. PICK r : r = RemoveAt(s, n)
    OBVIOUS
  <2>4. IsDropped(s, n, r)
    BY <1>l, <2>2, <2>3, Dropped
  <2>5. /\ r \in Seq(Keys) /\ Len(r) = l - 1
        /\ \A i \in 1..(l - 1) : r[i] = IF i < n THEN s[i] ELSE s[i + 1]
    BY <1>l, <2>4 DEF IsDropped
  <2>6. PICK t : t = <<k>> \o r
    OBVIOUS
  <2>7. IsPushed(r, k, t)
    BY <2>5, <2>6, Pushed
  <2>8. /\ t \in Seq(Keys) /\ Len(t) = (l - 1) + 1 /\ t[1] = k
        /\ \A i \in 1..(l - 1) : t[i + 1] = r[i]
    BY <2>5, <2>7 DEF IsPushed
  <2>9. DOMAIN t = 1..l
    BY <2>8, LenProperties
  <2>10. \A i \in 1..(l - 1) : t[i + 1] = IF i < n THEN s[i] ELSE s[i + 1]
    BY <2>5, <2>8
  <2>11. Fronted(s, k, t)
    BY <1>l, <2>2, <2>8, <2>9, <2>10, FrontedOld
  <2>12. Erased(s, k) = r
    BY <1>2, <2>1, <2>3 DEF Erased
  <2>13. QED BY <2>6, <2>8, <2>11, <2>12
<1>3. QED BY <1>1, <1>2

\* removeKey takes the last key away.
LEMMA Removed ==
  ASSUME NEW s \in Seq(Keys), s # << >>
  PROVE  /\ Last(s) \in Keys /\ Front(s) \in Seq(Keys)
         /\ Len(s) \in DOMAIN s /\ Last(s) = s[Len(s)]
         /\ DOMAIN Front(s) = 1..(Len(s) - 1)
         /\ \A i \in DOMAIN Front(s) : i \in DOMAIN s /\ i < Len(s) /\ Front(s)[i] = s[i]
         /\ \A i \in DOMAIN s : i = Len(s) \/ i \in DOMAIN Front(s)
BY DEF Last, Front

\* initLruMem lists every key of the table, once.
LEMMA ListOfSet ==
  ASSUME NEW D, IsFiniteSet(D), NEW s \in SetToSeqs(D)
  PROVE  s \in Seq(D) /\ ToSet(s) = D /\ Unrepeated(s)
<1> DEFINE n == Cardinality(D)
<1>1. n \in Nat /\ IsFiniteSet(1..n) /\ Cardinality(1..n) = n
  BY FS_CardinalityType, FS_Interval
<1>2. s \in [1..n -> D] /\ \A i, j \in 1..n : i # j => s[i] # s[j]
  BY DEF SetToSeqs
<1> HIDE DEF n
<1>3. s \in Injection(1..n, D)
  BY <1>2 DEF Injection, IsInjective
<1>4. s \in Surjection(1..n, D)
  BY <1>1, <1>3, FS_Injection DEF n
<1>5. ToSet(s) = D
  BY <1>2, <1>4 DEF Surjection, ToSet
<1>6. s \in Seq(D)
  BY <1>1, <1>2
<1>7. QED BY <1>2, <1>5, <1>6 DEF Unrepeated

-------------------------------------------------------------------------------
(* The slots that the table's values take.                                 *)

\* Used is the sum that SumLemmas speaks of, over the keys of a table.
LEMMA UsedIs ==
  ASSUME NEW m
  PROVE  Table!Used(m) = SumFunctionOnSet([k \in DOMAIN m |-> Blocks[m[k]]], DOMAIN m)
<1>1. DOMAIN [k \in DOMAIN m |-> Blocks[m[k]]] = DOMAIN m
  OBVIOUS
<1>2. Table!Used(m) = SumFunctionOnSet([k \in DOMAIN m |-> Blocks[m[k]]],
                                       DOMAIN [k \in DOMAIN m |-> Blocks[m[k]]])
  BY DEF Table!Used, Table!SumFunction, Table!SumFunctionOnSet, Table!FoldFunctionOnSet,
         Table!MapThenFoldSet, SumFunctionOnSet, FoldFunctionOnSet, MapThenFoldSet
<1>3. QED BY <1>1, <1>2

\* A finite table takes a natural number of slots.
LEMMA UsedType ==
  ASSUME TypeOK, Tables
  PROVE  Table!Used(map) \in Nat
<1> DEFINE f == [k \in DOMAIN map |-> Blocks[map[k]]]
<1>1. \A k \in DOMAIN map : f[k] \in Nat
  BY WrapperAssumption DEF TypeOK
<1>2. IsFiniteSet(DOMAIN map)
  BY DEF Tables
<1>3. SumFunctionOnSet(f, DOMAIN map) \in Nat
  <2> HIDE DEF f
  <2>1. QED BY <1>1, <1>2, SumType
<1>4. QED BY <1>3, UsedIs

-------------------------------------------------------------------------------
(* Types.                                                                  *)

\* The initial state is well formed.
LEMMA InitTypeOK == Init => TypeOK
<1> SUFFICES ASSUME Init PROVE TypeOK
  OBVIOUS
<1>1. map \in [DOMAIN map -> Values] /\ DOMAIN map = {}
  BY DEF Init, Table!Init
<1>2. NeverStored \in [by : Procs \cup {None}, at : 0..MaxOps]
  BY WrapperAssumption DEF NeverStored
<1>3. QED BY <1>1, <1>2, WrapperAssumption DEF Init, TypeOK, Outcomes

\* What goes into the table and what comes out.
LEMMA TableTypes ==
  ASSUME TypeOK, NEW k \in Keys, NEW v \in Values
  PROVE  /\ Table!With(k, v) \in [DOMAIN map \cup {k} -> Values]
         /\ DOMAIN Table!With(k, v) = DOMAIN map \cup {k}
         /\ Table!Without(k) \in [DOMAIN map \ {k} -> Values]
         /\ DOMAIN Table!Without(k) = DOMAIN map \ {k}
         /\ \A x \in DOMAIN map \ {k} : Table!With(k, v)[x] = map[x] /\ Table!Without(k)[x] = map[x]
<1>1. map \in [DOMAIN map -> Values]
  BY DEF TypeOK
<1>2. /\ Table!With(k, v) \in [DOMAIN map \cup {k} -> Values]
      /\ DOMAIN Table!With(k, v) = DOMAIN map \cup {k}
      /\ \A x \in DOMAIN map \ {k} : Table!With(k, v)[x] = map[x]
  BY <1>1 DEF Table!With
<1>3. /\ Table!Without(k) \in [DOMAIN map \ {k} -> Values]
      /\ DOMAIN Table!Without(k) = DOMAIN map \ {k}
      /\ \A x \in DOMAIN map \ {k} : Table!Without(k)[x] = map[x]
  BY <1>1 DEF Table!Without, Table!Restrict
<1>4. QED BY <1>2, <1>3

\* A value takes its slots wherever it goes.
LEMMA UsedWith ==
  ASSUME TypeOK, Tables, NEW k \in Keys, NEW v \in Values
  PROVE  Table!Used(Table!With(k, v)) = Blocks[v] + Table!Used(Table!Without(k))
<1>1. PICK m, n : m = Table!With(k, v) /\ n = Table!Without(k)
  OBVIOUS
<1>2. /\ DOMAIN m = DOMAIN map \cup {k} /\ DOMAIN n = DOMAIN map \ {k}
      /\ \A x \in DOMAIN map \ {k} : m[x] = map[x] /\ n[x] = map[x]
      /\ m[k] = v /\ \A x \in DOMAIN m : m[x] \in Values
  <2>1. m[k] = v
    BY <1>1 DEF Table!With
  <2>2. QED BY <1>1, <2>1, TableTypes
<1> DEFINE f == [x \in DOMAIN m |-> Blocks[m[x]]]
           g == [x \in DOMAIN n |-> Blocks[n[x]]]
<1>3. /\ f[k] = Blocks[v] /\ \A x \in DOMAIN m : f[x] \in Nat
      /\ \A x \in DOMAIN n : f[x] = g[x]
  BY <1>2, WrapperAssumption
<1>4. /\ IsFiniteSet(DOMAIN m) /\ IsFiniteSet(DOMAIN n) /\ k \in DOMAIN m
      /\ DOMAIN m \ {k} = DOMAIN n
  BY <1>2, FS_AddElement, FS_RemoveElement DEF Tables
<1>5. Table!Used(m) = SumFunctionOnSet(f, DOMAIN m) /\ Table!Used(n) = SumFunctionOnSet(g, DOMAIN n)
  BY UsedIs
<1> HIDE DEF f, g
<1>6. SumFunctionOnSet(f, DOMAIN m) = f[k] + SumFunctionOnSet(f, DOMAIN m \ {k})
  BY <1>3, <1>4, SumTakesAny
<1>7. SumFunctionOnSet(f, DOMAIN n) = SumFunctionOnSet(g, DOMAIN n)
  BY <1>3, <1>4, SumOfSame
<1>8. QED BY <1>1, <1>3, <1>4, <1>5, <1>6, <1>7

\* The history of the stores stays well formed.
LEMMA StoreTypes ==
  ASSUME TypeOK, StoresKept
  PROVE  /\ store' \in [Keys -> [by : Procs \cup {None}, at : 0..MaxOps]]
         /\ \A k \in Keys : IF k \in DOMAIN map' THEN store'[k] = store[k] ELSE store'[k] = NeverStored
<1>1. NeverStored \in [by : Procs \cup {None}, at : 0..MaxOps]
  BY WrapperAssumption DEF NeverStored
<1>2. QED BY <1>1 DEF TypeOK, StoresKept

-------------------------------------------------------------------------------
(* What a step of process p leaves alone.                                  *)

\* A step of p changes the list, the call and the clock of no other process.
OnlyP(p) ==
  \A q \in Procs \ {p} :
    /\ pc'[q] = pc[q] /\ key'[q] = key[q] /\ val'[q] = val[q]
    /\ lruMem'[q] = lruMem[q] /\ since'[q] = since[q]

\* A table that only loses keys, and a list that stays.
LEMMA ListKept ==
  ASSUME MInv, NEW q \in Procs,
         DOMAIN map' \subseteq DOMAIN map,
         \A k \in DOMAIN map' : store'[k] = store[k],
         since'[q] = since[q], lruMem'[q] = lruMem[q],
         pc'[q] = "down" => pc[q] = "down",
         pc[q] = "down" /\ pc'[q] # "down" => DOMAIN map = {}
  PROVE  Listed(q)'
<1>1. Listed(q)
  BY DEF MInv
<1>2. \A k \in Knows(q)' : k \in Knows(q) /\ StoredAt(q, k)' = StoredAt(q, k)
  BY DEF Knows, StoredAt
<1>3. pc[q] = "down" /\ pc'[q] # "down" => Knows(q)' = {}
  BY DEF Knows
<1>4. Unrepeated(lruMem[q])' /\ (pc'[q] = "down" => lruMem'[q] = << >>)
  BY <1>1 DEF Listed, Unrepeated
<1>5. q \in Eliminating /\ pc'[q] # "down" => Knows(q)' \subseteq ToSet(lruMem'[q])
  BY <1>1, <1>2, <1>3 DEF Listed
<1>6. ASSUME NEW i \in DOMAIN lruMem'[q], NEW j \in DOMAIN lruMem'[q], i < j,
             lruMem'[q][i] \in Knows(q)', lruMem'[q][j] \in Knows(q)'
      PROVE  (StoredAt(q, lruMem[q][j]) <= StoredAt(q, lruMem[q][i]))'
  <2>1. PICK x, y : x = lruMem[q][i] /\ y = lruMem[q][j]
    OBVIOUS
  <2>2. x \in Knows(q)' /\ y \in Knows(q)' /\ i \in DOMAIN lruMem[q] /\ j \in DOMAIN lruMem[q]
    BY <1>6, <2>1
  <2>3. StoredAt(q, y) <= StoredAt(q, x)
    BY <1>1, <1>2, <1>6, <2>1, <2>2 DEF Listed
  <2>4. StoredAt(q, y)' = StoredAt(q, y) /\ StoredAt(q, x)' = StoredAt(q, x)
    BY <1>2, <2>2
  <2>5. StoredAt(q, y)' <= StoredAt(q, x)'
    BY <2>3, <2>4
  <2>6. QED BY <2>1, <2>5 DEF StoredAt
<1>7. QED BY <1>4, <1>5, <1>6 DEF Listed

\* A step keeps the invariant if it keeps what concerns p itself and the table.
LEMMA FrameStep ==
  ASSUME MInv, TypeOK', NEW p \in Procs, OnlyP(p),
         Over <= Over', since'[p] <= Over', \A k \in Keys : store'[k].at <= Over',
         map' = map \/ \A q \in Procs \ {p} : ~InSet(q),
         InSet(p)' => InSet(p) \/ \A q \in Procs \ {p} : ~InSet(q),
         InSet(p)' => key'[p] \in Keys /\ val'[p] \in Values,
         pc'[p] = "evict" => p \in Eliminating,
         Tables', \A q \in Procs : Listed(q)', Refused(p)'
  PROVE  MInv'
<1>1. Sets'
  BY DEF MInv, Sets, OnlyP, InSet
<1>2. OneSet'
  <2>1. ASSUME NEW q \in Procs \ {p}, NEW r \in Procs \ {p}, InSet(q)', InSet(r)'
        PROVE  q = r
    BY <2>1 DEF MInv, OneSet, OnlyP, InSet
  <2>2. ASSUME NEW q \in Procs \ {p}, InSet(q)', InSet(p)' PROVE FALSE
    BY <2>2 DEF MInv, OneSet, OnlyP, InSet
  <2>3. QED BY <2>1, <2>2 DEF OneSet
<1>3. Dated'
  <2>1. ASSUME NEW q \in Procs \ {p} PROVE since'[q] <= Over'
    <3>1. since'[q] = since[q] /\ since[q] <= Over
      BY DEF OnlyP, MInv, Dated
    <3>2. since[q] \in Int /\ Over \in Int /\ Over' \in Int
      <4>1. since[q] \in Int /\ ops \in Int /\ ops' \in Int
        BY WrapperAssumption DEF MInv, TypeOK
      <4>2. QED BY <4>1 DEF Over
    <3>3. QED BY <3>1, <3>2
  <2>2. QED BY <2>1 DEF Dated
<1>4. ASSUME NEW q \in Procs \ {p} PROVE Refused(q)'
  <2>1. Refused(q) /\ pc'[q] = pc[q] /\ val'[q] = val[q]
    BY DEF MInv, OnlyP
  <2>2. CASE map' = map
    BY <2>1, <2>2 DEF Refused, Table!Used
  <2>3. CASE ~InSet(q)
    BY <2>1, <2>3 DEF Refused, InSet
  <2>4. QED BY <2>2, <2>3
<1>5. QED BY <1>1, <1>2, <1>3, <1>4 DEF MInv

\* How the history's clock moves: a call that ends is over, one that begins is not.
LEMMA Clock ==
  ASSUME MInv, TypeOK', NEW p \in Procs, OnlyP(p)
  PROVE  /\ \A q \in Procs : since[q] <= Over
         /\ Over \in Nat /\ Over' \in Int /\ ops \in Nat /\ ops' \in Nat
         /\ InSet(p) => Over = ops - 1 /\ \A q \in Procs \ {p} : ~InSet(q)
         /\ ops' = ops /\ (InSet(p)' => InSet(p)) => Over <= Over'
         /\ ops' = ops + 1 => Over <= Over'
         /\ InSet(p) /\ ~InSet(p)' /\ ops' = ops => Over' = ops
<1>1. \A q \in Procs : since[q] <= Over
  BY DEF MInv, Dated
<1>2. ops \in Nat /\ ops' \in Nat /\ since[p] \in Nat
  BY WrapperAssumption DEF MInv, TypeOK
<1>3. Over \in Int /\ Over' \in Int /\ Over \in {ops - 1, ops} /\ Over' \in {ops' - 1, ops'}
  BY <1>2 DEF Over
<1>4. Over \in Nat
  BY <1>1, <1>2, <1>3
<1>5. ASSUME InSet(p) PROVE Over = ops - 1 /\ \A q \in Procs \ {p} : ~InSet(q)
  BY <1>5 DEF Over, MInv, OneSet
<1>6. ASSUME ops' = ops, InSet(p)' => InSet(p) PROVE Over <= Over'
  <2>1. (\E q \in Procs : InSet(q)') => \E q \in Procs : InSet(q)
    BY <1>6 DEF OnlyP, InSet
  <2>2. QED BY <1>2, <1>6, <2>1 DEF Over
<1>7. ASSUME InSet(p), ~InSet(p)', ops' = ops PROVE Over' = ops
  <2>1. ~\E q \in Procs : InSet(q)'
    BY <1>5, <1>7 DEF OnlyP, InSet
  <2>2. QED BY <1>7, <2>1 DEF Over
<1>8. ops' = ops + 1 => Over <= Over'
  BY <1>2, <1>3
<1>9. QED BY <1>1, <1>2, <1>3, <1>4, <1>5, <1>6, <1>7, <1>8

\* What the model's own steps to another label do.
LEMMA Moves ==
  ASSUME TypeOK, NEW p \in Procs, NEW l, Goto(p, l)
  PROVE  pc'[p] = l /\ \A q \in Procs \ {p} : pc'[q] = pc[q]
BY DEF TypeOK, Goto

\* What a set that ends leaves of its call.
LEMMA Returns ==
  ASSUME TypeOK, NEW p \in Procs, NEW err, Return(p, err)
  PROVE  /\ pc'[p] = "idle" /\ reply' = err /\ key'[p] = None /\ val'[p] = None
         /\ \A q \in Procs \ {p} : pc'[q] = pc[q] /\ key'[q] = key[q] /\ val'[q] = val[q]
         /\ pc' \in [Procs -> {"down", "create", "idle", "put", "evict"}]
         /\ key' \in [Procs -> Keys \cup {None}] /\ val' \in [Procs -> Values \cup {None}]
BY DEF TypeOK, Return, Goto

-------------------------------------------------------------------------------
(* The actions, one by one.                                                *)

\* The segment is new and the table in it empty: the creator's empty list is right.
LEMMA CreateInv ==
  ASSUME MInv, NEW p \in Procs, Create(p) PROVE MInv'
<1>1. TypeOK
  BY DEF MInv
<1>2. /\ pc[p] = "down" /\ pc'[p] = "create" /\ OnlyP(p)
      /\ UNCHANGED <<map, lruMem, key, val, store, since, ops>>
      /\ created = "no" /\ created' = "zero"
  BY <1>1, Moves DEF Create, OnlyP, call
<1>3. TypeOK'
  BY <1>1 DEF Create, TypeOK, Goto, call
<1>4. /\ ~InSet(p) /\ ~InSet(p)' /\ pc'[p] # "evict"
  BY <1>2 DEF InSet
<1>5. DOMAIN map = {} /\ Tables'
  BY <1>2 DEF MInv, Tables
<1>6. ASSUME NEW q \in Procs PROVE Listed(q)'
  BY <1>2, <1>5, ListKept DEF OnlyP
<1>7. Over' = Over
  BY <1>2, <1>4 DEF Over, OnlyP, InSet
<1>8. Over <= Over' /\ since'[p] <= Over' /\ \A k \in Keys : store'[k].at <= Over'
  BY <1>2, <1>3, <1>7, Clock DEF MInv, Dated
<1>9. Refused(p)'
  BY <1>2 DEF Refused
<1>10. QED BY <1>2, <1>3, <1>4, <1>5, <1>6, <1>8, <1>9, FrameStep

\* The table gets its slots.
LEMMA PublishInv ==
  ASSUME MInv, NEW p \in Procs, Publish(p) PROVE MInv'
<1>1. TypeOK
  BY DEF MInv
<1>2. /\ pc[p] = "create" /\ pc'[p] = "idle" /\ OnlyP(p)
      /\ UNCHANGED <<map, lruMem, store, since, ops>> /\ created' = "yes"
  BY <1>1, Returns DEF Publish, OnlyP
<1>3. TypeOK'
  BY <1>1, Returns DEF Publish, TypeOK, Outcomes
<1>4. ~InSet(p) /\ ~InSet(p)' /\ pc'[p] # "evict" /\ Tables'
  BY <1>2 DEF InSet, MInv, Tables
<1>5. ASSUME NEW q \in Procs PROVE Listed(q)'
  BY <1>2, ListKept DEF OnlyP
<1>6. Over <= Over' /\ since'[p] <= Over' /\ \A k \in Keys : store'[k].at <= Over'
  <2>1. Over' = Over
    BY <1>2, <1>4 DEF Over, OnlyP, InSet
  <2>2. QED BY <1>2, <1>3, <2>1, Clock DEF MInv, Dated
<1>7. Refused(p)'
  BY <1>2 DEF Refused
<1>8. QED BY <1>2, <1>3, <1>4, <1>5, <1>6, <1>7, FrameStep

\* What the table holds when p attaches is all older than p.
LEMMA AttachInv ==
  ASSUME MInv, NEW p \in Procs, Attach(p) PROVE MInv'
<1>1. TypeOK
  BY DEF MInv
<1>2. PICK list \in initLruMem(p) : lruMem' = [lruMem EXCEPT ![p] = list]
  BY DEF Attach
<1>3. /\ list \in Seq(Keys) /\ Unrepeated(list)
      /\ p \in Eliminating => ToSet(list) = DOMAIN map
  <2>1. CASE p \in Eliminating
    <3>1. list \in Seq(DOMAIN map) /\ ToSet(list) = DOMAIN map /\ Unrepeated(list)
      BY <2>1, ListOfSet DEF initLruMem, MInv, Tables
    <3>2. list \in Seq(Keys)
      BY <1>1, <3>1, SeqMonotonic DEF TypeOK
    <3>3. QED BY <3>1, <3>2
  <2>2. CASE p \notin Eliminating
    BY <2>2 DEF initLruMem, Unrepeated
  <2>3. QED BY <2>1, <2>2
<1>4. /\ pc[p] = "down" /\ pc'[p] = "idle" /\ OnlyP(p)
      /\ UNCHANGED <<created, map, store, ops>>
      /\ lruMem'[p] = list /\ since'[p] = Over
  BY <1>1, <1>2, Returns DEF Attach, OnlyP, TypeOK
<1>5. Over \in 0..MaxOps
  <2>1. ops \in 0..MaxOps /\ since[p] \in Nat /\ since[p] <= Over
    BY <1>1, WrapperAssumption DEF TypeOK, MInv, Dated
  <2>2. QED BY <2>1, WrapperAssumption DEF Over
<1>6. TypeOK'
  <2>1. since' \in [Procs -> 0..MaxOps]
    BY <1>1, <1>5 DEF Attach, TypeOK
  <2>2. lruMem' \in [Procs -> Seq(Keys)]
    BY <1>1, <1>2, <1>3 DEF TypeOK
  <2>3. QED BY <1>1, <2>1, <2>2, Returns DEF Attach, TypeOK, Outcomes
<1>7. ~InSet(p) /\ ~InSet(p)' /\ pc'[p] # "evict" /\ Tables'
  BY <1>4 DEF InSet, MInv, Tables
<1>8. ASSUME NEW q \in Procs \ {p} PROVE Listed(q)'
  BY <1>4, ListKept DEF OnlyP
<1>9. Listed(p)'
  <2>1. \A k \in Knows(p)' : k \in DOMAIN map /\ StoredAt(p, k)' = 0
    BY <1>1, <1>4 DEF Knows, StoredAt, MInv, Dated, TypeOK
  <2>2. ASSUME NEW i, NEW j, lruMem'[p][i] \in Knows(p)', lruMem'[p][j] \in Knows(p)'
        PROVE  (StoredAt(p, lruMem[p][j]) <= StoredAt(p, lruMem[p][i]))'
    <3>1. PICK x, y : x = lruMem'[p][i] /\ y = lruMem'[p][j]
      OBVIOUS
    <3>2. StoredAt(p, x)' = 0 /\ StoredAt(p, y)' = 0
      BY <2>1, <2>2, <3>1
    <3>3. StoredAt(p, y)' <= StoredAt(p, x)'
      BY <3>2
    <3>4. QED BY <3>1, <3>3 DEF StoredAt
  <2>3. QED BY <1>3, <1>4, <2>1, <2>2 DEF Listed
<1>10. Over' = Over
  BY <1>4, <1>7 DEF Over, OnlyP, InSet
<1>11. Over <= Over' /\ since'[p] <= Over' /\ \A k \in Keys : store'[k].at <= Over'
  BY <1>4, <1>5, <1>10 DEF MInv, Dated
<1>12. Refused(p)'
  BY <1>4 DEF Refused
<1>13. QED BY <1>4, <1>6, <1>7, <1>8, <1>9, <1>11, <1>12, FrameStep

\* The list dies with its process, the call with it.
LEMMA DieInv ==
  ASSUME MInv, NEW p \in Procs, Die(p) PROVE MInv'
<1>1. TypeOK
  BY DEF MInv
<1>2. /\ pc[p] # "down" /\ pc'[p] = "down" /\ OnlyP(p)
      /\ UNCHANGED <<created, map, store, ops>>
      /\ lruMem'[p] = << >> /\ since'[p] = 0
  BY <1>1, Moves DEF Die, OnlyP, TypeOK
<1>3. TypeOK'
  <2>1. deaths' \in 0..MaxDeaths
    BY <1>1, WrapperAssumption DEF Die, TypeOK
  <2>2. /\ lruMem' \in [Procs -> Seq(Keys)] /\ since' \in [Procs -> 0..MaxOps]
        /\ key' \in [Procs -> Keys \cup {None}] /\ val' \in [Procs -> Values \cup {None}]
        /\ pc' \in [Procs -> {"down", "create", "idle", "put", "evict"}]
    BY <1>1, WrapperAssumption DEF Die, TypeOK, Goto
  <2>3. QED BY <1>1, <2>1, <2>2 DEF Die, TypeOK, Outcomes
<1>4. ~InSet(p)' /\ pc'[p] # "evict" /\ Tables'
  BY <1>2 DEF InSet, MInv, Tables
<1>5. ASSUME NEW q \in Procs \ {p} PROVE Listed(q)'
  BY <1>2, ListKept DEF OnlyP
<1>6. Listed(p)'
  BY <1>2 DEF Listed, Unrepeated
<1>7. Over <= Over' /\ Over \in Nat /\ Over' \in Int
  BY <1>2, <1>3, <1>4, Clock
<1>8. since'[p] <= Over' /\ \A k \in Keys : store'[k].at <= Over'
  <2>1. since'[p] <= Over'
    BY <1>2, <1>7
  <2>2. ASSUME NEW k \in Keys PROVE store'[k].at <= Over'
    <3>1. store'[k].at = store[k].at /\ store[k].at \in Int /\ store[k].at <= Over
      BY <1>1, <1>2, WrapperAssumption DEF TypeOK, MInv, Dated
    <3>2. QED BY <1>7, <3>1
  <2>3. QED BY <2>1, <2>2
<1>9. Refused(p)'
  BY <1>2 DEF Refused
<1>10. QED BY <1>2, <1>3, <1>4, <1>5, <1>6, <1>7, <1>8, <1>9, FrameStep

\* A call begins when nobody else is in one.
LEMMA SetValueInv ==
  ASSUME MInv, NEW p \in Procs, NEW k \in Keys, NEW v \in Values, SetValue(p, k, v)
  PROVE  MInv'
<1>1. TypeOK
  BY DEF MInv
<1>2. /\ pc[p] = "idle" /\ OnlyP(p) /\ ops' = ops + 1 /\ pc'[p] \in {"idle", "put"}
      /\ pc'[p] = "put" => key'[p] = k /\ val'[p] = v
      /\ UNCHANGED <<created, map, store, since, lruMem>>
      /\ \A q \in Procs \ {p} : ~InSet(q)
  <2>1. CASE Return(p, "kErrSetSameValue")
    BY <1>1, <2>1, Returns DEF SetValue, Begin, OnlyP, Alone, InSet
  <2>2. CASE ~Return(p, "kErrSetSameValue")
    <3>1. Goto(p, "put")
      BY <2>2 DEF SetValue
    <3>2. pc'[p] = "put" /\ \A q \in Procs \ {p} : pc'[q] = pc[q]
      BY <1>1, <3>1, Moves
    <3>3. QED BY <1>1, <2>2, <3>2 DEF SetValue, Begin, OnlyP, Alone, InSet, TypeOK
  <2>3. QED BY <2>1, <2>2
<1>3. TypeOK'
  <2>1. ops' \in 0..MaxOps
    BY <1>1, WrapperAssumption DEF SetValue, Begin, TypeOK
  <2>2. CASE Return(p, "kErrSetSameValue")
    BY <1>1, <2>1, <2>2, Returns DEF SetValue, TypeOK, Outcomes
  <2>3. CASE ~Return(p, "kErrSetSameValue")
    BY <1>1, <2>1, <2>3, ZenonT(60) DEF SetValue, Goto, TypeOK, Outcomes
  <2>4. QED BY <2>2, <2>3
<1>4. InSet(p)' => key'[p] \in Keys /\ val'[p] \in Values
  BY <1>2 DEF InSet
<1>5. pc'[p] # "evict" /\ Tables'
  BY <1>2 DEF MInv, Tables
<1>6. ASSUME NEW q \in Procs PROVE Listed(q)'
  BY <1>2, ListKept DEF OnlyP
<1>7. Over <= Over' /\ Over \in Nat /\ Over' \in Int
  BY <1>2, <1>3, Clock
<1>8. since'[p] <= Over' /\ \A x \in Keys : store'[x].at <= Over'
  <2>1. since'[p] \in Int /\ since'[p] <= Over
    BY <1>1, <1>2, WrapperAssumption DEF TypeOK, MInv, Dated
  <2>2. ASSUME NEW x \in Keys PROVE store'[x].at <= Over'
    <3>1. store'[x].at = store[x].at /\ store[x].at \in Int /\ store[x].at <= Over
      BY <1>1, <1>2, WrapperAssumption DEF TypeOK, MInv, Dated
    <3>2. QED BY <1>7, <3>1
  <2>3. QED BY <1>7, <2>1, <2>2
<1>9. Refused(p)'
  BY <1>5 DEF Refused
<1>10. QED BY <1>2, <1>3, <1>4, <1>5, <1>6, <1>7, <1>8, <1>9, FrameStep

\* A call that does no more than lose keys of the table, or nothing at all.
LEMMA Loses ==
  ASSUME MInv, TypeOK', NEW p \in Procs, OnlyP(p),
         pc[p] # "down", pc'[p] # "down",
         \A q \in Procs \ {p} : ~InSet(q),
         ops' = ops /\ InSet(p)' => InSet(p),
         ops' \in {ops, ops + 1},
         InSet(p)' => key'[p] \in Keys /\ val'[p] \in Values,
         pc'[p] = "evict" => p \in Eliminating,
         UNCHANGED <<created, since>>,
         DOMAIN map' \subseteq DOMAIN map, StoresKept,
         Listed(p)', Refused(p)'
  PROVE  MInv'
<1>1. TypeOK
  BY DEF MInv
<1>2. \A k \in Keys : IF k \in DOMAIN map' THEN store'[k] = store[k] ELSE store'[k] = NeverStored
  BY <1>1, StoreTypes
<1>3. \A k \in DOMAIN map' : store'[k] = store[k]
  BY <1>1, <1>2 DEF TypeOK
<1>4. ASSUME NEW q \in Procs \ {p} PROVE Listed(q)'
  BY <1>3, ListKept DEF OnlyP
<1>5. Tables'
  BY FS_Subset DEF MInv, Tables
<1>6. Over <= Over' /\ Over \in Nat /\ Over' \in Int
  BY Clock
<1>7. since'[p] <= Over' /\ \A k \in Keys : store'[k].at <= Over'
  <2>1. since'[p] \in Int /\ since'[p] <= Over
    BY <1>1, WrapperAssumption DEF TypeOK, MInv, Dated
  <2>2. ASSUME NEW k \in Keys PROVE store'[k].at <= Over'
    <3>1. store[k].at \in Int /\ store[k].at <= Over
      BY <1>1, WrapperAssumption DEF TypeOK, MInv, Dated
    <3>2. store'[k].at = store[k].at \/ store'[k].at = 0
      BY <1>2 DEF NeverStored
    <3>3. QED BY <1>6, <3>1, <3>2
  <2>3. QED BY <1>6, <2>1, <2>2
<1>8. QED BY <1>4, <1>5, <1>6, <1>7, FrameStep

\* A table without slots: nothing happens.
LEMMA PutNowhereInv ==
  ASSUME MInv, NEW p \in Procs, PutNowhere(p) PROVE MInv'
<1>1. TypeOK
  BY DEF MInv
<1>2. /\ pc[p] = "put" /\ pc'[p] = "idle" /\ OnlyP(p)
      /\ UNCHANGED <<created, map, store, since, lruMem, ops>>
  BY <1>1, Returns DEF PutNowhere, OnlyP
<1>3. TypeOK'
  BY <1>1, Returns DEF PutNowhere, TypeOK, Outcomes
<1>4. ~InSet(p)' /\ pc'[p] # "evict" /\ Tables'
  BY <1>2 DEF InSet, MInv, Tables
<1>5. ASSUME NEW q \in Procs PROVE Listed(q)'
  BY <1>2, ListKept DEF OnlyP
<1>6. Over <= Over' /\ Over \in Nat /\ Over' \in Int
  BY <1>2, <1>3, <1>4, Clock
<1>7. since'[p] <= Over' /\ \A x \in Keys : store'[x].at <= Over'
  <2>1. since'[p] \in Int /\ since'[p] <= Over
    BY <1>1, <1>2, WrapperAssumption DEF TypeOK, MInv, Dated
  <2>2. ASSUME NEW x \in Keys PROVE store'[x].at <= Over'
    <3>1. store'[x].at = store[x].at /\ store[x].at \in Int /\ store[x].at <= Over
      BY <1>1, <1>2, WrapperAssumption DEF TypeOK, MInv, Dated
    <3>2. QED BY <1>6, <3>1
  <2>3. QED BY <1>6, <2>1, <2>2
<1>8. Refused(p)'
  BY <1>4 DEF Refused
<1>9. QED BY <1>2, <1>3, <1>4, <1>5, <1>6, <1>7, <1>8, FrameStep

\* A full table: it may have lost the key, and the value does not fit.
LEMMA PutFullInv ==
  ASSUME MInv, NEW p \in Procs, PutFull(p) PROVE MInv'
<1>1. TypeOK /\ Tables
  BY DEF MInv
<1>2. PICK k \in Keys, v \in Values : k = key[p] /\ v = val[p]
  BY DEF MInv, Sets, InSet, PutFull
<1>3. /\ pc[p] = "put" /\ InSet(p) /\ OnlyP(p) /\ pc'[p] \in {"idle", "evict"}
      /\ UNCHANGED <<created, since, lruMem, ops, deaths>> /\ StoresKept
      /\ pc'[p] = "evict" => /\ p \in Eliminating /\ key'[p] = k /\ val'[p] = v
  <2>1. CASE p \in Eliminating /\ Goto(p, "evict") /\ UNCHANGED <<reply, call>>
    BY <1>1, <1>2, <2>1, Moves DEF PutFull, OnlyP, call, InSet
  <2>2. CASE Return(p, "kErrNotEnoughSpace")
    BY <1>1, <1>2, <2>2, Returns DEF PutFull, OnlyP, InSet
  <2>3. QED BY <2>1, <2>2 DEF PutFull
<1>4. \/ map' = map
      \/ map' = Table!Without(k)
  BY <1>2 DEF PutFull, Table!PutRefused, Table!PutFailed
<1>5. DOMAIN map' \subseteq DOMAIN map /\ map' \in [DOMAIN map' -> Values]
  <2>1. Table!Without(k) \in [DOMAIN map \ {k} -> Values] /\ DOMAIN Table!Without(k) = DOMAIN map \ {k}
    BY <1>1, TableTypes
  <2>2. map \in [DOMAIN map -> Values]
    BY <1>1 DEF TypeOK
  <2>3. QED BY <1>4, <2>1, <2>2
<1>6. TypeOK'
  <2>1. store' \in [Keys -> [by : Procs \cup {None}, at : 0..MaxOps]]
    BY <1>1, <1>3, StoreTypes
  <2>2. CASE p \in Eliminating /\ Goto(p, "evict") /\ UNCHANGED <<reply, call>>
    BY <1>1, <1>3, <1>5, <2>1, <2>2 DEF TypeOK, Goto, call
  <2>3. CASE Return(p, "kErrNotEnoughSpace")
    BY <1>1, <1>3, <1>5, <2>1, <2>3, Returns DEF TypeOK, Outcomes
  <2>4. QED BY <2>2, <2>3 DEF PutFull
<1>7. Blocks[v] + Table!Used(map') > maxslots
  <2>1. Blocks[v] \in Nat \ {0} /\ maxslots \in Nat /\ Table!Used(map) \in Nat
    BY <1>1, UsedType, WrapperAssumption
  <2>2. CASE Table!PutRefused(k, v)
    BY <2>1, <2>2 DEF Table!PutRefused
  <2>3. CASE Table!PutFailed(k, v)
    <3>1. Table!Used(Table!With(k, v)) > maxslots /\ map' = Table!Without(k)
      BY <2>3 DEF Table!PutFailed
    <3>2. QED BY <1>1, <3>1, UsedWith
  <2>4. QED BY <1>2, <2>2, <2>3 DEF PutFull
<1>8. Refused(p)'
  <2>1. pc'[p] = "evict" => val'[p] = v
    BY <1>3
  <2>2. pc'[p] = "evict" => Blocks[val'[p]] + Table!Used(map') > maxslots
    BY <1>7, <2>1
  <2>3. QED BY <2>2 DEF Refused, Table!Used
<1>9. \A q \in Procs \ {p} : ~InSet(q)
  BY <1>3 DEF MInv, OneSet
<1>10. Listed(p)'
  <2>1. \A x \in DOMAIN map' : store'[x] = store[x]
    BY <1>1, <1>3, <1>5, StoreTypes DEF TypeOK
  <2>2. QED BY <1>3, <1>5, <2>1, ListKept
<1>11. InSet(p)' => key'[p] \in Keys /\ val'[p] \in Values
  BY <1>3 DEF InSet
<1>12. QED BY <1>3, <1>5, <1>6, <1>8, <1>9, <1>10, <1>11, Loses

\* The last key of the list leaves the list and the table; an empty list is left.
LEMMA EvictInv ==
  ASSUME MInv, NEW p \in Procs, Evict(p) PROVE MInv'
<1>1. TypeOK /\ Listed(p)
  BY DEF MInv
<1>2. /\ pc[p] = "evict" /\ InSet(p) /\ StoresKept
      /\ UNCHANGED <<created, since, ops, deaths>>
  BY DEF Evict, InSet
<1>3. \A q \in Procs \ {p} : ~InSet(q)
  BY <1>2 DEF MInv, OneSet
<1>4. store' \in [Keys -> [by : Procs \cup {None}, at : 0..MaxOps]]
  BY <1>1, <1>2, StoreTypes
<1>5. CASE lruMem[p] = << >>
  <2>1. Return(p, "kErrInvalidParams") /\ UNCHANGED <<map, tblReply, lruMem>>
    BY <1>5 DEF Evict
  <2>2. pc'[p] = "idle" /\ OnlyP(p) /\ DOMAIN map' = DOMAIN map
    BY <1>1, <1>2, <2>1, Returns DEF OnlyP
  <2>3. TypeOK'
    BY <1>1, <1>2, <1>4, <2>1, Returns DEF TypeOK, Outcomes
  <2>4. Listed(p)'
    <3>1. \A x \in DOMAIN map' : store'[x] = store[x]
      BY <1>1, <1>2, <2>2, StoreTypes DEF TypeOK
    <3>2. QED BY <1>2, <2>1, <2>2, <3>1, ListKept
  <2>5. QED BY <1>2, <1>3, <2>2, <2>3, <2>4, Loses DEF InSet, Refused
<1>6. CASE lruMem[p] # << >>
  <2>1. PICK s : s = lruMem[p]
    OBVIOUS
  <2>2. /\ Last(s) \in Keys /\ Front(s) \in Seq(Keys)
        /\ Len(s) \in DOMAIN s /\ Last(s) = s[Len(s)]
        /\ DOMAIN Front(s) = 1..(Len(s) - 1)
        /\ \A i \in DOMAIN Front(s) : i \in DOMAIN s /\ i < Len(s) /\ Front(s)[i] = s[i]
        /\ \A i \in DOMAIN s : i = Len(s) \/ i \in DOMAIN Front(s)
    <3>1. s \in Seq(Keys) /\ s # << >>
      BY <1>1, <1>6, <2>1 DEF TypeOK
    <3>2. QED BY <3>1, Removed
  <2>k. PICK k \in Keys : k = Last(s)
    BY <2>2
  <2>3. PICK t : k = Last(s) /\ t = Front(s)
    BY <2>k
  <2>4. /\ map' = Table!Without(k) /\ lruMem' = [lruMem EXCEPT ![p] = t]
        /\ Goto(p, "put") /\ UNCHANGED <<reply, call>>
    BY <1>6, <2>1, <2>3 DEF Evict, Table!Remove, removeKey
  <2>5. /\ pc'[p] = "put" /\ OnlyP(p) /\ lruMem'[p] = t
        /\ DOMAIN map' = DOMAIN map \ {k} /\ map' \in [DOMAIN map' -> Values]
        /\ DOMAIN map' \subseteq DOMAIN map
    <3>1. pc'[p] = "put" /\ OnlyP(p) /\ lruMem'[p] = t
      BY <1>1, <1>2, <2>4, Moves DEF OnlyP, call, TypeOK
    <3>2. PICK v \in Values : TRUE
      BY <1>2 DEF MInv, Sets
    <3>3. map' \in [DOMAIN map \ {k} -> Values] /\ DOMAIN map' = DOMAIN map \ {k}
      BY <1>1, <2>4, <3>2, TableTypes
    <3>4. QED BY <3>1, <3>3
  <2>6. TypeOK'
    <3>1. lruMem' \in [Procs -> Seq(Keys)]
      BY <1>1, <2>2, <2>3, <2>4 DEF TypeOK
    <3>2. QED BY <1>1, <1>2, <1>4, <2>4, <2>5, <3>1 DEF TypeOK, Goto, call
  <2>7. \A x \in Knows(p)' : x \in Knows(p) /\ x # k /\ StoredAt(p, x)' = StoredAt(p, x)
    <3>1. \A x \in DOMAIN map' : store'[x] = store[x]
      BY <1>1, <1>2, <2>5, StoreTypes DEF TypeOK
    <3>2. QED BY <1>2, <2>5, <3>1 DEF Knows, StoredAt
  <2>8. Listed(p)'
    <3>1. Unrepeated(t)
      BY <1>1, <2>1, <2>2, <2>3 DEF Listed, Unrepeated
    <3>2. p \in Eliminating => Knows(p)' \subseteq ToSet(t)
      BY <1>1, <1>2, <2>1, <2>2, <2>3, <2>7 DEF Listed, ToSet
    <3>3. ASSUME NEW i \in DOMAIN lruMem'[p], NEW j \in DOMAIN lruMem'[p], i < j,
                 lruMem'[p][i] \in Knows(p)', lruMem'[p][j] \in Knows(p)'
          PROVE  (StoredAt(p, lruMem[p][j]) <= StoredAt(p, lruMem[p][i]))'
      <4>1. PICK x, y : x = s[i] /\ y = s[j]
        OBVIOUS
      <4>2. /\ i \in DOMAIN s /\ j \in DOMAIN s /\ x = lruMem'[p][i] /\ y = lruMem'[p][j]
            /\ x \in Knows(p)' /\ y \in Knows(p)'
        BY <2>2, <2>3, <2>5, <3>3, <4>1
      <4>3. StoredAt(p, y) <= StoredAt(p, x)
        BY <1>1, <2>1, <2>7, <3>3, <4>1, <4>2 DEF Listed
      <4>4. StoredAt(p, y)' = StoredAt(p, y) /\ StoredAt(p, x)' = StoredAt(p, x)
        BY <2>7, <4>2
      <4>5. StoredAt(p, y)' <= StoredAt(p, x)'
        BY <4>3, <4>4
      <4>6. QED BY <4>2, <4>5 DEF StoredAt
    <3>4. QED BY <2>5, <3>1, <3>2, <3>3 DEF Listed
  <2>9. InSet(p)' => key'[p] \in Keys /\ val'[p] \in Values
    BY <1>2, <2>4 DEF MInv, Sets, call
  <2>10. QED BY <1>2, <1>3, <2>5, <2>6, <2>8, <2>9, Loses DEF Refused
<1>7. QED BY <1>5, <1>6

\* deleteKey and clearTable leave a list that names lost keys.
LEMMA DeleteKeyInv ==
  ASSUME MInv, NEW p \in Procs, NEW k \in Keys, DeleteKey(p, k) PROVE MInv'
<1>1. TypeOK
  BY DEF MInv
<1>2. /\ pc[p] = "idle" /\ pc'[p] = "idle" /\ OnlyP(p) /\ ops' = ops + 1 /\ StoresKept
      /\ UNCHANGED <<created, lruMem, since, deaths>>
      /\ \A q \in Procs \ {p} : ~InSet(q)
  <2>1. PICK err \in {"kOk", "kErrOther"} : Return(p, err)
    BY DEF DeleteKey
  <2>2. QED BY <1>1, <2>1, Returns DEF DeleteKey, Begin, Alone, OnlyP, InSet
<1>3. DOMAIN map' \subseteq DOMAIN map /\ map' \in [DOMAIN map' -> Values]
  <2>1. map \in [DOMAIN map -> Values]
    BY <1>1 DEF TypeOK
  <2>2. CASE map' = map
    BY <2>1, <2>2
  <2>3. CASE map' = Table!Without(k)
    <3>1. map' = [x \in DOMAIN map \ {k} |-> map[x]]
      BY <2>3 DEF Table!Without, Table!Restrict
    <3>2. QED BY <2>1, <3>1
  <2>4. QED BY <2>2, <2>3 DEF DeleteKey, Table!Remove
<1>4. TypeOK'
  <2>1. store' \in [Keys -> [by : Procs \cup {None}, at : 0..MaxOps]]
    BY <1>1, <1>2, StoreTypes
  <2>2. ops' \in 0..MaxOps
    BY <1>1, WrapperAssumption DEF DeleteKey, Begin, TypeOK
  <2>3. PICK err \in {"kOk", "kErrOther"} : Return(p, err)
    BY DEF DeleteKey
  <2>4. QED BY <1>1, <1>2, <1>3, <2>1, <2>2, <2>3, Returns DEF TypeOK, Outcomes
<1>5. Listed(p)'
  <2>1. \A x \in DOMAIN map' : store'[x] = store[x]
    BY <1>1, <1>2, <1>3, StoreTypes DEF TypeOK
  <2>2. QED BY <1>2, <1>3, <2>1, ListKept
<1>6. QED BY <1>2, <1>3, <1>4, <1>5, Loses DEF InSet, Refused

\* A clear empties the table: no process knows a key any more.
LEMMA ClearTableInv ==
  ASSUME MInv, NEW p \in Procs, ClearTable(p) PROVE MInv'
<1>1. TypeOK
  BY DEF MInv
<1>2. /\ pc[p] = "idle" /\ pc'[p] = "idle" /\ OnlyP(p) /\ ops' = ops + 1 /\ StoresKept
      /\ UNCHANGED <<created, lruMem, since, deaths>>
      /\ \A q \in Procs \ {p} : ~InSet(q)
  BY <1>1, Returns DEF ClearTable, Begin, Alone, OnlyP, InSet
<1>3. DOMAIN map' = {} /\ map' \in [DOMAIN map' -> Values]
  BY DEF ClearTable, Table!Clear
<1>4. TypeOK'
  <2>1. store' \in [Keys -> [by : Procs \cup {None}, at : 0..MaxOps]]
    BY <1>1, <1>2, StoreTypes
  <2>2. ops' \in 0..MaxOps
    BY <1>1, WrapperAssumption DEF ClearTable, Begin, TypeOK
  <2>3. Return(p, "kOk")
    BY DEF ClearTable
  <2>4. QED BY <1>1, <1>2, <1>3, <2>1, <2>2, <2>3, Returns DEF TypeOK, Outcomes
<1>5. Listed(p)'
  BY <1>2, <1>3, ListKept
<1>6. QED BY <1>2, <1>3, <1>4, <1>5, Loses DEF InSet, Refused

\* The key is stored: the last key that p stored is the first of its list, and
\* the others know it no more.
LEMMA PutOkInv ==
  ASSUME MInv, NEW p \in Procs, PutOk(p) PROVE MInv'
<1>1. TypeOK /\ Listed(p)
  BY DEF MInv
<1>2. PICK k \in Keys, v \in Values : k = key[p] /\ v = val[p]
  BY DEF MInv, Sets, InSet, PutOk
<1>s. PICK s \in Seq(Keys) : s = lruMem[p]
  BY <1>1 DEF TypeOK
<1>3. PICK t : s = lruMem[p] /\ t = <<k>> \o Erased(s, k)
  BY <1>s
<1>4. t \in Seq(Keys) /\ Fronted(s, k, t)
  BY <1>1, <1>3, Visited DEF Listed
<1>5. /\ pc[p] = "put" /\ pc'[p] = "idle" /\ InSet(p) /\ ~InSet(p)' /\ OnlyP(p)
      /\ UNCHANGED <<created, since, ops, deaths>> /\ created' = "yes"
      /\ lruMem'[p] = t
  BY <1>1, <1>2, <1>3, Returns DEF PutOk, OnlyP, InSet, visitKey, TypeOK
<1>6. DOMAIN map' = DOMAIN map \cup {k} /\ map' \in [DOMAIN map' -> Values]
  BY <1>1, <1>2, TableTypes DEF PutOk, Table!PutStored
<1>7. /\ store'[k].by = p /\ store'[k].at = ops
      /\ \A x \in Keys \ {k} : store'[x] = store[x]
      /\ DOMAIN map \subseteq Keys
  BY <1>1, <1>2 DEF PutOk, TypeOK
<1>8. TypeOK'
  <2>1. store' \in [Keys -> [by : Procs \cup {None}, at : 0..MaxOps]]
    <3>1. [by |-> p, at |-> ops] \in [by : Procs \cup {None}, at : 0..MaxOps]
      BY <1>1 DEF TypeOK
    <3>2. QED BY <1>1, <1>2, <3>1 DEF PutOk, TypeOK
  <2>2. lruMem' \in [Procs -> Seq(Keys)]
    BY <1>1, <1>2, <1>3, <1>4 DEF PutOk, visitKey, TypeOK
  <2>3. Return(p, "kOk")
    BY DEF PutOk
  <2>4. QED BY <1>1, <1>5, <1>6, <2>1, <2>2, <2>3, Returns DEF TypeOK, Outcomes
<1>9. /\ Over = ops - 1 /\ Over' = ops /\ ops \in Nat
      /\ \A q \in Procs : since[q] <= Over /\ since[q] \in Nat
      /\ \A q \in Procs \ {p} : ~InSet(q)
      /\ \A x \in Keys : store[x].at <= Over /\ store[x].at \in Nat
  <2>1. \A q \in Procs : since[q] \in Nat
    BY <1>1, WrapperAssumption DEF TypeOK
  <2>2. \A x \in Keys : store[x].at <= Over /\ store[x].at \in Nat
    BY <1>1, WrapperAssumption DEF TypeOK, MInv, Dated
  <2>3. QED BY <1>5, <1>8, <2>1, <2>2, Clock
<1>10. ASSUME NEW q \in Procs, NEW x \in Keys, x # k
       PROVE  /\ x \in Knows(q)' <=> x \in Knows(q)
              /\ StoredAt(q, x)' = StoredAt(q, x)
  BY <1>5, <1>6, <1>7, <1>10 DEF Knows, StoredAt
<1>11. ASSUME NEW q \in Procs \ {p} PROVE Listed(q)'
  <2>1. Listed(q) /\ lruMem'[q] = lruMem[q] /\ pc'[q] = pc[q]
    BY <1>5 DEF MInv, OnlyP
  <2>2. k \notin Knows(q)'
    BY <1>5, <1>7, <1>9 DEF Knows
  <2>3. \A x \in Knows(q)' : x \in Knows(q) /\ StoredAt(q, x)' = StoredAt(q, x)
    <3>1. \A x \in Knows(q)' : x \in Keys /\ x # k
      BY <1>6, <1>7, <2>2 DEF Knows
    <3>2. QED BY <1>10, <3>1
  <2>4. ASSUME NEW i \in DOMAIN lruMem'[q], NEW j \in DOMAIN lruMem'[q], i < j,
               lruMem'[q][i] \in Knows(q)', lruMem'[q][j] \in Knows(q)'
        PROVE  (StoredAt(q, lruMem[q][j]) <= StoredAt(q, lruMem[q][i]))'
    <3>1. PICK x, y : x = lruMem[q][i] /\ y = lruMem[q][j]
      OBVIOUS
    <3>2. x \in Knows(q)' /\ y \in Knows(q)' /\ i \in DOMAIN lruMem[q] /\ j \in DOMAIN lruMem[q]
      BY <2>1, <2>4, <3>1
    <3>3. StoredAt(q, y) <= StoredAt(q, x)
      BY <2>1, <2>3, <2>4, <3>1, <3>2 DEF Listed
    <3>4. StoredAt(q, y)' = StoredAt(q, y) /\ StoredAt(q, x)' = StoredAt(q, x)
      BY <2>3, <3>2
    <3>5. StoredAt(q, y)' <= StoredAt(q, x)'
      BY <3>3, <3>4
    <3>6. QED BY <2>1, <3>1, <3>5 DEF StoredAt
  <2>5. /\ Unrepeated(lruMem[q])' /\ (pc'[q] = "down" => lruMem'[q] = << >>)
        /\ (q \in Eliminating /\ pc'[q] # "down" => Knows(q)' \subseteq ToSet(lruMem'[q]))
    BY <2>1, <2>3 DEF Listed, Unrepeated
  <2>6. QED BY <2>4, <2>5 DEF Listed
<1>12. Listed(p)'
  <2>1. StoredAt(p, k)' = ops
    BY <1>5, <1>7, <1>9 DEF StoredAt
  <2>2. p \in Eliminating => Knows(p)' \subseteq ToSet(t)
    <3>1. \A x \in Knows(p)' : x \in Keys /\ (x = k \/ x \in Knows(p))
      BY <1>6, <1>7, <1>10 DEF Knows
    <3>2. p \in Eliminating => Knows(p) \subseteq ToSet(s)
      BY <1>1, <1>3, <1>5 DEF Listed
    <3>3. ToSet(t) = ToSet(s) \cup {k}
      BY <1>4 DEF Fronted
    <3>4. QED BY <3>1, <3>2, <3>3
  <2>3. ASSUME NEW i \in DOMAIN t, NEW j \in DOMAIN t, i < j,
               t[i] \in Knows(p)', t[j] \in Knows(p)'
        PROVE  StoredAt(p, t[j])' <= StoredAt(p, t[i])'
    <3>1. i \in Nat \ {0} /\ j \in Nat \ {0} /\ t[i] \in Keys /\ t[j] \in Keys
      BY <1>4
    <3>2. 1 < j /\ t[j] # k /\ StoredAt(p, t[j])' = StoredAt(p, t[j]) /\ t[j] \in Knows(p)
      BY <1>4, <1>10, <2>3, <3>1 DEF Fronted
    <3>3. CASE i = 1
      <4>1. StoredAt(p, t[i])' = ops
        BY <1>4, <2>1, <3>3 DEF Fronted
      <4>2. StoredAt(p, t[j]) <= ops
        BY <1>9, <3>1 DEF StoredAt
      <4>3. QED BY <3>2, <4>1, <4>2
    <3>4. CASE i # 1
      <4>1. 1 < i /\ t[i] # k /\ StoredAt(p, t[i])' = StoredAt(p, t[i]) /\ t[i] \in Knows(p)
        BY <1>4, <1>10, <2>3, <3>1, <3>4 DEF Fronted
      <4>2. PICK x, y \in DOMAIN s : x < y /\ t[i] = s[x] /\ t[j] = s[y]
        BY <1>4, <2>3, <4>1 DEF Fronted
      <4>3. StoredAt(p, t[j]) <= StoredAt(p, t[i])
        BY <1>1, <1>3, <3>2, <4>1, <4>2 DEF Listed
      <4>4. QED BY <3>2, <4>1, <4>3
    <3>5. QED BY <3>3, <3>4
  <2>4. Unrepeated(t)
    BY <1>4 DEF Fronted
  <2>5. ASSUME NEW i \in DOMAIN lruMem'[p], NEW j \in DOMAIN lruMem'[p], i < j,
               lruMem'[p][i] \in Knows(p)', lruMem'[p][j] \in Knows(p)'
        PROVE  (StoredAt(p, lruMem[p][j]) <= StoredAt(p, lruMem[p][i]))'
    <3>1. PICK x, y : x = t[i] /\ y = t[j]
      OBVIOUS
    <3>2. i \in DOMAIN t /\ j \in DOMAIN t /\ x = lruMem'[p][i] /\ y = lruMem'[p][j]
      BY <1>5, <3>1
    <3>3. StoredAt(p, y)' <= StoredAt(p, x)'
      BY <2>3, <2>5, <3>1, <3>2
    <3>4. QED BY <3>2, <3>3 DEF StoredAt
  <2>6. QED BY <1>5, <2>2, <2>4, <2>5 DEF Listed
<1>13. Tables'
  BY <1>5, <1>6, FS_AddElement DEF MInv, Tables
<1>14. Over <= Over' /\ since'[p] <= Over' /\ \A x \in Keys : store'[x].at <= Over'
  BY <1>5, <1>7, <1>9
<1>15. Refused(p)'
  BY <1>5 DEF Refused
<1>16. QED BY <1>5, <1>8, <1>9, <1>11, <1>12, <1>13, <1>14, <1>15, FrameStep

-------------------------------------------------------------------------------
(* The theorems.                                                           *)

\* MInv holds at first: the lists and the table are empty.
LEMMA InitMInv == Init => MInv
<1> SUFFICES ASSUME Init PROVE MInv
  OBVIOUS
<1>1. TypeOK
  BY InitTypeOK
<1>2. /\ \A p \in Procs : pc[p] = "down" /\ since[p] = 0 /\ lruMem[p] = << >>
      /\ \A k \in Keys : store[k].at = 0
      /\ ops = 0 /\ DOMAIN map = {}
  BY DEF Init, Table!Init, NeverStored
<1>3. Over = 0
  BY <1>2 DEF Over, InSet
<1>4. Sets /\ OneSet /\ Dated
  BY <1>2, <1>3 DEF Sets, OneSet, Dated, InSet
<1>5. Tables
  BY <1>2, FS_EmptySet DEF Tables
<1>6. ASSUME NEW p \in Procs PROVE Listed(p) /\ Refused(p)
  BY <1>2 DEF Listed, Refused, Unrepeated
<1>7. QED BY <1>1, <1>4, <1>5, <1>6 DEF MInv

\* A step that changes nothing keeps MInv.
LEMMA StutterInv ==
  ASSUME MInv, UNCHANGED vars
  PROVE  MInv'
<1>1. /\ created' = created /\ map' = map /\ tblReply' = tblReply /\ lruMem' = lruMem
      /\ pc' = pc /\ key' = key /\ val' = val /\ reply' = reply /\ store' = store
      /\ since' = since /\ ops' = ops /\ deaths' = deaths
  BY DEF vars, call
<1>2. TypeOK'
  BY <1>1 DEF MInv, TypeOK
<1>3. Over' = Over
  BY <1>1 DEF Over, InSet
<1>4. Sets' /\ OneSet' /\ Dated' /\ Tables'
  BY <1>1, <1>3 DEF MInv, Sets, OneSet, Dated, InSet, Tables
<1>5. ASSUME NEW p \in Procs PROVE Listed(p)' /\ Refused(p)'
  <2>1. Listed(p) /\ Refused(p)
    BY DEF MInv
  <2>2. Listed(p)'
    BY <1>1, <2>1 DEF Listed, Unrepeated, Knows, StoredAt
  <2>3. Refused(p)'
    BY <1>1, <2>1 DEF Refused, Table!Used
  <2>4. QED BY <2>2, <2>3
<1>6. QED BY <1>2, <1>4, <1>5 DEF MInv

\* Every step keeps MInv.
LEMMA NextMInv == MInv /\ [Next]_vars => MInv'
<1> SUFFICES ASSUME MInv, [Next]_vars PROVE MInv'
  OBVIOUS
<1>1. ASSUME NEW p \in Procs,
             Create(p) \/ Publish(p) \/ Attach(p) \/ Die(p) \/ SetStep(p) \/ ClearTable(p)
      PROVE  MInv'
  BY <1>1, CreateInv, PublishInv, AttachInv, DieInv, PutNowhereInv, PutOkInv, PutFullInv,
     EvictInv, ClearTableInv DEF SetStep
<1>2. ASSUME NEW p \in Procs, NEW k \in Keys,
             DeleteKey(p, k) \/ \E v \in Values : SetValue(p, k, v)
      PROVE  MInv'
  BY <1>2, DeleteKeyInv, SetValueInv
<1>3. CASE UNCHANGED vars
  BY <1>3, StutterInv
<1>4. QED BY <1>1, <1>2, <1>3 DEF Next

\* MInv holds in every reachable state.
THEOREM WriterInvariance == Spec => []MInv
BY InitMInv, NextMInv, PTL DEF Spec

\* The state of the writers, their lists and their calls is always well formed.
THEOREM WriterTypes == Spec => []TypeOK
<1>1. MInv => TypeOK
  BY DEF MInv
<1>2. QED BY <1>1, WriterInvariance, PTL

\* The list of a process that eliminates names every key it knows of the table,
\* once, after whatever deletions, clears, half-done sets, deaths and calls of
\* other writers.
THEOREM ListCoversTable == Spec => []LruCoversTable
<1>1. MInv => LruCoversTable
  <2> SUFFICES ASSUME MInv, NEW p \in Eliminating, pc[p] # "down"
               PROVE  /\ Knows(p) \subseteq ToSet(lruMem[p])
                      /\ \A i, j \in DOMAIN lruMem[p] : lruMem[p][i] = lruMem[p][j] => i = j
    BY DEF LruCoversTable
  <2>1. Listed(p)
    BY WrapperAssumption DEF MInv
  <2>2. QED BY <2>1 DEF Listed, Unrepeated
<1>2. QED BY <1>1, WriterInvariance, PTL

\* A step of q moves no other process.
LEMMA OthersStay ==
  ASSUME TypeOK, NEW q \in Procs,
         \/ Create(q) \/ Publish(q) \/ Attach(q) \/ Die(q) \/ SetStep(q) \/ ClearTable(q)
         \/ \E k \in Keys : DeleteKey(q, k) \/ \E v \in Values : SetValue(q, k, v),
         NEW p \in Procs \ {q}
  PROVE  pc'[p] = pc[p]
BY Moves, Returns
DEF Create, Publish, Attach, Die, SetStep, PutNowhere, PutOk, PutFull, Evict, ClearTable,
    DeleteKey, SetValue

\* A set that fails had no room beside the keys its process does not know.
LEMMA NoRoomLeft ==
  ASSUME MInv, NEW p \in Eliminating, InSet(p), pc'[p] = "idle", reply' # "kOk",
         created # "zero", NEW q \in Procs,
         \/ Create(q) \/ Publish(q) \/ Attach(q) \/ Die(q) \/ SetStep(q) \/ ClearTable(q)
         \/ \E k \in Keys : DeleteKey(q, k) \/ \E v \in Values : SetValue(q, k, v)
  PROVE  Blocks[val[p]] + Table!Used(Restrict(map, DOMAIN map \ Knows(p))) > maxslots
<1>1. p \in Procs /\ TypeOK /\ pc[p] \in {"put", "evict"}
  BY WrapperAssumption DEF MInv, InSet
<1>2. q = p
  BY <1>1, OthersStay
<1>3. Evict(p)
  <2>1. ~Create(p) /\ ~Publish(p) /\ ~Attach(p) /\ ~ClearTable(p)
        /\ \A k \in Keys : ~DeleteKey(p, k) /\ \A v \in Values : ~SetValue(p, k, v)
    BY <1>1 DEF Create, Publish, Attach, ClearTable, DeleteKey, SetValue, Begin
  <2>2. ~Die(p)
    BY <1>1, Moves DEF Die
  <2>3. ~PutNowhere(p)
    BY DEF PutNowhere
  <2>4. ~PutOk(p)
    BY <1>1, Returns DEF PutOk
  <2>5. ~PutFull(p)
    BY <1>1, Moves DEF PutFull
  <2>6. QED BY <1>2, <2>1, <2>2, <2>3, <2>4, <2>5 DEF SetStep
<1>4. pc[p] = "evict" /\ lruMem[p] = << >>
  BY <1>1, <1>3, Moves DEF Evict
<1>5. Knows(p) = {}
  <2>1. Knows(p) \subseteq ToSet(lruMem[p])
    BY <1>1, <1>4 DEF MInv, Listed
  <2>2. QED BY <1>4, <2>1 DEF ToSet
<1>6. Restrict(map, DOMAIN map \ Knows(p)) = map
  <2>1. map = [k \in DOMAIN map |-> map[k]]
    BY <1>1 DEF TypeOK
  <2>2. QED BY <1>5, <2>1 DEF Restrict
<1>7. Blocks[val[p]] + Table!Used(map) > maxslots
  BY <1>1, <1>4 DEF MInv, Refused
<1>8. QED BY <1>6, <1>7

\* Elimination finds room: with one writer every value that the table can hold
\* is stored, and with several only what the others stored can be in its way.
THEOREM EvictionFindsRoom == Spec => RoomIsFound
<1> DEFINE Found ==
      \A p \in Eliminating :
        InSet(p) /\ pc'[p] = "idle" /\ reply' # "kOk" =>
          \/ created = "zero"
          \/ Blocks[val[p]] + Table!Used(Restrict(map, DOMAIN map \ Knows(p))) > maxslots
<1>1. MInv /\ [Next]_vars => [Found]_vars
  <2> SUFFICES ASSUME MInv, Next PROVE Found
    OBVIOUS
  <2>1. PICK q \in Procs :
          \/ Create(q) \/ Publish(q) \/ Attach(q) \/ Die(q) \/ SetStep(q) \/ ClearTable(q)
          \/ \E k \in Keys : DeleteKey(q, k) \/ \E v \in Values : SetValue(q, k, v)
    BY DEF Next
  <2>2. QED BY <2>1, NoRoomLeft
<1>2. QED BY <1>1, WriterInvariance, PTL DEF Spec, RoomIsFound

\* What eviction takes away was stored no later than what it leaves.
LEMMA OldestGoes ==
  ASSUME MInv, NEW p \in Procs, pc[p] = "evict", NEW q \in Procs,
         \/ Create(q) \/ Publish(q) \/ Attach(q) \/ Die(q) \/ SetStep(q) \/ ClearTable(q)
         \/ \E k \in Keys : DeleteKey(q, k) \/ \E v \in Values : SetValue(q, k, v),
         NEW k \in (DOMAIN map \ DOMAIN map') \cap Knows(p),
         NEW j \in DOMAIN map' \cap Knows(p)
  PROVE  StoredAt(p, k) <= StoredAt(p, j)
<1>1. TypeOK /\ Listed(p) /\ p \in Eliminating /\ InSet(p)
  BY DEF MInv, Sets, InSet
<1>2. map' # map
  OBVIOUS
<1>3. ~Create(q) /\ ~Publish(q) /\ ~Attach(q) /\ ~Die(q)
  BY <1>2 DEF Create, Publish, Attach, Die
<1>4. ~Begin(q)
  BY DEF Begin, Alone
<1>5. SetStep(q)
  BY <1>3, <1>4 DEF ClearTable, DeleteKey, SetValue
<1>6. q = p
  BY <1>1, <1>5 DEF MInv, OneSet, InSet, SetStep, PutNowhere, PutOk, PutFull, Evict
<1>7. Evict(p)
  BY <1>5, <1>6 DEF SetStep, PutNowhere, PutOk, PutFull
<1>8. PICK s : s = lruMem[p]
  OBVIOUS
<1>9. s # << >> /\ Table!Remove(Last(s))
  BY <1>2, <1>7, <1>8 DEF Evict
<1>10. k = Last(s)
  BY <1>9 DEF Table!Remove, Table!Without, Table!Restrict
<1>11. /\ Len(s) \in DOMAIN s /\ Last(s) = s[Len(s)] /\ s \in Seq(Keys)
       /\ \A i \in DOMAIN s : i # Len(s) => i < Len(s)
  <2>1. s \in Seq(Keys)
    BY <1>1, <1>8 DEF TypeOK
  <2>2. QED BY <1>9, <2>1, Removed
<1>12. PICK i \in DOMAIN s : s[i] = j
  BY <1>1, <1>8 DEF Listed, ToSet
<1>13. i < Len(s)
  BY <1>10, <1>11, <1>12
<1>14. QED BY <1>1, <1>8, <1>10, <1>11, <1>12, <1>13 DEF Listed

\* Eviction is least recently stored first, among the keys its process knows.
THEOREM EvictionTakesOldest == Spec => EvictsOldest
<1> DEFINE Oldest ==
      \A p \in Procs :
        pc[p] = "evict" =>
          \A k \in (DOMAIN map \ DOMAIN map') \cap Knows(p),
             j \in DOMAIN map' \cap Knows(p) :
            StoredAt(p, k) <= StoredAt(p, j)
<1>1. MInv /\ [Next]_vars => [Oldest]_vars
  <2> SUFFICES ASSUME MInv, Next PROVE Oldest
    OBVIOUS
  <2>1. PICK q \in Procs :
          \/ Create(q) \/ Publish(q) \/ Attach(q) \/ Die(q) \/ SetStep(q) \/ ClearTable(q)
          \/ \E k \in Keys : DeleteKey(q, k) \/ \E v \in Values : SetValue(q, k, v)
    BY DEF Next
  <2>2. QED BY <2>1, OldestGoes
<1>2. QED BY <1>1, WriterInvariance, PTL DEF Spec, EvictsOldest
================================================================================
