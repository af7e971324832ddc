------------------------------- MODULE SumLemmas -------------------------------
(***************************************************************************)
(* What the folds of the community modules add up to, and the two forms of *)
(* induction the proofs of this project use: of the numbers, or the finite *)
(* sets, that fail, take a least one.                                      *)
(***************************************************************************)
EXTENDS Integers, Functions, FiniteSetTheorems, WellFoundedInduction, TLAPS

\* A set of naturals has a least element.
LEMMA LeastNat ==
  ASSUME NEW T \in SUBSET Nat, T # {}
  PROVE  \E n \in T : \A m \in T : n <= m
<1> DEFINE R == OpToRel(<, Nat)
<1>1. IsWellFoundedOn(R, Nat)
  BY NatLessThanWellFounded
<1> HIDE DEF R
<1>2. PICK x \in T : \A y \in T : ~ (<<y, x>> \in R)
  BY <1>1, WFMin
<1>3. \A y \in T : y < x => <<y, x>> \in R
  BY DEF R, OpToRel
<1>4. \A y \in T : ~(y < x)
  BY <1>2, <1>3
<1>5. x \in Nat /\ \A y \in T : y \in Nat
  OBVIOUS
<1>6. \A y \in T : x <= y
  BY <1>4, <1>5
<1>7. QED BY <1>6

\* Of some subsets of a finite set one has no other below it.
LEMMA LeastSet ==
  ASSUME NEW S, IsFiniteSet(S), NEW B \in SUBSET (SUBSET S), B # {}
  PROVE  \E T \in B : \A U \in B : U \subseteq T => U = T
<1> DEFINE R == StrictSubsetOrdering(S)
<1>1. IsWellFoundedOn(R, SUBSET S)
  BY FS_StrictSubsetOrderingWellFounded, FS_FiniteSubsetsOfFinite
<1>2. PICK T \in B : \A U \in B : ~ (<<U, T>> \in R)
  <2> HIDE DEF R
  <2>1. QED BY <1>1, WFMin
<1>3. \A U \in B : U \subseteq T /\ U # T => <<U, T>> \in R
  BY DEF StrictSubsetOrdering
<1>4. \A U \in B : U \subseteq T => U = T
  BY <1>2, <1>3
<1>5. QED BY <1>4

-------------------------------------------------------------------------------
(* Sums.                                                                   *)

\* Which element a fold takes next, and one step of it, with g for the sums of
\* the smaller sets.
NextOf(s) == CHOOSE x \in s : TRUE
Added(f, g, s) == IF s = {} THEN 0 ELSE f[NextOf(s)] + g[s \ {NextOf(s)}]

IsSum(f, g, S) == g = [s \in SUBSET S |-> Added(f, g, s)]
Iter(f, S) == CHOOSE g : IsSum(f, g, S)

\* Sums of one function over smaller sets agree.
LEMMA SumsAgree ==
  ASSUME NEW f, NEW U, NEW W, NEW g, NEW h, IsSum(f, g, U), IsSum(f, h, W),
         NEW S \in SUBSET (U \cap W), IsFiniteSet(S)
  PROVE  g[S] = h[S]
<1> DEFINE B == {s \in SUBSET S : g[s] # h[s]}
<1>1. SUFFICES ASSUME B # {} PROVE FALSE
  OBVIOUS
<1>2. PICK T \in B : \A s \in B : s \subseteq T => s = T
  <2>1. B \in SUBSET (SUBSET S)
    OBVIOUS
  <2> HIDE DEF B
  <2>2. QED BY <1>1, <2>1, LeastSet
<1>3. g[T] = Added(f, g, T) /\ h[T] = Added(f, h, T)
  BY DEF IsSum
<1>4. T # {}
  BY <1>3 DEF Added
<1>5. NextOf(T) \in T
  BY <1>4 DEF NextOf
<1>6. g[T \ {NextOf(T)}] = h[T \ {NextOf(T)}]
  BY <1>2, <1>5
<1>7. QED BY <1>2, <1>3, <1>6 DEF Added

\* Every finite set has a sum.
LEMMA SumExists ==
  ASSUME NEW f, NEW S, IsFiniteSet(S)
  PROVE  IsSum(f, Iter(f, S), S)
<1> DEFINE B == {s \in SUBSET S : ~IsSum(f, Iter(f, s), s)}
<1>1. SUFFICES ASSUME B # {} PROVE FALSE
  OBVIOUS
<1>2. PICK T \in B : \A s \in B : s \subseteq T => s = T
  <2>1. B \in SUBSET (SUBSET S)
    OBVIOUS
  <2> HIDE DEF B
  <2>2. QED BY <1>1, <2>1, LeastSet
<1>3. \A s \in SUBSET T : s # T => IsSum(f, Iter(f, s), s)
  BY <1>2
<1> DEFINE h == [s \in SUBSET T |->
                   IF s = {} THEN 0
                   ELSE f[NextOf(s)] + Iter(f, s \ {NextOf(s)})[s \ {NextOf(s)}]]
<1>4. ASSUME NEW s \in SUBSET T PROVE h[s] = Added(f, h, s)
  <2>1. CASE s = {}
    BY <2>1 DEF Added
  <2>2. CASE s # {}
    <3> DEFINE u == s \ {NextOf(s)}
    <3>1. u \in SUBSET T /\ u # T
      BY <2>2 DEF NextOf
    <3>2. IsSum(f, Iter(f, u), u)
      BY <1>3, <3>1
    <3>3. Iter(f, u)[u] = Added(f, Iter(f, u), u)
      BY <3>2 DEF IsSum
    <3>4. h[u] = Iter(f, u)[u]
      <4>1. CASE u = {}
        BY <3>3, <4>1 DEF Added
      <4>2. CASE u # {}
        <5> DEFINE w == u \ {NextOf(u)}
        <5>1. w \in SUBSET T /\ w # T /\ w \in SUBSET (u \cap w) /\ IsFiniteSet(w)
          BY <3>1, <4>2, FS_Subset DEF NextOf
        <5>2. IsSum(f, Iter(f, w), w)
          BY <1>3, <5>1
        <5>3. Iter(f, u)[w] = Iter(f, w)[w]
          BY <3>2, <5>1, <5>2, SumsAgree
        <5>4. h[u] = f[NextOf(u)] + Iter(f, w)[w]
          BY <3>1, <4>2
        <5>5. QED BY <3>3, <4>2, <5>3, <5>4 DEF Added
      <4>3. QED BY <4>1, <4>2
    <3>5. h[s] = f[NextOf(s)] + Iter(f, u)[u]
      BY <2>2
    <3>6. QED BY <2>2, <3>4, <3>5 DEF Added
  <2>3. QED BY <2>1, <2>2
<1>5. IsSum(f, h, T)
  <2>1. h = [s \in SUBSET T |-> h[s]]
    OBVIOUS
  <2>2. QED BY <1>4, <2>1 DEF IsSum
<1>6. IsSum(f, Iter(f, T), T)
  <2> HIDE DEF h
  <2>1. QED BY <1>5 DEF Iter
<1>7. QED BY <1>2, <1>6

\* The community modules' sum is one of these.
LEMMA SumIs ==
  ASSUME NEW f, NEW S
  PROVE  SumFunctionOnSet(f, S) = Iter(f, S)[S]
BY DEF SumFunctionOnSet, FoldFunctionOnSet, MapThenFoldSet, Iter, IsSum, Added, NextOf

\* A sum over nothing, and a sum from the element the fold takes first.
LEMMA SumFirst ==
  ASSUME NEW f, NEW S, IsFiniteSet(S)
  PROVE  /\ S = {} => SumFunctionOnSet(f, S) = 0
         /\ S # {} => /\ NextOf(S) \in S
                      /\ SumFunctionOnSet(f, S)
                           = f[NextOf(S)] + SumFunctionOnSet(f, S \ {NextOf(S)})
<1>1. SumFunctionOnSet(f, S) = Added(f, Iter(f, S), S)
  <2>1. PICK g : g = Iter(f, S)
    OBVIOUS
  <2>2. IsSum(f, g, S)
    BY <2>1, SumExists
  <2>3. g[S] = Added(f, g, S)
    BY <2>2 DEF IsSum
  <2>4. QED BY <2>1, <2>3, SumIs
<1>2. ASSUME S # {}
      PROVE  /\ NextOf(S) \in S
             /\ SumFunctionOnSet(f, S)
                  = f[NextOf(S)] + SumFunctionOnSet(f, S \ {NextOf(S)})
  <2> DEFINE u == S \ {NextOf(S)}
  <2>1. NextOf(S) \in S
    BY <1>2 DEF NextOf
  <2>2. IsFiniteSet(u) /\ u \in SUBSET (S \cap u)
    BY FS_Subset
  <2>3. Iter(f, S)[u] = Iter(f, u)[u]
    BY <2>2, SumExists, SumsAgree
  <2>4. QED BY <1>1, <1>2, <2>1, <2>3, SumIs DEF Added
<1>3. QED BY <1>1, <1>2 DEF Added

\* Sums of naturals are naturals.
LEMMA SumType ==
  ASSUME NEW S, IsFiniteSet(S), NEW f, \A x \in S : f[x] \in Nat
  PROVE  SumFunctionOnSet(f, S) \in Nat
<1> DEFINE B == {s \in SUBSET S : SumFunctionOnSet(f, s) \notin Nat}
<1>1. SUFFICES ASSUME B # {} PROVE FALSE
  OBVIOUS
<1>2. PICK T \in B : \A s \in B : s \subseteq T => s = T
  <2>1. B \in SUBSET (SUBSET S)
    OBVIOUS
  <2> HIDE DEF B
  <2>2. QED BY <1>1, <2>1, LeastSet
<1>3. IsFiniteSet(T)
  BY FS_Subset
<1>4. T # {} /\ NextOf(T) \in T
      /\ SumFunctionOnSet(f, T) = f[NextOf(T)] + SumFunctionOnSet(f, T \ {NextOf(T)})
  BY <1>3, SumFirst
<1>5. SumFunctionOnSet(f, T \ {NextOf(T)}) \in Nat
  BY <1>2, <1>4
<1>6. QED BY <1>4, <1>5

\* Equal summands, equal sums.
LEMMA SumOfSame ==
  ASSUME NEW S, IsFiniteSet(S), NEW f, NEW g, \A x \in S : f[x] = g[x]
  PROVE  SumFunctionOnSet(f, S) = SumFunctionOnSet(g, S)
<1> DEFINE B == {s \in SUBSET S : SumFunctionOnSet(f, s) # SumFunctionOnSet(g, s)}
<1>1. SUFFICES ASSUME B # {} PROVE FALSE
  OBVIOUS
<1>2. PICK T \in B : \A s \in B : s \subseteq T => s = T
  <2>1. B \in SUBSET (SUBSET S)
    OBVIOUS
  <2> HIDE DEF B
  <2>2. QED BY <1>1, <2>1, LeastSet
<1>3. IsFiniteSet(T)
  BY FS_Subset
<1>4. /\ SumFunctionOnSet(f, {}) = 0
      /\ SumFunctionOnSet(g, {}) = 0
  BY FS_EmptySet, SumFirst
<1>5. T # {}
  BY <1>4
<1>6. NextOf(T) \in T
      /\ SumFunctionOnSet(f, T) = f[NextOf(T)] + SumFunctionOnSet(f, T \ {NextOf(T)})
      /\ SumFunctionOnSet(g, T) = g[NextOf(T)] + SumFunctionOnSet(g, T \ {NextOf(T)})
  BY <1>3, <1>5, SumFirst
<1>7. SumFunctionOnSet(f, T \ {NextOf(T)}) = SumFunctionOnSet(g, T \ {NextOf(T)})
  BY <1>2, <1>6
<1>8. QED BY <1>2, <1>6, <1>7

\* Any element may be taken first: the order of a sum does not matter.
LEMMA SumTakesAny ==
  ASSUME NEW S, IsFiniteSet(S), NEW f, \A x \in S : f[x] \in Nat, NEW y \in S
  PROVE  SumFunctionOnSet(f, S) = f[y] + SumFunctionOnSet(f, S \ {y})
<1> DEFINE Sum(s) == SumFunctionOnSet(f, s)
           Good(s) == \A x \in s : Sum(s) = f[x] + Sum(s \ {x})
           B == {s \in SUBSET S : ~Good(s)}
<1>1. SUFFICES ASSUME B # {} PROVE FALSE
  OBVIOUS
<1>2. PICK T \in B : \A s \in B : s \subseteq T => s = T
  <2>1. B \in SUBSET (SUBSET S)
    OBVIOUS
  <2> HIDE DEF B
  <2>2. QED BY <1>1, <2>1, LeastSet
<1>3. \A s \in SUBSET S : IsFiniteSet(s) /\ Sum(s) \in Nat
  BY FS_Subset, SumType
<1>4. \A s \in SUBSET S : s # {} => NextOf(s) \in s /\ Sum(s) = f[NextOf(s)] + Sum(s \ {NextOf(s)})
  BY <1>3, SumFirst
<1>5. PICK x \in T : Sum(T) # f[x] + Sum(T \ {x})
  OBVIOUS
<1> DEFINE c == NextOf(T)
<1>6. c \in T /\ Sum(T) = f[c] + Sum(T \ {c})
  BY <1>4
<1>7. x # c
  BY <1>5, <1>6
<1>8. Good(T \ {c}) /\ Good(T \ {x})
  BY <1>2, <1>6
<1> HIDE DEF Sum, c
<1>9. (T \ {x}) \ {c} = (T \ {c}) \ {x}
  OBVIOUS
<1>10. PICK z : z = Sum((T \ {c}) \ {x})
  OBVIOUS
<1>11. Sum(T \ {c}) = f[x] + z /\ Sum(T \ {x}) = f[c] + z
  BY <1>6, <1>7, <1>8, <1>9, <1>10
<1>12. z \in Nat /\ f[x] \in Nat /\ f[c] \in Nat
  BY <1>3, <1>6, <1>10
<1>13. QED BY <1>5, <1>6, <1>11, <1>12

\* Smaller summands, a smaller sum.
LEMMA SumAtMost ==
  ASSUME NEW S, IsFiniteSet(S), NEW f, NEW g,
         \A x \in S : f[x] \in Nat /\ g[x] \in Nat /\ f[x] <= g[x]
  PROVE  SumFunctionOnSet(f, S) <= SumFunctionOnSet(g, S)
<1> DEFINE B == {s \in SUBSET S : ~(SumFunctionOnSet(f, s) <= SumFunctionOnSet(g, s))}
<1>1. SUFFICES ASSUME B # {} PROVE FALSE
  OBVIOUS
<1>2. PICK T \in B : \A s \in B : s \subseteq T => s = T
  <2>1. B \in SUBSET (SUBSET S)
    OBVIOUS
  <2> HIDE DEF B
  <2>2. QED BY <1>1, <2>1, LeastSet
<1>3. \A s \in SUBSET S : /\ IsFiniteSet(s)
                          /\ SumFunctionOnSet(f, s) \in Nat /\ SumFunctionOnSet(g, s) \in Nat
  BY FS_Subset, SumType
<1>4. /\ SumFunctionOnSet(f, {}) = 0
      /\ SumFunctionOnSet(g, {}) = 0
  BY FS_EmptySet, SumFirst
<1>5. T # {}
  BY <1>4
<1>6. NextOf(T) \in T
      /\ SumFunctionOnSet(f, T) = f[NextOf(T)] + SumFunctionOnSet(f, T \ {NextOf(T)})
      /\ SumFunctionOnSet(g, T) = g[NextOf(T)] + SumFunctionOnSet(g, T \ {NextOf(T)})
  BY <1>3, <1>5, SumFirst
<1>7. SumFunctionOnSet(f, T \ {NextOf(T)}) <= SumFunctionOnSet(g, T \ {NextOf(T)})
  BY <1>2, <1>6
<1>8. NextOf(T) \in S /\ T \ {NextOf(T)} \in SUBSET S
  BY <1>6
<1>9. QED BY <1>2, <1>3, <1>6, <1>7, <1>8

\* A set is as large as its parts together: those of the elements that g maps alike.
LEMMA SumOfParts ==
  ASSUME NEW S, IsFiniteSet(S), NEW D, IsFiniteSet(D), NEW g, \A s \in S : g[s] \in D
  PROVE  Cardinality(S) = SumFunctionOnSet([d \in D |-> Cardinality({s \in S : g[s] = d})], D)
<1> DEFINE part(d) == {s \in S : g[s] = d}
           f == [d \in D |-> Cardinality(part(d))]
           All(E) == {s \in S : g[s] \in E}
           B == {E \in SUBSET D : Cardinality(All(E)) # SumFunctionOnSet(f, E)}
<1>1. SUFFICES B = {}
  <2>1. All(D) = S
    OBVIOUS
  <2>2. D \notin B => Cardinality(All(D)) = SumFunctionOnSet(f, D)
    OBVIOUS
  <2>3. QED BY <2>1, <2>2
<1>2. SUFFICES ASSUME B # {} PROVE FALSE
  OBVIOUS
<1>3. PICK E \in B : \A s \in B : s \subseteq E => s = E
  <2>1. B \in SUBSET (SUBSET D)
    OBVIOUS
  <2> HIDE DEF B
  <2>2. QED BY <1>2, <2>1, LeastSet
<1>4. \A d \in D : IsFiniteSet(part(d)) /\ f[d] = Cardinality(part(d)) /\ f[d] \in Nat
  BY FS_Subset, FS_CardinalityType
<1>5. IsFiniteSet(E) /\ E \subseteq D
  BY FS_Subset
<1>6. E # {}
  <2>1. All({}) = {}
    OBVIOUS
  <2>2. SumFunctionOnSet(f, {}) = 0 /\ Cardinality({}) = 0
    BY FS_EmptySet, SumFirst
  <2>3. QED BY <1>3, <2>1, <2>2
<1>7. PICK d \in E : TRUE
  BY <1>6
<1>8. SumFunctionOnSet(f, E) = f[d] + SumFunctionOnSet(f, E \ {d})
  <2>1. \A x \in E : f[x] \in Nat
    BY <1>4
  <2> HIDE DEF f
  <2>2. QED BY <1>5, <2>1, SumTakesAny
<1>9. Cardinality(All(E \ {d})) = SumFunctionOnSet(f, E \ {d})
  BY <1>3, <1>7
<1>10. Cardinality(All(E)) = Cardinality(All(E \ {d})) + Cardinality(part(d))
  <2>1. All(E) = All(E \ {d}) \cup part(d) /\ All(E \ {d}) \cap part(d) = {}
    BY <1>7
  <2>2. IsFiniteSet(All(E \ {d})) /\ IsFiniteSet(part(d))
    BY FS_Subset
  <2>3. Cardinality(All(E \ {d})) \in Nat /\ Cardinality(part(d)) \in Nat
    BY <2>2, FS_CardinalityType
  <2> HIDE DEF All, part
  <2>4. PICK x, y : x = All(E \ {d}) /\ y = part(d)
    OBVIOUS
  <2>5. Cardinality(x \cap y) = 0 /\ IsFiniteSet(x) /\ IsFiniteSet(y)
    BY <2>1, <2>2, <2>4, FS_EmptySet
  <2>6. Cardinality(x \cup y) = Cardinality(x) + Cardinality(y) - Cardinality(x \cap y)
    BY <2>5, FS_Union
  <2>7. Cardinality(x) \in Nat /\ Cardinality(y) \in Nat /\ All(E) = x \cup y
    BY <2>1, <2>3, <2>4
  <2>8. Cardinality(All(E)) = Cardinality(x) + Cardinality(y)
    BY <2>5, <2>6, <2>7
  <2>9. QED BY <2>4, <2>8
<1>11. f[d] = Cardinality(part(d)) /\ f[d] \in Nat
  BY <1>4, <1>7
<1>12. Cardinality(All(E \ {d})) \in Nat
  BY FS_Subset, FS_CardinalityType
<1>13. QED
  <2> HIDE DEF f, All, part
  <2>1. Cardinality(All(E)) # SumFunctionOnSet(f, E)
    BY <1>3
  <2>2. QED BY <1>8, <1>9, <1>10, <1>11, <1>12, <2>1
================================================================================
