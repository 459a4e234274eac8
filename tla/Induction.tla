----------------------------- MODULE Induction -----------------------------
(***************************************************************************)
(* Induction over the natural numbers, stated of sets: the library's       *)
(* induction theorems are about operators, which the provers cannot        *)
(* instantiate, but every nonempty set of numbers has a least element.     *)
(***************************************************************************)
EXTENDS Integers, FiniteSets, FiniteSetsExt, FiniteSetTheorems, TLAPS

\* Every nonempty set of natural numbers has a least one.
LEMMA LeastNumber ==
    ASSUME NEW S \in SUBSET Nat, NEW n \in S
    PROVE  \E m \in S : \A k \in S : m <= k
<1> DEFINE R == {p \in Nat \X Nat : p[1] < p[2]}
<1>1. IsWellFoundedOn(R, Nat)
  BY NatLessThanWellFounded DEF OpToRel
<1>2. \E m \in S : \A k \in S : ~(<<k, m>> \in R)
  <2> HIDE DEF R
  <2> QED BY <1>1, WFMin
<1>3. PICK m \in S : \A k \in S : ~(<<k, m>> \in R)
  BY <1>2
<1>4. ASSUME NEW k \in S PROVE m <= k
  <2>1. <<k, m>> \in Nat \X Nat /\ ~(<<k, m>>[1] < <<k, m>>[2])
    BY <1>3
  <2> QED BY <2>1
<1> QED BY <1>4

\* A set with 0 in it that has with every number the next holds all of them.
LEMMA AllNumbers ==
    ASSUME NEW S, 0 \in S, \A n \in Nat : n \in S => n + 1 \in S
    PROVE  \A n \in Nat : n \in S
<1> SUFFICES ASSUME NEW n \in Nat, n \notin S PROVE FALSE
  OBVIOUS
<1>1. PICK m \in Nat \ S : \A k \in Nat \ S : m <= k
  BY LeastNumber
<1>2. m # 0 /\ m - 1 \in Nat /\ m - 1 \in S
  BY <1>1
<1>3. (m - 1) + 1 \in S
  BY <1>2
<1> QED BY <1>1, <1>3

\* A family of a finite set's subsets that holds the empty one and, with each
\* of them, those with one more element, holds the set itself.
LEMMA AllSubsets ==
    ASSUME NEW S, IsFiniteSet(S), NEW F, {} \in F,
           \A T \in SUBSET S : \A x \in S \ T : T \in F => T \cup {x} \in F
    PROVE  \A T \in SUBSET S : T \in F
<1> DEFINE Sizes == {n \in Nat : \A T \in SUBSET S : Cardinality(T) = n => T \in F}
<1>0. \A T \in SUBSET S : IsFiniteSet(T) /\ Cardinality(T) \in Nat
  BY FS_Subset, FS_CardinalityType
<1>1. 0 \in Sizes
  BY <1>0, FS_EmptySet
<1>2. ASSUME NEW n \in Nat, n \in Sizes PROVE n + 1 \in Sizes
  <2> SUFFICES ASSUME NEW T \in SUBSET S, Cardinality(T) = n + 1 PROVE T \in F
    OBVIOUS
  <2>1. PICK x : x \in T
    BY <1>0, FS_EmptySet
  <2>2. T \ {x} \in SUBSET S /\ x \in S \ (T \ {x}) /\ (T \ {x}) \cup {x} = T
    BY <2>1
  <2>3. Cardinality(T \ {x}) = n
    <3>1. Cardinality(T \ {x}) = Cardinality(T) - 1
      BY <1>0, <2>1, FS_RemoveElement
    <3> QED BY <3>1
  <2>4. T \ {x} \in F
    BY <1>2, <2>2, <2>3
  <2> QED BY <2>2, <2>4
<1>3. \A n \in Nat : n \in Sizes
  <2> HIDE DEF Sizes
  <2> QED BY <1>1, <1>2, AllNumbers
<1> QED BY <1>0, <1>3

-----------------------------------------------------------------------------
(* Sums over finite sets.                                                  *)

SumOver(f, S) == MapThenSumSet(LAMBDA x : f[x], S)

\* The element that the sum takes next.
One(T) == CHOOSE x \in T : TRUE

\* The sum of a subset, from those of smaller ones.
SumStep(f, g, T) == IF T = {} THEN 0 ELSE f[One(T)] + g[T \ {One(T)}]

SumsAre(g, f, S) == g = [T \in SUBSET S |-> SumStep(f, g, T)]

LEMMA SumOverIs ==
    ASSUME NEW S, IsFiniteSet(S), NEW f
    PROVE  \E g : SumsAre(g, f, S) /\ SumOver(f, S) = g[S]
<1>0. \A T \in SUBSET S : IsFiniteSet(T) /\ Cardinality(T) \in Nat
  BY FS_Subset, FS_CardinalityType
<1>9. \A T \in SUBSET S : T # {} =>
         One(T) \in T /\ T \ {One(T)} \in SUBSET S
         /\ Cardinality(T \ {One(T)}) = Cardinality(T) - 1
  BY <1>0, FS_RemoveElement DEF One
<1> DEFINE Upto(n, g) ==
             /\ g = [T \in SUBSET S |-> g[T]]
             /\ \A T \in SUBSET S : Cardinality(T) <= n => g[T] = SumStep(f, g, T)
           Sizes == {n \in Nat : \E g : Upto(n, g)}
<1>1. 0 \in Sizes
  <2>1. \A T \in SUBSET S : Cardinality(T) <= 0 => T = {}
    BY <1>0, FS_EmptySet
  <2>2. Upto(0, [T \in SUBSET S |-> 0])
    BY <2>1 DEF SumStep
  <2> HIDE DEF Upto
  <2> QED BY <2>2
<1>2. ASSUME NEW n \in Nat, n \in Sizes PROVE n + 1 \in Sizes
  <2>1. PICK g : Upto(n, g)
    BY <1>2
  <2> DEFINE h == [T \in SUBSET S |-> IF Cardinality(T) = n+1 THEN SumStep(f, g, T) ELSE g[T]]
  <2>2. /\ h = [T \in SUBSET S |-> h[T]]
        /\ \A T \in SUBSET S : Cardinality(T) = n+1 => h[T] = SumStep(f, g, T)
        /\ \A T \in SUBSET S : Cardinality(T) <= n => h[T] = g[T]
    BY <1>0
  <2> HIDE DEF h
  <2>3. ASSUME NEW T \in SUBSET S, Cardinality(T) <= n+1
        PROVE  SumStep(f, h, T) = SumStep(f, g, T)
    <3>1. ASSUME T # {} PROVE h[T \ {One(T)}] = g[T \ {One(T)}]
      <4>1. PICK U \in SUBSET S : U = T \ {One(T)} /\ Cardinality(U) = Cardinality(T) - 1
        BY <1>9, <3>1
      <4>2. Cardinality(U) <= n
        BY <1>0, <2>3, <4>1
      <4> QED BY <2>2, <4>1, <4>2
    <3> QED BY <3>1 DEF SumStep
  <2>4. ASSUME NEW T \in SUBSET S, Cardinality(T) <= n+1 PROVE h[T] = SumStep(f, h, T)
    <3>1. Cardinality(T) = n+1 \/ Cardinality(T) <= n
      BY <1>0, <2>4
    <3>2. SumStep(f, h, T) = SumStep(f, g, T)
      BY <2>3, <2>4
    <3>3. CASE Cardinality(T) = n+1
      BY <2>2, <3>2, <3>3
    <3>4. CASE Cardinality(T) <= n
      <4>1. g[T] = SumStep(f, g, T)
        BY <2>1, <3>4
      <4> QED BY <2>2, <3>2, <3>4, <4>1
    <3> QED BY <3>1, <3>3, <3>4
  <2>5. Upto(n+1, h)
    BY <2>2, <2>4
  <2> HIDE DEF Upto
  <2> QED BY <2>5
<1>3. \A n \in Nat : n \in Sizes
  <2> HIDE DEF Sizes
  <2> QED BY <1>1, <1>2, AllNumbers
<1>4. PICK g : Upto(Cardinality(S), g)
  <2>1. Cardinality(S) \in Sizes
    <3> HIDE DEF Sizes
    <3> QED BY <1>0, <1>3
  <2> HIDE DEF Upto
  <2> QED BY <2>1
<1>5. g = [T \in SUBSET S |-> SumStep(f, g, T)]
  <2>1. \A T \in SUBSET S : Cardinality(T) <= Cardinality(S)
    BY FS_Subset
  <2> QED BY <1>4, <2>1
<1> DEFINE G == CHOOSE h : h = [T \in SUBSET S |-> SumStep(f, h, T)]
<1>6. G = [T \in SUBSET S |-> SumStep(f, G, T)]
  BY <1>5
<1>7. SumOver(f, S) = G[S]
  BY DEF SumOver, MapThenSumSet, MapThenFoldSet, SumStep, One
<1> HIDE DEF G
<1> QED BY <1>6, <1>7 DEF SumsAre

\* The sums of a set's subsets are computed alike whatever set they are of.
LEMMA SumOfSubset ==
    ASSUME NEW S, IsFiniteSet(S), NEW f, NEW g, SumsAre(g, f, S)
    PROVE  \A T \in SUBSET S : SumOver(f, T) = g[T]
<1> SUFFICES ASSUME NEW T \in SUBSET S PROVE SumOver(f, T) = g[T]
  OBVIOUS
<1>0. \A U \in SUBSET T : U \in SUBSET S /\ IsFiniteSet(U) /\ Cardinality(U) \in Nat
  BY FS_Subset, FS_CardinalityType
<1>1. IsFiniteSet(T)
  BY <1>0
<1>2. PICK h : SumsAre(h, f, T) /\ SumOver(f, T) = h[T]
  BY <1>1, SumOverIs
<1> DEFINE Sizes == {n \in Nat : \A U \in SUBSET T : Cardinality(U) = n => h[U] = g[U]}
<1>3. \A U \in SUBSET T : h[U] = SumStep(f, h, U) /\ g[U] = SumStep(f, g, U)
  BY <1>0, <1>2 DEF SumsAre
<1>4. 0 \in Sizes
  BY <1>0, <1>3, FS_EmptySet DEF SumStep
<1>5. ASSUME NEW n \in Nat, n \in Sizes PROVE n + 1 \in Sizes
  <2> SUFFICES ASSUME NEW U \in SUBSET T, Cardinality(U) = n + 1 PROVE h[U] = g[U]
    OBVIOUS
  <2>1. U # {}
    BY FS_EmptySet
  <2>2. One(U) \in U
    BY <2>1 DEF One
  <2>3. PICK V \in SUBSET T : V = U \ {One(U)}
    BY <2>2
  <2>4. Cardinality(V) = Cardinality(U) - 1
    BY <1>0, <2>2, <2>3, FS_RemoveElement
  <2>5. h[V] = g[V]
    BY <1>5, <2>4
  <2> QED BY <1>3, <2>1, <2>3, <2>5 DEF SumStep
<1>6. \A n \in Nat : n \in Sizes
  <2> HIDE DEF Sizes
  <2> QED BY <1>4, <1>5, AllNumbers
<1>7. h[T] = g[T]
  BY <1>0, <1>6
<1> QED BY <1>2, <1>7

\* A sum is a number, and any element can be taken out of it first.
LEMMA SumTakes ==
    ASSUME NEW S, IsFiniteSet(S), NEW f, \A x \in S : f[x] \in Nat
    PROVE  /\ SumOver(f, {}) = 0
           /\ SumOver(f, S) \in Nat
           /\ \A x \in S : SumOver(f, S) = f[x] + SumOver(f, S \ {x})
<1>0. \A T \in SUBSET S : IsFiniteSet(T) /\ Cardinality(T) \in Nat
  BY FS_Subset, FS_CardinalityType
<1>1. PICK g : SumsAre(g, f, S)
  BY SumOverIs
<1>2. \A T \in SUBSET S : SumOver(f, T) = g[T]
  BY <1>1, SumOfSubset
<1>3. \A T \in SUBSET S : g[T] = SumStep(f, g, T)
  BY <1>1 DEF SumsAre
<1>4. ASSUME NEW T \in SUBSET S, NEW x \in T
      PROVE  T \ {x} \in SUBSET S /\ Cardinality(T) \in Nat \ {0}
             /\ Cardinality(T \ {x}) = Cardinality(T) - 1
  BY <1>0, FS_RemoveElement, FS_EmptySet
<1>8. \A T \in SUBSET S : g[T] \in Nat
  <2> DEFINE Small == {n \in Nat : \A T \in SUBSET S : Cardinality(T) = n => g[T] \in Nat}
  <2>1. 0 \in Small
    <3>1. \A T \in SUBSET S : Cardinality(T) = 0 => T = {}
      BY <1>0, FS_EmptySet
    <3>2. g[{}] = 0
      BY <1>3 DEF SumStep
    <3> QED BY <3>1, <3>2
  <2>2. ASSUME NEW n \in Nat, n \in Small PROVE n + 1 \in Small
    <3> SUFFICES ASSUME NEW T \in SUBSET S, Cardinality(T) = n + 1 PROVE g[T] \in Nat
      OBVIOUS
    <3>1. T # {}
      BY FS_EmptySet
    <3>2. PICK y : y \in T /\ y = One(T)
      BY <3>1 DEF One
    <3>3. T \ {y} \in SUBSET S /\ Cardinality(T \ {y}) = n
      <4>1. T \ {y} \in SUBSET S /\ Cardinality(T \ {y}) = Cardinality(T) - 1
        BY <1>4, <3>2
      <4> QED BY <4>1
    <3>4. g[T \ {y}] \in Nat /\ f[y] \in Nat
      BY <2>2, <3>2, <3>3
    <3>5. g[T] = f[y] + g[T \ {y}]
      BY <1>3, <3>1, <3>2 DEF SumStep
    <3> QED BY <3>4, <3>5
  <2>3. \A n \in Nat : n \in Small
    <3> HIDE DEF Small
    <3> QED BY <2>1, <2>2, AllNumbers
  <2> QED BY <1>0, <2>3
<1> DEFINE Sizes == {n \in Nat : \A T \in SUBSET S : Cardinality(T) = n =>
                       \A x \in T : g[T] = f[x] + g[T \ {x}]}
<1>5. 0 \in Sizes
  <2>1. \A T \in SUBSET S : Cardinality(T) = 0 => T = {}
    BY <1>0, FS_EmptySet
  <2> QED BY <1>3, <2>1 DEF SumStep
<1>6. ASSUME NEW n \in Nat, n \in Sizes PROVE n + 1 \in Sizes
  <2> SUFFICES ASSUME NEW T \in SUBSET S, Cardinality(T) = n + 1
               PROVE  \A x \in T : g[T] = f[x] + g[T \ {x}]
    OBVIOUS
  <2>1. \A x \in T : \A z \in T \ {x} : g[T \ {x}] = f[z] + g[(T \ {x}) \ {z}]
    <3> SUFFICES ASSUME NEW x \in T
                 PROVE  \A z \in T \ {x} : g[T \ {x}] = f[z] + g[(T \ {x}) \ {z}]
      OBVIOUS
    <3>1. T \ {x} \in SUBSET S /\ Cardinality(T \ {x}) = n
      <4>1. T \ {x} \in SUBSET S /\ Cardinality(T \ {x}) = Cardinality(T) - 1
        BY <1>4
      <4> QED BY <4>1
    <3> QED BY <1>6, <3>1
  <2>2. T # {}
    BY FS_EmptySet
  <2>3. PICK y : y \in T /\ y = One(T)
    BY <2>2 DEF One
  <2>4. g[T] = f[y] + g[T \ {y}]
    BY <1>3, <2>2, <2>3 DEF SumStep
  <2>5. ASSUME NEW x \in T PROVE g[T] = f[x] + g[T \ {x}]
    <3>1. CASE x = y
      BY <2>4, <3>1
    <3>2. CASE x # y
      <4>1. g[T \ {y}] = f[x] + g[(T \ {y}) \ {x}]
        BY <2>1, <2>3, <3>2
      <4>2. g[T \ {x}] = f[y] + g[(T \ {x}) \ {y}]
        BY <2>1, <2>3, <3>2
      <4>3. PICK U : U = (T \ {y}) \ {x}
        OBVIOUS
      <4>4. (T \ {x}) \ {y} = U
        BY <4>3
      <4>5. g[U] \in Nat
        BY <1>8, <4>3
      <4>6. f[x] \in Nat /\ f[y] \in Nat
        BY <2>3
      <4>7. g[T] = f[y] + (f[x] + g[U])
        BY <2>4, <4>1, <4>3
      <4>8. g[T \ {x}] = f[y] + g[U]
        BY <4>2, <4>4
      <4> QED BY <4>5, <4>6, <4>7, <4>8
    <3> QED BY <3>1, <3>2
  <2> QED BY <2>5
<1>7. \A n \in Nat : n \in Sizes
  <2> HIDE DEF Sizes
  <2> QED BY <1>5, <1>6, AllNumbers
<1>9. \A T \in SUBSET S : \A x \in T : g[T] = f[x] + g[T \ {x}]
  BY <1>0, <1>7
<1>10. g[{}] = 0
  BY <1>3 DEF SumStep
<1>11. \A x \in S : S \ {x} \in SUBSET S
  OBVIOUS
<1> QED BY <1>2, <1>8, <1>9, <1>10, <1>11

\* One more element is one more summand.
LEMMA SumAdds ==
    ASSUME NEW T, IsFiniteSet(T), NEW x, x \notin T,
           NEW f, \A y \in T \cup {x} : f[y] \in Nat
    PROVE  /\ SumOver(f, T) \in Nat
           /\ SumOver(f, T \cup {x}) = f[x] + SumOver(f, T)
<1>1. PICK U : U = T \cup {x}
  OBVIOUS
<1>2. IsFiniteSet(U)
  BY <1>1, FS_AddElement
<1>3. SumOver(f, U) = f[x] + SumOver(f, U \ {x})
  BY <1>1, <1>2, SumTakes
<1>4. U \ {x} = T
  BY <1>1
<1>5. SumOver(f, T) \in Nat
  BY SumTakes
<1> QED BY <1>1, <1>3, <1>4, <1>5

\* Summands may be moved, as long as no two come to one place.
LEMMA SumMoved ==
    ASSUME NEW S, IsFiniteSet(S), NEW f, NEW g, NEW b,
           \A x, y \in S : b[x] = b[y] => x = y,
           \A x \in S : f[x] \in Nat /\ g[b[x]] = f[x]
    PROVE  SumOver(g, {b[x] : x \in S}) = SumOver(f, S)
<1> DEFINE Moved(T) == {b[x] : x \in T}
           F == {T \in SUBSET S : IsFiniteSet(Moved(T)) /\ SumOver(g, Moved(T)) = SumOver(f, T)}
<1>1. {} \in F
  <2>1. Moved({}) = {}
    OBVIOUS
  <2>2. SumOver(f, {}) = 0 /\ SumOver(g, {}) = 0 /\ IsFiniteSet({})
    BY SumTakes, FS_EmptySet
  <2> HIDE DEF Moved
  <2> QED BY <2>1, <2>2
<1>2. ASSUME NEW T \in SUBSET S, NEW x \in S \ T, T \in F PROVE T \cup {x} \in F
  <2>1. Moved(T \cup {x}) = Moved(T) \cup {b[x]}
    OBVIOUS
  <2>2. b[x] \notin Moved(T)
    OBVIOUS
  <2>3. \A y \in Moved(T) \cup {b[x]} : g[y] \in Nat
    OBVIOUS
  <2>4. IsFiniteSet(Moved(T)) /\ SumOver(g, Moved(T)) = SumOver(f, T)
    BY <1>2
  <2>5. IsFiniteSet(T) /\ \A y \in T \cup {x} : f[y] \in Nat
    BY FS_Subset
  <2> HIDE DEF Moved
  <2>6. SumOver(g, Moved(T) \cup {b[x]}) = g[b[x]] + SumOver(g, Moved(T))
    BY <2>2, <2>3, <2>4, SumAdds
  <2>7. SumOver(f, T \cup {x}) = f[x] + SumOver(f, T)
    BY <2>5, SumAdds
  <2>8. IsFiniteSet(Moved(T \cup {x}))
    <3>1. IsFiniteSet(Moved(T) \cup {b[x]})
      BY <2>4, FS_AddElement
    <3> QED BY <2>1, <3>1
  <2> QED BY <2>1, <2>4, <2>6, <2>7, <2>8
<1>3. S \in F
  <2> HIDE DEF F
  <2> QED BY <1>1, <1>2, AllSubsets
<1> QED BY <1>3

\* Equal summands, equal sums.
LEMMA SumSame ==
    ASSUME NEW S, IsFiniteSet(S), NEW f, NEW g,
           \A x \in S : f[x] \in Nat /\ g[x] = f[x]
    PROVE  SumOver(g, S) = SumOver(f, S)
<1>1. PICK b : b = [x \in S |-> x]
  OBVIOUS
<1>2. \A x \in S : b[x] = x
  BY <1>1
<1>3. SumOver(g, {b[x] : x \in S}) = SumOver(f, S)
  BY <1>2, SumMoved
<1>4. {b[x] : x \in S} = S
  BY <1>2
<1> QED BY <1>3, <1>4

\* Summands can be taken in two parts.
LEMMA SumUnion ==
    ASSUME NEW S, IsFiniteSet(S), NEW T, IsFiniteSet(T), S \cap T = {},
           NEW f, \A x \in S \cup T : f[x] \in Nat
    PROVE  SumOver(f, S \cup T) = SumOver(f, S) + SumOver(f, T)
<1> DEFINE F == {U \in SUBSET T : SumOver(f, S \cup U) = SumOver(f, S) + SumOver(f, U)}
<1>0. SumOver(f, S) \in Nat /\ SumOver(f, {}) = 0
  BY SumTakes
<1>1. {} \in F
  <2>1. S \cup {} = S
    OBVIOUS
  <2>2. SumOver(f, S \cup {}) = SumOver(f, S) + SumOver(f, {})
    BY <1>0, <2>1
  <2> QED BY <2>2
<1>2. ASSUME NEW U \in SUBSET T, NEW x \in T \ U, U \in F PROVE U \cup {x} \in F
  <2>1. IsFiniteSet(U) /\ IsFiniteSet(S \cup U)
    BY FS_Subset, FS_Union
  <2>2. SumOver(f, U) \in Nat /\ SumOver(f, U \cup {x}) = f[x] + SumOver(f, U)
    BY <2>1, SumAdds
  <2>3. SumOver(f, (S \cup U) \cup {x}) = f[x] + SumOver(f, S \cup U)
    <3>1. x \notin S \cup U /\ \A y \in (S \cup U) \cup {x} : f[y] \in Nat
      OBVIOUS
    <3> QED BY <2>1, <3>1, SumAdds
  <2>4. S \cup (U \cup {x}) = (S \cup U) \cup {x}
    OBVIOUS
  <2>5. SumOver(f, S \cup U) = SumOver(f, S) + SumOver(f, U)
    BY <1>2
  <2>6. f[x] \in Nat
    OBVIOUS
  <2>7. SumOver(f, S \cup (U \cup {x})) = SumOver(f, S) + SumOver(f, U \cup {x})
    BY <1>0, <2>2, <2>3, <2>4, <2>5, <2>6
  <2> QED BY <2>7
<1>3. T \in F
  <2> HIDE DEF F
  <2> QED BY <1>1, <1>2, AllSubsets
<1> QED BY <1>3

\* Zeros need not be counted.
LEMMA SumOfZeros ==
    ASSUME NEW S, IsFiniteSet(S), NEW f, \A x \in S : f[x] = 0
    PROVE  SumOver(f, S) = 0
<1> DEFINE F == {T \in SUBSET S : SumOver(f, T) = 0}
<1>1. {} \in F
  <2>1. SumOver(f, {}) = 0
    BY SumTakes
  <2> QED BY <2>1
<1>2. ASSUME NEW T \in SUBSET S, NEW x \in S \ T, T \in F PROVE T \cup {x} \in F
  <2>1. IsFiniteSet(T) /\ \A y \in T \cup {x} : f[y] \in Nat
    BY FS_Subset
  <2>2. SumOver(f, T \cup {x}) = f[x] + SumOver(f, T)
    BY <2>1, SumAdds
  <2> QED BY <1>2, <2>2
<1>3. S \in F
  <2> HIDE DEF F
  <2> QED BY <1>1, <1>2, AllSubsets
<1> QED BY <1>3

LEMMA SumWithoutZeros ==
    ASSUME NEW S, IsFiniteSet(S), NEW T \in SUBSET S, NEW f,
           \A x \in S : f[x] \in Nat, \A x \in S \ T : f[x] = 0
    PROVE  SumOver(f, S) = SumOver(f, T)
<1>1. PICK U \in SUBSET S : U = S \ T
  OBVIOUS
<1>2. IsFiniteSet(T) /\ IsFiniteSet(U) /\ T \cap U = {} /\ T \cup U = S
  BY <1>1, FS_Subset
<1>3. SumOver(f, U) = 0
  BY <1>1, <1>2, SumOfZeros
<1>4. SumOver(f, T) \in Nat
  BY <1>2, SumTakes
<1>5. SumOver(f, S) = SumOver(f, T) + SumOver(f, U)
  <2>1. SumOver(f, T \cup U) = SumOver(f, T) + SumOver(f, U)
    BY <1>2, SumUnion
  <2> QED BY <1>2, <2>1
<1> QED BY <1>3, <1>4, <1>5

\* The sum of sums.
LEMMA SumPlus ==
    ASSUME NEW S, IsFiniteSet(S), NEW f, NEW g, NEW h,
           \A x \in S : f[x] \in Nat /\ g[x] \in Nat /\ h[x] = f[x] + g[x]
    PROVE  SumOver(h, S) = SumOver(f, S) + SumOver(g, S)
<1> DEFINE F == {T \in SUBSET S : SumOver(h, T) = SumOver(f, T) + SumOver(g, T)}
<1>1. {} \in F
  <2>1. SumOver(f, {}) = 0 /\ SumOver(g, {}) = 0 /\ SumOver(h, {}) = 0
    BY SumTakes
  <2> QED BY <2>1
<1>2. ASSUME NEW T \in SUBSET S, NEW x \in S \ T, T \in F PROVE T \cup {x} \in F
  <2>1. IsFiniteSet(T)
    BY FS_Subset
  <2>2. f[x] \in Nat /\ g[x] \in Nat /\ h[x] = f[x] + g[x]
    OBVIOUS
  <2>3. \A y \in T \cup {x} : f[y] \in Nat /\ g[y] \in Nat /\ h[y] \in Nat
    OBVIOUS
  <2>4. SumOver(f, T) \in Nat /\ SumOver(f, T \cup {x}) = f[x] + SumOver(f, T)
    BY <2>1, <2>3, SumAdds
  <2>5. SumOver(g, T) \in Nat /\ SumOver(g, T \cup {x}) = g[x] + SumOver(g, T)
    BY <2>1, <2>3, SumAdds
  <2>6. SumOver(h, T \cup {x}) = h[x] + SumOver(h, T)
    BY <2>1, <2>3, SumAdds
  <2>7. SumOver(h, T) = SumOver(f, T) + SumOver(g, T)
    BY <1>2
  <2>8. SumOver(h, T \cup {x}) = SumOver(f, T \cup {x}) + SumOver(g, T \cup {x})
    BY <2>2, <2>4, <2>5, <2>6, <2>7
  <2> QED BY <2>8
<1>3. S \in F
  <2> HIDE DEF F
  <2> QED BY <1>1, <1>2, AllSubsets
<1> QED BY <1>3
=============================================================================
