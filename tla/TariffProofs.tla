---------------------------- MODULE TariffProofs ----------------------------
(***************************************************************************)
(* What the tariff guarantees for every price and every amount of traffic, *)
(* and what a sum over a finite set of services is.                        *)
(***************************************************************************)
EXTENDS Tariff, FiniteSetTheorems, TLAPS

(* Rounding a quotient up loses nothing and adds less than the divisor.    *)
LEMMA CeilingBounds ==
    ASSUME NEW n \in Nat
    PROVE  LET c == (n + 1023) \div 1024
           IN  /\ c \in Nat
               /\ 1024 * c >= n
               /\ 1024 * c <= n + 1023
  OBVIOUS

LEMMA ProductNat == \A a, b \in Nat : a * b \in Nat
  OBVIOUS

(* cost_for_mb never charges less than the price per GiB and at most       *)
(* 1023/1024 of a toman more.                                              *)
THEOREM CostBounds ==
    ASSUME NEW mb \in Nat, NEW price \in Nat
    PROVE  /\ CostForMb(mb, price) \in Nat
           /\ 1024 * CostForMb(mb, price) >= mb * price
           /\ 1024 * CostForMb(mb, price) <= mb * price + 1023
<1> DEFINE n == mb * price
<1>1. n \in Nat
  BY ProductNat
<1>2. CostForMb(mb, price) = (n + 1023) \div 1024
  BY DEF CostForMb
<1> HIDE DEF n
<1>3. /\ CostForMb(mb, price) \in Nat
      /\ 1024 * CostForMb(mb, price) >= n
      /\ 1024 * CostForMb(mb, price) <= n + 1023
  BY <1>1, <1>2, CeilingBounds
<1>4. QED
  BY <1>3 DEF n

(* Traffic is free only when there is none or the price is zero.           *)
THEOREM NoFreeTraffic ==
    ASSUME NEW mb \in Nat \ {0}, NEW price \in Nat \ {0}
    PROVE  CostForMb(mb, price) > 0
<1>1. mb * price \in Nat /\ mb * price > 0
  OBVIOUS
<1>2. 1024 * CostForMb(mb, price) >= mb * price /\ CostForMb(mb, price) \in Nat
  BY CostBounds
<1>3. QED
  BY <1>1, <1>2

-----------------------------------------------------------------------------
(* Sums *)

(* Induction over the subsets of a finite set, with the property given as  *)
(* the set of the subsets that have it.                                    *)
LEMMA SubsetInduction ==
    ASSUME NEW T, IsFiniteSet(T), NEW Good,
           \A S \in SUBSET T : (\A x \in S : S \ {x} \in Good) => S \in Good
    PROVE  \A S \in SUBSET T : S \in Good
<1> DEFINE Bad == (SUBSET T) \ Good
<1>1. IsWellFoundedOn(StrictSubsetOrdering(T), SUBSET T)
  BY FS_StrictSubsetOrderingWellFounded, FS_FiniteSubsetsOfFinite
<1>2. SUFFICES ASSUME Bad # {} PROVE FALSE
  OBVIOUS
<1>3. Bad \subseteq SUBSET T
  OBVIOUS
<1> HIDE DEF Bad
<1>4. PICK S \in Bad : \A U \in Bad : <<U, S>> \notin StrictSubsetOrdering(T)
  BY <1>1, <1>2, <1>3, WFMin
<1>5. S \in SUBSET T /\ S \notin Good
  BY DEF Bad
<1>6. ASSUME NEW x \in S PROVE S \ {x} \in Good
  <2>1. <<S \ {x}, S>> \in StrictSubsetOrdering(T)
    BY <1>5 DEF StrictSubsetOrdering
  <2>2. QED
    BY <1>4, <1>5, <2>1 DEF Bad
<1>7. QED
  BY <1>5, <1>6

(* The element a fold takes next, and the equation of its partial sums.    *)
Pick(S) == CHOOSE x \in S : TRUE
SumStep(it, f, S) == IF S = {} THEN 0 ELSE f[Pick(S)] + it[S \ {Pick(S)}]
IsSum(it, f, T) == it = [S \in SUBSET T |-> SumStep(it, f, S)]

LEMMA PickIn == \A S : S # {} => Pick(S) \in S
  BY DEF Pick

(* The recursive function behind a sum exists.                             *)
LEMMA SumExists ==
    ASSUME NEW T, IsFiniteSet(T), NEW f
    PROVE  \E it : IsSum(it, f, T)
<1> DEFINE Upto(it, n) == \A U \in SUBSET T :
               Cardinality(U) <= n => it[U] = SumStep(it, f, U)
           Good == {S \in SUBSET T : \E it : Upto(it, Cardinality(S))}
<1>1. ASSUME NEW S \in SUBSET T, \A x \in S : S \ {x} \in Good
      PROVE  S \in Good
  <2>1. CASE S = {}
    <3> DEFINE it == [U \in SUBSET T |-> 0]
    <3>1. \A U \in SUBSET T : Cardinality(U) <= Cardinality(S) => U = {}
      BY <2>1, FS_Subset, FS_CardinalityType, FS_EmptySet
    <3>2. Upto(it, Cardinality(S))
      BY <3>1 DEF SumStep
    <3>3. QED
      BY <3>2
  <2>2. CASE S # {}
    <3>1. PICK y \in S : TRUE
      BY <2>2
    <3>2. PICK ih : Upto(ih, Cardinality(S \ {y}))
      BY <1>1, <3>1
    <3>3. Cardinality(S \ {y}) = Cardinality(S) - 1 /\ Cardinality(S) \in Nat
      BY <3>1, FS_RemoveElement, FS_Subset, FS_CardinalityType
    <3> DEFINE it == [U \in SUBSET T |-> SumStep(ih, f, U)]
    <3>4. ASSUME NEW U \in SUBSET T, Cardinality(U) <= Cardinality(S)
          PROVE  it[U] = SumStep(it, f, U)
      <4>1. CASE U = {}
        BY <4>1 DEF SumStep
      <4>2. CASE U # {}
        <5> DEFINE V == U \ {Pick(U)}
        <5>1. Pick(U) \in U
          BY <4>2, PickIn
        <5>2. IsFiniteSet(U)
          BY FS_Subset
        <5>3. Cardinality(V) = Cardinality(U) - 1 /\ Cardinality(U) \in Nat
          BY <5>1, <5>2, FS_RemoveElement, FS_CardinalityType
        <5>4. V \in SUBSET T /\ Cardinality(V) <= Cardinality(S \ {y})
          BY <3>3, <3>4, <5>3
        <5>5. ih[V] = SumStep(ih, f, V)
          BY <3>2, <5>4
        <5>6. it[V] = ih[V]
          BY <5>4, <5>5
        <5>7. it[U] = f[Pick(U)] + ih[V]
          BY <4>2 DEF SumStep
        <5>8. QED
          BY <4>2, <5>6, <5>7 DEF SumStep
      <4>3. QED
        BY <4>1, <4>2
    <3>5. QED
      BY <3>4
  <2>3. QED
    BY <2>1, <2>2
<1>2. \A S \in SUBSET T : (\A x \in S : S \ {x} \in Good) => S \in Good
  BY <1>1
<1> HIDE DEF Good
<1>3. \A S \in SUBSET T : S \in Good
  BY <1>2, SubsetInduction
<1>4. PICK it : Upto(it, Cardinality(T))
  BY <1>3 DEF Good
<1>5. \A U \in SUBSET T : it[U] = SumStep(it, f, U)
  BY <1>4, FS_Subset
<1> DEFINE F == [U \in SUBSET T |-> it[U]]
<1>6. \A U \in SUBSET T : SumStep(F, f, U) = SumStep(it, f, U)
  BY PickIn DEF SumStep
<1>7. IsSum(F, f, T)
  BY <1>5, <1>6 DEF IsSum
<1>8. QED
  BY <1>7

LEMMA TotalIs ==
    ASSUME NEW T, IsFiniteSet(T), NEW f
    PROVE  \E it : IsSum(it, f, T) /\ Total(f, T) = it[T]
<1> DEFINE F == CHOOSE it : IsSum(it, f, T)
<1>1. IsSum(F, f, T)
  BY SumExists
<1>2. Total(f, T) = F[T]
  BY Zenon DEF Total, MapThenSumSet, MapThenFoldSet, IsSum, SumStep, Pick
<1>3. QED
  BY <1>1, <1>2

(* Two such functions agree on the subsets both are defined on.            *)
LEMMA SumsAgree ==
    ASSUME NEW T, IsFiniteSet(T), NEW f, NEW U \in SUBSET T,
           NEW it, IsSum(it, f, T), NEW iu, IsSum(iu, f, U)
    PROVE  it[U] = iu[U]
<1> DEFINE Good == {S \in SUBSET U : it[S] = iu[S]}
<1>1. ASSUME NEW S \in SUBSET U, \A x \in S : S \ {x} \in Good
      PROVE  S \in Good
  <2>1. it[S] = SumStep(it, f, S) /\ iu[S] = SumStep(iu, f, S)
    <3>1. S \in SUBSET T
      OBVIOUS
    <3>2. QED
      BY <3>1 DEF IsSum
  <2>2. SumStep(it, f, S) = SumStep(iu, f, S)
    BY <1>1, PickIn DEF SumStep
  <2>3. QED
    BY <2>1, <2>2
<1> HIDE DEF Good
<1>2. IsFiniteSet(U)
  BY FS_Subset
<1>3. U \in Good
  BY <1>1, <1>2, SubsetInduction
<1>4. QED
  BY <1>3 DEF Good

LEMMA TotalEmpty == \A f : Total(f, {}) = 0
<1> SUFFICES ASSUME NEW f PROVE Total(f, {}) = 0
  OBVIOUS
<1>1. PICK it : IsSum(it, f, {}) /\ Total(f, {}) = it[{}]
  BY TotalIs, FS_EmptySet
<1>2. QED
  BY <1>1 DEF IsSum, SumStep

LEMMA TotalPick ==
    ASSUME NEW S, IsFiniteSet(S), S # {}, NEW f
    PROVE  Total(f, S) = f[Pick(S)] + Total(f, S \ {Pick(S)})
<1> DEFINE V == S \ {Pick(S)}
<1>1. PICK it : IsSum(it, f, S) /\ Total(f, S) = it[S]
  BY TotalIs
<1>2. IsFiniteSet(V) /\ V \in SUBSET S
  BY FS_Subset
<1>3. PICK iv : IsSum(iv, f, V) /\ Total(f, V) = iv[V]
  BY <1>2, TotalIs
<1>4. it[V] = iv[V]
  BY <1>1, <1>2, <1>3, SumsAgree
<1>5. it[S] = f[Pick(S)] + it[V]
  BY <1>1 DEF IsSum, SumStep
<1>6. QED
  BY <1>1, <1>3, <1>4, <1>5

(* A sum of integers is an integer.                                        *)
LEMMA TotalInt ==
    ASSUME NEW T, IsFiniteSet(T), NEW f, \A s \in T : f[s] \in Int
    PROVE  Total(f, T) \in Int
<1> DEFINE Good == {S \in SUBSET T : Total(f, S) \in Int}
<1>1. ASSUME NEW S \in SUBSET T, \A x \in S : S \ {x} \in Good
      PROVE  S \in Good
  <2>1. CASE S = {}
    BY <2>1, TotalEmpty
  <2>2. CASE S # {}
    <3>1. Pick(S) \in S /\ IsFiniteSet(S)
      BY <2>2, PickIn, FS_Subset
    <3>2. Total(f, S) = f[Pick(S)] + Total(f, S \ {Pick(S)})
      BY <2>2, <3>1, TotalPick
    <3>3. Total(f, S \ {Pick(S)}) \in Int /\ f[Pick(S)] \in Int
      BY <1>1, <3>1
    <3>4. QED
      BY <3>2, <3>3
  <2>3. QED
    BY <2>1, <2>2
<1>2. \A S \in SUBSET T : (\A x \in S : S \ {x} \in Good) => S \in Good
  BY <1>1
<1> HIDE DEF Good
<1>3. \A S \in SUBSET T : S \in Good
  BY <1>2, SubsetInduction
<1>4. QED
  BY <1>3 DEF Good

(* The order of the fold does not matter: any element can be taken out.    *)
LEMMA TotalRemove ==
    ASSUME NEW T, IsFiniteSet(T), NEW f, \A s \in T : f[s] \in Int
    PROVE  \A x \in T : Total(f, T) = f[x] + Total(f, T \ {x})
<1> DEFINE Good == {S \in SUBSET T : \A x \in S : Total(f, S) = f[x] + Total(f, S \ {x})}
<1>1. ASSUME NEW S \in SUBSET T, \A x \in S : S \ {x} \in Good
      PROVE  S \in Good
  <2>1. SUFFICES ASSUME NEW x \in S
                 PROVE  Total(f, S) = f[x] + Total(f, S \ {x})
    OBVIOUS
  <2> DEFINE y == Pick(S)
             V == (S \ {x}) \ {y}
  <2>2. y \in S /\ IsFiniteSet(S) /\ IsFiniteSet(V)
    BY PickIn, FS_Subset
  <2>3. Total(f, S) = f[y] + Total(f, S \ {y})
    BY <2>1, <2>2, TotalPick
  <2>4. CASE x = y
    BY <2>3, <2>4
  <2>5. CASE x # y
    <3>1. Total(f, S \ {y}) = f[x] + Total(f, V)
      <4>1. Total(f, S \ {y}) = f[x] + Total(f, (S \ {y}) \ {x})
        BY <1>1, <2>2, <2>5
      <4>2. (S \ {y}) \ {x} = V
        OBVIOUS
      <4>3. QED
        BY <4>1, <4>2
    <3>2. Total(f, S \ {x}) = f[y] + Total(f, V)
      BY <1>1, <2>2, <2>5
    <3>4. Total(f, V) \in Int
      BY <2>2, TotalInt
    <3>5. f[x] \in Int /\ f[y] \in Int
      BY <2>2
    <3> HIDE DEF V, y
    <3>6. QED
      BY <2>3, <3>1, <3>2, <3>4, <3>5
  <2>6. QED
    BY <2>4, <2>5
<1>2. \A S \in SUBSET T : (\A x \in S : S \ {x} \in Good) => S \in Good
  BY <1>1
<1> HIDE DEF Good
<1>3. \A S \in SUBSET T : S \in Good
  BY <1>2, SubsetInduction
<1>4. QED
  BY <1>3 DEF Good

(* A sum depends only on the values at the elements summed over.           *)
LEMMA TotalSame ==
    ASSUME NEW T, IsFiniteSet(T), NEW f, NEW g, \A s \in T : f[s] = g[s]
    PROVE  Total(f, T) = Total(g, T)
<1> DEFINE Good == {S \in SUBSET T : Total(f, S) = Total(g, S)}
<1>1. ASSUME NEW S \in SUBSET T, \A x \in S : S \ {x} \in Good
      PROVE  S \in Good
  <2>1. CASE S = {}
    BY <2>1, TotalEmpty
  <2>2. CASE S # {}
    <3>1. Pick(S) \in S /\ IsFiniteSet(S)
      BY <2>2, PickIn, FS_Subset
    <3>2. /\ Total(f, S) = f[Pick(S)] + Total(f, S \ {Pick(S)})
          /\ Total(g, S) = g[Pick(S)] + Total(g, S \ {Pick(S)})
      BY <2>2, <3>1, TotalPick
    <3>3. Total(f, S \ {Pick(S)}) = Total(g, S \ {Pick(S)})
      BY <1>1, <3>1
    <3>4. QED
      BY <3>1, <3>2, <3>3
  <2>3. QED
    BY <2>1, <2>2
<1>2. \A S \in SUBSET T : (\A x \in S : S \ {x} \in Good) => S \in Good
  BY <1>1
<1> HIDE DEF Good
<1>3. \A S \in SUBSET T : S \in Good
  BY <1>2, SubsetInduction
<1>4. QED
  BY <1>3 DEF Good

(* Sums add up pointwise.                                                  *)
LEMMA TotalPlus ==
    ASSUME NEW T, IsFiniteSet(T), NEW f, NEW g, NEW h,
           \A s \in T : f[s] \in Int /\ g[s] \in Int /\ h[s] = f[s] + g[s]
    PROVE  Total(h, T) = Total(f, T) + Total(g, T)
<1> DEFINE Good == {S \in SUBSET T : Total(h, S) = Total(f, S) + Total(g, S)}
<1>1. ASSUME NEW S \in SUBSET T, \A x \in S : S \ {x} \in Good
      PROVE  S \in Good
  <2>1. CASE S = {}
    BY <2>1, TotalEmpty
  <2>2. CASE S # {}
    <3> DEFINE x == Pick(S)
               V == S \ {x}
    <3>1. x \in S /\ IsFiniteSet(S) /\ IsFiniteSet(V)
      BY <2>2, PickIn, FS_Subset
    <3>2. /\ Total(f, S) = f[x] + Total(f, V)
          /\ Total(g, S) = g[x] + Total(g, V)
          /\ Total(h, S) = h[x] + Total(h, V)
      BY <2>2, <3>1, TotalPick
    <3>3. Total(h, V) = Total(f, V) + Total(g, V)
      BY <1>1, <3>1
    <3>4. Total(f, V) \in Int /\ Total(g, V) \in Int
      BY <3>1, TotalInt
    <3>5. f[x] \in Int /\ g[x] \in Int /\ h[x] = f[x] + g[x]
      BY <3>1
    <3> HIDE DEF V, x
    <3>6. QED
      BY <3>2, <3>3, <3>4, <3>5
  <2>3. QED
    BY <2>1, <2>2
<1>2. \A S \in SUBSET T : (\A x \in S : S \ {x} \in Good) => S \in Good
  BY <1>1
<1> HIDE DEF Good
<1>3. \A S \in SUBSET T : S \in Good
  BY <1>2, SubsetInduction
<1>4. QED
  BY <1>3 DEF Good

(* Nothing adds up to nothing.                                             *)
LEMMA TotalZero ==
    ASSUME NEW T, IsFiniteSet(T), NEW f, \A s \in T : f[s] = 0
    PROVE  Total(f, T) = 0
<1>1. Total(f, T) = Total(f, T) + Total(f, T)
  BY TotalPlus
<1>2. Total(f, T) \in Int
  BY TotalInt
<1>3. QED
  BY <1>1, <1>2
=============================================================================
