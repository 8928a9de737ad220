------------------------------- MODULE SumProofs -------------------------------
(***************************************************************************)
(* Sums of a function over a finite set.                                   *)
(***************************************************************************)
EXTENDS Integers, Functions, FiniteSetTheorems, TLAPS

(* Induction on a finite set, over a set of subsets.                         *)
LEMMA SubsetInduction ==
  ASSUME NEW S, IsFiniteSet(S), NEW F,
         {} \in F,
         \A T \in SUBSET S, x \in S : x \notin T /\ T \in F => T \cup {x} \in F
  PROVE  S \in F
<1> DEFINE Bad == {T \in SUBSET S : T \notin F}
           R == StrictSubsetOrdering(S)
<1>1. SUFFICES ASSUME Bad # {} PROVE FALSE
  BY <1>1
<1>2. Bad \subseteq FiniteSubsetsOf(S)
  BY FS_Subset DEF FiniteSubsetsOf
<1>3. IsWellFoundedOn(R, FiniteSubsetsOf(S))
  BY FS_StrictSubsetOrderingWellFounded
<1>4. PICK T \in Bad : \A U \in Bad : <<U, T>> \notin R
  <2> HIDE DEF Bad, R
  <2> QED BY <1>1, <1>2, <1>3, WFMin
<1>5. PICK x \in T : TRUE
  BY <1>4
<1>6. T \ {x} \notin Bad
  <2>1. <<T \ {x}, T>> \in R
    BY <1>5 DEF StrictSubsetOrdering
  <2> QED BY <2>1, <1>4
<1>7. T = (T \ {x}) \cup {x}
  BY <1>5
<1> QED BY <1>4, <1>5, <1>6, <1>7

(* Induction on the natural numbers, over a set of numbers.                  *)
LEMMA NumberInduction ==
  ASSUME NEW F, 0 \in F, \A n \in Nat : n \in F => n + 1 \in F
  PROVE  \A n \in Nat : n \in F
<1> TAKE n \in Nat
<1> DEFINE G == {T \in SUBSET (1 .. n) : Cardinality(T) \in F}
<1>1. IsFiniteSet(1 .. n) /\ Cardinality(1 .. n) = n
  BY FS_Interval
<1>2. {} \in G
  BY FS_EmptySet
<1>3. ASSUME NEW T \in SUBSET (1 .. n), NEW x \in 1 .. n, x \notin T, T \in G
      PROVE  T \cup {x} \in G
  <2>1. IsFiniteSet(T) /\ Cardinality(T) \in Nat
    BY <1>1, FS_Subset, FS_CardinalityType
  <2>2. Cardinality(T \cup {x}) = Cardinality(T) + 1
    BY <2>1, <1>3, FS_AddElement
  <2> QED BY <2>1, <2>2, <1>3
<1>4. 1 .. n \in G
  <2> HIDE DEF G
  <2> QED BY <1>1, <1>2, <1>3, SubsetInduction
<1> QED BY <1>1, <1>4

--------------------------------------------------------------------------------
(* The table of a sum: g[T] is the sum of f over T, by the choices of        *)
(* FoldFunctionOnSet.                                                        *)
Pick(T) == CHOOSE x \in T : TRUE

SumStep(f, g, T) == IF T = {} THEN 0 ELSE f[Pick(T)] + g[T \ {Pick(T)}]

IsSumTable(f, S, g) == g = [T \in SUBSET S |-> SumStep(f, g, T)]

(* The sum of the community module is read off a table.                      *)
LEMMA SumIsChosen ==
  ASSUME NEW f, NEW S
  PROVE  SumFunctionOnSet(f, S) = (CHOOSE g : IsSumTable(f, S, g))[S]
BY DEF SumFunctionOnSet, FoldFunctionOnSet, MapThenFoldSet, IsSumTable, SumStep, Pick

(* What taking the picked element away leaves.                               *)
LEMMA PickShrinks ==
  ASSUME NEW S, IsFiniteSet(S)
  PROVE  \A T \in SUBSET S :
           /\ IsFiniteSet(T) /\ Cardinality(T) \in Nat
           /\ Cardinality(T) = 0 <=> T = {}
           /\ T # {} => /\ Pick(T) \in T
                        /\ T \ {Pick(T)} \in SUBSET S
                        /\ Cardinality(T \ {Pick(T)}) = Cardinality(T) - 1
<1> TAKE T \in SUBSET S
<1>1. IsFiniteSet(T) /\ Cardinality(T) \in Nat
  BY FS_Subset, FS_CardinalityType
<1>2. Cardinality(T) = 0 <=> T = {}
  BY <1>1, FS_EmptySet
<1>3. T # {} => Pick(T) \in T
  BY DEF Pick
<1> QED BY <1>1, <1>2, <1>3, FS_RemoveElement

(* A finite set has a table: one that is right up to n elements is extended  *)
(* to n + 1.                                                                 *)
LEMMA SumTableExists ==
  ASSUME NEW S, IsFiniteSet(S), NEW f
  PROVE  \E g : IsSumTable(f, S, g)
<1> DEFINE RightUpTo(n, g) == \A T \in SUBSET S : Cardinality(T) <= n => g[T] = SumStep(f, g, T)
           Extended(g) == [T \in SUBSET S |-> SumStep(f, g, T)]
           F == {n \in Nat : \E g : RightUpTo(n, g)}
<1>1. \A T \in SUBSET S : /\ Cardinality(T) \in Nat /\ IsFiniteSet(T)
                          /\ Cardinality(T) = 0 <=> T = {}
                          /\ T # {} => /\ Pick(T) \in T
                                       /\ T \ {Pick(T)} \in SUBSET S
                                       /\ Cardinality(T \ {Pick(T)}) = Cardinality(T) - 1
  BY PickShrinks
<1>2. 0 \in F
  <2> DEFINE g == [T \in SUBSET S |-> 0]
  <2>1. ASSUME NEW T \in SUBSET S, Cardinality(T) <= 0 PROVE T = {}
    <3>1. Cardinality(T) \in Nat
      BY <1>1
    <3>2. Cardinality(T) = 0
      BY <2>1, <3>1
    <3> QED BY <3>2, <1>1
  <2>2. RightUpTo(0, g)
    BY <2>1 DEF SumStep
  <2> QED BY <2>2
<1>3. ASSUME NEW n \in Nat, n \in F PROVE n + 1 \in F
  <2>1. PICK g : RightUpTo(n, g)
    BY <1>3
  <2>2. ASSUME NEW T \in SUBSET S, Cardinality(T) <= n + 1
        PROVE  Extended(g)[T] = SumStep(f, Extended(g), T)
    <3>1. Extended(g)[T] = SumStep(f, g, T)
      OBVIOUS
    <3>2. T # {} => Extended(g)[T \ {Pick(T)}] = g[T \ {Pick(T)}]
      BY <2>1, <2>2, <1>1
    <3> HIDE DEF Extended
    <3> QED BY <3>1, <3>2 DEF SumStep
  <2>3. RightUpTo(n + 1, Extended(g))
    BY <2>2
  <2> HIDE DEF RightUpTo, Extended
  <2> QED BY <2>3
<1>4. PICK g : RightUpTo(Cardinality(S), g)
  <2>1. Cardinality(S) \in F
    <3> HIDE DEF F
    <3> QED BY <1>1, <1>2, <1>3, NumberInduction
  <2> QED BY <2>1
<1>5. \A T \in SUBSET S : Cardinality(T) <= Cardinality(S)
  BY FS_Subset
<1>6. \A T \in SUBSET S : Extended(g)[T] = SumStep(f, Extended(g), T)
  <2> TAKE T \in SUBSET S
  <2>1. T # {} => Extended(g)[T \ {Pick(T)}] = g[T \ {Pick(T)}]
    BY <1>1, <1>4, <1>5
  <2> QED BY <2>1 DEF SumStep
<1>7. IsSumTable(f, S, Extended(g))
  BY <1>6 DEF IsSumTable
<1> QED BY <1>7

(* Two tables agree wherever both are defined.                               *)
LEMMA SumTablesAgree ==
  ASSUME NEW S, IsFiniteSet(S), NEW T \in SUBSET S, NEW f, NEW g, NEW h,
         IsSumTable(f, S, g), IsSumTable(f, T, h)
  PROVE  \A U \in SUBSET T : g[U] = h[U]
<1> DEFINE F == {n \in Nat : \A U \in SUBSET T : Cardinality(U) = n => g[U] = h[U]}
<1>1. \A U \in SUBSET T : /\ Cardinality(U) \in Nat
                          /\ Cardinality(U) = 0 <=> U = {}
                          /\ U # {} => /\ U \ {Pick(U)} \in SUBSET T
                                       /\ Cardinality(U \ {Pick(U)}) = Cardinality(U) - 1
  BY FS_Subset, PickShrinks
<1>2. \A U \in SUBSET T : g[U] = SumStep(f, g, U) /\ h[U] = SumStep(f, h, U)
  BY DEF IsSumTable
<1>3. 0 \in F
  BY <1>1, <1>2 DEF SumStep
<1>4. ASSUME NEW n \in Nat, n \in F PROVE n + 1 \in F
  <2>1. ASSUME NEW U \in SUBSET T, Cardinality(U) = n + 1 PROVE g[U] = h[U]
    <3>1. U # {}
      <4>1. Cardinality(U) # 0
        BY <2>1
      <4> QED BY <4>1, <1>1
    <3>2. Cardinality(U \ {Pick(U)}) = n /\ U \ {Pick(U)} \in SUBSET T
      BY <2>1, <3>1, <1>1
    <3>3. g[U \ {Pick(U)}] = h[U \ {Pick(U)}]
      BY <3>2, <1>4
    <3> QED BY <3>1, <3>3, <1>2 DEF SumStep
  <2> QED BY <2>1
<1>5. \A n \in Nat : n \in F
  <2> HIDE DEF F
  <2> QED BY <1>3, <1>4, NumberInduction
<1> QED BY <1>5, <1>1

(* The two cases of a sum.                                                   *)
LEMMA SumCases ==
  ASSUME NEW S, IsFiniteSet(S), NEW f
  PROVE  SumFunctionOnSet(f, S) =
           IF S = {} THEN 0 ELSE f[Pick(S)] + SumFunctionOnSet(f, S \ {Pick(S)})
<1> DEFINE Table(T) == CHOOSE g : IsSumTable(f, T, g)
<1>1. \A T \in SUBSET S : IsSumTable(f, T, Table(T)) /\ SumFunctionOnSet(f, T) = Table(T)[T]
  BY FS_Subset, SumTableExists, SumIsChosen
<1> HIDE DEF Table
<1>2. Table(S)[S] = SumStep(f, Table(S), S)
  BY <1>1 DEF IsSumTable
<1>3. Table(S)[S \ {Pick(S)}] = Table(S \ {Pick(S)})[S \ {Pick(S)}]
  <2> DEFINE T == S \ {Pick(S)}
  <2>1. T \in SUBSET S /\ T \in SUBSET T
    OBVIOUS
  <2> HIDE DEF T
  <2>2. IsSumTable(f, S, Table(S)) /\ IsSumTable(f, T, Table(T))
    BY <2>1, <1>1
  <2>3. Table(S)[T] = Table(T)[T]
    BY <2>1, <2>2, SumTablesAgree
  <2> QED BY <2>3 DEF T
<1> QED BY <1>1, <1>2, <1>3 DEF SumStep

(* A sum of naturals is a natural, zero over the empty set, and may be       *)
(* taken apart at any element.                                               *)
THEOREM SumType ==
  ASSUME NEW S, IsFiniteSet(S), NEW f, \A x \in S : f[x] \in Nat
  PROVE  SumFunctionOnSet(f, S) \in Nat
<1> DEFINE F == {n \in Nat : \A T \in SUBSET S : Cardinality(T) = n => SumFunctionOnSet(f, T) \in Nat}
<1>1. \A T \in SUBSET S : /\ Cardinality(T) \in Nat /\ IsFiniteSet(T)
                          /\ Cardinality(T) = 0 <=> T = {}
                          /\ T # {} => /\ Pick(T) \in T
                                       /\ T \ {Pick(T)} \in SUBSET S
                                       /\ Cardinality(T \ {Pick(T)}) = Cardinality(T) - 1
  BY PickShrinks
<1>2. 0 \in F
  BY <1>1, SumCases
<1>3. ASSUME NEW n \in Nat, n \in F PROVE n + 1 \in F
  <2>1. ASSUME NEW T \in SUBSET S, Cardinality(T) = n + 1 PROVE SumFunctionOnSet(f, T) \in Nat
    <3>1. T # {} /\ SumFunctionOnSet(f, T \ {Pick(T)}) \in Nat /\ f[Pick(T)] \in Nat
      BY <2>1, <1>1, <1>3
    <3>2. SumFunctionOnSet(f, T) = f[Pick(T)] + SumFunctionOnSet(f, T \ {Pick(T)})
      BY <3>1, <1>1, SumCases
    <3> QED BY <3>1, <3>2
  <2> QED BY <2>1
<1>4. \A n \in Nat : n \in F
  <2> HIDE DEF F
  <2> QED BY <1>2, <1>3, NumberInduction
<1> QED BY <1>4, <1>1

(* A sum may be taken apart at any element, whichever is picked first.       *)
THEOREM SumTakeOut ==
  ASSUME NEW S, IsFiniteSet(S), NEW f, \A x \in S : f[x] \in Nat, NEW y \in S
  PROVE  SumFunctionOnSet(f, S) = f[y] + SumFunctionOnSet(f, S \ {y})
<1> DEFINE Sum(T) == SumFunctionOnSet(f, T)
           F == {n \in Nat : \A T \in SUBSET S : Cardinality(T) = n =>
                   \A x \in T : Sum(T) = f[x] + Sum(T \ {x})}
<1>1. \A T \in SUBSET S : /\ Cardinality(T) \in Nat /\ IsFiniteSet(T)
                          /\ Cardinality(T) = 0 <=> T = {}
                          /\ T # {} => Pick(T) \in T
  BY PickShrinks
<1>2. \A T \in SUBSET S : T # {} => Sum(T) = f[Pick(T)] + Sum(T \ {Pick(T)})
  BY <1>1, SumCases
<1>3. \A T \in SUBSET S : Sum(T) \in Nat
  BY <1>1, SumType
<1>4. \A T \in SUBSET S : \A x \in T : Cardinality(T \ {x}) = Cardinality(T) - 1
  BY <1>1, FS_RemoveElement
<1> HIDE DEF Sum
<1>5. 0 \in F
  BY <1>1
<1>6. ASSUME NEW n \in Nat, n \in F PROVE n + 1 \in F
  <2>1. ASSUME NEW T \in SUBSET S, Cardinality(T) = n + 1, NEW x \in T
        PROVE  Sum(T) = f[x] + Sum(T \ {x})
    <3> DEFINE z == Pick(T)
    <3>1. z \in T /\ Sum(T) = f[z] + Sum(T \ {z})
      BY <1>1, <1>2
    <3> HIDE DEF z
    <3>2. CASE x = z
      BY <3>1, <3>2
    <3>3. CASE x # z
      <4>1. Cardinality(T \ {z}) = n /\ Cardinality(T \ {x}) = n
        BY <1>4, <2>1, <3>1
      <4>2. T \ {z} \in SUBSET S /\ x \in T \ {z} /\ T \ {x} \in SUBSET S /\ z \in T \ {x}
        BY <3>1, <3>3
      <4>3. Sum(T \ {z}) = f[x] + Sum((T \ {z}) \ {x})
        BY <4>1, <4>2, <1>6
      <4>4. Sum(T \ {x}) = f[z] + Sum((T \ {x}) \ {z})
        BY <4>1, <4>2, <1>6
      <4>5. (T \ {x}) \ {z} = (T \ {z}) \ {x} /\ (T \ {z}) \ {x} \in SUBSET S
        OBVIOUS
      <4>6. Sum((T \ {z}) \ {x}) \in Nat /\ f[x] \in Nat /\ f[z] \in Nat
        BY <4>5, <1>3, <3>1
      <4> QED BY <3>1, <4>3, <4>4, <4>5, <4>6
    <3> QED BY <3>2, <3>3
  <2> QED BY <2>1
<1>7. \A n \in Nat : n \in F
  <2> HIDE DEF F
  <2> QED BY <1>5, <1>6, NumberInduction
<1> QED BY <1>7, <1>1 DEF Sum

(* An element more.                                                          *)
THEOREM SumAdd ==
  ASSUME NEW S, IsFiniteSet(S), NEW y, y \notin S, NEW f, \A x \in S \cup {y} : f[x] \in Nat
  PROVE  SumFunctionOnSet(f, S \cup {y}) = f[y] + SumFunctionOnSet(f, S)
<1>1. IsFiniteSet(S \cup {y}) /\ (S \cup {y}) \ {y} = S
  BY FS_AddElement
<1> QED BY <1>1, SumTakeOut

(* The empty sum.                                                            *)
THEOREM SumEmpty == ASSUME NEW f PROVE SumFunctionOnSet(f, {}) = 0
BY SumCases, FS_EmptySet

(* Functions that agree on a set have the same sum over it.                  *)
THEOREM SumSame ==
  ASSUME NEW S, IsFiniteSet(S), NEW f, NEW g, \A x \in S : f[x] \in Nat /\ f[x] = g[x]
  PROVE  SumFunctionOnSet(f, S) = SumFunctionOnSet(g, S)
<1> DEFINE F == {T \in SUBSET S : SumFunctionOnSet(f, T) = SumFunctionOnSet(g, T)}
<1>1. {} \in F
  BY SumEmpty
<1>2. ASSUME NEW T \in SUBSET S, NEW x \in S, x \notin T, T \in F PROVE T \cup {x} \in F
  <2>1. IsFiniteSet(T) /\ T \cup {x} \in SUBSET S
    BY FS_Subset
  <2>2. SumFunctionOnSet(f, T \cup {x}) = f[x] + SumFunctionOnSet(f, T)
    BY <2>1, <1>2, SumAdd
  <2>3. SumFunctionOnSet(g, T \cup {x}) = g[x] + SumFunctionOnSet(g, T)
    BY <2>1, <1>2, SumAdd
  <2> QED BY <2>1, <2>2, <2>3, <1>2
<1>3. S \in F
  <2> HIDE DEF F
  <2> QED BY <1>1, <1>2, SubsetInduction
<1> QED BY <1>3

(* Fewer elements, smaller sum.                                              *)
THEOREM SumMonotone ==
  ASSUME NEW S, IsFiniteSet(S), NEW f, \A x \in S : f[x] \in Nat, NEW T \in SUBSET S
  PROVE  SumFunctionOnSet(f, T) <= SumFunctionOnSet(f, S)
<1> DEFINE F == {U \in SUBSET (S \ T) : SumFunctionOnSet(f, T) <= SumFunctionOnSet(f, T \cup U)}
<1>1. IsFiniteSet(S \ T) /\ \A U \in SUBSET (S \ T) : IsFiniteSet(T \cup U) /\ SumFunctionOnSet(f, T \cup U) \in Nat
  BY FS_Subset, SumType
<1>2. {} \in F
  <2>1. T \cup {} = T /\ {} \in SUBSET (S \ T)
    OBVIOUS
  <2>2. SumFunctionOnSet(f, T \cup {}) \in Nat
    BY <2>1, <1>1
  <2> QED BY <2>1, <2>2
<1>3. ASSUME NEW U \in SUBSET (S \ T), NEW x \in S \ T, x \notin U, U \in F PROVE U \cup {x} \in F
  <2>1. T \cup (U \cup {x}) = (T \cup U) \cup {x} /\ x \notin T \cup U
    BY <1>3
  <2>2. SumFunctionOnSet(f, (T \cup U) \cup {x}) = f[x] + SumFunctionOnSet(f, T \cup U)
    BY <2>1, <1>1, SumAdd
  <2>3. SumFunctionOnSet(f, T \cup U) \in Nat /\ SumFunctionOnSet(f, T) \in Nat /\ f[x] \in Nat
    BY <1>1, FS_Subset, SumType
  <2>4. SumFunctionOnSet(f, T) <= SumFunctionOnSet(f, T \cup U)
    BY <1>3
  <2>5. SumFunctionOnSet(f, T \cup U) \in Nat
    BY <1>1
  <2>6. SumFunctionOnSet(f, T) <= SumFunctionOnSet(f, (T \cup U) \cup {x})
    BY <2>2, <2>3, <2>4, <2>5
  <2> QED BY <2>1, <2>6
<1>4. S \ T \in F
  <2> HIDE DEF F
  <2> QED BY <1>1, <1>2, <1>3, SubsetInduction
<1>5. T \cup (S \ T) = S
  OBVIOUS
<1> QED BY <1>4, <1>5

================================================================================
