------------------------- MODULE DiskLruCache_proofs -------------------------
(***************************************************************************)
(* Safety of DiskLruCache for every number of keys, values, edits, crashes *)
(* and I/O errors.  A call in progress is the sequence of the steps it     *)
(* still has to do, so the inductive invariant says of these steps in      *)
(* which order they may come, what the next one needs of the entry it is   *)
(* about, and, while a journal is read, which entries the size does not    *)
(* count yet.                                                              *)
(***************************************************************************)
EXTENDS DiskLruCache, FiniteSetTheorems, WellFoundedInduction, NaturalsInduction, TLAPS

-----------------------------------------------------------------------------
(***************************************************************************)
(* Induction, and folds over finite sets.                                  *)
(***************************************************************************)
\* Induction over the naturals, for a set in place of a predicate.
LEMMA NatIn ==
  ASSUME NEW T, 0 \in T, \A n \in Nat : n \in T => n + 1 \in T
  PROVE  Nat \subseteq T
<1> DEFINE Less == {ss \in Nat \X Nat : ss[1] < ss[2]}
           S == Nat \ T
<1>1. IsWellFoundedOn(Less, Nat)
  BY NatLessThanWellFounded DEF OpToRel
<1> SUFFICES ASSUME S # {} PROVE FALSE
  OBVIOUS
<1>2. PICK m \in S : \A n \in S : ~(<<n, m>> \in Less)
  <2> S \subseteq Nat
    OBVIOUS
  <2> HIDE DEF Less, S
  <2> QED
    BY <1>1, WFMin
<1>3. m \in Nat /\ m # 0 /\ m \notin T
  OBVIOUS
<1>4. m - 1 \in Nat /\ m - 1 < m /\ (m - 1) + 1 = m
  BY <1>3
<1>5. m - 1 \notin T
  BY <1>3, <1>4
<1>6. <<m - 1, m>> \in Less
  BY <1>3, <1>4
<1> QED
  BY <1>2, <1>4, <1>5, <1>6

\* A finite set without one of its elements.
LEMMA OneLess ==
  ASSUME NEW S, IsFiniteSet(S), NEW x \in S
  PROVE  /\ S \ {x} \in SUBSET S /\ IsFiniteSet(S \ {x})
         /\ Cardinality(S) \in Nat /\ Cardinality(S) # 0
         /\ Cardinality(S \ {x}) \in Nat /\ Cardinality(S \ {x}) = Cardinality(S) - 1
<1>1. IsFiniteSet(S \ {x}) /\ Cardinality(S \ {x}) = Cardinality(S) - 1
  BY FS_RemoveElement
<1>2. Cardinality(S) \in Nat /\ Cardinality(S \ {x}) \in Nat
  BY <1>1, FS_CardinalityType
<1> QED
  BY <1>1, <1>2

\* The subsets of a finite set.
LEMMA SubsetsFinite ==
  ASSUME NEW S, IsFiniteSet(S)
  PROVE  \A T \in SUBSET S : /\ IsFiniteSet(T) /\ Cardinality(T) \in Nat
                             /\ Cardinality(T) <= Cardinality(S)
                             /\ Cardinality(T) = 0 <=> T = {}
  BY FS_Subset, FS_CardinalityType, FS_EmptySet

\* g folds h over the subsets of S, taking from each the element that c chooses.
Folds(g, S, b, h, c) ==
    \A T \in SUBSET S : g[T] = IF T = {} THEN b ELSE h[c[T]][g[T \ {c[T]}]]

Foldable(S, M, b, h, c) ==
    /\ IsFiniteSet(S) /\ b \in M /\ h \in [S -> [M -> M]]
    /\ \A T \in SUBSET S : T # {} => c[T] \in T

HasFold(S, M, b, h, c) == \E g \in [SUBSET S -> M] : Folds(g, S, b, h, c)

\* A fold over a finite set exists: by induction over the size of its subsets.
LEMMA FoldExists ==
  ASSUME NEW S, NEW M, NEW b, NEW h, NEW c, Foldable(S, M, b, h, c)
  PROVE  HasFold(S, M, b, h, c)
<1> /\ IsFiniteSet(S) /\ b \in M /\ h \in [S -> [M -> M]]
    /\ \A T \in SUBSET S : T # {} => c[T] \in T
  BY DEF Foldable
<1> DEFINE Upto(n) == {T \in SUBSET S : Cardinality(T) <= n}
           Ok(g, n) == \A T \in Upto(n) : g[T] = IF T = {} THEN b ELSE h[c[T]][g[T \ {c[T]}]]
           N == {n \in Nat : \E g \in [SUBSET S -> M] : Ok(g, n)}
<1>0. \A T \in SUBSET S : IsFiniteSet(T) /\ Cardinality(T) \in Nat /\ Cardinality(T) <= Cardinality(S)
  BY SubsetsFinite
<1>1. 0 \in N
  <2> DEFINE g == [T \in SUBSET S |-> b]
  <2>1. \A T \in Upto(0) : T = {}
    BY <1>0, FS_EmptySet
  <2>2. Ok(g, 0)
    BY <2>1
  <2>3. g \in [SUBSET S -> M]
    OBVIOUS
  <2> HIDE DEF g
  <2> QED
    BY <2>2, <2>3
<1>2. ASSUME NEW n \in Nat, n \in N PROVE n + 1 \in N
  <2>1. PICK g \in [SUBSET S -> M] : Ok(g, n)
    BY <1>2
  <2> DEFINE e == [T \in SUBSET S |-> IF T \in Upto(n) THEN g[T] ELSE h[c[T]][g[T \ {c[T]}]]]
  <2>2. \A T \in SUBSET S : T # {} =>
           /\ c[T] \in S /\ T \ {c[T]} \in SUBSET S
           /\ Cardinality(T \ {c[T]}) = Cardinality(T) - 1
           /\ h[c[T]][g[T \ {c[T]}]] \in M
    <3> SUFFICES ASSUME NEW T \in SUBSET S, T # {}
                 PROVE  /\ c[T] \in S /\ T \ {c[T]} \in SUBSET S
                        /\ Cardinality(T \ {c[T]}) = Cardinality(T) - 1
                        /\ h[c[T]][g[T \ {c[T]}]] \in M
      OBVIOUS
    <3>1. c[T] \in T /\ c[T] \in S /\ T \ {c[T]} \in SUBSET S
      OBVIOUS
    <3>2. g[T \ {c[T]}] \in M /\ h[c[T]] \in [M -> M]
      BY <3>1
    <3> QED
      BY <3>1, <3>2, <1>0, OneLess
  <2>z. {} \in Upto(n)
    BY FS_EmptySet
  <2>3. e \in [SUBSET S -> M]
    BY <2>2, <2>z
  <2>4. ASSUME NEW T \in Upto(n + 1) PROVE e[T] = IF T = {} THEN b ELSE h[c[T]][e[T \ {c[T]}]]
    <3>1. CASE T = {}
      BY <3>1, <2>z, <2>1
    <3>2. CASE T # {}
      <4>1. T \ {c[T]} \in Upto(n)
        <5>1. Cardinality(T) <= n + 1 /\ Cardinality(T) \in Nat /\ T \in SUBSET S
          BY <1>0
        <5>2. T \ {c[T]} \in SUBSET S /\ Cardinality(T \ {c[T]}) = Cardinality(T) - 1
          BY <3>2, <2>2
        <5> QED
          BY <5>1, <5>2
      <4>2. e[T \ {c[T]}] = g[T \ {c[T]}]
        BY <4>1
      <4>3. e[T] = h[c[T]][g[T \ {c[T]}]]
        BY <2>1, <3>2
      <4> QED
        BY <3>2, <4>2, <4>3
    <3> QED
      BY <3>1, <3>2
  <2>5. Ok(e, n + 1)
    BY <2>4
  <2>6. \E d \in [SUBSET S -> M] : Ok(d, n + 1)
    <3> HIDE DEF e, Ok
    <3> QED
      BY <2>3, <2>5
  <2>7. n + 1 \in Nat
    OBVIOUS
  <2> HIDE DEF Ok
  <2> QED
    BY <2>6, <2>7
<1>3. Cardinality(S) \in N
  <2> HIDE DEF N
  <2> QED
    BY <1>1, <1>2, NatIn, FS_CardinalityType
<1>4. PICK g \in [SUBSET S -> M] : Ok(g, Cardinality(S))
  BY <1>3
<1>5. \A T \in SUBSET S : T \in Upto(Cardinality(S))
  BY <1>0
<1> QED
  BY <1>4, <1>5 DEF Folds, HasFold

\* The sum of f over S, as the definitions of the library have it.
Pick(T) == CHOOSE x \in T : TRUE
SumRec(f, S, g) == g = [T \in SUBSET S |-> IF T = {} THEN 0 ELSE f[Pick(T)] + g[T \ {Pick(T)}]]
SumOver(f, S) == (CHOOSE g : SumRec(f, S, g))[S]

\* So does the function that the definition of a sum chooses.
LEMMA SumRecExists ==
  ASSUME NEW S, IsFiniteSet(S), NEW f, \A x \in S : f[x] \in Int
  PROVE  \E g \in [SUBSET S -> Int] : SumRec(f, S, g)
<1> DEFINE h == [x \in S |-> [v \in Int |-> f[x] + v]]
           c == [T \in SUBSET S |-> Pick(T)]
<1>1. h \in [S -> [Int -> Int]]
  OBVIOUS
<1>2. \A T \in SUBSET S : T # {} => c[T] \in T
  BY DEF Pick
<1>3. \E g \in [SUBSET S -> Int] : Folds(g, S, 0, h, c)
  <2> HIDE DEF h, c
  <2>0. 0 \in Int
    OBVIOUS
  <2>1. Foldable(S, Int, 0, h, c)
    BY <1>1, <1>2, <2>0 DEF Foldable
  <2>2. HasFold(S, Int, 0, h, c)
    BY <2>1, FoldExists
  <2> QED
    BY <2>2 DEF HasFold
<1>p. PICK g \in [SUBSET S -> Int] : Folds(g, S, 0, h, c)
  BY <1>3
<1>4. ASSUME NEW T \in SUBSET S
      PROVE g[T] = IF T = {} THEN 0 ELSE f[Pick(T)] + g[T \ {Pick(T)}]
  <2>1. CASE T = {}
    BY <1>p, <2>1 DEF Folds
  <2>2. CASE T # {}
    <3>1. c[T] = Pick(T) /\ c[T] \in S /\ g[T \ {c[T]}] \in Int
      BY <1>2, <2>2
    <3>2. g[T] = h[c[T]][g[T \ {c[T]}]]
      BY <1>p, <2>2 DEF Folds
    <3> QED
      BY <2>2, <3>1, <3>2
  <2> QED
    BY <2>1, <2>2
<1>5. SumRec(f, S, g)
  BY <1>4 DEF SumRec
<1> QED
  BY <1>5

\* Every sum is an integer, and every element may be taken first.
LEMMA SumRecStep ==
  ASSUME NEW S, NEW f, NEW g, SumRec(f, S, g)
  PROVE  \A T \in SUBSET S : g[T] = IF T = {} THEN 0 ELSE f[Pick(T)] + g[T \ {Pick(T)}]
<1>1. g = [T \in SUBSET S |-> IF T = {} THEN 0 ELSE f[Pick(T)] + g[T \ {Pick(T)}]]
  BY DEF SumRec
<1> QED
  BY <1>1

\* Every sum is an integer.
LEMMA SumRecInt ==
  ASSUME NEW S, IsFiniteSet(S), NEW f, \A x \in S : f[x] \in Int, NEW g, SumRec(f, S, g)
  PROVE  \A T \in SUBSET S : g[T] \in Int
<1> DEFINE N == {n \in Nat : \A T \in SUBSET S : Cardinality(T) = n => g[T] \in Int}
<1>0. \A T \in SUBSET S : IsFiniteSet(T) /\ Cardinality(T) \in Nat /\ (Cardinality(T) = 0 <=> T = {})
  BY SubsetsFinite
<1>s. \A T \in SUBSET S : g[T] = IF T = {} THEN 0 ELSE f[Pick(T)] + g[T \ {Pick(T)}]
  BY SumRecStep
<1>1. 0 \in N
  <2>1. g[{}] = 0
    BY <1>s
  <2> QED
    BY <1>0, <2>1
<1>2. ASSUME NEW n \in Nat, n \in N PROVE n + 1 \in N
  <2> SUFFICES ASSUME NEW T \in SUBSET S, Cardinality(T) = n + 1 PROVE g[T] \in Int
    OBVIOUS
  <2>1. T # {} /\ Pick(T) \in T
    BY FS_EmptySet DEF Pick
  <2>2. T \ {Pick(T)} \in SUBSET S /\ Cardinality(T \ {Pick(T)}) = n
    <3> HIDE DEF Pick
    <3> QED
      BY <1>0, <2>1, OneLess
  <2>3. g[T \ {Pick(T)}] \in Int /\ f[Pick(T)] \in Int
    BY <1>2, <2>1, <2>2
  <2>4. g[T] = f[Pick(T)] + g[T \ {Pick(T)}]
    BY <1>s, <2>1
  <2> QED
    BY <2>3, <2>4
<1>3. Nat \subseteq N
  <2> HIDE DEF N
  <2> QED
    BY <1>1, <1>2, NatIn
<1> QED
  BY <1>0, <1>3

\* Every element may be taken first.
LEMMA SumRecAny ==
  ASSUME NEW S, IsFiniteSet(S), NEW f, \A x \in S : f[x] \in Int, NEW g, SumRec(f, S, g)
  PROVE  \A T \in SUBSET S : \A x \in T : g[T] = f[x] + g[T \ {x}]
<1> DEFINE Ok(T) == \A x \in T : g[T] = f[x] + g[T \ {x}]
           N == {n \in Nat : \A T \in SUBSET S : Cardinality(T) = n => Ok(T)}
<1>0. \A T \in SUBSET S : IsFiniteSet(T) /\ Cardinality(T) \in Nat /\ (Cardinality(T) = 0 <=> T = {})
  BY SubsetsFinite
<1>1. 0 \in N
  BY <1>0, FS_EmptySet
<1>2. ASSUME NEW n \in Nat, n \in N PROVE n + 1 \in N
  <2> SUFFICES ASSUME NEW T \in SUBSET S, Cardinality(T) = n + 1, NEW x \in T
               PROVE g[T] = f[x] + g[T \ {x}]
    OBVIOUS
  <2>1. \A y \in T : T \ {y} \in SUBSET S /\ Ok(T \ {y})
    <3> SUFFICES ASSUME NEW y \in T PROVE T \ {y} \in SUBSET S /\ Cardinality(T \ {y}) = n
      BY <1>2
    <3> QED
      BY <1>0, OneLess
  <2>2. PICK p \in T : g[T] = f[p] + g[T \ {p}]
    <3>1. Pick(T) \in T
      BY DEF Pick
    <3>2. g[T] = f[Pick(T)] + g[T \ {Pick(T)}]
      BY <3>1, SumRecStep
    <3> HIDE DEF Pick
    <3> QED
      BY <3>1, <3>2
  <2>3. CASE x = p
    BY <2>2, <2>3
  <2>4. CASE x # p
    <3>1. g[T \ {p}] = f[x] + g[(T \ {p}) \ {x}]
      BY <2>1, <2>4
    <3>2. g[T \ {x}] = f[p] + g[(T \ {x}) \ {p}]
      BY <2>1, <2>4
    <3>3. (T \ {p}) \ {x} = (T \ {x}) \ {p} /\ (T \ {p}) \ {x} \in SUBSET S
      OBVIOUS
    <3>4. g[(T \ {p}) \ {x}] \in Int /\ f[x] \in Int /\ f[p] \in Int
      BY <3>3, SumRecInt
    <3> DEFINE u == g[(T \ {p}) \ {x}]
    <3>5. g[T] = f[p] + (f[x] + u) /\ g[T \ {x}] = f[p] + u
      BY <2>2, <3>1, <3>2, <3>3
    <3> HIDE DEF u
    <3>6. u \in Int
      BY <3>4 DEF u
    <3> QED
      BY <3>4, <3>5, <3>6
  <2> QED
    BY <2>3, <2>4
<1>3. Nat \subseteq N
  <2> HIDE DEF N
  <2> QED
    BY <1>1, <1>2, NatIn
<1> QED
  BY <1>0, <1>3

\* Two sums of the same numbers.
LEMMA SumRecSame ==
  ASSUME NEW S, IsFiniteSet(S), NEW f, NEW e, NEW g, NEW h, NEW R, S \subseteq R,
         \A x \in S : e[x] = f[x], SumRec(f, S, g), SumRec(e, R, h)
  PROVE  \A T \in SUBSET S : g[T] = h[T]
<1> DEFINE N == {n \in Nat : \A T \in SUBSET S : Cardinality(T) = n => g[T] = h[T]}
<1>0. \A T \in SUBSET S : IsFiniteSet(T) /\ Cardinality(T) \in Nat /\ (Cardinality(T) = 0 <=> T = {})
  BY SubsetsFinite
<1>s. \A T \in SUBSET S : /\ g[T] = IF T = {} THEN 0 ELSE f[Pick(T)] + g[T \ {Pick(T)}]
                          /\ h[T] = IF T = {} THEN 0 ELSE e[Pick(T)] + h[T \ {Pick(T)}]
  <2>1. \A T \in SUBSET S : g[T] = IF T = {} THEN 0 ELSE f[Pick(T)] + g[T \ {Pick(T)}]
    BY SumRecStep
  <2>2. \A T \in SUBSET R : h[T] = IF T = {} THEN 0 ELSE e[Pick(T)] + h[T \ {Pick(T)}]
    BY SumRecStep
  <2> HIDE DEF Pick
  <2> QED
    BY <2>1, <2>2
<1>1. 0 \in N
  BY <1>0, <1>s, FS_EmptySet
<1>2. ASSUME NEW n \in Nat, n \in N PROVE n + 1 \in N
  <2> SUFFICES ASSUME NEW T \in SUBSET S, Cardinality(T) = n + 1 PROVE g[T] = h[T]
    OBVIOUS
  <2>1. T # {} /\ Pick(T) \in T
    BY FS_EmptySet DEF Pick
  <2>2. T \ {Pick(T)} \in SUBSET S /\ Cardinality(T \ {Pick(T)}) = n
    <3> HIDE DEF Pick
    <3> QED
      BY <1>0, <2>1, OneLess
  <2>3. g[T \ {Pick(T)}] = h[T \ {Pick(T)}] /\ e[Pick(T)] = f[Pick(T)]
    BY <1>2, <2>1, <2>2
  <2> QED
    BY <1>s, <2>1, <2>3
<1>3. Nat \subseteq N
  <2> HIDE DEF N
  <2> QED
    BY <1>1, <1>2, NatIn
<1> QED
  BY <1>0, <1>3

\* What the proofs below use of sums.
LEMMA SumRecChoice ==
  ASSUME NEW S, IsFiniteSet(S), NEW f, \A x \in S : f[x] \in Int
  PROVE  \E g : SumRec(f, S, g) /\ SumOver(f, S) = g[S]
<1>1. \E g : SumRec(f, S, g)
  BY SumRecExists
<1> DEFINE G == CHOOSE g : SumRec(f, S, g)
<1>2. SumRec(f, S, G)
  BY <1>1
<1> QED
  BY <1>2 DEF SumOver

\* The sum over no element.
LEMMA SumEmpty == ASSUME NEW f PROVE SumOver(f, {}) = 0
<1>1. PICK g : SumRec(f, {}, g) /\ SumOver(f, {}) = g[{}]
  BY SumRecChoice, FS_EmptySet
<1> QED
  BY <1>1, SumRecStep

\* The sum of integers.
LEMMA SumInt ==
  ASSUME NEW S, IsFiniteSet(S), NEW f, \A x \in S : f[x] \in Int
  PROVE  SumOver(f, S) \in Int
  BY SumRecChoice, SumRecInt

\* Two functions that agree on a set have the same sum over it.
LEMMA SumSame ==
  ASSUME NEW S, IsFiniteSet(S), NEW f, NEW e, \A x \in S : f[x] \in Int /\ e[x] = f[x]
  PROVE  SumOver(f, S) = SumOver(e, S)
<1>1. PICK g : SumRec(f, S, g) /\ SumOver(f, S) = g[S]
  BY SumRecChoice
<1>2. PICK h : SumRec(e, S, h) /\ SumOver(e, S) = h[S]
  BY SumRecChoice
<1> QED
  BY <1>1, <1>2, SumRecSame

\* One element is taken from a sum.
LEMMA SumTake ==
  ASSUME NEW S, IsFiniteSet(S), NEW f, \A x \in S : f[x] \in Int, NEW x \in S
  PROVE  SumOver(f, S) = f[x] + SumOver(f, S \ {x})
<1>1. PICK g : SumRec(f, S, g) /\ SumOver(f, S) = g[S]
  BY SumRecChoice
<1>2. PICK h : SumRec(f, S \ {x}, h) /\ SumOver(f, S \ {x}) = h[S \ {x}]
  BY SumRecChoice, FS_Subset
<1>3. g[S] = f[x] + g[S \ {x}]
  BY <1>1, SumRecAny
<1>4. g[S \ {x}] = h[S \ {x}]
  BY <1>1, <1>2, SumRecSame, FS_Subset
<1> QED
  BY <1>1, <1>2, <1>3, <1>4

\* The sum of natural numbers.
LEMMA SumNat ==
  ASSUME NEW S, IsFiniteSet(S), NEW f, \A x \in S : f[x] \in Nat
  PROVE  SumOver(f, S) \in Nat
<1> DEFINE N == {n \in Nat : \A T \in SUBSET S : Cardinality(T) = n => SumOver(f, T) \in Nat}
<1>0. \A T \in SUBSET S : IsFiniteSet(T) /\ Cardinality(T) \in Nat /\ (Cardinality(T) = 0 <=> T = {})
  BY SubsetsFinite
<1>1. 0 \in N
  BY <1>0, FS_EmptySet, SumEmpty
<1>2. ASSUME NEW n \in Nat, n \in N PROVE n + 1 \in N
  <2> SUFFICES ASSUME NEW T \in SUBSET S, Cardinality(T) = n + 1 PROVE SumOver(f, T) \in Nat
    OBVIOUS
  <2>1. PICK x \in T : TRUE
    BY FS_EmptySet
  <2>2. T \ {x} \in SUBSET S /\ Cardinality(T \ {x}) = n
    BY <1>0, <2>1, OneLess
  <2>3. SumOver(f, T \ {x}) \in Nat
    BY <1>2, <2>2
  <2>4. SumOver(f, T) = f[x] + SumOver(f, T \ {x})
    BY <1>0, SumTake
  <2> QED
    BY <2>3, <2>4
<1>3. Nat \subseteq N
  <2> HIDE DEF N
  <2> QED
    BY <1>1, <1>2, NatIn
<1> QED
  BY <1>0, <1>3

\* One number is another.
LEMMA SumChange ==
  ASSUME NEW S, IsFiniteSet(S), NEW f, NEW e, NEW x \in S, f[x] \in Int,
         \A y \in S : e[y] \in Int, \A y \in S \ {x} : f[y] = e[y]
  PROVE  SumOver(f, S) = SumOver(e, S) - e[x] + f[x]
<1>1. SumOver(f, S) = f[x] + SumOver(f, S \ {x}) /\ SumOver(e, S) = e[x] + SumOver(e, S \ {x})
  BY SumTake
<1>2. SumOver(f, S \ {x}) = SumOver(e, S \ {x}) /\ SumOver(e, S \ {x}) \in Int
  BY SumSame, SumInt, FS_Subset
<1> QED
  BY <1>1, <1>2

\* The sums of the model are these.
LEMMA SumFunctionIs == ASSUME NEW f PROVE SumFunction(f) = SumOver(f, DOMAIN f)
  BY DEF SumFunction, SumFunctionOnSet, FoldFunctionOnSet, MapThenFoldSet, SumOver, SumRec, Pick

\* The sum of SizeIsSum is one of them.
LEMMA MapThenSumIs ==
  ASSUME NEW S, NEW m
  PROVE  MapThenSumSet(LAMBDA k : Total(m.ent[k]), S) = SumOver([k \in S |-> Total(m.ent[k])], S)
  BY DEF MapThenSumSet, MapThenFoldSet, SumOver, SumRec, Pick

-----------------------------------------------------------------------------
(***************************************************************************)
(* The LRU list.                                                           *)
(***************************************************************************)
Distinct(s) == \A i, j \in DOMAIN s : s[i] = s[j] => i = j

Before(s, x, y) == \E i, j \in DOMAIN s : i < j /\ s[i] = x /\ s[j] = y

\* A key leaves the list, and the others stay as they are.
LEMMA WithoutAbsent ==
  ASSUME NEW s \in Seq(Keys), NEW k, k \notin ToSet(s)
  PROVE  Without(s, k) = s
  BY DEF Without, RemoveFirst, ToSet

\* A key that the list has, at the place p.
LEMMA WithoutPresent ==
  ASSUME NEW s \in Seq(Keys), Distinct(s), NEW p \in 1..Len(s)
  PROVE  LET t == Without(s, s[p])
         IN  /\ t \in Seq(Keys) /\ Len(t) = Len(s) - 1
             /\ \A n \in 1..Len(s) - 1 : t[n] = IF n < p THEN s[n] ELSE s[n + 1]
<1> DEFINE I == {i \in 1..Len(s) : s[i] = s[p]}
<1>1. I = {p}
  BY DEF Distinct
<1>2. Min(I) = p
  <2>1. Min({p}) = p
    BY DEF Min
  <2> QED
    BY <1>1, <2>1
<1>3. SelectInSeq(s, LAMBDA v : v = s[p]) = p
  BY <1>1, <1>2 DEF SelectInSeq
<1>4. Without(s, s[p]) = SubSeq(s, 1, p - 1) \o SubSeq(s, p + 1, Len(s))
  BY <1>3 DEF Without, RemoveFirst, RemoveAt
<1> DEFINE a == SubSeq(s, 1, p - 1)  b == SubSeq(s, p + 1, Len(s))
<1>5. a \in Seq(Keys) /\ Len(a) = p - 1 /\ \A n \in 1..p - 1 : a[n] = s[n]
  OBVIOUS
<1>6. b \in Seq(Keys) /\ Len(b) = Len(s) - p /\ \A n \in 1..Len(s) - p : b[n] = s[n + p]
  OBVIOUS
<1> HIDE DEF a, b
<1>7. a \o b \in Seq(Keys) /\ Len(a \o b) = Len(s) - 1
  <2>1. a \o b \in Seq(Keys) /\ Len(a \o b) = Len(a) + Len(b)
    <3>1. a \in Seq(Keys) /\ b \in Seq(Keys)
      BY <1>5, <1>6
    <3>2. a \o b \in Seq(Keys)
      BY <3>1
    <3>3. Len(a \o b) = Len(a) + Len(b)
      BY <3>1
    <3> QED
      BY <3>2, <3>3
  <2>2. Len(a) + Len(b) = Len(s) - 1
    BY <1>5, <1>6
  <2> QED
    BY <2>1, <2>2
<1>8. ASSUME NEW n \in 1..Len(s) - 1 PROVE (a \o b)[n] = IF n < p THEN s[n] ELSE s[n + 1]
  <2>1. CASE n < p
    <3>1. (a \o b)[n] = a[n]
      BY <2>1, <1>5, <1>6
    <3> QED
      BY <3>1, <2>1, <1>5
  <2>2. CASE n >= p
    <3>1. (a \o b)[n] = b[n - Len(a)]
      BY <2>2, <1>5, <1>6
    <3> DEFINE m == n - Len(a)
    <3>2. m \in 1..Len(s) - p /\ m + p = n + 1
      BY <2>2, <1>5
    <3>3. b[m] = s[m + p]
      <4> HIDE DEF m
      <4> QED
        BY <3>2, <1>6
    <3>4. ~(n < p)
      BY <2>2
    <3> HIDE DEF m
    <3>5. (a \o b)[n] = s[n + 1]
      BY <3>1, <3>2, <3>3 DEF m
    <3> QED
      BY <3>4, <3>5
  <2>3. n < p \/ n >= p
    OBVIOUS
  <2> QED
    BY <2>1, <2>2, <2>3
<1> QED
  BY <1>4, <1>7, <1>8 DEF a, b

\* What is left of the list.
LEMMA WithoutIs ==
  ASSUME NEW s \in Seq(Keys), Distinct(s), NEW k
  PROVE  LET t == Without(s, k)
         IN  /\ t \in Seq(Keys) /\ Distinct(t)
             /\ ToSet(t) = ToSet(s) \ {k}
             /\ Len(t) <= Len(s)
             /\ k \in ToSet(s) => Len(t) = Len(s) - 1
             /\ \A x, y : Before(t, x, y) => Before(s, x, y)
<1>1. CASE k \notin ToSet(s)
  BY <1>1, WithoutAbsent
<1>2. CASE k \in ToSet(s)
  <2> DEFINE t == Without(s, k)
  <2>1. PICK p \in 1..Len(s) : s[p] = k
    BY <1>2 DEF ToSet
  <2>2. /\ t \in Seq(Keys) /\ Len(t) = Len(s) - 1
        /\ \A n \in 1..Len(s) - 1 : t[n] = IF n < p THEN s[n] ELSE s[n + 1]
    BY <2>1, WithoutPresent
  <2> HIDE DEF t
  <2>3. \A i, j \in DOMAIN t : i < j => \E a, b \in DOMAIN s : a < b /\ s[a] = t[i] /\ s[b] = t[j]
    <3> SUFFICES ASSUME NEW i \in DOMAIN t, NEW j \in DOMAIN t, i < j
                 PROVE  \E a, b \in DOMAIN s : a < b /\ s[a] = t[i] /\ s[b] = t[j]
      OBVIOUS
    <3> DEFINE a == IF i < p THEN i ELSE i + 1
               b == IF j < p THEN j ELSE j + 1
    <3>1. a \in DOMAIN s /\ b \in DOMAIN s /\ a < b /\ s[a] = t[i] /\ s[b] = t[j]
      BY <2>2
    <3> HIDE DEF a, b
    <3> QED
      BY <3>1
  <2>4. Distinct(t)
    <3> SUFFICES ASSUME NEW i \in DOMAIN t, NEW j \in DOMAIN t, t[i] = t[j] PROVE i = j
      BY DEF Distinct
    <3>1. ~(i < j) /\ ~(j < i)
      BY <2>3 DEF Distinct
    <3>2. i \in Nat /\ j \in Nat
      BY <2>2
    <3> QED
      BY <3>1, <3>2
  <2>5. ToSet(t) = ToSet(s) \ {k}
    <3>1. ASSUME NEW x \in ToSet(t) PROVE x \in ToSet(s) /\ x # k
      BY <2>1, <2>2 DEF ToSet, Distinct
    <3>2. ASSUME NEW i \in DOMAIN s, s[i] # k PROVE s[i] \in ToSet(t)
      <4>1. CASE i < p
        <5>1. i \in DOMAIN t /\ t[i] = s[i]
          BY <4>1, <2>2
        <5> QED
          BY <5>1 DEF ToSet
      <4>2. CASE i > p
        <5>1. i - 1 \in DOMAIN t /\ t[i - 1] = s[i]
          BY <4>2, <2>2
        <5> QED
          BY <5>1 DEF ToSet
      <4> QED
        BY <2>1, <3>2, <4>1, <4>2
    <3> QED
      BY <3>1, <3>2 DEF ToSet
  <2>6. \A x, y : Before(t, x, y) => Before(s, x, y)
    BY <2>3 DEF Before
  <2> QED
    BY <2>2, <2>4, <2>5, <2>6 DEF t
<1> QED
  BY <1>1, <1>2

\* A key goes to the end of the list.
LEMMA AppendIs ==
  ASSUME NEW s \in Seq(Keys), Distinct(s), NEW k \in Keys, k \notin ToSet(s)
  PROVE  LET t == Append(s, k)
         IN  /\ t \in Seq(Keys) /\ Distinct(t)
             /\ ToSet(t) = ToSet(s) \cup {k}
             /\ Len(t) = Len(s) + 1
             /\ \A x, y : Before(t, x, y) => y = k \/ Before(s, x, y)
<1> DEFINE t == Append(s, k)
<1>1. t \in Seq(Keys) /\ Len(t) = Len(s) + 1 /\ t[Len(s) + 1] = k /\ \A i \in DOMAIN s : t[i] = s[i]
  OBVIOUS
<1>2. DOMAIN t = DOMAIN s \cup {Len(s) + 1}
  BY <1>1
<1> HIDE DEF t
<1>3. ToSet(t) = ToSet(s) \cup {k}
  BY <1>1, <1>2 DEF ToSet
<1>4. Distinct(t)
  <2> SUFFICES ASSUME NEW i \in DOMAIN t, NEW j \in DOMAIN t, t[i] = t[j] PROVE i = j
    BY DEF Distinct
  <2> QED
    BY <1>1, <1>2 DEF Distinct, ToSet
<1>5. ASSUME NEW x, NEW y, Before(t, x, y) PROVE y = k \/ Before(s, x, y)
  <2>1. PICK i \in DOMAIN t, j \in DOMAIN t : i < j /\ t[i] = x /\ t[j] = y
    BY <1>5 DEF Before
  <2>2. CASE j = Len(s) + 1
    BY <2>1, <2>2, <1>1
  <2>3. CASE j # Len(s) + 1
    <3>1. i \in DOMAIN s /\ j \in DOMAIN s
      BY <2>1, <2>3, <1>1
    <3> QED
      BY <2>1, <3>1, <1>1 DEF Before
  <2> QED
    BY <2>2, <2>3
<1> QED
  BY <1>1, <1>3, <1>4, <1>5 DEF t

\* The same for a key that the list may have: readJournalLine.
LEMMA RelistIs ==
  ASSUME NEW s \in Seq(Keys), Distinct(s), NEW k \in Keys
  PROVE  LET t == Append(Without(s, k), k)
         IN  /\ t \in Seq(Keys) /\ Distinct(t)
             /\ ToSet(t) = ToSet(s) \cup {k}
             /\ Len(t) <= Len(s) + 1
             /\ k \in ToSet(s) => Len(t) = Len(s)
             /\ \A x, y : Before(t, x, y) => y = k \/ Before(s, x, y)
<1> DEFINE w == Without(s, k)
<1>1. /\ w \in Seq(Keys) /\ Distinct(w) /\ ToSet(w) = ToSet(s) \ {k} /\ Len(w) <= Len(s)
      /\ k \in ToSet(s) => Len(w) = Len(s) - 1
      /\ \A x, y : Before(w, x, y) => Before(s, x, y)
  BY WithoutIs
<1> HIDE DEF w
<1>2. LET t == Append(w, k)
      IN  /\ t \in Seq(Keys) /\ Distinct(t) /\ ToSet(t) = ToSet(w) \cup {k} /\ Len(t) = Len(w) + 1
          /\ \A x, y : Before(t, x, y) => y = k \/ Before(w, x, y)
  BY <1>1, AppendIs
<1> QED
  BY <1>1, <1>2 DEF w

\* A lookup reorders the list, and no more.
LEMMA TouchIs ==
  ASSUME NEW s \in Seq(Keys), Distinct(s), NEW k
  PROVE  LET t == Touch(s, k)
         IN  /\ t \in Seq(Keys) /\ Distinct(t)
             /\ ToSet(t) = ToSet(s)
             /\ Len(t) = Len(s)
             /\ \A x, y : Before(t, x, y) => y = k \/ Before(s, x, y)
<1>1. CASE k \in ToSet(s)
  <2>1. k \in Keys
    BY <1>1 DEF ToSet
  <2>2. Touch(s, k) = Append(Without(s, k), k)
    BY <1>1 DEF Touch
  <2>3. ToSet(s) \cup {k} = ToSet(s)
    BY <1>1
  <2> QED
    BY <1>1, <2>1, <2>2, <2>3, RelistIs
<1>2. CASE k \notin ToSet(s)
  BY <1>2 DEF Touch
<1> QED
  BY <1>1, <1>2

\* As many keys as places.
LEMMA LenIsCardinality ==
  ASSUME NEW s \in Seq(Keys), Distinct(s)
  PROVE  IsFiniteSet(ToSet(s)) /\ Len(s) = Cardinality(ToSet(s))
<1> DEFINE N == 1..Len(s)
<1>1. s \in Bijection(N, ToSet(s))
  <2>1. s \in [N -> ToSet(s)]
    BY DEF ToSet
  <2>2. s \in Injection(N, ToSet(s))
    BY <2>1 DEF Injection, Distinct, IsInjective
  <2>3. s \in Surjection(N, ToSet(s))
    BY <2>1 DEF Surjection, ToSet
  <2> QED
    BY <2>2, <2>3 DEF Bijection
<1>2. ExistsBijection(N, ToSet(s))
  BY <1>1 DEF ExistsBijection
<1>3. Cardinality(ToSet(s)) = Len(s)
  BY <1>2, FS_CountingElements
<1>4. IsFiniteSet(N)
  BY FS_Interval
<1>5. IsFiniteSet(ToSet(s))
  BY <1>2, <1>4, FS_Bijection
<1> QED
  BY <1>3, <1>5

-----------------------------------------------------------------------------
(***************************************************************************)
(* Reading a journal.                                                      *)
(***************************************************************************)
Mems ==
    [base : Nat, lru : Seq(Keys), ent : [Keys -> Entries \cup {NoEntry}], size : Int,
     maxSize : Nat \ {0}, redundant : Nat, nextSeq : Nat,
     writer : {"none", "open", "broken"}, out : Seq(Lines), version : Versions]

NoLength == [i \in Idx |-> 0]

\* The list has the keys of the entries.
Listed(m) == Distinct(m.lru) /\ ToSet(m.lru) = {k \in Keys : m.ent[k] # NoEntry}

\* What reading lines can make of the memory m0.
Replays(m0) ==
    {m \in Mems :
        /\ m = [m0 EXCEPT !.lru = m.lru, !.ent = m.ent]
        /\ Listed(m)
        /\ \A k \in Keys : m.ent[k] # NoEntry =>
              /\ ~m.ent[k].readable => m.ent[k].len = NoLength
              /\ m.ent[k].seq = 0
              /\ m.ent[k].editor \in {NoEditor, NewEditor(0)}}

\* The entry that a line makes of an entry.
EntryOf(e) == IF e = NoEntry THEN Entry ELSE e
LineEntry(e, l) ==
    IF l.state = "REMOVE" THEN NoEntry
    ELSE IF l.state = "CLEAN"
         THEN [EntryOf(e) EXCEPT !.readable = TRUE, !.editor = NoEditor, !.len = l.len]
         ELSE IF l.state = "DIRTY" THEN [EntryOf(e) EXCEPT !.editor = NewEditor(0)] ELSE EntryOf(e)

\* The indexes of values are a finite set.
LEMMA IdxFacts == NoLength \in [Idx -> Nat] /\ Idx \subseteq Nat /\ IsFiniteSet(Idx) /\ 0 \in Idx
<1>1. valueCount \in Nat /\ valueCount # 0
  BY LimitAssumption
<1> QED
  BY <1>1, FS_Interval DEF NoLength, Idx

\* A new editor.
LEMMA EditorType ==
  ASSUME NEW n \in Nat
  PROVE  NewEditor(n) \in Editors /\ NewEditor(n) # NoEditor
<1>1. NewEditor(n) \in Editors
  BY DEF NewEditor, Editors, Values
<1> QED
  BY <1>1, NullAssumption

\* A new entry.
LEMMA EntryType == Entry \in Entries /\ Entry # NoEntry
<1>1. Entry \in Entries
  BY IdxFacts DEF Entry, Entries, NoLength
<1> QED
  BY <1>1, NullAssumption

\* A line of the journal.
LEMMA LineType ==
  ASSUME NEW l \in Lines
  PROVE  /\ l.key \in Keys /\ l.state \in {"CLEAN", "DIRTY", "REMOVE", "READ"}
         /\ l.state = "CLEAN" => l.len \in [Idx -> Nat]
  BY DEF Lines

\* The entry that a line makes of an entry is one, or none for REMOVE.
LEMMA LineEntryType ==
  ASSUME NEW e \in Entries \cup {NoEntry}, NEW l \in Lines
  PROVE  /\ LineEntry(e, l) \in Entries \cup {NoEntry}
         /\ LineEntry(e, l) = NoEntry <=> l.state = "REMOVE"
<1> DEFINE f == EntryOf(e)
<1>1. f \in Entries
  BY EntryType DEF EntryOf
<1>2. NewEditor(0) \in Editors
  BY EditorType
<1> HIDE DEF f
<1>3. [f EXCEPT !.editor = NewEditor(0)] \in Entries
  BY <1>1, <1>2 DEF Entries
<1>4. ASSUME l.state = "CLEAN"
      PROVE [f EXCEPT !.readable = TRUE, !.editor = NoEditor, !.len = l.len] \in Entries
  BY <1>1, <1>4, LineType DEF Entries
<1> QED
  BY <1>1, <1>3, <1>4, NullAssumption DEF LineEntry, f

\* What a line does to a memory.
LEMMA ReplayIs ==
  ASSUME NEW m \in Mems, NEW l \in Lines
  PROVE  LET r == Replay(m, l)
         IN  /\ r = [m EXCEPT !.lru = r.lru, !.ent = r.ent]
             /\ r.ent = [m.ent EXCEPT ![l.key] = LineEntry(@, l)]
             /\ r.lru = IF l.state = "REMOVE" THEN Without(m.lru, l.key)
                        ELSE Append(Without(m.lru, l.key), l.key)
<1>1. l.state = "REMOVE" \/ l.state = "CLEAN" \/ l.state = "DIRTY" \/ l.state = "READ"
  BY LineType
<1>2. CASE l.state = "REMOVE"
  BY <1>2 DEF Replay, LineEntry, Mems
<1>3. CASE l.state = "CLEAN"
  BY <1>3 DEF Replay, LineEntry, Mems, EntryOf
<1>4. CASE l.state = "DIRTY"
  BY <1>4 DEF Replay, LineEntry, Mems, EntryOf
<1>5. CASE l.state = "READ"
  BY <1>5 DEF Replay, LineEntry, Mems, EntryOf
<1> QED
  BY <1>1, <1>2, <1>3, <1>4, <1>5

GrowsByOne(m, r) == Len(r.lru) <= Len(m.lru) + 1

\* A line makes of a memory that was read so far another one.
LEMMA ReplayStays ==
  ASSUME NEW m0, NEW m \in Replays(m0), NEW l \in Lines
  PROVE  Replay(m, l) \in Replays(m0) /\ GrowsByOne(m, Replay(m, l))
<1> DEFINE r == Replay(m, l)
           k == l.key
<1>1. /\ r = [m EXCEPT !.lru = r.lru, !.ent = r.ent]
      /\ r.ent = [m.ent EXCEPT ![k] = LineEntry(@, l)]
      /\ r.lru = IF l.state = "REMOVE" THEN Without(m.lru, k) ELSE Append(Without(m.lru, k), k)
  BY ReplayIs DEF Replays
<1> HIDE DEF r
<1>2. m \in Mems /\ Listed(m) /\ m = [m0 EXCEPT !.lru = m.lru, !.ent = m.ent]
  BY DEF Replays
<1>3. m.lru \in Seq(Keys) /\ m.ent \in [Keys -> Entries \cup {NoEntry}] /\ k \in Keys
  BY <1>2, LineType DEF Mems
<1>4. LineEntry(m.ent[k], l) \in Entries \cup {NoEntry} /\ (LineEntry(m.ent[k], l) = NoEntry <=> l.state = "REMOVE")
  BY <1>3, LineEntryType
<1>5. r.ent \in [Keys -> Entries \cup {NoEntry}]
  BY <1>1, <1>3, <1>4
<1>6. /\ r.lru \in Seq(Keys) /\ Distinct(r.lru) /\ Len(r.lru) <= Len(m.lru) + 1
      /\ ToSet(r.lru) = IF l.state = "REMOVE" THEN ToSet(m.lru) \ {k} ELSE ToSet(m.lru) \cup {k}
  <2>1. Distinct(m.lru)
    BY <1>2 DEF Listed
  <2>2. Len(m.lru) \in Nat
    BY <1>3
  <2>3. CASE l.state = "REMOVE"
    <3>1. r.lru = Without(m.lru, k)
      BY <1>1, <2>3
    <3>2. r.lru \in Seq(Keys) /\ Distinct(r.lru) /\ ToSet(r.lru) = ToSet(m.lru) \ {k} /\ Len(r.lru) <= Len(m.lru)
      BY <1>3, <2>1, <3>1, WithoutIs
    <3>3. Len(r.lru) \in Nat
      BY <3>2
    <3> QED
      BY <2>3, <2>2, <3>2, <3>3
  <2>4. CASE l.state # "REMOVE"
    <3>1. r.lru = Append(Without(m.lru, k), k)
      BY <1>1, <2>4
    <3> QED
      BY <1>3, <2>1, <2>4, <3>1, RelistIs
  <2> QED
    BY <2>3, <2>4
<1>7. Listed(r)
  BY <1>1, <1>2, <1>3, <1>4, <1>6 DEF Listed
<1>8. r \in Mems
  BY <1>1, <1>2, <1>5, <1>6 DEF Mems
<1>9. r = [m0 EXCEPT !.lru = r.lru, !.ent = r.ent]
  BY <1>1, <1>2
<1>10. ASSUME NEW x \in Keys, r.ent[x] # NoEntry
       PROVE  /\ ~r.ent[x].readable => r.ent[x].len = NoLength
              /\ r.ent[x].seq = 0
              /\ r.ent[x].editor \in {NoEditor, NewEditor(0)}
  <2> DEFINE Good(e) == /\ ~e.readable => e.len = NoLength
                        /\ e.seq = 0
                        /\ e.editor \in {NoEditor, NewEditor(0)}
  <2>1. m.ent[x] # NoEntry => Good(m.ent[x])
    BY DEF Replays
  <2>2. CASE x # k
    BY <1>1, <1>3, <1>10, <2>1, <2>2
  <2>3. CASE x = k
    <3>1. r.ent[x] = LineEntry(m.ent[x], l) /\ l.state # "REMOVE"
      BY <1>1, <1>3, <1>4, <1>10, <2>3
    <3>2. Good(EntryOf(m.ent[x])) /\ EntryOf(m.ent[x]) \in Entries
      BY <1>3, <2>1, EntryType DEF EntryOf, Entry, NoLength
    <3> DEFINE f == EntryOf(m.ent[x])
    <3>3. LineEntry(m.ent[x], l) \in {f, [f EXCEPT !.editor = NewEditor(0)],
                [f EXCEPT !.readable = TRUE, !.editor = NoEditor, !.len = l.len]}
      BY <3>1 DEF LineEntry
    <3>4. f \in Entries /\ Good(f)
      BY <3>2
    <3> HIDE DEF f
    <3> QED
      BY <3>1, <3>3, <3>4 DEF Entries
  <2> QED
    BY <2>2, <2>3
<1> QED
  BY <1>6, <1>7, <1>8, <1>9, <1>10 DEF Replays, GrowsByOne, r

\* The fold over the lines, as the definitions of the library have it.
ReplayRec(m, s, g) ==
    g = [T \in SUBSET DOMAIN s |-> IF T = {} THEN m ELSE Replay(g[T \ {Max(T)}], s[Max(T)])]
ReplayAll(m, s) == (CHOOSE g : ReplayRec(m, s, g))[DOMAIN s]

\* The fold over the lines is ReplayAll.
LEMMA FoldIs == ASSUME NEW m, NEW s PROVE FoldLeft(Replay, m, s) = ReplayAll(m, s)
  BY DEF FoldLeft, MapThenFoldSet, ReplayAll, ReplayRec

\* A set of positions has a greatest one.
LEMMA MaxIn ==
  ASSUME NEW n \in Nat, NEW T \in SUBSET (1..n), T # {}
  PROVE  Max(T) \in T /\ \A y \in T : y <= Max(T)
<1> DEFINE N == {m \in Nat : \A U \in SUBSET (1..m) : U # {} => \E x \in U : \A y \in U : x >= y}
<1>1. 0 \in N
  <2>1. 1..0 = {}
    OBVIOUS
  <2> QED
    BY <2>1
<1>2. ASSUME NEW m \in Nat, m \in N PROVE m + 1 \in N
  <2> SUFFICES ASSUME NEW U \in SUBSET (1..m + 1), U # {} PROVE \E x \in U : \A y \in U : x >= y
    OBVIOUS
  <2>1. CASE m + 1 \in U
    <3>1. \A y \in U : m + 1 >= y
      OBVIOUS
    <3> QED
      BY <2>1, <3>1
  <2>2. CASE m + 1 \notin U
    <3>1. U \in SUBSET (1..m)
      BY <2>2
    <3> QED
      BY <1>2, <3>1
  <2> QED
    BY <2>1, <2>2
<1>3. n \in N
  <2> HIDE DEF N
  <2> QED
    BY <1>1, <1>2, NatIn
<1>4. \E x \in T : \A y \in T : x >= y
  BY <1>3
<1>5. Max(T) \in T /\ \A y \in T : Max(T) >= y
  BY <1>4 DEF Max
<1> QED
  BY <1>5

\* The function that the definition of the fold chooses exists.
LEMMA ReplayRecExists ==
  ASSUME NEW m0, NEW m \in Replays(m0), NEW s \in Seq(Lines)
  PROVE  \E g \in [SUBSET DOMAIN s -> Replays(m0)] : ReplayRec(m, s, g)
<1> DEFINE S == DOMAIN s
           M == Replays(m0)
           h == [i \in S |-> [x \in M |-> Replay(x, s[i])]]
           c == [T \in SUBSET S |-> Max(T)]
<1>0. S = 1..Len(s) /\ Len(s) \in Nat
  OBVIOUS
<1>1. h \in [S -> [M -> M]]
  <2>1. \A i \in S : s[i] \in Lines
    OBVIOUS
  <2> HIDE DEF S
  <2>2. \A i \in S, x \in M : Replay(x, s[i]) \in M
    BY <2>1, ReplayStays
  <2> HIDE DEF M
  <2> QED
    BY <2>2
<1>2. \A T \in SUBSET S : T # {} => c[T] \in T
  <2>1. ASSUME NEW T \in SUBSET S, T # {} PROVE Max(T) \in T
    BY <1>0, <2>1, MaxIn
  <2> QED
    BY <2>1
<1>f. IsFiniteSet(S)
  BY <1>0, FS_Interval
<1>3. \E g \in [SUBSET S -> M] : Folds(g, S, m, h, c)
  <2>1. Foldable(S, M, m, h, c)
    BY <1>1, <1>2, <1>f DEF Foldable
  <2> HIDE DEF h, c, S, M
  <2>2. HasFold(S, M, m, h, c)
    BY <2>1, FoldExists
  <2> QED
    BY <2>2 DEF HasFold
<1>p. PICK g \in [SUBSET S -> M] : Folds(g, S, m, h, c)
  BY <1>3
<1>4. ASSUME NEW T \in SUBSET S
      PROVE g[T] = IF T = {} THEN m ELSE Replay(g[T \ {Max(T)}], s[Max(T)])
  <2>1. CASE T = {}
    BY <1>p, <2>1 DEF Folds
  <2>2. CASE T # {}
    <3>1. c[T] = Max(T) /\ Max(T) \in S /\ T \ {Max(T)} \in SUBSET S
      BY <1>2, <2>2
    <3>2. g[T] = h[Max(T)][g[T \ {Max(T)}]]
      BY <1>p, <2>2, <3>1 DEF Folds
    <3>3. g[T \ {Max(T)}] \in M
      BY <3>1
    <3> HIDE DEF M, S, c
    <3>4. h[Max(T)][g[T \ {Max(T)}]] = Replay(g[T \ {Max(T)}], s[Max(T)])
      BY <3>1, <3>3
    <3> QED
      BY <2>2, <3>2, <3>4
  <2> QED
    BY <2>1, <2>2
<1>5. ReplayRec(m, s, g)
  BY <1>4 DEF ReplayRec
<1> QED
  BY <1>5

ReplaysBy(m, s, g) ==
    /\ g[{}] = m
    /\ \A T \in SUBSET DOMAIN s : T # {} => g[T] = Replay(g[T \ {Max(T)}], s[Max(T)])

\* It takes the last line first.
LEMMA ReplayRecStep ==
  ASSUME NEW m, NEW s, NEW g, ReplayRec(m, s, g)
  PROVE  ReplaysBy(m, s, g)
<1>1. g = [T \in SUBSET DOMAIN s |-> IF T = {} THEN m ELSE Replay(g[T \ {Max(T)}], s[Max(T)])]
  BY DEF ReplayRec
<1> QED
  BY <1>1 DEF ReplaysBy

Extends(t, s) == Len(s) <= Len(t) /\ \A i \in DOMAIN s : t[i] = s[i]

\* Lines that come after do not matter to what was read before.
LEMMA ReplayRecSame ==
  ASSUME NEW m, NEW s \in Seq(Lines), NEW t \in Seq(Lines), Extends(t, s),
         NEW g, ReplayRec(m, s, g), NEW h, ReplayRec(m, t, h)
  PROVE  g[DOMAIN s] = h[DOMAIN s]
<1> DEFINE S == DOMAIN s
           N == {n \in Nat : \A T \in SUBSET S : Cardinality(T) = n => g[T] = h[T]}
<1>d. S = 1..Len(s) /\ Len(s) \in Nat /\ S \subseteq DOMAIN t /\ IsFiniteSet(S)
  BY FS_Interval DEF Extends
<1>0. \A T \in SUBSET S : IsFiniteSet(T) /\ Cardinality(T) \in Nat /\ (Cardinality(T) = 0 <=> T = {})
  BY <1>d, SubsetsFinite
<1>s. /\ g[{}] = m /\ h[{}] = m
      /\ \A T \in SUBSET S : T # {} => /\ g[T] = Replay(g[T \ {Max(T)}], s[Max(T)])
                                       /\ h[T] = Replay(h[T \ {Max(T)}], t[Max(T)])
  <2>1. g[{}] = m /\ \A T \in SUBSET DOMAIN s : T # {} => g[T] = Replay(g[T \ {Max(T)}], s[Max(T)])
    <3>1. ReplaysBy(m, s, g)
      BY ReplayRecStep
    <3> QED
      BY <3>1 DEF ReplaysBy
  <2>2. h[{}] = m /\ \A T \in SUBSET DOMAIN t : T # {} => h[T] = Replay(h[T \ {Max(T)}], t[Max(T)])
    BY ReplayRecStep DEF ReplaysBy
  <2> QED
    BY <1>d, <2>1, <2>2
<1>1. 0 \in N
  BY <1>0, <1>s
<1>2. ASSUME NEW n \in Nat, n \in N PROVE n + 1 \in N
  <2> SUFFICES ASSUME NEW T \in SUBSET S, Cardinality(T) = n + 1 PROVE g[T] = h[T]
    OBVIOUS
  <2>1. T # {}
    BY <1>0
  <2>2. Max(T) \in T
    BY <1>d, <2>1, MaxIn
  <2>3. T \ {Max(T)} \in SUBSET S /\ Cardinality(T \ {Max(T)}) = n
    BY <1>0, <2>2, OneLess
  <2>4. g[T \ {Max(T)}] = h[T \ {Max(T)}] /\ t[Max(T)] = s[Max(T)]
    BY <1>2, <2>2, <2>3 DEF Extends
  <2> QED
    BY <1>s, <2>1, <2>4
<1>3. Nat \subseteq N
  <2> HIDE DEF N
  <2> QED
    BY <1>1, <1>2, NatIn
<1> QED
  BY <1>0, <1>3

\* What the proofs below use of the fold.
LEMMA ReplayAllChoice ==
  ASSUME NEW m0, NEW m \in Replays(m0), NEW s \in Seq(Lines)
  PROVE  \E g : ReplayRec(m, s, g) /\ ReplayAll(m, s) = g[DOMAIN s]
<1>1. \E g : ReplayRec(m, s, g)
  BY ReplayRecExists
<1> DEFINE G == CHOOSE g : ReplayRec(m, s, g)
<1>2. ReplayRec(m, s, G)
  BY <1>1
<1> QED
  BY <1>2 DEF ReplayAll

\* Reading no line, and reading one more.
LEMMA ReplayNone ==
  ASSUME NEW m0, NEW m \in Replays(m0) PROVE ReplayAll(m, <<>>) = m
<1>0. <<>> \in Seq(Lines)
  OBVIOUS
<1>1. PICK g : ReplayRec(m, <<>>, g) /\ ReplayAll(m, <<>>) = g[DOMAIN <<>>]
  BY <1>0, ReplayAllChoice
<1>2. DOMAIN <<>> = {}
  OBVIOUS
<1>3. g[{}] = m
  BY <1>1, <1>2, ReplayRecStep DEF ReplaysBy
<1> QED
  BY <1>1, <1>2, <1>3

\* Reading one more line.
LEMMA ReplayMore ==
  ASSUME NEW m0, NEW m \in Replays(m0), NEW s \in Seq(Lines), NEW l \in Lines
  PROVE  ReplayAll(m, Append(s, l)) = Replay(ReplayAll(m, s), l)
<1> DEFINE t == Append(s, l)
<1>t. /\ t \in Seq(Lines) /\ Len(t) = Len(s) + 1 /\ Len(s) \in Nat /\ t[Len(s) + 1] = l
      /\ DOMAIN s = 1..Len(s) /\ DOMAIN t = 1..Len(s) + 1 /\ \A i \in DOMAIN s : t[i] = s[i]
  OBVIOUS
<1> HIDE DEF t
<1>1. PICK g : ReplayRec(m, s, g) /\ ReplayAll(m, s) = g[DOMAIN s]
  BY ReplayAllChoice
<1>2. PICK h : ReplayRec(m, t, h) /\ ReplayAll(m, t) = h[DOMAIN t]
  BY <1>t, ReplayAllChoice
<1>3. Max(DOMAIN t) = Len(s) + 1
  <2>1. Max(DOMAIN t) \in DOMAIN t /\ \A y \in DOMAIN t : y <= Max(DOMAIN t)
    <3>1. DOMAIN t \in SUBSET (1..Len(t)) /\ DOMAIN t # {} /\ Len(t) \in Nat
      BY <1>t
    <3> QED
      BY <3>1, MaxIn
  <2> QED
    BY <1>t, <2>1
<1>4. DOMAIN t \ {Len(s) + 1} = DOMAIN s /\ DOMAIN t # {}
  BY <1>t
<1>5. h[DOMAIN t] = Replay(h[DOMAIN s], l)
  <2>1. \A T \in SUBSET DOMAIN t : T # {} => h[T] = Replay(h[T \ {Max(T)}], t[Max(T)])
    BY <1>2, ReplayRecStep DEF ReplaysBy
  <2> QED
    BY <1>3, <1>4, <1>t, <2>1
<1>6. g[DOMAIN s] = h[DOMAIN s]
  <2>1. Extends(t, s)
    BY <1>t DEF Extends
  <2> QED
    BY <1>1, <1>2, <1>t, <2>1, ReplayRecSame
<1> QED
  BY <1>1, <1>2, <1>5, <1>6 DEF t

\* The list of a memory that was read.
LEMMA ReplaysLength ==
  ASSUME NEW m0, NEW m \in Replays(m0)
  PROVE  m.lru \in Seq(Keys) /\ Len(m.lru) \in Nat
<1>1. m \in Mems
  BY DEF Replays
<1>2. m.lru \in Seq(Keys)
  BY <1>1 DEF Mems
<1> QED
  BY <1>2

\* What lines make of a memory.
LEMMA ReplayAllIn ==
  ASSUME NEW m0, NEW m \in Replays(m0), NEW s \in Seq(Lines)
  PROVE  ReplayAll(m, s) \in Replays(m0) /\ Len(ReplayAll(m, s).lru) <= Len(m.lru) + Len(s)
<1> DEFINE P(n) == SubSeq(s, 1, n)
           R(n) == ReplayAll(m, P(n))
           Ok(n) == R(n) \in Replays(m0) /\ Len(R(n).lru) <= Len(m.lru) + n
           N == {n \in Nat : n <= Len(s) => Ok(n)}
<1>0. Len(m.lru) \in Nat /\ Len(s) \in Nat
  BY DEF Replays, Mems
<1>1. 0 \in N
  <2>1. P(0) = <<>>
    OBVIOUS
  <2>2. R(0) = m
    BY <2>1, ReplayNone
  <2> QED
    BY <1>0, <2>2
<1>2. ASSUME NEW n \in Nat, n \in N PROVE n + 1 \in N
  <2> SUFFICES ASSUME n + 1 <= Len(s) PROVE Ok(n + 1)
    <3> HIDE DEF Ok
    <3> QED
      OBVIOUS
  <2>1. P(n) \in Seq(Lines) /\ s[n + 1] \in Lines /\ P(n + 1) = Append(P(n), s[n + 1])
    BY <1>0
  <2>2. R(n) \in Replays(m0) /\ Len(R(n).lru) <= Len(m.lru) + n
    BY <1>0, <1>2
  <2>3. R(n + 1) = Replay(R(n), s[n + 1])
    <3> HIDE DEF P
    <3> QED
      BY <2>1, ReplayMore
  <2>4. Replay(R(n), s[n + 1]) \in Replays(m0) /\ GrowsByOne(R(n), Replay(R(n), s[n + 1]))
    <3> DEFINE r == R(n)  l == s[n + 1]
    <3>1. r \in Replays(m0) /\ l \in Lines
      BY <2>1, <2>2
    <3> HIDE DEF r, l
    <3>2. Replay(r, l) \in Replays(m0) /\ GrowsByOne(r, Replay(r, l))
      BY <3>1, ReplayStays
    <3> QED
      BY <3>2 DEF r, l
  <2> DEFINE a == Len(R(n).lru)  b == Len(R(n + 1).lru)  c == Len(m.lru)
  <2>5. a \in Nat /\ b \in Nat /\ c \in Nat
    <3> HIDE DEF R
    <3>1. R(n) \in Replays(m0) /\ R(n + 1) \in Replays(m0)
      BY <2>2, <2>3, <2>4
    <3> QED
      BY <1>0, <3>1, ReplaysLength
  <2>6. R(n + 1) \in Replays(m0) /\ a <= c + n /\ b <= a + 1
    BY <2>2, <2>3, <2>4 DEF GrowsByOne
  <2>7. b <= c + (n + 1)
    <3> HIDE DEF a, b, c
    <3> QED
      BY <2>5, <2>6
  <2> QED
    BY <2>6, <2>7
<1>3. Len(s) \in N
  <2> HIDE DEF N
  <2> QED
    BY <1>0, <1>1, <1>2, NatIn
<1>4. Ok(Len(s))
  <2> HIDE DEF Ok
  <2> QED
    BY <1>0, <1>3
<1>5. P(Len(s)) = s
  OBVIOUS
<1> QED
  BY <1>4, <1>5

-----------------------------------------------------------------------------
(***************************************************************************)
(* The invariant.                                                          *)
(***************************************************************************)
PlainOps ==
    {"useBackup", "load", "process", "opened", "fresh", "created", "closeWriter", "writeTmp",
     "backup", "install", "reopen", "flush", "submit", "trim", "rebuildIf", "zero", "closed",
     "wipe", "down"}
KeyOps == {"collect", "dropEntry", "give", "erase", "removed", "abort"}
IdxOps == {"unlink", "publish", "discard", "deleteClean"}
StepRec ==
    [do : PlainOps] \cup [do : KeyOps, key : Keys] \cup [do : IdxOps, key : Keys, idx : Idx]
      \cup [do : {"complete"}, key : Keys, ok : BOOLEAN]

Disks ==
    [journal : Journals \cup {NoFile}, tmp : Journals \cup {NoFile}, backup : Journals \cup {NoFile},
     clean : [Keys -> Values], dirty : [Keys -> Values]]
Views ==
    [value : [Keys -> Values], shown : [Keys -> BOOLEAN], draft : [Keys -> Values \cup {NoDraft}]]
Phases == {"down", "opening", "up"}

TypeInv ==
    /\ disk \in Disks /\ mem \in Mems /\ todo \in Seq(StepRec) /\ phase \in Phases
    /\ pending \in 0..MaxPending
    /\ erased \subseteq Keys
    /\ snap \in Snapshots \cup {NoSnapshot}
    /\ seen \in Views
    /\ leaky \in BOOLEAN
    /\ edits \in 0..MaxEdits /\ crashes \in Nat /\ faults \in Nat

\* The steps of a call with the given last one.
Rebuild == {"closeWriter", "writeTmp", "backup", "install", "reopen"}
Removes == {"trim", "deleteClean", "removed"}
Aborts == {"discard", "complete", "flush", "submit"}
Closes == Removes \cup Aborts \cup {"abort", "closeWriter", "closed", "wipe"}
Drops == {"collect", "unlink", "dropEntry"}
StepsOf(end) ==
    CASE end = "load" -> {"useBackup", "load"}
      [] end = "opened" -> Rebuild \cup {"process", "opened"} \cup Drops
      [] end = "fresh" -> Closes \cup {"fresh"}
      [] end = "created" -> Rebuild \cup {"created"}
      [] end = "give" -> {"flush", "give"}
      [] end = "submit" -> Aborts \cup {"publish"}
      [] end = "erase" -> Aborts \cup {"erase"}
      [] end = "removed" -> {"deleteClean", "removed"}
      [] end = "flush" -> Removes \cup {"flush"}
      [] end = "rebuildIf" -> Removes \cup {"rebuildIf"}
      [] end = "zero" -> Rebuild \cup {"zero"}
      [] end = "down" -> Closes \cup {"down"}
      [] OTHER -> {}

\* A step and the one after it.
NextIndex(s, t, op, after) ==
    IF s.idx = valueCount - 1 THEN t.do = after /\ t.key = s.key
    ELSE t.do = op /\ t.key = s.key /\ t.idx = s.idx + 1

Follows(s, t) ==
    CASE s.do = "useBackup" -> t.do = "load"
      [] s.do = "wipe" -> t.do \in {"fresh", "down"}
      [] s.do = "closeWriter" -> t.do \in {"writeTmp", "closed"}
      [] s.do = "writeTmp" -> t.do = "backup"
      [] s.do = "backup" -> t.do = "install"
      [] s.do = "install" -> t.do = "reopen"
      [] s.do = "reopen" -> t.do \in {"process", "created", "zero"}
      [] s.do = "process" -> t.do = "opened"
      [] s.do = "collect" -> t.do \in {"collect", "opened"}
      [] s.do = "unlink" -> NextIndex(s, t, "unlink", "dropEntry")
      [] s.do = "dropEntry" -> t.do \in {"collect", "opened"}
      [] s.do = "flush" -> t.do \in {"give", "submit"}
      [] s.do = "submit" -> t.do \in {"abort", "trim", "erase"}
      [] s.do = "publish" -> NextIndex(s, t, "publish", "complete") /\ (t.do = "complete" => t.ok)
      [] s.do = "discard" -> NextIndex(s, t, "discard", "complete") /\ (t.do = "complete" => ~t.ok)
      [] s.do = "complete" -> t.do = "flush"
      [] s.do = "abort" -> t.do \in {"abort", "trim"}
      [] s.do = "trim" -> t.do \in {"flush", "rebuildIf", "closeWriter"}
      [] s.do = "deleteClean" -> NextIndex(s, t, "deleteClean", "removed")
      [] s.do = "removed" -> t.do = "trim"
      [] s.do = "closed" -> t.do \in {"wipe", "down"}
      [] OTHER -> FALSE

Final(t) == t[Len(t)].do
Chain(t) == \A n \in 1..Len(t) - 1 : Follows(t[n], t[n + 1])
Within(t, S) == \A n \in DOMAIN t : t[n].do \in S

OpenEnds == {"load", "fresh", "created", "opened"}
UpEnds == {"give", "submit", "erase", "removed", "flush", "zero", "rebuildIf", "down"}

-----------------------------------------------------------------------------
(***************************************************************************)
(* Programs.                                                               *)
(***************************************************************************)
Prog(p, S) == p \in Seq(StepRec) /\ p # <<>> /\ Chain(p) /\ Within(p, S)

\* The rest of a program.
LEMMA Tails ==
  ASSUME NEW t \in Seq(StepRec), t # <<>>, Chain(t), NEW S, Within(t, S)
  PROVE  LET u == Tail(t)
         IN  /\ u \in Seq(StepRec) /\ Chain(u) /\ Within(u, S)
             /\ Head(t) \in StepRec /\ Head(t) = t[1] /\ Head(t).do \in S
             /\ \A n \in DOMAIN u : n + 1 \in DOMAIN t /\ u[n] = t[n + 1]
             /\ Len(u) = Len(t) - 1
             /\ u # <<>> => /\ Final(u) = Final(t)
                            /\ Head(u) = u[1] /\ Head(u) = t[2]
                            /\ Follows(Head(t), Head(u))
                            /\ Head(u) \in StepRec /\ Head(u).do \in S
<1> DEFINE u == Tail(t)
<1>1. /\ u \in Seq(StepRec) /\ Len(u) = Len(t) - 1 /\ Len(t) \in Nat /\ Len(t) > 0
      /\ \A n \in 1..Len(t) - 1 : u[n] = t[n + 1]
      /\ Head(t) = t[1] /\ Head(t) \in StepRec
  OBVIOUS
<1> HIDE DEF u
<1>2. DOMAIN u = 1..Len(t) - 1 /\ DOMAIN t = 1..Len(t)
  BY <1>1
<1>3. Chain(u)
  <2> SUFFICES ASSUME NEW n \in 1..Len(u) - 1 PROVE Follows(u[n], u[n + 1])
    BY DEF Chain
  <2>1. n + 1 \in 1..Len(t) - 1 /\ n \in 1..Len(t) - 1 /\ u[n] = t[n + 1] /\ u[n + 1] = t[n + 1 + 1]
    BY <1>1
  <2>2. Follows(t[n + 1], t[n + 1 + 1])
    BY <2>1 DEF Chain
  <2> QED
    BY <2>1, <2>2
<1>4. Within(u, S)
  <2> SUFFICES ASSUME NEW n \in DOMAIN u PROVE u[n].do \in S
    BY DEF Within
  <2>1. n + 1 \in DOMAIN t /\ u[n] = t[n + 1]
    BY <1>1, <1>2
  <2> QED
    BY <2>1 DEF Within
<1>5. Head(t).do \in S
  BY <1>1, <1>2 DEF Within
<1>6. ASSUME u # <<>>
      PROVE  /\ Final(u) = Final(t) /\ Head(u) = u[1] /\ Head(u) = t[2] /\ Follows(Head(t), Head(u))
             /\ Head(u) \in StepRec /\ Head(u).do \in S
  <2>1. Len(u) > 0 /\ Head(u) = u[1] /\ Head(u) \in StepRec
    BY <1>1, <1>6
  <2>2. Final(u) = Final(t)
    BY <1>1, <2>1 DEF Final
  <2>3. Head(u) = t[2] /\ Follows(t[1], t[2])
    BY <1>1, <2>1 DEF Chain
  <2>4. Head(u).do \in S
    BY <1>2, <1>4, <1>1, <2>1 DEF Within
  <2> QED
    BY <1>1, <2>1, <2>2, <2>3, <2>4
<1> QED
  BY <1>1, <1>2, <1>3, <1>4, <1>5, <1>6 DEF u

Fits(p, t, S) == Prog(p, S) /\ Prog(t, S) /\ Follows(p[Len(p)], t[1])

IsGlued(q, p, t, S) ==
    /\ Prog(q, S)
    /\ Len(q) = Len(p) + Len(t)
    /\ \A n \in 1..Len(p) : q[n] = p[n]
    /\ \A n \in 1..Len(t) : q[n + Len(p)] = t[n]
    /\ q[Len(q)] = t[Len(t)] /\ Final(q) = Final(t)
    /\ q[1] = p[1] /\ Head(q) = p[1]

\* A program and another one after it.
LEMMA Glue ==
  ASSUME NEW S, NEW p, NEW t, Fits(p, t, S)
  PROVE  IsGlued(p \o t, p, t, S)
<1> Prog(p, S) /\ Prog(t, S) /\ Follows(p[Len(p)], t[1])
  BY DEF Fits
<1> DEFINE q == p \o t
<1>1. p \in Seq(StepRec) /\ t \in Seq(StepRec) /\ p # <<>> /\ t # <<>>
  BY DEF Prog
<1>2. Len(p) \in Nat /\ Len(t) \in Nat /\ Len(p) > 0 /\ Len(t) > 0
  BY <1>1
<1>3. q \in Seq(StepRec) /\ Len(q) = Len(p) + Len(t)
  <2>1. q \in Seq(StepRec)
    BY <1>1
  <2>2. Len(q) = Len(p) + Len(t)
    BY <1>1
  <2> QED
    BY <2>1, <2>2
<1>4. \A n \in 1..Len(p) : q[n] = p[n]
  BY <1>1
<1>5. \A n \in 1..Len(t) : q[n + Len(p)] = t[n]
  BY <1>1
<1> HIDE DEF q
<1>6. q # <<>> /\ Head(q) = p[1] /\ q[1] = p[1]
  BY <1>2, <1>3, <1>4
<1>7. q[Len(q)] = t[Len(t)] /\ Final(q) = Final(t)
  BY <1>2, <1>3, <1>5 DEF Final
<1>8. ASSUME NEW n \in 1..Len(p) + Len(t)
      PROVE  n \in 1..Len(p) \/ \E m \in 1..Len(t) : n = m + Len(p)
  <2>1. CASE n <= Len(p)
    BY <1>2, <2>1
  <2>2. CASE n > Len(p)
    <3>1. n - Len(p) \in 1..Len(t) /\ n = (n - Len(p)) + Len(p)
      BY <1>2, <2>2
    <3> QED
      BY <3>1
  <2> QED
    BY <1>2, <2>1, <2>2
<1>9. Within(q, S)
  <2> SUFFICES ASSUME NEW n \in DOMAIN q PROVE q[n].do \in S
    BY DEF Within
  <2>1. n \in 1..Len(p) + Len(t)
    BY <1>3
  <2>2. CASE n \in 1..Len(p)
    BY <1>1, <1>4, <2>2 DEF Prog, Within
  <2>3. CASE \E m \in 1..Len(t) : n = m + Len(p)
    BY <1>1, <1>5, <2>3 DEF Prog, Within
  <2> QED
    BY <1>8, <2>1, <2>2, <2>3
<1>10. Chain(q)
  <2> SUFFICES ASSUME NEW n \in 1..Len(q) - 1 PROVE Follows(q[n], q[n + 1])
    BY DEF Chain
  <2>1. CASE n < Len(p)
    <3>1. n \in 1..Len(p) - 1 /\ n \in 1..Len(p) /\ n + 1 \in 1..Len(p)
      BY <1>2, <1>3, <2>1
    <3>2. Follows(p[n], p[n + 1])
      BY <3>1 DEF Prog, Chain
    <3> QED
      BY <1>4, <3>1, <3>2
  <2>2. CASE n = Len(p)
    <3>1. q[n] = p[Len(p)] /\ q[1 + Len(p)] = t[1]
      BY <1>2, <1>4, <1>5, <2>2
    <3>2. n + 1 = 1 + Len(p)
      BY <1>2, <2>2
    <3> QED
      BY <3>1, <3>2
  <2>3. CASE n > Len(p)
    <3> DEFINE m == n - Len(p)
    <3>1. m \in 1..Len(t) - 1 /\ m \in 1..Len(t) /\ m + 1 \in 1..Len(t) /\ n = m + Len(p) /\ n + 1 = (m + 1) + Len(p)
      BY <1>2, <1>3, <2>3
    <3> HIDE DEF m
    <3>2. Follows(t[m], t[m + 1])
      BY <3>1 DEF Prog, Chain
    <3> QED
      BY <1>5, <3>1, <3>2
  <2> QED
    BY <1>2, <1>3, <2>1, <2>2, <2>3
<1> QED
  BY <1>3, <1>4, <1>5, <1>6, <1>7, <1>9, <1>10 DEF Prog, IsGlued, q

\* A program of one step.
LEMMA OneStep ==
  ASSUME NEW s \in StepRec, NEW S, s.do \in S
  PROVE  Prog(<<s>>, S) /\ <<s>>[1] = s /\ Len(<<s>>) = 1 /\ Final(<<s>>) = s.do
<1>1. <<s>> \in Seq(StepRec) /\ Len(<<s>>) = 1 /\ <<s>>[1] = s /\ <<s>> # <<>> /\ DOMAIN <<s>> = {1}
  OBVIOUS
<1>2. Chain(<<s>>) /\ Within(<<s>>, S) /\ Final(<<s>>) = s.do
  BY <1>1 DEF Chain, Within, Final
<1> QED
  BY <1>1, <1>2 DEF Prog

\* A program of fewer kinds of steps is one of more.
LEMMA Wider ==
  ASSUME NEW S, NEW T, S \subseteq T, NEW p, Prog(p, S)
  PROVE  Prog(p, T)
  BY DEF Prog, Within

\* The programs of the calls.
LEMMA DoIs ==
  ASSUME NEW op \in PlainOps, NEW S, op \in S
  PROVE  LET p == Do(op)
         IN  Prog(p, S) /\ p[1] = [do |-> op] /\ Len(p) = 1 /\ p[Len(p)] = [do |-> op] /\ Final(p) = op
<1> DEFINE s == [do |-> op]
<1>1. s \in StepRec /\ s.do = op
  BY DEF StepRec
<1> HIDE DEF s
<1>2. Prog(<<s>>, S) /\ <<s>>[1] = s /\ Len(<<s>>) = 1 /\ Final(<<s>>) = op
  BY <1>1, OneStep
<1> QED
  BY <1>2 DEF Do, s

\* A step about a key.
LEMMA DoKeyIs ==
  ASSUME NEW op \in KeyOps, NEW S, op \in S, NEW k \in Keys
  PROVE  LET p == DoKey(op, k)
         IN  /\ Prog(p, S) /\ p[1] = [do |-> op, key |-> k] /\ Len(p) = 1
             /\ p[Len(p)] = [do |-> op, key |-> k] /\ Final(p) = op
<1> DEFINE s == [do |-> op, key |-> k]
<1>1. s \in StepRec /\ s.do = op
  BY DEF StepRec
<1> HIDE DEF s
<1>2. Prog(<<s>>, S) /\ <<s>>[1] = s /\ Len(<<s>>) = 1 /\ Final(<<s>>) = op
  BY <1>1, OneStep
<1> QED
  BY <1>2 DEF DoKey, s

\* A step for each value of an entry.
LEMMA PerIndexIs ==
  ASSUME NEW op \in IdxOps, NEW k \in Keys, NEW S, op \in S
  PROVE  LET p == PerIndex(op, k)
         IN  /\ Prog(p, S) /\ Len(p) = valueCount /\ DOMAIN p = 1..valueCount
             /\ \A n \in 1..valueCount : p[n] = [do |-> op, key |-> k, idx |-> n - 1]
             /\ p[1] = [do |-> op, key |-> k, idx |-> 0]
             /\ p[Len(p)] = [do |-> op, key |-> k, idx |-> valueCount - 1]
             /\ Final(p) = op
<1> DEFINE p == PerIndex(op, k)
<1>1. valueCount \in Nat /\ valueCount > 0
  BY LimitAssumption
<1>2. \A n \in 1..valueCount : [do |-> op, key |-> k, idx |-> n - 1] \in StepRec
  BY <1>1 DEF StepRec, Idx
<1>3. /\ p \in Seq(StepRec) /\ Len(p) = valueCount /\ DOMAIN p = 1..valueCount
      /\ \A n \in 1..valueCount : p[n] = [do |-> op, key |-> k, idx |-> n - 1]
  BY <1>1, <1>2 DEF PerIndex
<1> HIDE DEF p
<1>4. p[1] = [do |-> op, key |-> k, idx |-> 0] /\ p[Len(p)] = [do |-> op, key |-> k, idx |-> valueCount - 1]
  BY <1>1, <1>3
<1>5. p # <<>> /\ Within(p, S) /\ Final(p) = op
  BY <1>1, <1>3, <1>4 DEF Within, Final
<1>6. Chain(p)
  <2> SUFFICES ASSUME NEW n \in 1..Len(p) - 1 PROVE Follows(p[n], p[n + 1])
    BY DEF Chain
  <2>1. /\ p[n] = [do |-> op, key |-> k, idx |-> n - 1]
        /\ p[n + 1] = [do |-> op, key |-> k, idx |-> (n + 1) - 1]
        /\ n - 1 # valueCount - 1 /\ (n + 1) - 1 = (n - 1) + 1
    BY <1>1, <1>3
  <2>2. NextIndex(p[n], p[n + 1], op, "dropEntry") /\ NextIndex(p[n], p[n + 1], op, "complete")
        /\ NextIndex(p[n], p[n + 1], op, "removed") /\ p[n].do = op /\ p[n + 1].do = op
    BY <2>1 DEF NextIndex
  <2> QED
    BY <2>2 DEF Follows, IdxOps
<1> QED
  BY <1>3, <1>4, <1>5, <1>6 DEF Prog, p

\* A step for each of the keys.
LEMMA DoKeysIs ==
  ASSUME NEW op \in {"collect", "abort"}, NEW ks \in Seq(Keys), NEW S, op \in S
  PROVE  LET p == DoKeys(op, ks)
         IN  /\ Len(p) = Len(ks) /\ DOMAIN p = DOMAIN ks /\ p \in Seq(StepRec)
             /\ \A n \in DOMAIN ks : p[n] = [do |-> op, key |-> ks[n]]
             /\ ks # <<>> => Prog(p, S) /\ Final(p) = op
             /\ ks = <<>> => p = <<>>
<1> DEFINE p == DoKeys(op, ks)
<1>1. \A n \in DOMAIN ks : [do |-> op, key |-> ks[n]] \in StepRec
  BY DEF StepRec, KeyOps
<1>2. /\ Len(p) = Len(ks) /\ DOMAIN p = DOMAIN ks /\ p \in Seq(StepRec)
      /\ \A n \in DOMAIN ks : p[n] = [do |-> op, key |-> ks[n]]
  BY <1>1 DEF DoKeys
<1> HIDE DEF p
<1>3. ks = <<>> => p = <<>>
  BY <1>2
<1>4. ASSUME ks # <<>> PROVE Prog(p, S) /\ Final(p) = op
  <2>1. Len(p) \in DOMAIN ks /\ p # <<>>
    BY <1>2, <1>4
  <2>2. Within(p, S) /\ Final(p) = op
    BY <1>2, <2>1 DEF Within, Final
  <2>3. Chain(p)
    <3> SUFFICES ASSUME NEW n \in 1..Len(p) - 1 PROVE Follows(p[n], p[n + 1])
      BY DEF Chain
    <3>1. p[n].do = op /\ p[n + 1].do = op
      BY <1>2
    <3> QED
      BY <3>1 DEF Follows
  <2> QED
    BY <1>2, <2>1, <2>2, <2>3 DEF Prog
<1> QED
  BY <1>2, <1>3, <1>4 DEF p

\* The steps of remove.
LEMMA RemoveProgramIs ==
  ASSUME NEW k \in Keys
  PROVE  LET p == RemoveProgram(k)
         IN  /\ Prog(p, {"deleteClean", "removed"})
             /\ p[1] = [do |-> "deleteClean", key |-> k, idx |-> 0]
             /\ p[Len(p)] = [do |-> "removed", key |-> k] /\ Final(p) = "removed"
<1> DEFINE a == PerIndex("deleteClean", k)  b == DoKey("removed", k)  S == {"deleteClean", "removed"}
<1>1. /\ Prog(a, S) /\ a[1] = [do |-> "deleteClean", key |-> k, idx |-> 0]
      /\ a[Len(a)] = [do |-> "deleteClean", key |-> k, idx |-> valueCount - 1]
  BY PerIndexIs DEF IdxOps
<1>2. Prog(b, S) /\ b[1] = [do |-> "removed", key |-> k] /\ b[Len(b)] = [do |-> "removed", key |-> k] /\ Final(b) = "removed"
  BY DoKeyIs DEF KeyOps
<1>3. Follows(a[Len(a)], b[1])
  BY <1>1, <1>2 DEF Follows, NextIndex
<1> HIDE DEF a, b, S
<1>4. IsGlued(a \o b, a, b, S)
  <2>1. Fits(a, b, S)
    BY <1>1, <1>2, <1>3 DEF Fits
  <2> QED
    BY <2>1, Glue
<1> QED
  BY <1>1, <1>2, <1>4 DEF RemoveProgram, IsGlued, a, b, S

\* The steps of rebuildJournal.
LEMMA RebuildProgramIs ==
  LET p == RebuildProgram
  IN  Prog(p, Rebuild) /\ p[1] = [do |-> "closeWriter"] /\ p[Len(p)] = [do |-> "reopen"] /\ Final(p) = "reopen"
<1> DEFINE a == Do("closeWriter")  b == Do("writeTmp")  c == Do("backup")  d == Do("install")  e == Do("reopen")
           ab == a \o b  abc == ab \o c  abcd == abc \o d  abcde == abcd \o e
<1>1. /\ Prog(a, Rebuild) /\ a[1] = [do |-> "closeWriter"] /\ a[Len(a)] = [do |-> "closeWriter"]
      /\ Prog(b, Rebuild) /\ b[1] = [do |-> "writeTmp"] /\ b[Len(b)] = [do |-> "writeTmp"]
      /\ Prog(c, Rebuild) /\ c[1] = [do |-> "backup"] /\ c[Len(c)] = [do |-> "backup"]
      /\ Prog(d, Rebuild) /\ d[1] = [do |-> "install"] /\ d[Len(d)] = [do |-> "install"]
      /\ Prog(e, Rebuild) /\ e[1] = [do |-> "reopen"] /\ e[Len(e)] = [do |-> "reopen"] /\ Final(e) = "reopen"
  BY DoIs DEF PlainOps, Rebuild
<1>p. RebuildProgram = abcde
  BY DEF RebuildProgram
<1> HIDE DEF a, b, c, d, e
<1>2. Prog(ab, Rebuild) /\ ab[Len(ab)] = b[Len(b)] /\ ab[1] = a[1]
  <2>1. Fits(a, b, Rebuild)
    BY <1>1 DEF Fits, Follows
  <2>2. IsGlued(a \o b, a, b, Rebuild)
    BY <2>1, Glue
  <2> QED
    BY <2>2 DEF IsGlued
<1> HIDE DEF ab
<1>3. Prog(abc, Rebuild) /\ abc[Len(abc)] = c[Len(c)] /\ abc[1] = ab[1]
  <2>1. Fits(ab, c, Rebuild)
    BY <1>1, <1>2 DEF Fits, Follows
  <2>2. IsGlued(ab \o c, ab, c, Rebuild)
    BY <2>1, Glue
  <2> QED
    BY <2>2 DEF IsGlued
<1> HIDE DEF abc
<1>4. Prog(abcd, Rebuild) /\ abcd[Len(abcd)] = d[Len(d)] /\ abcd[1] = abc[1]
  <2>1. Fits(abc, d, Rebuild)
    BY <1>1, <1>3 DEF Fits, Follows
  <2>2. IsGlued(abc \o d, abc, d, Rebuild)
    BY <2>1, Glue
  <2> QED
    BY <2>2 DEF IsGlued
<1> HIDE DEF abcd
<1>5. Prog(abcde, Rebuild) /\ abcde[Len(abcde)] = e[Len(e)] /\ Final(abcde) = Final(e) /\ abcde[1] = abcd[1]
  <2>1. Fits(abcd, e, Rebuild)
    BY <1>1, <1>4 DEF Fits, Follows
  <2>2. IsGlued(abcd \o e, abcd, e, Rebuild)
    BY <2>1, Glue
  <2> QED
    BY <2>2 DEF IsGlued
<1> QED
  BY <1>p, <1>1, <1>2, <1>3, <1>4, <1>5

\* The steps of completeEdit.
LEMMA CompleteProgramIs ==
  ASSUME NEW k \in Keys, NEW ok \in BOOLEAN
  PROVE  LET p == CompleteProgram(k, ok)
         IN  /\ Prog(p, IF ok THEN Aborts \cup {"publish"} ELSE Aborts)
             /\ p[1] = [do |-> IF ok THEN "publish" ELSE "discard", key |-> k, idx |-> 0]
             /\ p[Len(p)] = [do |-> "submit"] /\ Final(p) = "submit"
<1> DEFINE op == IF ok THEN "publish" ELSE "discard"
           S == IF ok THEN Aborts \cup {"publish"} ELSE Aborts
           cs == [do |-> "complete", key |-> k, ok |-> ok]
           a == PerIndex(op, k)  b == <<cs>>  c == Do("flush")  d == Do("submit")
           ab == a \o b  abc == ab \o c  abcd == abc \o d
<1>1. op \in IdxOps /\ op \in S
  BY DEF IdxOps, Aborts
<1>2. /\ Prog(a, S) /\ a[1] = [do |-> op, key |-> k, idx |-> 0]
      /\ a[Len(a)] = [do |-> op, key |-> k, idx |-> valueCount - 1]
  <2> HIDE DEF op, S
  <2> QED
    BY <1>1, PerIndexIs
<1>3. Prog(b, S) /\ b[1] = cs /\ b[Len(b)] = cs
  <2>1. cs \in StepRec /\ cs.do \in S
    BY DEF StepRec, Aborts
  <2> HIDE DEF cs, S
  <2> QED
    BY <2>1, OneStep
<1>4. /\ Prog(c, S) /\ c[1] = [do |-> "flush"] /\ c[Len(c)] = [do |-> "flush"]
      /\ Prog(d, S) /\ d[1] = [do |-> "submit"] /\ d[Len(d)] = [do |-> "submit"] /\ Final(d) = "submit"
  <2>1. "flush" \in S /\ "submit" \in S
    BY DEF Aborts
  <2> HIDE DEF S
  <2> QED
    BY <2>1, DoIs DEF PlainOps
<1>p. CompleteProgram(k, ok) = abcd
  BY DEF CompleteProgram
<1>f. Follows(a[Len(a)], b[1])
  BY <1>2, <1>3 DEF Follows, NextIndex
<1> HIDE DEF a, b, c, d, S
<1>5. Prog(ab, S) /\ ab[Len(ab)] = b[Len(b)] /\ ab[1] = a[1]
  <2>1. Fits(a, b, S)
    BY <1>2, <1>3, <1>f DEF Fits
  <2>2. IsGlued(a \o b, a, b, S)
    BY <2>1, Glue
  <2> QED
    BY <2>2 DEF IsGlued
<1> HIDE DEF ab
<1>6. Prog(abc, S) /\ abc[Len(abc)] = c[Len(c)] /\ abc[1] = ab[1]
  <2>1. Fits(ab, c, S)
    BY <1>3, <1>4, <1>5 DEF Fits, Follows
  <2>2. IsGlued(ab \o c, ab, c, S)
    BY <2>1, Glue
  <2> QED
    BY <2>2 DEF IsGlued
<1> HIDE DEF abc
<1>7. Prog(abcd, S) /\ abcd[Len(abcd)] = d[Len(d)] /\ Final(abcd) = Final(d) /\ abcd[1] = abc[1]
  <2>1. Fits(abc, d, S)
    BY <1>4, <1>6 DEF Fits, Follows
  <2>2. IsGlued(abc \o d, abc, d, S)
    BY <2>1, Glue
  <2> QED
    BY <2>2 DEF IsGlued
<1> QED
  BY <1>p, <1>2, <1>4, <1>5, <1>6, <1>7 DEF S

\* The steps of close.
LEMMA CloseProgramIs ==
  ASSUME mem \in Mems
  PROVE  LET p == CloseProgram
         IN  /\ Prog(p, Closes \ {"wipe"}) /\ Final(p) = "closed" /\ p[Len(p)] = [do |-> "closed"]
             /\ p[1].do \in {"abort", "trim"}
<1> DEFINE S == Closes \ {"wipe"}
           a == DoKeys("abort", mem.lru)  b == Do("trim")  c == Do("closeWriter")  d == Do("closed")
           ab == a \o b  abc == ab \o c  abcd == abc \o d
<1>0. mem.lru \in Seq(Keys) /\ {"abort", "trim", "closeWriter", "closed"} \subseteq S
  BY DEF Mems, Closes, Removes, Aborts
<1> HIDE DEF S
<1>1. /\ Len(a) = Len(mem.lru) /\ a \in Seq(StepRec)
      /\ \A n \in DOMAIN mem.lru : a[n] = [do |-> "abort", key |-> mem.lru[n]]
      /\ mem.lru # <<>> => Prog(a, S) /\ Final(a) = "abort"
      /\ mem.lru = <<>> => a = <<>>
  BY <1>0, DoKeysIs
<1>2. /\ Prog(b, S) /\ b[1] = [do |-> "trim"] /\ b[Len(b)] = [do |-> "trim"]
      /\ Prog(c, S) /\ c[1] = [do |-> "closeWriter"] /\ c[Len(c)] = [do |-> "closeWriter"]
      /\ Prog(d, S) /\ d[1] = [do |-> "closed"] /\ d[Len(d)] = [do |-> "closed"] /\ Final(d) = "closed"
  BY <1>0, DoIs DEF PlainOps
<1>p. CloseProgram = abcd
  BY DEF CloseProgram
<1> HIDE DEF a, b, c, d
<1>3. Prog(ab, S) /\ ab[Len(ab)] = [do |-> "trim"] /\ ab[1].do \in {"abort", "trim"}
  <2>1. CASE mem.lru = <<>>
    <3>1. b \in Seq(StepRec)
      BY <1>2 DEF Prog
    <3>2. ab = b
      BY <1>1, <2>1, <3>1
    <3> QED
      BY <1>2, <3>2
  <2>2. CASE mem.lru # <<>>
    <3>1. a[Len(a)].do = "abort" /\ a[1].do = "abort"
      <4>1. Len(mem.lru) \in DOMAIN mem.lru /\ 1 \in DOMAIN mem.lru
        BY <1>0, <2>2
      <4>2. /\ a[Len(mem.lru)] = [do |-> "abort", key |-> mem.lru[Len(mem.lru)]]
            /\ a[1] = [do |-> "abort", key |-> mem.lru[1]]
        BY <1>1, <4>1
      <4> QED
        BY <1>1, <4>2
    <3>2. Fits(a, b, S)
      BY <1>1, <1>2, <2>2, <3>1 DEF Fits, Follows
    <3>3. Prog(ab, S) /\ ab[Len(ab)] = b[Len(b)] /\ ab[1] = a[1]
      <4>1. IsGlued(a \o b, a, b, S)
        BY <3>2, Glue
      <4> QED
        BY <4>1 DEF IsGlued
    <3> QED
      BY <1>2, <3>1, <3>3
  <2> QED
    BY <2>1, <2>2
<1> HIDE DEF ab
<1>4. Prog(abc, S) /\ abc[Len(abc)] = c[Len(c)] /\ abc[1] = ab[1]
  <2>1. Fits(ab, c, S)
    BY <1>2, <1>3 DEF Fits, Follows
  <2>2. IsGlued(ab \o c, ab, c, S)
    BY <2>1, Glue
  <2> QED
    BY <2>2 DEF IsGlued
<1> HIDE DEF abc
<1>5. Prog(abcd, S) /\ abcd[Len(abcd)] = d[Len(d)] /\ Final(abcd) = Final(d) /\ abcd[1] = abc[1]
  <2>1. Fits(abc, d, S)
    BY <1>2, <1>4 DEF Fits, Follows
  <2>2. IsGlued(abc \o d, abc, d, S)
    BY <2>1, Glue
  <2> QED
    BY <2>2 DEF IsGlued
<1> QED
  BY <1>p, <1>2, <1>3, <1>4, <1>5 DEF S

-----------------------------------------------------------------------------
(***************************************************************************)
(* The inductive invariant, of a memory m, the rest t of a call, a phase   *)
(* ph and a directory d.                                                   *)
(***************************************************************************)
EditingIn(m, k) == m.ent[k] # NoEntry /\ m.ent[k].editor # NoEditor
At(t, ops) == t # <<>> /\ Head(t).do \in ops

Control(t, ph) ==
    /\ Chain(t)
    /\ t # <<>> => Final(t) \in OpenEnds \cup UpEnds /\ Within(t, StepsOf(Final(t)))
    /\ ph = "opening" <=> t # <<>> /\ Final(t) \in OpenEnds
    /\ ph = "down" => t = <<>>

\* What the next step needs.
Resting(m, k) == m.ent[k] # NoEntry /\ m.ent[k].editor = NoEditor
Ready(m, t) ==
    /\ At(t, {"publish", "discard", "complete"}) => EditingIn(m, Head(t).key)
    /\ At(t, {"unlink", "dropEntry", "deleteClean", "removed"}) => Resting(m, Head(t).key)
    /\ At(t, {"deleteClean"}) => \A j \in Idx : j < Head(t).idx => m.ent[Head(t).key].len[j] = 0
    /\ At(t, {"removed"}) => m.ent[Head(t).key].len = NoLength

\* The edit that a client is about to get, or has.
Known(m, k) == EditingIn(m, k) /\ m.ent[k].editor.id \in 1..MaxEdits
Given(m, t) == t # <<>> /\ Final(t) = "give" => Known(m, t[Len(t)].key)
HeldKnown(m) == \A k \in Keys : EditingIn(m, k) /\ m.ent[k].editor.held => Known(m, k)

\* An entry that was never published has no length, unless that is what is going on.
Publishes(t, k) ==
    At(t, {"publish", "complete"}) /\ Head(t).key = k /\ (Head(t).do = "complete" => Head(t).ok)
BlankKnown(m, t) ==
    \A k \in Keys : m.ent[k] # NoEntry /\ ~m.ent[k].readable => m.ent[k].len = NoLength \/ Publishes(t, k)

\* A writer that is open has a file.
Writerless == {"useBackup", "load", "writeTmp", "backup", "install", "reopen", "wipe", "fresh"}
Files(d, m, t, ph) ==
    /\ ph # "down" /\ m.writer = "open" => d.journal # NoFile
    /\ At(t, Writerless) => m.writer # "open"
    /\ At(t, {"reopen"}) => d.journal # NoFile
    /\ At(t, {"backup", "install"}) => d.tmp # NoFile

\* The entries that processJournal is still to go through, in the order of the list.
Gathers(t) == {n \in DOMAIN t : t[n].do = "collect"}
CollectKeys(t) == {t[n].key : n \in Gathers(t)}
Unlinked(t) == IF At(t, {"unlink", "dropEntry"}) THEN {Head(t).key} ELSE {}
Reloads == Rebuild \cup {"process"}
Pend(m, t) == IF At(t, Reloads) THEN ToSet(m.lru) ELSE CollectKeys(t) \cup Unlinked(t)
Collecting(m, t) ==
    /\ \A n \in DOMAIN t : t[n].do = "collect" => m.ent[t[n].key] # NoEntry /\ ~At(t, Reloads)
    /\ \A a, b \in DOMAIN t : a < b /\ t[a].do \in Drops /\ t[b].do = "collect" =>
         Before(m.lru, t[a].key, t[b].key)

\* The size counts the entries but those in U.
TotalOf(m) == [k \in Keys |-> Total(m.ent[k])]
Sum(m, S) == SumOver(TotalOf(m), S)
SizedBy(m, U) == U \subseteq ToSet(m.lru) /\ m.size = Sum(m, ToSet(m.lru) \ U)
EditingKeys(m) == {k \in Keys : EditingIn(m, k)}
Upward(s, U, X) == \A x, y : x \in U /\ Before(s, x, y) => y \in U \cup X

\* The entry that is being removed.
Going(t) == IF At(t, {"deleteClean", "removed"}) THEN {Head(t).key} ELSE {}

Uncounted(m, t, U) ==
    SizedBy(m, U) /\ EditingKeys(m) \subseteq U /\ Upward(m.lru, U, Going(t)) /\ Going(t) \cap U = {}

Sized(m, t, ph) ==
    /\ m.size \in Nat
    /\ ph = "up" => SizedBy(m, {})
    /\ ph = "opening" /\ Final(t) \in {"load", "created"} => m.lru = <<>> /\ m.size = 0
    /\ ph = "opening" /\ Final(t) = "opened" => Uncounted(m, t, Pend(m, t)) /\ Collecting(m, t)
    /\ ph = "opening" /\ Final(t) = "fresh" => \E U : Uncounted(m, t, U)

Core(m, t, ph) ==
    /\ m \in Mems /\ Listed(m) /\ HeldKnown(m)
    /\ t \in Seq(StepRec) /\ Control(t, ph)
    /\ Ready(m, t) /\ Given(m, t) /\ BlankKnown(m, t)
    /\ Sized(m, t, ph)

IInv == TypeInv /\ Core(mem, todo, phase) /\ Files(disk, mem, todo, phase)

-----------------------------------------------------------------------------
(***************************************************************************)
(* How a call goes on.                                                     *)
(***************************************************************************)
Running(t, ph) == t \in Seq(StepRec) /\ t # <<>> /\ Control(t, ph)
Popped(t, u, ph) ==
    /\ u \in Seq(StepRec) /\ Control(u, ph)
    /\ u # <<>> => /\ Final(u) = Final(t) /\ Head(u) = u[1] /\ Follows(Head(t), Head(u))
                   /\ Head(u) \in StepRec /\ Head(u).do \in StepsOf(Final(t))
    /\ \A n \in DOMAIN u : n + 1 \in DOMAIN t /\ u[n] = t[n + 1]

\* The current step.
HeadFacts(t) ==
    /\ Head(t) = t[1] /\ Head(t) \in StepRec /\ Head(t).do \in StepsOf(Final(t))
    /\ 1 \in DOMAIN t /\ Len(t) \in DOMAIN t

\* What holds of the current step.
LEMMA HeadIs ==
  ASSUME NEW t, NEW ph, Running(t, ph)
  PROVE  HeadFacts(t)
<1>1. t \in Seq(StepRec) /\ t # <<>> /\ Within(t, StepsOf(Final(t)))
  BY DEF Running, Control
<1>2. 1 \in DOMAIN t /\ Len(t) \in DOMAIN t /\ Head(t) = t[1] /\ Head(t) \in StepRec
  BY <1>1
<1> QED
  BY <1>1, <1>2 DEF HeadFacts, Within

\* A step is done, and the call goes on.
LEMMA Pops ==
  ASSUME NEW t, NEW ph, Running(t, ph), Head(t).do \notin OpenEnds \cup {"down"}
  PROVE  Popped(t, Tail(t), ph)
<1> DEFINE u == Tail(t)  S == StepsOf(Final(t))
<1>1. t \in Seq(StepRec) /\ t # <<>> /\ Chain(t) /\ Within(t, S)
  BY DEF Running, Control
<1>c. /\ Final(t) \in OpenEnds \cup UpEnds
      /\ ph = "opening" <=> Final(t) \in OpenEnds
      /\ ph # "down"
  BY <1>1 DEF Running, Control
<1>2. /\ u \in Seq(StepRec) /\ Chain(u) /\ Within(u, S) /\ Head(t) = t[1]
      /\ \A n \in DOMAIN u : n + 1 \in DOMAIN t /\ u[n] = t[n + 1]
      /\ Len(u) = Len(t) - 1
      /\ u # <<>> => /\ Final(u) = Final(t) /\ Head(u) = u[1] /\ Follows(Head(t), Head(u))
                     /\ Head(u) \in StepRec /\ Head(u).do \in S
  <2> HIDE DEF S
  <2> QED
    BY <1>1, Tails
<1> HIDE DEF u
<1>3. CASE u # <<>>
  BY <1>c, <1>2, <1>3 DEF Popped, Control, u
<1>4. CASE u = <<>>
  <2>1. Len(u) = 0 /\ Len(t) \in Nat
    BY <1>1, <1>4
  <2>2. Len(t) = 1
    BY <1>2, <2>1
  <2>3. Final(t) = Head(t).do
    BY <1>2, <2>2 DEF Final
  <2>4. ph # "opening"
    BY <1>c, <2>3
  <2> QED
    BY <1>c, <1>2, <1>4, <2>4 DEF Popped, Control, u
<1> QED
  BY <1>3, <1>4

\* A program in front of the rest of the call.
Joins(p, t, ph) ==
    Running(t, ph) /\ Prog(p, StepsOf(Final(t))) /\ Follows(p[Len(p)], Head(t))
Pushed(p, t, q, ph) ==
    /\ q \in Seq(StepRec) /\ q # <<>> /\ Control(q, ph) /\ Final(q) = Final(t) /\ Head(q) = p[1]
    /\ q[Len(q)] = t[Len(t)]
    /\ Len(q) = Len(p) + Len(t)
    /\ \A n \in 1..Len(p) : q[n] = p[n]
    /\ \A n \in 1..Len(t) : q[n + Len(p)] = t[n]

\* Steps in front of the rest of a call.
LEMMA Pushes ==
  ASSUME NEW p, NEW t, NEW ph, Joins(p, t, ph)
  PROVE  Pushed(p, t, p \o t, ph)
<1> DEFINE S == StepsOf(Final(t))  q == p \o t
<1>1. t \in Seq(StepRec) /\ t # <<>> /\ Chain(t) /\ Within(t, S) /\ Head(t) = t[1]
  BY HeadIs DEF Joins, Running, Control, HeadFacts
<1>2. Fits(p, t, S)
  BY <1>1 DEF Joins, Fits, Prog
<1>3. IsGlued(q, p, t, S)
  <2> HIDE DEF S
  <2> QED
    BY <1>2, Glue
<1> HIDE DEF q
<1>4. /\ q \in Seq(StepRec) /\ q # <<>> /\ Chain(q) /\ Within(q, S) /\ Final(q) = Final(t)
      /\ Head(q) = p[1] /\ q[Len(q)] = t[Len(t)]
  BY <1>3 DEF IsGlued, Prog
<1>5. Control(q, ph)
  BY <1>4 DEF Joins, Running, Control
<1> QED
  BY <1>3, <1>4, <1>5 DEF Pushed, IsGlued, q

\* A program as a call of its own.
Whole(p, ph) ==
    /\ Prog(p, StepsOf(Final(p))) /\ Final(p) \in OpenEnds \cup UpEnds
    /\ ph = (IF Final(p) \in OpenEnds THEN "opening" ELSE "up")

\* A program may be the rest of a call.
LEMMA Begins ==
  ASSUME NEW p, NEW ph, Whole(p, ph)
  PROVE  p \in Seq(StepRec) /\ p # <<>> /\ Control(p, ph) /\ Running(p, ph) /\ Head(p) = p[1]
<1>1. p \in Seq(StepRec) /\ p # <<>> /\ Control(p, ph)
  BY DEF Whole, Prog, Control
<1>2. Head(p) = p[1]
  BY <1>1
<1> QED
  BY <1>1, <1>2 DEF Running

\* A call may be over.
LEMMA Rests == ASSUME NEW ph \in {"up", "down"} PROVE Control(<<>>, ph)
<1>1. Chain(<<>>)
  BY DEF Chain
<1> QED
  BY <1>1 DEF Control

-----------------------------------------------------------------------------
(***************************************************************************)
(* The size of the cache.                                                  *)
(***************************************************************************)
LEMMA SumZero ==
  ASSUME NEW S, IsFiniteSet(S), NEW f, \A x \in S : f[x] = 0
  PROVE  SumOver(f, S) = 0
<1> DEFINE N == {n \in Nat : \A T \in SUBSET S : Cardinality(T) = n => SumOver(f, T) = 0}
<1>0. \A T \in SUBSET S : IsFiniteSet(T) /\ Cardinality(T) \in Nat /\ (Cardinality(T) = 0 <=> T = {})
  BY SubsetsFinite
<1>1. 0 \in N
  BY <1>0, FS_EmptySet, SumEmpty
<1>2. ASSUME NEW n \in Nat, n \in N PROVE n + 1 \in N
  <2> SUFFICES ASSUME NEW T \in SUBSET S, Cardinality(T) = n + 1 PROVE SumOver(f, T) = 0
    OBVIOUS
  <2>1. PICK x \in T : TRUE
    BY FS_EmptySet
  <2>2. T \ {x} \in SUBSET S /\ Cardinality(T \ {x}) = n
    BY <1>0, <2>1, OneLess
  <2>3. SumOver(f, T \ {x}) = 0
    BY <1>2, <2>2
  <2>5. \A y \in T : f[y] \in Int
    OBVIOUS
  <2>4. SumOver(f, T) = f[x] + SumOver(f, T \ {x})
    BY <1>0, <2>5, SumTake
  <2> QED
    BY <2>3, <2>4
<1>3. Nat \subseteq N
  <2> HIDE DEF N
  <2> QED
    BY <1>1, <1>2, NatIn
<1> QED
  BY <1>0, <1>3

\* The length of an entry.
LEMMA TotalIs ==
  ASSUME NEW e \in Entries
  PROVE  /\ Total(e) = SumOver(e.len, Idx) /\ Total(e) \in Nat
         /\ e.len \in [Idx -> Nat]
         /\ e.len = NoLength => Total(e) = 0
<1>1. e.len \in [Idx -> Nat] /\ DOMAIN e.len = Idx
  BY DEF Entries
<1>2. Total(e) = SumOver(e.len, Idx)
  BY <1>1, SumFunctionIs DEF Total
<1>3. SumOver(e.len, Idx) \in Nat
  BY <1>1, IdxFacts, SumNat
<1>4. ASSUME e.len = NoLength PROVE SumOver(e.len, Idx) = 0
  <2>1. \A i \in Idx : e.len[i] = 0
    BY <1>4 DEF NoLength
  <2> QED
    BY <2>1, IdxFacts, SumZero
<1> QED
  BY <1>1, <1>2, <1>3, <1>4

\* The entry with one length changed.
LEMMA TotalChange ==
  ASSUME NEW e \in Entries, NEW i \in Idx, NEW n \in Nat
  PROVE  LET f == [e EXCEPT !.len[i] = n]
         IN  /\ f \in Entries /\ f.editor = e.editor /\ f.readable = e.readable /\ f.seq = e.seq
             /\ f.len = [e.len EXCEPT ![i] = n]
             /\ Total(f) = Total(e) - e.len[i] + n
<1> DEFINE f == [e EXCEPT !.len[i] = n]
<1>1. /\ f \in Entries /\ f.editor = e.editor /\ f.readable = e.readable /\ f.seq = e.seq
      /\ f.len = [e.len EXCEPT ![i] = n]
  BY DEF Entries
<1> HIDE DEF f
<1>2. e.len \in [Idx -> Nat] /\ f.len[i] = n /\ \A j \in Idx \ {i} : f.len[j] = e.len[j]
  BY <1>1 DEF Entries
<1>3. SumOver(f.len, Idx) = SumOver(e.len, Idx) - e.len[i] + f.len[i]
  <2> DEFINE a == f.len  b == e.len
  <2>0. IsFiniteSet(Idx)
    BY IdxFacts
  <2>1. /\ IsFiniteSet(Idx) /\ a[i] \in Int /\ \A j \in Idx : b[j] \in Int
        /\ \A j \in Idx \ {i} : a[j] = b[j]
    BY <1>2, <2>0
  <2> HIDE DEF a, b
  <2>2. SumOver(a, Idx) = SumOver(b, Idx) - b[i] + a[i]
    BY <2>1, SumChange
  <2> QED
    BY <2>2 DEF a, b
<1> QED
  BY <1>1, <1>2, <1>3, TotalIs DEF f

\* The entries that a memory lists.
LEMMA ListIs ==
  ASSUME NEW m \in Mems, Listed(m)
  PROVE  /\ m.lru \in Seq(Keys) /\ Distinct(m.lru)
         /\ IsFiniteSet(ToSet(m.lru)) /\ ToSet(m.lru) \subseteq Keys
         /\ \A k : k \in ToSet(m.lru) <=> k \in Keys /\ m.ent[k] # NoEntry
         /\ \A k \in ToSet(m.lru) : m.ent[k] \in Entries /\ TotalOf(m)[k] = Total(m.ent[k]) /\ TotalOf(m)[k] \in Nat
<1>1. m.lru \in Seq(Keys) /\ m.ent \in [Keys -> Entries \cup {NoEntry}]
  BY DEF Mems
<1>2. IsFiniteSet(ToSet(m.lru))
  BY <1>1, LenIsCardinality DEF Listed
<1>3. \A k : k \in ToSet(m.lru) <=> k \in Keys /\ m.ent[k] # NoEntry
  BY DEF Listed
<1>4. \A k \in ToSet(m.lru) : m.ent[k] \in Entries /\ TotalOf(m)[k] = Total(m.ent[k])
  BY <1>1, <1>3 DEF TotalOf
<1>5. \A k \in ToSet(m.lru) : TotalOf(m)[k] \in Nat
  BY <1>4, TotalIs
<1> QED
  BY <1>1, <1>2, <1>3, <1>4, <1>5 DEF Listed

\* A sum of lengths is a natural number.
LEMMA SumOfNat ==
  ASSUME NEW m \in Mems, Listed(m), NEW S, S \subseteq ToSet(m.lru)
  PROVE  Sum(m, S) \in Nat /\ IsFiniteSet(S)
<1>1. IsFiniteSet(S) /\ \A k \in S : TotalOf(m)[k] \in Nat
  BY ListIs, FS_Subset
<1> QED
  BY <1>1, SumNat DEF Sum

\* So is the size of a cache that counts its entries.
LEMMA SizeNat ==
  ASSUME NEW m \in Mems, Listed(m), NEW U, SizedBy(m, U)
  PROVE  m.size \in Nat
  BY SumOfNat DEF SizedBy

\* A memory with the same lengths.
SameTotals(m, n, S) == \A k \in S : n.ent[k] # NoEntry /\ Total(n.ent[k]) = Total(m.ent[k])

\* Memories with the same lengths have the same sum.
LEMMA SumOfSame ==
  ASSUME NEW m \in Mems, Listed(m), NEW n \in Mems, Listed(n),
         NEW S, S \subseteq ToSet(m.lru), SameTotals(m, n, S)
  PROVE  Sum(n, S) = Sum(m, S)
<1>1. \A k \in S : TotalOf(n)[k] = TotalOf(m)[k] /\ TotalOf(m)[k] \in Int /\ TotalOf(n)[k] \in Int
  <2> TAKE k \in S
  <2>1. k \in ToSet(m.lru) /\ k \in Keys
    BY ListIs
  <2>2. k \in ToSet(n.lru)
    BY <2>1, ListIs DEF SameTotals
  <2>3. TotalOf(m)[k] = Total(m.ent[k]) /\ TotalOf(m)[k] \in Nat
    BY <2>1, ListIs
  <2>4. TotalOf(n)[k] = Total(n.ent[k]) /\ TotalOf(n)[k] \in Nat
    BY <2>2, ListIs
  <2> QED
    BY <2>3, <2>4 DEF SameTotals
<1>2. IsFiniteSet(S)
  BY SumOfNat
<1> QED
  BY <1>1, <1>2, SumSame DEF Sum

\* An entry without length makes no difference.
LEMMA SumWithout ==
  ASSUME NEW m \in Mems, Listed(m), NEW S, S \subseteq ToSet(m.lru), NEW k, k \in S => Total(m.ent[k]) = 0
  PROVE  Sum(m, S \ {k}) = Sum(m, S)
<1>1. CASE k \notin S
  <2>1. S \ {k} = S
    BY <1>1
  <2> QED
    BY <2>1
<1>2. CASE k \in S
  <2>1. IsFiniteSet(S) /\ Sum(m, S \ {k}) \in Nat
    BY SumOfNat
  <2>2. \A x \in S : TotalOf(m)[x] \in Int
    BY ListIs
  <2>3. TotalOf(m)[k] = 0
    BY <1>2, ListIs
  <2>4. Sum(m, S) = TotalOf(m)[k] + Sum(m, S \ {k})
    BY <1>2, <2>1, <2>2, SumTake DEF Sum
  <2> QED
    BY <2>1, <2>3, <2>4
<1> QED
  BY <1>1, <1>2

\* One more entry.
LEMMA SumWith ==
  ASSUME NEW m \in Mems, Listed(m), NEW S, S \subseteq ToSet(m.lru), NEW k \in ToSet(m.lru), k \notin S
  PROVE  Sum(m, S \cup {k}) = Sum(m, S) + Total(m.ent[k]) /\ Total(m.ent[k]) \in Nat
<1> DEFINE T == S \cup {k}
<1>1. T \subseteq ToSet(m.lru) /\ T \ {k} = S
  OBVIOUS
<1>2. IsFiniteSet(T) /\ Sum(m, S) \in Nat
  BY <1>1, SumOfNat
<1>3. \A x \in T : TotalOf(m)[x] \in Int
  BY <1>1, ListIs
<1>4. TotalOf(m)[k] = Total(m.ent[k]) /\ Total(m.ent[k]) \in Nat
  BY ListIs
<1>5. Sum(m, T) = TotalOf(m)[k] + Sum(m, T \ {k})
  BY <1>2, <1>3, SumTake DEF Sum
<1> QED
  BY <1>1, <1>2, <1>4, <1>5

\* The length of a value changes.
IsSumResized(m, n, k, i, v, S) ==
    /\ n = [m EXCEPT !.size = m.size - m.ent[k].len[i] + v, !.ent = n.ent]
    /\ n.ent = [m.ent EXCEPT ![k] = [m.ent[k] EXCEPT !.len[i] = v]]
    /\ n \in Mems /\ Listed(n)
    /\ Sum(n, S) = Sum(m, S) - m.ent[k].len[i] + v

\* The sum changes as the length does.
LEMMA SumResized ==
  ASSUME NEW m \in Mems, Listed(m), NEW k \in ToSet(m.lru), NEW i \in Idx, NEW v \in Nat,
         NEW S, S \subseteq ToSet(m.lru), k \in S
  PROVE  IsSumResized(m, Resized(m, k, i, v), k, i, v, S)
<1> DEFINE n == Resized(m, k, i, v)  e == m.ent[k]  f == [e EXCEPT !.len[i] = v]
<1>1. k \in Keys /\ e \in Entries
  BY ListIs
<1>2. f \in Entries /\ Total(f) = Total(e) - e.len[i] + v
  BY <1>1, TotalChange
<1>3. n = [m EXCEPT !.size = m.size - m.ent[k].len[i] + v, !.ent = n.ent] /\ n.ent = [m.ent EXCEPT ![k] = f]
  BY <1>1 DEF Resized, Mems
<1>4. e.len[i] \in Nat /\ Total(e) \in Nat
  BY <1>1, TotalIs
<1> HIDE DEF n, f, e
<1>5. m.size - e.len[i] + v \in Int
  BY <1>4 DEF Mems
<1>6. n.ent \in [Keys -> Entries \cup {NoEntry}]
  BY <1>1, <1>2, <1>3 DEF Mems
<1>7. n \in Mems
  BY <1>3, <1>5, <1>6 DEF Mems, e
<1>8. n.ent[k] = f /\ \A x \in Keys \ {k} : n.ent[x] = m.ent[x]
  BY <1>1, <1>3 DEF Mems
<1>9. n.lru = m.lru
  BY <1>3 DEF Mems
<1>10. Listed(n)
  <2>1. {x \in Keys : n.ent[x] # NoEntry} = {x \in Keys : m.ent[x] # NoEntry}
    <3>1. e # NoEntry /\ f # NoEntry
      BY <1>1, <1>2, NullAssumption
    <3> QED
      BY <1>8, <3>1 DEF e
  <2> QED
    BY <1>9, <2>1 DEF Listed
<1>11. Sum(n, S) = Sum(m, S) - TotalOf(m)[k] + TotalOf(n)[k]
  <2>1. IsFiniteSet(S) /\ \A x \in S : TotalOf(m)[x] \in Int
    BY ListIs, SumOfNat
  <2>2. TotalOf(n)[k] \in Int
    BY <1>7, <1>9, <1>10, ListIs
  <2>3. \A x \in S \ {k} : TotalOf(n)[x] = TotalOf(m)[x]
    BY <1>8, ListIs DEF TotalOf
  <2> QED
    BY <2>1, <2>2, <2>3, SumChange DEF Sum
<1>12. TotalOf(m)[k] = Total(e) /\ TotalOf(n)[k] = Total(f)
  BY <1>1, <1>8 DEF TotalOf, e
<1>13. Sum(m, S) \in Nat
  BY SumOfNat
<1>14. Sum(n, S) = Sum(m, S) - e.len[i] + v
  <2> DEFINE a == Sum(n, S)  b == Sum(m, S)  c == Total(e)  d == e.len[i]
  <2>1. a = b - c + (c - d + v) /\ b \in Nat /\ c \in Nat /\ d \in Nat
    BY <1>2, <1>4, <1>11, <1>12, <1>13
  <2> HIDE DEF a, b, c, d
  <2>2. a = b - d + v
    BY <2>1
  <2> QED
    BY <2>2 DEF a, b, d
<1> QED
  <2>1. IsSumResized(m, n, k, i, v, S)
    BY <1>3, <1>7, <1>10, <1>14 DEF e, f, IsSumResized
  <2> QED
    BY <2>1 DEF n

-----------------------------------------------------------------------------
\* The order of the list.
LEMMA BeforeIs ==
  ASSUME NEW s \in Seq(Keys), Distinct(s)
  PROVE  /\ \A x, y : Before(s, x, y) => x # y /\ x \in ToSet(s) /\ y \in ToSet(s) /\ ~Before(s, y, x)
         /\ \A x, y \in ToSet(s) : x # y => Before(s, x, y) \/ Before(s, y, x)
<1>0. Len(s) \in Nat /\ DOMAIN s = 1..Len(s)
  OBVIOUS
<1>1. ASSUME NEW x, NEW y, Before(s, x, y)
      PROVE  x # y /\ x \in ToSet(s) /\ y \in ToSet(s) /\ ~Before(s, y, x)
  <2>1. PICK i \in DOMAIN s, j \in DOMAIN s : i < j /\ s[i] = x /\ s[j] = y
    BY <1>1 DEF Before
  <2>2. x # y
    BY <1>0, <2>1 DEF Distinct
  <2>3. ASSUME NEW a \in DOMAIN s, NEW b \in DOMAIN s, a < b, s[a] = y, s[b] = x PROVE FALSE
    <3>1. a = j /\ b = i
      BY <2>1, <2>3 DEF Distinct
    <3> QED
      BY <1>0, <2>1, <2>3, <3>1
  <2> QED
    BY <2>1, <2>2, <2>3 DEF Before, ToSet
<1>2. ASSUME NEW x \in ToSet(s), NEW y \in ToSet(s), x # y PROVE Before(s, x, y) \/ Before(s, y, x)
  <2>1. PICK i \in DOMAIN s, j \in DOMAIN s : s[i] = x /\ s[j] = y
    BY DEF ToSet
  <2>2. i < j \/ j < i
    BY <1>0, <1>2, <2>1
  <2> QED
    BY <2>1, <2>2 DEF Before
<1> QED
  BY <1>1, <1>2

\* The keys that are left are in the order they were in.
LEMMA WithoutKeeps ==
  ASSUME NEW s \in Seq(Keys), Distinct(s), NEW k, NEW x, NEW y, Before(s, x, y), x # k, y # k
  PROVE  Before(Without(s, k), x, y)
<1> DEFINE t == Without(s, k)
<1>1. t \in Seq(Keys) /\ Distinct(t) /\ ToSet(t) = ToSet(s) \ {k} /\ \A a, b : Before(t, a, b) => Before(s, a, b)
  BY WithoutIs
<1>2. x \in ToSet(s) /\ y \in ToSet(s) /\ x # y /\ ~Before(s, y, x)
  BY BeforeIs
<1> HIDE DEF t
<1>3. Before(t, x, y) \/ Before(t, y, x)
  BY <1>1, <1>2, BeforeIs
<1> QED
  BY <1>1, <1>2, <1>3 DEF t

\* The first key comes before the others.
LEMMA FirstBefore ==
  ASSUME NEW s \in Seq(Keys), s # <<>>
  PROVE  Head(s) \in ToSet(s) /\ Head(s) \in Keys /\ \A y \in ToSet(s) : y # Head(s) => Before(s, Head(s), y)
<1>1. Head(s) = s[1] /\ 1 \in DOMAIN s /\ DOMAIN s = 1..Len(s) /\ Len(s) \in Nat /\ Head(s) \in Keys
  OBVIOUS
<1>2. ASSUME NEW y \in ToSet(s), y # Head(s) PROVE Before(s, Head(s), y)
  <2>1. PICK j \in DOMAIN s : s[j] = y
    BY DEF ToSet
  <2>2. 1 < j
    BY <1>1, <1>2, <2>1
  <2> QED
    BY <1>1, <2>1, <2>2 DEF Before
<1> QED
  BY <1>1, <1>2 DEF ToSet
-----------------------------------------------------------------------------
\* The keys of the steps that gather.
LEMMA PopGathers ==
  ASSUME NEW t \in Seq(StepRec), t # <<>>
  PROVE  CollectKeys(t) = CollectKeys(Tail(t)) \cup (IF Head(t).do = "collect" THEN {Head(t).key} ELSE {})
<1> DEFINE u == Tail(t)
<1>1. /\ DOMAIN t = 1..Len(t) /\ DOMAIN u = 1..Len(t) - 1 /\ Len(t) \in Nat /\ Len(t) > 0 /\ Head(t) = t[1]
      /\ \A n \in 1..Len(t) - 1 : u[n] = t[n + 1]
  OBVIOUS
<1> HIDE DEF u
<1>2. ASSUME NEW n \in Gathers(u) PROVE u[n].key \in CollectKeys(t)
  <2>1. n \in 1..Len(t) - 1 /\ u[n] = t[n + 1] /\ u[n].do = "collect"
    BY <1>1 DEF Gathers
  <2>2. n + 1 \in Gathers(t)
    BY <1>1, <2>1 DEF Gathers
  <2> QED
    BY <2>1, <2>2 DEF CollectKeys
<1>3. ASSUME NEW n \in Gathers(t), n # 1 PROVE t[n].key \in CollectKeys(u)
  <2>1. n - 1 \in 1..Len(t) - 1 /\ u[n - 1] = t[(n - 1) + 1] /\ (n - 1) + 1 = n
    BY <1>1, <1>3 DEF Gathers
  <2>2. n - 1 \in Gathers(u) /\ u[n - 1] = t[n]
    BY <1>1, <2>1 DEF Gathers
  <2> QED
    BY <2>2 DEF CollectKeys
<1>4. 1 \in Gathers(t) <=> Head(t).do = "collect"
  BY <1>1 DEF Gathers
<1> QED
  BY <1>1, <1>2, <1>3, <1>4 DEF CollectKeys, u
-----------------------------------------------------------------------------
(***************************************************************************)
(* What the core of the invariant asks of a memory and of a call.          *)
(***************************************************************************)
BlankLengths(m) == \A k \in Keys : m.ent[k] # NoEntry /\ ~m.ent[k].readable => m.ent[k].len = NoLength
Sound(m) == m \in Mems /\ Listed(m) /\ HeldKnown(m) /\ BlankLengths(m)

\* Unless a value is being published.
LEMMA CoreSound ==
  ASSUME NEW m, NEW t, NEW ph, Core(m, t, ph), ~At(t, {"publish", "complete"})
  PROVE  Sound(m) /\ m.size \in Nat /\ (ph = "up" => SizedBy(m, {}))
  BY DEF Core, BlankKnown, Publishes, Sound, BlankLengths, Sized

\* When no call is in progress.
LEMMA CoreIdle ==
  ASSUME NEW m, NEW ph, Core(m, <<>>, ph)
  PROVE  Sound(m) /\ m.size \in Nat /\ (ph = "up" => SizedBy(m, {}))
<1>1. ~At(<<>>, {"publish", "complete"})
  BY DEF At
<1> QED
  BY <1>1, CoreSound

\* A call is over.
LEMMA CoreRests ==
  ASSUME NEW m, NEW ph \in {"up", "down"}, Sound(m), m.size \in Nat, ph = "up" => SizedBy(m, {})
  PROVE  Core(m, <<>>, ph)
<1>1. Control(<<>>, ph) /\ <<>> \in Seq(StepRec)
  BY Rests
<1>2. Ready(m, <<>>) /\ Given(m, <<>>) /\ Sized(m, <<>>, ph)
  BY DEF Ready, Given, Sized, At
<1>3. BlankKnown(m, <<>>)
  BY DEF BlankKnown, Sound, BlankLengths
<1> QED
  BY <1>1, <1>2, <1>3 DEF Core, Sound

\* A call begins.
LEMMA CoreBegins ==
  ASSUME NEW m, NEW p, Whole(p, "up"), Sound(m), SizedBy(m, {}), Ready(m, p), Given(m, p)
  PROVE  Core(m, p, "up")
<1>1. p \in Seq(StepRec) /\ Control(p, "up")
  BY Begins
<1>2. m.size \in Nat
  BY SizeNat DEF Sound
<1>3. BlankKnown(m, p)
  BY DEF BlankKnown, Sound, BlankLengths
<1>4. Sized(m, p, "up")
  BY <1>2 DEF Sized
<1> QED
  BY <1>1, <1>3, <1>4 DEF Core, Sound

\* A memory with the same entries.
SameLists(m, n) == n \in Mems /\ n.ent = m.ent /\ n.lru = m.lru /\ n.size = m.size

\* Memories with the same entries have the same size.
LEMMA SizedBySame ==
  ASSUME NEW m, NEW n, SameLists(m, n), NEW U
  PROVE  SizedBy(m, U) <=> SizedBy(n, U)
  BY DEF SizedBy, SameLists, Sum, TotalOf

\* The core of the invariant is about the entries only.
LEMMA CoreSame ==
  ASSUME NEW m, NEW n, NEW t, NEW ph, Core(m, t, ph), SameLists(m, n)
  PROVE  Core(n, t, ph)
<1>0. n.ent = m.ent /\ n.lru = m.lru /\ n.size = m.size /\ n \in Mems
  BY DEF SameLists
<1>1. Listed(n) /\ HeldKnown(n)
  BY <1>0 DEF Core, Listed, HeldKnown, Known, EditingIn
<1>2. Ready(n, t) /\ Given(n, t) /\ BlankKnown(n, t)
  BY <1>0 DEF Core, Ready, Given, BlankKnown, Known, EditingIn, Resting
<1>3. \A U : SizedBy(m, U) => SizedBy(n, U)
  BY SizedBySame
<1>4. EditingKeys(n) = EditingKeys(m) /\ Pend(n, t) = Pend(m, t) /\ (Collecting(m, t) => Collecting(n, t))
  BY <1>0 DEF EditingKeys, EditingIn, Pend, Collecting
<1>5. \A U : Uncounted(m, t, U) => Uncounted(n, t, U)
  BY <1>0, <1>3, <1>4 DEF Uncounted
<1>6. Sized(n, t, ph)
  BY <1>0, <1>3, <1>4, <1>5 DEF Core, Sized
<1> QED
  BY <1>0, <1>1, <1>2, <1>6 DEF Core

Calm ==
    {"useBackup", "closeWriter", "writeTmp", "backup", "install", "reopen", "flush", "submit",
     "rebuildIf", "zero", "closed", "wipe", "abort", "erase", "trim", "give"}
Needy == {"publish", "discard", "complete", "unlink", "dropEntry", "deleteClean", "removed"}

\* After a step that concerns no entry comes another one.
LEMMA CalmNext ==
  ASSUME NEW s, NEW t, Follows(s, t), s.do \in Calm
  PROVE  /\ t.do \notin Needy \cup {"collect", "opened"}
         /\ s.do \in Rebuild => t.do \in Rebuild \cup {"process", "created", "zero", "closed"}
<1>1. CASE s.do \in Rebuild
  BY <1>1 DEF Follows, Rebuild, Needy
<1>2. CASE s.do \in Calm \ Rebuild
  BY <1>2 DEF Follows, Rebuild, Calm, Needy
<1> QED
  BY <1>1, <1>2

\* The edit of a call is known to the end of the call.
LEMMA PopGiven ==
  ASSUME NEW m, NEW t, NEW ph, Running(t, ph), Given(m, t), Popped(t, Tail(t), ph)
  PROVE  Given(m, Tail(t))
<1>1. t \in Seq(StepRec) /\ t # <<>>
  BY DEF Running
<1>2. CASE Tail(t) # <<>>
  <2>1. Tail(t)[Len(Tail(t))] = t[Len(t)]
    BY <1>1, <1>2
  <2> QED
    BY <1>1, <1>2, <2>1 DEF Given, Popped
<1>3. CASE Tail(t) = <<>>
  BY <1>3 DEF Given
<1> QED
  BY <1>2, <1>3

\* A step that concerns no entry goes by.
LEMMA CalmPop ==
  ASSUME NEW m, NEW t, NEW ph, Core(m, t, ph), t # <<>>, Head(t).do \in Calm
  PROVE  Core(m, Tail(t), ph)
<1> DEFINE u == Tail(t)
<1>1. Running(t, ph)
  BY DEF Core, Running
<1>2. Popped(t, u, ph)
  BY <1>1, Pops DEF Calm, OpenEnds
<1>3. HeadFacts(t)
  BY <1>1, HeadIs
<1>4. Given(m, u)
  BY <1>1, <1>2, PopGiven DEF Core
<1> HIDE DEF u
<1>5. ~At(t, Needy)
  BY DEF At, Calm, Needy
<1>6. u # <<>> => Follows(Head(t), Head(u)) /\ Final(u) = Final(t) /\ Head(u).do \in StepsOf(Final(t))
  BY <1>2 DEF Popped
<1>7. ~At(u, Needy)
  BY <1>6, CalmNext DEF At
<1>8. Going(t) = {} /\ Going(u) = {}
  BY <1>5, <1>7 DEF Going, At, Needy
<1>9. Ready(m, u)
  BY <1>7 DEF Ready, At, Needy
<1>10. BlankKnown(m, u)
  BY <1>5 DEF Core, BlankKnown, Publishes, At, Needy
<1>11. Sized(m, u, ph)
  <2>1. ph = "opening" => u # <<>> /\ Final(u) = Final(t) /\ t # <<>>
    BY <1>2, <1>6 DEF Popped, Control
  <2>2. ASSUME ph = "opening", Final(t) = "opened"
        PROVE  Pend(m, t) = Pend(m, u) /\ (Collecting(m, t) => Collecting(m, u))
    <3>1. Head(t).do \in Rebuild /\ Head(u).do \in Reloads
      <4>1. Head(t).do \in Rebuild
        BY <1>3, <2>2 DEF HeadFacts, StepsOf, Calm, Rebuild, Drops
      <4>2. Head(u).do \in Rebuild \cup {"process", "created", "zero", "closed"}
        BY <1>6, <2>1, <2>2, <4>1, CalmNext
      <4>3. Head(u).do \in StepsOf("opened")
        BY <1>6, <2>1, <2>2
      <4> QED
        BY <4>1, <4>2, <4>3 DEF StepsOf, Reloads, Rebuild, Drops
    <3>2. At(t, Reloads) /\ At(u, Reloads)
      BY <2>1, <2>2, <3>1 DEF At, Reloads
    <3>3. ASSUME Collecting(m, t) PROVE Collecting(m, u)
      <4>1. \A n \in DOMAIN t : t[n].do # "collect"
        BY <3>2, <3>3 DEF Collecting
      <4>2. \A n \in DOMAIN u : u[n].do # "collect"
        BY <1>2, <4>1 DEF Popped
      <4> QED
        BY <4>2 DEF Collecting
    <3> QED
      BY <3>2, <3>3 DEF Pend
  <2>3. \A U : Uncounted(m, t, U) => Uncounted(m, u, U)
    BY <1>8 DEF Uncounted
  <2> QED
    BY <2>1, <2>2, <2>3 DEF Core, Sized
<1> QED
  BY <1>2, <1>4, <1>9, <1>10, <1>11 DEF Core, Popped, u

-----------------------------------------------------------------------------
(***************************************************************************)
(* What all steps have in common.                                          *)
(***************************************************************************)
LEMMA Bounds == {MaxEdits, MaxCrashes, MaxFaults, MaxLines, MaxPending, Compact} \subseteq Nat
  BY BoundAssumption

\* The history keeps its type.
LEMMA ObserveType ==
  ASSUME TypeInv, Observe, disk' \in Disks, mem' \in Mems
  PROVE  seen' \in Views
<1> DEFINE v == ViewOf(disk', mem', seen.value)
<1>1. v \in Views
  <2>1. \A k \in Keys : disk'.clean[k] \in Values /\ seen.value[k] \in Values
    BY DEF TypeInv, Disks, Views
  <2>2. [k \in Keys |-> [i \in Idx |-> IF disk'.clean[k][i] # NoFile THEN disk'.clean[k][i] ELSE seen.value[k][i]]]
          \in [Keys -> Values]
    BY <2>1 DEF Values
  <2>3. \A k \in Keys : VisibleIn(disk', mem', k) \in BOOLEAN
    BY DEF VisibleIn, Mems, Entries
  <2>4. \A k \in Keys : mem'.ent[k] # NoEntry /\ mem'.ent[k].editor # NoEditor => mem'.ent[k].editor.wrote \in Values
    BY DEF Mems, Entries, Editors
  <2>5. [k \in Keys |-> IF /\ mem'.ent[k] # NoEntry /\ mem'.ent[k].editor # NoEditor
                           /\ mem'.ent[k].editor.held
                        THEN mem'.ent[k].editor.wrote ELSE NoDraft] \in [Keys -> Values \cup {NoDraft}]
    BY <2>4
  <2>6. [k \in Keys |-> VisibleIn(disk', mem', k)] \in [Keys -> BOOLEAN]
    BY <2>3
  <2> QED
    BY <2>2, <2>5, <2>6 DEF ViewOf, Views
<1>2. seen \in Views
  BY DEF TypeInv
<1> QED
  BY <1>1, <1>2 DEF Observe

\* What is left to show of a step of a call.
Lands ==
    /\ disk' \in Disks /\ phase' \in Phases /\ pending' \in 0..MaxPending
    /\ leaky' \in BOOLEAN /\ faults' \in Nat
    /\ Core(mem', todo', phase')
    /\ Files(disk', mem', todo', phase')

\* A step of a call keeps the invariant when it lands well.
LEMMA InsideLands ==
  ASSUME TypeInv, Observe, Inside, Lands
  PROVE  IInv'
<1>1. mem' \in Mems /\ todo' \in Seq(StepRec)
  BY DEF Lands, Core
<1>2. seen' \in Views
  BY <1>1, ObserveType DEF Lands
<1> QED
  BY <1>1, <1>2 DEF IInv, TypeInv, Lands, Inside

\* A cleanup is submitted.
LEMMA SubmitType ==
  ASSUME TypeInv, NEW yes, Submit(yes)
  PROVE  pending' \in 0..MaxPending
<1>1. pending \in 0..MaxPending /\ MaxPending \in Nat
  BY Bounds DEF TypeInv
<1> QED
  BY <1>1 DEF Submit

\* A call in progress.
LEMMA StepIs ==
  ASSUME IInv, NEW op, Step(op)
  PROVE  /\ Running(todo, phase) /\ HeadFacts(todo) /\ Head(todo).do = op /\ todo # <<>> /\ phase # "down"
         /\ op \in StepsOf(Final(todo)) /\ Final(todo) \in OpenEnds \cup UpEnds
         /\ phase = (IF Final(todo) \in OpenEnds THEN "opening" ELSE "up")
<1>1. todo # <<>> /\ Head(todo).do = op
  BY DEF Step
<1>2. Running(todo, phase)
  BY <1>1 DEF IInv, TypeInv, Running, Core
<1>3. HeadFacts(todo)
  BY <1>2, HeadIs
<1>4. Final(todo) \in OpenEnds \cup UpEnds /\ (phase = "opening" <=> Final(todo) \in OpenEnds) /\ phase # "down"
  BY <1>1, <1>2 DEF Running, Control
<1> QED
  BY <1>1, <1>2, <1>3, <1>4 DEF HeadFacts, IInv, TypeInv, Phases

\* The programs of an open that starts again.
LEMMA WipeFresh ==
  LET p == Do("wipe") \o Do("fresh")
  IN  Prog(p, Closes \cup {"fresh"}) /\ p[1] = [do |-> "wipe"] /\ Len(p) = 2 /\ p[Len(p)] = [do |-> "fresh"]
      /\ Final(p) = "fresh"
<1> DEFINE a == Do("wipe")  b == Do("fresh")  S == Closes \cup {"fresh"}
<1>1. /\ Prog(a, S) /\ a[1] = [do |-> "wipe"] /\ Len(a) = 1 /\ a[Len(a)] = [do |-> "wipe"]
      /\ Prog(b, S) /\ b[1] = [do |-> "fresh"] /\ Len(b) = 1 /\ b[Len(b)] = [do |-> "fresh"] /\ Final(b) = "fresh"
  BY DoIs DEF PlainOps, Closes
<1> HIDE DEF a, b, S
<1>2. IsGlued(a \o b, a, b, S)
  <2>1. Fits(a, b, S)
    BY <1>1 DEF Fits, Follows
  <2> QED
    BY <2>1, Glue
<1> QED
  BY <1>1, <1>2 DEF IsGlued, a, b, S

\* closing a cache and what comes then
LEMMA CloseAndThen ==
  ASSUME mem \in Mems, NEW op \in {"wipe", "down"}, NEW S, Closes \cup {op} \subseteq S
  PROVE  LET p == CloseProgram \o Do(op)
         IN  Prog(p, S) /\ p[Len(p)] = [do |-> op] /\ Final(p) = op /\ p[1].do \in {"abort", "trim"}
<1> DEFINE a == CloseProgram  b == Do(op)
<1>1. Prog(a, S) /\ a[Len(a)] = [do |-> "closed"] /\ a[1].do \in {"abort", "trim"}
  <2>1. Prog(a, Closes \ {"wipe"}) /\ a[Len(a)] = [do |-> "closed"] /\ a[1].do \in {"abort", "trim"}
    BY CloseProgramIs
  <2> HIDE DEF a
  <2>2. Closes \ {"wipe"} \subseteq S
    OBVIOUS
  <2> QED
    BY <2>1, <2>2, Wider
<1>2. Prog(b, S) /\ b[1] = [do |-> op] /\ b[Len(b)] = [do |-> op] /\ Final(b) = op
  <2>1. op \in PlainOps /\ op \in S
    BY DEF PlainOps
  <2> QED
    BY <2>1, DoIs
<1> HIDE DEF a, b
<1>3. IsGlued(a \o b, a, b, S)
  <2>1. Fits(a, b, S)
    BY <1>1, <1>2 DEF Fits, Follows
  <2> QED
    BY <2>1, Glue
<1> QED
  BY <1>1, <1>2, <1>3 DEF IsGlued, a, b

\* An exception that open catches begins such a program.
LEMMA CatchProgram ==
  ASSUME mem \in Mems
  PROVE  LET p == (IF mem.writer = "none" THEN <<>> ELSE CloseProgram) \o Do("wipe") \o Do("fresh")
         IN  /\ Whole(p, "opening") /\ Final(p) = "fresh" /\ p[1].do \in {"wipe", "abort", "trim"}
             /\ p[1].do = "wipe" => mem.writer = "none"
<1> DEFINE S == StepsOf("fresh")
<1>0. S = Closes \cup {"fresh"}
  BY DEF StepsOf
<1>1. CASE mem.writer = "none"
  <2> DEFINE p == Do("wipe") \o Do("fresh")
  <2>1. (<<>> \o Do("wipe")) \o Do("fresh") = p
    BY DEF Do
  <2>2. Prog(p, S) /\ p[1] = [do |-> "wipe"] /\ Final(p) = "fresh"
    BY <1>0, WipeFresh
  <2>3. (IF mem.writer = "none" THEN <<>> ELSE CloseProgram) \o Do("wipe") \o Do("fresh") = p
    BY <1>1, <2>1
  <2> HIDE DEF p
  <2>4. Whole(p, "opening") /\ p[1].do = "wipe"
    BY <2>2 DEF Whole, OpenEnds
  <2> QED
    BY <1>1, <2>2, <2>3, <2>4
<1>2. CASE mem.writer # "none"
  <2> DEFINE a == CloseProgram \o Do("wipe")  b == Do("fresh")
  <2>1. Prog(a, S) /\ a[Len(a)] = [do |-> "wipe"] /\ a[1].do \in {"abort", "trim"}
    BY <1>0, CloseAndThen DEF Closes
  <2>2. Prog(b, S) /\ b[1] = [do |-> "fresh"] /\ Final(b) = "fresh"
    BY <1>0, DoIs DEF PlainOps
  <2> HIDE DEF a, b, S
  <2>3. IsGlued(a \o b, a, b, S)
    <3>1. Fits(a, b, S)
      BY <2>1, <2>2 DEF Fits, Follows
    <3> QED
      BY <3>1, Glue
  <2> QED
    BY <1>2, <2>1, <2>2, <2>3 DEF IsGlued, a, b, S, Whole, OpenEnds
<1> QED
  BY <1>1, <1>2

-----------------------------------------------------------------------------
(***************************************************************************)
(* An exception.                                                           *)
(***************************************************************************)
WriterStays == mem'.writer \in {mem.writer, "broken"}
Thrown ==
    /\ phase' \in Phases /\ leaky' \in BOOLEAN
    /\ Core(mem', todo', phase') /\ Files(disk', mem', todo', phase')

\* The call ends.
LEMMA ThrowRests ==
  ASSUME IInv, Throw, todo # <<>>, disk' = disk, WriterStays,
         ~(phase = "opening" /\ Final(todo) = "opened"),
         Sound(mem'), mem'.size \in Nat, phase = "up" => SizedBy(mem', {})
  PROVE  Thrown
<1>1. Running(todo, phase) /\ phase # "down" /\ phase \in Phases
  BY DEF IInv, TypeInv, Core, Running, Control
<1>2. ASSUME phase = "opening" PROVE \A n \in DOMAIN todo : todo[n].do # "opened"
  <2>1. Within(todo, StepsOf(Final(todo))) /\ Final(todo) \in OpenEnds /\ Final(todo) # "opened"
    BY <1>1, <1>2 DEF Running, Control
  <2>2. "opened" \notin StepsOf(Final(todo))
    BY <2>1 DEF StepsOf, OpenEnds, Closes, Removes, Aborts, Rebuild
  <2> QED
    BY <2>1, <2>2 DEF Within
<1>3. todo' = <<>> /\ phase' \in {"up", "down"} /\ (phase' = "up" => phase = "up") /\ leaky' = leaky
  BY <1>1, <1>2 DEF Throw, IInv, TypeInv, Phases
<1>4. Core(mem', <<>>, phase')
  BY <1>3, CoreRests
<1>5. Files(disk', mem', <<>>, phase')
  BY <1>1, <1>3 DEF Files, IInv, WriterStays, At
<1> QED
  BY <1>3, <1>4, <1>5 DEF Thrown, IInv, TypeInv, Phases

\* open starts again.
LEMMA ThrowCaught ==
  ASSUME IInv, Throw, todo # <<>>, disk' = disk, WriterStays,
         phase = "opening", Final(todo) = "opened", SameLists(mem, mem')
  PROVE  Thrown
<1> DEFINE q == (IF mem.writer = "none" THEN <<>> ELSE CloseProgram) \o Do("wipe") \o Do("fresh")
<1>1. Running(todo, phase) /\ HeadFacts(todo) /\ mem \in Mems
  BY HeadIs DEF IInv, TypeInv, Core, Running
<1>2. \E n \in DOMAIN todo : todo[n].do = "opened"
  BY <1>1 DEF HeadFacts, Final
<1>3. todo' = q /\ phase' = phase /\ leaky' = TRUE
  BY <1>2 DEF Throw
<1>4. /\ Whole(q, "opening") /\ Final(q) = "fresh" /\ q[1].do \in {"wipe", "abort", "trim"}
      /\ q[1].do = "wipe" => mem.writer = "none"
  BY <1>1, CatchProgram
<1> HIDE DEF q
<1>5. q \in Seq(StepRec) /\ q # <<>> /\ Control(q, "opening") /\ Head(q) = q[1]
  BY <1>4, Begins
<1>6. Core(mem', todo, phase)
  BY CoreSame DEF IInv
<1>7. Head(todo).do \in StepsOf("opened")
  BY <1>1 DEF HeadFacts
<1>8. ~At(todo, {"publish", "complete"}) /\ Going(todo) = {}
  BY <1>7 DEF At, Going, StepsOf, Rebuild, Drops
<1>9. Sound(mem') /\ mem'.size \in Nat
  BY <1>6, <1>8, CoreSound
<1>10. Going(q) = {}
  BY <1>4, <1>5 DEF Going, At
<1>11. Sized(mem', q, "opening")
  <2>1. Uncounted(mem', todo, Pend(mem', todo))
    BY <1>6 DEF Core, Sized
  <2>2. Uncounted(mem', q, Pend(mem', todo))
    BY <1>8, <1>10, <2>1 DEF Uncounted
  <2> QED
    BY <1>4, <1>9, <2>2 DEF Sized
<1>12. Ready(mem', q) /\ Given(mem', q) /\ BlankKnown(mem', q)
  BY <1>4, <1>5, <1>9 DEF Ready, Given, BlankKnown, At, Sound, BlankLengths
<1>13. Core(mem', q, "opening")
  BY <1>5, <1>9, <1>11, <1>12 DEF Core, Sound
<1>14. Files(disk', mem', q, "opening")
  <2>1. mem'.writer = "open" => mem.writer = "open"
    BY DEF WriterStays
  <2>2. disk'.journal # NoFile \/ mem'.writer # "open"
    BY <1>1, <2>1 DEF Files, IInv
  <2> QED
    BY <1>4, <1>5, <2>1, <2>2 DEF Files, At, Writerless
<1> QED
  BY <1>3, <1>13, <1>14 DEF Thrown, Phases

\* An exception that changes no entry.
LEMMA Throws ==
  ASSUME IInv, Throw, todo # <<>>, disk' = disk, WriterStays, SameLists(mem, mem'),
         Head(todo).do \notin {"publish", "complete"}
  PROVE  Thrown
<1>1. CASE phase = "opening" /\ Final(todo) = "opened"
  BY <1>1, ThrowCaught
<1>2. CASE ~(phase = "opening" /\ Final(todo) = "opened")
  <2>1. Core(mem', todo, phase)
    BY CoreSame DEF IInv
  <2>2. ~At(todo, {"publish", "complete"})
    BY DEF At
  <2>3. Sound(mem') /\ mem'.size \in Nat /\ (phase = "up" => SizedBy(mem', {}))
    BY <2>1, <2>2, CoreSound
  <2> QED
    BY <1>2, <2>3, ThrowRests
<1> QED
  BY <1>1, <1>2

\* An exception lands well.
LEMMA ThrowLands ==
  ASSUME IInv, Thrown, disk' = disk, pending' \in 0..MaxPending, faults' \in Nat
  PROVE  Lands
  BY DEF Lands, Thrown, IInv, TypeInv

\* An I/O error is counted.
LEMMA FaultType == ASSUME IInv, NEW kind, Fault(kind) PROVE faults' \in Nat
  BY DEF Fault, IInv, TypeInv

\* A step that concerns no entry, and goes well.
LEMMA CalmLands ==
  ASSUME IInv, todo # <<>>, Head(todo).do \in Calm, SameLists(mem, mem'), todo' = Tail(todo),
         phase' = phase, leaky' \in BOOLEAN, faults' = faults, disk' \in Disks, pending' \in 0..MaxPending,
         Files(disk', mem', Tail(todo), phase)
  PROVE  Lands
<1>1. Core(mem', todo, phase)
  BY CoreSame DEF IInv
<1>2. Core(mem', Tail(todo), phase)
  BY <1>1, CalmPop
<1> QED
  BY <1>2 DEF Lands, IInv, TypeInv

\* The step that follows.
LEMMA NextIs ==
  ASSUME IInv, todo # <<>>, Head(todo).do \notin OpenEnds \cup {"down"}
  PROVE  LET u == Tail(todo)
         IN  /\ Popped(todo, u, phase)
             /\ u # <<>> => Follows(Head(todo), Head(u)) /\ Head(u).do \in StepsOf(Final(todo))
             /\ phase = "opening" => u # <<>>
<1>1. Running(todo, phase)
  BY DEF IInv, TypeInv, Core, Running
<1>2. Popped(todo, Tail(todo), phase)
  BY <1>1, Pops
<1> QED
  BY <1>2 DEF Popped, Control

-----------------------------------------------------------------------------
(***************************************************************************)
(* The steps that concern no entry.                                        *)
(***************************************************************************)
LEMMA Continues ==
  ASSUME IInv, todo # <<>>
  PROVE  /\ Continue(<<>>) => todo' = Tail(todo)
         /\ Tail(todo) \in Seq(StepRec)
<1>1. todo \in Seq(StepRec)
  BY DEF IInv, TypeInv
<1>2. Tail(todo) \in Seq(StepRec)
  BY <1>1
<1>3. <<>> \o Tail(todo) = Tail(todo)
  BY <1>2
<1> QED
  BY <1>2, <1>3 DEF Continue

\* A memory of which only the writer changed.
LEMMA SameIs ==
  ASSUME IInv
  PROVE  /\ mem' = mem => SameLists(mem, mem') /\ WriterStays
         /\ \A w \in {"none", "open", "broken"}, o \in Seq(Lines) :
              mem' = [mem EXCEPT !.writer = w, !.out = o] =>
                SameLists(mem, mem') /\ mem'.writer = w /\ mem'.out = o
         /\ \A o \in Seq(Lines) : mem' = [mem EXCEPT !.out = o] =>
                SameLists(mem, mem') /\ WriterStays
         /\ mem.out \in Seq(Lines) /\ <<>> \in Seq(Lines)
<1>1. mem \in Mems
  BY DEF IInv, TypeInv
<1>2. mem' = mem => SameLists(mem, mem') /\ WriterStays
  BY <1>1 DEF SameLists, WriterStays
<1>3. ASSUME NEW w \in {"none", "open", "broken"}, NEW o \in Seq(Lines), mem' = [mem EXCEPT !.writer = w, !.out = o]
      PROVE SameLists(mem, mem') /\ mem'.writer = w /\ mem'.out = o
  BY <1>1, <1>3 DEF Mems, SameLists
<1>4. ASSUME NEW o \in Seq(Lines), mem' = [mem EXCEPT !.out = o]
      PROVE SameLists(mem, mem') /\ WriterStays
  BY <1>1, <1>4 DEF Mems, SameLists, WriterStays
<1>5. mem.out \in Seq(Lines) /\ <<>> \in Seq(Lines)
  BY <1>1 DEF Mems
<1> QED
  BY <1>2, <1>3, <1>4, <1>5

\* Lines that reach the journal.
LEMMA AppendedType ==
  ASSUME IInv, mem.writer = "open", phase # "down", NEW o \in Seq(Lines)
  PROVE  LET d == [disk EXCEPT !.journal.lines = @ \o o]
         IN  d \in Disks /\ d.journal # NoFile /\ d.tmp = disk.tmp
<1> DEFINE d == [disk EXCEPT !.journal.lines = @ \o o]
           l == disk.journal.lines \o o
           j == [disk.journal EXCEPT !.lines = l]
<1>1. disk.journal \in Journals /\ disk \in Disks
  BY DEF IInv, Files, TypeInv, Disks
<1>2. l \in Seq(Lines)
  <2>1. disk.journal.lines \in Seq(Lines)
    BY <1>1 DEF Journals
  <2> QED
    BY <2>1
<1>4. d = [disk EXCEPT !.journal = j]
  BY <1>1 DEF Disks, Journals
<1> HIDE DEF l
<1>3. j \in Journals
  BY <1>1, <1>2 DEF Journals
<1> HIDE DEF j, d
<1>5. d \in Disks /\ d.journal = j /\ d.tmp = disk.tmp
  BY <1>1, <1>3, <1>4 DEF Disks
<1> QED
  BY <1>3, <1>5, NullAssumption DEF d

\* UseBackup keeps the invariant.
LEMMA UseBackupKeeps == ASSUME IInv, UseBackup PROVE IInv'
<1>1. Step("useBackup") /\ Inside /\ Observe /\ mem' = mem /\ pending' = pending
  BY DEF UseBackup
<1>2. todo # <<>> /\ Head(todo).do = "useBackup" /\ phase # "down"
  BY <1>1, StepIs
<1>3. SameLists(mem, mem') /\ WriterStays /\ pending' \in 0..MaxPending
  BY <1>1, SameIs DEF IInv, TypeInv
<1>4. CASE /\ disk' = IF disk.backup = NoFile THEN disk
                      ELSE [disk EXCEPT !.backup = NoFile,
                              !.journal = IF @ = NoFile THEN disk.backup ELSE @]
           /\ Continue(<<>>) /\ Done
  <2>1. todo' = Tail(todo) /\ phase' = phase /\ leaky' \in BOOLEAN /\ faults' = faults
    BY <1>2, <1>4, Continues DEF Done, NoFault, IInv, TypeInv
  <2>2. disk' \in Disks
    BY <1>4 DEF IInv, TypeInv, Disks
  <2>3. mem.writer # "open"
    BY <1>2 DEF IInv, Files, At, Writerless
  <2>4. Tail(todo) # <<>> => Head(Tail(todo)).do = "load"
    <3>1. Tail(todo) # <<>> => Follows(Head(todo), Head(Tail(todo)))
      BY <1>2, NextIs DEF OpenEnds
    <3> QED
      BY <1>2, <3>1 DEF Follows
  <2>5. Files(disk', mem', Tail(todo), phase)
    BY <1>1, <2>3, <2>4 DEF Files, At
  <2>6. Lands
    BY <1>2, <1>3, <2>1, <2>2, <2>5, CalmLands DEF Calm
  <2> QED
    BY <1>1, <2>6, InsideLands DEF IInv
<1>5. CASE Fault("rename") /\ Throw /\ UNCHANGED disk
  <2>1. Thrown
    BY <1>2, <1>3, <1>5, Throws
  <2>2. Lands
    BY <1>3, <1>5, <2>1, FaultType, ThrowLands
  <2> QED
    BY <1>1, <2>2, InsideLands DEF IInv
<1> QED
  BY <1>4, <1>5 DEF UseBackup

\* CloseWriter keeps the invariant.
LEMMA CloseWriterKeeps == ASSUME IInv, CloseWriter PROVE IInv'
<1> DEFINE w == IF mem.writer = "none" THEN "none" ELSE "broken"
<1>1. /\ Step("closeWriter") /\ Inside /\ Observe /\ pending' = pending
      /\ mem' = [mem EXCEPT !.writer = w, !.out = <<>>]
  BY DEF CloseWriter, IInv, TypeInv, Mems
<1>2. todo # <<>> /\ Head(todo).do = "closeWriter" /\ phase # "down"
  BY <1>1, StepIs
<1>3. SameLists(mem, mem') /\ mem'.writer = w /\ pending' \in 0..MaxPending
  <2>1. w \in {"none", "open", "broken"}
    OBVIOUS
  <2> HIDE DEF w
  <2> QED
    BY <1>1, <2>1, SameIs DEF IInv, TypeInv
<1>w. WriterStays /\ mem'.writer # "open"
  BY <1>3 DEF WriterStays
<1>4. CASE /\ disk' = IF mem.writer # "open" THEN disk ELSE [disk EXCEPT !.journal.lines = @ \o mem.out]
           /\ Continue(<<>>) /\ Done
  <2>1. todo' = Tail(todo) /\ phase' = phase /\ leaky' \in BOOLEAN /\ faults' = faults
    BY <1>2, <1>4, Continues DEF Done, NoFault, IInv, TypeInv
  <2>2. disk' \in Disks
    <3>1. mem.out \in Seq(Lines)
      BY SameIs
    <3> QED
      BY <1>2, <1>4, <3>1, AppendedType DEF IInv, TypeInv
  <2>4. Tail(todo) # <<>> => Head(Tail(todo)).do \in {"writeTmp", "closed"}
    <3>1. Tail(todo) # <<>> => Follows(Head(todo), Head(Tail(todo)))
      BY <1>2, NextIs DEF OpenEnds
    <3> QED
      BY <1>2, <3>1 DEF Follows
  <2>5. Files(disk', mem', Tail(todo), phase)
    BY <1>w, <2>4 DEF Files, At
  <2>6. Lands
    BY <1>2, <1>3, <2>1, <2>2, <2>5, CalmLands DEF Calm
  <2> QED
    BY <1>1, <2>6, InsideLands DEF IInv
<1>5. CASE Fault("flush") /\ Throw /\ UNCHANGED disk
  <2>1. Thrown
    BY <1>2, <1>3, <1>w, <1>5, Throws
  <2>2. Lands
    BY <1>3, <1>5, <2>1, FaultType, ThrowLands
  <2> QED
    BY <1>1, <2>2, InsideLands DEF IInv
<1> QED
  BY <1>4, <1>5 DEF CloseWriter

\* WriteTmp keeps the invariant.
LEMMA WriteTmpKeeps == ASSUME IInv, WriteTmp PROVE IInv'
<1>1. Step("writeTmp") /\ Inside /\ Observe /\ mem' = mem /\ pending' = pending
  BY DEF WriteTmp
<1>2. todo # <<>> /\ Head(todo).do = "writeTmp" /\ phase # "down"
  BY <1>1, StepIs
<1>3. SameLists(mem, mem') /\ WriterStays /\ pending' \in 0..MaxPending
  BY <1>1, SameIs DEF IInv, TypeInv
<1>4. CASE /\ disk' = [disk EXCEPT !.tmp = [version |-> mem.version, lines |-> Compacted, torn |-> FALSE]]
           /\ Continue(<<>>) /\ Done
  <2>1. todo' = Tail(todo) /\ phase' = phase /\ leaky' \in BOOLEAN /\ faults' = faults
    BY <1>2, <1>4, Continues DEF Done, NoFault, IInv, TypeInv
  <2> DEFINE j == [version |-> mem.version, lines |-> Compacted, torn |-> FALSE]
  <2>2. j \in Journals /\ j # NoFile
    <3>1. mem \in Mems /\ Listed(mem)
      BY DEF IInv, TypeInv, Core
    <3>2. Compacted \in Seq(Lines)
      <4>1. ASSUME NEW n \in DOMAIN mem.lru
            PROVE  LET k == mem.lru[n] IN
                   (IF Editing(k) THEN Line("DIRTY", k) ELSE CleanLine(k, mem.ent[k])) \in Lines
        <5>1. mem.lru[n] \in ToSet(mem.lru)
          BY DEF ToSet
        <5>2. mem.lru[n] \in Keys /\ mem.ent[mem.lru[n]] \in Entries
          BY <3>1, <5>1, ListIs
        <5>3. mem.ent[mem.lru[n]].len \in [Idx -> Nat]
          BY <5>2, TotalIs
        <5> QED
          BY <5>2, <5>3 DEF Line, CleanLine, Lines
      <4>2. DOMAIN mem.lru = 1..Len(mem.lru) /\ Len(mem.lru) \in Nat
        BY <3>1 DEF Mems
      <4> QED
        BY <4>1, <4>2 DEF Compacted
    <3>3. mem.version \in Versions
      BY <3>1 DEF Mems
    <3>4. j \in Journals
      BY <3>2, <3>3 DEF Journals
    <3> QED
      BY <3>4, NullAssumption
  <2> HIDE DEF j
  <2>3. disk' = [disk EXCEPT !.tmp = j]
    BY <1>4 DEF j
  <2>4. disk' \in Disks /\ disk'.journal = disk.journal /\ disk'.tmp # NoFile
    BY <2>2, <2>3 DEF IInv, TypeInv, Disks
  <2>5. mem.writer # "open"
    BY <1>2 DEF IInv, Files, At, Writerless
  <2>6. Tail(todo) # <<>> => Head(Tail(todo)).do = "backup"
    <3>1. Tail(todo) # <<>> => Follows(Head(todo), Head(Tail(todo)))
      BY <1>2, NextIs DEF OpenEnds
    <3> QED
      BY <1>2, <3>1 DEF Follows
  <2>7. Files(disk', mem', Tail(todo), phase)
    BY <1>1, <2>4, <2>5, <2>6 DEF Files, At
  <2>8. Lands
    BY <1>2, <1>3, <2>1, <2>4, <2>7, CalmLands DEF Calm
  <2> QED
    BY <1>1, <2>8, InsideLands DEF IInv
<1>5. CASE Fault("rebuild") /\ Throw /\ UNCHANGED disk
  <2>1. Thrown
    BY <1>2, <1>3, <1>5, Throws
  <2>2. Lands
    BY <1>3, <1>5, <2>1, FaultType, ThrowLands
  <2> QED
    BY <1>1, <2>2, InsideLands DEF IInv
<1> QED
  BY <1>4, <1>5 DEF WriteTmp

\* Backup keeps the invariant.
LEMMA BackupKeeps == ASSUME IInv, Backup PROVE IInv'
<1>1. Step("backup") /\ Inside /\ Observe /\ mem' = mem /\ pending' = pending
  BY DEF Backup
<1>2. todo # <<>> /\ Head(todo).do = "backup" /\ phase # "down"
  BY <1>1, StepIs
<1>3. SameLists(mem, mem') /\ WriterStays /\ pending' \in 0..MaxPending
  BY <1>1, SameIs DEF IInv, TypeInv
<1>4. CASE /\ disk' = IF disk.journal = NoFile THEN disk ELSE JournalKept(disk)
           /\ Continue(<<>>) /\ Done
  <2>1. todo' = Tail(todo) /\ phase' = phase /\ leaky' \in BOOLEAN /\ faults' = faults
    BY <1>2, <1>4, Continues DEF Done, NoFault, IInv, TypeInv
  <2>2. disk' \in Disks /\ disk'.tmp = disk.tmp
    BY <1>4 DEF IInv, TypeInv, Disks, JournalKept
  <2>3. mem.writer # "open" /\ disk.tmp # NoFile
    BY <1>2 DEF IInv, Files, At, Writerless
  <2>4. Tail(todo) # <<>> => Head(Tail(todo)).do = "install"
    <3>1. Tail(todo) # <<>> => Follows(Head(todo), Head(Tail(todo)))
      BY <1>2, NextIs DEF OpenEnds
    <3> QED
      BY <1>2, <3>1 DEF Follows
  <2>5. Files(disk', mem', Tail(todo), phase)
    BY <1>1, <2>2, <2>3, <2>4 DEF Files, At
  <2>6. Lands
    BY <1>2, <1>3, <2>1, <2>2, <2>5, CalmLands DEF Calm
  <2> QED
    BY <1>1, <2>6, InsideLands DEF IInv
<1>5. CASE Fault("rename") /\ Throw /\ UNCHANGED disk
  <2>1. Thrown
    BY <1>2, <1>3, <1>5, Throws
  <2>2. Lands
    BY <1>3, <1>5, <2>1, FaultType, ThrowLands
  <2> QED
    BY <1>1, <2>2, InsideLands DEF IInv
<1> QED
  BY <1>4, <1>5 DEF Backup

\* Install keeps the invariant.
LEMMA InstallKeeps == ASSUME IInv, Install PROVE IInv'
<1>1. Step("install") /\ Inside /\ Observe /\ mem' = mem /\ pending' = pending
  BY DEF Install
<1>2. todo # <<>> /\ Head(todo).do = "install" /\ phase # "down"
  BY <1>1, StepIs
<1>3. SameLists(mem, mem') /\ WriterStays /\ pending' \in 0..MaxPending
  BY <1>1, SameIs DEF IInv, TypeInv
<1>4. CASE /\ disk' = [disk EXCEPT !.journal = disk.tmp, !.tmp = NoFile]
           /\ Continue(<<>>) /\ Done
  <2>1. todo' = Tail(todo) /\ phase' = phase /\ leaky' \in BOOLEAN /\ faults' = faults
    BY <1>2, <1>4, Continues DEF Done, NoFault, IInv, TypeInv
  <2>3. mem.writer # "open" /\ disk.tmp # NoFile
    BY <1>2 DEF IInv, Files, At, Writerless
  <2>2. disk' \in Disks /\ disk'.journal # NoFile
    BY <1>4, <2>3 DEF IInv, TypeInv, Disks
  <2>4. Tail(todo) # <<>> => Head(Tail(todo)).do = "reopen"
    <3>1. Tail(todo) # <<>> => Follows(Head(todo), Head(Tail(todo)))
      BY <1>2, NextIs DEF OpenEnds
    <3> QED
      BY <1>2, <3>1 DEF Follows
  <2>5. Files(disk', mem', Tail(todo), phase)
    BY <1>1, <2>2, <2>3, <2>4 DEF Files, At
  <2>6. Lands
    BY <1>2, <1>3, <2>1, <2>2, <2>5, CalmLands DEF Calm
  <2> QED
    BY <1>1, <2>6, InsideLands DEF IInv
<1>5. CASE Fault("rename") /\ Throw /\ UNCHANGED disk
  <2>1. Thrown
    BY <1>2, <1>3, <1>5, Throws
  <2>2. Lands
    BY <1>3, <1>5, <2>1, FaultType, ThrowLands
  <2> QED
    BY <1>1, <2>2, InsideLands DEF IInv
<1> QED
  BY <1>4, <1>5 DEF Install

\* Reopen keeps the invariant.
LEMMA ReopenKeeps == ASSUME IInv, Reopen PROVE IInv'
<1>1. /\ Step("reopen") /\ Quiet /\ Observe /\ Continue(<<>>)
      /\ disk' = [disk EXCEPT !.backup = NoFile]
      /\ mem' = [mem EXCEPT !.writer = "open", !.out = <<>>]
  BY DEF Reopen
<1>2. todo # <<>> /\ Head(todo).do = "reopen" /\ phase # "down"
  BY <1>1, StepIs
<1>3. SameLists(mem, mem')
  BY <1>1, SameIs
<1>4. /\ Inside /\ pending' \in 0..MaxPending /\ todo' = Tail(todo) /\ phase' = phase
      /\ leaky' \in BOOLEAN /\ faults' = faults
  BY <1>1, <1>2, Continues DEF Quiet, NoFault, IInv, TypeInv
<1>5. disk.journal # NoFile
  BY <1>2 DEF IInv, Files, At
<1>6. disk' \in Disks /\ disk'.journal = disk.journal
  BY <1>1 DEF IInv, TypeInv, Disks
<1>7. Tail(todo) # <<>> => Head(Tail(todo)).do \in {"process", "created", "zero"}
  <2>1. Tail(todo) # <<>> => Follows(Head(todo), Head(Tail(todo)))
    BY <1>2, NextIs DEF OpenEnds
  <2> QED
    BY <1>2, <2>1 DEF Follows
<1>8. Files(disk', mem', Tail(todo), phase)
  BY <1>5, <1>6, <1>7 DEF Files, At, Writerless
<1>9. Lands
  BY <1>2, <1>3, <1>4, <1>6, <1>8, CalmLands DEF Calm
<1> QED
  BY <1>1, <1>4, <1>9, InsideLands DEF IInv

-----------------------------------------------------------------------------
\* FlushStep keeps the invariant.
LEMMA FlushKeeps == ASSUME IInv, FlushStep PROVE IInv'
<1>1. Step("flush") /\ Inside /\ Observe /\ pending' = pending
  BY DEF FlushStep
<1>2. todo # <<>> /\ Head(todo).do = "flush" /\ phase # "down"
  BY <1>1, StepIs
<1>3. pending' \in 0..MaxPending /\ mem.out \in Seq(Lines) /\ <<>> \in Seq(Lines)
  BY <1>1, SameIs DEF IInv, TypeInv
<1>4. CASE /\ mem.writer = "open"
           /\ disk' = [disk EXCEPT !.journal.lines = @ \o mem.out]
           /\ mem' = [mem EXCEPT !.out = <<>>]
           /\ Continue(<<>>) /\ Done
  <2>1. todo' = Tail(todo) /\ phase' = phase /\ leaky' \in BOOLEAN /\ faults' = faults
    BY <1>2, <1>4, Continues DEF Done, NoFault, IInv, TypeInv
  <2>2. SameLists(mem, mem')
    BY <1>3, <1>4, SameIs
  <2>3. disk' \in Disks /\ disk'.journal # NoFile
    BY <1>2, <1>3, <1>4, AppendedType
  <2>4. Tail(todo) # <<>> => Head(Tail(todo)).do \in {"give", "submit"}
    <3>1. Tail(todo) # <<>> => Follows(Head(todo), Head(Tail(todo)))
      BY <1>2, NextIs DEF OpenEnds
    <3> QED
      BY <1>2, <3>1 DEF Follows
  <2>5. Files(disk', mem', Tail(todo), phase)
    BY <2>3, <2>4 DEF Files, At, Writerless
  <2>6. Lands
    BY <1>2, <1>3, <2>1, <2>2, <2>3, <2>5, CalmLands DEF Calm
  <2> QED
    BY <1>1, <2>6, InsideLands DEF IInv
<1>5. CASE mem.writer # "open" /\ Throw /\ NoFault /\ UNCHANGED <<disk, mem>>
  <2>1. SameLists(mem, mem') /\ WriterStays
    BY <1>5, SameIs
  <2>2. Thrown
    BY <1>2, <1>5, <2>1, Throws
  <2>3. faults' \in Nat
    BY <1>5 DEF NoFault, IInv, TypeInv
  <2>4. Lands
    BY <1>3, <1>5, <2>2, <2>3, ThrowLands
  <2> QED
    BY <1>1, <2>4, InsideLands DEF IInv
<1>6. CASE /\ \E o \in {mem.out, <<>>} : mem' = [mem EXCEPT !.out = o]
           /\ Fault("flush") /\ Throw /\ UNCHANGED disk
  <2>1. SameLists(mem, mem') /\ WriterStays
    BY <1>3, <1>6, SameIs
  <2>2. Thrown
    BY <1>2, <1>6, <2>1, Throws
  <2>3. Lands
    BY <1>3, <1>6, <2>2, FaultType, ThrowLands
  <2> QED
    BY <1>1, <2>3, InsideLands DEF IInv
<1> QED
  BY <1>4, <1>5, <1>6 DEF FlushStep

\* A step that does no more than go on.
LEMMA GoesOn ==
  ASSUME IInv, Inside, Observe, todo # <<>>, phase # "down", Head(todo).do \in Calm \ {"useBackup", "closeWriter", "writeTmp",
           "backup", "install", "reopen", "wipe", "closed", "give"},
         disk' = disk, SameLists(mem, mem'), mem'.writer = mem.writer, Continue(<<>>),
         phase' = phase, leaky' = leaky, faults' = faults, pending' \in 0..MaxPending
  PROVE  IInv'
<1>1. todo' = Tail(todo) /\ leaky' \in BOOLEAN /\ disk' \in Disks
  BY Continues DEF IInv, TypeInv
<1>2. Tail(todo) # <<>> => Head(Tail(todo)).do \notin Writerless
  <2>1. Tail(todo) # <<>> => Follows(Head(todo), Head(Tail(todo)))
    BY NextIs DEF OpenEnds, Calm
  <2> QED
    BY <2>1 DEF Follows, Writerless, Calm
<1>3. Files(disk', mem', Tail(todo), phase)
  BY <1>2 DEF Files, At, Writerless, IInv
<1>4. Lands
  BY <1>1, <1>3, CalmLands
<1> QED
  BY <1>4, InsideLands DEF IInv

\* SubmitStep keeps the invariant.
LEMMA SubmitKeeps == ASSUME IInv, SubmitStep PROVE IInv'
<1>1. /\ Step("submit") /\ Inside /\ Observe /\ Submit(CleanupRequired(mem)) /\ Continue(<<>>)
      /\ disk' = disk /\ mem' = mem /\ phase' = phase /\ leaky' = leaky /\ faults' = faults
  BY DEF SubmitStep, NoFault
<1>2. todo # <<>> /\ Head(todo).do = "submit" /\ phase # "down"
  BY <1>1, StepIs
<1>3. SameLists(mem, mem') /\ mem'.writer = mem.writer
  BY <1>1, SameIs
<1>4. pending' \in 0..MaxPending
  BY <1>1, SubmitType DEF IInv
<1> QED
  BY <1>1, <1>2, <1>3, <1>4, GoesOn DEF Calm

\* Zero keeps the invariant.
LEMMA ZeroKeeps == ASSUME IInv, Zero PROVE IInv'
<1>1. /\ Step("zero") /\ Inside /\ Observe /\ Continue(<<>>) /\ disk' = disk /\ mem' = [mem EXCEPT !.redundant = 0]
      /\ phase' = phase /\ leaky' = leaky /\ faults' = faults /\ pending' = pending
  BY DEF Zero, Quiet, NoFault
<1>2. todo # <<>> /\ Head(todo).do = "zero" /\ phase # "down"
  BY <1>1, StepIs
<1>3. SameLists(mem, mem') /\ mem'.writer = mem.writer
  BY <1>1 DEF IInv, TypeInv, Mems, SameLists
<1>4. pending' \in 0..MaxPending
  BY <1>1 DEF IInv, TypeInv
<1> QED
  BY <1>1, <1>2, <1>3, <1>4, GoesOn DEF Calm

\* Closed keeps the invariant.
LEMMA ClosedKeeps == ASSUME IInv, Closed PROVE IInv'
<1>1. /\ Step("closed") /\ Inside /\ Observe /\ Continue(<<>>) /\ disk' = disk /\ mem' = [mem EXCEPT !.writer = "none"]
      /\ phase' = phase /\ leaky' = leaky /\ faults' = faults /\ pending' = 0
  BY DEF Closed, NoFault
<1>2. todo # <<>> /\ Head(todo).do = "closed" /\ phase # "down"
  BY <1>1, StepIs
<1>3. SameLists(mem, mem') /\ mem'.writer = "none"
  BY <1>1 DEF IInv, TypeInv, Mems, SameLists
<1>4. pending' \in 0..MaxPending
  BY <1>1, Bounds
<1>5. todo' = Tail(todo) /\ leaky' \in BOOLEAN /\ disk' \in Disks
  BY <1>1, <1>2, Continues DEF IInv, TypeInv
<1>6. Tail(todo) # <<>> => Head(Tail(todo)).do \in {"wipe", "down"}
  <2>1. Tail(todo) # <<>> => Follows(Head(todo), Head(Tail(todo)))
    BY <1>2, NextIs DEF OpenEnds
  <2> QED
    BY <1>2, <2>1 DEF Follows
<1>7. Files(disk', mem', Tail(todo), phase)
  BY <1>3, <1>6 DEF Files, At
<1>8. Lands
  BY <1>1, <1>2, <1>3, <1>4, <1>5, <1>7, CalmLands DEF Calm
<1> QED
  BY <1>1, <1>8, InsideLands DEF IInv

\* Wipe keeps the invariant.
LEMMA WipeKeeps == ASSUME IInv, Wipe PROVE IInv'
<1>1. Step("wipe") /\ Inside /\ Observe /\ mem' = mem /\ pending' = pending
  BY DEF Wipe
<1>2. todo # <<>> /\ Head(todo).do = "wipe" /\ phase # "down"
  BY <1>1, StepIs
<1>3. SameLists(mem, mem') /\ WriterStays /\ pending' \in 0..MaxPending
  BY <1>1, SameIs DEF IInv, TypeInv
<1>w. mem.writer # "open"
  BY <1>2 DEF IInv, Files, At, Writerless
<1>4. CASE leaky' = FALSE /\ Continue(<<>>) /\ NoFault /\ UNCHANGED <<disk, phase>>
  <2>1. todo' = Tail(todo) /\ phase' = phase /\ leaky' \in BOOLEAN /\ faults' = faults /\ disk' \in Disks
    BY <1>2, <1>4, Continues DEF NoFault, IInv, TypeInv
  <2>2. Tail(todo) # <<>> => Head(Tail(todo)).do \in {"fresh", "down"}
    <3>1. Tail(todo) # <<>> => Follows(Head(todo), Head(Tail(todo)))
      BY <1>2, NextIs DEF OpenEnds
    <3> QED
      BY <1>2, <3>1 DEF Follows
  <2>3. Files(disk', mem', Tail(todo), phase)
    BY <1>1, <1>w, <2>2 DEF Files, At
  <2>4. Lands
    BY <1>2, <1>3, <2>1, <2>3, CalmLands DEF Calm
  <2> QED
    BY <1>1, <2>4, InsideLands DEF IInv
<1>5. CASE /\ \/ \E x \in ValueFiles(disk) :
                   disk' = [disk EXCEPT !.clean[x[1]][x[2]] = NoFile, !.dirty[x[1]][x[2]] = NoFile]
              \/ \E f \in JournalFiles(disk) : disk' = [disk EXCEPT ![f] = NoFile]
           /\ leaky' = TRUE /\ NoFault /\ UNCHANGED <<todo, phase>>
  <2>1. disk' \in Disks
    <3>1. CASE \E x \in ValueFiles(disk) :
                 disk' = [disk EXCEPT !.clean[x[1]][x[2]] = NoFile, !.dirty[x[1]][x[2]] = NoFile]
      <4>1. PICK x \in ValueFiles(disk) :
                 disk' = [disk EXCEPT !.clean[x[1]][x[2]] = NoFile, !.dirty[x[1]][x[2]] = NoFile]
        BY <3>1
      <4>2. x[1] \in Keys /\ x[2] \in Idx
        BY DEF ValueFiles
      <4> QED
        BY <4>1, <4>2 DEF IInv, TypeInv, Disks, Values
    <3>2. CASE \E f \in JournalFiles(disk) : disk' = [disk EXCEPT ![f] = NoFile]
      BY <3>2 DEF JournalFiles, IInv, TypeInv, Disks
    <3> QED
      BY <1>5, <3>1, <3>2
  <2>2. Core(mem', todo', phase')
    BY <1>1, <1>5 DEF IInv
  <2>3. Files(disk', mem', todo', phase')
    BY <1>1, <1>2, <1>5, <1>w DEF Files, At
  <2>4. Lands
    BY <1>3, <1>5, <2>1, <2>2, <2>3 DEF Lands, NoFault, IInv, TypeInv
  <2> QED
    BY <1>1, <2>4, InsideLands DEF IInv
<1>6. CASE Fault("delete") /\ Throw /\ UNCHANGED disk
  <2>1. Thrown
    BY <1>2, <1>3, <1>6, Throws
  <2>2. Lands
    BY <1>3, <1>6, <2>1, FaultType, ThrowLands
  <2> QED
    BY <1>1, <2>2, InsideLands DEF IInv
<1> QED
  BY <1>4, <1>5, <1>6 DEF Wipe

\* Erase keeps the invariant.
LEMMA EraseKeeps == ASSUME IInv, Erase PROVE IInv'
<1>1. /\ Step("erase") /\ Observe /\ Continue(<<>>) /\ disk' = disk /\ mem' = mem /\ erased' = erased \cup {Head(todo).key}
      /\ phase' = phase /\ leaky' = leaky /\ faults' = faults /\ pending' = pending
      /\ snap' = snap /\ edits' = edits /\ crashes' = crashes
  BY DEF Erase, NoFault
<1>2. todo # <<>> /\ Head(todo).do = "erase" /\ phase # "down" /\ Head(todo) \in StepRec
  BY <1>1, StepIs DEF HeadFacts
<1>3. SameLists(mem, mem') /\ pending' \in 0..MaxPending /\ leaky' \in BOOLEAN /\ disk' \in Disks
  BY <1>1, SameIs DEF IInv, TypeInv
<1>4. todo' = Tail(todo)
  BY <1>1, <1>2, Continues
<1>5. Tail(todo) = <<>>
  <2>1. Tail(todo) # <<>> => Follows(Head(todo), Head(Tail(todo)))
    BY <1>2, NextIs DEF OpenEnds
  <2> QED
    BY <1>2, <2>1 DEF Follows
<1>6. Files(disk', mem', Tail(todo), phase)
  BY <1>1, <1>5 DEF Files, At, IInv
<1>7. Lands
  BY <1>1, <1>2, <1>3, <1>4, <1>6, CalmLands DEF Calm
<1>8. mem' \in Mems /\ seen' \in Views
  BY <1>1, <1>3, ObserveType DEF IInv, TypeInv
<1>9. Head(todo).key \in Keys
  BY <1>2 DEF StepRec, PlainOps, IdxOps
<1> QED
  BY <1>1, <1>7, <1>8, <1>9 DEF IInv, TypeInv, Lands, Core

-----------------------------------------------------------------------------
(***************************************************************************)
(* The ends of calls, and opening.                                         *)
(***************************************************************************)
\* A step that nothing follows.
LEMMA LastOf ==
  ASSUME NEW t \in Seq(StepRec), Chain(t), t # <<>>,
         Head(t).do \in {"load", "opened", "fresh", "created", "give", "erase", "rebuildIf", "zero", "down"}
  PROVE  Tail(t) = <<>> /\ Len(t) = 1 /\ Final(t) = Head(t).do /\ DOMAIN t = {1} /\ t[1] = Head(t)
<1>2. Len(t) \in Nat /\ Len(t) > 0 /\ Head(t) = t[1] /\ DOMAIN t = 1..Len(t)
  OBVIOUS
<1>3. Len(t) = 1
  <2> SUFFICES ASSUME Len(t) # 1 PROVE FALSE
    OBVIOUS
  <2>1. 1 \in 1..Len(t) - 1
    BY <1>2
  <2>2. Follows(t[1], t[1 + 1])
    BY <2>1 DEF Chain
  <2> QED
    BY <1>2, <2>2 DEF Follows
<1>4. Tail(t) = <<>>
  <2> DEFINE u == Tail(t)
  <2>1. u \in Seq(StepRec) /\ Len(u) = Len(t) - 1
    BY <1>2
  <2> HIDE DEF u
  <2>2. u = <<>>
    BY <1>3, <2>1
  <2> QED
    BY <2>2 DEF u
<1> QED
  BY <1>2, <1>3, <1>4 DEF Final

\* The same of the call in progress.
LEMMA LastStep ==
  ASSUME IInv, todo # <<>>,
         Head(todo).do \in {"load", "opened", "fresh", "created", "give", "erase", "rebuildIf", "zero", "down"}
  PROVE  Tail(todo) = <<>> /\ Len(todo) = 1 /\ Final(todo) = Head(todo).do /\ DOMAIN todo = {1} /\ todo[1] = Head(todo)
<1>1. todo \in Seq(StepRec) /\ Chain(todo)
  BY DEF IInv, TypeInv, Core, Control
<1> QED
  BY <1>1, LastOf

\* A memory without entries.
LEMMA NoList ==
  ASSUME NEW m \in Mems, m.lru = <<>>
  PROVE  ToSet(m.lru) = {} /\ Sum(m, {}) = 0 /\ (m.size = 0 => SizedBy(m, {}))
         /\ (Listed(m) => \A k \in Keys : m.ent[k] = NoEntry)
<1>1. ToSet(m.lru) = {}
  BY DEF ToSet
<1>2. Sum(m, {}) = 0
  BY SumEmpty DEF Sum
<1> QED
  BY <1>1, <1>2 DEF SizedBy, Listed

\* Opened keeps the invariant.
LEMMA OpenedKeeps == ASSUME IInv, Opened PROVE IInv'
<1>1. /\ Step("opened") /\ Inside /\ Observe /\ Continue(<<>>) /\ disk' = disk /\ mem' = mem /\ phase' = "up"
      /\ leaky' = leaky /\ faults' = faults /\ pending' = pending
  BY DEF Opened, NoFault
<1>2. todo # <<>> /\ Head(todo).do = "opened" /\ phase # "down" /\ phase = (IF Final(todo) \in OpenEnds THEN "opening" ELSE "up")
  BY <1>1, StepIs
<1>3. Tail(todo) = <<>> /\ Final(todo) = "opened" /\ DOMAIN todo = {1} /\ todo[1] = Head(todo)
  BY <1>2, LastStep
<1>4. phase = "opening" /\ todo' = <<>>
  BY <1>1, <1>2, <1>3, Continues DEF OpenEnds
<1>5. ~At(todo, {"publish", "complete"})
  BY <1>2 DEF At
<1>6. Sound(mem) /\ mem.size \in Nat
  BY <1>5, CoreSound DEF IInv
<1>7. Gathers(todo) = {}
  BY <1>2, <1>3 DEF Gathers
<1>8. Pend(mem, todo) = {}
  BY <1>2, <1>7 DEF Pend, At, Reloads, Rebuild, CollectKeys, Unlinked
<1>9. SizedBy(mem, {})
  BY <1>3, <1>4, <1>8 DEF IInv, Core, Sized, Uncounted
<1>10. Core(mem', todo', phase')
  BY <1>1, <1>4, <1>6, <1>9, CoreRests
<1>11. Files(disk', mem', todo', phase')
  BY <1>1, <1>2, <1>4 DEF Files, At, IInv
<1>12. Lands
  BY <1>1, <1>10, <1>11 DEF Lands, IInv, TypeInv, Phases
<1> QED
  BY <1>1, <1>12, InsideLands DEF IInv

\* Created keeps the invariant.
LEMMA CreatedKeeps == ASSUME IInv, Created PROVE IInv'
<1>1. /\ Step("created") /\ Inside /\ Observe /\ Continue(<<>>) /\ disk' = disk /\ mem' = mem /\ phase' = "up"
      /\ leaky' = leaky /\ faults' = faults /\ pending' = pending
  BY DEF Created, NoFault
<1>2. todo # <<>> /\ Head(todo).do = "created" /\ phase # "down" /\ phase = (IF Final(todo) \in OpenEnds THEN "opening" ELSE "up")
  BY <1>1, StepIs
<1>3. Tail(todo) = <<>> /\ Final(todo) = "created"
  BY <1>2, LastStep
<1>4. phase = "opening" /\ todo' = <<>>
  BY <1>1, <1>2, <1>3, Continues DEF OpenEnds
<1>5. ~At(todo, {"publish", "complete"})
  BY <1>2 DEF At
<1>6. Sound(mem) /\ mem.size \in Nat
  BY <1>5, CoreSound DEF IInv
<1>7. mem.lru = <<>> /\ mem.size = 0
  BY <1>3, <1>4 DEF IInv, Core, Sized
<1>9. SizedBy(mem, {})
  BY <1>6, <1>7, NoList DEF Sound
<1>10. Core(mem', todo', phase')
  BY <1>1, <1>4, <1>6, <1>9, CoreRests
<1>11. Files(disk', mem', todo', phase')
  BY <1>1, <1>2, <1>4 DEF Files, At, IInv
<1>12. Lands
  BY <1>1, <1>10, <1>11 DEF Lands, IInv, TypeInv, Phases
<1> QED
  BY <1>1, <1>12, InsideLands DEF IInv

\* Down keeps the invariant.
LEMMA DownKeeps == ASSUME IInv, Down PROVE IInv'
<1>1. /\ Step("down") /\ Observe /\ Continue(<<>>) /\ disk' = disk /\ mem' = mem /\ phase' = "down"
      /\ leaky' = leaky /\ faults' = faults /\ pending' = pending /\ erased' = {} /\ snap' = NoSnapshot
      /\ edits' = edits /\ crashes' = crashes
  BY DEF Down, NoFault
<1>2. todo # <<>> /\ Head(todo).do = "down" /\ phase # "down"
  BY <1>1, StepIs
<1>3. todo' = <<>>
  BY <1>1, <1>2, LastStep, Continues
<1>5. ~At(todo, {"publish", "complete"})
  BY <1>2 DEF At
<1>6. Sound(mem) /\ mem.size \in Nat
  BY <1>5, CoreSound DEF IInv
<1>10. Core(mem', todo', phase')
  BY <1>1, <1>3, <1>6, CoreRests
<1>11. Files(disk', mem', todo', phase')
  BY <1>1, <1>3 DEF Files, At
<1>12. seen' \in Views
  BY <1>1, ObserveType DEF IInv, TypeInv
<1> QED
  BY <1>1, <1>10, <1>11, <1>12 DEF IInv, TypeInv, Phases, Core

\* The editor is the client's.
LEMMA GiveKeeps == ASSUME IInv, Give PROVE IInv'
<1> DEFINE k == Head(todo).key  e == mem.ent[k]  f == [e EXCEPT !.editor = [e.editor EXCEPT !.held = TRUE]]
<1>1. /\ Step("give") /\ Inside /\ Observe /\ Continue(<<>>) /\ disk' = disk
      /\ mem' = [mem EXCEPT !.ent[k].editor.held = TRUE]
      /\ leaky' = leaky /\ faults' = faults /\ pending' = pending /\ phase' = phase
  BY DEF Give, NoFault, Quiet
<1>2. /\ todo # <<>> /\ Head(todo).do = "give" /\ phase # "down" /\ Head(todo) \in StepRec
      /\ phase = (IF Final(todo) \in OpenEnds THEN "opening" ELSE "up")
  BY <1>1, StepIs DEF HeadFacts
<1>3. Tail(todo) = <<>> /\ Final(todo) = "give" /\ Len(todo) = 1 /\ todo[1] = Head(todo)
  BY <1>2, LastStep
<1>4. phase = "up" /\ todo' = <<>>
  BY <1>1, <1>2, <1>3, Continues DEF OpenEnds
<1>5. ~At(todo, {"publish", "complete"})
  BY <1>2 DEF At
<1>6. Sound(mem) /\ SizedBy(mem, {}) /\ mem \in Mems /\ Listed(mem)
  BY <1>4, <1>5, CoreSound DEF IInv, Sound
<1>7. k \in Keys /\ Known(mem, k)
  <2>1. k \in Keys
    BY <1>2 DEF StepRec, PlainOps, IdxOps
  <2> QED
    BY <1>2, <1>3, <2>1 DEF IInv, Core, Given
<1>8. e \in Entries /\ e.editor \in Editors
  BY <1>6, <1>7 DEF Known, EditingIn, Mems, Entries
<1>9. f \in Entries /\ f.len = e.len /\ f.readable = e.readable /\ f.editor.id = e.editor.id
  BY <1>8 DEF Entries, Editors
<1>10. mem' = [mem EXCEPT !.ent = [mem.ent EXCEPT ![k] = f]]
  BY <1>1, <1>7, <1>8 DEF Mems, Entries, Editors
<1> HIDE DEF f
<1>11. mem' \in Mems /\ mem'.lru = mem.lru /\ mem'.size = mem.size /\ mem'.ent[k] = f
       /\ (\A x \in Keys \ {k} : mem'.ent[x] = mem.ent[x])
       /\ mem'.writer = mem.writer
  BY <1>6, <1>7, <1>9, <1>10 DEF Mems
<1>12. e # NoEntry /\ f # NoEntry
  BY <1>8, <1>9, NullAssumption
<1>13. Listed(mem')
  <2>1. {x \in Keys : mem'.ent[x] # NoEntry} = {x \in Keys : mem.ent[x] # NoEntry}
    BY <1>11, <1>12
  <2> QED
    BY <1>6, <1>11, <2>1 DEF Listed
<1>14. HeldKnown(mem')
  BY <1>6, <1>7, <1>9, <1>11, <1>12 DEF Sound, HeldKnown, Known, EditingIn
<1>15. BlankLengths(mem')
  BY <1>6, <1>7, <1>9, <1>11, <1>12 DEF Sound, BlankLengths
<1>16. SizedBy(mem', {})
  <2>1. SameTotals(mem, mem', ToSet(mem.lru))
    <3>1. Total(f) = Total(e)
      BY <1>8, <1>9, TotalIs
    <3>2. \A x \in ToSet(mem.lru) : x \in Keys /\ mem.ent[x] # NoEntry
      BY <1>6, ListIs
    <3> QED
      BY <1>11, <1>12, <3>1, <3>2 DEF SameTotals
  <2>2. Sum(mem', ToSet(mem.lru)) = Sum(mem, ToSet(mem.lru))
    BY <1>6, <1>11, <1>13, <2>1, SumOfSame
  <2> QED
    BY <1>6, <1>11, <2>2 DEF SizedBy
<1>17. mem'.size \in Nat
  BY <1>6, <1>11, SizeNat
<1>18. Core(mem', todo', phase')
  BY <1>1, <1>4, <1>11, <1>13, <1>14, <1>15, <1>16, <1>17, CoreRests DEF Sound
<1>19. Files(disk', mem', todo', phase')
  BY <1>1, <1>2, <1>4, <1>11 DEF Files, At, IInv
<1>20. Lands
  BY <1>1, <1>18, <1>19 DEF Lands, IInv, TypeInv
<1> QED
  BY <1>1, <1>20, InsideLands DEF IInv

\* A new cache.
LEMMA NewCacheIs ==
  ASSUME NEW v \in Versions, NEW s \in Nat \ {0}, NEW b \in Nat
  PROVE  LET m == NewCache(v, s, b)
         IN  /\ Sound(m) /\ m.lru = <<>> /\ m.size = 0 /\ m.writer = "none" /\ m.out = <<>>
             /\ m.ent = [k \in Keys |-> NoEntry] /\ m.base = b /\ m.nextSeq = 0 /\ m.maxSize = s
             /\ m.version = v
<1> DEFINE m == NewCache(v, s, b)
<1>1. /\ m \in Mems /\ m.lru = <<>> /\ m.size = 0 /\ m.writer = "none" /\ m.ent = [k \in Keys |-> NoEntry]
      /\ m.out = <<>> /\ m.base = b /\ m.nextSeq = 0 /\ m.maxSize = s /\ m.version = v
  BY DEF NewCache, Mems
<1> HIDE DEF m
<1>2. Listed(m)
  BY <1>1 DEF Listed, Distinct, ToSet
<1>3. HeldKnown(m) /\ BlankLengths(m)
  BY <1>1 DEF HeldKnown, BlankLengths, EditingIn
<1> QED
  BY <1>1, <1>2, <1>3 DEF Sound, m

-----------------------------------------------------------------------------
(***************************************************************************)
(* A cache is opened.                                                      *)
(***************************************************************************)
LEMMA CoreOpens ==
  ASSUME NEW m, NEW p, Whole(p, "opening"), Sound(m), Head(p).do \notin Needy, Final(p) # "give",
         Sized(m, p, "opening")
  PROVE  Core(m, p, "opening")
<1>1. p \in Seq(StepRec) /\ Control(p, "opening")
  BY Begins
<1>2. Ready(m, p) /\ Given(m, p) /\ BlankKnown(m, p)
  BY DEF Ready, Given, BlankKnown, At, Needy, Sound, BlankLengths
<1> QED
  BY <1>1, <1>2 DEF Core, Sound

\* A new cache is sized right.
LEMMA EmptySized ==
  ASSUME NEW m, NEW p, Sound(m), m.lru = <<>>, m.size = 0, Head(p).do \notin Needy,
         Final(p) \in {"load", "fresh", "created"}
  PROVE  Sized(m, p, "opening")
<1>1. SizedBy(m, {}) /\ EditingKeys(m) = {}
  BY NoList DEF Sound, EditingKeys, EditingIn
<1>2. Going(p) = {}
  BY DEF Going, At, Needy
<1>3. Uncounted(m, p, {})
  BY <1>1, <1>2 DEF Uncounted, Upward
<1> QED
  BY <1>3 DEF Sized

\* A program with nothing after it.
LEMMA AloneIs ==
  ASSUME NEW S, NEW p, Prog(p, S)
  PROVE  p \o <<>> = p /\ p \in Seq(StepRec)
  BY DEF Prog

\* Fresh keeps the invariant.
LEMMA FreshKeeps == ASSUME IInv, Fresh PROVE IInv'
<1> DEFINE p == RebuildProgram \o Do("created")  S == StepsOf("created")
<1>1. /\ Step("fresh") /\ Inside /\ Observe /\ Continue(p) /\ disk' = disk
      /\ mem' = NewCache(mem.version, mem.maxSize, mem.base)
      /\ leaky' = leaky /\ faults' = faults /\ pending' = pending /\ phase' = phase
  BY DEF Fresh, NoFault, Quiet
<1>2. /\ todo # <<>> /\ Head(todo).do = "fresh" /\ phase # "down"
      /\ phase = (IF Final(todo) \in OpenEnds THEN "opening" ELSE "up")
  BY <1>1, StepIs
<1>3. Tail(todo) = <<>> /\ Final(todo) = "fresh" /\ phase = "opening"
  BY <1>2, LastStep DEF OpenEnds
<1>4. Prog(p, S) /\ p[1] = [do |-> "closeWriter"] /\ Final(p) = "created"
  <2> DEFINE a == RebuildProgram  b == Do("created")
  <2>1. Prog(a, S) /\ a[1] = [do |-> "closeWriter"] /\ a[Len(a)] = [do |-> "reopen"]
    <3>1. Prog(a, Rebuild) /\ a[1] = [do |-> "closeWriter"] /\ a[Len(a)] = [do |-> "reopen"]
      BY RebuildProgramIs
    <3>2. Rebuild \subseteq S
      BY DEF StepsOf
    <3> HIDE DEF a, S
    <3> QED
      BY <3>1, <3>2, Wider
  <2>2. Prog(b, S) /\ b[1] = [do |-> "created"] /\ Final(b) = "created"
    <3>1. "created" \in S
      BY DEF StepsOf
    <3> HIDE DEF S
    <3> QED
      BY <3>1, DoIs DEF PlainOps
  <2> HIDE DEF a, b, S
  <2>3. IsGlued(a \o b, a, b, S)
    <3>1. Fits(a, b, S)
      BY <2>1, <2>2 DEF Fits, Follows
    <3> QED
      BY <3>1, Glue
  <2> QED
    BY <2>1, <2>2, <2>3 DEF IsGlued, a, b
<1> HIDE DEF p
<1>5. todo' = p
  BY <1>1, <1>3, <1>4, AloneIs DEF Continue
<1>6. Whole(p, "opening")
  BY <1>4 DEF Whole, OpenEnds
<1>7. p # <<>> /\ Head(p).do = "closeWriter"
  BY <1>4, <1>6, Begins
<1>8. mem.version \in Versions /\ mem.maxSize \in Nat \ {0} /\ mem.base \in Nat
  BY DEF IInv, TypeInv, Mems
<1>9. Sound(mem') /\ mem'.lru = <<>> /\ mem'.size = 0 /\ mem'.writer = "none"
  BY <1>1, <1>8, NewCacheIs
<1>10. Sized(mem', p, "opening")
  BY <1>4, <1>7, <1>9, EmptySized DEF Needy
<1>11. Core(mem', todo', phase')
  BY <1>1, <1>3, <1>4, <1>5, <1>6, <1>7, <1>9, <1>10, CoreOpens DEF Needy
<1>12. Files(disk', mem', todo', phase')
  BY <1>5, <1>7, <1>9 DEF Files, At
<1>13. Lands
  BY <1>1, <1>11, <1>12 DEF Lands, IInv, TypeInv
<1> QED
  BY <1>1, <1>13, InsideLands DEF IInv

\* open keeps the invariant.
LEMMA openKeeps == ASSUME IInv, NEW v \in Versions, open(v, OpenLimit) PROVE IInv'
<1> DEFINE p == Do("useBackup") \o Do("load")  S == StepsOf("load")
<1>1. /\ Observe /\ todo' = p /\ disk' = disk /\ mem' = NewCache(v, OpenLimit, edits)
      /\ leaky' = leaky /\ faults' = faults /\ pending' = 0 /\ phase' = "opening" /\ erased' = {}
      /\ snap' = NoSnapshot /\ edits' = edits /\ crashes' = crashes
  BY DEF open, Calling, NoFault
<1>4. Prog(p, S) /\ p[1] = [do |-> "useBackup"] /\ Final(p) = "load"
  <2> DEFINE a == Do("useBackup")  b == Do("load")
  <2>1. /\ Prog(a, S) /\ a[1] = [do |-> "useBackup"] /\ a[Len(a)] = [do |-> "useBackup"]
        /\ Prog(b, S) /\ b[1] = [do |-> "load"] /\ Final(b) = "load"
    <3>1. "useBackup" \in S /\ "load" \in S
      BY DEF StepsOf
    <3> HIDE DEF S
    <3> QED
      BY <3>1, DoIs DEF PlainOps
  <2> HIDE DEF a, b, S
  <2>3. IsGlued(a \o b, a, b, S)
    <3>1. Fits(a, b, S)
      BY <2>1 DEF Fits, Follows
    <3> QED
      BY <3>1, Glue
  <2> QED
    BY <2>1, <2>3 DEF IsGlued, a, b
<1> HIDE DEF p
<1>6. Whole(p, "opening")
  BY <1>4 DEF Whole, OpenEnds
<1>7. p # <<>> /\ Head(p).do = "useBackup"
  BY <1>4, <1>6, Begins
<1>8. OpenLimit \in Nat \ {0} /\ edits \in Nat
  BY LimitAssumption, Bounds DEF IInv, TypeInv
<1>9. Sound(mem') /\ mem'.lru = <<>> /\ mem'.size = 0 /\ mem'.writer = "none"
  BY <1>1, <1>8, NewCacheIs
<1>10. Sized(mem', p, "opening")
  BY <1>4, <1>7, <1>9, EmptySized DEF Needy
<1>11. Core(mem', todo', phase')
  BY <1>1, <1>4, <1>6, <1>7, <1>9, <1>10, CoreOpens DEF Needy
<1>12. Files(disk', mem', todo', phase')
  BY <1>1, <1>7, <1>9 DEF Files, At
<1>13. seen' \in Views
  BY <1>1, <1>9, ObserveType DEF IInv, TypeInv, Sound
<1> QED
  BY <1>1, <1>11, <1>12, <1>13, Bounds DEF IInv, TypeInv, Phases, Core

\* Crash keeps the invariant.
LEMMA CrashKeeps == ASSUME IInv, Crash PROVE IInv'
<1>1. /\ Observe /\ todo' = <<>> /\ mem' = NewCache(mem.version, mem.maxSize, mem.base)
      /\ leaky' = leaky /\ faults' = faults /\ pending' = 0 /\ phase' = "down" /\ erased' = {}
      /\ snap' = NoSnapshot /\ edits' = edits /\ crashes' = crashes + 1 /\ phase # "down"
  BY DEF Crash, NoFault
<1>2. disk' \in Disks
  <2>1. PICK n \in 0..Len(mem.out), t \in BOOLEAN :
           disk' = IF mem.writer = "open"
                   THEN [disk EXCEPT !.journal.torn = t, !.journal.lines = @ \o SubSeq(mem.out, 1, n)]
                   ELSE disk
    BY DEF Crash
  <2>2. CASE mem.writer # "open"
    BY <2>1, <2>2 DEF IInv, TypeInv
  <2>3. CASE mem.writer = "open"
    <3> DEFINE o == SubSeq(mem.out, 1, n)  l == disk.journal.lines \o o
               j == [disk.journal EXCEPT !.torn = t, !.lines = l]
    <3>1. o \in Seq(Lines)
      <4>1. mem.out \in Seq(Lines)
        BY SameIs
      <4> QED
        BY <4>1
    <3>2. disk.journal \in Journals /\ disk \in Disks
      BY <1>1, <2>3 DEF IInv, Files, TypeInv, Disks
    <3>3. disk' = [disk EXCEPT !.journal = j]
      <4>1. disk' = [disk EXCEPT !.journal.torn = t, !.journal.lines = @ \o o]
        BY <2>1, <2>3
      <4> HIDE DEF o
      <4> QED
        BY <3>2, <4>1 DEF Disks, Journals
    <3> HIDE DEF o
    <3>4. l \in Seq(Lines)
      <4>1. disk.journal.lines \in Seq(Lines)
        BY <3>2 DEF Journals
      <4> QED
        BY <3>1, <4>1
    <3> HIDE DEF l
    <3>5. j \in Journals
      BY <3>2, <3>4 DEF Journals
    <3> HIDE DEF j
    <3> QED
      BY <3>2, <3>3, <3>5 DEF Disks
  <2> QED
    BY <2>2, <2>3
<1>8. mem.version \in Versions /\ mem.maxSize \in Nat \ {0} /\ mem.base \in Nat
  BY DEF IInv, TypeInv, Mems
<1>9. Sound(mem') /\ mem'.lru = <<>> /\ mem'.size = 0 /\ mem'.writer = "none"
  BY <1>1, <1>8, NewCacheIs
<1>11. Core(mem', todo', phase')
  BY <1>1, <1>9, CoreRests
<1>12. Files(disk', mem', todo', phase')
  BY <1>1 DEF Files, At
<1>13. seen' \in Views
  BY <1>1, <1>2, <1>9, ObserveType DEF IInv, Sound
<1> QED
  BY <1>1, <1>2, <1>11, <1>12, <1>13, Bounds DEF IInv, TypeInv, Phases, Core

-----------------------------------------------------------------------------
\* readJournal, of a memory without entries.
LEMMA ReadIs ==
  ASSUME NEW m, Sound(m), m.lru = <<>>, NEW s \in Seq(Lines)
  PROVE  LET r == ReadJournal(m, s)
             a == ReplayAll(m, s)
         IN  /\ a \in Replays(m)
             /\ r = [m EXCEPT !.lru = a.lru, !.ent = a.ent, !.redundant = r.redundant]
             /\ Sound(r) /\ r.size = m.size /\ r.writer = m.writer
             /\ r.lru = a.lru /\ r.ent = a.ent /\ r.nextSeq = m.nextSeq /\ r.base = m.base /\ r.out = m.out
<1> DEFINE a == ReplayAll(m, s)  r == ReadJournal(m, s)  d == Len(s) - Len(a.lru)
<1>1. m \in Mems /\ Listed(m) /\ \A k \in Keys : m.ent[k] = NoEntry
  BY NoList DEF Sound
<1>2. m \in Replays(m)
  BY <1>1 DEF Replays, Mems
<1>3. a \in Replays(m) /\ Len(a.lru) <= Len(m.lru) + Len(s)
  BY <1>2, ReplayAllIn
<1>4. r = [a EXCEPT !.redundant = d]
  BY FoldIs DEF ReadJournal
<1> HIDE DEF a, r
<1>5. a \in Mems /\ a = [m EXCEPT !.lru = a.lru, !.ent = a.ent] /\ Listed(a)
  BY <1>3 DEF Replays
<1>6. d \in Nat
  <2>1. Len(a.lru) \in Nat /\ Len(s) \in Nat /\ Len(m.lru) = 0
    BY <1>5 DEF Mems
  <2> DEFINE x == Len(a.lru)  y == Len(s)  z == Len(m.lru)
  <2>2. x \in Nat /\ y \in Nat /\ z = 0 /\ x <= z + y
    BY <1>3, <2>1
  <2> HIDE DEF x, y, z
  <2>3. y - x \in Nat
    BY <2>2
  <2> QED
    BY <2>3 DEF x, y
<1> HIDE DEF d
<1>7. r \in Mems
  BY <1>4, <1>5, <1>6 DEF Mems
<1>8. /\ r.lru = a.lru /\ r.ent = a.ent /\ r.size = m.size /\ r.writer = m.writer /\ r.nextSeq = m.nextSeq
      /\ r.base = m.base /\ r.out = m.out
      /\ r = [m EXCEPT !.lru = a.lru, !.ent = a.ent, !.redundant = r.redundant]
  BY <1>1, <1>4, <1>5 DEF Mems
<1>9. Listed(r)
  BY <1>5, <1>8 DEF Listed
<1>10. BlankLengths(r)
  BY <1>3, <1>8 DEF Replays, BlankLengths
<1>11. HeldKnown(r)
  <2> SUFFICES ASSUME NEW k \in Keys, EditingIn(r, k) PROVE ~r.ent[k].editor.held
    BY DEF HeldKnown
  <2>1. r.ent[k].editor = NewEditor(0)
    BY <1>3, <1>8 DEF Replays, EditingIn
  <2> QED
    BY <2>1 DEF NewEditor
<1> QED
  BY <1>3, <1>7, <1>8, <1>9, <1>10, <1>11 DEF Sound, a, r

\* A journal was read, and is to be processed.
LoadOps == Rebuild \cup {"process", "opened"}
LoadProgram(torn) ==
    (IF torn THEN RebuildProgram ELSE Do("reopen")) \o Do("process") \o Do("opened")

\* These steps are a program.
LEMMA LoadProgramIs ==
  ASSUME NEW torn \in BOOLEAN
  PROVE  LET p == LoadProgram(torn)
         IN  /\ Prog(p, LoadOps) /\ p[1].do = (IF torn THEN "closeWriter" ELSE "reopen") /\ Final(p) = "opened"
<1> DEFINE a == IF torn THEN RebuildProgram ELSE Do("reopen")  b == Do("process")  c == Do("opened")
           ab == a \o b  S == LoadOps
<1>1. Prog(a, S) /\ a[1].do = (IF torn THEN "closeWriter" ELSE "reopen") /\ a[Len(a)] = [do |-> "reopen"]
  <2>1. CASE torn
    <3> DEFINE x == RebuildProgram
    <3>1. Prog(x, Rebuild) /\ x[1] = [do |-> "closeWriter"] /\ x[Len(x)] = [do |-> "reopen"]
      BY RebuildProgramIs
    <3>2. Rebuild \subseteq S
      BY DEF LoadOps
    <3> HIDE DEF x, S
    <3>3. Prog(x, S)
      BY <3>1, <3>2, Wider
    <3> QED
      BY <2>1, <3>1, <3>3 DEF x
  <2>2. CASE ~torn
    <3> DEFINE x == Do("reopen")
    <3>1. "reopen" \in S
      BY DEF LoadOps, Rebuild
    <3> HIDE DEF S
    <3>2. Prog(x, S) /\ x[1] = [do |-> "reopen"] /\ x[Len(x)] = [do |-> "reopen"]
      BY <3>1, DoIs DEF PlainOps
    <3> HIDE DEF x
    <3> QED
      BY <2>2, <3>2 DEF x
  <2> QED
    BY <2>1, <2>2
<1>2. /\ Prog(b, S) /\ b[1] = [do |-> "process"] /\ b[Len(b)] = [do |-> "process"]
      /\ Prog(c, S) /\ c[1] = [do |-> "opened"] /\ Final(c) = "opened"
  <2>1. "process" \in S /\ "opened" \in S
    BY DEF LoadOps
  <2> HIDE DEF S
  <2> QED
    BY <2>1, DoIs DEF PlainOps
<1>p. LoadProgram(torn) = ab \o c
  BY DEF LoadProgram
<1> HIDE DEF a, b, c, S
<1>3. IsGlued(ab, a, b, S)
  <2>1. Fits(a, b, S)
    BY <1>1, <1>2 DEF Fits, Follows
  <2> QED
    BY <2>1, Glue
<1> HIDE DEF ab
<1>4. IsGlued(ab \o c, ab, c, S)
  <2>1. Fits(ab, c, S)
    BY <1>2, <1>3 DEF Fits, IsGlued, Follows
  <2> QED
    BY <2>1, Glue
<1> QED
  BY <1>p, <1>1, <1>2, <1>3, <1>4 DEF IsGlued, S

\* Every entry is still to be processed.
LEMMA AllPending ==
  ASSUME NEW m, NEW p, Sound(m), m.size = 0, Prog(p, LoadOps), Head(p).do \in Reloads
  PROVE  Uncounted(m, p, Pend(m, p)) /\ Collecting(m, p)
<1>0. p # <<>>
  BY DEF Prog
<1>1. Pend(m, p) = ToSet(m.lru) /\ Going(p) = {}
  BY <1>0 DEF Pend, Going, At, Reloads, Rebuild
<1>2. m \in Mems /\ Listed(m) /\ m.lru \in Seq(Keys) /\ Distinct(m.lru)
  BY DEF Sound, Listed, Mems
<1>3. SizedBy(m, ToSet(m.lru))
  <2>1. ToSet(m.lru) \ ToSet(m.lru) = {}
    OBVIOUS
  <2>2. Sum(m, {}) = 0
    BY SumEmpty DEF Sum
  <2> QED
    BY <2>1, <2>2 DEF SizedBy
<1>4. EditingKeys(m) \subseteq ToSet(m.lru)
  BY <1>2, ListIs DEF EditingKeys, EditingIn
<1>5. Upward(m.lru, ToSet(m.lru), {})
  BY <1>2, BeforeIs DEF Upward
<1>6. \A n \in DOMAIN p : p[n].do # "collect"
  BY DEF Prog, Within, LoadOps, Rebuild
<1> QED
  BY <1>1, <1>3, <1>4, <1>5, <1>6 DEF Uncounted, Collecting

\* Load keeps the invariant.
LEMMA LoadKeeps == ASSUME IInv, Load PROVE IInv'
<1>1. /\ Step("load") /\ Inside /\ Observe /\ disk' = disk
      /\ leaky' = leaky /\ faults' = faults /\ pending' = pending /\ phase' = phase
  BY DEF Load, NoFault, Quiet
<1>2. /\ todo # <<>> /\ Head(todo).do = "load" /\ phase # "down"
      /\ phase = (IF Final(todo) \in OpenEnds THEN "opening" ELSE "up")
  BY <1>1, StepIs
<1>3. Tail(todo) = <<>> /\ Final(todo) = "load" /\ phase = "opening"
  BY <1>2, LastStep DEF OpenEnds
<1>4. Sound(mem) /\ mem.lru = <<>> /\ mem.size = 0 /\ mem \in Mems
  <2>1. ~At(todo, {"publish", "complete"})
    BY <1>2 DEF At
  <2>2. Sound(mem)
    BY <2>1, CoreSound DEF IInv
  <2> QED
    BY <1>3, <2>2 DEF IInv, Core, Sized, Sound
<1>5. mem.writer # "open"
  BY <1>2 DEF IInv, Files, At, Writerless
<1>6. SUFFICES Core(mem', todo', phase') /\ Files(disk', mem', todo', phase')
  <2>1. Lands
    BY <1>1, <1>6 DEF Lands, IInv, TypeInv
  <2> QED
    BY <1>1, <2>1, InsideLands DEF IInv
<1>7. ASSUME NEW p, Whole(p, "opening"), Final(p) = "fresh", p[1].do \in {"wipe", "fresh"},
             mem' = mem, Continue(p)
      PROVE  Core(mem', todo', phase') /\ Files(disk', mem', todo', phase')
  <2>1. todo' = p
    BY <1>3, <1>7, AloneIs DEF Continue, Whole
  <2>2. p # <<>> /\ Head(p).do \in {"wipe", "fresh"}
    BY <1>7, Begins
  <2>3. Sized(mem', p, "opening")
    BY <1>4, <1>7, <2>2, EmptySized DEF Needy
  <2>4. Core(mem', todo', phase')
    BY <1>1, <1>3, <1>4, <1>7, <2>1, <2>2, <2>3, CoreOpens DEF Needy
  <2> QED
    BY <1>5, <1>7, <2>1, <2>2, <2>4 DEF Files, At
<1>8. CASE disk.journal = NoFile
  <2> DEFINE p == Do("fresh")
  <2>1. mem' = mem /\ Continue(p)
    BY <1>8 DEF Load
  <2>2. Prog(p, StepsOf("fresh")) /\ p[1] = [do |-> "fresh"] /\ Final(p) = "fresh"
    <3> DEFINE S == StepsOf("fresh")
    <3>1. "fresh" \in S
      BY DEF StepsOf
    <3> HIDE DEF S
    <3>2. Prog(p, S) /\ p[1] = [do |-> "fresh"] /\ Final(p) = "fresh"
      BY <3>1, DoIs DEF PlainOps
    <3> QED
      BY <3>2 DEF S
  <2> HIDE DEF p
  <2>3. Whole(p, "opening")
    BY <2>2 DEF Whole, OpenEnds
  <2> QED
    BY <1>7, <2>1, <2>2, <2>3
<1>9. CASE disk.journal # NoFile /\ disk.journal.version # mem.version
  <2> DEFINE p == Do("wipe") \o Do("fresh")
  <2>1. mem' = mem /\ Continue(p)
    BY <1>9 DEF Load
  <2>2. Prog(p, Closes \cup {"fresh"}) /\ p[1] = [do |-> "wipe"] /\ Final(p) = "fresh"
    BY WipeFresh
  <2> HIDE DEF p
  <2>3. Whole(p, "opening")
    BY <2>2 DEF Whole, OpenEnds, StepsOf
  <2> QED
    BY <1>7, <2>1, <2>2, <2>3
<1>10. CASE disk.journal # NoFile /\ disk.journal.version = mem.version
  <2> DEFINE p == LoadProgram(disk.journal.torn)  s == disk.journal.lines
  <2>1. mem' = ReadJournal(mem, s) /\ Continue(p)
    BY <1>10 DEF Load, LoadProgram
  <2>2. disk.journal.torn \in BOOLEAN /\ s \in Seq(Lines)
    BY <1>10 DEF IInv, TypeInv, Disks, Journals
  <2>3. Prog(p, LoadOps) /\ p[1].do \in {"closeWriter", "reopen"} /\ Final(p) = "opened"
    BY <2>2, LoadProgramIs
  <2> HIDE DEF p, s
  <2>4. Sound(mem') /\ mem'.size = mem.size /\ mem'.writer = mem.writer
    BY <1>4, <2>1, <2>2, ReadIs
  <2>5. Whole(p, "opening")
    <3>1. LoadOps \subseteq StepsOf("opened")
      BY DEF LoadOps, StepsOf
    <3>2. Prog(p, StepsOf("opened"))
      BY <2>3, <3>1, Wider
    <3> QED
      BY <2>3, <3>2 DEF Whole, OpenEnds
  <2>6. p # <<>> /\ Head(p).do \in {"closeWriter", "reopen"}
    BY <2>3, <2>5, Begins
  <2>7. Uncounted(mem', p, Pend(mem', p)) /\ Collecting(mem', p)
    BY <1>4, <2>3, <2>4, <2>6, AllPending DEF Reloads, Rebuild
  <2>8. Sized(mem', p, "opening")
    BY <1>4, <2>3, <2>4, <2>7 DEF Sized
  <2>9. todo' = p
    BY <1>3, <2>1, <2>3, AloneIs DEF Continue
  <2>10. Core(mem', todo', phase')
    BY <1>1, <1>3, <2>3, <2>4, <2>5, <2>6, <2>8, <2>9, CoreOpens DEF Needy
  <2>11. Files(disk', mem', todo', phase')
    BY <1>1, <1>5, <1>10, <2>4, <2>6, <2>9 DEF Files, At
  <2> QED
    BY <2>10, <2>11
<1> QED
  BY <1>8, <1>9, <1>10

-----------------------------------------------------------------------------
(***************************************************************************)
(* processJournal.                                                         *)
(***************************************************************************)
GatherOps == Drops \cup {"process"}

\* The steps of processJournal.
LEMMA GatherStep ==
  ASSUME IInv, NEW op \in GatherOps, Step(op)
  PROVE  /\ todo # <<>> /\ Head(todo).do = op /\ Head(todo) = todo[1] /\ Head(todo) \in StepRec
         /\ phase = "opening" /\ Final(todo) = "opened" /\ todo \in Seq(StepRec) /\ Chain(todo)
         /\ Uncounted(mem, todo, Pend(mem, todo)) /\ Collecting(mem, todo)
         /\ Sound(mem) /\ mem.size \in Nat
<1>1. /\ HeadFacts(todo) /\ Head(todo).do = op /\ todo # <<>>
      /\ op \in StepsOf(Final(todo)) /\ Final(todo) \in OpenEnds \cup UpEnds
      /\ phase = (IF Final(todo) \in OpenEnds THEN "opening" ELSE "up")
  BY StepIs
<1>2. Final(todo) = "opened"
  <2>1. op \in {"collect", "unlink", "dropEntry", "process"}
    BY DEF GatherOps, Drops
  <2> QED
    BY <1>1, <2>1 DEF StepsOf, OpenEnds, UpEnds, Rebuild, Closes, Removes, Aborts
<1>3. phase = "opening"
  BY <1>1, <1>2 DEF OpenEnds
<1>4. ~At(todo, {"publish", "complete"})
  BY <1>1 DEF At, GatherOps, Drops
<1>5. Sound(mem) /\ mem.size \in Nat
  BY <1>4, CoreSound DEF IInv
<1> QED
  BY <1>1, <1>2, <1>3, <1>5 DEF IInv, Core, Sized, Control, HeadFacts

Gathering(m, q, P) ==
    /\ SizedBy(m, P) /\ EditingKeys(m) \subseteq P /\ Upward(m.lru, P, {})
    /\ P = CollectKeys(q) \cup Unlinked(q)
    /\ Collecting(m, q)

\* What the invariant asks of them.
LEMMA CoreGathers ==
  ASSUME NEW m, NEW q, NEW P, Sound(m), q \in Seq(StepRec), q # <<>>, Control(q, "opening"),
         Final(q) = "opened", Head(q).do \in Drops \cup {"opened"},
         Head(q).do \in {"unlink", "dropEntry"} => Resting(m, Head(q).key),
         Gathering(m, q, P)
  PROVE  Core(m, q, "opening")
<1>1. Ready(m, q) /\ Given(m, q) /\ BlankKnown(m, q)
  BY DEF Ready, Given, BlankKnown, At, Drops, Sound, BlankLengths
<1>2. Pend(m, q) = P /\ Going(q) = {}
  BY DEF Gathering, Pend, Going, At, Reloads, Rebuild, Drops
<1>3. m.size \in Nat
  BY SizeNat DEF Gathering, Sound
<1>4. Uncounted(m, q, Pend(m, q)) /\ Collecting(m, q)
  BY <1>2 DEF Gathering, Uncounted
<1> QED
  BY <1>1, <1>3, <1>4 DEF Core, Sized, Sound

\* After the first file has gone, the entries that are left are gone through.
LEMMA OnlyCollects ==
  ASSUME NEW t \in Seq(StepRec), t # <<>>, Chain(t), t[1].do \in {"collect", "dropEntry"}
  PROVE  \A n \in DOMAIN t : n # 1 => t[n].do \in {"collect", "opened"}
<1> DEFINE T == {n \in Nat : n + 2 \in DOMAIN t => t[n + 2].do \in {"collect", "opened"}}
<1>1. DOMAIN t = 1..Len(t) /\ Len(t) \in Nat
  OBVIOUS
<1>2. \A n \in 1..Len(t) - 1 : Follows(t[n], t[n + 1])
  BY DEF Chain
<1>3. 0 \in T
  <2> SUFFICES ASSUME 2 \in DOMAIN t PROVE t[2].do \in {"collect", "opened"}
    OBVIOUS
  <2>1. Follows(t[1], t[1 + 1])
    BY <1>1, <1>2
  <2> QED
    BY <2>1 DEF Follows
<1>4. ASSUME NEW n \in Nat, n \in T PROVE n + 1 \in T
  <2> DEFINE i == n + 2
  <2> SUFFICES ASSUME i + 1 \in DOMAIN t PROVE t[i + 1].do \in {"collect", "opened"}
    <3>1. (n + 1) + 2 = i + 1 /\ n + 1 \in Nat
      OBVIOUS
    <3> QED
      BY <3>1
  <2>1. i \in DOMAIN t /\ i \in 1..Len(t) - 1
    BY <1>1
  <2>2. t[i].do \in {"collect", "opened"} /\ Follows(t[i], t[i + 1])
    BY <1>2, <1>4, <2>1
  <2> QED
    BY <2>2 DEF Follows
<1>5. Nat \subseteq T
  <2> HIDE DEF T
  <2> QED
    BY <1>3, <1>4, NatIn
<1> SUFFICES ASSUME NEW n \in DOMAIN t, n # 1 PROVE t[n].do \in {"collect", "opened"}
  OBVIOUS
<1>6. n - 2 \in Nat /\ (n - 2) + 2 = n
  BY <1>1
<1> QED
  BY <1>5, <1>6

\* The keys that are left come later in the list.
LEMMA CollectingPops ==
  ASSUME NEW m, NEW t, NEW ph, Running(t, ph), Popped(t, Tail(t), ph), Collecting(m, t),
         Head(t).do \in Drops
  PROVE  LET u == Tail(t)
         IN  /\ \A n \in DOMAIN u : u[n].do = "collect" => m.ent[u[n].key] # NoEntry
             /\ \A a, b \in DOMAIN u : a < b /\ u[a].do \in Drops /\ u[b].do = "collect" =>
                  Before(m.lru, u[a].key, u[b].key)
             /\ \A b \in DOMAIN u : u[b].do = "collect" => Before(m.lru, Head(t).key, u[b].key)
             /\ \A y \in CollectKeys(u) : Before(m.lru, Head(t).key, y)
<1> DEFINE u == Tail(t)
<1>1. \A n \in DOMAIN u : n + 1 \in DOMAIN t /\ u[n] = t[n + 1] /\ n \in Nat /\ n > 0
  BY DEF Popped, Running
<1>2. 1 \in DOMAIN t /\ Head(t) = t[1]
  BY HeadIs DEF HeadFacts
<1> HIDE DEF u
<1>3. \A n \in DOMAIN u : u[n].do = "collect" => m.ent[u[n].key] # NoEntry
  BY <1>1 DEF Collecting
<1>4. ASSUME NEW a \in DOMAIN u, NEW b \in DOMAIN u, a < b, u[a].do \in Drops, u[b].do = "collect"
      PROVE  Before(m.lru, u[a].key, u[b].key)
  <2>1. a + 1 < b + 1 /\ a + 1 \in DOMAIN t /\ b + 1 \in DOMAIN t /\ u[a] = t[a + 1] /\ u[b] = t[b + 1]
    BY <1>1, <1>4
  <2> QED
    BY <1>4, <2>1 DEF Collecting
<1>5. ASSUME NEW b \in DOMAIN u, u[b].do = "collect" PROVE Before(m.lru, Head(t).key, u[b].key)
  <2>1. 1 < b + 1 /\ b + 1 \in DOMAIN t /\ u[b] = t[b + 1]
    BY <1>1
  <2> QED
    BY <1>2, <1>5, <2>1 DEF Collecting
<1>6. \A y \in CollectKeys(u) : Before(m.lru, Head(t).key, y)
  BY <1>5 DEF CollectKeys, Gathers
<1> QED
  BY <1>3, <1>4, <1>5, <1>6 DEF u

\* Unlink keeps the invariant.
LEMMA UnlinkKeeps == ASSUME IInv, Unlink PROVE IInv'
<1> DEFINE k == Head(todo).key  i == Head(todo).idx  u == Tail(todo)
<1>1. Step("unlink") /\ Inside /\ Observe /\ mem' = mem /\ pending' = pending
  BY DEF Unlink
<1>2. /\ todo # <<>> /\ Head(todo).do = "unlink" /\ Head(todo) \in StepRec /\ phase = "opening"
      /\ Final(todo) = "opened" /\ todo \in Seq(StepRec)
      /\ Uncounted(mem, todo, Pend(mem, todo)) /\ Collecting(mem, todo) /\ Sound(mem)
  BY <1>1, GatherStep DEF GatherOps, Drops
<1>3. SameLists(mem, mem') /\ WriterStays /\ pending' \in 0..MaxPending
  BY <1>1, SameIs DEF IInv, TypeInv
<1>4. k \in Keys /\ i \in Idx
  BY <1>2 DEF StepRec, PlainOps, KeyOps
<1>5. CASE /\ disk' = [disk EXCEPT !.clean[k][i] = NoFile, !.dirty[k][i] = NoFile]
           /\ Continue(<<>>) /\ Done
  <2>1. todo' = u /\ phase' = phase /\ leaky' \in BOOLEAN /\ faults' = faults
    BY <1>2, <1>5, Continues DEF Done, NoFault, IInv, TypeInv
  <2>2. disk' \in Disks /\ disk'.journal = disk.journal
    <3>1. disk.clean \in [Keys -> Values] /\ disk.dirty \in [Keys -> Values] /\ disk \in Disks
      BY DEF IInv, TypeInv, Disks
    <3> DEFINE c == [disk.clean EXCEPT ![k] = [disk.clean[k] EXCEPT ![i] = NoFile]]
               d == [disk.dirty EXCEPT ![k] = [disk.dirty[k] EXCEPT ![i] = NoFile]]
    <3>2. c \in [Keys -> Values] /\ d \in [Keys -> Values]
      BY <1>4, <3>1 DEF Values
    <3>3. disk' = [disk EXCEPT !.clean = c, !.dirty = d]
      BY <1>4, <1>5, <3>1 DEF Disks
    <3> HIDE DEF c, d
    <3> QED
      BY <3>1, <3>2, <3>3 DEF Disks
  <2>3. Popped(todo, u, phase) /\ u # <<>> /\ Running(todo, phase)
    BY <1>2, NextIs DEF OpenEnds, IInv, Core, Running
  <2>4. u \in Seq(StepRec) /\ Control(u, "opening") /\ Final(u) = "opened" /\ Follows(Head(todo), Head(u))
    BY <1>2, <2>3 DEF Popped
  <2>5. Head(u).do \in {"unlink", "dropEntry"} /\ Head(u).key = k
    BY <1>2, <2>4 DEF Follows, NextIndex
  <2>6. Resting(mem, k)
    BY <1>2 DEF IInv, Core, Ready, At
  <2>7. CollectKeys(u) \cup Unlinked(u) = Pend(mem, todo)
    <3>1. CollectKeys(todo) = CollectKeys(u)
      BY <1>2, PopGathers
    <3>2. Unlinked(u) = {k} /\ Unlinked(todo) = {k}
      BY <1>2, <2>3, <2>5 DEF Unlinked, At
    <3> QED
      BY <1>2, <3>1, <3>2 DEF Pend, At, Reloads, Rebuild
  <2>8. Collecting(mem, u)
    BY <1>2, <2>3, <2>5, CollectingPops DEF Collecting, At, Reloads, Rebuild, Drops
  <2>9. Gathering(mem, u, Pend(mem, todo))
    BY <1>2, <2>7, <2>8 DEF Gathering, Uncounted, Going, At
  <2> HIDE DEF u, k
  <2>10. Core(mem, u, "opening")
    BY <1>2, <2>3, <2>4, <2>5, <2>6, <2>9, CoreGathers DEF Drops
  <2>11. Files(disk', mem, u, "opening")
    BY <1>2, <2>2, <2>5 DEF Files, At, Writerless, IInv
  <2>12. Lands
    BY <1>1, <1>2, <1>3, <2>1, <2>2, <2>10, <2>11 DEF Lands, IInv, TypeInv
  <2> QED
    BY <1>1, <2>12, InsideLands DEF IInv
<1>6. CASE Fault("delete") /\ Throw /\ UNCHANGED disk
  <2>1. Thrown
    BY <1>2, <1>3, <1>6, Throws
  <2>2. Lands
    BY <1>3, <1>6, <2>1, FaultType, ThrowLands
  <2> QED
    BY <1>1, <2>2, InsideLands DEF IInv
<1> QED
  BY <1>5, <1>6 DEF Unlink

-----------------------------------------------------------------------------
\* DropEntry keeps the invariant.
LEMMA DropEntryKeeps == ASSUME IInv, DropEntry PROVE IInv'
<1> DEFINE k == Head(todo).key  u == Tail(todo)  l == Without(mem.lru, k)
<1>1. /\ Step("dropEntry") /\ Inside /\ Observe /\ disk' = disk /\ pending' = pending
      /\ leaky' = leaky /\ faults' = faults /\ phase' = phase /\ Continue(<<>>)
      /\ mem' = [mem EXCEPT !.lru = Without(@, k), !.ent[k] = NoEntry]
  BY DEF DropEntry, Quiet, NoFault
<1>2. /\ todo # <<>> /\ Head(todo).do = "dropEntry" /\ Head(todo) \in StepRec /\ phase = "opening"
      /\ Final(todo) = "opened" /\ todo \in Seq(StepRec) /\ Chain(todo) /\ Head(todo) = todo[1]
      /\ Uncounted(mem, todo, Pend(mem, todo)) /\ Collecting(mem, todo) /\ Sound(mem)
  BY <1>1, GatherStep DEF GatherOps, Drops
<1>3. todo' = u
  BY <1>1, <1>2, Continues
<1>4. k \in Keys
  BY <1>2 DEF StepRec, PlainOps, IdxOps
<1>5. Popped(todo, u, phase) /\ u # <<>> /\ Running(todo, phase)
  BY <1>2, NextIs DEF OpenEnds, IInv, Core, Running
<1>6. u \in Seq(StepRec) /\ Control(u, "opening") /\ Final(u) = "opened" /\ Follows(Head(todo), Head(u))
  BY <1>2, <1>5 DEF Popped
<1>7. Head(u).do \in {"collect", "opened"}
  BY <1>2, <1>6 DEF Follows
<1>8. mem \in Mems /\ Listed(mem) /\ mem.lru \in Seq(Keys) /\ Distinct(mem.lru)
  BY <1>2 DEF Sound, Listed, Mems
<1>9. /\ l \in Seq(Keys) /\ Distinct(l) /\ ToSet(l) = ToSet(mem.lru) \ {k}
      /\ \A x, y : Before(l, x, y) => Before(mem.lru, x, y)
      /\ \A x, y : Before(mem.lru, x, y) /\ x # k /\ y # k => Before(l, x, y)
  BY <1>8, WithoutIs, WithoutKeeps
<1>10. CollectKeys(todo) = CollectKeys(u)
  BY <1>2, PopGathers
<1>11. \A y \in CollectKeys(u) : Before(mem.lru, k, y) /\ y # k
  BY <1>2, <1>5, <1>8, CollectingPops, BeforeIs DEF Drops
<1>12. Pend(mem, todo) = CollectKeys(u) \cup {k}
  BY <1>2, <1>10 DEF Pend, At, Reloads, Rebuild, Unlinked
<1>13. \A n \in DOMAIN u : u[n].do \in Drops => u[n].do = "collect"
  <2>1. \A n \in DOMAIN todo : n # 1 => todo[n].do \in {"collect", "opened"}
    BY <1>2, OnlyCollects
  <2>2. \A n \in DOMAIN u : n + 1 \in DOMAIN todo /\ u[n] = todo[n + 1] /\ n + 1 # 1
    BY <1>5, <1>6 DEF Popped
  <2> QED
    BY <2>1, <2>2 DEF Drops
<1> HIDE DEF u, k, l
<1>14. /\ mem' = [mem EXCEPT !.lru = l, !.ent = [mem.ent EXCEPT ![k] = NoEntry]]
  BY <1>1, <1>4, <1>8 DEF Mems, k, l
<1>15. /\ mem' \in Mems /\ mem'.lru = l /\ mem'.size = mem.size /\ mem'.ent[k] = NoEntry
       /\ mem'.writer = mem.writer
       /\ \A x \in Keys \ {k} : mem'.ent[x] = mem.ent[x]
  BY <1>4, <1>8, <1>9, <1>14 DEF Mems
<1>16. Listed(mem')
  BY <1>8, <1>9, <1>15 DEF Listed
<1>17. Sound(mem')
  BY <1>2, <1>15, <1>16 DEF Sound, HeldKnown, Known, EditingIn, BlankLengths
<1>18. Gathering(mem', u, CollectKeys(u))
  <2> DEFINE P == CollectKeys(u)  S == ToSet(mem.lru) \ (P \cup {k})
  <2>1. SizedBy(mem, P \cup {k}) /\ EditingKeys(mem) \subseteq P \cup {k} /\ Upward(mem.lru, P \cup {k}, {})
    BY <1>2, <1>12 DEF Uncounted, Going, At
  <2>2. SizedBy(mem', P)
    <3>1. S \subseteq ToSet(mem.lru) /\ ToSet(l) \ P = S
      BY <1>9
    <3>2. \A x \in S : x \in Keys /\ x # k /\ mem.ent[x] # NoEntry
      BY <1>8, <3>1, ListIs
    <3>3. SameTotals(mem, mem', S)
      BY <1>15, <3>2 DEF SameTotals
    <3> HIDE DEF S
    <3>4. Sum(mem', S) = Sum(mem, S)
      BY <1>8, <1>15, <1>16, <3>1, <3>3, SumOfSame
    <3>5. mem.size = Sum(mem, S)
      BY <2>1 DEF SizedBy, S
    <3>6. P \subseteq ToSet(l)
      BY <1>9, <1>11, <2>1 DEF SizedBy
    <3> QED
      BY <1>15, <3>1, <3>4, <3>5, <3>6 DEF SizedBy
  <2>3. EditingKeys(mem') \subseteq P
    BY <1>15, <2>1 DEF EditingKeys, EditingIn
  <2>4. Upward(mem'.lru, P, {})
    <3> SUFFICES ASSUME NEW x, NEW y, x \in P, Before(l, x, y) PROVE y \in P
      BY <1>15 DEF Upward
    <3>1. y \in P \cup {k}
      BY <1>9, <2>1 DEF Upward
    <3>2. y \in ToSet(l)
      BY <1>9, BeforeIs
    <3> QED
      BY <1>9, <3>1, <3>2
  <2>5. Unlinked(u) = {}
    BY <1>7 DEF Unlinked, At
  <2>6. Collecting(mem', u)
    <3>1. \A n \in DOMAIN u : u[n].do = "collect" => mem'.ent[u[n].key] # NoEntry /\ u[n].key # k
      <4> SUFFICES ASSUME NEW n \in DOMAIN u, u[n].do = "collect"
                   PROVE  mem'.ent[u[n].key] # NoEntry /\ u[n].key # k
        OBVIOUS
      <4>1. u[n].key \in CollectKeys(u)
        BY DEF CollectKeys, Gathers
      <4>2. u[n].key # k /\ u[n].key \in ToSet(mem.lru)
        BY <1>11, <2>1, <4>1 DEF SizedBy
      <4>3. u[n].key \in Keys /\ mem.ent[u[n].key] # NoEntry
        BY <1>8, <4>2, ListIs
      <4> QED
        BY <1>15, <4>2, <4>3
    <3>2. \A a, b \in DOMAIN u : a < b /\ u[a].do \in Drops /\ u[b].do = "collect" =>
             Before(mem.lru, u[a].key, u[b].key)
      BY <1>2, <1>5, CollectingPops DEF Drops, u
    <3>3. \A a, b \in DOMAIN u : a < b /\ u[a].do \in Drops /\ u[b].do = "collect" =>
             Before(l, u[a].key, u[b].key)
      BY <1>9, <1>13, <3>1, <3>2
    <3>4. ~At(u, Reloads)
      BY <1>7 DEF At, Reloads, Rebuild
    <3> QED
      BY <1>15, <3>1, <3>3, <3>4 DEF Collecting
  <2> QED
    BY <2>2, <2>3, <2>4, <2>5, <2>6 DEF Gathering
<1>19. Core(mem', u, "opening")
  BY <1>5, <1>6, <1>7, <1>17, <1>18, CoreGathers DEF Drops
<1>20. Files(disk', mem', u, "opening")
  BY <1>1, <1>2, <1>7, <1>15 DEF Files, At, Writerless, IInv
<1>21. Lands
  BY <1>1, <1>2, <1>3, <1>19, <1>20 DEF Lands, IInv, TypeInv
<1> QED
  BY <1>1, <1>21, InsideLands DEF IInv

\* The steps that delete the files of an entry and drop it.
LEMMA DropProgramIs ==
  ASSUME NEW k \in Keys
  PROVE  LET p == PerIndex("unlink", k) \o DoKey("dropEntry", k)
         IN  /\ Prog(p, Drops) /\ p[Len(p)] = [do |-> "dropEntry", key |-> k]
             /\ p[1] = [do |-> "unlink", key |-> k, idx |-> 0]
             /\ \A n \in 1..Len(p) : p[n].do \in {"unlink", "dropEntry"} /\ p[n].key = k
<1> DEFINE a == PerIndex("unlink", k)  b == DoKey("dropEntry", k)  S == Drops
<1>1. /\ Prog(a, S) /\ Len(a) = valueCount
      /\ \A n \in 1..valueCount : a[n] = [do |-> "unlink", key |-> k, idx |-> n - 1]
      /\ a[1] = [do |-> "unlink", key |-> k, idx |-> 0]
      /\ a[Len(a)] = [do |-> "unlink", key |-> k, idx |-> valueCount - 1]
  <2>1. "unlink" \in S
    BY DEF Drops
  <2> HIDE DEF S
  <2> QED
    BY <2>1, PerIndexIs DEF IdxOps
<1>2. Prog(b, S) /\ b[1] = [do |-> "dropEntry", key |-> k] /\ Len(b) = 1
  <2>1. "dropEntry" \in S
    BY DEF Drops
  <2> HIDE DEF S
  <2> QED
    BY <2>1, DoKeyIs DEF KeyOps
<1> HIDE DEF a, b, S
<1>3. IsGlued(a \o b, a, b, S)
  <2>1. Follows(a[Len(a)], b[1])
    BY <1>1, <1>2 DEF Follows, NextIndex
  <2>2. Fits(a, b, S)
    BY <1>1, <1>2, <2>1 DEF Fits
  <2> QED
    BY <2>2, Glue
<1> DEFINE p == a \o b
<1> HIDE DEF p
<1>4. /\ Prog(p, S) /\ Len(p) = valueCount + 1 /\ \A n \in 1..valueCount : p[n] = a[n]
      /\ \A n \in {1} : p[n + valueCount] = b[n]
      /\ p[Len(p)] = b[1] /\ p[1] = a[1]
  BY <1>1, <1>2, <1>3 DEF IsGlued, p
<1>5. ASSUME NEW n \in 1..Len(p) PROVE p[n].do \in {"unlink", "dropEntry"} /\ p[n].key = k
  <2>1. n \in 1..valueCount \/ n = Len(p)
    BY <1>4, LimitAssumption
  <2> QED
    BY <1>1, <1>2, <1>4, <2>1
<1> QED
  BY <1>1, <1>2, <1>4, <1>5 DEF p, a, b, S

-----------------------------------------------------------------------------
\* The steps of a gathering in front of the others.
LEMMA PushedIs ==
  ASSUME NEW p, NEW t, NEW q, NEW ph, Pushed(p, t, q, ph), t \in Seq(StepRec), p \in Seq(StepRec)
  PROVE  /\ \A n \in DOMAIN q : \/ n \in 1..Len(p) /\ q[n] = p[n]
                                \/ n - Len(p) \in DOMAIN t /\ q[n] = t[n - Len(p)] /\ n > Len(p)
         /\ \A n \in DOMAIN t : n + Len(p) \in DOMAIN q /\ q[n + Len(p)] = t[n]
         /\ \A n \in 1..Len(p) : n \in DOMAIN q /\ q[n] = p[n]
<1>1. /\ DOMAIN q = 1..Len(p) + Len(t) /\ DOMAIN t = 1..Len(t) /\ Len(p) \in Nat /\ Len(t) \in Nat
      /\ \A n \in 1..Len(p) : q[n] = p[n]
      /\ \A n \in 1..Len(t) : q[n + Len(p)] = t[n]
  BY DEF Pushed
<1>2. ASSUME NEW n \in DOMAIN q, n > Len(p)
      PROVE  n - Len(p) \in DOMAIN t /\ q[n] = t[n - Len(p)]
  <2>1. n - Len(p) \in 1..Len(t) /\ (n - Len(p)) + Len(p) = n
    BY <1>1, <1>2
  <2>2. q[(n - Len(p)) + Len(p)] = t[n - Len(p)]
    BY <1>1, <2>1
  <2> QED
    BY <1>1, <2>1, <2>2
<1>3. \A n \in DOMAIN q : n > Len(p) \/ n \in 1..Len(p)
  BY <1>1
<1>4. \A n \in DOMAIN t : n + Len(p) \in DOMAIN q /\ q[n + Len(p)] = t[n]
  BY <1>1
<1>5. \A n \in 1..Len(p) : n \in DOMAIN q /\ q[n] = p[n]
  BY <1>1
<1> QED
  BY <1>2, <1>3, <1>4, <1>5

\* Collect keeps the invariant.
LEMMA CollectKeeps == ASSUME IInv, Collect PROVE IInv'
<1> DEFINE k == Head(todo).key  u == Tail(todo)  e == mem.ent[k]
<1>1. /\ Step("collect") /\ Inside /\ Observe /\ disk' = disk /\ pending' = pending
      /\ leaky' = leaky /\ faults' = faults /\ phase' = phase
  BY DEF Collect, Quiet, NoFault
<1>2. /\ todo # <<>> /\ Head(todo).do = "collect" /\ Head(todo) \in StepRec /\ phase = "opening"
      /\ Final(todo) = "opened" /\ todo \in Seq(StepRec) /\ Chain(todo) /\ Head(todo) = todo[1]
      /\ Uncounted(mem, todo, Pend(mem, todo)) /\ Collecting(mem, todo) /\ Sound(mem)
  BY <1>1, GatherStep DEF GatherOps, Drops
<1>4. k \in Keys
  BY <1>2 DEF StepRec, PlainOps, IdxOps
<1>5. Popped(todo, u, phase) /\ u # <<>> /\ Running(todo, phase)
  BY <1>2, NextIs DEF OpenEnds, IInv, Core, Running
<1>6. u \in Seq(StepRec) /\ Control(u, "opening") /\ Final(u) = "opened" /\ Follows(Head(todo), Head(u))
  BY <1>2, <1>5 DEF Popped
<1>7. Head(u).do \in {"collect", "opened"}
  BY <1>2, <1>6 DEF Follows
<1>8. mem \in Mems /\ Listed(mem) /\ mem.lru \in Seq(Keys) /\ Distinct(mem.lru)
  BY <1>2 DEF Sound, Listed, Mems
<1>10. CollectKeys(todo) = CollectKeys(u) \cup {k}
  BY <1>2, PopGathers
<1>11. \A y \in CollectKeys(u) : Before(mem.lru, k, y) /\ y # k /\ ~Before(mem.lru, y, k)
  BY <1>2, <1>5, <1>8, CollectingPops, BeforeIs DEF Drops
<1>12. Pend(mem, todo) = CollectKeys(u) \cup {k}
  BY <1>2, <1>10 DEF Pend, At, Reloads, Rebuild, Unlinked
<1>14. mem.ent[k] # NoEntry /\ e \in Entries
  <2>1. 1 \in DOMAIN todo
    BY <1>2
  <2>2. mem.ent[k] # NoEntry
    BY <1>2, <2>1 DEF Collecting
  <2> QED
    BY <1>4, <1>8, <2>2 DEF Mems
<1>15. /\ SizedBy(mem, CollectKeys(u) \cup {k}) /\ EditingKeys(mem) \subseteq CollectKeys(u) \cup {k}
       /\ Upward(mem.lru, CollectKeys(u) \cup {k}, {})
  BY <1>2, <1>12 DEF Uncounted, Going, At
<1>16. /\ \A n \in DOMAIN u : u[n].do = "collect" => mem.ent[u[n].key] # NoEntry
       /\ \A a, b \in DOMAIN u : a < b /\ u[a].do \in Drops /\ u[b].do = "collect" =>
             Before(mem.lru, u[a].key, u[b].key)
       /\ \A b \in DOMAIN u : u[b].do = "collect" => Before(mem.lru, k, u[b].key)
  BY <1>2, <1>5, CollectingPops DEF Drops
<1>17. CASE ~Editing(k)
  <2>1. mem' = [mem EXCEPT !.size = @ + Total(mem.ent[k])] /\ Continue(<<>>)
    BY <1>17 DEF Collect
  <2>2. todo' = u
    BY <1>2, <2>1, Continues
  <2> HIDE DEF u, k, e
  <2>3. Total(e) \in Nat /\ mem.size \in Int
    BY <1>8, <1>14, TotalIs DEF Mems
  <2>4. mem' \in Mems /\ mem'.lru = mem.lru /\ mem'.ent = mem.ent /\ mem'.size = mem.size + Total(e) /\ mem'.writer = mem.writer
    <3> DEFINE n == mem.size + Total(e)
    <3>1. mem' = [mem EXCEPT !.size = n]
      BY <2>1 DEF e
    <3>2. n \in Int
      BY <2>3
    <3> HIDE DEF n
    <3>3. mem' \in Mems /\ mem'.lru = mem.lru /\ mem'.ent = mem.ent /\ mem'.size = n /\ mem'.writer = mem.writer
      BY <1>8, <3>1, <3>2 DEF Mems
    <3> QED
      BY <3>3 DEF n
  <2>5. Sound(mem')
    BY <1>2, <2>4 DEF Sound, Listed, HeldKnown, Known, EditingIn, BlankLengths
  <2>6. Gathering(mem', u, CollectKeys(u))
    <3> DEFINE P == CollectKeys(u)  S == ToSet(mem.lru) \ (P \cup {k})
    <3>1. k \in ToSet(mem.lru) /\ k \notin P /\ P \subseteq ToSet(mem.lru)
      BY <1>11, <1>15 DEF SizedBy
    <3>2. Sum(mem, S \cup {k}) = Sum(mem, S) + Total(e)
      <4>1. S \subseteq ToSet(mem.lru) /\ k \notin S
        OBVIOUS
      <4> HIDE DEF S
      <4> QED
        BY <1>8, <3>1, <4>1, SumWith DEF e
    <3>3. S \cup {k} = ToSet(mem.lru) \ P
      BY <3>1
    <3>4. mem.size = Sum(mem, S)
      BY <1>15 DEF SizedBy
    <3>5. Sum(mem', ToSet(mem.lru) \ P) = Sum(mem, ToSet(mem.lru) \ P)
      BY <2>4 DEF Sum, TotalOf
    <3>6. SizedBy(mem', P)
      BY <2>4, <3>1, <3>2, <3>3, <3>4, <3>5 DEF SizedBy
    <3>7. EditingKeys(mem') \subseteq P
      BY <1>15, <1>17, <2>4 DEF EditingKeys, EditingIn, Editing
    <3>8. Upward(mem'.lru, P, {})
      BY <1>11, <1>15, <2>4 DEF Upward
    <3>9. Unlinked(u) = {}
      BY <1>7 DEF Unlinked, At
    <3>10. ~At(u, Reloads)
      BY <1>7 DEF At, Reloads, Rebuild
    <3>11. Collecting(mem', u)
      BY <1>16, <2>4, <3>10 DEF Collecting
    <3> QED
      BY <3>6, <3>7, <3>8, <3>9, <3>11 DEF Gathering
  <2>7. Core(mem', u, "opening")
    BY <1>5, <1>6, <1>7, <2>5, <2>6, CoreGathers DEF Drops
  <2>8. Files(disk', mem', u, "opening")
    BY <1>1, <1>2, <1>7, <2>4 DEF Files, At, Writerless, IInv
  <2>9. Lands
    BY <1>1, <1>2, <2>2, <2>7, <2>8 DEF Lands, IInv, TypeInv
  <2> QED
    BY <1>1, <2>9, InsideLands DEF IInv
<1>18. CASE Editing(k)
  <2> DEFINE p == PerIndex("unlink", k) \o DoKey("dropEntry", k)  q == p \o u
             f == [e EXCEPT !.editor = NoEditor]
  <2>1. mem' = [mem EXCEPT !.ent[k].editor = NoEditor] /\ todo' = q
    BY <1>18 DEF Collect, Continue
  <2>2. /\ Prog(p, Drops) /\ p[Len(p)] = [do |-> "dropEntry", key |-> k]
        /\ p[1] = [do |-> "unlink", key |-> k, idx |-> 0]
        /\ \A n \in 1..Len(p) : p[n].do \in {"unlink", "dropEntry"} /\ p[n].key = k
    BY <1>4, DropProgramIs
  <2> HIDE DEF p, u, k
  <2>3. Pushed(p, u, q, "opening")
    <3>1. Prog(p, StepsOf("opened"))
      BY <2>2, Wider DEF StepsOf
    <3>2. Follows(p[Len(p)], Head(u))
      BY <1>7, <2>2 DEF Follows
    <3>3. Running(u, "opening")
      BY <1>5, <1>6 DEF Running
    <3> QED
      BY <1>6, <3>1, <3>2, <3>3, Pushes DEF Joins
  <2> HIDE DEF q
  <2>4. q \in Seq(StepRec) /\ q # <<>> /\ Control(q, "opening") /\ Final(q) = "opened" /\ Head(q) = [do |-> "unlink", key |-> k, idx |-> 0]
    BY <1>6, <2>2, <2>3 DEF Pushed
  <2>5. f \in Entries /\ f.editor = NoEditor /\ f.readable = e.readable /\ f.len = e.len /\ f # NoEntry
    <3>1. f \in Entries /\ f.editor = NoEditor /\ f.readable = e.readable /\ f.len = e.len
      BY <1>14 DEF Entries
    <3> HIDE DEF f
    <3> QED
      BY <3>1, NullAssumption
  <2>6. mem' = [mem EXCEPT !.ent = [mem.ent EXCEPT ![k] = f]]
    BY <1>4, <1>8, <1>14, <2>1 DEF Mems, Entries
  <2> HIDE DEF f
  <2>7. /\ mem' \in Mems /\ mem'.lru = mem.lru /\ mem'.size = mem.size /\ mem'.ent[k] = f
        /\ mem'.writer = mem.writer
        /\ \A x \in Keys \ {k} : mem'.ent[x] = mem.ent[x]
    BY <1>4, <1>8, <2>5, <2>6 DEF Mems
  <2>8. \A x \in Keys : mem'.ent[x] = NoEntry <=> mem.ent[x] = NoEntry
    BY <1>14, <2>5, <2>7
  <2>9. Listed(mem')
    <3>1. {x \in Keys : mem'.ent[x] # NoEntry} = {x \in Keys : mem.ent[x] # NoEntry}
      BY <2>8
    <3> QED
      BY <1>8, <2>7, <3>1 DEF Listed
  <2>10. Sound(mem')
    <3>1. HeldKnown(mem')
      BY <1>2, <2>5, <2>7 DEF Sound, HeldKnown, Known, EditingIn
    <3>2. BlankLengths(mem')
      BY <1>2, <1>14, <2>5, <2>7 DEF Sound, BlankLengths
    <3> QED
      BY <2>7, <2>9, <3>1, <3>2 DEF Sound
  <2>11. Resting(mem', k)
    BY <2>5, <2>7 DEF Resting
  <2>12. Gathering(mem', q, CollectKeys(u) \cup {k})
    <3> DEFINE P == CollectKeys(u) \cup {k}  S == ToSet(mem.lru) \ P
    <3>1. SizedBy(mem', P)
      <4>1. S \subseteq ToSet(mem.lru)
        OBVIOUS
      <4>2. \A x \in S : x \in Keys /\ x # k /\ mem.ent[x] # NoEntry
        BY <1>8, <4>1, ListIs
      <4>3. SameTotals(mem, mem', S)
        BY <2>7, <4>2 DEF SameTotals
      <4> HIDE DEF S
      <4>4. Sum(mem', S) = Sum(mem, S)
        BY <1>8, <2>7, <2>9, <4>1, <4>3, SumOfSame
      <4> QED
        BY <1>15, <2>7, <4>4 DEF SizedBy, S
    <3>2. EditingKeys(mem') \subseteq P
      BY <1>15, <2>5, <2>7 DEF EditingKeys, EditingIn
    <3>3. Upward(mem'.lru, P, {})
      BY <1>15, <2>7
    <3>4. Unlinked(q) = {k}
      BY <2>4 DEF Unlinked, At
    <3>5. /\ \A n \in DOMAIN q : \/ n \in 1..Len(p) /\ q[n] = p[n]
                                 \/ n - Len(p) \in DOMAIN u /\ q[n] = u[n - Len(p)] /\ n > Len(p)
          /\ \A n \in DOMAIN u : n + Len(p) \in DOMAIN q /\ q[n + Len(p)] = u[n]
      BY <1>6, <2>2, <2>3, PushedIs DEF Prog
    <3>6. CollectKeys(q) = CollectKeys(u)
      <4>1. \A n \in Gathers(q) : n - Len(p) \in Gathers(u) /\ q[n] = u[n - Len(p)]
        BY <2>2, <3>5 DEF Gathers
      <4>2. \A n \in Gathers(u) : n + Len(p) \in Gathers(q) /\ q[n + Len(p)] = u[n]
        BY <3>5 DEF Gathers
      <4> QED
        BY <4>1, <4>2 DEF CollectKeys
    <3>7. Collecting(mem', q)
      <4>1. \A n \in DOMAIN q : q[n].do = "collect" => mem'.ent[q[n].key] # NoEntry
        <5> SUFFICES ASSUME NEW n \in DOMAIN q, q[n].do = "collect" PROVE mem'.ent[q[n].key] # NoEntry
          OBVIOUS
        <5>1. q[n].key \in CollectKeys(q)
          BY DEF CollectKeys, Gathers
        <5>2. q[n].key \in ToSet(mem'.lru)
          BY <3>1, <3>6, <5>1 DEF SizedBy
        <5> QED
          BY <2>7, <2>9, <5>2, ListIs
      <4>2. ASSUME NEW a \in DOMAIN q, NEW b \in DOMAIN q, a < b, q[a].do \in Drops, q[b].do = "collect"
            PROVE  Before(mem.lru, q[a].key, q[b].key)
        <5>1. b - Len(p) \in DOMAIN u /\ q[b] = u[b - Len(p)]
          BY <2>2, <3>5, <4>2
        <5>2. CASE a \in 1..Len(p) /\ q[a] = p[a]
          BY <1>16, <2>2, <4>2, <5>1, <5>2
        <5>3. CASE a - Len(p) \in DOMAIN u /\ q[a] = u[a - Len(p)] /\ a > Len(p)
          <6>1. a \in Nat /\ b \in Nat /\ Len(p) \in Nat
            BY <2>2, <2>4 DEF Prog
          <6>2. a - Len(p) < b - Len(p)
            BY <4>2, <6>1
          <6> QED
            BY <1>16, <4>2, <5>1, <5>3, <6>2
        <5> QED
          BY <3>5, <5>2, <5>3
      <4>3. ~At(q, Reloads)
        BY <2>4 DEF At, Reloads, Rebuild
      <4> QED
        BY <2>7, <4>1, <4>2, <4>3 DEF Collecting
    <3> QED
      BY <3>1, <3>2, <3>3, <3>4, <3>6, <3>7 DEF Gathering
  <2>13. Core(mem', q, "opening")
    BY <2>4, <2>10, <2>11, <2>12, CoreGathers DEF Drops
  <2>14. Files(disk', mem', q, "opening")
    BY <1>1, <1>2, <2>4, <2>7 DEF Files, At, Writerless, IInv
  <2>15. Lands
    BY <1>1, <1>2, <2>1, <2>13, <2>14 DEF Lands, IInv, TypeInv
  <2> QED
    BY <1>1, <2>15, InsideLands DEF IInv
<1> QED
  BY <1>17, <1>18

\* Process keeps the invariant.
LEMMA ProcessKeeps == ASSUME IInv, Process PROVE IInv'
<1> DEFINE u == Tail(todo)  p == DoKeys("collect", mem.lru)  q == p \o u
<1>1. Step("process") /\ Inside /\ Observe /\ mem' = mem /\ pending' = pending
  BY DEF Process
<1>2. /\ todo # <<>> /\ Head(todo).do = "process" /\ phase = "opening"
      /\ Final(todo) = "opened" /\ todo \in Seq(StepRec)
      /\ Uncounted(mem, todo, Pend(mem, todo)) /\ Sound(mem)
  BY <1>1, GatherStep DEF GatherOps
<1>3. SameLists(mem, mem') /\ WriterStays /\ pending' \in 0..MaxPending
  BY <1>1, SameIs DEF IInv, TypeInv
<1>4. CASE disk' = [disk EXCEPT !.tmp = NoFile] /\ Continue(p) /\ Done
  <2>1. todo' = q /\ phase' = phase /\ leaky' \in BOOLEAN /\ faults' = faults
    BY <1>4 DEF Continue, Done, NoFault, IInv, TypeInv
  <2>2. disk' \in Disks /\ disk'.journal = disk.journal
    BY <1>4 DEF IInv, TypeInv, Disks
  <2>3. Popped(todo, u, phase) /\ u # <<>>
    BY <1>2, NextIs DEF OpenEnds
  <2>4. u \in Seq(StepRec) /\ Control(u, "opening") /\ Final(u) = "opened" /\ Head(u).do = "opened"
    BY <1>2, <2>3 DEF Popped, Follows
  <2>5. DOMAIN u = {1} /\ u[1] = Head(u)
    BY <2>3, <2>4, LastOf DEF Control
  <2>6. mem \in Mems /\ Listed(mem) /\ mem.lru \in Seq(Keys) /\ Distinct(mem.lru)
    BY <1>2 DEF Sound, Listed, Mems
  <2>7. SizedBy(mem, ToSet(mem.lru)) /\ EditingKeys(mem) \subseteq ToSet(mem.lru) /\ Upward(mem.lru, ToSet(mem.lru), {})
    BY <1>2 DEF Uncounted, Pend, At, Reloads, Going
  <2>8. CASE mem.lru = <<>>
    <3>1. p = <<>>
      <4>1. "collect" \in Drops
        BY DEF Drops
      <4> QED
        BY <2>6, <2>8, <4>1, DoKeysIs
    <3>2. q = u
      BY <2>4, <3>1
    <3>3. CollectKeys(u) = {} /\ Unlinked(u) = {}
      BY <2>4, <2>5 DEF CollectKeys, Gathers, Unlinked, At
    <3>4. ToSet(mem.lru) = {}
      BY <2>6, <2>8, NoList
    <3>5. Collecting(mem, u)
      BY <2>4, <2>5 DEF Collecting
    <3>6. Gathering(mem, u, {})
      BY <2>7, <3>3, <3>4, <3>5 DEF Gathering
    <3>7. Core(mem, u, "opening")
      BY <1>2, <2>3, <2>4, <3>6, CoreGathers DEF Drops
    <3>8. Files(disk', mem, u, "opening")
      BY <1>2, <2>2, <2>4 DEF Files, At, Writerless, IInv
    <3>9. Lands
      BY <1>1, <1>2, <1>3, <2>1, <2>2, <3>2, <3>7, <3>8 DEF Lands, IInv, TypeInv
    <3> QED
      BY <1>1, <3>9, InsideLands DEF IInv
  <2>9. CASE mem.lru # <<>>
    <3>1. /\ Prog(p, Drops) /\ Len(p) = Len(mem.lru) /\ DOMAIN p = DOMAIN mem.lru
          /\ \A n \in DOMAIN mem.lru : p[n] = [do |-> "collect", key |-> mem.lru[n]]
      <4>1. "collect" \in Drops
        BY DEF Drops
      <4> QED
        BY <2>6, <2>9, <4>1, DoKeysIs
    <3> HIDE DEF p, u
    <3>2. /\ Len(mem.lru) \in Nat /\ Len(mem.lru) > 0 /\ DOMAIN mem.lru = 1..Len(mem.lru)
          /\ 1 \in DOMAIN mem.lru /\ Len(mem.lru) \in DOMAIN mem.lru
      BY <2>6, <2>9
    <3>c. \A n \in 1..Len(p) : p[n].do = "collect" /\ p[n].key = mem.lru[n]
      <4> SUFFICES ASSUME NEW n \in DOMAIN mem.lru PROVE p[n].do = "collect" /\ p[n].key = mem.lru[n]
        BY <3>1, <3>2
      <4>1. p[n] = [do |-> "collect", key |-> mem.lru[n]]
        BY <3>1
      <4> QED
        BY <4>1
    <3>3. Pushed(p, u, q, "opening")
      <4>1. Prog(p, StepsOf("opened"))
        BY <3>1, Wider DEF StepsOf
      <4>2. Follows(p[Len(p)], Head(u))
        BY <2>4, <3>1, <3>2, <3>c DEF Follows
      <4>3. Running(u, "opening")
        BY <2>3, <2>4 DEF Running
      <4> QED
        BY <2>4, <4>1, <4>2, <4>3, Pushes DEF Joins
    <3> HIDE DEF q
    <3>4. q \in Seq(StepRec) /\ q # <<>> /\ Control(q, "opening") /\ Final(q) = "opened" /\ Head(q).do = "collect"
      BY <2>4, <3>1, <3>2, <3>3, <3>c DEF Pushed
    <3>5. /\ \A n \in DOMAIN q : \/ n \in 1..Len(p) /\ q[n] = p[n]
                                 \/ n - Len(p) \in DOMAIN u /\ q[n] = u[n - Len(p)] /\ n > Len(p)
          /\ \A n \in 1..Len(p) : n \in DOMAIN q /\ q[n] = p[n]
      BY <2>4, <3>1, <3>3, PushedIs DEF Prog
    <3>6. \A n \in DOMAIN q : q[n].do \in Drops => n \in DOMAIN mem.lru /\ q[n] = p[n]
      BY <2>4, <2>5, <3>1, <3>2, <3>5 DEF Drops
    <3>7. CollectKeys(q) = ToSet(mem.lru)
      <4>1. Gathers(q) = DOMAIN mem.lru
        BY <3>1, <3>2, <3>5, <3>6, <3>c DEF Gathers, Drops
      <4>2. \A n \in DOMAIN mem.lru : q[n].key = mem.lru[n]
        BY <3>1, <3>2, <3>5, <3>c
      <4> QED
        BY <4>1, <4>2 DEF CollectKeys, ToSet
    <3>8. Collecting(mem, q)
      <4>1. \A n \in DOMAIN q : q[n].do = "collect" => mem.ent[q[n].key] # NoEntry
        <5> SUFFICES ASSUME NEW n \in DOMAIN q, q[n].do = "collect" PROVE mem.ent[q[n].key] # NoEntry
          OBVIOUS
        <5>1. q[n].key \in ToSet(mem.lru)
          BY <3>7 DEF CollectKeys, Gathers
        <5> QED
          BY <2>6, <5>1, ListIs
      <4>2. ASSUME NEW a \in DOMAIN q, NEW b \in DOMAIN q, a < b, q[a].do \in Drops, q[b].do = "collect"
            PROVE  Before(mem.lru, q[a].key, q[b].key)
        <5>1. a \in DOMAIN mem.lru /\ b \in DOMAIN mem.lru /\ q[a].key = mem.lru[a] /\ q[b].key = mem.lru[b]
          BY <3>1, <3>2, <3>6, <3>c, <4>2 DEF Drops
        <5> QED
          BY <4>2, <5>1 DEF Before
      <4>3. ~At(q, Reloads)
        BY <3>4 DEF At, Reloads, Rebuild
      <4> QED
        BY <4>1, <4>2, <4>3 DEF Collecting
    <3>9. Gathering(mem, q, ToSet(mem.lru))
      BY <2>7, <3>4, <3>7, <3>8 DEF Gathering, Unlinked, At
    <3>10. Core(mem, q, "opening")
      BY <1>2, <3>4, <3>9, CoreGathers DEF Drops
    <3>11. Files(disk', mem, q, "opening")
      BY <1>2, <2>2, <3>4 DEF Files, At, Writerless, IInv
    <3>12. Lands
      BY <1>1, <1>2, <1>3, <2>1, <2>2, <3>10, <3>11 DEF Lands, IInv, TypeInv, q
    <3> QED
      BY <1>1, <3>12, InsideLands DEF IInv
  <2> QED
    BY <2>8, <2>9
<1>5. CASE Fault("delete") /\ Throw /\ UNCHANGED disk
  <2>1. Thrown
    BY <1>2, <1>3, <1>5, Throws
  <2>2. Lands
    BY <1>3, <1>5, <2>1, FaultType, ThrowLands
  <2> QED
    BY <1>1, <2>2, InsideLands DEF IInv
<1> QED
  BY <1>4, <1>5 DEF Process

-----------------------------------------------------------------------------
(***************************************************************************)
(* Looking an entry up, and removing it.                                   *)
(***************************************************************************)
Touched(m, k) == [m EXCEPT !.lru = Touch(@, k)]

\* What a lookup changes.
LEMMA TouchedIs ==
  ASSUME NEW m, Sound(m), NEW k
  PROVE  LET n == Touched(m, k)
         IN  /\ Sound(n) /\ n.ent = m.ent /\ n.size = m.size /\ n.writer = m.writer /\ n.maxSize = m.maxSize
             /\ ToSet(n.lru) = ToSet(m.lru) /\ Len(n.lru) = Len(m.lru)
             /\ n.redundant = m.redundant /\ n.out = m.out /\ n.nextSeq = m.nextSeq
             /\ \A x, y : Before(n.lru, x, y) => y = k \/ Before(m.lru, x, y)
             /\ \A U : SizedBy(m, U) => SizedBy(n, U)
<1> DEFINE n == Touched(m, k)
<1>1. m \in Mems /\ Listed(m) /\ m.lru \in Seq(Keys) /\ Distinct(m.lru)
  BY DEF Sound, Listed, Mems
<1>2. /\ Touch(m.lru, k) \in Seq(Keys) /\ Distinct(Touch(m.lru, k))
      /\ ToSet(Touch(m.lru, k)) = ToSet(m.lru) /\ Len(Touch(m.lru, k)) = Len(m.lru)
      /\ \A x, y : Before(Touch(m.lru, k), x, y) => y = k \/ Before(m.lru, x, y)
  BY <1>1, TouchIs
<1>3. n = [m EXCEPT !.lru = Touch(m.lru, k)]
  BY DEF Touched
<1> HIDE DEF n
<1>4. /\ n \in Mems /\ n.lru = Touch(m.lru, k) /\ n.ent = m.ent /\ n.size = m.size /\ n.writer = m.writer
      /\ n.maxSize = m.maxSize /\ n.redundant = m.redundant /\ n.out = m.out /\ n.nextSeq = m.nextSeq
  BY <1>1, <1>2, <1>3 DEF Mems
<1>5. Sound(n)
  BY <1>1, <1>2, <1>4 DEF Sound, Listed, HeldKnown, Known, EditingIn, BlankLengths
<1>6. \A U : SizedBy(m, U) => SizedBy(n, U)
  BY <1>2, <1>4 DEF SizedBy, Sum, TotalOf
<1> QED
  BY <1>2, <1>4, <1>5, <1>6 DEF n

\* The steps that remove an entry come before those of an eviction.
Trims(m, t, q, ph, k) ==
    /\ t # <<>> /\ Head(t).do = "trim" /\ m.lru # <<>> /\ k = Head(m.lru) /\ m.size > 0
    /\ q \in Seq(StepRec) /\ q # <<>> /\ Control(q, ph) /\ Final(q) = Final(t)
    /\ Going(q) = IF EditingIn(m, k) THEN {} ELSE {k}
    /\ Head(q).do \in {"trim", "deleteClean"} /\ Ready(m, q)

\* The core of the invariant after a lookup.
LEMMA CoreTrims ==
  ASSUME NEW m, NEW t, NEW q, NEW ph, NEW k, Core(m, t, ph), Trims(m, t, q, ph, k)
  PROVE  Core(Touched(m, k), q, ph)
<1> DEFINE n == Touched(m, k)
<1>1. Sound(m) /\ m.size \in Nat /\ (ph = "up" => SizedBy(m, {}))
  BY CoreSound DEF Trims, At
<1>2. /\ Sound(n) /\ n.ent = m.ent /\ n.size = m.size /\ ToSet(n.lru) = ToSet(m.lru)
      /\ \A x, y : Before(n.lru, x, y) => y = k \/ Before(m.lru, x, y)
      /\ \A U : SizedBy(m, U) => SizedBy(n, U)
  BY <1>1, TouchedIs
<1> HIDE DEF n
<1>3. Ready(n, q) /\ BlankKnown(n, q)
  BY <1>2 DEF Trims, Ready, EditingIn, Resting, BlankKnown, Sound, BlankLengths
<1>4. Running(t, ph) /\ HeadFacts(t)
  BY HeadIs DEF Core, Running, Trims
<1>5. Final(t) \in OpenEnds \cup UpEnds /\ "trim" \in StepsOf(Final(t))
  BY <1>4 DEF HeadFacts, Running, Control, Trims
<1>6. Final(t) \in {"fresh", "flush", "rebuildIf", "down"}
  BY <1>5 DEF StepsOf, OpenEnds, UpEnds, Rebuild, Drops, Aborts
<1>7. Given(n, q)
  BY <1>6 DEF Given, Trims
<1>8. ASSUME NEW U, Uncounted(m, t, U)
      PROVE  Uncounted(n, q, U)
  <2>1. SizedBy(m, U) /\ EditingKeys(m) \subseteq U /\ Upward(m.lru, U, {})
    BY <1>8 DEF Uncounted, Going, At, Trims
  <2>2. k \in ToSet(m.lru) /\ \A y \in ToSet(m.lru) : y # k => Before(m.lru, k, y)
    BY <1>1, FirstBefore DEF Trims, Sound, Mems
  <2>3. k \notin U
    <3> SUFFICES ASSUME k \in U PROVE FALSE
      OBVIOUS
    <3>1. ToSet(m.lru) \ U = {}
      BY <2>1, <2>2 DEF Upward
    <3>2. m.size = 0
      BY <2>1, <3>1, SumEmpty DEF SizedBy, Sum
    <3> QED
      BY <3>2 DEF Trims
  <2>4. ~EditingIn(m, k)
    <3>1. k \in Keys
      BY <1>1, <2>2, ListIs DEF Sound
    <3> QED
      BY <2>1, <2>3, <3>1 DEF EditingKeys
  <2>5. Upward(n.lru, U, {k})
    BY <1>2, <2>1 DEF Upward
  <2>6. Going(q) = {k} /\ Going(q) \cap U = {}
    BY <2>3, <2>4 DEF Trims
  <2>7. EditingKeys(n) = EditingKeys(m)
    BY <1>2 DEF EditingKeys, EditingIn
  <2> QED
    BY <1>2, <2>1, <2>5, <2>6, <2>7 DEF Uncounted
<1>9. Sized(n, q, ph)
  <2>1. ph = "up" => SizedBy(n, {})
    BY <1>1, <1>2
  <2>2. ph = "opening" => \E U : Uncounted(n, q, U)
    <3>1. ph = "opening" => Final(t) = "fresh"
      BY <1>4, <1>6 DEF Running, Control, OpenEnds
    <3>2. ph = "opening" => \E U : Uncounted(m, t, U)
      BY <3>1 DEF Core, Sized
    <3> QED
      BY <1>8, <3>2
  <2>3. Final(q) \notin {"load", "created", "opened"}
    BY <1>6 DEF Trims
  <2> QED
    BY <1>1, <1>2, <2>1, <2>2, <2>3 DEF Sized
<1> QED
  BY <1>2, <1>3, <1>7, <1>9 DEF Core, Sound, Trims, n

\* A removal may begin.
LEMMA RemoveReady ==
  ASSUME NEW m, NEW q, NEW k, q # <<>>, Head(q) = [do |-> "deleteClean", key |-> k, idx |-> 0], Resting(m, k)
  PROVE  Ready(m, q) /\ Going(q) = {k}
<1>1. \A j \in Idx : ~(j < 0)
  BY DEF Idx
<1> QED
  BY <1>1 DEF Ready, At, Going

\* Trim keeps the invariant.
LEMMA TrimKeeps == ASSUME IInv, Trim PROVE IInv'
<1> DEFINE k == Head(mem.lru)
<1>1. Step("trim") /\ Inside /\ Observe /\ disk' = disk /\ pending' = pending /\ faults' = faults
  BY DEF Trim, NoFault
<1>2. /\ todo # <<>> /\ Head(todo).do = "trim" /\ phase # "down" /\ Running(todo, phase)
      /\ "trim" \in StepsOf(Final(todo)) /\ Final(todo) \in OpenEnds \cup UpEnds
  BY <1>1, StepIs
<1>3. Core(mem, todo, phase) /\ disk \in Disks /\ pending \in 0..MaxPending
  BY DEF IInv, TypeInv
<1>4. Sound(mem) /\ mem.size \in Nat /\ mem.maxSize \in Nat \ {0}
  <2>1. ~At(todo, {"publish", "complete"})
    BY <1>2 DEF At
  <2> QED
    BY <1>3, <2>1, CoreSound DEF Sound, Mems
<1>5. CASE Continue(<<>>) /\ Done /\ UNCHANGED mem
  <2>1. todo' = Tail(todo) /\ phase' = phase /\ leaky' \in BOOLEAN /\ SameLists(mem, mem') /\ WriterStays
    BY <1>2, <1>5, Continues, SameIs DEF Done, IInv, TypeInv
  <2>2. Tail(todo) # <<>> => Follows(Head(todo), Head(Tail(todo)))
    BY <1>2, NextIs DEF OpenEnds
  <2>3. Files(disk', mem', Tail(todo), phase)
    BY <1>1, <1>2, <1>5, <2>2 DEF Files, At, Writerless, Follows, IInv
  <2>4. Lands
    BY <1>1, <1>2, <1>3, <2>1, <2>3, CalmLands DEF Calm
  <2> QED
    BY <1>1, <2>4, InsideLands DEF IInv
<1>6. CASE mem.size > mem.maxSize /\ mem.lru = <<>> /\ Throw /\ UNCHANGED mem
  <2>1. SameLists(mem, mem') /\ WriterStays
    BY <1>6, SameIs
  <2>2. Thrown
    BY <1>1, <1>2, <1>6, <2>1, Throws
  <2>3. Lands
    BY <1>1, <1>3, <2>2, ThrowLands DEF IInv, TypeInv
  <2> QED
    BY <1>1, <2>3, InsideLands DEF IInv
<1>7. CASE mem.size > mem.maxSize /\ mem.lru # <<>> /\ RemoveBegin(k) /\ Done
  <2>1. mem' = Touched(mem, k) /\ phase' = phase /\ leaky' = leaky
    BY <1>7 DEF RemoveBegin, Touched, Done
  <2>2. mem'.ent = mem.ent /\ mem'.writer = mem.writer
    BY <1>4, <2>1, TouchedIs
  <2>3. k \in Keys /\ mem.ent[k] # NoEntry /\ mem.size > 0
    <3>1. mem.lru \in Seq(Keys) /\ mem.lru # <<>> /\ mem \in Mems /\ Listed(mem)
      BY <1>4, <1>7 DEF Sound, Mems
    <3>2. k \in ToSet(mem.lru)
      BY <3>1, FirstBefore
    <3> QED
      BY <1>4, <1>7, <3>1, <3>2, ListIs
  <2> HIDE DEF k
  <2>4. \E q : todo' = q /\ Trims(mem, todo, q, phase, k)
    <3>1. CASE Editing(k)
      <4>1. todo' = todo /\ EditingIn(mem, k)
        BY <1>2, <1>7, <3>1 DEF RemoveBegin, EditingIn, Editing, Running
      <4>2. Going(todo) = {} /\ Ready(mem, todo)
        BY <1>2 DEF Going, At, Ready
      <4> QED
        BY <1>2, <1>7, <2>3, <4>1, <4>2 DEF Trims, Running, k
    <3>2. CASE ~Editing(k)
      <4> DEFINE p == RemoveProgram(k)  q == p \o todo
      <4>1. todo' = q /\ ~EditingIn(mem, k) /\ Resting(mem, k)
        BY <1>7, <2>3, <3>2 DEF RemoveBegin, EditingIn, Editing, Resting
      <4>2. /\ Prog(p, {"deleteClean", "removed"})
            /\ p[1] = [do |-> "deleteClean", key |-> k, idx |-> 0]
            /\ p[Len(p)] = [do |-> "removed", key |-> k]
        BY <2>3, RemoveProgramIs
      <4> HIDE DEF p
      <4>3. Joins(p, todo, phase)
        <5>1. {"deleteClean", "removed"} \subseteq StepsOf(Final(todo))
          BY <1>2 DEF StepsOf, OpenEnds, UpEnds, Rebuild, Drops, Aborts, Removes, Closes
        <5>2. Prog(p, StepsOf(Final(todo)))
          BY <4>2, <5>1, Wider
        <5>3. Follows(p[Len(p)], Head(todo))
          BY <1>2, <4>2 DEF Follows
        <5> QED
          BY <1>2, <5>2, <5>3 DEF Joins
      <4>4. Pushed(p, todo, q, phase)
        BY <4>3, Pushes
      <4> HIDE DEF q
      <4>5. q \in Seq(StepRec) /\ q # <<>> /\ Control(q, phase) /\ Final(q) = Final(todo)
            /\ Head(q) = [do |-> "deleteClean", key |-> k, idx |-> 0]
        BY <4>2, <4>4 DEF Pushed
      <4>6. Ready(mem, q) /\ Going(q) = {k}
        BY <4>1, <4>5, RemoveReady
      <4>7. Trims(mem, todo, q, phase, k)
        BY <1>2, <1>7, <2>3, <4>1, <4>5, <4>6 DEF Trims, k
      <4> QED
        BY <4>1, <4>7
    <3> QED
      BY <3>1, <3>2
  <2>5. Core(mem', todo', phase')
    BY <1>3, <2>1, <2>4, CoreTrims
  <2>6. todo' # <<>> /\ Head(todo').do \in {"trim", "deleteClean"}
    BY <2>4 DEF Trims
  <2>7. Files(disk', mem', todo', phase')
    BY <1>1, <2>1, <2>2, <2>6 DEF Files, At, Writerless, IInv
  <2>8. Lands
    BY <1>1, <1>3, <2>1, <2>5, <2>7 DEF Lands, IInv, TypeInv
  <2> QED
    BY <1>1, <2>8, InsideLands DEF IInv
<1>8. mem.size <= mem.maxSize \/ mem.size > mem.maxSize
  BY <1>4
<1> QED
  BY <1>4, <1>5, <1>6, <1>7, <1>8 DEF Trim

-----------------------------------------------------------------------------
(***************************************************************************)
(* An entry changes, or goes.                                              *)
(***************************************************************************)
Replaced(m, n, k, f) ==
    /\ k \in Keys /\ m.ent[k] # NoEntry /\ f \in Entries
    /\ n \in Mems /\ n.lru = m.lru /\ n.ent = [m.ent EXCEPT ![k] = f]

\* An entry is changed.
LEMMA ReplacedIs ==
  ASSUME NEW m \in Mems, Listed(m), NEW n, NEW k, NEW f, Replaced(m, n, k, f)
  PROVE  /\ Listed(n) /\ n.ent[k] = f /\ f # NoEntry /\ k \in ToSet(m.lru)
         /\ \A x \in Keys \ {k} : n.ent[x] = m.ent[x]
         /\ \A x \in Keys : n.ent[x] = NoEntry <=> m.ent[x] = NoEntry
         /\ \A U : /\ SizedBy(m, U) /\ n.size = m.size /\ (k \in U \/ Total(f) = Total(m.ent[k]))
                   => SizedBy(n, U)
         /\ f.editor \in {NoEditor, m.ent[k].editor} =>
              EditingKeys(n) \subseteq EditingKeys(m) /\ (HeldKnown(m) => HeldKnown(n))
<1>1. k \in Keys /\ f \in Entries /\ n \in Mems /\ n.lru = m.lru /\ n.ent = [m.ent EXCEPT ![k] = f]
      /\ m.ent[k] # NoEntry /\ m.ent \in [Keys -> Entries \cup {NoEntry}]
  BY DEF Replaced, Mems
<1>2. n.ent[k] = f /\ f # NoEntry /\ \A x \in Keys \ {k} : n.ent[x] = m.ent[x]
  BY <1>1, NullAssumption
<1>3. \A x \in Keys : n.ent[x] = NoEntry <=> m.ent[x] = NoEntry
  BY <1>1, <1>2
<1>4. Listed(n)
  <2>1. {x \in Keys : n.ent[x] # NoEntry} = {x \in Keys : m.ent[x] # NoEntry}
    BY <1>3
  <2> QED
    BY <1>1, <2>1 DEF Listed
<1>5. k \in ToSet(m.lru)
  BY <1>1, ListIs
<1>6. ASSUME NEW U, SizedBy(m, U), n.size = m.size, k \in U \/ Total(f) = Total(m.ent[k])
      PROVE  SizedBy(n, U)
  <2> DEFINE S == ToSet(m.lru) \ U
  <2>1. S \subseteq ToSet(m.lru)
    OBVIOUS
  <2>2. SameTotals(m, n, S)
    <3> SUFFICES ASSUME NEW x \in S PROVE n.ent[x] # NoEntry /\ Total(n.ent[x]) = Total(m.ent[x])
      BY DEF SameTotals
    <3>1. x \in Keys /\ m.ent[x] # NoEntry
      BY ListIs
    <3>2. CASE x = k
      BY <1>2, <1>6, <3>2
    <3>3. CASE x # k
      BY <1>2, <3>1, <3>3
    <3> QED
      BY <3>2, <3>3
  <2> HIDE DEF S
  <2>3. Sum(n, S) = Sum(m, S)
    BY <1>1, <1>4, <2>1, <2>2, SumOfSame
  <2> QED
    BY <1>1, <1>6, <2>3 DEF SizedBy, S
<1>7. ASSUME f.editor \in {NoEditor, m.ent[k].editor}
      PROVE  EditingKeys(n) \subseteq EditingKeys(m) /\ (HeldKnown(m) => HeldKnown(n))
  <2>1. \A x \in Keys : EditingIn(n, x) => EditingIn(m, x) /\ n.ent[x].editor = m.ent[x].editor
    BY <1>1, <1>2, <1>7 DEF EditingIn
  <2> QED
    BY <2>1 DEF EditingKeys, HeldKnown, Known
<1> QED
  BY <1>2, <1>3, <1>4, <1>5, <1>6, <1>7

Dropped(m, n, k) ==
    /\ k \in Keys /\ m.ent[k] # NoEntry /\ Total(m.ent[k]) = 0
    /\ n \in Mems /\ n.lru = Without(m.lru, k) /\ n.ent = [m.ent EXCEPT ![k] = NoEntry] /\ n.size = m.size

\* An entry is removed from the list.
LEMMA DroppedIs ==
  ASSUME NEW m \in Mems, Listed(m), NEW n, NEW k, Dropped(m, n, k)
  PROVE  /\ Listed(n) /\ n.ent[k] = NoEntry
         /\ \A x \in Keys \ {k} : n.ent[x] = m.ent[x]
         /\ \A U : SizedBy(m, U) => SizedBy(n, U \ {k})
         /\ EditingKeys(n) \subseteq EditingKeys(m) \ {k} /\ (HeldKnown(m) => HeldKnown(n))
         /\ \A U, X : Upward(m.lru, U, X) => Upward(n.lru, U \ {k}, X \ {k})
<1>1. /\ k \in Keys /\ n \in Mems /\ n.lru = Without(m.lru, k) /\ n.ent = [m.ent EXCEPT ![k] = NoEntry]
      /\ m.ent[k] # NoEntry /\ m.ent \in [Keys -> Entries \cup {NoEntry}] /\ n.size = m.size
      /\ m.lru \in Seq(Keys) /\ Distinct(m.lru)
  BY DEF Dropped, Mems, Listed
<1>2. n.ent[k] = NoEntry /\ \A x \in Keys \ {k} : n.ent[x] = m.ent[x]
  BY <1>1
<1>3. /\ n.lru \in Seq(Keys) /\ Distinct(n.lru) /\ ToSet(n.lru) = ToSet(m.lru) \ {k}
      /\ \A x, y : Before(n.lru, x, y) => Before(m.lru, x, y)
  BY <1>1, WithoutIs
<1>4. Listed(n)
  BY <1>2, <1>3 DEF Listed
<1>5. ASSUME NEW U, SizedBy(m, U)
      PROVE  SizedBy(n, U \ {k})
  <2> DEFINE S == ToSet(m.lru) \ U
  <2>1. S \subseteq ToSet(m.lru) /\ S \ {k} \subseteq ToSet(m.lru)
    OBVIOUS
  <2>2. SameTotals(m, n, S \ {k})
    <3> SUFFICES ASSUME NEW x \in S \ {k} PROVE n.ent[x] # NoEntry /\ Total(n.ent[x]) = Total(m.ent[x])
      BY DEF SameTotals
    <3>1. x \in Keys /\ m.ent[x] # NoEntry
      BY ListIs
    <3> QED
      BY <1>2, <3>1
  <2>3. ToSet(n.lru) \ (U \ {k}) = S \ {k}
    BY <1>3
  <2> HIDE DEF S
  <2>4. Sum(n, S \ {k}) = Sum(m, S \ {k})
    BY <1>1, <1>4, <2>1, <2>2, SumOfSame
  <2>5. Sum(m, S \ {k}) = Sum(m, S)
    BY <2>1, SumWithout DEF Dropped
  <2>6. m.size = Sum(m, S) /\ U \subseteq ToSet(m.lru)
    BY <1>5 DEF SizedBy, S
  <2> QED
    BY <1>1, <1>3, <2>3, <2>4, <2>5, <2>6 DEF SizedBy
<1>6. \A x \in Keys : EditingIn(n, x) => EditingIn(m, x) /\ n.ent[x] = m.ent[x] /\ x # k
  BY <1>1, <1>2 DEF EditingIn
<1>7. EditingKeys(n) \subseteq EditingKeys(m) \ {k} /\ (HeldKnown(m) => HeldKnown(n))
  BY <1>6 DEF EditingKeys, HeldKnown, Known
<1>8. ASSUME NEW U, NEW X, Upward(m.lru, U, X) PROVE Upward(n.lru, U \ {k}, X \ {k})
  <2> SUFFICES ASSUME NEW x, NEW y, x \in U \ {k}, Before(n.lru, x, y) PROVE y \in (U \ {k}) \cup (X \ {k})
    BY DEF Upward
  <2>1. y \in U \cup X
    BY <1>3, <1>8 DEF Upward
  <2>2. y \in ToSet(n.lru)
    BY <1>3, BeforeIs
  <2> QED
    BY <1>3, <2>1, <2>2
<1> QED
  BY <1>2, <1>4, <1>5, <1>7, <1>8

-----------------------------------------------------------------------------
(***************************************************************************)
(* A step of an edit or of a removal.                                      *)
(***************************************************************************)
WorkOps == {"publish", "discard", "complete", "deleteClean", "removed", "abort"}
Works(m, n, t, q, ph) ==
    /\ ph \in {"up", "opening"} /\ Core(m, t, ph) /\ t # <<>> /\ Head(t).do \in WorkOps
    /\ n \in Mems /\ Listed(n) /\ HeldKnown(n) /\ BlankKnown(n, q) /\ Ready(n, q)
    /\ q \in Seq(StepRec) /\ Control(q, ph) /\ (q # <<>> => Final(q) = Final(t))
    /\ SizedBy(m, {}) /\ ph = "up" => SizedBy(n, {})
    /\ ph = "opening" => \A U : Uncounted(m, t, U) => \E V : Uncounted(n, q, V)

\* The calls that such a step is part of.
LEMMA WorkEnds ==
  ASSUME NEW t, NEW ph, Running(t, ph), Head(t).do \in WorkOps
  PROVE  Final(t) \in {"fresh", "submit", "erase", "removed", "flush", "rebuildIf", "down"}
<1>1. Head(t).do \in StepsOf(Final(t)) /\ Final(t) \in OpenEnds \cup UpEnds
  BY HeadIs DEF HeadFacts, Running, Control
<1> QED
  BY <1>1 DEF WorkOps, StepsOf, OpenEnds, UpEnds, Rebuild, Drops, Aborts, Removes, Closes

\* What the invariant asks of it.
LEMMA CoreWorks ==
  ASSUME NEW m, NEW n, NEW t, NEW q, NEW ph, Works(m, n, t, q, ph)
  PROVE  Core(n, q, ph) /\ n.size \in Nat
<1>1. Running(t, ph)
  BY DEF Works, Core, Running
<1>2. Final(t) \in {"fresh", "submit", "erase", "removed", "flush", "rebuildIf", "down"}
  BY <1>1, WorkEnds DEF Works
<1>3. Given(n, q)
  BY <1>2 DEF Works, Given
<1>4. ph = "opening" => q # <<>> /\ Final(q) = "fresh" /\ Final(t) = "fresh"
  BY <1>1, <1>2 DEF Works, Control, OpenEnds, Running
<1>5. ph = "up" => SizedBy(n, {})
  BY DEF Works, Core, Sized
<1>6. ph = "opening" => \E V : Uncounted(n, q, V)
  BY <1>4 DEF Works, Core, Sized
<1>7. ph \in {"up", "opening"}
  BY DEF Works
<1>8. n.size \in Nat
  BY <1>5, <1>6, <1>7, SizeNat DEF Works, Uncounted
<1>9. Sized(n, q, ph)
  BY <1>4, <1>5, <1>6, <1>8 DEF Sized
<1> QED
  BY <1>3, <1>8, <1>9 DEF Core, Works

-----------------------------------------------------------------------------
\* What is known before it.
LEMMA WorkStep ==
  ASSUME IInv, NEW op \in WorkOps, Step(op)
  PROVE  /\ todo # <<>> /\ Head(todo).do = op /\ Head(todo) \in StepRec /\ todo \in Seq(StepRec)
         /\ phase \in {"up", "opening"} /\ Running(todo, phase) /\ Core(mem, todo, phase)
         /\ mem \in Mems /\ Listed(mem) /\ HeldKnown(mem) /\ disk \in Disks /\ pending \in 0..MaxPending
         /\ Popped(todo, Tail(todo), phase)
         /\ ~(phase = "opening" /\ Final(todo) = "opened")
         /\ (phase = "up" => SizedBy(mem, {})) /\ mem.size \in Nat
         /\ Final(todo) \in {"fresh", "submit", "erase", "removed", "flush", "rebuildIf", "down"}
<1>1. todo # <<>> /\ Head(todo).do = op /\ HeadFacts(todo) /\ phase # "down"
  BY StepIs
<1>2. /\ todo \in Seq(StepRec) /\ Core(mem, todo, phase) /\ mem \in Mems /\ Listed(mem) /\ HeldKnown(mem)
      /\ disk \in Disks /\ pending \in 0..MaxPending /\ phase \in Phases /\ Running(todo, phase)
      /\ (phase = "up" => SizedBy(mem, {})) /\ mem.size \in Nat
  BY <1>1 DEF IInv, TypeInv, Core, Running, Sized
<1>3. Head(todo).do \notin OpenEnds \cup {"down"}
  BY <1>1 DEF WorkOps, OpenEnds
<1>4. Popped(todo, Tail(todo), phase)
  BY <1>1, <1>2, <1>3, Pops
<1>5. Final(todo) \in {"fresh", "submit", "erase", "removed", "flush", "rebuildIf", "down"}
  BY <1>1, <1>2, WorkEnds
<1> QED
  BY <1>1, <1>2, <1>4, <1>5 DEF HeadFacts, Phases

\* It is not the last one, but for a removal.
LEMMA NotLast ==
  ASSUME NEW t, NEW ph, Running(t, ph), Head(t).do \notin OpenEnds \cup UpEnds
  PROVE  Tail(t) # <<>>
<1>1. t \in Seq(StepRec) /\ t # <<>> /\ Final(t) \in OpenEnds \cup UpEnds
  BY DEF Running, Control
<1> SUFFICES ASSUME Tail(t) = <<>> PROVE FALSE
  OBVIOUS
<1>2. Len(t) = 1 /\ Head(t) = t[1]
  <2> DEFINE u == Tail(t)
  <2>1. Len(u) = Len(t) - 1 /\ Len(t) \in Nat /\ Len(t) > 0 /\ Head(t) = t[1]
    BY <1>1
  <2>2. u = <<>>
    OBVIOUS
  <2> HIDE DEF u
  <2> QED
    BY <2>1, <2>2
<1> QED
  BY <1>1, <1>2 DEF Final

\* AbortEdit keeps the invariant.
LEMMA AbortKeeps == ASSUME IInv, AbortEdit PROVE IInv'
<1> DEFINE k == Head(todo).key  u == Tail(todo)  p == CompleteProgram(k, FALSE)  q == p \o u
<1>1. /\ Step("abort") /\ Inside /\ Observe /\ disk' = disk /\ mem' = mem /\ pending' = pending
      /\ phase' = phase /\ leaky' = leaky /\ faults' = faults
  BY DEF AbortEdit, Quiet, NoFault
<1>2. /\ todo # <<>> /\ Head(todo).do = "abort" /\ Head(todo) \in StepRec /\ phase \in {"up", "opening"}
      /\ Running(todo, phase) /\ Core(mem, todo, phase) /\ mem \in Mems /\ Listed(mem) /\ HeldKnown(mem)
      /\ Popped(todo, u, phase) /\ pending \in 0..MaxPending
  BY <1>1, WorkStep DEF WorkOps
<1>3. SameLists(mem, mem')
  BY <1>1, SameIs
<1>4. CASE ~Editing(k)
  <2>1. Continue(<<>>)
    BY <1>4 DEF AbortEdit
  <2> QED
    BY <1>1, <1>2, <1>3, <2>1, GoesOn DEF Calm
<1>5. CASE Editing(k)
  <2>1. todo' = q
    BY <1>5 DEF AbortEdit, Continue
  <2>2. k \in Keys
    BY <1>2 DEF StepRec, PlainOps, IdxOps
  <2>3. /\ Prog(p, Aborts)
        /\ p[1] = [do |-> "discard", key |-> k, idx |-> 0] /\ p[Len(p)] = [do |-> "submit"]
    BY <2>2, CompleteProgramIs
  <2>4. u # <<>>
    BY <1>2, NotLast DEF OpenEnds, UpEnds
  <2>5. u \in Seq(StepRec) /\ Control(u, phase) /\ Final(u) = Final(todo) /\ Head(u).do \in {"abort", "trim"}
    BY <1>2, <2>4 DEF Popped, Follows
  <2>6. Final(todo) \in {"fresh", "down"}
    <3>1. "abort" \in StepsOf(Final(todo)) /\ Final(todo) \in OpenEnds \cup UpEnds
      BY <1>2, HeadIs DEF HeadFacts, Running, Control
    <3> QED
      BY <3>1 DEF StepsOf, OpenEnds, UpEnds, Rebuild, Drops, Aborts, Removes
  <2> HIDE DEF p, u, k
  <2>7. Pushed(p, u, q, phase)
    <3>1. Aborts \subseteq StepsOf(Final(u))
      BY <2>5, <2>6 DEF StepsOf, Closes
    <3>2. Prog(p, StepsOf(Final(u)))
      BY <2>3, <3>1, Wider
    <3>3. Follows(p[Len(p)], Head(u))
      BY <2>3, <2>5 DEF Follows
    <3>4. Running(u, phase)
      BY <2>4, <2>5 DEF Running
    <3> QED
      BY <3>2, <3>3, <3>4, Pushes DEF Joins
  <2> HIDE DEF q
  <2>8. /\ q \in Seq(StepRec) /\ q # <<>> /\ Control(q, phase) /\ Final(q) = Final(todo)
        /\ Head(q) = [do |-> "discard", key |-> k, idx |-> 0]
    BY <2>3, <2>5, <2>7 DEF Pushed
  <2>9. Going(q) = {} /\ Going(todo) = {} /\ Ready(mem, q)
    BY <1>2, <1>5, <2>8 DEF Going, At, Ready, Editing, EditingIn
  <2>10. BlankKnown(mem, q)
    <3>1. ~At(todo, {"publish", "complete"})
      BY <1>2 DEF At
    <3>2. Sound(mem)
      BY <1>2, <3>1, CoreSound
    <3> QED
      BY <3>2 DEF Sound, BlankLengths, BlankKnown
  <2>11. \A U : Uncounted(mem, todo, U) => Uncounted(mem, q, U)
    BY <2>9 DEF Uncounted
  <2>12. Works(mem, mem, todo, q, phase)
    BY <1>2, <2>8, <2>9, <2>10, <2>11 DEF Works, WorkOps
  <2>13. Core(mem', todo', phase')
    BY <1>1, <2>1, <2>12, CoreWorks
  <2>14. Files(disk', mem', todo', phase')
    BY <1>1, <2>1, <2>8 DEF Files, At, Writerless, IInv
  <2>15. Lands
    BY <1>1, <2>13, <2>14 DEF Lands, IInv, TypeInv
  <2> QED
    BY <1>1, <2>15, InsideLands DEF IInv
<1> QED
  BY <1>4, <1>5

\* Discard keeps the invariant.
LEMMA DiscardKeeps == ASSUME IInv, Discard PROVE IInv'
<1> DEFINE k == Head(todo).key  i == Head(todo).idx  u == Tail(todo)
<1>1. Step("discard") /\ Inside /\ Observe /\ mem' = mem /\ pending' = pending
  BY DEF Discard
<1>2. /\ todo # <<>> /\ Head(todo).do = "discard" /\ Head(todo) \in StepRec /\ phase \in {"up", "opening"}
      /\ Running(todo, phase) /\ Core(mem, todo, phase) /\ mem \in Mems /\ Listed(mem) /\ HeldKnown(mem)
      /\ Popped(todo, u, phase) /\ pending \in 0..MaxPending /\ disk \in Disks
  BY <1>1, WorkStep DEF WorkOps
<1>3. SameLists(mem, mem') /\ WriterStays
  BY <1>1, SameIs
<1>4. CASE disk' = [disk EXCEPT !.dirty[k][i] = NoFile] /\ Continue(<<>>) /\ Done
  <2>1. todo' = u /\ phase' = phase /\ leaky' = leaky /\ faults' = faults
    BY <1>2, <1>4, Continues DEF Done, NoFault
  <2>2. k \in Keys /\ i \in Idx
    BY <1>2 DEF StepRec, PlainOps, KeyOps
  <2>3. disk' \in Disks /\ disk'.journal = disk.journal /\ disk'.tmp = disk.tmp
    <3> DEFINE d == [disk.dirty EXCEPT ![k] = [disk.dirty[k] EXCEPT ![i] = NoFile]]
    <3>1. d \in [Keys -> Values]
      BY <1>2, <2>2 DEF Values, Disks
    <3>2. disk' = [disk EXCEPT !.dirty = d]
      BY <1>2, <1>4, <2>2 DEF Disks
    <3> HIDE DEF d
    <3> QED
      BY <1>2, <3>1, <3>2 DEF Disks
  <2>4. u # <<>>
    BY <1>2, NotLast DEF OpenEnds, UpEnds
  <2>5. /\ u \in Seq(StepRec) /\ Control(u, phase) /\ Final(u) = Final(todo) /\ Head(u).key = k
        /\ Head(u).do \in {"discard", "complete"} /\ (Head(u).do = "complete" => ~Head(u).ok)
    BY <1>2, <2>4 DEF Popped, Follows, NextIndex
  <2>6. EditingIn(mem, k)
    BY <1>2 DEF Core, Ready, At
  <2>7. Ready(mem, u) /\ Going(u) = {} /\ Going(todo) = {}
    BY <1>2, <2>5, <2>6 DEF Ready, At, Going
  <2>8. BlankKnown(mem, u)
    BY <1>2 DEF Core, BlankKnown, Publishes, At
  <2>9. \A U : Uncounted(mem, todo, U) => Uncounted(mem, u, U)
    BY <2>7 DEF Uncounted
  <2>10. Works(mem, mem, todo, u, phase)
    BY <1>2, <2>5, <2>7, <2>8, <2>9 DEF Works, WorkOps
  <2>11. Core(mem', todo', phase')
    BY <1>1, <2>1, <2>10, CoreWorks
  <2>12. Files(disk', mem', todo', phase')
    BY <1>1, <2>1, <2>3, <2>5 DEF Files, At, Writerless, IInv
  <2>13. Lands
    BY <1>1, <1>2, <2>1, <2>3, <2>11, <2>12 DEF Lands, IInv, TypeInv
  <2> QED
    BY <1>1, <2>13, InsideLands DEF IInv
<1>5. CASE Fault("discard") /\ Throw /\ UNCHANGED disk
  <2>1. Thrown
    BY <1>2, <1>3, <1>5, Throws
  <2>2. Lands
    BY <1>1, <1>2, <1>5, <2>1, FaultType, ThrowLands
  <2> QED
    BY <1>1, <2>2, InsideLands DEF IInv
<1> QED
  BY <1>4, <1>5 DEF Discard

-----------------------------------------------------------------------------
\* The steps of a cleanup that rebuilds the journal.
LEMMA ZeroProgramIs ==
  LET p == RebuildProgram \o Do("zero")
  IN  Whole(p, "up") /\ p[1] = [do |-> "closeWriter"] /\ Final(p) = "zero"
<1> DEFINE a == RebuildProgram  b == Do("zero")  S == StepsOf("zero")
<1>1. Prog(a, S) /\ a[1] = [do |-> "closeWriter"] /\ a[Len(a)] = [do |-> "reopen"]
  <2>1. Prog(a, Rebuild) /\ a[1] = [do |-> "closeWriter"] /\ a[Len(a)] = [do |-> "reopen"]
    BY RebuildProgramIs
  <2>2. Rebuild \subseteq S
    BY DEF StepsOf
  <2> HIDE DEF a, S
  <2> QED
    BY <2>1, <2>2, Wider
<1>2. Prog(b, S) /\ b[1] = [do |-> "zero"] /\ Final(b) = "zero"
  <2>1. "zero" \in S
    BY DEF StepsOf
  <2> HIDE DEF S
  <2> QED
    BY <2>1, DoIs DEF PlainOps
<1> HIDE DEF a, b
<1>3. IsGlued(a \o b, a, b, S)
  <2> HIDE DEF S
  <2>1. Fits(a, b, S)
    BY <1>1, <1>2 DEF Fits, Follows
  <2> QED
    BY <2>1, Glue
<1> DEFINE p == a \o b
<1>4. Prog(p, S) /\ p[1] = [do |-> "closeWriter"] /\ Final(p) = "zero"
  BY <1>1, <1>2, <1>3 DEF IsGlued
<1> HIDE DEF p
<1>5. Whole(p, "up")
  BY <1>4 DEF Whole, UpEnds, OpenEnds
<1> QED
  BY <1>4, <1>5 DEF p, a, b

\* RebuildIf keeps the invariant.
LEMMA RebuildIfKeeps == ASSUME IInv, RebuildIf PROVE IInv'
<1> DEFINE p == RebuildProgram \o Do("zero")
<1>1. /\ Step("rebuildIf") /\ Inside /\ Observe /\ disk' = disk /\ mem' = mem /\ pending' = pending
      /\ phase' = phase /\ leaky' = leaky /\ faults' = faults
  BY DEF RebuildIf, Quiet, NoFault
<1>2. todo # <<>> /\ Head(todo).do = "rebuildIf" /\ phase # "down"
      /\ phase = (IF Final(todo) \in OpenEnds THEN "opening" ELSE "up")
  BY <1>1, StepIs
<1>3. Tail(todo) = <<>> /\ Final(todo) = "rebuildIf" /\ phase = "up"
  BY <1>2, LastStep DEF OpenEnds
<1>4. SameLists(mem, mem')
  BY <1>1, SameIs
<1>5. CASE ~journalRebuildRequired(mem)
  <2>1. Continue(<<>>)
    BY <1>5 DEF RebuildIf
  <2>2. pending' \in 0..MaxPending
    BY <1>1 DEF IInv, TypeInv
  <2> QED
    BY <1>1, <1>2, <1>4, <2>1, <2>2, GoesOn DEF Calm
<1>6. CASE journalRebuildRequired(mem)
  <2>1. Continue(p)
    BY <1>6 DEF RebuildIf
  <2>2. Whole(p, "up") /\ p[1] = [do |-> "closeWriter"] /\ Final(p) = "zero"
    BY ZeroProgramIs
  <2> HIDE DEF p
  <2>3. todo' = p
    BY <1>3, <2>1, <2>2, AloneIs DEF Continue, Whole
  <2>4. p # <<>> /\ Head(p) = [do |-> "closeWriter"]
    BY <2>2, Begins
  <2>5. ~At(todo, {"publish", "complete"})
    BY <1>2 DEF At
  <2>6. Sound(mem) /\ SizedBy(mem, {})
    BY <1>3, <2>5, CoreSound DEF IInv
  <2>7. Ready(mem, p) /\ Given(mem, p)
    BY <2>2, <2>4 DEF Ready, At, Given
  <2>8. Core(mem', todo', phase')
    BY <1>1, <1>3, <2>2, <2>3, <2>6, <2>7, CoreBegins
  <2>9. Files(disk', mem', todo', phase')
    BY <1>1, <2>3, <2>4 DEF Files, At, Writerless, IInv
  <2>10. Lands
    BY <1>1, <2>8, <2>9 DEF Lands, IInv, TypeInv
  <2> QED
    BY <1>1, <2>10, InsideLands DEF IInv
<1> QED
  BY <1>5, <1>6

\* What the length of an entry changes in a memory.
Resizes(m, n, k, i, v) ==
    /\ k \in Keys /\ m.ent[k] # NoEntry /\ i \in Idx /\ v \in Nat /\ n = Resized(m, k, i, v)

IsResized(m, n, k, i, v) ==
    /\ n \in Mems /\ Listed(n) /\ HeldKnown(n) /\ EditingKeys(n) = EditingKeys(m)
    /\ n.lru = m.lru /\ n.writer = m.writer
    /\ \A x \in Keys \ {k} : n.ent[x] = m.ent[x]
    /\ n.ent[k] # NoEntry /\ n.ent[k].editor = m.ent[k].editor /\ n.ent[k].readable = m.ent[k].readable
    /\ n.ent[k].len = [m.ent[k].len EXCEPT ![i] = v] /\ m.ent[k].len \in [Idx -> Nat]
    /\ \A U : SizedBy(m, U) /\ k \notin U => SizedBy(n, U)

\* A length changes.
LEMMA ResizedIs ==
  ASSUME NEW m \in Mems, Listed(m), HeldKnown(m), NEW n, NEW k, NEW i, NEW v, Resizes(m, n, k, i, v)
  PROVE  IsResized(m, n, k, i, v)
<1> DEFINE e == m.ent[k]  f == [e EXCEPT !.len[i] = v]
<1>1. /\ k \in Keys /\ e # NoEntry /\ i \in Idx /\ v \in Nat /\ n = Resized(m, k, i, v)
      /\ m.ent \in [Keys -> Entries \cup {NoEntry}] /\ e \in Entries /\ k \in ToSet(m.lru)
  BY ListIs DEF Resizes, Mems
<1>2. /\ f \in Entries /\ f.editor = e.editor /\ f.readable = e.readable
      /\ f.len = [e.len EXCEPT ![i] = v] /\ e.len \in [Idx -> Nat]
  <2> HIDE DEF e
  <2>1. e.len \in [Idx -> Nat]
    BY <1>1, TotalIs
  <2>2. /\ f \in Entries /\ f.editor = e.editor /\ f.readable = e.readable
        /\ f.len = [e.len EXCEPT ![i] = v]
    BY <1>1, TotalChange
  <2> QED
    BY <2>1, <2>2
<1>s. ASSUME NEW S, S \subseteq ToSet(m.lru), k \in S
      PROVE  /\ n = [m EXCEPT !.size = m.size - e.len[i] + v, !.ent = n.ent]
             /\ n.ent = [m.ent EXCEPT ![k] = f] /\ n \in Mems /\ Listed(n)
             /\ Sum(n, S) = Sum(m, S) - e.len[i] + v
  <2>1. k \in ToSet(m.lru) /\ i \in Idx /\ v \in Nat /\ n = Resized(m, k, i, v)
    BY <1>1
  <2>2. IsSumResized(m, Resized(m, k, i, v), k, i, v, S)
    BY <1>s, <2>1, SumResized
  <2>3. IsSumResized(m, n, k, i, v, S)
    BY <2>1, <2>2
  <2> QED
    BY <2>3 DEF IsSumResized
<1>3. /\ n = [m EXCEPT !.size = m.size - e.len[i] + v, !.ent = n.ent]
      /\ n.ent = [m.ent EXCEPT ![k] = f] /\ n \in Mems /\ Listed(n)
  BY <1>1, <1>s
<1> HIDE DEF f
<1>4. n.ent[k] = f /\ f # NoEntry /\ \A x \in Keys \ {k} : n.ent[x] = m.ent[x]
  BY <1>1, <1>2, <1>3, NullAssumption
<1>5. n.lru = m.lru /\ n.writer = m.writer /\ n.size = m.size - e.len[i] + v
  BY <1>3 DEF Mems
<1>6. \A x \in Keys : /\ EditingIn(n, x) <=> EditingIn(m, x)
                      /\ n.ent[x].editor = m.ent[x].editor
  BY <1>1, <1>2, <1>4 DEF EditingIn
<1>7. EditingKeys(n) = EditingKeys(m) /\ HeldKnown(n)
  BY <1>6 DEF EditingKeys, HeldKnown, Known
<1>8. ASSUME NEW U, SizedBy(m, U), k \notin U PROVE SizedBy(n, U)
  <2> DEFINE S == ToSet(m.lru) \ U
  <2>1. S \subseteq ToSet(m.lru) /\ k \in S
    BY <1>1, <1>8
  <2> HIDE DEF S
  <2>2. Sum(n, S) = Sum(m, S) - e.len[i] + v
    BY <1>s, <2>1
  <2>3. m.size = Sum(m, S) /\ U \subseteq ToSet(m.lru)
    BY <1>8 DEF SizedBy, S
  <2>4. n.size = Sum(n, S)
    BY <1>5, <2>2, <2>3
  <2> QED
    BY <1>5, <2>3, <2>4 DEF SizedBy, S
<1> QED
  BY <1>2, <1>3, <1>4, <1>5, <1>7, <1>8 DEF IsResized

\* DeleteClean keeps the invariant.
LEMMA DeleteCleanKeeps == ASSUME IInv, DeleteClean PROVE IInv'
<1> DEFINE k == Head(todo).key  i == Head(todo).idx  u == Tail(todo)
<1>1. Step("deleteClean") /\ Inside /\ Observe /\ pending' = pending
  BY DEF DeleteClean
<1>2. /\ todo # <<>> /\ Head(todo).do = "deleteClean" /\ Head(todo) \in StepRec /\ phase \in {"up", "opening"}
      /\ Running(todo, phase) /\ Core(mem, todo, phase) /\ mem \in Mems /\ Listed(mem) /\ HeldKnown(mem)
      /\ Popped(todo, u, phase) /\ pending \in 0..MaxPending /\ disk \in Disks
      /\ (phase = "up" => SizedBy(mem, {}))
  BY <1>1, WorkStep DEF WorkOps
<1>3. k \in Keys /\ i \in Idx
  BY <1>2 DEF StepRec, PlainOps, KeyOps
<1>4. CASE /\ disk' = [disk EXCEPT !.clean[k][i] = NoFile] /\ mem' = Resized(mem, k, i, 0)
           /\ Continue(<<>>) /\ Done
  <2>1. todo' = u /\ phase' = phase /\ leaky' = leaky /\ faults' = faults
    BY <1>2, <1>4, Continues DEF Done, NoFault
  <2>3. disk' \in Disks /\ disk'.journal = disk.journal /\ disk'.tmp = disk.tmp
    <3> DEFINE d == [disk.clean EXCEPT ![k] = [disk.clean[k] EXCEPT ![i] = NoFile]]
    <3>1. d \in [Keys -> Values]
      BY <1>2, <1>3 DEF Values, Disks
    <3>2. disk' = [disk EXCEPT !.clean = d]
      BY <1>2, <1>3, <1>4 DEF Disks
    <3> HIDE DEF d
    <3> QED
      BY <1>2, <3>1, <3>2 DEF Disks
  <2>4. u # <<>> => /\ Head(u).key = k /\ Head(u).do \in {"deleteClean", "removed"}
                    /\ Head(u).do = "deleteClean" => Head(u).idx = i + 1
                    /\ Head(u).do = "removed" => i = valueCount - 1
    BY <1>2 DEF Popped, Follows, NextIndex
  <2>n. u # <<>>
    BY <1>2, NotLast DEF OpenEnds, UpEnds
  <2>5. /\ u \in Seq(StepRec) /\ Control(u, phase) /\ Final(u) = Final(todo)
    BY <1>2, <2>n DEF Popped
  <2>6. Resting(mem, k) /\ \A j \in Idx : j < i => mem.ent[k].len[j] = 0
    BY <1>2 DEF Core, Ready, At
  <2>7. Resizes(mem, mem', k, i, 0)
    BY <1>3, <1>4, <2>6 DEF Resizes, Resting
  <2> HIDE DEF k, i, u
  <2>8. /\ mem' \in Mems /\ Listed(mem') /\ HeldKnown(mem') /\ EditingKeys(mem') = EditingKeys(mem)
        /\ mem'.lru = mem.lru /\ mem'.writer = mem.writer
        /\ \A x \in Keys \ {k} : mem'.ent[x] = mem.ent[x]
        /\ mem'.ent[k] # NoEntry /\ mem'.ent[k].editor = mem.ent[k].editor
        /\ mem'.ent[k].readable = mem.ent[k].readable
        /\ mem'.ent[k].len = [mem.ent[k].len EXCEPT ![i] = 0] /\ mem.ent[k].len \in [Idx -> Nat]
        /\ \A U : SizedBy(mem, U) /\ k \notin U => SizedBy(mem', U)
    <3>1. IsResized(mem, mem', k, i, 0)
      BY <1>2, <2>7, ResizedIs
    <3> QED
      BY <3>1 DEF IsResized
  <2>9. \A j \in Idx : j < i + 1 => mem'.ent[k].len[j] = 0
    <3> SUFFICES ASSUME NEW j \in Idx, j < i + 1 PROVE mem'.ent[k].len[j] = 0
      OBVIOUS
    <3>1. j < i \/ j = i
      BY <1>3, IdxFacts
    <3> QED
      BY <1>3, <2>6, <2>8, <3>1
  <2>10. i = valueCount - 1 => mem'.ent[k].len = NoLength
    <3> SUFFICES ASSUME i = valueCount - 1 PROVE mem'.ent[k].len = NoLength
      OBVIOUS
    <3>1. \A j \in Idx : j < i + 1
      BY LimitAssumption DEF Idx
    <3>2. mem'.ent[k].len = [j \in Idx |-> 0]
      BY <2>8, <2>9, <3>1
    <3> QED
      BY <3>2 DEF NoLength
  <2>11. Ready(mem', u) /\ Going(u) = {k} /\ Going(todo) = {k}
    <3>1. Resting(mem', k)
      BY <2>6, <2>8 DEF Resting
    <3>2. Going(u) = {k} /\ Going(todo) = {k}
      BY <1>2, <2>4, <2>n DEF Going, At, k
    <3> QED
      BY <2>4, <2>9, <2>10, <3>1, <3>2 DEF Ready, At
  <2>12. BlankKnown(mem', u)
    <3>1. \A x \in Keys : mem.ent[x] # NoEntry /\ ~mem.ent[x].readable => mem.ent[x].len = NoLength
      BY <1>2 DEF Core, BlankKnown, Publishes, At
    <3>2. mem.ent[k].len = NoLength => mem'.ent[k].len = NoLength
      BY <1>3, <2>8 DEF NoLength
    <3> QED
      BY <1>3, <2>6, <2>8, <3>1, <3>2 DEF BlankKnown, Resting
  <2>13. \A U : Uncounted(mem, todo, U) => Uncounted(mem', u, U)
    BY <2>8, <2>11 DEF Uncounted
  <2>14. Works(mem, mem', todo, u, phase)
    BY <1>2, <2>5, <2>8, <2>11, <2>12, <2>13 DEF Works, WorkOps
  <2>15. Core(mem', todo', phase')
    BY <2>1, <2>14, CoreWorks
  <2>16. Files(disk', mem', todo', phase')
    BY <1>2, <2>1, <2>3, <2>4, <2>8 DEF Files, At, Writerless, IInv
  <2>17. Lands
    BY <1>1, <1>2, <2>1, <2>3, <2>15, <2>16 DEF Lands, IInv, TypeInv
  <2> QED
    BY <1>1, <2>17, InsideLands DEF IInv
<1>5. CASE Fault("delete") /\ Throw /\ UNCHANGED <<disk, mem>>
  <2>1. SameLists(mem, mem') /\ WriterStays
    BY <1>5, SameIs
  <2>2. Thrown
    BY <1>2, <1>5, <2>1, Throws
  <2>3. Lands
    BY <1>1, <1>2, <1>5, <2>2, FaultType, ThrowLands
  <2> QED
    BY <1>1, <2>3, InsideLands DEF IInv
<1> QED
  BY <1>4, <1>5 DEF DeleteClean

-----------------------------------------------------------------------------
\* PublishStep keeps the invariant.
LEMMA PublishKeeps == ASSUME IInv, PublishStep PROVE IInv'
<1> DEFINE k == Head(todo).key  i == Head(todo).idx  u == Tail(todo)
           length(f) == IF f = NoFile THEN 0 ELSE f.len
<1>1. /\ Step("publish") /\ Inside /\ Observe /\ pending' = pending /\ phase' = phase /\ leaky' = leaky
      /\ Continue(<<>>)
  BY DEF PublishStep
<1>2. /\ todo # <<>> /\ Head(todo).do = "publish" /\ Head(todo) \in StepRec /\ phase \in {"up", "opening"}
      /\ Running(todo, phase) /\ Core(mem, todo, phase) /\ mem \in Mems /\ Listed(mem) /\ HeldKnown(mem)
      /\ Popped(todo, u, phase) /\ pending \in 0..MaxPending /\ disk \in Disks
      /\ (phase = "up" => SizedBy(mem, {}))
  BY <1>1, WorkStep DEF WorkOps
<1>3. k \in Keys /\ i \in Idx
  BY <1>2 DEF StepRec, PlainOps, KeyOps
<1>4. todo' = u
  BY <1>1, <1>2, Continues
<1>5. phase = "up"
  <2>1. "publish" \in StepsOf(Final(todo)) /\ Final(todo) \in OpenEnds \cup UpEnds
    BY <1>2, HeadIs DEF HeadFacts, Running, Control
  <2>2. Final(todo) = "submit"
    BY <2>1 DEF StepsOf, OpenEnds, UpEnds, Rebuild, Drops, Aborts, Removes, Closes
  <2> QED
    BY <1>2, <2>2 DEF Running, Control, OpenEnds
<1>6. EditingIn(mem, k) /\ mem.ent[k] # NoEntry
  BY <1>2 DEF Core, Ready, At, EditingIn
<1>7. \A f \in Contents \cup {NoFile} : length(f) \in Nat
  BY LimitAssumption DEF Contents
<1>8. disk.dirty[k][i] \in Contents \cup {NoFile} /\ disk.clean[k][i] \in Contents \cup {NoFile}
  BY <1>2, <1>3 DEF Disks, Values
<1> HIDE DEF length
<1>9. /\ disk' \in Disks /\ disk'.journal = disk.journal /\ disk'.tmp = disk.tmp /\ faults' \in Nat
      /\ mem' = mem \/ \E v \in Nat : mem' = Resized(mem, k, i, v)
  <2>1. CASE UNCHANGED <<disk, mem>> /\ NoFault
    BY <1>2, <2>1 DEF NoFault, IInv, TypeInv
  <2>2. CASE /\ disk' = [disk EXCEPT !.clean[k][i] = disk.dirty[k][i], !.dirty[k][i] = NoFile]
             /\ mem' = Resized(mem, k, i, length(disk.dirty[k][i])) /\ NoFault
    <3> DEFINE c == [disk.clean EXCEPT ![k] = [disk.clean[k] EXCEPT ![i] = disk.dirty[k][i]]]
               d == [disk.dirty EXCEPT ![k] = [disk.dirty[k] EXCEPT ![i] = NoFile]]
    <3>1. c \in [Keys -> Values] /\ d \in [Keys -> Values]
      BY <1>2, <1>3, <1>8 DEF Values, Disks
    <3>2. disk' = [disk EXCEPT !.clean = c, !.dirty = d]
      BY <1>2, <1>3, <2>2 DEF Disks
    <3> HIDE DEF c, d
    <3>3. disk' \in Disks /\ disk'.journal = disk.journal /\ disk'.tmp = disk.tmp
      BY <1>2, <3>1, <3>2 DEF Disks
    <3> QED
      BY <1>7, <1>8, <2>2, <3>3 DEF NoFault, IInv, TypeInv
  <2>3. CASE mem' = Resized(mem, k, i, length(disk.clean[k][i])) /\ Fault("publish") /\ UNCHANGED disk
    BY <1>2, <1>7, <1>8, <2>3, FaultType
  <2> QED
    BY <2>1, <2>2, <2>3 DEF PublishStep, length
<1>10. /\ mem' \in Mems /\ Listed(mem') /\ HeldKnown(mem') /\ mem'.writer = mem.writer
       /\ \A x \in Keys \ {k} : mem'.ent[x] = mem.ent[x]
       /\ mem'.ent[k] # NoEntry /\ mem'.ent[k].editor = mem.ent[k].editor
       /\ SizedBy(mem', {})
  <2>1. CASE mem' = mem
    BY <1>2, <1>5, <1>6, <2>1
  <2>2. CASE \E v \in Nat : mem' = Resized(mem, k, i, v)
    <3>1. PICK v \in Nat : mem' = Resized(mem, k, i, v)
      BY <2>2
    <3> HIDE DEF k, i
    <3>2. Resizes(mem, mem', k, i, v)
      BY <1>3, <1>6, <3>1 DEF Resizes
    <3>3. IsResized(mem, mem', k, i, v)
      BY <1>2, <3>2, ResizedIs
    <3> QED
      BY <1>2, <1>5, <3>3 DEF IsResized
  <2> QED
    BY <1>9, <2>1, <2>2
<1>11. u # <<>>
  BY <1>2, NotLast DEF OpenEnds, UpEnds
<1>12. /\ u \in Seq(StepRec) /\ Control(u, phase) /\ Final(u) = Final(todo) /\ Head(u).key = k
       /\ Head(u).do \in {"publish", "complete"} /\ (Head(u).do = "complete" => Head(u).ok)
  BY <1>2, <1>11 DEF Popped, Follows, NextIndex
<1>13. EditingIn(mem', k)
  BY <1>6, <1>10 DEF EditingIn
<1>14. Ready(mem', u)
  BY <1>12, <1>13 DEF Ready, At
<1>15. BlankKnown(mem', u)
  <2>1. \A x \in Keys : x # k /\ mem.ent[x] # NoEntry /\ ~mem.ent[x].readable => mem.ent[x].len = NoLength
    BY <1>2 DEF Core, BlankKnown, Publishes
  <2>2. Publishes(u, k)
    BY <1>11, <1>12 DEF Publishes, At
  <2> QED
    BY <1>10, <2>1, <2>2 DEF BlankKnown
<1>16. Works(mem, mem', todo, u, phase)
  BY <1>2, <1>5, <1>10, <1>12, <1>14, <1>15 DEF Works, WorkOps
<1>17. Core(mem', todo', phase')
  BY <1>1, <1>4, <1>16, CoreWorks
<1>18. Files(disk', mem', todo', phase')
  BY <1>1, <1>4, <1>9, <1>10, <1>12 DEF Files, At, Writerless, IInv
<1>19. Lands
  BY <1>1, <1>2, <1>9, <1>17, <1>18 DEF Lands, IInv, TypeInv
<1> QED
  BY <1>1, <1>19, InsideLands DEF IInv

\* Removed keeps the invariant.
LEMMA RemovedKeeps == ASSUME IInv, Removed PROVE IInv'
<1> DEFINE k == Head(todo).key  u == Tail(todo)  m == [mem EXCEPT !.redundant = @ + 1]
           l == Without(mem.lru, k)  w == Line("REMOVE", k)  e == mem.ent[k]
           n == [m EXCEPT !.out = Append(@, Line("REMOVE", k)), !.lru = Without(@, k), !.ent[k] = NoEntry]
<1>1. Step("removed") /\ Inside /\ Observe /\ disk' = disk /\ faults' = faults
  BY DEF Removed, NoFault
<1>2. /\ todo # <<>> /\ Head(todo).do = "removed" /\ Head(todo) \in StepRec /\ phase \in {"up", "opening"}
      /\ Running(todo, phase) /\ Core(mem, todo, phase) /\ mem \in Mems /\ Listed(mem) /\ HeldKnown(mem)
      /\ Popped(todo, u, phase) /\ pending \in 0..MaxPending /\ disk \in Disks
      /\ (phase = "up" => SizedBy(mem, {}))
  BY <1>1, WorkStep DEF WorkOps
<1>3. k \in Keys
  BY <1>2 DEF StepRec, PlainOps, IdxOps
<1>4. Resting(mem, k) /\ e.len = NoLength /\ e \in Entries /\ k \in ToSet(mem.lru)
  <2>1. Resting(mem, k) /\ e.len = NoLength
    BY <1>2 DEF Core, Ready, At
  <2>2. e \in Entries
    BY <1>2, <1>3, <2>1 DEF Mems, Resting
  <2>3. k \in ToSet(mem.lru)
    BY <1>2, <1>3, <2>1, ListIs DEF Resting
  <2> QED
    BY <2>1, <2>2, <2>3
<1>5. Total(e) = 0
  BY <1>4, TotalIs
<1>6. CASE mem' = m /\ Throw /\ UNCHANGED pending
  <2>1. SameLists(mem, mem') /\ WriterStays
    <3> DEFINE x == mem.redundant + 1
    <3>1. x \in Nat /\ m = [mem EXCEPT !.redundant = x]
      BY <1>2 DEF Mems
    <3> HIDE DEF x, m
    <3>2. m \in Mems /\ m.ent = mem.ent /\ m.lru = mem.lru /\ m.size = mem.size /\ m.writer = mem.writer
      BY <1>2, <3>1 DEF Mems
    <3> QED
      BY <1>6, <3>2 DEF SameLists, WriterStays
  <2>2. Thrown
    BY <1>1, <1>2, <1>6, <2>1, Throws
  <2>3. Lands
    BY <1>1, <1>2, <1>6, <2>2, ThrowLands DEF IInv, TypeInv
  <2> QED
    BY <1>1, <2>3, InsideLands DEF IInv
<1>7. CASE mem' = n /\ Submit(journalRebuildRequired(n)) /\ Continue(<<>>) /\ Done
  <2>1. todo' = u /\ phase' = phase /\ leaky' = leaky /\ pending' \in 0..MaxPending
    BY <1>2, <1>7, Continues, SubmitType DEF Done, IInv
  <2>2. /\ mem' \in Mems /\ mem'.lru = l /\ mem'.ent = [mem.ent EXCEPT ![k] = NoEntry] /\ mem'.size = mem.size
        /\ mem'.writer = mem.writer
    <3>1. w \in Lines
      BY <1>3 DEF Line, Lines
    <3>2. mem.lru \in Seq(Keys) /\ Distinct(mem.lru)
      BY <1>2 DEF Mems, Listed
    <3>3. l \in Seq(Keys)
      BY <3>2, WithoutIs
    <3> DEFINE o == Append(mem.out, w)  r == mem.redundant + 1
    <3>4. o \in Seq(Lines) /\ r \in Nat
      BY <1>2, <3>1 DEF Mems
    <3> HIDE DEF l, w, k
    <3>5. mem' = [mem EXCEPT !.redundant = r, !.out = o, !.lru = l, !.ent = [mem.ent EXCEPT ![k] = NoEntry]]
      BY <1>2, <1>3, <1>7 DEF Mems, l, w
    <3> HIDE DEF o, r
    <3> QED
      BY <1>2, <1>3, <3>3, <3>4, <3>5 DEF Mems
  <2>3. Dropped(mem, mem', k)
    BY <1>3, <1>4, <1>5, <2>2 DEF Dropped, Resting
  <2> HIDE DEF k, u, n, m, l
  <2>4. /\ Listed(mem') /\ mem'.ent[k] = NoEntry
        /\ \A x \in Keys \ {k} : mem'.ent[x] = mem.ent[x]
        /\ \A U : SizedBy(mem, U) => SizedBy(mem', U \ {k})
        /\ EditingKeys(mem') \subseteq EditingKeys(mem) \ {k} /\ (HeldKnown(mem) => HeldKnown(mem'))
        /\ \A U, X : Upward(mem.lru, U, X) => Upward(mem'.lru, U \ {k}, X \ {k})
    BY <1>2, <2>3, DroppedIs
  <2>5. u # <<>> => Head(u).do = "trim" /\ Final(u) = Final(todo)
    BY <1>2 DEF Popped, Follows
  <2>6. Going(todo) = {k} /\ Going(u) = {} /\ Ready(mem', u)
    BY <1>2, <2>5 DEF Going, At, Ready, k
  <2>7. BlankKnown(mem', u)
    <3>1. BlankLengths(mem)
      BY <1>2, CoreSound DEF At, Sound
    <3> QED
      BY <2>4, <3>1 DEF BlankKnown, BlankLengths
  <2>8. \A U : Uncounted(mem, todo, U) => Uncounted(mem', u, U \ {k})
    <3> SUFFICES ASSUME NEW U, Uncounted(mem, todo, U) PROVE Uncounted(mem', u, U \ {k})
      OBVIOUS
    <3>1. SizedBy(mem, U) /\ EditingKeys(mem) \subseteq U /\ Upward(mem.lru, U, {k})
      BY <2>6 DEF Uncounted
    <3>2. SizedBy(mem', U \ {k}) /\ Upward(mem'.lru, U \ {k}, {k} \ {k})
      BY <2>4, <3>1
    <3>3. Upward(mem'.lru, U \ {k}, {})
      BY <3>2 DEF Upward
    <3>4. EditingKeys(mem') \subseteq U \ {k}
      BY <2>4, <3>1
    <3> QED
      BY <2>6, <3>2, <3>3, <3>4 DEF Uncounted
  <2>9. phase = "up" => SizedBy(mem', {})
    <3>1. {} \ {k} = {}
      OBVIOUS
    <3> QED
      BY <1>2, <2>4, <3>1
  <2>10. Works(mem, mem', todo, u, phase)
    BY <1>2, <2>2, <2>4, <2>5, <2>6, <2>7, <2>8, <2>9 DEF Works, WorkOps, Popped
  <2>11. Core(mem', todo', phase')
    BY <2>1, <2>10, CoreWorks
  <2>12. Files(disk', mem', todo', phase')
    BY <1>1, <1>2, <2>1, <2>2, <2>5 DEF Files, At, Writerless, IInv
  <2>13. Lands
    BY <1>1, <1>2, <2>1, <2>11, <2>12 DEF Lands, IInv, TypeInv
  <2> QED
    BY <1>1, <2>13, InsideLands DEF IInv
<1> QED
  BY <1>6, <1>7 DEF Removed

-----------------------------------------------------------------------------
\* The entry of an edit that is over: it stays as published, or goes.
Stays(m, n, k) ==
    \E f : /\ Replaced(m, n, k, f) /\ f.editor = NoEditor /\ f.readable /\ f.len = m.ent[k].len
           /\ n.size = m.size
Completes(m, n, k) ==
    /\ Stays(m, n, k) \/ Dropped(m, n, k)
    /\ n.writer = m.writer

CompletesWell(m, n, t, k) ==
    /\ Listed(n) /\ HeldKnown(n) /\ BlankLengths(n) /\ n \in Mems
    /\ SizedBy(m, {}) => SizedBy(n, {})
    /\ n.size = m.size
    /\ \A U : Uncounted(m, t, U) => \E V : \A q : Going(q) = {} => Uncounted(n, q, V)

\* What is left of an edit that is over.
LEMMA CompletesIs ==
  ASSUME NEW m \in Mems, Listed(m), HeldKnown(m), NEW n, NEW t, NEW k, Completes(m, n, k),
         \A x \in Keys : x # k /\ m.ent[x] # NoEntry /\ ~m.ent[x].readable => m.ent[x].len = NoLength,
         Going(t) = {}
  PROVE  CompletesWell(m, n, t, k)
<1>1. CASE Stays(m, n, k)
  <2>1. PICK f : /\ Replaced(m, n, k, f) /\ f.editor = NoEditor /\ f.readable /\ f.len = m.ent[k].len
                 /\ n.size = m.size
    BY <1>1 DEF Stays
  <2>2. Total(f) = Total(m.ent[k])
    BY <2>1 DEF Total
  <2>3. /\ Listed(n) /\ n.ent[k] = f
        /\ \A x \in Keys \ {k} : n.ent[x] = m.ent[x]
        /\ \A U : SizedBy(m, U) => SizedBy(n, U)
        /\ EditingKeys(n) \subseteq EditingKeys(m) /\ HeldKnown(n)
    BY <2>1, <2>2, ReplacedIs
  <2>4. n \in Mems /\ n.lru = m.lru
    BY <2>1 DEF Replaced
  <2>5. BlankLengths(n)
    BY <2>1, <2>3 DEF BlankLengths
  <2>6. ASSUME NEW U, Uncounted(m, t, U), NEW q, Going(q) = {} PROVE Uncounted(n, q, U)
    BY <2>3, <2>4, <2>6 DEF Uncounted
  <2> QED
    BY <2>1, <2>3, <2>4, <2>5, <2>6 DEF CompletesWell
<1>2. CASE Dropped(m, n, k)
  <2>1. /\ Listed(n) /\ n.ent[k] = NoEntry
        /\ \A x \in Keys \ {k} : n.ent[x] = m.ent[x]
        /\ \A U : SizedBy(m, U) => SizedBy(n, U \ {k})
        /\ EditingKeys(n) \subseteq EditingKeys(m) \ {k} /\ HeldKnown(n)
        /\ \A U, X : Upward(m.lru, U, X) => Upward(n.lru, U \ {k}, X \ {k})
    BY <1>2, DroppedIs
  <2>2. n \in Mems /\ n.size = m.size
    BY <1>2 DEF Dropped
  <2>3. BlankLengths(n)
    BY <2>1 DEF BlankLengths
  <2>4. SizedBy(m, {}) => SizedBy(n, {})
    <3>1. {} \ {k} = {}
      OBVIOUS
    <3> QED
      BY <2>1, <3>1
  <2>5. ASSUME NEW U, Uncounted(m, t, U), NEW q, Going(q) = {} PROVE Uncounted(n, q, U \ {k})
    <3>1. SizedBy(m, U) /\ EditingKeys(m) \subseteq U /\ Upward(m.lru, U, {})
      BY <2>5 DEF Uncounted
    <3>2. {} \ {k} = {}
      OBVIOUS
    <3>3. SizedBy(n, U \ {k}) /\ Upward(n.lru, U \ {k}, {}) /\ EditingKeys(n) \subseteq U \ {k}
      BY <2>1, <3>1, <3>2
    <3> QED
      BY <2>5, <3>3 DEF Uncounted
  <2> QED
    BY <2>1, <2>2, <2>3, <2>4, <2>5 DEF CompletesWell
<1> QED
  BY <1>1, <1>2 DEF Completes

\* Complete keeps the invariant.
LEMMA CompleteKeeps == ASSUME IInv, Complete PROVE IInv'
<1> DEFINE k == Head(todo).key  ok == Head(todo).ok  u == Tail(todo)  e == mem.ent[k]
           stays == e.readable \/ ok
           m == [mem EXCEPT !.redundant = @ + 1,
                   !.lru = IF stays THEN @ ELSE Without(@, k),
                   !.ent[k] = IF stays THEN [@ EXCEPT !.editor = NoEditor, !.readable = TRUE]
                                       ELSE NoEntry]
           n == IF ok THEN Numbered(m, k) ELSE m
           l == IF stays THEN CleanLine(k, m.ent[k]) ELSE Line("REMOVE", k)
<1>1. Step("complete") /\ Inside /\ Observe /\ disk' = disk /\ faults' = faults /\ pending' = pending
  BY DEF Complete, NoFault
<1>2. /\ todo # <<>> /\ Head(todo).do = "complete" /\ Head(todo) \in StepRec /\ phase \in {"up", "opening"}
      /\ Running(todo, phase) /\ Core(mem, todo, phase) /\ mem \in Mems /\ Listed(mem) /\ HeldKnown(mem)
      /\ Popped(todo, u, phase) /\ pending \in 0..MaxPending /\ disk \in Disks
      /\ (phase = "up" => SizedBy(mem, {})) /\ mem.size \in Nat
      /\ ~(phase = "opening" /\ Final(todo) = "opened")
  BY <1>1, WorkStep DEF WorkOps
<1>3. k \in Keys /\ ok \in BOOLEAN
  BY <1>2 DEF StepRec, PlainOps, IdxOps, KeyOps
<1>4. EditingIn(mem, k) /\ e \in Entries /\ e # NoEntry
  <2>1. EditingIn(mem, k)
    BY <1>2 DEF Core, Ready, At
  <2> QED
    BY <1>2, <1>3, <2>1 DEF Mems, EditingIn
<1>5. /\ m.writer = mem.writer /\ m.nextSeq = mem.nextSeq /\ m.out = mem.out /\ m.size = mem.size
      /\ m.nextSeq \in Nat /\ m.out \in Seq(Lines)
      /\ m \in Mems /\ (stays => m.lru = mem.lru)
      /\ stays => /\ m.ent = [mem.ent EXCEPT ![k] = m.ent[k]] /\ m.ent[k] \in Entries
                  /\ m.ent[k].editor = NoEditor /\ m.ent[k].readable /\ m.ent[k].len = e.len
      /\ ~stays => Dropped(mem, m, k)
  <2> DEFINE r == mem.redundant + 1
  <2>1. r \in Nat
    BY <1>2 DEF Mems
  <2>2. CASE stays
    <3> DEFINE f == [e EXCEPT !.editor = NoEditor, !.readable = TRUE]
    <3>1. f \in Entries /\ f.editor = NoEditor /\ f.readable /\ f.len = e.len
      BY <1>4 DEF Entries
    <3>2. m = [mem EXCEPT !.redundant = r, !.ent = [mem.ent EXCEPT ![k] = f]]
      <4>1. m = [mem EXCEPT !.redundant = @ + 1, !.lru = @, !.ent[k] = [@ EXCEPT !.editor = NoEditor, !.readable = TRUE]]
        BY <2>2
      <4> HIDE DEF m
      <4> QED
        BY <1>2, <1>3, <1>4, <4>1 DEF Mems, Entries
    <3> HIDE DEF f, r, m, e, k
    <3>3. m \in Mems /\ m.lru = mem.lru /\ m.writer = mem.writer /\ m.nextSeq = mem.nextSeq /\ m.out = mem.out
          /\ m.size = mem.size /\ m.nextSeq \in Nat /\ m.out \in Seq(Lines)
          /\ m.ent = [mem.ent EXCEPT ![k] = f] /\ m.ent[k] = f
      BY <1>2, <1>3, <2>1, <3>1, <3>2 DEF Mems
    <3> QED
      BY <2>2, <3>1, <3>3
  <2>3. CASE ~stays
    <3> DEFINE w == Without(mem.lru, k)
    <3>1. m = [mem EXCEPT !.redundant = r, !.lru = w, !.ent = [mem.ent EXCEPT ![k] = NoEntry]]
      BY <1>2, <1>3, <2>3 DEF Mems
    <3>2. w \in Seq(Keys)
      BY <1>2, WithoutIs DEF Mems, Listed
    <3>3. Total(e) = 0
      <4>1. ~e.readable /\ ~ok
        BY <2>3
      <4>2. e.len = NoLength
        BY <1>2, <1>3, <1>4, <4>1 DEF Core, BlankKnown, Publishes
      <4> QED
        BY <1>4, <4>2, TotalIs
    <3> HIDE DEF w, r, m
    <3>4. m \in Mems /\ m.lru = w /\ m.writer = mem.writer /\ m.nextSeq = mem.nextSeq /\ m.out = mem.out
          /\ m.size = mem.size /\ m.nextSeq \in Nat /\ m.out \in Seq(Lines)
          /\ m.ent = [mem.ent EXCEPT ![k] = NoEntry]
      BY <1>2, <1>3, <2>1, <3>1, <3>2 DEF Mems
    <3>5. Dropped(mem, m, k)
      BY <1>3, <1>4, <3>3, <3>4 DEF Dropped, w
    <3> QED
      BY <2>3, <3>4, <3>5
  <2> QED
    BY <2>2, <2>3
<1>6. stays => Stays(mem, m, k)
  BY <1>3, <1>4, <1>5 DEF Stays, Replaced
<1>7. Completes(mem, m, k)
  BY <1>5, <1>6 DEF Completes
<1>8. l \in Lines
  <2> HIDE DEF m
  <2>1. CASE stays
    <3>1. m.ent[k].len \in [Idx -> Nat]
      BY <1>5, <2>1 DEF Entries
    <3> HIDE DEF e, k
    <3> QED
      BY <1>3, <2>1, <3>1 DEF CleanLine, Lines
  <2>2. CASE ~stays
    <3> HIDE DEF e, k
    <3> QED
      BY <1>3, <2>2 DEF Line, Lines
  <2> QED
    BY <2>1, <2>2
<1> HIDE DEF m, l
<1>9. Going(todo) = {} /\ \A x \in Keys : x # k /\ mem.ent[x] # NoEntry /\ ~mem.ent[x].readable => mem.ent[x].len = NoLength
  BY <1>2 DEF Core, BlankKnown, Publishes, Going, At
<1>10. CASE mem.writer # "open" /\ mem' = m /\ Throw
  <2>1. CompletesWell(mem, mem', todo, k)
    BY <1>2, <1>7, <1>9, <1>10, CompletesIs
  <2>2. Sound(mem') /\ mem'.size \in Nat /\ (phase = "up" => SizedBy(mem', {})) /\ WriterStays
    BY <1>2, <1>5, <1>10, <2>1 DEF CompletesWell, Sound, WriterStays
  <2>3. Thrown
    BY <1>1, <1>2, <1>10, <2>2, ThrowRests
  <2>4. Lands
    BY <1>1, <1>2, <2>3, ThrowLands DEF IInv, TypeInv
  <2> QED
    BY <1>1, <2>4, InsideLands DEF IInv
<1>11. CASE mem.writer = "open" /\ mem' = [n EXCEPT !.out = Append(@, l)] /\ Continue(<<>>) /\ Done
  <2>1. todo' = u /\ phase' = phase /\ leaky' = leaky
    BY <1>2, <1>11, Continues DEF Done
  <2> DEFINE o == Append(m.out, l)
  <2>2. o \in Seq(Lines)
    BY <1>5, <1>8
  <2> HIDE DEF o
  <2>3. Completes(mem, mem', k)
    <3>1. CASE ok
      <4> DEFINE f == [m.ent[k] EXCEPT !.seq = m.nextSeq]
      <4>1. f \in Entries /\ f.editor = NoEditor /\ f.readable /\ f.len = e.len
        BY <1>5, <3>1 DEF Entries
      <4>2. n = [m EXCEPT !.ent[k].seq = m.nextSeq, !.nextSeq = @ + 1]
        BY <3>1 DEF Numbered
      <4> DEFINE x == m.nextSeq + 1
      <4>3. n = [m EXCEPT !.ent = [m.ent EXCEPT ![k] = f], !.nextSeq = x]
        <5> HIDE DEF n
        <5> QED
          BY <1>3, <1>5, <3>1, <4>2 DEF Mems, Entries
      <4>4. x \in Nat
        BY <1>5
      <4> HIDE DEF f, n, x
      <4>5. mem' = [m EXCEPT !.ent = [m.ent EXCEPT ![k] = f], !.nextSeq = x, !.out = o]
        BY <1>5, <1>11, <4>3 DEF Mems, o
      <4> HIDE DEF k, e
      <4>6. mem' \in Mems /\ mem'.ent = [mem.ent EXCEPT ![k] = f] /\ mem'.lru = mem.lru /\ mem'.size = mem.size
            /\ mem'.writer = mem.writer
        <5>1. [m.ent EXCEPT ![k] = f] = [mem.ent EXCEPT ![k] = f]
          BY <1>2, <1>3, <1>5, <3>1 DEF Mems
        <5> QED
          BY <1>2, <1>3, <1>5, <2>2, <3>1, <4>1, <4>4, <4>5, <5>1 DEF Mems
      <4>7. Stays(mem, mem', k)
        BY <1>3, <1>4, <4>1, <4>6 DEF Stays, Replaced, e
      <4> QED
        BY <4>6, <4>7 DEF Completes
    <3>2. CASE ~ok
      <4>1. mem' = [m EXCEPT !.out = o]
        BY <1>11, <3>2 DEF o
      <4>2. mem' \in Mems /\ mem'.ent = m.ent /\ mem'.lru = m.lru /\ mem'.size = m.size /\ mem'.writer = m.writer
        BY <1>5, <2>2, <4>1 DEF Mems
      <4> QED
        BY <1>7, <4>2 DEF Completes, Stays, Replaced, Dropped
    <3> QED
      BY <1>3, <3>1, <3>2
  <2>4. CompletesWell(mem, mem', todo, k)
    BY <1>2, <1>9, <2>3, CompletesIs
  <2>5. u # <<>> /\ Head(u).do = "flush" /\ Final(u) = Final(todo)
    <3>1. u # <<>>
      BY <1>2, NotLast DEF OpenEnds, UpEnds
    <3> QED
      BY <1>2, <3>1 DEF Popped, Follows
  <2>6. Going(u) = {} /\ Ready(mem', u) /\ BlankKnown(mem', u)
    BY <2>4, <2>5 DEF Going, At, Ready, CompletesWell, BlankLengths, BlankKnown
  <2>7. Works(mem, mem', todo, u, phase)
    BY <1>2, <2>4, <2>5, <2>6 DEF Works, WorkOps, Popped, CompletesWell
  <2>8. Core(mem', todo', phase')
    BY <2>1, <2>7, CoreWorks
  <2>9. mem'.writer = mem.writer
    BY <2>3 DEF Completes
  <2>10. Files(disk', mem', todo', phase')
    BY <1>1, <1>2, <2>1, <2>5, <2>9 DEF Files, At, Writerless, IInv
  <2>11. Lands
    BY <1>1, <1>2, <2>1, <2>8, <2>10 DEF Lands, IInv, TypeInv
  <2> QED
    BY <1>1, <2>11, InsideLands DEF IInv
<1> QED
  BY <1>10, <1>11 DEF Complete, m, l

-----------------------------------------------------------------------------
(***************************************************************************)
(* The calls.                                                              *)
(***************************************************************************)
CallLands ==
    /\ disk' \in Disks /\ phase' = "up" /\ pending' \in 0..MaxPending /\ erased' \subseteq Keys
    /\ snap' \in Snapshots \cup {NoSnapshot} /\ leaky' \in BOOLEAN
    /\ edits' \in 0..MaxEdits /\ crashes' \in Nat /\ faults' \in Nat
    /\ Core(mem', todo', "up") /\ Files(disk', mem', todo', "up")

\* A call keeps the invariant when it lands well.
LEMMA CallsLand ==
  ASSUME IInv, Observe, CallLands
  PROVE  IInv'
<1>1. disk' \in Disks /\ mem' \in Mems /\ todo' \in Seq(StepRec) /\ phase' \in Phases
  BY DEF CallLands, Core, Phases
<1>2. seen' \in Views
  BY <1>1, ObserveType DEF IInv
<1> QED
  BY <1>1, <1>2 DEF CallLands, IInv, TypeInv

IdleFacts ==
    /\ Sound(mem) /\ SizedBy(mem, {}) /\ mem.size \in Nat /\ phase = "up" /\ todo = <<>>
    /\ (mem.writer = "open" => disk.journal # NoFile)
    /\ mem \in Mems /\ Listed(mem) /\ mem.out \in Seq(Lines) /\ mem.redundant \in Nat
    /\ disk \in Disks /\ pending \in 0..MaxPending /\ erased \subseteq Keys
    /\ snap \in Snapshots \cup {NoSnapshot} /\ leaky \in BOOLEAN /\ edits \in 0..MaxEdits
    /\ crashes \in Nat /\ faults \in Nat

\* What is known before a call.
LEMMA IdleIs == ASSUME IInv, Idle PROVE IdleFacts
<1>1. Core(mem, <<>>, "up") /\ todo = <<>> /\ phase = "up"
  BY DEF Idle, IInv
<1>2. Sound(mem) /\ SizedBy(mem, {}) /\ mem.size \in Nat
  BY <1>1, CoreIdle
<1> QED
  BY <1>1, <1>2 DEF IdleFacts, IInv, TypeInv, Files, Sound, Mems

\* Where a call leaves the cache: at rest, or at the start of a program.
ProgramStarts == {"trim", "flush", "publish", "discard", "deleteClean", "abort"}

\* A call that is over at once.
LEMMA CallRests ==
  ASSUME IdleFacts, Sound(mem'), SizedBy(mem', {}), mem'.writer = mem.writer, todo' = <<>>,
         disk'.journal = disk.journal
  PROVE  Core(mem', todo', "up") /\ Files(disk', mem', todo', "up")
<1>1. mem'.size \in Nat
  BY SizeNat DEF Sound
<1>2. Core(mem', <<>>, "up")
  BY <1>1, CoreRests
<1> QED
  BY <1>2 DEF Files, At, IdleFacts

\* A call that begins a program.
LEMMA CallBegins ==
  ASSUME IdleFacts, Sound(mem'), SizedBy(mem', {}), mem'.writer = mem.writer, Whole(todo', "up"),
         disk'.journal = disk.journal, Ready(mem', todo'), Given(mem', todo'), Head(todo').do \in ProgramStarts
  PROVE  Core(mem', todo', "up") /\ Files(disk', mem', todo', "up")
<1>1. Core(mem', todo', "up")
  BY CoreBegins
<1> QED
  BY <1>1 DEF Files, At, IdleFacts, ProgramStarts, Writerless

\* A memory with the same entries.
LEMMA SoundSame ==
  ASSUME NEW m, NEW n, Sound(m), SameLists(m, n)
  PROVE  Sound(n) /\ (SizedBy(m, {}) => SizedBy(n, {}))
<1>1. n.ent = m.ent /\ n.lru = m.lru /\ n.size = m.size /\ n \in Mems
  BY DEF SameLists
<1>2. Sound(n)
  BY <1>1 DEF Sound, Listed, HeldKnown, Known, EditingIn, BlankLengths
<1> QED
  BY <1>2, SizedBySame

\* get keeps the invariant.
LEMMA getKeeps == ASSUME IInv, NEW k \in Keys, get(k) PROVE IInv'
<1> DEFINE m == [mem EXCEPT !.lru = Touch(@, k)]
           n == [m EXCEPT !.redundant = @ + 1]
           o == [n EXCEPT !.out = Append(@, Line("READ", k))]
           s == [key |-> k, seq |-> mem.ent[k].seq, value |-> disk.clean[k]]
<1>1. /\ Idle /\ Observe /\ disk' = disk /\ phase' = phase /\ erased' = erased /\ edits' = edits
      /\ leaky' = leaky /\ crashes' = crashes /\ faults' = faults
  BY DEF get, Calling, NoFault
<1>2. IdleFacts
  BY <1>1, IdleIs
<1>3. Sound(mem) /\ SizedBy(mem, {}) /\ mem.redundant \in Nat /\ mem.out \in Seq(Lines)
  BY <1>2 DEF IdleFacts
<1>4. Sound(m) /\ m.writer = mem.writer /\ SizedBy(m, {}) /\ m.redundant = mem.redundant /\ m.out = mem.out
  BY <1>3, TouchedIs DEF Touched
<1> HIDE DEF m
<1>5. n.writer = mem.writer /\ SameLists(m, n) /\ n.out = mem.out
  <2> DEFINE x == m.redundant + 1
  <2>1. m \in Mems /\ x \in Nat
    BY <1>3, <1>4 DEF Sound
  <2>2. n = [m EXCEPT !.redundant = x]
    OBVIOUS
  <2> HIDE DEF x, n
  <2> QED
    BY <1>4, <2>1, <2>2 DEF Mems, SameLists
<1>6. o.writer = mem.writer /\ SameLists(m, o)
  <2>1. Append(n.out, Line("READ", k)) \in Seq(Lines)
    <3>1. Line("READ", k) \in Lines
      BY DEF Line, Lines
    <3> QED
      BY <1>3, <1>5, <3>1
  <2>2. n \in Mems
    BY <1>5 DEF SameLists
  <2> QED
    BY <1>5, <2>1, <2>2 DEF Mems, SameLists
<1>7. Visible(k) => s \in Snapshots
  <2>1. ASSUME Visible(k) PROVE mem.ent[k].seq \in Nat
    BY <1>3, <2>1 DEF Visible, VisibleIn, Sound, Mems, Entries
  <2>2. disk.clean[k] \in Values
    BY <1>2 DEF IdleFacts, Disks
  <2> QED
    BY <2>1, <2>2 DEF Snapshots
<1> HIDE DEF n, o, s
<1>8. /\ mem' \in {m, n, o} /\ todo' = <<>> /\ pending' \in 0..MaxPending
      /\ snap' \in Snapshots \cup {NoSnapshot}
  <2>1. CASE ~Visible(k)
    BY <1>2, <2>1 DEF get, m, n, o, s, IdleFacts
  <2>2. CASE Visible(k) /\ mem.writer # "open"
    BY <1>2, <2>2 DEF get, m, n, o, s, IdleFacts
  <2>3. CASE Visible(k) /\ mem.writer = "open"
    <3>1. mem' = o /\ Submit(journalRebuildRequired(o)) /\ UNCHANGED todo /\ snap' = s
      BY <2>3 DEF get, m, n, o, s
    <3>2. pending' \in 0..MaxPending
      BY <3>1, SubmitType DEF IInv
    <3> QED
      BY <1>2, <1>7, <2>3, <3>1, <3>2 DEF IdleFacts
  <2> QED
    BY <2>1, <2>2, <2>3
<1>9. Sound(mem') /\ SizedBy(mem', {}) /\ mem'.writer = mem.writer
  BY <1>4, <1>5, <1>6, <1>8, SoundSame
<1>10. Core(mem', todo', "up") /\ Files(disk', mem', todo', "up")
  BY <1>1, <1>2, <1>8, <1>9, CallRests
<1>11. CallLands
  BY <1>1, <1>2, <1>8, <1>10 DEF CallLands, IdleFacts
<1> QED
  BY <1>1, <1>11, CallsLand

\* remove, and the second half of a failed commit.
LEMMA RemoveBegins ==
  ASSUME IdleFacts, NEW k \in Keys, RemoveBegin(k), disk' = disk
  PROVE  Core(mem', todo', "up") /\ Files(disk', mem', todo', "up")
<1>1. mem' = Touched(mem, k) /\ Sound(mem) /\ SizedBy(mem, {}) /\ todo = <<>>
  BY DEF RemoveBegin, Touched, IdleFacts
<1>2. Sound(mem') /\ SizedBy(mem', {}) /\ mem'.writer = mem.writer /\ mem'.ent = mem.ent
  BY <1>1, TouchedIs
<1>3. CASE mem.ent[k] = NoEntry \/ Editing(k)
  <2>1. todo' = <<>>
    BY <1>1, <1>3 DEF RemoveBegin
  <2> QED
    BY <1>2, <2>1, CallRests
<1>4. CASE ~(mem.ent[k] = NoEntry \/ Editing(k))
  <2> DEFINE p == RemoveProgram(k)
  <2>1. /\ Prog(p, {"deleteClean", "removed"})
        /\ p[1] = [do |-> "deleteClean", key |-> k, idx |-> 0] /\ Final(p) = "removed"
    BY RemoveProgramIs
  <2>2. todo' = p \o <<>>
    BY <1>1, <1>4 DEF RemoveBegin
  <2> HIDE DEF p
  <2>3. todo' = p
    BY <2>1, <2>2, AloneIs
  <2>4. Whole(p, "up")
    BY <2>1 DEF Whole, OpenEnds, UpEnds, StepsOf
  <2>5. p # <<>> /\ Head(p) = [do |-> "deleteClean", key |-> k, idx |-> 0]
    BY <2>1, <2>4, Begins
  <2>6. Resting(mem', k)
    BY <1>2, <1>4 DEF Resting, Editing
  <2>7. Ready(mem', p) /\ Given(mem', p)
    BY <2>1, <2>5, <2>6, RemoveReady DEF Given
  <2> QED
    BY <1>2, <2>3, <2>4, <2>5, <2>7, CallBegins DEF ProgramStarts
<1> QED
  BY <1>3, <1>4

\* remove keeps the invariant.
LEMMA removeKeeps == ASSUME IInv, NEW k \in Keys, remove(k) PROVE IInv'
<1>1. /\ Idle /\ Observe /\ RemoveBegin(k) /\ disk' = disk /\ phase' = phase /\ pending' = pending
      /\ erased' = erased /\ edits' = edits /\ snap' = snap
      /\ leaky' = leaky /\ crashes' = crashes /\ faults' = faults
  BY DEF remove, Calling, NoFault
<1>2. IdleFacts
  BY <1>1, IdleIs
<1>3. Core(mem', todo', "up") /\ Files(disk', mem', todo', "up")
  BY <1>1, <1>2, RemoveBegins
<1>4. CallLands
  BY <1>1, <1>2, <1>3 DEF CallLands, IdleFacts
<1> QED
  BY <1>1, <1>4, CallsLand

\* RemoveStale keeps the invariant.
LEMMA RemoveStaleKeeps == ASSUME IInv, NEW k \in Keys, RemoveStale(k) PROVE IInv'
<1>1. /\ Idle /\ Observe /\ RemoveBegin(k) /\ disk' = disk /\ phase' = phase /\ pending' = pending
      /\ erased' = erased \ {k} /\ edits' = edits /\ snap' = snap
      /\ leaky' = leaky /\ crashes' = crashes /\ faults' = faults
  BY DEF RemoveStale, Calling, NoFault
<1>2. IdleFacts
  BY <1>1, IdleIs
<1>3. Core(mem', todo', "up") /\ Files(disk', mem', todo', "up")
  BY <1>1, <1>2, RemoveBegins
<1>4. CallLands
  BY <1>1, <1>2, <1>3 DEF CallLands, IdleFacts
<1> QED
  BY <1>1, <1>4, CallsLand

\* setMaxSize keeps the invariant.
LEMMA setMaxSizeKeeps == ASSUME IInv, NEW m \in Limits, setMaxSize(m) PROVE IInv'
<1>1. /\ Idle /\ Observe /\ mem' = [mem EXCEPT !.maxSize = m] /\ Submit(TRUE) /\ disk' = disk
      /\ todo' = todo /\ phase' = phase /\ erased' = erased /\ edits' = edits /\ snap' = snap
      /\ leaky' = leaky /\ crashes' = crashes /\ faults' = faults
  BY DEF setMaxSize, Calling, NoFault
<1>2. IdleFacts
  BY <1>1, IdleIs
<1>3. SameLists(mem, mem') /\ mem'.writer = mem.writer
  BY <1>1, <1>2, LimitAssumption DEF IdleFacts, Mems, SameLists
<1>4. Sound(mem') /\ SizedBy(mem', {})
  BY <1>2, <1>3, SoundSame DEF IdleFacts
<1>5. Core(mem', todo', "up") /\ Files(disk', mem', todo', "up")
  BY <1>1, <1>2, <1>3, <1>4, CallRests DEF IdleFacts
<1>6. pending' \in 0..MaxPending
  BY <1>1, SubmitType DEF IInv
<1>7. CallLands
  BY <1>1, <1>2, <1>5, <1>6 DEF CallLands, IdleFacts
<1> QED
  BY <1>1, <1>7, CallsLand

-----------------------------------------------------------------------------
\* Programs of calls.
LEMMA TwoSteps ==
  ASSUME NEW a \in PlainOps, NEW b \in UpEnds \ {"give", "erase", "removed"}, a \in StepsOf(b),
         Follows([do |-> a], [do |-> b]), b \in StepsOf(b)
  PROVE  LET p == Do(a) \o Do(b)
         IN  Whole(p, "up") /\ p[1] = [do |-> a] /\ Final(p) = b
<1> DEFINE p == Do(a)  q == Do(b)  S == StepsOf(b)
<1>0. a \in S /\ b \in S /\ b \in PlainOps
  BY DEF UpEnds, PlainOps
<1>1. Prog(p, S) /\ p[1] = [do |-> a] /\ p[Len(p)] = [do |-> a]
  <2> HIDE DEF S
  <2> QED
    BY <1>0, DoIs
<1>2. Prog(q, S) /\ q[1] = [do |-> b] /\ Final(q) = b
  <2> HIDE DEF S
  <2> QED
    BY <1>0, DoIs
<1> HIDE DEF p, q
<1>3. IsGlued(p \o q, p, q, S)
  <2> HIDE DEF S
  <2>1. Fits(p, q, S)
    BY <1>1, <1>2 DEF Fits
  <2> QED
    BY <2>1, Glue
<1> DEFINE r == p \o q
<1>4. Prog(r, S) /\ r[1] = [do |-> a] /\ Final(r) = b
  BY <1>1, <1>2, <1>3 DEF IsGlued
<1> HIDE DEF r
<1>5. Whole(r, "up")
  BY <1>4 DEF Whole, UpEnds, OpenEnds
<1> QED
  BY <1>4, <1>5 DEF r, p, q

\* A call that only begins a program.
LEMMA ProgramLands ==
  ASSUME IInv, NEW p, Program(p), Whole(p, "up"), Head(p).do \in {"trim", "abort"}, Final(p) # "give",
         pending' \in 0..MaxPending, erased' \subseteq Keys
  PROVE  IInv'
<1>1. /\ Idle /\ Observe /\ todo' = p /\ mem' = mem /\ disk' = disk /\ phase' = phase
      /\ edits' = edits /\ snap' = snap /\ leaky' = leaky /\ crashes' = crashes /\ faults' = faults
  BY DEF Program, Calling, NoFault
<1>2. IdleFacts
  BY <1>1, IdleIs
<1>3. Ready(mem', p) /\ Given(mem', p)
  BY DEF Ready, At, Given
<1>4. Core(mem', todo', "up") /\ Files(disk', mem', todo', "up")
  BY <1>1, <1>2, <1>3, CallBegins DEF IdleFacts, ProgramStarts
<1>5. CallLands
  BY <1>1, <1>2, <1>4 DEF CallLands, IdleFacts
<1> QED
  BY <1>1, <1>5, CallsLand

\* flush keeps the invariant.
LEMMA flushKeeps == ASSUME IInv, flush PROVE IInv'
<1> DEFINE p == Do("trim") \o Do("flush")
<1>1. Whole(p, "up") /\ p[1] = [do |-> "trim"] /\ Final(p) = "flush"
  BY TwoSteps DEF PlainOps, UpEnds, StepsOf, Follows, Removes
<1>2. Program(p) /\ pending' = pending /\ erased' = erased
  BY DEF flush
<1> HIDE DEF p
<1>3. Head(p).do = "trim"
  BY <1>1, Begins
<1> QED
  BY <1>1, <1>2, <1>3, ProgramLands DEF IInv, TypeInv

\* cleanup keeps the invariant.
LEMMA cleanupKeeps == ASSUME IInv, cleanup PROVE IInv'
<1> DEFINE p == Do("trim") \o Do("rebuildIf")
<1>1. Whole(p, "up") /\ p[1] = [do |-> "trim"] /\ Final(p) = "rebuildIf"
  BY TwoSteps DEF PlainOps, UpEnds, StepsOf, Follows, Removes
<1>2. Program(p) /\ pending > 0 /\ pending' = pending - 1 /\ erased' = erased
  BY DEF cleanup
<1> HIDE DEF p
<1>3. Head(p).do = "trim"
  BY <1>1, Begins
<1>4. pending' \in 0..MaxPending /\ erased' \subseteq Keys
  <2>1. pending \in 0..MaxPending /\ erased \subseteq Keys /\ MaxPending \in Nat
    BY Bounds DEF IInv, TypeInv
  <2> QED
    BY <1>2, <2>1
<1> QED
  BY <1>1, <1>2, <1>3, <1>4, ProgramLands

\* close keeps the invariant.
LEMMA closeKeeps == ASSUME IInv, close PROVE IInv'
<1> DEFINE p == CloseProgram \o Do("down")
<1>1. Prog(p, StepsOf("down")) /\ Final(p) = "down" /\ p[1].do \in {"abort", "trim"}
  <2>1. mem \in Mems
    BY DEF IInv, TypeInv
  <2>2. Closes \cup {"down"} \subseteq StepsOf("down")
    BY DEF StepsOf
  <2> QED
    BY <2>1, <2>2, CloseAndThen
<1>2. Program(p) /\ pending' = pending /\ erased' = erased
  BY DEF close
<1> HIDE DEF p
<1>3. Whole(p, "up")
  BY <1>1 DEF Whole, UpEnds, OpenEnds
<1>4. Head(p).do \in {"abort", "trim"}
  BY <1>1, <1>3, Begins
<1> QED
  BY <1>1, <1>2, <1>3, <1>4, ProgramLands DEF IInv, TypeInv

\* delete keeps the invariant.
LEMMA deleteKeeps == ASSUME IInv, delete PROVE IInv'
<1> DEFINE a == CloseProgram \o Do("wipe")  b == Do("down")  S == StepsOf("down")  p == a \o b
<1>1. Prog(a, S) /\ a[Len(a)] = [do |-> "wipe"] /\ a[1].do \in {"abort", "trim"}
  <2>1. mem \in Mems
    BY DEF IInv, TypeInv
  <2>2. Closes \cup {"wipe"} \subseteq S
    BY DEF StepsOf, Closes
  <2> HIDE DEF S
  <2> QED
    BY <2>1, <2>2, CloseAndThen
<1>2. Prog(b, S) /\ b[1] = [do |-> "down"] /\ Final(b) = "down"
  <2>1. "down" \in S
    BY DEF StepsOf
  <2> HIDE DEF S
  <2> QED
    BY <2>1, DoIs DEF PlainOps
<1>3. Program(p) /\ pending' = pending /\ erased' = erased
  BY DEF delete
<1> HIDE DEF a, b
<1>4. IsGlued(p, a, b, S)
  <2> HIDE DEF S
  <2>1. Fits(a, b, S)
    BY <1>1, <1>2 DEF Fits, Follows
  <2> QED
    BY <2>1, Glue
<1>5. Prog(p, S) /\ Final(p) = "down" /\ p[1].do \in {"abort", "trim"}
  BY <1>1, <1>2, <1>4 DEF IsGlued
<1> HIDE DEF p
<1>6. Whole(p, "up")
  BY <1>5 DEF Whole, UpEnds, OpenEnds
<1>7. Head(p).do \in {"abort", "trim"}
  BY <1>5, <1>6, Begins
<1> QED
  BY <1>3, <1>5, <1>6, <1>7, ProgramLands DEF IInv, TypeInv

-----------------------------------------------------------------------------
(***************************************************************************)
(* The editor of a client.                                                 *)
(***************************************************************************)
\* An entry whose editor has changed, but not the edit it is for.
Edited(m, n, k) ==
    \E f : /\ Replaced(m, n, k, f) /\ n.size = m.size /\ n.writer = m.writer
           /\ f.len = m.ent[k].len /\ f.readable = m.ent[k].readable
           /\ f.editor # NoEditor /\ f.editor.id = m.ent[k].editor.id

\* What such a change keeps.
LEMMA EditedIs ==
  ASSUME NEW m, NEW n, Sound(m), SizedBy(m, {}), NEW k, Edited(m, n, k), Known(m, k)
  PROVE  Sound(n) /\ SizedBy(n, {}) /\ n.writer = m.writer /\ EditingIn(n, k)
<1>1. PICK f : /\ Replaced(m, n, k, f) /\ n.size = m.size /\ n.writer = m.writer
               /\ f.len = m.ent[k].len /\ f.readable = m.ent[k].readable
               /\ f.editor # NoEditor /\ f.editor.id = m.ent[k].editor.id
  BY DEF Edited
<1>2. m \in Mems /\ Listed(m)
  BY DEF Sound
<1>3. Total(f) = Total(m.ent[k])
  BY <1>1 DEF Total
<1>4. /\ Listed(n) /\ n.ent[k] = f /\ f # NoEntry
      /\ \A x \in Keys \ {k} : n.ent[x] = m.ent[x]
      /\ SizedBy(n, {})
  BY <1>1, <1>2, <1>3, ReplacedIs
<1>5. n \in Mems /\ k \in Keys
  BY <1>1 DEF Replaced
<1>6. HeldKnown(n)
  <2> SUFFICES ASSUME NEW x \in Keys, EditingIn(n, x), n.ent[x].editor.held PROVE Known(n, x)
    BY DEF HeldKnown
  <2>1. CASE x = k
    BY <1>1, <1>4, <2>1 DEF Known, EditingIn
  <2>2. CASE x # k
    BY <1>4, <2>2 DEF Known, EditingIn, HeldKnown, Sound
  <2> QED
    BY <2>1, <2>2
<1>7. BlankLengths(n)
  BY <1>1, <1>4 DEF BlankLengths, Sound, Known, EditingIn
<1> QED
  BY <1>1, <1>4, <1>5, <1>6, <1>7 DEF Sound, EditingIn

-----------------------------------------------------------------------------
\* An editor in place of another of the same edit.
LEMMA PutIs ==
  ASSUME NEW m \in Mems, NEW k \in Keys, EditingIn(m, k), NEW e \in Editors, e.id = m.ent[k].editor.id,
         NEW n, n = [m EXCEPT !.ent[k].editor = e]
  PROVE  Edited(m, n, k)
<1> DEFINE f == [m.ent[k] EXCEPT !.editor = e]
<1>1. m.ent[k] \in Entries /\ m.ent[k].editor \in Editors
  BY DEF EditingIn, Mems, Entries
<1>2. /\ f \in Entries /\ f.len = m.ent[k].len /\ f.readable = m.ent[k].readable
      /\ f.editor = e
  BY <1>1 DEF Entries
<1>3. n = [m EXCEPT !.ent = [m.ent EXCEPT ![k] = f]]
  BY <1>1 DEF Mems, Entries
<1> HIDE DEF f
<1>4. n \in Mems /\ n.lru = m.lru /\ n.ent = [m.ent EXCEPT ![k] = f] /\ n.size = m.size /\ n.writer = m.writer
  <2> DEFINE g == [m.ent EXCEPT ![k] = f]
  <2>1. g \in [Keys -> Entries \cup {NoEntry}] /\ n = [m EXCEPT !.ent = g]
    BY <1>2, <1>3 DEF Mems
  <2> HIDE DEF g
  <2>2. n \in Mems /\ n.lru = m.lru /\ n.ent = g /\ n.size = m.size /\ n.writer = m.writer
    BY <2>1 DEF Mems
  <2> QED
    BY <2>2 DEF g
<1>5. e # NoEditor
  BY NullAssumption
<1>6. Replaced(m, n, k, f)
  BY <1>2, <1>4 DEF Replaced, EditingIn
<1> QED
  BY <1>2, <1>4, <1>5, <1>6 DEF Edited

\* The editor that a client holds.
HeldFacts(k) ==
    /\ IdleFacts /\ Known(mem, k) /\ EditingIn(mem, k)
    /\ mem.ent[k] \in Entries /\ mem.ent[k].editor \in Editors

\* What is known before a call of the editor.
LEMMA HeldIs == ASSUME IInv, NEW k \in Keys, Held(k) PROVE HeldFacts(k)
<1>1. Idle /\ EditingIn(mem, k) /\ mem.ent[k].editor.held
  BY DEF Held, Editing, EditingIn
<1>2. IdleFacts
  BY <1>1, IdleIs
<1>3. Known(mem, k)
  BY <1>1, <1>2 DEF IdleFacts, Sound, HeldKnown
<1> QED
  BY <1>1, <1>2, <1>3 DEF HeldFacts, IdleFacts, Mems, EditingIn, Entries

\* A client is done with its editor.
LEMMA LetGoIs == ASSUME NEW k \in Keys, HeldFacts(k), LetGo(k) PROVE Edited(mem, mem', k)
<1> DEFINE e == [mem.ent[k].editor EXCEPT !.held = FALSE]
<1>1. mem \in Mems /\ EditingIn(mem, k) /\ mem.ent[k] \in Entries /\ mem.ent[k].editor \in Editors
  BY DEF HeldFacts, IdleFacts
<1>2. e \in Editors /\ e.id = mem.ent[k].editor.id
  BY <1>1 DEF Editors
<1>3. mem' = [mem EXCEPT !.ent[k].editor = e]
  BY <1>1 DEF LetGo, Mems, Entries, Editors
<1> HIDE DEF e
<1> QED
  BY <1>1, <1>2, <1>3, PutIs

\* What set does: it changes the editor, and maybe the dirty file.
SetDoes(k, i) ==
    /\ HeldFacts(k)
    /\ \E e \in Editors : /\ e.id = mem.ent[k].editor.id /\ e.held = mem.ent[k].editor.held
                          /\ mem' = [mem EXCEPT !.ent[k].editor = e]
    /\ disk' \in Disks /\ disk'.clean = disk.clean
    /\ disk'.journal = disk.journal /\ disk'.backup = disk.backup /\ disk'.tmp = disk.tmp
    /\ \A x \in Keys, j \in Idx : <<x, j>> # <<k, i>> => disk'.dirty[x][j] = disk.dirty[x][j]

\* So it is.
LEMMA SetIs ==
  ASSUME IInv, NEW k \in Keys, NEW i \in Idx, NEW l \in Lengths, set(k, i, l)
  PROVE  SetDoes(k, i) /\ faults' \in Nat
<1> DEFINE ed == mem.ent[k].editor
           c == [by |-> ed.id, len |-> l]
           w == IF mem.ent[k].readable THEN ed ELSE [ed EXCEPT !.written = @ \cup {i}]
           a == [w EXCEPT !.wrote[i] = c]
           b == [w EXCEPT !.wrote[i] = c, !.hasErrors = TRUE]
           d == [disk EXCEPT !.dirty[k][i] = c]
<1>1. /\ Held(k) /\ Observe /\ phase' = phase /\ pending' = pending /\ todo' = todo
      /\ erased' = erased /\ edits' = edits /\ snap' = snap /\ leaky' = leaky /\ crashes' = crashes
  BY DEF set
<1>2. HeldFacts(k)
  BY <1>1, HeldIs
<1>3. ed \in Editors /\ ed.id \in 1..MaxEdits /\ mem \in Mems /\ disk \in Disks /\ EditingIn(mem, k)
  BY <1>2 DEF HeldFacts, Known, IdleFacts
<1>4. c \in Contents
  BY <1>3 DEF Contents
<1>5. w \in Editors /\ w.id = ed.id /\ w.held = ed.held
  BY <1>3 DEF Editors
<1> HIDE DEF c, w
<1>6. a \in Editors /\ b \in Editors /\ a.id = ed.id /\ b.id = ed.id /\ a.held = ed.held /\ b.held = ed.held
  <2>1. [w.wrote EXCEPT ![i] = c] \in Values /\ w \in Editors
    BY <1>4, <1>5 DEF Editors, Values
  <2> DEFINE v == [w.wrote EXCEPT ![i] = c]
  <2>2. a = [w EXCEPT !.wrote = v] /\ b = [w EXCEPT !.wrote = v, !.hasErrors = TRUE]
    BY <1>5 DEF Editors
  <2> HIDE DEF v, a, b
  <2>3. v \in Values
    BY <2>1 DEF v
  <2> QED
    BY <1>5, <2>2, <2>3 DEF Editors
<1>7. /\ d \in Disks /\ d.journal = disk.journal /\ d.backup = disk.backup /\ d.tmp = disk.tmp
      /\ d.clean = disk.clean /\ \A x \in Keys, j \in Idx : <<x, j>> # <<k, i>> => d.dirty[x][j] = disk.dirty[x][j]
  <2> DEFINE y == [disk.dirty EXCEPT ![k] = [disk.dirty[k] EXCEPT ![i] = c]]
  <2>1. disk.dirty \in [Keys -> Values] /\ disk.dirty[k] \in Values
    BY <1>3 DEF Disks
  <2>2. [disk.dirty[k] EXCEPT ![i] = c] \in Values
    BY <1>4, <2>1 DEF Values
  <2>3. y \in [Keys -> Values]
    BY <2>1, <2>2
  <2>4. d = [disk EXCEPT !.dirty = y]
    BY <1>3, <2>1 DEF Disks
  <2>5. \A x \in Keys, j \in Idx : <<x, j>> # <<k, i>> => y[x][j] = disk.dirty[x][j]
    BY <2>1 DEF Values
  <2> HIDE DEF y, d
  <2>6. /\ d \in Disks /\ d.journal = disk.journal /\ d.backup = disk.backup /\ d.tmp = disk.tmp
        /\ d.clean = disk.clean /\ d.dirty = y
    BY <1>3, <2>3, <2>4 DEF Disks
  <2> QED
    BY <2>5, <2>6
<1>8. faults' \in Nat /\ disk' \in {d, disk} /\ \E e \in {a, b, w} : mem' = [mem EXCEPT !.ent[k].editor = e]
  <2>1. \/ mem' = [mem EXCEPT !.ent[k].editor = a] /\ disk' = d /\ NoFault
        \/ mem' = [mem EXCEPT !.ent[k].editor = b] /\ disk' = d /\ Fault("stream")
        \/ mem' = [mem EXCEPT !.ent[k].editor = w] /\ disk' = disk /\ Fault("create")
    BY DEF set, c, w
  <2> HIDE DEF a, b, d, ed
  <2>2. faults' \in Nat
    BY <2>1, <1>2 DEF NoFault, Fault, HeldFacts, IdleFacts
  <2> QED
    BY <2>1, <2>2
<1> HIDE DEF a, b, d
<1>9. \E e \in Editors : e.id = ed.id /\ e.held = ed.held /\ mem' = [mem EXCEPT !.ent[k].editor = e]
  BY <1>5, <1>6, <1>8
<1>10. /\ disk' \in Disks /\ disk'.clean = disk.clean
       /\ disk'.journal = disk.journal /\ disk'.backup = disk.backup /\ disk'.tmp = disk.tmp
       /\ \A x \in Keys, j \in Idx : <<x, j>> # <<k, i>> => disk'.dirty[x][j] = disk.dirty[x][j]
  BY <1>3, <1>7, <1>8
<1> QED
  BY <1>2, <1>8, <1>9, <1>10 DEF SetDoes

\* set keeps the invariant.
LEMMA setKeeps == ASSUME IInv, NEW k \in Keys, NEW i \in Idx, NEW l \in Lengths, set(k, i, l) PROVE IInv'
<1>1. /\ Held(k) /\ Observe /\ phase' = phase /\ pending' = pending /\ todo' = todo
      /\ erased' = erased /\ edits' = edits /\ snap' = snap /\ leaky' = leaky /\ crashes' = crashes
  BY DEF set
<1>2. SetDoes(k, i) /\ faults' \in Nat
  BY SetIs
<1>3. IdleFacts /\ Known(mem, k) /\ EditingIn(mem, k) /\ mem \in Mems /\ disk' \in Disks /\ disk'.journal = disk.journal
  BY <1>2 DEF SetDoes, HeldFacts, IdleFacts
<1>4. PICK e \in Editors : e.id = mem.ent[k].editor.id /\ mem' = [mem EXCEPT !.ent[k].editor = e]
  BY <1>2 DEF SetDoes
<1>5. Edited(mem, mem', k)
  BY <1>3, <1>4, PutIs
<1>6. Sound(mem') /\ SizedBy(mem', {}) /\ mem'.writer = mem.writer /\ todo' = <<>>
  BY <1>1, <1>3, <1>5, EditedIs DEF IdleFacts
<1>7. Core(mem', todo', "up") /\ Files(disk', mem', todo', "up")
  BY <1>3, <1>6, CallRests
<1>8. CallLands
  BY <1>1, <1>2, <1>3, <1>7 DEF CallLands, IdleFacts
<1> QED
  BY <1>1, <1>8, CallsLand

-----------------------------------------------------------------------------
\* completeEdit begins.
LEMMA CompleteBegins ==
  ASSUME NEW k \in Keys, HeldFacts(k), LetGo(k), NEW ok \in BOOLEAN, disk' = disk,
         \/ todo' = CompleteProgram(k, ok)
         \/ todo' = CompleteProgram(k, FALSE) \o DoKey("erase", k)
  PROVE  Core(mem', todo', "up") /\ Files(disk', mem', todo', "up")
<1>1. IdleFacts /\ Edited(mem, mem', k) /\ Known(mem, k)
  BY LetGoIs DEF HeldFacts
<1>2. Sound(mem') /\ SizedBy(mem', {}) /\ mem'.writer = mem.writer /\ EditingIn(mem', k)
  BY <1>1, EditedIs DEF IdleFacts
<1>3. \A o \in BOOLEAN :
         /\ Prog(CompleteProgram(k, o), IF o THEN Aborts \cup {"publish"} ELSE Aborts)
         /\ CompleteProgram(k, o)[1] = [do |-> IF o THEN "publish" ELSE "discard", key |-> k, idx |-> 0]
         /\ CompleteProgram(k, o)[Len(CompleteProgram(k, o))] = [do |-> "submit"]
         /\ Final(CompleteProgram(k, o)) = "submit"
  BY CompleteProgramIs
<1>4. /\ Whole(todo', "up") /\ todo'[1].do \in {"publish", "discard"} /\ todo'[1].key = k
      /\ Final(todo') \in {"submit", "erase"}
  <2>1. CASE todo' = CompleteProgram(k, ok)
    <3> DEFINE p == CompleteProgram(k, ok)
    <3>1. /\ Prog(p, IF ok THEN Aborts \cup {"publish"} ELSE Aborts) /\ Final(p) = "submit"
          /\ p[1] = [do |-> IF ok THEN "publish" ELSE "discard", key |-> k, idx |-> 0]
      BY <1>3
    <3> HIDE DEF p
    <3>2. Prog(p, Aborts \cup {"publish"})
      BY <3>1, Wider
    <3>3. Whole(p, "up")
      BY <3>1, <3>2 DEF Whole, UpEnds, OpenEnds, StepsOf
    <3>4. p[1].do \in {"publish", "discard"} /\ p[1].key = k
      BY <3>1
    <3>5. todo' = p
      BY <2>1 DEF p
    <3> QED
      BY <3>1, <3>3, <3>4, <3>5
  <2>2. CASE todo' = CompleteProgram(k, FALSE) \o DoKey("erase", k)
    <3> DEFINE p == CompleteProgram(k, FALSE)  q == DoKey("erase", k)  r == p \o q  S == Aborts \cup {"erase"}
    <3>1. /\ Prog(p, Aborts) /\ p[Len(p)] = [do |-> "submit"]
          /\ p[1] = [do |-> "discard", key |-> k, idx |-> 0]
      BY <1>3
    <3>2. Prog(q, S) /\ q[1] = [do |-> "erase", key |-> k] /\ Final(q) = "erase"
      BY DoKeyIs DEF KeyOps
    <3> HIDE DEF p, q
    <3>3. IsGlued(r, p, q, S)
      <4>1. Prog(p, S)
        BY <3>1, Wider
      <4> HIDE DEF S
      <4>2. Fits(p, q, S)
        BY <3>1, <3>2, <4>1 DEF Fits, Follows
      <4> QED
        BY <4>2, Glue
    <3>4. Prog(r, S) /\ r[1] = [do |-> "discard", key |-> k, idx |-> 0] /\ Final(r) = "erase"
      BY <3>1, <3>2, <3>3 DEF IsGlued
    <3> HIDE DEF r
    <3>5. Whole(r, "up")
      BY <3>4 DEF Whole, UpEnds, OpenEnds, StepsOf
    <3>6. todo' = r
      BY <2>2 DEF r, p, q
    <3> QED
      BY <3>4, <3>5, <3>6
  <2> QED
    BY <2>1, <2>2
<1>5. todo' # <<>> /\ Head(todo') = todo'[1]
  BY <1>4, Begins
<1>6. Ready(mem', todo') /\ Given(mem', todo') /\ Head(todo').do \in ProgramStarts
  BY <1>2, <1>4, <1>5 DEF Ready, At, Given, ProgramStarts
<1>7. disk'.journal = disk.journal
  OBVIOUS
<1> QED
  BY <1>1, <1>2, <1>4, <1>6, <1>7, CallBegins

\* What a commit and an abort have in common.
EditEnds(k) == Held(k) /\ LetGo(k) /\ Calling /\ UNCHANGED <<disk, phase, pending, erased, snap, edits>> /\ Observe

\* So both keep the invariant.
LEMMA EditEndsLands ==
  ASSUME IInv, NEW k \in Keys, EditEnds(k), NEW ok \in BOOLEAN,
         \/ todo' = CompleteProgram(k, ok)
         \/ todo' = CompleteProgram(k, FALSE) \o DoKey("erase", k)
  PROVE  IInv'
<1>1. /\ Held(k) /\ LetGo(k) /\ Observe /\ disk' = disk /\ phase' = phase /\ pending' = pending
      /\ erased' = erased /\ edits' = edits /\ snap' = snap /\ leaky' = leaky /\ crashes' = crashes
      /\ faults' = faults
  BY DEF EditEnds, Calling, NoFault
<1>2. HeldFacts(k)
  BY <1>1, HeldIs
<1>3. Core(mem', todo', "up") /\ Files(disk', mem', todo', "up")
  BY <1>1, <1>2, CompleteBegins
<1>4. CallLands
  BY <1>1, <1>2, <1>3 DEF CallLands, HeldFacts, IdleFacts
<1> QED
  BY <1>1, <1>4, CallsLand

\* commit keeps the invariant.
LEMMA commitKeeps == ASSUME IInv, NEW k \in Keys, commit(k) PROVE IInv'
<1> DEFINE e == mem.ent[k]
           complete == ~(~e.readable /\ \E i \in Idx : i \notin e.editor.written \/ disk.dirty[k][i] = NoFile)
<1>1. EditEnds(k)
  BY DEF commit, EditEnds
<1>2. complete \in BOOLEAN
  OBVIOUS
<1>3. \/ todo' = CompleteProgram(k, complete)
      \/ todo' = CompleteProgram(k, FALSE) \o DoKey("erase", k)
  BY DEF commit
<1> HIDE DEF complete
<1> QED
  BY <1>1, <1>2, <1>3, EditEndsLands

\* abort keeps the invariant.
LEMMA abortKeeps == ASSUME IInv, NEW k \in Keys, abort(k) PROVE IInv'
<1>1. EditEnds(k) /\ todo' = CompleteProgram(k, FALSE)
  BY DEF abort, EditEnds
<1> QED
  BY <1>1, EditEndsLands

-----------------------------------------------------------------------------
\* An entry that gets an editor; it may be a new one.
EditorNew(m, f, k, id) ==
    /\ f \in Entries /\ f.editor \in Editors /\ f.editor.id = id /\ ~f.editor.held
    /\ m.ent[k] # NoEntry => f.len = m.ent[k].len /\ f.readable = m.ent[k].readable
    /\ m.ent[k] = NoEntry => f.len = NoLength
EditOpened(m, n, k, f) ==
    /\ n \in Mems /\ n.ent = [m.ent EXCEPT ![k] = f] /\ n.size = m.size /\ n.writer = m.writer
    /\ n.lru = IF m.ent[k] = NoEntry THEN Append(m.lru, k) ELSE m.lru

\* The cache with that editor.
LEMMA EditOpens ==
  ASSUME NEW m, NEW n, Sound(m), SizedBy(m, {}), NEW k \in Keys, NEW id \in 1..MaxEdits,
         NEW f, EditorNew(m, f, k, id), EditOpened(m, n, k, f)
  PROVE  Sound(n) /\ SizedBy(n, {}) /\ n.writer = m.writer /\ Known(n, k)
<1>1. m \in Mems /\ Listed(m) /\ n \in Mems /\ m.lru \in Seq(Keys) /\ Distinct(m.lru)
  BY DEF Sound, EditOpened, Mems, Listed
<1>2. f \in Entries /\ f # NoEntry /\ f.editor # NoEditor
  BY NullAssumption DEF EditorNew
<1>3. n.ent[k] = f /\ \A x \in Keys \ {k} : n.ent[x] = m.ent[x]
  BY <1>1 DEF EditOpened, Mems
<1>4. Listed(n) /\ SizedBy(n, {})
  <2>1. CASE m.ent[k] # NoEntry
    <3>1. Replaced(m, n, k, f) /\ Total(f) = Total(m.ent[k])
      BY <1>2, <2>1 DEF Replaced, EditOpened, EditorNew, Total
    <3>2. n.size = m.size
      BY DEF EditOpened
    <3> QED
      BY <1>1, <3>1, <3>2, ReplacedIs
  <2>2. CASE m.ent[k] = NoEntry
    <3>1. n.lru = Append(m.lru, k) /\ k \notin ToSet(m.lru)
      BY <1>1, <2>2 DEF EditOpened, Listed
    <3>2. Distinct(n.lru) /\ ToSet(n.lru) = ToSet(m.lru) \cup {k}
      BY <1>1, <3>1, AppendIs
    <3>3. {x \in Keys : n.ent[x] # NoEntry} = {x \in Keys : m.ent[x] # NoEntry} \cup {k}
      BY <1>2, <1>3
    <3>4. Listed(n)
      BY <1>1, <3>2, <3>3 DEF Listed
    <3>5. Total(n.ent[k]) = 0
      BY <1>2, <1>3, <2>2, TotalIs DEF EditorNew
    <3> DEFINE S == ToSet(m.lru)  R == ToSet(n.lru)
    <3>6. Sum(n, R \ {k}) = Sum(n, R)
      BY <1>1, <3>4, <3>5, SumWithout
    <3>7. Sum(n, S) = Sum(m, S)
      <4>1. SameTotals(m, n, S)
        BY <1>1, <1>3, <3>1 DEF SameTotals, Listed
      <4> QED
        BY <1>1, <3>4, <4>1, SumOfSame
    <3>8. R \ {k} = S /\ R \ {} = R /\ S \ {} = S
      BY <3>1, <3>2
    <3>9. n.size = m.size /\ m.size = Sum(m, S)
      BY <3>8 DEF EditOpened, SizedBy
    <3> HIDE DEF S, R
    <3>10. n.size = Sum(n, R)
      BY <3>6, <3>7, <3>8, <3>9
    <3> QED
      BY <3>4, <3>8, <3>10 DEF SizedBy, R
  <2> QED
    BY <2>1, <2>2
<1>5. HeldKnown(n)
  <2> SUFFICES ASSUME NEW x \in Keys, EditingIn(n, x), n.ent[x].editor.held PROVE Known(n, x)
    BY DEF HeldKnown
  <2>1. x # k
    BY <1>3 DEF EditorNew
  <2> QED
    BY <1>3, <2>1 DEF Known, EditingIn, HeldKnown, Sound
<1>6. BlankLengths(n)
  <2> SUFFICES ASSUME NEW x \in Keys, n.ent[x] # NoEntry, ~n.ent[x].readable PROVE n.ent[x].len = NoLength
    BY DEF BlankLengths
  <2>1. CASE x = k
    BY <1>3, <2>1 DEF EditorNew, Sound, BlankLengths
  <2>2. CASE x # k
    BY <1>3, <2>2 DEF Sound, BlankLengths
  <2> QED
    BY <2>1, <2>2
<1>7. Known(n, k)
  BY <1>2, <1>3 DEF EditorNew, Known, EditingIn
<1> QED
  BY <1>1, <1>4, <1>5, <1>6, <1>7 DEF Sound, EditOpened

\* The steps of an edit.
LEMMA EditProgramIs ==
  ASSUME NEW k \in Keys
  PROVE  LET p == EditProgram(k)
         IN  /\ Whole(p, "up") /\ p[1] = [do |-> "flush"] /\ Final(p) = "give"
             /\ p[Len(p)].key = k
<1> DEFINE a == Do("flush")  b == DoKey("give", k)  S == {"flush", "give"}  p == EditProgram(k)
<1>0. p = a \o b
  BY DEF EditProgram
<1>1. Prog(a, S) /\ a[1] = [do |-> "flush"] /\ a[Len(a)] = [do |-> "flush"]
  BY DoIs DEF PlainOps
<1>2. Prog(b, S) /\ b[1] = [do |-> "give", key |-> k] /\ b[Len(b)] = [do |-> "give", key |-> k]
  BY DoKeyIs DEF KeyOps
<1> HIDE DEF a, b, p
<1>3. IsGlued(p, a, b, S)
  <2> HIDE DEF S
  <2>1. Fits(a, b, S)
    BY <1>1, <1>2 DEF Fits, Follows
  <2> QED
    BY <1>0, <2>1, Glue
<1>4. Prog(p, S) /\ p[1] = [do |-> "flush"] /\ p[Len(p)] = [do |-> "give", key |-> k]
  BY <1>1, <1>2, <1>3 DEF IsGlued
<1>5. Final(p) = "give"
  BY <1>4 DEF Final
<1>6. Whole(p, "up")
  BY <1>4, <1>5 DEF Whole, UpEnds, OpenEnds, StepsOf
<1> QED
  BY <1>4, <1>5, <1>6 DEF p

\* What edit does, when it gives no editor and when it begins to.
EditRefused ==
    /\ todo' = <<>> /\ edits' = edits
    /\ mem'.ent = mem.ent /\ mem'.out = mem.out
EditBegun(k) ==
    /\ edits' = edits + 1 /\ Known(mem', k)
    /\ \E f : EditorNew(mem, f, k, edits + 1) /\ mem'.ent = [mem.ent EXCEPT ![k] = f]
    /\ \/ mem.writer = "open" /\ mem'.out = Append(mem.out, Line("DIRTY", k)) /\ todo' = EditProgram(k)
       \/ mem.writer # "open" /\ mem'.out = mem.out /\ todo' = <<>>
EditDoes(k) ==
    /\ Sound(mem') /\ SizedBy(mem', {}) /\ mem'.writer = mem.writer
    /\ EditRefused \/ EditBegun(k)

\* edit is one of these.
LEMMA EditIs == ASSUME IInv, NEW k \in Keys, NEW expected, edit(k, expected) PROVE EditDoes(k)
<1> DEFINE m == [mem EXCEPT !.lru = Touch(@, k)]
           e == IF mem.ent[k] = NoEntry THEN Entry ELSE mem.ent[k]
           f == [e EXCEPT !.editor = NewEditor(edits + 1)]
           n == [m EXCEPT !.lru = IF mem.ent[k] = NoEntry THEN Append(@, k) ELSE @, !.ent[k] = f]
           o == [n EXCEPT !.out = Append(@, Line("DIRTY", k))]
           refused == \/ expected # {} /\ (mem.ent[k] = NoEntry \/ e.seq \notin expected)
                      \/ Editing(k)
<1>1. /\ Idle /\ Observe /\ disk' = disk /\ phase' = phase /\ erased' = erased /\ pending' = pending
      /\ snap' = snap /\ leaky' = leaky /\ crashes' = crashes /\ faults' = faults /\ edits < MaxEdits
  BY DEF edit, Calling, NoFault
<1>2. IdleFacts
  BY <1>1, IdleIs
<1>3. Sound(mem) /\ SizedBy(mem, {}) /\ mem.out \in Seq(Lines) /\ mem \in Mems
  BY <1>2 DEF IdleFacts
<1>4. Sound(m) /\ m.writer = mem.writer /\ SizedBy(m, {}) /\ m.ent = mem.ent /\ m.out = mem.out
  BY <1>3, TouchedIs DEF Touched
<1>5. edits + 1 \in 1..MaxEdits /\ edits \in Nat
  <2>1. edits \in 0..MaxEdits /\ MaxEdits \in Nat
    BY <1>2, Bounds DEF IdleFacts
  <2> QED
    BY <1>1, <2>1
<1>6. e \in Entries /\ (mem.ent[k] # NoEntry => e = mem.ent[k])
  <2>1. Entry \in Entries
    BY EntryType
  <2> QED
    BY <1>3, <2>1 DEF Mems
<1>7. e.len = NoLength \/ mem.ent[k] # NoEntry
  BY DEF Entry, NoLength
<1>8. EditorNew(m, f, k, edits + 1) /\ EditorNew(mem, f, k, edits + 1)
  <2>1. NewEditor(edits + 1) \in Editors /\ NewEditor(edits + 1).id = edits + 1 /\ ~NewEditor(edits + 1).held
    BY <1>5, EditorType DEF NewEditor
  <2> DEFINE x == NewEditor(edits + 1)
  <2> HIDE DEF x, e
  <2>2. f = [e EXCEPT !.editor = x]
    BY DEF x
  <2>3. f \in Entries /\ f.editor = x /\ f.len = e.len /\ f.readable = e.readable
    BY <1>6, <2>1, <2>2 DEF Entries, x
  <2> HIDE DEF f
  <2> QED
    BY <1>4, <1>6, <1>7, <2>1, <2>3 DEF EditorNew, x
<1> HIDE DEF m, e, f
<1>9. EditOpened(m, n, k, f) /\ n.out = mem.out
  <2> DEFINE l == IF mem.ent[k] = NoEntry THEN Append(m.lru, k) ELSE m.lru
             g == [m.ent EXCEPT ![k] = f]
  <2>1. m \in Mems /\ f \in Entries
    BY <1>4, <1>8 DEF Sound, EditorNew
  <2>2. l \in Seq(Keys) /\ g \in [Keys -> Entries \cup {NoEntry}]
    BY <2>1 DEF Mems
  <2>3. n = [m EXCEPT !.lru = l, !.ent = g]
    BY <2>1 DEF Mems
  <2> HIDE DEF l, g, n
  <2>4. n \in Mems /\ n.lru = l /\ n.ent = g /\ n.size = m.size /\ n.writer = m.writer /\ n.out = m.out
    BY <2>1, <2>2, <2>3 DEF Mems
  <2> QED
    BY <1>4, <2>4 DEF EditOpened, l, g
<1>10. EditOpened(m, o, k, f) /\ o.out = Append(mem.out, Line("DIRTY", k))
  <2>1. Append(n.out, Line("DIRTY", k)) \in Seq(Lines)
    <3>1. Line("DIRTY", k) \in Lines
      BY DEF Line, Lines
    <3> QED
      BY <1>3, <1>9, <3>1
  <2> HIDE DEF n
  <2>2. o \in Mems /\ o.lru = n.lru /\ o.ent = n.ent /\ o.size = n.size /\ o.writer = n.writer
        /\ o.out = Append(n.out, Line("DIRTY", k))
    BY <1>9, <2>1 DEF EditOpened, Mems
  <2> QED
    BY <1>9, <2>2 DEF EditOpened
<1> HIDE DEF n, o
<1>11. \A x \in {n, o} : Sound(x) /\ SizedBy(x, {}) /\ x.writer = mem.writer /\ Known(x, k)
  BY <1>4, <1>5, <1>8, <1>9, <1>10, EditOpens
<1>12. CASE refused
  <2>1. mem' = m /\ todo' = <<>> /\ edits' = edits
    BY <1>2, <1>12 DEF edit, m, e, IdleFacts
  <2> QED
    BY <1>4, <2>1 DEF EditDoes, EditRefused
<1>13. CASE ~refused
  <2>1. /\ edits' = edits + 1
        /\ \/ mem.writer = "open" /\ mem' = o /\ todo' = EditProgram(k)
           \/ mem.writer # "open" /\ mem' = n /\ todo' = <<>>
    BY <1>2, <1>13 DEF edit, m, e, f, n, o, IdleFacts
  <2>2. Sound(mem') /\ SizedBy(mem', {}) /\ mem'.writer = mem.writer /\ Known(mem', k)
    BY <1>11, <2>1
  <2>3. mem'.ent = [mem.ent EXCEPT ![k] = f]
    BY <1>4, <1>9, <1>10, <2>1 DEF EditOpened
  <2>4. \/ mem.writer = "open" /\ mem'.out = Append(mem.out, Line("DIRTY", k)) /\ todo' = EditProgram(k)
        \/ mem.writer # "open" /\ mem'.out = mem.out /\ todo' = <<>>
    BY <1>9, <1>10, <2>1
  <2>5. EditBegun(k)
    BY <1>8, <2>1, <2>2, <2>3, <2>4 DEF EditBegun
  <2> QED
    BY <2>2, <2>5 DEF EditDoes
<1> QED
  BY <1>12, <1>13

\* edit keeps the invariant.
LEMMA editKeeps == ASSUME IInv, NEW k \in Keys, NEW expected, edit(k, expected) PROVE IInv'
<1>1. /\ Idle /\ Observe /\ disk' = disk /\ phase' = phase /\ erased' = erased /\ pending' = pending
      /\ snap' = snap /\ leaky' = leaky /\ crashes' = crashes /\ faults' = faults /\ edits < MaxEdits
  BY DEF edit, Calling, NoFault
<1>2. IdleFacts
  BY <1>1, IdleIs
<1>3. /\ Sound(mem') /\ SizedBy(mem', {}) /\ mem'.writer = mem.writer
      /\ \/ EditRefused
         \/ EditBegun(k)
  BY EditIs DEF EditDoes
<1>4. Core(mem', todo', "up") /\ Files(disk', mem', todo', "up")
  <2>1. CASE todo' = <<>>
    BY <1>1, <1>2, <1>3, <2>1, CallRests
  <2>2. CASE todo' = EditProgram(k) /\ Known(mem', k)
    <3>1. /\ Whole(todo', "up") /\ todo'[1] = [do |-> "flush"] /\ Final(todo') = "give"
          /\ todo'[Len(todo')].key = k
      BY <2>2, EditProgramIs
    <3>2. todo' # <<>> /\ Head(todo') = [do |-> "flush"]
      BY <3>1, Begins
    <3>3. Ready(mem', todo') /\ Given(mem', todo') /\ Head(todo').do \in ProgramStarts
      BY <2>2, <3>1, <3>2 DEF Ready, At, Given, ProgramStarts
    <3> QED
      BY <1>1, <1>2, <1>3, <3>1, <3>3, CallBegins
  <2> QED
    BY <1>3, <2>1, <2>2 DEF EditRefused, EditBegun
<1>5. edits' \in 0..MaxEdits
  <2>1. edits \in 0..MaxEdits /\ MaxEdits \in Nat
    BY <1>2, Bounds DEF IdleFacts
  <2>2. edits' \in {edits, edits + 1}
    BY <1>3 DEF EditRefused, EditBegun
  <2> QED
    BY <1>1, <2>1, <2>2
<1>6. CallLands
  BY <1>1, <1>2, <1>4, <1>5 DEF CallLands, IdleFacts
<1> QED
  BY <1>1, <1>6, CallsLand

\* SnapshotEdit keeps the invariant.
LEMMA SnapshotEditKeeps == ASSUME IInv, SnapshotEdit PROVE IInv'
<1>1. snap.key \in Keys /\ edit(snap.key, {snap.seq})
  BY DEF SnapshotEdit, IInv, TypeInv, Snapshots
<1> QED
  BY <1>1, editKeeps

-----------------------------------------------------------------------------
\* The invariant holds at the start.
LEMMA InitHolds == Init => IInv
<1> SUFFICES ASSUME Init PROVE IInv
  OBVIOUS
<1>1. /\ disk = EmptyDisk /\ todo = <<>> /\ phase = "down" /\ pending = 0 /\ erased = {}
      /\ snap = NoSnapshot /\ leaky = FALSE /\ edits = 0 /\ crashes = 0 /\ faults = 0
      /\ seen = [value |-> Blank(NoFile), shown |-> [k \in Keys |-> FALSE], draft |-> [k \in Keys |-> NoDraft]]
  BY DEF Init
<1>2. PICK v \in Versions : mem = NewCache(v, OpenLimit, 0)
  BY DEF Init
<1>3. OpenLimit \in Nat \ {0}
  BY LimitAssumption
<1>4. Blank(NoFile) \in [Keys -> Values]
  BY DEF Blank, Values
<1>5. disk \in Disks /\ seen \in Views
  <2> HIDE DEF Disks
  <2>1. disk \in Disks
    BY <1>1, <1>4 DEF EmptyDisk, Disks
  <2>2. seen \in Views
    BY <1>1, <1>4 DEF Views
  <2> QED
    BY <2>1, <2>2
<1>6. /\ mem \in Mems /\ mem.writer = "none" /\ Sound(mem) /\ mem.size \in Nat
  BY <1>2, <1>3, NewCacheIs DEF Sound
<1>7. Core(mem, todo, phase)
  BY <1>1, <1>6, CoreRests
<1>8. Files(disk, mem, todo, phase)
  BY <1>1 DEF Files, At
<1>9. TypeInv
  <2>1. 0 \in 0..MaxPending /\ 0 \in 0..MaxEdits
    BY Bounds
  <2>2. todo \in Seq(StepRec)
    BY <1>1
  <2> QED
    BY <1>1, <1>5, <1>6, <2>1, <2>2 DEF TypeInv, Phases
<1> QED
  BY <1>7, <1>8, <1>9 DEF IInv

\* Every call keeps it.
LEMMA CallHolds == ASSUME IInv, Call PROVE IInv'
<1>1. CASE \E v \in Versions : open(v, OpenLimit)
  BY <1>1, openKeeps
<1>2. CASE \E k \in Keys : \/ get(k) \/ edit(k, {}) \/ remove(k) \/ commit(k) \/ abort(k) \/ RemoveStale(k)
                           \/ \E i \in Idx, l \in Lengths : set(k, i, l)
  <2>1. PICK k \in Keys : \/ get(k) \/ edit(k, {}) \/ remove(k) \/ commit(k) \/ abort(k) \/ RemoveStale(k)
                          \/ \E i \in Idx, l \in Lengths : set(k, i, l)
    BY <1>2
  <2>2. CASE get(k)
    BY <2>2, getKeeps
  <2>3. CASE edit(k, {})
    BY <2>3, editKeeps
  <2>4. CASE remove(k)
    BY <2>4, removeKeeps
  <2>5. CASE commit(k)
    BY <2>5, commitKeeps
  <2>6. CASE abort(k)
    BY <2>6, abortKeeps
  <2>7. CASE RemoveStale(k)
    BY <2>7, RemoveStaleKeeps
  <2>8. CASE \E i \in Idx, l \in Lengths : set(k, i, l)
    BY <2>8, setKeeps
  <2> QED
    BY <2>1, <2>2, <2>3, <2>4, <2>5, <2>6, <2>7, <2>8
<1>3. CASE \E m \in Limits : setMaxSize(m)
  BY <1>3, setMaxSizeKeeps
<1>4. CASE SnapshotEdit
  BY <1>4, SnapshotEditKeeps
<1>5. CASE flush
  BY <1>5, flushKeeps
<1>6. CASE close
  BY <1>6, closeKeeps
<1>7. CASE delete
  BY <1>7, deleteKeeps
<1> QED
  BY <1>1, <1>2, <1>3, <1>4, <1>5, <1>6, <1>7 DEF Call

\* Every step of a call keeps it.
LEMMA StepHolds == ASSUME IInv, Steps PROVE IInv'
<1>1. CASE UseBackup
  BY <1>1, UseBackupKeeps
<1>2. CASE Load
  BY <1>2, LoadKeeps
<1>3. CASE Process
  BY <1>3, ProcessKeeps
<1>4. CASE Collect
  BY <1>4, CollectKeeps
<1>5. CASE Unlink
  BY <1>5, UnlinkKeeps
<1>6. CASE DropEntry
  BY <1>6, DropEntryKeeps
<1>7. CASE Opened
  BY <1>7, OpenedKeeps
<1>8. CASE Fresh
  BY <1>8, FreshKeeps
<1>9. CASE Created
  BY <1>9, CreatedKeeps
<1>10. CASE CloseWriter
  BY <1>10, CloseWriterKeeps
<1>11. CASE WriteTmp
  BY <1>11, WriteTmpKeeps
<1>12. CASE Backup
  BY <1>12, BackupKeeps
<1>13. CASE Install
  BY <1>13, InstallKeeps
<1>14. CASE Reopen
  BY <1>14, ReopenKeeps
<1>15. CASE PublishStep
  BY <1>15, PublishKeeps
<1>16. CASE Discard
  BY <1>16, DiscardKeeps
<1>17. CASE Complete
  BY <1>17, CompleteKeeps
<1>18. CASE FlushStep
  BY <1>18, FlushKeeps
<1>19. CASE SubmitStep
  BY <1>19, SubmitKeeps
<1>20. CASE Give
  BY <1>20, GiveKeeps
<1>21. CASE Erase
  BY <1>21, EraseKeeps
<1>22. CASE DeleteClean
  BY <1>22, DeleteCleanKeeps
<1>23. CASE Removed
  BY <1>23, RemovedKeeps
<1>24. CASE Trim
  BY <1>24, TrimKeeps
<1>25. CASE RebuildIf
  BY <1>25, RebuildIfKeeps
<1>26. CASE Zero
  BY <1>26, ZeroKeeps
<1>27. CASE AbortEdit
  BY <1>27, AbortKeeps
<1>28. CASE Closed
  BY <1>28, ClosedKeeps
<1>29. CASE Wipe
  BY <1>29, WipeKeeps
<1>30. CASE Down
  BY <1>30, DownKeeps
<1> QED
  BY <1>1, <1>2, <1>3, <1>4, <1>5, <1>6, <1>7, <1>8, <1>9, <1>10, <1>11, <1>12, <1>13, <1>14, <1>15,
     <1>16, <1>17, <1>18, <1>19, <1>20, <1>21, <1>22, <1>23, <1>24, <1>25, <1>26, <1>27, <1>28, <1>29,
     <1>30 DEF Steps

\* Every step of the specification keeps it.
LEMMA NextHolds == ASSUME IInv, [Next]_vars PROVE IInv'
<1>1. CASE Call
  BY <1>1, CallHolds
<1>2. CASE Steps
  BY <1>2, StepHolds
<1>3. CASE cleanup
  BY <1>3, cleanupKeeps
<1>4. CASE Crash
  BY <1>4, CrashKeeps
<1>5. CASE UNCHANGED vars
  <2>1. /\ disk' = disk /\ mem' = mem /\ todo' = todo /\ phase' = phase /\ pending' = pending
        /\ erased' = erased /\ snap' = snap /\ seen' = seen /\ leaky' = leaky /\ edits' = edits
        /\ crashes' = crashes /\ faults' = faults
    BY <1>5 DEF vars
  <2>2. TypeInv'
    BY <2>1 DEF IInv, TypeInv
  <2>3. Core(mem, todo, phase)' /\ Files(disk, mem, todo, phase)'
    <3>1. Core(mem', todo', phase') /\ Files(disk', mem', todo', phase')
      BY <2>1 DEF IInv
    <3> QED
      BY <3>1
  <2> QED
    BY <2>2, <2>3 DEF IInv
<1> QED
  BY <1>1, <1>2, <1>3, <1>4, <1>5 DEF Next

\* It implies the type invariant.
LEMMA TypeFollows == IInv => TypeOK
<1> SUFFICES ASSUME IInv PROVE TypeOK
  OBVIOUS
<1>1. TypeInv /\ mem \in Mems /\ Listed(mem) /\ mem.size \in Nat /\ disk \in Disks
  BY DEF IInv, TypeInv, Core, Sized
<1>2. \A f \in {"journal", "tmp", "backup"} : disk[f] = NoFile \/ disk[f].version \in Versions
  BY <1>1 DEF Disks, Journals
<1>3. ToSet(mem.lru) = {k \in Keys : mem.ent[k] # NoEntry}
  BY <1>1 DEF Listed
<1>4. Len(mem.lru) = Cardinality(ToSet(mem.lru))
  BY <1>1, LenIsCardinality DEF Listed, Mems
<1>5. mem.writer \in {"none", "open", "broken"} /\ mem.redundant \in Nat
  BY <1>1 DEF Mems
<1>6. phase = "down" => todo = <<>>
  BY DEF IInv, Core, Control
<1> QED
  BY <1>1, <1>2, <1>3, <1>4, <1>5, <1>6 DEF TypeOK, TypeInv, Phases

\* It implies that the size is the sum of the lengths.
LEMMA SizeFollows == IInv => SizeIsSum
<1> SUFFICES ASSUME IInv, phase = "up", todo = <<>>
             PROVE  mem.size = MapThenSumSet(LAMBDA k : Total(mem.ent[k]), ToSet(mem.lru))
  BY DEF SizeIsSum
<1>1. SizedBy(mem, {}) /\ mem \in Mems /\ Listed(mem)
  BY IdleIs DEF Idle, IdleFacts
<1> DEFINE S == ToSet(mem.lru)
<1>2. S \ {} = S
  OBVIOUS
<1>3. mem.size = SumOver(TotalOf(mem), S)
  BY <1>1, <1>2 DEF SizedBy, Sum
<1>4. IsFiniteSet(S) /\ \A k \in S : k \in Keys /\ TotalOf(mem)[k] = Total(mem.ent[k])
  BY <1>1, ListIs
<1> DEFINE g == [k \in S |-> Total(mem.ent[k])]
<1>5. \A k \in S : g[k] = TotalOf(mem)[k]
  BY <1>4
<1>8. \A k \in S : TotalOf(mem)[k] \in Int
  BY <1>1, ListIs
<1>6. MapThenSumSet(LAMBDA k : Total(mem.ent[k]), S) = SumOver(g, S)
  BY MapThenSumIs
<1> HIDE DEF g, S
<1>7. SumOver(g, S) = SumOver(TotalOf(mem), S)
  BY <1>4, <1>5, <1>8, SumSame
<1> QED
  BY <1>3, <1>6, <1>7 DEF S

-----------------------------------------------------------------------------
(* The inductive invariant: of every call in progress, the steps still to  *)
(* do, what each needs of the entry it is about, and which entries the     *)
(* size counts.                                                            *)
THEOREM Invariance == Spec => []IInv
<1>1. IInv /\ [Next]_vars => IInv'
  BY NextHolds
<1> QED
  BY InitHolds, <1>1, PTL DEF Spec

(* The type invariant, and that no entry is in the LRU list twice: whatever *)
(* calls, crashes and I/O errors come in whatever order.                   *)
THEOREM TypeCorrect == Spec => []TypeOK
  BY Invariance, TypeFollows, PTL

(* When no call is in progress, the size that trimToSize and the cleanup   *)
(* look at is the sum of the lengths of the entries of the list, also after *)
(* an open that failed halfway, an aborted edit or a failed removal.       *)
THEOREM SizeCorrect == Spec => []SizeIsSum
  BY Invariance, SizeFollows, PTL
=============================================================================
