---------------------------- MODULE EngineLemmas ----------------------------
(***************************************************************************)
(* What the operators of PotCalculator and PokerEngine return, for any     *)
(* players, stacks, cards and rules: the facts about sums, folds, pots and *)
(* engine calls that the proofs about SidePots, HandPlay and TableSession  *)
(* rest on.                                                                *)
(*                                                                         *)
(* The induction theorems of the library take the predicate as an operator *)
(* and cannot be used here; the first section restates them with a set for *)
(* the predicate, from which everything else follows.                      *)
(***************************************************************************)
EXTENDS PokerEngine, FiniteSetTheorems, WellFoundedInduction, SequenceTheorems, TLAPS

-----------------------------------------------------------------------------
(* Induction and recursion over finite sets *)

\* A set of naturals that is not empty has a least member.
LEMMA LeastNat ==
    ASSUME NEW T \in SUBSET Nat, T # {}
    PROVE  \E n \in T : \A m \in T : n <= m
  <1>1. PICK n \in T : \A m \in T : <<m, n>> \notin OpToRel(<, Nat)
    BY WFMin, NatLessThanWellFounded, Zenon
  <1>2. \A m \in T : ~(m < n)
    BY <1>1, Zenon DEF OpToRel
  <1> QED
    BY <1>2

\* Induction over the natural numbers, with a set for the predicate
LEMMA NatSetInduction ==
    ASSUME NEW T, 0 \in T, \A n \in Nat : n \in T => n + 1 \in T
    PROVE  Nat \subseteq T
  <1> SUFFICES ASSUME Nat \ T # {} PROVE FALSE
    OBVIOUS
  <1>1. PICK n \in Nat \ T : \A m \in Nat \ T : n <= m
    BY LeastNat
  <1>2. n # 0 /\ n - 1 \in Nat
    BY <1>1
  <1>3. n - 1 \in T
    BY <1>1, <1>2
  <1> QED
    BY <1>1, <1>2, <1>3

\* ... and over the subsets of a finite set
LEMMA SubsetsInduction ==
    ASSUME NEW S, IsFiniteSet(S), NEW Good,
           \A T \in SUBSET S : (\A x \in T : T \ {x} \in Good) => T \in Good
    PROVE  S \in Good /\ \A T \in SUBSET S : T \in Good
  <1> DEFINE N == {n \in Nat : \A T \in SUBSET S : Cardinality(T) <= n => T \in Good}
  <1>1. \A T \in SUBSET S : IsFiniteSet(T) /\ Cardinality(T) \in Nat
    BY FS_Subset, FS_CardinalityType
  <1>2. 0 \in N
    <2>1. ASSUME NEW T \in SUBSET S, Cardinality(T) <= 0 PROVE T \in Good
      <3>1. T = {}
        BY <1>1, <2>1, FS_EmptySet
      <3> QED
        BY <3>1
    <2> QED
      BY <2>1
  <1>3. ASSUME NEW n \in Nat, n \in N PROVE n + 1 \in N
    <2>1. ASSUME NEW T \in SUBSET S, Cardinality(T) <= n + 1 PROVE T \in Good
      <3>1. ASSUME NEW x \in T PROVE T \ {x} \in Good
        <4>1. Cardinality(T \ {x}) = Cardinality(T) - 1
          BY <1>1, FS_RemoveElement
        <4>2. T \ {x} \in SUBSET S /\ Cardinality(T \ {x}) <= n
          BY <1>1, <2>1, <4>1
        <4> QED
          BY <1>3, <4>2
      <3> QED
        BY <3>1
    <2> QED
      BY <2>1
  <1>4. Nat \subseteq N
    <2> HIDE DEF N
    <2> QED
      BY <1>2, <1>3, NatSetInduction
  <1> QED
    BY <1>1, <1>4

\* Recursion over the subsets of a finite set: c picks the element to be taken
\* out first, G adds it to the value for the rest.
FoldsUp(h, S, b, c, G) ==
    \A T \in SUBSET S : h[T] = IF T = {} THEN b ELSE G[<<c[T], h[T \ {c[T]}]>>]
Picks(c, S) == \A T \in SUBSET S : T # {} => c[T] \in T

\* Such a recursion has a solution.
LEMMA FoldExists ==
    ASSUME NEW S, IsFiniteSet(S), NEW V, NEW b \in V, NEW c, Picks(c, S),
           NEW G \in [S \X V -> V]
    PROVE  \E h \in [SUBSET S -> V] : FoldsUp(h, S, b, c, G)
  <1> DEFINE Low(n) == {T \in SUBSET S : Cardinality(T) <= n}
             Is(h, n) == \A T \in Low(n) :
                            h[T] = IF T = {} THEN b ELSE G[<<c[T], h[T \ {c[T]}]>>]
             N == {n \in Nat : \E h \in [Low(n) -> V] : Is(h, n)}
  <1>0. \A T \in SUBSET S : T # {} => c[T] \in T
    BY DEF Picks
  <1>1. \A T \in SUBSET S : IsFiniteSet(T) /\ Cardinality(T) \in Nat
    BY FS_Subset, FS_CardinalityType
  <1>2. 0 \in N
    <2>1. \A T \in Low(0) : T = {}
      BY <1>1, FS_EmptySet
    <2>2. [T \in Low(0) |-> b] \in [Low(0) -> V] /\ Is([T \in Low(0) |-> b], 0)
      BY <2>1
    <2> QED
      BY <2>2
  <1>3a. ASSUME NEW n \in Nat, NEW T \in Low(n + 1), T # {}
        PROVE  T \ {c[T]} \in Low(n) /\ c[T] \in S
    <2>1. c[T] \in T /\ IsFiniteSet(T) /\ Cardinality(T) \in Nat
      BY <1>0, <1>3a, <1>1
    <2>2. Cardinality(T \ {c[T]}) = Cardinality(T) - 1
      BY <2>1, FS_RemoveElement
    <2> QED
      BY <2>1, <2>2, <1>3a
  <1>3. ASSUME NEW n \in Nat, n \in N PROVE n + 1 \in N
    <2>1. PICK h \in [Low(n) -> V] : Is(h, n)
      BY <1>3
    <2> DEFINE k == [T \in Low(n + 1) |-> IF T = {} THEN b ELSE G[<<c[T], h[T \ {c[T]}]>>]]
    <2>2. k \in [Low(n + 1) -> V]
      <3>1. ASSUME NEW T \in Low(n + 1), T # {} PROVE G[<<c[T], h[T \ {c[T]}]>>] \in V
        <4>1. h[T \ {c[T]}] \in V /\ c[T] \in S
          BY <1>3a, <2>1, <3>1
        <4> QED
          BY <4>1
      <3> HIDE DEF Low
      <3> QED
        BY <3>1
    <2>3. \A T \in Low(n) : T \in Low(n + 1) /\ k[T] = h[T]
      <3>1. \A T \in Low(n) : T \in Low(n + 1)
        BY <1>1
      <3> HIDE DEF Low
      <3> QED
        BY <2>1, <3>1
    <2>4. Is(k, n + 1)
      <3>1. \A T \in Low(n + 1) : T # {} => T \ {c[T]} \in Low(n)
        BY <1>3a
      <3> HIDE DEF Low
      <3> QED
        BY <2>3, <3>1
    <2> HIDE DEF Is, Low, k
    <2> QED
      BY <2>2, <2>4
  <1>4. Nat \subseteq N
    <2> HIDE DEF N
    <2> QED
      BY <1>2, <1>3, NatSetInduction
  <1>5. Cardinality(S) \in Nat /\ Low(Cardinality(S)) = SUBSET S
    <2>1. \A T \in SUBSET S : Cardinality(T) <= Cardinality(S)
      BY FS_Subset
    <2> QED
      BY <1>1, <2>1
  <1>6. PICK h \in [SUBSET S -> V] : Is(h, Cardinality(S))
    <2>1. \E h \in [Low(Cardinality(S)) -> V] : Is(h, Cardinality(S))
      BY <1>4, <1>5
    <2> HIDE DEF Is, Low
    <2> QED
      BY <1>5, <2>1
  <1> QED
    BY <1>5, <1>6 DEF FoldsUp

-----------------------------------------------------------------------------
(* Sums *)

\* k gives the sum of f over every subset of S.
SumsOver(k, f, S) ==
    /\ k \in [SUBSET S -> Int]
    /\ k[{}] = 0
    /\ \A T \in SUBSET S : \A x \in T : k[T] = f[x] + k[T \ {x}]

\* The recursion by which the library defines a sum
SumRecursion(k, f, S) ==
    k = [T \in SUBSET S |-> IF T = {} THEN 0
                            ELSE f[CHOOSE x \in T : TRUE] + k[T \ {CHOOSE x \in T : TRUE}]]

\* SumFunctionOnSet without its operators
LEMMA SumUnfolds ==
    ASSUME NEW f, NEW S
    PROVE  SumFunctionOnSet(f, S) = (CHOOSE k : SumRecursion(k, f, S))[S]
  BY Zenon DEF SumFunctionOnSet, FoldFunctionOnSet, MapThenFoldSet, SumRecursion

\* The recursion has a solution.
LEMMA SumRecursionSolved ==
    ASSUME NEW D, NEW f \in [D -> Int], NEW S \in SUBSET D, IsFiniteSet(S)
    PROVE  \E k : SumRecursion(k, f, S)
  <1> DEFINE c == [T \in SUBSET S |-> CHOOSE x \in T : TRUE]
             G == [p \in S \X Int |-> f[p[1]] + p[2]]
  <1>1. Picks(c, S)
    BY DEF Picks
  <1>2. G \in [S \X Int -> Int] /\ 0 \in Int
    OBVIOUS
  <1>3. \E h \in [SUBSET S -> Int] : FoldsUp(h, S, 0, c, G)
    <2> HIDE DEF c, G
    <2> QED
      BY <1>1, <1>2, FoldExists
  <1>4. PICK h \in [SUBSET S -> Int] : FoldsUp(h, S, 0, c, G)
    BY <1>3
  <1>5. ASSUME NEW T \in SUBSET S, T # {}
        PROVE  h[T] = f[c[T]] + h[T \ {c[T]}]
    <2>1. c[T] \in S /\ h[T \ {c[T]}] \in Int
      BY <1>5
    <2>2. G[<<c[T], h[T \ {c[T]}]>>] = f[c[T]] + h[T \ {c[T]}]
      <3> HIDE DEF c
      <3> QED
        BY <2>1
    <2> HIDE DEF c, G
    <2> QED
      BY <1>4, <1>5, <2>2 DEF FoldsUp
  <1>6. h[{}] = 0
    <2> HIDE DEF c, G
    <2> QED
      BY <1>4 DEF FoldsUp
  <1>7. SumRecursion(h, f, S)
    <2>1. \A T \in SUBSET S : T # {} => c[T] = CHOOSE x \in T : TRUE
      OBVIOUS
    <2> HIDE DEF c, G
    <2> QED
      BY <1>5, <1>6, <2>1 DEF SumRecursion
  <1> QED
    BY <1>7

\* Every solution gives the sums, in whatever order the members are taken.
LEMMA SumRecursionSums ==
    ASSUME NEW D, NEW f \in [D -> Int], NEW S \in SUBSET D, IsFiniteSet(S),
           NEW k, SumRecursion(k, f, S)
    PROVE  SumsOver(k, f, S)
  <1>1. k[{}] = 0 /\ DOMAIN k = SUBSET S /\ k = [T \in SUBSET S |-> k[T]]
    BY DEF SumRecursion
  <1>2. ASSUME NEW T \in SUBSET S, T # {}
        PROVE  \E x \in T : k[T] = f[x] + k[T \ {x}]
    <2>1. (CHOOSE x \in T : TRUE) \in T
      BY <1>2
    <2> QED
      BY <1>2, <2>1 DEF SumRecursion
  <1>3. \A T \in SUBSET S : k[T] \in Int
    <2> DEFINE Good == {T \in SUBSET S : k[T] \in Int}
    <2>1. ASSUME NEW T \in SUBSET S, \A x \in T : T \ {x} \in Good PROVE T \in Good
      <3>1. CASE T = {}
        BY <1>1, <3>1
      <3>2. CASE T # {}
        <4>1. PICK x \in T : k[T] = f[x] + k[T \ {x}]
          BY <1>2, <3>2
        <4>2. k[T \ {x}] \in Int /\ f[x] \in Int
          BY <2>1
        <4> QED
          BY <4>1, <4>2
      <3> QED
        BY <3>1, <3>2
    <2> HIDE DEF Good
    <2>2. \A T \in SUBSET S : T \in Good
      BY <2>1, SubsetsInduction
    <2> QED
      BY <2>2 DEF Good
  <1>4. \A T \in SUBSET S : \A x \in T : k[T] = f[x] + k[T \ {x}]
    <2> DEFINE Ok(T) == \A x \in T : k[T] = f[x] + k[T \ {x}]
               Good == {T \in SUBSET S : Ok(T)}
    <2>1. ASSUME NEW T \in SUBSET S, \A x \in T : T \ {x} \in Good PROVE T \in Good
      <3>1. ASSUME NEW x \in T PROVE k[T] = f[x] + k[T \ {x}]
        <4>1. PICK y \in T : k[T] = f[y] + k[T \ {y}]
          BY <1>2, <3>1
        <4>2. CASE x # y
          <5> DEFINE R == (T \ {x}) \ {y}
          <5>1. R \in SUBSET S /\ R = (T \ {y}) \ {x} /\ x \in T \ {y} /\ y \in T \ {x}
            BY <4>2
          <5>2. Ok(T \ {x}) /\ Ok(T \ {y})
            BY <2>1
          <5>3. k[T \ {x}] = f[y] + k[R] /\ k[T \ {y}] = f[x] + k[R]
            BY <5>1, <5>2
          <5>4. f[x] \in Int /\ f[y] \in Int /\ k[R] \in Int
            BY <1>3, <5>1
          <5> HIDE DEF R
          <5> QED
            BY <4>1, <5>3, <5>4
        <4> QED
          BY <4>1, <4>2
      <3> QED
        BY <3>1
    <2> HIDE DEF Good
    <2>2. \A T \in SUBSET S : T \in Good
      BY <2>1, SubsetsInduction
    <2> QED
      BY <2>2 DEF Good
  <1> QED
    BY <1>1, <1>3, <1>4 DEF SumsOver

\* Two functions that give the sums agree.
LEMMA SumsOverUnique ==
    ASSUME NEW D, NEW f \in [D -> Int], NEW S \in SUBSET D, IsFiniteSet(S),
           NEW k, SumsOver(k, f, S), NEW m, NEW E, NEW e \in [E -> Int], S \in SUBSET E,
           SumsOver(m, e, S), \A x \in S : e[x] = f[x]
    PROVE  k[S] = m[S]
  <1> DEFINE Good == {T \in SUBSET S : k[T] = m[T]}
  <1>1. ASSUME NEW T \in SUBSET S, \A x \in T : T \ {x} \in Good PROVE T \in Good
    <2>1. CASE T = {}
      BY <2>1 DEF SumsOver
    <2>2. ASSUME NEW x \in T PROVE k[T] = m[T]
      <3>1. k[T] = f[x] + k[T \ {x}] /\ m[T] = e[x] + m[T \ {x}]
        BY <2>2 DEF SumsOver
      <3> QED
        BY <1>1, <3>1
    <2> QED
      BY <2>1, <2>2
  <1>2. S \in Good
    <2> HIDE DEF Good
    <2> QED
      BY <1>1, SubsetsInduction
  <1> QED
    BY <1>2

\* The sums over S give the sums over its subsets.
LEMMA SumsOverSubset ==
    ASSUME NEW k, NEW f, NEW S, NEW R \in SUBSET S, SumsOver(k, f, S)
    PROVE  SumsOver([T \in SUBSET R |-> k[T]], f, R)
  <1>1. \A T \in SUBSET R : T \in SUBSET S /\ \A x \in T : T \ {x} \in SUBSET R
    OBVIOUS
  <1> QED
    BY <1>1 DEF SumsOver

\* What a sum is
LEMMA SumIs ==
    ASSUME NEW D, NEW f \in [D -> Int], NEW S \in SUBSET D, IsFiniteSet(S)
    PROVE  \E k : SumsOver(k, f, S) /\ SumFunctionOnSet(f, S) = k[S]
  <1> DEFINE k == CHOOSE k : SumRecursion(k, f, S)
  <1>1. SumRecursion(k, f, S)
    BY SumRecursionSolved
  <1>2. SumFunctionOnSet(f, S) = k[S]
    BY SumUnfolds, Zenon
  <1>3. SumsOver(k, f, S)
    <2> HIDE DEF k
    <2> QED
      BY <1>1, SumRecursionSums
  <1> QED
    BY <1>2, <1>3

\* Functions that agree on S have the same sum over it.
LEMMA SumAgree ==
    ASSUME NEW D, NEW f \in [D -> Int], NEW E, NEW e \in [E -> Int],
           NEW S \in SUBSET D, S \in SUBSET E, IsFiniteSet(S), \A x \in S : e[x] = f[x]
    PROVE  SumFunctionOnSet(e, S) = SumFunctionOnSet(f, S)
  <1>1. PICK k : SumsOver(k, f, S) /\ SumFunctionOnSet(f, S) = k[S]
    BY SumIs
  <1>2. PICK m : SumsOver(m, e, S) /\ SumFunctionOnSet(e, S) = m[S]
    BY SumIs
  <1>3. k[S] = m[S]
    BY <1>1, <1>2, SumsOverUnique
  <1> QED
    BY <1>1, <1>2, <1>3

\* The type of a sum, the empty sum, and one member of a sum
LEMMA SumStep ==
    ASSUME NEW D, NEW f \in [D -> Int], NEW S \in SUBSET D, IsFiniteSet(S)
    PROVE  /\ SumFunctionOnSet(f, S) \in Int
           /\ S = {} => SumFunctionOnSet(f, S) = 0
           /\ \A x \in S : SumFunctionOnSet(f, S) = f[x] + SumFunctionOnSet(f, S \ {x})
  <1>1. PICK k : SumsOver(k, f, S) /\ SumFunctionOnSet(f, S) = k[S]
    BY SumIs
  <1>2. ASSUME NEW x \in S
        PROVE  SumFunctionOnSet(f, S) = f[x] + SumFunctionOnSet(f, S \ {x})
    <2> DEFINE R == S \ {x}
    <2>1. R \in SUBSET D /\ R \in SUBSET S /\ IsFiniteSet(R)
      BY FS_Subset
    <2> HIDE DEF R
    <2>2. PICK m : SumsOver(m, f, R) /\ SumFunctionOnSet(f, R) = m[R]
      BY <2>1, SumIs
    <2>3. SumsOver([T \in SUBSET R |-> k[T]], f, R)
      BY <1>1, <2>1, SumsOverSubset
    <2>4. [T \in SUBSET R |-> k[T]][R] = m[R]
      <3> DEFINE r == [T \in SUBSET R |-> k[T]]
      <3>1. SumsOver(r, f, R)
        BY <2>3
      <3> HIDE DEF r
      <3> QED
        BY <2>1, <2>2, <3>1, SumsOverUnique DEF r
    <2>5. m[R] = k[R]
      BY <2>4
    <2>6. k[S] = f[x] + k[R]
      BY <1>1 DEF SumsOver, R
    <2> QED
      BY <1>1, <2>2, <2>5, <2>6 DEF R
  <1> QED
    BY <1>1, <1>2 DEF SumsOver

\* The sum of a function is its sum over its domain.
LEMMA SumFunctionIs ==
    ASSUME NEW D, NEW f \in [D -> Int]
    PROVE  SumFunction(f) = SumFunctionOnSet(f, D)
  <1>1. DOMAIN f = D
    OBVIOUS
  <1> QED
    BY <1>1, Zenon DEF SumFunction

\* A sum of zeros
LEMMA SumZero ==
    ASSUME NEW D, NEW f \in [D -> Int], NEW S \in SUBSET D, IsFiniteSet(S),
           \A x \in S : f[x] = 0
    PROVE  SumFunctionOnSet(f, S) = 0
  <1> DEFINE Good == {T \in SUBSET S : SumFunctionOnSet(f, T) = 0}
  <1>1. ASSUME NEW T \in SUBSET S, \A x \in T : T \ {x} \in Good PROVE T \in Good
    <2>1. IsFiniteSet(T) /\ T \in SUBSET D
      BY FS_Subset
    <2>2. /\ SumFunctionOnSet(f, T) \in Int
          /\ T = {} => SumFunctionOnSet(f, T) = 0
          /\ \A x \in T : SumFunctionOnSet(f, T) = f[x] + SumFunctionOnSet(f, T \ {x})
      BY <2>1, SumStep
    <2>3. ASSUME NEW x \in T PROVE SumFunctionOnSet(f, T) = 0
      <3>1. SumFunctionOnSet(f, T \ {x}) = 0 /\ f[x] = 0
        BY <1>1
      <3>2. SumFunctionOnSet(f, T) = f[x] + SumFunctionOnSet(f, T \ {x})
        BY <2>2
      <3> QED
        BY <3>1, <3>2
    <2> QED
      BY <2>2, <2>3
  <1>2. S \in Good
    <2> HIDE DEF Good
    <2> QED
      BY <1>1, SubsetsInduction
  <1> QED
    BY <1>2

\* Sums are monotonic.
LEMMA SumOrder ==
    ASSUME NEW D, NEW f \in [D -> Int], NEW E, NEW e \in [E -> Int],
           NEW S \in SUBSET D, S \in SUBSET E, IsFiniteSet(S), \A x \in S : f[x] <= e[x]
    PROVE  SumFunctionOnSet(f, S) <= SumFunctionOnSet(e, S)
  <1> DEFINE Good == {T \in SUBSET S : SumFunctionOnSet(f, T) <= SumFunctionOnSet(e, T)}
  <1>1. ASSUME NEW T \in SUBSET S, \A x \in T : T \ {x} \in Good PROVE T \in Good
    <2>1. IsFiniteSet(T) /\ T \in SUBSET D /\ T \in SUBSET E
      BY FS_Subset
    <2>2. /\ SumFunctionOnSet(f, T) \in Int
          /\ T = {} => SumFunctionOnSet(f, T) = 0
          /\ \A x \in T : SumFunctionOnSet(f, T) = f[x] + SumFunctionOnSet(f, T \ {x})
      BY <2>1, SumStep
    <2>3. /\ SumFunctionOnSet(e, T) \in Int
          /\ T = {} => SumFunctionOnSet(e, T) = 0
          /\ \A x \in T : SumFunctionOnSet(e, T) = e[x] + SumFunctionOnSet(e, T \ {x})
      BY <2>1, SumStep
    <2>4. CASE T = {}
      BY <2>2, <2>3, <2>4
    <2>5. ASSUME NEW x \in T PROVE SumFunctionOnSet(f, T) <= SumFunctionOnSet(e, T)
      <3>1. SumFunctionOnSet(f, T \ {x}) <= SumFunctionOnSet(e, T \ {x})
        BY <1>1
      <3>2. IsFiniteSet(T \ {x}) /\ T \ {x} \in SUBSET D /\ T \ {x} \in SUBSET E
        BY <2>1, FS_Subset
      <3>3. SumFunctionOnSet(f, T \ {x}) \in Int /\ SumFunctionOnSet(e, T \ {x}) \in Int
        <4> DEFINE R == T \ {x}
        <4>1. IsFiniteSet(R) /\ R \in SUBSET D /\ R \in SUBSET E
          BY <3>2
        <4> HIDE DEF R
        <4>2. SumFunctionOnSet(f, R) \in Int /\ SumFunctionOnSet(e, R) \in Int
          BY <4>1, SumStep
        <4> QED
          BY <4>2 DEF R
      <3>4. f[x] \in Int /\ e[x] \in Int /\ f[x] <= e[x]
        BY <2>1
      <3> QED
        BY <2>2, <2>3, <3>1, <3>3, <3>4
    <2> QED
      BY <2>4, <2>5
  <1>2. S \in Good
    <2> HIDE DEF Good
    <2> QED
      BY <1>1, SubsetsInduction
  <1> QED
    BY <1>2

\* A sum of naturals is a natural, at least as large as each of them.
LEMMA SumNat ==
    ASSUME NEW D, NEW f \in [D -> Nat], NEW S \in SUBSET D, IsFiniteSet(S)
    PROVE  /\ SumFunctionOnSet(f, S) \in Nat
           /\ \A x \in S : f[x] <= SumFunctionOnSet(f, S)
  <1>1. f \in [D -> Int]
    OBVIOUS
  <1>2. ASSUME NEW T \in SUBSET S PROVE SumFunctionOnSet(f, T) \in Nat
    <2> DEFINE z == [x \in D |-> 0]
    <2>1. z \in [D -> Int] /\ \A x \in T : z[x] <= f[x] /\ z[x] = 0
      OBVIOUS
    <2>2. T \in SUBSET D /\ IsFiniteSet(T)
      BY FS_Subset
    <2> HIDE DEF z
    <2>3. SumFunctionOnSet(z, T) = 0
      BY <2>1, <2>2, SumZero
    <2>4. SumFunctionOnSet(z, T) <= SumFunctionOnSet(f, T)
      BY <1>1, <2>1, <2>2, SumOrder
    <2>5. SumFunctionOnSet(f, T) \in Int
      BY <1>1, <2>2, SumStep
    <2> QED
      BY <2>3, <2>4, <2>5
  <1>3. ASSUME NEW x \in S PROVE f[x] <= SumFunctionOnSet(f, S)
    <2>1. SumFunctionOnSet(f, S) = f[x] + SumFunctionOnSet(f, S \ {x})
      BY <1>1, SumStep
    <2>2. SumFunctionOnSet(f, S \ {x}) \in Nat /\ f[x] \in Nat
      BY <1>2
    <2> QED
      BY <2>1, <2>2
  <1> QED
    BY <1>2, <1>3

\* The sum of a sum of functions
LEMMA SumPlus ==
    ASSUME NEW D, NEW f \in [D -> Int], NEW e \in [D -> Int], NEW h \in [D -> Int],
           NEW S \in SUBSET D, IsFiniteSet(S), \A x \in S : h[x] = f[x] + e[x]
    PROVE  SumFunctionOnSet(h, S) = SumFunctionOnSet(f, S) + SumFunctionOnSet(e, S)
  <1> DEFINE Good == {T \in SUBSET S : SumFunctionOnSet(h, T)
                                          = SumFunctionOnSet(f, T) + SumFunctionOnSet(e, T)}
  <1>0. ASSUME NEW T \in SUBSET S, NEW x \in [D -> Int]
        PROVE  /\ SumFunctionOnSet(x, T) \in Int
               /\ T = {} => SumFunctionOnSet(x, T) = 0
               /\ \A y \in T : SumFunctionOnSet(x, T) = x[y] + SumFunctionOnSet(x, T \ {y})
    <2>1. IsFiniteSet(T) /\ T \in SUBSET D
      BY FS_Subset
    <2> QED
      BY <2>1, SumStep
  <1>1. ASSUME NEW T \in SUBSET S, \A x \in T : T \ {x} \in Good PROVE T \in Good
    <2>1. CASE T = {}
      BY <1>0, <2>1
    <2>2. ASSUME NEW x \in T
          PROVE  SumFunctionOnSet(h, T) = SumFunctionOnSet(f, T) + SumFunctionOnSet(e, T)
      <3> DEFINE R == T \ {x}
      <3>1. SumFunctionOnSet(h, R) = SumFunctionOnSet(f, R) + SumFunctionOnSet(e, R)
        BY <1>1
      <3>2. SumFunctionOnSet(f, R) \in Int /\ SumFunctionOnSet(e, R) \in Int
        BY <1>0
      <3>3. /\ SumFunctionOnSet(h, T) = h[x] + SumFunctionOnSet(h, R)
            /\ SumFunctionOnSet(f, T) = f[x] + SumFunctionOnSet(f, R)
            /\ SumFunctionOnSet(e, T) = e[x] + SumFunctionOnSet(e, R)
        BY <1>0
      <3>4. f[x] \in Int /\ e[x] \in Int /\ h[x] = f[x] + e[x]
        OBVIOUS
      <3> HIDE DEF R
      <3> QED
        BY <3>1, <3>2, <3>3, <3>4
    <2> QED
      BY <2>1, <2>2
  <1>2. S \in Good
    <2> HIDE DEF Good
    <2> QED
      BY <1>1, SubsetsInduction
  <1> QED
    BY <1>2

\* The sum over two disjoint sets
LEMMA SumSplit ==
    ASSUME NEW D, NEW f \in [D -> Int], NEW A \in SUBSET D, NEW B \in SUBSET D,
           IsFiniteSet(A), IsFiniteSet(B), A \cap B = {}
    PROVE  SumFunctionOnSet(f, A \cup B) = SumFunctionOnSet(f, A) + SumFunctionOnSet(f, B)
  <1> DEFINE Good == {T \in SUBSET B : SumFunctionOnSet(f, A \cup T)
                                          = SumFunctionOnSet(f, A) + SumFunctionOnSet(f, T)}
  <1>0. ASSUME NEW T \in SUBSET D, IsFiniteSet(T)
        PROVE  /\ SumFunctionOnSet(f, T) \in Int
               /\ T = {} => SumFunctionOnSet(f, T) = 0
               /\ \A y \in T : SumFunctionOnSet(f, T) = f[y] + SumFunctionOnSet(f, T \ {y})
    BY <1>0, SumStep
  <1>1. ASSUME NEW T \in SUBSET B, \A x \in T : T \ {x} \in Good PROVE T \in Good
    <2>1. IsFiniteSet(T) /\ T \in SUBSET D /\ IsFiniteSet(A \cup T) /\ A \cup T \in SUBSET D
      BY FS_Subset, FS_Union
    <2>2. CASE T = {}
      <3>1. A \cup T = A
        BY <2>2
      <3>2. SumFunctionOnSet(f, T) = 0 /\ SumFunctionOnSet(f, A) \in Int
        BY <1>0, <2>1, <2>2
      <3>3. SumFunctionOnSet(f, A \cup T) = SumFunctionOnSet(f, A)
        BY <3>1, Zenon
      <3> QED
        BY <3>2, <3>3
    <2>3. ASSUME NEW x \in T
          PROVE  SumFunctionOnSet(f, A \cup T) = SumFunctionOnSet(f, A) + SumFunctionOnSet(f, T)
      <3> DEFINE R == T \ {x}
      <3>1. (A \cup T) \ {x} = A \cup R /\ R \in SUBSET D /\ IsFiniteSet(R) /\ x \in A \cup T
        BY <2>1, FS_Subset
      <3>2. SumFunctionOnSet(f, A \cup R) = SumFunctionOnSet(f, A) + SumFunctionOnSet(f, R)
        BY <1>1
      <3>3. SumFunctionOnSet(f, A \cup T) = f[x] + SumFunctionOnSet(f, A \cup R)
        BY <1>0, <2>1, <3>1
      <3>4. SumFunctionOnSet(f, T) = f[x] + SumFunctionOnSet(f, R)
        BY <1>0, <2>1
      <3>5. SumFunctionOnSet(f, A) \in Int /\ SumFunctionOnSet(f, R) \in Int /\ f[x] \in Int
        BY <1>0, <2>1, <3>1
      <3> HIDE DEF R
      <3> QED
        BY <3>2, <3>3, <3>4, <3>5
    <2> QED
      BY <2>2, <2>3
  <1>2. B \in Good
    <2> HIDE DEF Good
    <2> QED
      BY <1>1, SubsetsInduction
  <1> QED
    BY <1>2

\* A sum of which only one member counts
LEMMA SumOne ==
    ASSUME NEW D, NEW f \in [D -> Int], NEW S \in SUBSET D, IsFiniteSet(S),
           NEW x \in S, \A y \in S \ {x} : f[y] = 0
    PROVE  SumFunctionOnSet(f, S) = f[x]
  <1> DEFINE R == S \ {x}
  <1>1. R \in SUBSET D /\ IsFiniteSet(R) /\ \A y \in R : f[y] = 0
    BY FS_Subset
  <1>2. SumFunctionOnSet(f, S) = f[x] + SumFunctionOnSet(f, R)
    BY SumStep
  <1>3. SumFunctionOnSet(f, R) = 0
    <2> HIDE DEF R
    <2> QED
      BY <1>1, SumZero
  <1> QED
    BY <1>2, <1>3

-----------------------------------------------------------------------------
(* Folds over sequences *)

\* The largest of a finite set of integers
LEMMA MaxIs ==
    ASSUME NEW T \in SUBSET Int, IsFiniteSet(T), T # {}
    PROVE  Max(T) \in T /\ \A y \in T : y <= Max(T)
  <1> DEFINE Good == {R \in SUBSET T : R # {} => \E x \in R : \A y \in R : x >= y}
  <1>1. ASSUME NEW R \in SUBSET T, \A x \in R : R \ {x} \in Good PROVE R \in Good
    <2>1. ASSUME NEW x \in R PROVE \E z \in R : \A y \in R : z >= y
      <3>1. CASE R \ {x} = {}
        BY <3>1
      <3>2. CASE R \ {x} # {}
        <4>1. PICK z \in R \ {x} : \A y \in R \ {x} : z >= y
          BY <1>1, <3>2
        <4>2. CASE z >= x
          BY <4>1, <4>2
        <4>3. CASE x > z
          BY <4>1, <4>3
        <4> QED
          BY <4>2, <4>3
      <3> QED
        BY <3>1, <3>2
    <2> QED
      BY <2>1
  <1>2. T \in Good
    <2> HIDE DEF Good
    <2> QED
      BY <1>1, SubsetsInduction
  <1>3. \E x \in T : \A y \in T : x >= y
    BY <1>2
  <1>4. Max(T) \in T /\ \A y \in T : Max(T) >= y
    BY <1>3, Zenon DEF Max
  <1> QED
    BY <1>4

\* An initial interval is the one before it and its last number.
LEMMA IntervalTop ==
    ASSUME NEW i \in Nat, i # 0
    PROVE  Max(1..i) = i /\ (1..i) \ {Max(1..i)} = 1..(i - 1) /\ 1..i # {}
  <1>1. IsFiniteSet(1..i) /\ i \in 1..i /\ 1..i \in SUBSET Int
    BY FS_Interval
  <1>2. Max(1..i) \in 1..i /\ \A y \in 1..i : y <= Max(1..i)
    BY <1>1, MaxIs
  <1>3. Max(1..i) = i
    BY <1>1, <1>2
  <1>4. (1..i) \ {i} = 1..(i - 1)
    OBVIOUS
  <1> QED
    BY <1>1, <1>3, <1>4

\* The sets of indices up to n, and their last ones
LEMMA IndexSets ==
    ASSUME NEW n \in Nat, NEW T \in SUBSET (1..n), T # {}
    PROVE  Max(T) \in T /\ Max(T) \in 1..n
  <1> DEFINE I == 1..n
  <1>1. IsFiniteSet(I) /\ T \in SUBSET I /\ I \in SUBSET Int
    BY FS_Interval
  <1> HIDE DEF I
  <1>2. IsFiniteSet(T) /\ T \in SUBSET Int
    BY <1>1, FS_Subset
  <1> QED
    BY <1>2, MaxIs

\* A fold from the left gives a value for every set of indices.
FoldsLeft(h, n, V, b, G) ==
    /\ h \in [SUBSET (1..n) -> V]
    /\ h[{}] = b
    /\ \A T \in SUBSET (1..n) : T # {} => h[T] = G[<<Max(T), h[T \ {Max(T)}]>>]

\* Such a recursion along a sequence has a solution.
LEMMA FoldLeftExists ==
    ASSUME NEW n \in Nat, NEW V, NEW b \in V, NEW G \in [(1..n) \X V -> V]
    PROVE  \E h : FoldsLeft(h, n, V, b, G)
  <1> DEFINE I == 1..n
             c == [T \in SUBSET I |-> Max(T)]
  <1>1. IsFiniteSet(I) /\ \A T \in SUBSET I : T # {} => Max(T) \in T
    <2>1. IsFiniteSet(I)
      BY FS_Interval
    <2>2. \A T \in SUBSET I : T # {} => Max(T) \in T
      BY IndexSets
    <2> QED
      BY <2>1, <2>2
  <1>2. \A T \in SUBSET I : c[T] = Max(T)
    OBVIOUS
  <1>3. G \in [I \X V -> V]
    OBVIOUS
  <1> HIDE DEF I, c
  <1>4. Picks(c, I)
    BY <1>1, <1>2 DEF Picks
  <1>5. PICK h \in [SUBSET I -> V] : FoldsUp(h, I, b, c, G)
    BY <1>1, <1>3, <1>4, FoldExists
  <1>6. /\ h[{}] = b
        /\ \A T \in SUBSET I : T # {} => h[T] = G[<<Max(T), h[T \ {Max(T)}]>>]
    BY <1>2, <1>5 DEF FoldsUp
  <1>7. FoldsLeft(h, n, V, b, G)
    BY <1>6 DEF FoldsLeft, I
  <1> QED
    BY <1>7

\* The values for the prefixes, each from the one before
FoldSteps(m, k, n, V, b, G) ==
    /\ m \in [0..n -> V]
    /\ m[0] = b
    /\ \A i \in 1..n : m[i] = G[<<i, m[i - 1]>>]
    /\ m[n] = k[1..n]

FollowsFold(k, n, V, b, G) ==
    /\ k[{}] = b
    /\ \A T \in SUBSET (1..n) :
          T # {} /\ k[T \ {Max(T)}] \in V => k[T] = G[<<Max(T), k[T \ {Max(T)}]>>]

\* What a fold gives for a whole sequence is the last of a list of values, each
\* made from the one before it.
LEMMA FoldPrefixes ==
    ASSUME NEW n \in Nat, NEW V, NEW b \in V, NEW G \in [(1..n) \X V -> V],
           NEW k, FollowsFold(k, n, V, b, G)
    PROVE  \E m : FoldSteps(m, k, n, V, b, G)
  <1> DEFINE m == [i \in 0..n |-> k[1..i]]
             N == {i \in Nat : i <= n => k[1..i] \in V}
  <1>1. 1..0 = {}
    OBVIOUS
  <1>2. 0 \in N
    <2>1. k[1..0] = b
      BY <1>1, Zenon DEF FollowsFold
    <2> QED
      BY <2>1
  <1>3. ASSUME NEW i \in Nat, i + 1 <= n, k[1..i] \in V
        PROVE  k[1..(i + 1)] = G[<<i + 1, k[1..i]>>] /\ k[1..(i + 1)] \in V
    <2> DEFINE T == 1..(i + 1)
    <2>1. /\ Max(T) = i + 1 /\ T \ {Max(T)} = 1..((i + 1) - 1) /\ T # {}
      <3>1. i + 1 \in Nat /\ i + 1 # 0
        OBVIOUS
      <3> QED
        BY <3>1, IntervalTop
    <2>2. (i + 1) - 1 = i /\ T \in SUBSET (1..n) /\ i + 1 \in 1..n
      BY <1>3
    <2>3. T \ {Max(T)} = 1..i
      BY <2>1, <2>2
    <2> HIDE DEF T
    <2>4. k[T \ {Max(T)}] = k[1..i]
      BY <2>3, Zenon
    <2>5. k[T] = G[<<i + 1, k[1..i]>>]
      BY <1>3, <2>1, <2>2, <2>4 DEF FollowsFold
    <2>6. G[<<i + 1, k[1..i]>>] \in V
      BY <1>3, <2>2
    <2> QED
      BY <2>5, <2>6 DEF T
  <1>4. ASSUME NEW i \in Nat, i \in N PROVE i + 1 \in N
    <2>1. CASE i + 1 <= n
      <3>1. k[1..i] \in V
        BY <1>4, <2>1
      <3>2. k[1..(i + 1)] \in V
        BY <1>3, <2>1, <3>1
      <3> QED
        BY <3>2
    <2> QED
      BY <2>1
  <1>5. Nat \subseteq N
    <2> HIDE DEF N
    <2> QED
      BY <1>2, <1>4, NatSetInduction
  <1>6. m \in [0..n -> V]
    <2>1. \A i \in 0..n : k[1..i] \in V
      BY <1>5
    <2> QED
      BY <2>1
  <1>7. m[0] = b
    <2>1. k[1..0] = b
      BY <1>1, Zenon DEF FollowsFold
    <2> QED
      BY <2>1
  <1>8. ASSUME NEW i \in 1..n PROVE m[i] = G[<<i, m[i - 1]>>]
    <2>1. i - 1 \in Nat /\ i - 1 \in 0..n /\ i \in 0..n /\ (i - 1) + 1 = i
      OBVIOUS
    <2>2. k[1..(i - 1)] \in V
      BY <1>5, <2>1
    <2>3. k[1..i] = G[<<i, k[1..(i - 1)]>>]
      BY <1>3, <2>1, <2>2
    <2> QED
      BY <2>1, <2>3
  <1>9. m[n] = k[1..n]
    OBVIOUS
  <1> HIDE DEF m
  <1>10. FoldSteps(m, k, n, V, b, G)
    BY <1>6, <1>7, <1>8, <1>9 DEF FoldSteps
  <1> QED
    BY <1>10

\* Filter goes through its sequence one element at a time.
FilterRecursion(k, s, S) ==
    k = [T \in SUBSET DOMAIN s |->
            IF T = {} THEN <<>>
            ELSE IF s[Max(T)] \in S THEN Append(k[T \ {Max(T)}], s[Max(T)])
                 ELSE k[T \ {Max(T)}]]

\* Filter without the operators of the library
LEMMA FilterUnfolds ==
    ASSUME NEW s, NEW S
    PROVE  Filter(s, S) = (CHOOSE k : FilterRecursion(k, s, S))[DOMAIN s]
  BY Zenon DEF Filter, FoldLeft, MapThenFoldSet, FilterRecursion

FilterSteps(m, s, S) ==
    /\ m[0] = <<>>
    /\ \A i \in 1..Len(s) : m[i] = IF s[i] \in S THEN Append(m[i - 1], s[i]) ELSE m[i - 1]

\* Filter goes through its sequence from the left, an element at a time.
LEMMA FilterFolds ==
    ASSUME NEW X, NEW s \in Seq(X), NEW S
    PROVE  \E m \in [0..Len(s) -> Seq(X)] :
              FilterSteps(m, s, S) /\ Filter(s, S) = m[Len(s)]
  <1> DEFINE n == Len(s)
             V == Seq(X)
             G == [p \in (1..n) \X V |-> IF s[p[1]] \in S THEN Append(p[2], s[p[1]]) ELSE p[2]]
             k == CHOOSE k : FilterRecursion(k, s, S)
  <1>1. n \in Nat /\ DOMAIN s = 1..n /\ \A i \in 1..n : s[i] \in X
    OBVIOUS
  <1>2. G \in [(1..n) \X V -> V] /\ <<>> \in V
    OBVIOUS
  <1>3. \A i \in 1..n, v \in V :
           G[<<i, v>>] = IF s[i] \in S THEN Append(v, s[i]) ELSE v
    OBVIOUS
  <1>4. Filter(s, S) = k[1..n]
    BY <1>1, FilterUnfolds
  <1>5. ASSUME NEW T \in SUBSET (1..n), T # {} PROVE Max(T) \in 1..n
    BY <1>1, <1>5, IndexSets
  <1> HIDE DEF n, V, G
  <1>6. PICK h : FoldsLeft(h, n, V, <<>>, G)
    BY <1>1, <1>2, FoldLeftExists
  <1>7. FilterRecursion(h, s, S)
    <2>1. h \in [SUBSET (1..n) -> V] /\ h[{}] = <<>>
      BY <1>6 DEF FoldsLeft
    <2>2. ASSUME NEW T \in SUBSET (1..n), T # {}
          PROVE  h[T] = IF s[Max(T)] \in S THEN Append(h[T \ {Max(T)}], s[Max(T)])
                        ELSE h[T \ {Max(T)}]
      <3>1. h[T \ {Max(T)}] \in V /\ Max(T) \in 1..n
        BY <1>5, <2>1, <2>2
      <3>2. h[T] = G[<<Max(T), h[T \ {Max(T)}]>>]
        BY <1>6, <2>2 DEF FoldsLeft
      <3> QED
        BY <1>3, <3>1, <3>2
    <2> QED
      BY <1>1, <2>1, <2>2 DEF FilterRecursion
  <1>8. FilterRecursion(k, s, S)
    BY <1>7
  <1> HIDE DEF k
  <1>9. k[{}] = <<>>
    BY <1>1, <1>8 DEF FilterRecursion
  <1>10. ASSUME NEW T \in SUBSET (1..n), T # {}, k[T \ {Max(T)}] \in V
         PROVE  k[T] = G[<<Max(T), k[T \ {Max(T)}]>>]
    <2>1. k[T] = IF s[Max(T)] \in S THEN Append(k[T \ {Max(T)}], s[Max(T)])
                 ELSE k[T \ {Max(T)}]
      BY <1>1, <1>8, <1>10 DEF FilterRecursion
    <2> QED
      BY <1>3, <1>5, <1>10, <2>1
  <1>11. PICK m : FoldSteps(m, k, n, V, <<>>, G)
    <2>1. FollowsFold(k, n, V, <<>>, G)
      BY <1>9, <1>10 DEF FollowsFold
    <2> QED
      BY <1>1, <1>2, <2>1, FoldPrefixes
  <1>12. ASSUME NEW i \in 1..n
         PROVE  m[i] = IF s[i] \in S THEN Append(m[i - 1], s[i]) ELSE m[i - 1]
    <2>1. i - 1 \in 0..n
      BY <1>1
    <2>2. m[i] = G[<<i, m[i - 1]>>] /\ m[i - 1] \in V
      BY <1>11, <2>1 DEF FoldSteps
    <2> QED
      BY <1>3, <2>2
  <1>13. FilterSteps(m, s, S)
    BY <1>11, <1>12 DEF FilterSteps, FoldSteps, n
  <1>14. Filter(s, S) = m[Len(s)] /\ m \in [0..Len(s) -> Seq(X)]
    BY <1>4, <1>11 DEF FoldSteps, n, V
  <1> QED
    BY <1>13, <1>14

\* One more element at the end of a sequence
LEMMA AppendIs ==
    ASSUME NEW X, NEW q \in Seq(X), NEW x \in X
    PROVE  /\ Append(q, x) \in Seq(X)
           /\ ToSet(Append(q, x)) = ToSet(q) \cup {x}
           /\ IsInjective(q) /\ x \notin ToSet(q) => IsInjective(Append(q, x))
  <1> DEFINE n == Len(q)
             a == Append(q, x)
  <1>1. n \in Nat /\ DOMAIN q = 1..n /\ DOMAIN a = 1..(n + 1)
    OBVIOUS
  <1>2. a[n + 1] = x /\ \A i \in 1..n : a[i] = q[i]
    OBVIOUS
  <1>3. a \in Seq(X)
    OBVIOUS
  <1> HIDE DEF n, a
  <1>4. \A i \in 1..(n + 1) : i \in 1..n \/ i = n + 1
    BY <1>1
  <1>5. n + 1 \in 1..(n + 1) /\ \A i \in 1..n : i \in 1..(n + 1)
    BY <1>1
  <1>6. ToSet(a) = ToSet(q) \cup {x}
    BY <1>1, <1>2, <1>4, <1>5 DEF ToSet
  <1>7. ASSUME IsInjective(q), x \notin ToSet(q) PROVE IsInjective(a)
    <2>1. \A i \in 1..n : q[i] # x
      BY <1>1, <1>7 DEF ToSet
    <2>2. \A i, j \in 1..n : q[i] = q[j] => i = j
      BY <1>1, <1>7 DEF IsInjective
    <2> QED
      BY <1>1, <1>2, <1>4, <2>1, <2>2 DEF IsInjective
  <1> QED
    BY <1>3, <1>6, <1>7 DEF a

\* Filter keeps the elements of s that are in S, each as often as s has it.
LEMMA FilterIs ==
    ASSUME NEW X, NEW s \in Seq(X), NEW S
    PROVE  /\ Filter(s, S) \in Seq(X)
           /\ ToSet(Filter(s, S)) = ToSet(s) \cap S
           /\ IsInjective(s) => IsInjective(Filter(s, S))
  <1> DEFINE n == Len(s)
  <1>1. PICK m \in [0..n -> Seq(X)] : FilterSteps(m, s, S) /\ Filter(s, S) = m[n]
    BY FilterFolds
  <1>2. n \in Nat /\ DOMAIN s = 1..n /\ \A i \in 1..n : s[i] \in X
    OBVIOUS
  <1>3. m[0] = <<>> /\ \A i \in 1..n : m[i] = IF s[i] \in S THEN Append(m[i - 1], s[i])
                                                          ELSE m[i - 1]
    BY <1>1 DEF FilterSteps
  <1> HIDE DEF n
  <1> DEFINE Seen(i) == {s[j] : j \in 1..i}
             Ok(i) == /\ ToSet(m[i]) = Seen(i) \cap S
                      /\ IsInjective(s) => IsInjective(m[i])
             N == {i \in Nat : i <= n => Ok(i)}
  <1>4. 0 \in N
    <2>1. Seen(0) = {}
      OBVIOUS
    <2>2. ToSet(<<>>) = {} /\ IsInjective(<<>>)
      BY DEF ToSet, IsInjective
    <2> QED
      BY <1>3, <2>1, <2>2
  <1>5. ASSUME NEW i \in Nat, i \in N PROVE i + 1 \in N
    <2>1. CASE i + 1 <= n
      <3> DEFINE x == s[i + 1]
                 q == m[i]
      <3>1. i + 1 \in 1..n /\ i \in 0..n /\ (i + 1) - 1 = i /\ x \in X /\ q \in Seq(X)
        BY <1>1, <1>2, <2>1
      <3>2. m[i + 1] = IF x \in S THEN Append(q, x) ELSE q
        BY <1>3, <3>1
      <3>3. Seen(i + 1) = Seen(i) \cup {x}
        <4>1. \A j \in 1..(i + 1) : j \in 1..i \/ j = i + 1
          OBVIOUS
        <4>2. i + 1 \in 1..(i + 1) /\ \A j \in 1..i : j \in 1..(i + 1)
          OBVIOUS
        <4> QED
          BY <4>1, <4>2
      <3>4. ToSet(q) = Seen(i) \cap S /\ (IsInjective(s) => IsInjective(q))
        <4>1. Ok(i)
          <5> HIDE DEF Ok
          <5> QED
            BY <1>2, <1>5, <2>1
        <4> QED
          BY <4>1
      <3>5. IsInjective(s) => x \notin Seen(i)
        <4>1. \A j \in 1..i : j \in DOMAIN s /\ j # i + 1
          BY <1>2, <3>1
        <4> QED
          BY <1>2, <3>1, <4>1 DEF IsInjective
      <3>6. /\ ToSet(Append(q, x)) = ToSet(q) \cup {x}
            /\ IsInjective(q) /\ x \notin ToSet(q) => IsInjective(Append(q, x))
        <4> HIDE DEF x, q
        <4> QED
          BY <3>1, AppendIs
      <3> HIDE DEF x, q, Seen
      <3>7. CASE x \in S
        <4>1. m[i + 1] = Append(q, x)
          BY <3>2, <3>7
        <4>2. ToSet(m[i + 1]) = Seen(i + 1) \cap S
          BY <3>3, <3>4, <3>6, <3>7, <4>1
        <4>3. IsInjective(s) => IsInjective(m[i + 1])
          BY <3>4, <3>5, <3>6, <4>1
        <4> QED
          BY <4>2, <4>3
      <3>8. CASE x \notin S
        <4>1. m[i + 1] = q
          BY <3>2, <3>8
        <4>2. ToSet(m[i + 1]) = Seen(i + 1) \cap S
          BY <3>3, <3>4, <3>8, <4>1
        <4> QED
          BY <3>4, <4>1, <4>2
      <3> QED
        BY <3>7, <3>8
    <2> QED
      BY <2>1
  <1>6. Nat \subseteq N
    <2> HIDE DEF N
    <2> QED
      BY <1>4, <1>5, NatSetInduction
  <1>7. Ok(n)
    <2>1. n \in N /\ n <= n
      <3> HIDE DEF Ok
      <3> QED
        BY <1>2, <1>6
    <2> HIDE DEF Ok
    <2> QED
      BY <2>1
  <1>8. Seen(n) = ToSet(s)
    BY <1>2 DEF ToSet
  <1>9. m[n] \in Seq(X)
    BY <1>1, <1>2
  <1> QED
    BY <1>1, <1>7, <1>8, <1>9

\* A finite set of integers can be put in ascending order.
IsAscending(q, S) ==
    /\ q \in [1..Cardinality(S) -> S]
    /\ \A i, j \in 1..Cardinality(S) : i < j => q[i] < q[j]

\* Every finite set of integers has such an order.
LEMMA AscendingExists ==
    ASSUME NEW S \in SUBSET Int, IsFiniteSet(S)
    PROVE  \E q : IsAscending(q, S)
  <1> DEFINE Good == {T \in SUBSET S : \E q : IsAscending(q, T)}
  <1>1. ASSUME NEW T \in SUBSET S, \A x \in T : T \ {x} \in Good PROVE T \in Good
    <2>1. CASE T = {}
      <3>1. Cardinality({}) = 0 /\ 1..0 = {}
        BY FS_EmptySet
      <3>2. IsAscending(<<>>, {})
        BY <3>1 DEF IsAscending
      <3> QED
        BY <2>1, <3>2
    <2>2. CASE T # {}
      <3> DEFINE x == Max(T)
                 R == T \ {x}
                 n == Cardinality(R)
      <3>1. IsFiniteSet(T) /\ T \in SUBSET Int
        BY FS_Subset
      <3>2. x \in T /\ \A y \in T : y <= x
        BY <2>2, <3>1, MaxIs
      <3>3. n \in Nat /\ Cardinality(T) = n + 1
        <4>1. IsFiniteSet(R) /\ Cardinality(R) = Cardinality(T) - 1
          BY <3>1, <3>2, FS_RemoveElement
        <4> QED
          BY <3>1, <4>1, FS_CardinalityType
      <3>4. PICK q : IsAscending(q, R)
        BY <1>1, <3>2
      <3>5. q \in [1..n -> R] /\ \A i, j \in 1..n : i < j => q[i] < q[j]
        BY <3>4 DEF IsAscending
      <3> DEFINE r == [i \in 1..(n + 1) |-> IF i = n + 1 THEN x ELSE q[i]]
      <3> HIDE DEF x
      <3>6. \A y \in R : y \in T /\ y \in Int /\ y < x
        BY <3>1, <3>2
      <3> HIDE DEF R, n
      <3>7. \A i \in 1..(n + 1) : i = n + 1 \/ i \in 1..n
        BY <3>3
      <3>8. r \in [1..(n + 1) -> T]
        BY <3>2, <3>5, <3>6, <3>7
      <3>9. ASSUME NEW i \in 1..(n + 1), NEW j \in 1..(n + 1), i < j PROVE r[i] < r[j]
        <4>1. i \in 1..n /\ i # n + 1
          BY <3>3, <3>9
        <4>2. r[i] = q[i] /\ q[i] \in R
          BY <3>5, <4>1
        <4>3. CASE j = n + 1
          BY <3>6, <4>2, <4>3
        <4>4. CASE j \in 1..n
          <5>1. j # n + 1
            BY <3>3, <4>4
          <5> QED
            BY <3>5, <3>9, <4>1, <4>2, <4>4, <5>1
        <4> QED
          BY <3>7, <4>3, <4>4
      <3>10. IsAscending(r, T)
        <4> HIDE DEF r
        <4> QED
          BY <3>3, <3>8, <3>9 DEF IsAscending
      <3> QED
        BY <3>10
    <2> QED
      BY <2>1, <2>2
  <1>2. S \in Good
    <2> HIDE DEF Good
    <2> QED
      BY <1>1, SubsetsInduction
  <1> QED
    BY <1>2

\* Ascending lists all of S in that order.
LEMMA AscendingIs ==
    ASSUME NEW S \in SUBSET Int, IsFiniteSet(S)
    PROVE  /\ Cardinality(S) \in Nat
           /\ Ascending(S) \in [1..Cardinality(S) -> S]
           /\ \A i, j \in 1..Cardinality(S) : i < j => Ascending(S)[i] < Ascending(S)[j]
           /\ \A x \in S : \E i \in 1..Cardinality(S) : Ascending(S)[i] = x
  <1> DEFINE n == Cardinality(S)
             q == Ascending(S)
  <1>1. n \in Nat
    BY FS_CardinalityType
  <1>2. q \in [1..n -> S] /\ \A i, j \in DOMAIN q : i < j => q[i] < q[j]
    <2>1. \E r \in [1..n -> S] : \A i, j \in DOMAIN r : i < j => r[i] < r[j]
      <3>1. PICK r : IsAscending(r, S)
        BY AscendingExists
      <3>2. r \in [1..n -> S] /\ \A i, j \in 1..n : i < j => r[i] < r[j]
        BY <3>1 DEF IsAscending
      <3>3. DOMAIN r = 1..n
        BY <3>2
      <3> HIDE DEF n
      <3> QED
        BY <3>2, <3>3
    <2> QED
      BY <2>1, Zenon DEF Ascending
  <1>3. DOMAIN q = 1..n
    BY <1>2
  <1> HIDE DEF n, q
  <1>4. ASSUME NEW i \in 1..n, NEW j \in 1..n, q[i] = q[j] PROVE i = j
    <2>1. q[i] \in Int /\ q[j] \in Int
      BY <1>2
    <2>2. ~(i < j) /\ ~(j < i)
      BY <1>2, <1>3, <1>4, <2>1
    <2> QED
      BY <1>1, <2>2
  <1>5. q \in Injection(1..n, S)
    BY <1>2, <1>4 DEF Injection, IsInjective
  <1>6. q \in Surjection(1..n, S)
    <2>1. IsFiniteSet(1..n) /\ Cardinality(1..n) = n
      BY <1>1, FS_Interval
    <2>2. Cardinality(1..n) = Cardinality(S)
      BY <2>1 DEF n
    <2> QED
      BY <1>5, <2>2, FS_Injection
  <1>7. \A x \in S : \E i \in 1..n : q[i] = x
    BY <1>6 DEF Surjection
  <1> QED
    BY <1>1, <1>2, <1>3, <1>7 DEF n, q

-----------------------------------------------------------------------------
(* Pots: merging *)

\* A sum over a sequence with one more element
LEMMA SumLast ==
    ASSUME NEW n \in Nat, NEW f \in [1..(n + 1) -> Int], NEW e \in [1..n -> Int],
           \A i \in 1..n : f[i] = e[i]
    PROVE  SumFunction(f) = SumFunction(e) + f[n + 1]
  <1> DEFINE I == 1..n
             J == 1..(n + 1)
  <1>1. IsFiniteSet(I) /\ IsFiniteSet(J)
    BY FS_Interval
  <1>2. n + 1 \in J /\ J \ {n + 1} = I /\ I \in SUBSET J
    OBVIOUS
  <1>3. f \in [J -> Int] /\ e \in [I -> Int] /\ \A i \in I : f[i] = e[i]
    OBVIOUS
  <1> HIDE DEF I, J
  <1>4. SumFunction(f) = SumFunctionOnSet(f, J) /\ SumFunction(e) = SumFunctionOnSet(e, I)
    BY <1>3, SumFunctionIs
  <1>5. SumFunctionOnSet(f, J) = f[n + 1] + SumFunctionOnSet(f, J \ {n + 1})
    BY <1>1, <1>2, <1>3, SumStep
  <1>6. SumFunctionOnSet(f, J \ {n + 1}) = SumFunctionOnSet(f, I)
    BY <1>2, Zenon
  <1>7. SumFunctionOnSet(f, I) = SumFunctionOnSet(e, I)
    BY <1>1, <1>2, <1>3, SumAgree
  <1>8. SumFunctionOnSet(e, I) \in Int /\ f[n + 1] \in Int
    BY <1>1, <1>2, <1>3, SumStep
  <1> QED
    BY <1>4, <1>5, <1>6, <1>7, <1>8

\* A sum with one member changed
LEMMA SumChanged ==
    ASSUME NEW D, IsFiniteSet(D), NEW f \in [D -> Int], NEW e \in [D -> Int], NEW x \in D,
           \A y \in D \ {x} : f[y] = e[y]
    PROVE  SumFunction(f) = SumFunction(e) - e[x] + f[x]
  <1> DEFINE R == D \ {x}
  <1>1. SumFunction(f) = SumFunctionOnSet(f, D) /\ SumFunction(e) = SumFunctionOnSet(e, D)
    BY SumFunctionIs
  <1>2. /\ SumFunctionOnSet(f, D) = f[x] + SumFunctionOnSet(f, R)
        /\ SumFunctionOnSet(e, D) = e[x] + SumFunctionOnSet(e, R)
    BY SumStep
  <1>3. R \in SUBSET D /\ IsFiniteSet(R) /\ \A y \in R : f[y] = e[y]
    BY FS_Subset
  <1> HIDE DEF R
  <1>4. SumFunctionOnSet(f, R) = SumFunctionOnSet(e, R)
    BY <1>3, SumAgree
  <1>5. SumFunctionOnSet(f, R) \in Int
    BY <1>3, SumStep
  <1> QED
    BY <1>1, <1>2, <1>4, <1>5

PotOf(U) == [amount : Nat, eligible : SUBSET U]

\* The chips in the pots whose eligible players are one of the sets in F
Chips(ps, F) ==
    SumFunction([i \in DOMAIN ps |-> IF ps[i].eligible \in F THEN ps[i].amount ELSE 0])

\* The three things AddPot may do
PotDropped(a, m, pot) == pot.amount = 0 /\ a = m
PotMerged(a, m, pot) ==
    /\ Len(m) > 0 /\ Len(a) = Len(m)
    /\ m[Len(m)].eligible = pot.eligible
    /\ \A i \in 1..(Len(m) - 1) : a[i] = m[i]
    /\ a[Len(m)].amount = m[Len(m)].amount + pot.amount
    /\ a[Len(m)].eligible = pot.eligible
PotAppended(a, m, pot) ==
    /\ pot.amount > 0 /\ Len(a) = Len(m) + 1
    /\ Len(m) > 0 => m[Len(m)].eligible # pot.eligible
    /\ \A i \in 1..Len(m) : a[i] = m[i]
    /\ a[Len(m) + 1] = pot

\* _merge_pots drops an empty pot, adds it to a pot with the same players, or
\* appends it, and does nothing else.
LEMMA AddPotCases ==
    ASSUME NEW U, NEW m \in Seq(PotOf(U)), NEW pot \in PotOf(U)
    PROVE  /\ AddPot(m, pot) \in Seq(PotOf(U))
           /\ \/ PotDropped(AddPot(m, pot), m, pot)
              \/ PotMerged(AddPot(m, pot), m, pot)
              \/ PotAppended(AddPot(m, pot), m, pot)
  <1> DEFINE n == Len(m)
             a == AddPot(m, pot)
  <1>1. n \in Nat /\ DOMAIN m = 1..n /\ \A i \in 1..n : m[i] \in PotOf(U)
    OBVIOUS
  <1>2. pot.amount \in Nat /\ pot.eligible \in SUBSET U
    BY DEF PotOf
  <1>3. CASE pot.amount = 0
    BY <1>3 DEF AddPot, PotDropped
  <1>4. CASE pot.amount # 0 /\ m # <<>> /\ m[n].eligible = pot.eligible
    <2>1. n > 0 /\ n \in 1..n
      BY <1>1, <1>4
    <2> DEFINE p == [m[n] EXCEPT !.amount = @ + pot.amount]
    <2>2. a = [m EXCEPT ![n].amount = @ + pot.amount]
      BY <1>4 DEF AddPot, Last
    <2>3. a = [m EXCEPT ![n] = p]
      BY <2>2
    <2>4. m[n] \in PotOf(U)
      BY <1>1, <2>1
    <2>5. p \in PotOf(U) /\ p.amount = m[n].amount + pot.amount /\ p.eligible = m[n].eligible
      BY <1>2, <2>4 DEF PotOf
    <2> HIDE DEF p, a, n
    <2>6. a \in [1..n -> PotOf(U)] /\ a[n] = p /\ \A i \in 1..n : i # n => a[i] = m[i]
      BY <1>1, <2>1, <2>3, <2>5
    <2>7. a \in Seq(PotOf(U)) /\ Len(a) = n
      BY <1>1, <2>6
    <2>8. \A i \in 1..(n - 1) : i \in 1..n /\ i # n
      BY <1>1
    <2>9. PotMerged(a, m, pot)
      <3>1. Len(m) = n
        BY DEF n
      <3> QED
        BY <1>4, <2>1, <2>5, <2>6, <2>7, <2>8, <3>1 DEF PotMerged
    <2> QED
      BY <2>7, <2>9 DEF a
  <1>5. CASE pot.amount # 0 /\ ~(m # <<>> /\ m[n].eligible = pot.eligible)
    <2>1. a = Append(m, pot)
      BY <1>5 DEF AddPot, Last
    <2>2. /\ a \in Seq(PotOf(U)) /\ Len(a) = n + 1
          /\ \A i \in 1..n : a[i] = m[i]
          /\ a[n + 1] = pot
      BY <2>1
    <2>3. n > 0 => m # <<>>
      OBVIOUS
    <2> QED
      BY <1>2, <1>5, <2>2, <2>3 DEF PotAppended
  <1> QED
    BY <1>3, <1>4, <1>5

\* AddPot adds the pot's chips for its eligible players, and nothing else.
LEMMA AddPotChips ==
    ASSUME NEW U, NEW m \in Seq(PotOf(U)), NEW pot \in PotOf(U), NEW F
    PROVE  Chips(AddPot(m, pot), F)
              = Chips(m, F) + (IF pot.eligible \in F THEN pot.amount ELSE 0)
  <1> DEFINE n == Len(m)
             a == AddPot(m, pot)
             e == [i \in DOMAIN m |-> IF m[i].eligible \in F THEN m[i].amount ELSE 0]
             f == [i \in DOMAIN a |-> IF a[i].eligible \in F THEN a[i].amount ELSE 0]
             d == IF pot.eligible \in F THEN pot.amount ELSE 0
  <1>1. n \in Nat /\ DOMAIN m = 1..n /\ \A i \in 1..n : m[i] \in PotOf(U)
    OBVIOUS
  <1>2. pot.amount \in Nat /\ d \in Int
    BY DEF PotOf
  <1>3. a \in Seq(PotOf(U)) /\ (PotDropped(a, m, pot) \/ PotMerged(a, m, pot) \/ PotAppended(a, m, pot))
    BY AddPotCases
  <1>4. Chips(a, F) = SumFunction(f) /\ Chips(m, F) = SumFunction(e)
    BY DEF Chips
  <1>5. DOMAIN a = 1..Len(a) /\ \A i \in 1..Len(a) : a[i] \in PotOf(U)
    BY <1>3
  <1>6. e \in [1..n -> Int] /\ \A i \in 1..n : e[i] = IF m[i].eligible \in F THEN m[i].amount ELSE 0
    BY <1>1 DEF PotOf
  <1>7. f \in [1..Len(a) -> Int] /\ \A i \in 1..Len(a) : f[i] = IF a[i].eligible \in F THEN a[i].amount ELSE 0
    BY <1>5 DEF PotOf
  <1> HIDE DEF a, e, f
  <1>8. IsFiniteSet(1..n)
    BY <1>1, FS_Interval
  <1>9. SumFunction(e) \in Int
    <2>1. SumFunction(e) = SumFunctionOnSet(e, 1..n)
      BY <1>6, SumFunctionIs
    <2> QED
      BY <1>6, <1>8, <2>1, SumStep
  <1>10. CASE PotDropped(a, m, pot)
    <2>1. a = m /\ d = 0
      BY <1>10 DEF PotDropped
    <2>2. Chips(a, F) = Chips(m, F)
      BY <2>1, Zenon
    <2> QED
      BY <1>4, <1>9, <2>1, <2>2 DEF a
  <1>11. CASE PotMerged(a, m, pot)
    <2>1. /\ n \in 1..n /\ Len(a) = n
          /\ m[n].eligible = pot.eligible
          /\ \A i \in 1..n : i # n => a[i] = m[i]
          /\ a[n].amount = m[n].amount + pot.amount
          /\ a[n].eligible = pot.eligible
      <3>0. Len(m) = n
        OBVIOUS
      <3> HIDE DEF n
      <3>1. \A i \in 1..n : i # n => i \in 1..(n - 1)
        BY <1>1
      <3> QED
        BY <1>1, <1>11, <3>0, <3>1 DEF PotMerged
    <2>2. f \in [1..n -> Int] /\ \A i \in 1..n \ {n} : f[i] = e[i]
      BY <1>6, <1>7, <2>1
    <2>3. m[n].amount \in Nat
      BY <1>1, <2>1 DEF PotOf
    <2>4. f[n] = e[n] + d /\ e[n] \in Int
      BY <1>2, <1>6, <1>7, <2>1, <2>3
    <2>5. SumFunction(f) = SumFunction(e) - e[n] + f[n]
      <3> DEFINE I == 1..n
      <3>1. IsFiniteSet(I) /\ f \in [I -> Int] /\ e \in [I -> Int] /\ n \in I
            /\ \A i \in I \ {n} : f[i] = e[i]
        BY <1>6, <1>8, <2>1, <2>2
      <3> HIDE DEF I
      <3> QED
        BY <3>1, SumChanged
    <2> QED
      BY <1>2, <1>4, <1>9, <2>4, <2>5 DEF a
  <1>12. CASE PotAppended(a, m, pot)
    <2>1. Len(a) = n + 1 /\ (\A i \in 1..n : a[i] = m[i]) /\ a[n + 1] = pot
      BY <1>12 DEF PotAppended
    <2>2. n + 1 \in 1..(n + 1) /\ \A i \in 1..n : i \in 1..(n + 1)
      BY <1>1
    <2>3. f \in [1..(n + 1) -> Int] /\ (\A i \in 1..n : f[i] = e[i]) /\ f[n + 1] = d
      BY <1>6, <1>7, <2>1, <2>2
    <2>4. SumFunction(f) = SumFunction(e) + f[n + 1]
      BY <1>1, <1>6, <2>3, SumLast
    <2> QED
      BY <1>4, <2>3, <2>4 DEF a
  <1> QED
    BY <1>3, <1>10, <1>11, <1>12

\* Every pot holds something, and fewer players can win it than the one before.
Layered(ps) ==
    /\ \A i \in 1..Len(ps) : ps[i].amount > 0
    /\ \A i, j \in 1..Len(ps) :
          i < j => ps[j].eligible \subseteq ps[i].eligible /\ ps[j].eligible # ps[i].eligible

\* The players E can win every one of the pots.
AllFor(E, ps) == \A i \in 1..Len(ps) : E \subseteq ps[i].eligible

\* A pot that fewer players can win is added as the next layer.
LEMMA AddPotLayers ==
    ASSUME NEW U, NEW m \in Seq(PotOf(U)), NEW pot \in PotOf(U),
           Layered(m), AllFor(pot.eligible, m)
    PROVE  Layered(AddPot(m, pot)) /\ AllFor(pot.eligible, AddPot(m, pot))
  <1> DEFINE n == Len(m)
             a == AddPot(m, pot)
  <1>1. n \in Nat /\ \A i \in 1..n : m[i] \in PotOf(U)
    OBVIOUS
  <1>2. a \in Seq(PotOf(U)) /\ (PotDropped(a, m, pot) \/ PotMerged(a, m, pot) \/ PotAppended(a, m, pot))
    BY AddPotCases
  <1>3. \A i \in 1..n : m[i].amount \in Nat /\ pot.amount \in Nat
    BY <1>1 DEF PotOf
  <1> HIDE DEF a
  <1>4. CASE PotDropped(a, m, pot)
    BY <1>4 DEF PotDropped, a
  <1>5. CASE PotMerged(a, m, pot)
    <2>1. \A i \in 1..n : i = n \/ i \in 1..(n - 1)
      BY <1>1
    <2>2. Len(a) = n /\ n \in 1..n
      BY <1>1, <1>5 DEF PotMerged
    <2>3. \A i \in 1..n : a[i].eligible = m[i].eligible /\ a[i].amount >= m[i].amount
      BY <1>3, <1>5, <2>1 DEF PotMerged
    <2>4. \A i \in 1..n : a[i].amount > 0
      <3>1. \A i \in 1..n : m[i].amount > 0
        BY DEF Layered
      <3>2. \A i \in 1..n : i # n => a[i] = m[i]
        BY <1>5, <2>1 DEF PotMerged
      <3>3. a[n].amount = m[n].amount + pot.amount
        BY <1>5 DEF PotMerged
      <3> QED
        BY <1>3, <2>2, <3>1, <3>2, <3>3
    <2>5. \A i, j \in 1..n :
             i < j => a[j].eligible \subseteq a[i].eligible /\ a[j].eligible # a[i].eligible
      BY <2>3 DEF Layered
    <2>6. Layered(a) /\ AllFor(pot.eligible, a)
      BY <2>2, <2>3, <2>4, <2>5 DEF Layered, AllFor
    <2> QED
      BY <2>6 DEF a
  <1>6. CASE PotAppended(a, m, pot)
    <2>1. \A i \in 1..(n + 1) : i = n + 1 \/ i \in 1..n
      BY <1>1
    <2>2. Len(a) = n + 1 /\ a[n + 1] = pot /\ \A i \in 1..n : a[i] = m[i]
      BY <1>6 DEF PotAppended
    <2>3. \A i \in 1..(n + 1) : a[i].amount > 0
      <3>1. \A i \in 1..n : m[i].amount > 0
        BY DEF Layered
      <3>2. pot.amount > 0
        BY <1>6 DEF PotAppended
      <3> QED
        BY <2>1, <2>2, <3>1, <3>2
    <2>4. ASSUME NEW i \in 1..n
          PROVE  pot.eligible \subseteq m[i].eligible /\ pot.eligible # m[i].eligible
      <3>1. n > 0 /\ n \in 1..n
        BY <1>1
      <3>2. pot.eligible \subseteq m[i].eligible /\ pot.eligible \subseteq m[n].eligible
        BY <3>1 DEF AllFor
      <3>3. m[n].eligible # pot.eligible
        BY <1>6, <3>1 DEF PotAppended
      <3>4. i = n \/ (i < n /\ m[n].eligible \subseteq m[i].eligible)
        BY <1>1, <3>1 DEF Layered
      <3>5. ASSUME pot.eligible = m[i].eligible PROVE FALSE
        <4>1. m[n].eligible \subseteq pot.eligible
          BY <3>4, <3>5
        <4>2. m[n].eligible = pot.eligible
          BY <3>2, <4>1
        <4> QED
          BY <3>3, <4>2
      <3> QED
        BY <3>2, <3>5
    <2>5. ASSUME NEW i \in 1..(n + 1), NEW j \in 1..(n + 1), i < j
          PROVE  a[j].eligible \subseteq a[i].eligible /\ a[j].eligible # a[i].eligible
      <3>1. i \in 1..n
        BY <1>1, <2>5
      <3>2. CASE j = n + 1
        BY <2>2, <2>4, <3>1, <3>2
      <3>3. CASE j \in 1..n
        BY <2>2, <2>5, <3>1, <3>3 DEF Layered
      <3> QED
        BY <2>1, <3>2, <3>3
    <2>6. \A i \in 1..(n + 1) : pot.eligible \subseteq a[i].eligible
      BY <2>1, <2>2, <2>4
    <2>7. Layered(a) /\ AllFor(pot.eligible, a)
      BY <2>2, <2>3, <2>5, <2>6 DEF Layered, AllFor
    <2> QED
      BY <2>7 DEF a
  <1> QED
    BY <1>2, <1>4, <1>5, <1>6

\* A function on an initial interval is a sequence of that length.
LEMMA SequenceOf ==
    ASSUME NEW X, NEW n \in Nat, NEW q \in [1..n -> X]
    PROVE  q \in Seq(X) /\ Len(q) = n
  OBVIOUS

\* MergePots adds its pots one at a time.
MergeRecursion(k, ps) ==
    k = [T \in SUBSET DOMAIN ps |->
            IF T = {} THEN <<>> ELSE AddPot(k[T \ {Max(T)}], ps[Max(T)])]

\* MergePots without the operators of the library
LEMMA MergeUnfolds ==
    ASSUME NEW ps
    PROVE  MergePots(ps) = (CHOOSE k : MergeRecursion(k, ps))[DOMAIN ps]
  BY Zenon DEF MergePots, FoldLeft, MapThenFoldSet, MergeRecursion

MergeSteps(m, ps) ==
    /\ m[0] = <<>>
    /\ \A i \in 1..Len(ps) : m[i] = AddPot(m[i - 1], ps[i])

\* _merge_pots takes its pots from the left, one at a time.
LEMMA MergeFolds ==
    ASSUME NEW U, NEW ps \in Seq(PotOf(U))
    PROVE  \E m \in [0..Len(ps) -> Seq(PotOf(U))] :
              MergeSteps(m, ps) /\ MergePots(ps) = m[Len(ps)]
  <1> DEFINE n == Len(ps)
             V == Seq(PotOf(U))
             G == [p \in (1..n) \X V |-> AddPot(p[2], ps[p[1]])]
             k == CHOOSE k : MergeRecursion(k, ps)
  <1>1. n \in Nat /\ DOMAIN ps = 1..n /\ \A i \in 1..n : ps[i] \in PotOf(U)
    OBVIOUS
  <1>2. <<>> \in V
    OBVIOUS
  <1>3. \A i \in 1..n, v \in V : G[<<i, v>>] = AddPot(v, ps[i])
    OBVIOUS
  <1>4. MergePots(ps) = k[1..n]
    BY <1>1, MergeUnfolds
  <1>5. ASSUME NEW T \in SUBSET (1..n), T # {} PROVE Max(T) \in 1..n
    BY <1>1, <1>5, IndexSets
  <1>6. \A i \in 1..n, v \in V : AddPot(v, ps[i]) \in V
    BY <1>1, AddPotCases
  <1>7. G \in [(1..n) \X V -> V]
    <2>1. \A p \in (1..n) \X V : p[1] \in 1..n /\ p[2] \in V
      OBVIOUS
    <2> HIDE DEF n, V
    <2> QED
      BY <1>6, <2>1
  <1> HIDE DEF n, V, G
  <1>8. PICK h : FoldsLeft(h, n, V, <<>>, G)
    BY <1>1, <1>2, <1>7, FoldLeftExists
  <1>9. MergeRecursion(h, ps)
    <2>1. h \in [SUBSET (1..n) -> V] /\ h[{}] = <<>>
      BY <1>8 DEF FoldsLeft
    <2>2. ASSUME NEW T \in SUBSET (1..n), T # {}
          PROVE  h[T] = AddPot(h[T \ {Max(T)}], ps[Max(T)])
      <3>1. h[T \ {Max(T)}] \in V /\ Max(T) \in 1..n
        BY <1>5, <2>1, <2>2
      <3>2. h[T] = G[<<Max(T), h[T \ {Max(T)}]>>]
        BY <1>8, <2>2 DEF FoldsLeft
      <3> QED
        BY <1>3, <3>1, <3>2
    <2> QED
      BY <1>1, <2>1, <2>2 DEF MergeRecursion
  <1>10. MergeRecursion(k, ps)
    BY <1>9
  <1> HIDE DEF k
  <1>11. k[{}] = <<>>
    BY <1>1, <1>10 DEF MergeRecursion
  <1>12. ASSUME NEW T \in SUBSET (1..n), T # {}, k[T \ {Max(T)}] \in V
         PROVE  k[T] = G[<<Max(T), k[T \ {Max(T)}]>>]
    <2>1. k[T] = AddPot(k[T \ {Max(T)}], ps[Max(T)])
      BY <1>1, <1>10, <1>12 DEF MergeRecursion
    <2> QED
      BY <1>3, <1>5, <1>12, <2>1
  <1>13. PICK m : FoldSteps(m, k, n, V, <<>>, G)
    <2>1. FollowsFold(k, n, V, <<>>, G)
      BY <1>11, <1>12 DEF FollowsFold
    <2> QED
      BY <1>1, <1>2, <1>7, <2>1, FoldPrefixes
  <1>14. ASSUME NEW i \in 1..n PROVE m[i] = AddPot(m[i - 1], ps[i])
    <2>1. i - 1 \in 0..n
      BY <1>1
    <2>2. m[i] = G[<<i, m[i - 1]>>] /\ m[i - 1] \in V
      BY <1>13, <2>1 DEF FoldSteps
    <2> QED
      BY <1>3, <2>2
  <1>15. MergeSteps(m, ps)
    BY <1>13, <1>14 DEF MergeSteps, FoldSteps, n
  <1>16. MergePots(ps) = m[Len(ps)] /\ m \in [0..Len(ps) -> Seq(PotOf(U))]
    BY <1>4, <1>13 DEF FoldSteps, n, V
  <1> QED
    BY <1>15, <1>16

-----------------------------------------------------------------------------
(* Pots: levels *)

\* What everybody together has paid, each up to the given level
Capped(c, level) == SumFunction([u \in DOMAIN c |-> MinOf(c[u], level)])

\* What is paid up to a level is a natural: nothing at level 0, and all there is
\* at a level nobody has paid more than.
LEMMA CappedIs ==
    ASSUME NEW D, IsFiniteSet(D), NEW c \in [D -> Nat], NEW level \in Nat
    PROVE  /\ Capped(c, level) \in Nat
           /\ level = 0 => Capped(c, level) = 0
           /\ (\A u \in D : c[u] <= level) => Capped(c, level) = SumFunction(c)
  <1> DEFINE f == [u \in D |-> MinOf(c[u], level)]
  <1>1. Capped(c, level) = SumFunction(f)
    BY DEF Capped
  <1>2. f \in [D -> Nat] /\ f \in [D -> Int] /\ c \in [D -> Int]
    BY DEF MinOf
  <1>3. \A u \in D : (level = 0 => f[u] = 0) /\ (c[u] <= level => f[u] = c[u])
    BY DEF MinOf
  <1> HIDE DEF f
  <1>4. SumFunction(f) = SumFunctionOnSet(f, D) /\ SumFunction(c) = SumFunctionOnSet(c, D)
    BY <1>2, SumFunctionIs
  <1>5. SumFunctionOnSet(f, D) \in Nat
    BY <1>2, SumNat
  <1>6. level = 0 => SumFunctionOnSet(f, D) = 0
    BY <1>2, <1>3, SumZero
  <1>7. ASSUME \A u \in D : c[u] <= level
        PROVE  SumFunctionOnSet(f, D) = SumFunctionOnSet(c, D)
    <2>1. \A u \in D : f[u] = c[u]
      BY <1>3, <1>7
    <2> QED
      BY <1>2, <2>1, SumAgree
  <1> QED
    BY <1>1, <1>4, <1>5, <1>6, <1>7

\* The pot of one level holds what was paid between it and the level below.
PotBetween(pot, c, A, prev, level) ==
    /\ pot \in PotOf(DOMAIN c \cap A)
    /\ pot.amount = Capped(c, level) - Capped(c, prev)
    /\ pot.eligible = {u \in DOMAIN c \cap A : c[u] >= level}

\* The pot that calculate_pots makes of a level is PotBetween it and the last.
LEMMA PotAtIs ==
    ASSUME NEW D, IsFiniteSet(D), NEW c \in [D -> Nat], NEW A,
           NEW prev \in Nat, NEW level \in Nat, prev <= level
    PROVE  PotBetween(PotAt(c, A, prev, level), c, A, prev, level)
  <1> DEFINE f == [u \in D |-> MinOf(c[u], level)]
             e == [u \in D |-> MinOf(c[u], prev)]
             s == [u \in D |-> Slice(c[u], prev, level)]
             pot == PotAt(c, A, prev, level)
  <1>1. Capped(c, level) = SumFunction(f) /\ Capped(c, prev) = SumFunction(e)
    BY DEF Capped
  <1>2. f \in [D -> Int] /\ e \in [D -> Int] /\ s \in [D -> Int] /\ s \in [D -> Nat]
    BY DEF MinOf, Slice
  <1>3. \A u \in D : f[u] = s[u] + e[u]
    BY DEF MinOf, Slice
  <1>4. pot = [amount |-> SumFunction(s), eligible |-> {u \in D \cap A : c[u] >= level}]
    BY DEF PotAt
  <1> HIDE DEF f, e, s
  <1>5. /\ SumFunction(f) = SumFunctionOnSet(f, D)
        /\ SumFunction(e) = SumFunctionOnSet(e, D)
        /\ SumFunction(s) = SumFunctionOnSet(s, D)
    BY <1>2, SumFunctionIs
  <1>6. SumFunctionOnSet(f, D) = SumFunctionOnSet(s, D) + SumFunctionOnSet(e, D)
    BY <1>2, <1>3, SumPlus
  <1>7. SumFunctionOnSet(s, D) \in Nat
    BY <1>2, SumNat
  <1>8. SumFunctionOnSet(e, D) \in Int
    BY <1>2, SumStep
  <1>9. pot.amount = Capped(c, level) - Capped(c, prev)
    BY <1>1, <1>4, <1>5, <1>6, <1>7, <1>8
  <1>10. pot \in PotOf(D \cap A)
    BY <1>4, <1>5, <1>7 DEF PotOf
  <1> QED
    BY <1>4, <1>9, <1>10 DEF PotBetween

\* The levels are what somebody has paid, in ascending order.
LEMMA LevelsAre ==
    ASSUME NEW D, IsFiniteSet(D), NEW c \in [D -> Nat]
    PROVE  /\ Levels(c) \in Seq(Nat)
           /\ \A i, j \in 1..Len(Levels(c)) : i < j => Levels(c)[i] < Levels(c)[j]
           /\ \A u \in D : \E i \in 1..Len(Levels(c)) : Levels(c)[i] = c[u]
  <1> DEFINE S == Range(c)
             n == Cardinality(S)
             lv == Levels(c)
  <1>1. S \in SUBSET Nat /\ \A u \in D : c[u] \in S
    BY DEF Range
  <1>2. IsFiniteSet(S)
    <2>1. c \in Surjection(D, S)
      BY DEF Surjection, Range
    <2> HIDE DEF S
    <2> QED
      BY <2>1, FS_Surjection
  <1>3. lv = Ascending(S)
    BY DEF Levels
  <1> HIDE DEF S, lv
  <1>4. /\ n \in Nat /\ lv \in [1..n -> S]
        /\ \A i, j \in 1..n : i < j => lv[i] < lv[j]
        /\ \A x \in S : \E i \in 1..n : lv[i] = x
    <2>1. S \in SUBSET Int
      BY <1>1
    <2> QED
      BY <1>2, <1>3, <2>1, AscendingIs
  <1> HIDE DEF n
  <1>5. lv \in Seq(Nat) /\ Len(lv) = n
    <2>1. lv \in [1..n -> Nat]
      BY <1>1, <1>4
    <2> QED
      BY <1>4, <2>1, SequenceOf
  <1>6. \A u \in D : \E i \in 1..n : lv[i] = c[u]
    BY <1>1, <1>4
  <1> QED
    BY <1>4, <1>5, <1>6 DEF lv

\* What the pots of a hand are: ps against the contributions c and the players
\* A who are still in.
PotsFor(ps, c, A) ==
    /\ ps \in Seq(PotOf(DOMAIN c \cap A))
    /\ Layered(ps)
    /\ Chips(ps, SUBSET DOMAIN c) = SumFunction(c)
    /\ \A p \in DOMAIN c \cap A :
          Chips(ps, {E \in SUBSET DOMAIN c : p \in E}) = Capped(c, c[p])

\* calculate_pots: every pot holds chips, the pots together hold all that was
\* paid, and those a player can win hold what he has matched of everybody's chips.
LEMMA PotsAre ==
    ASSUME NEW D, IsFiniteSet(D), NEW c \in [D -> Nat], NEW A
    PROVE  PotsFor(CalculatePots(c, A), c, A)
  <1> DEFINE lv == Levels(c)
             n == Len(lv)
             U == D \cap A
             raw == RawPots(c, A)
             L(i) == IF i = 0 THEN 0 ELSE lv[i]
             Reach(i) == {u \in U : c[u] >= L(i)}
             With(p) == {E \in SUBSET D : p \in E}
  <1>1. lv \in Seq(Nat) /\ \A i, j \in 1..n : i < j => lv[i] < lv[j]
    BY LevelsAre
  <1>2. \A u \in D : \E i \in 1..n : lv[i] = c[u]
    BY LevelsAre
  <1> HIDE DEF lv
  <1>3. n \in Nat /\ \A i \in 1..n : lv[i] \in Nat
    BY <1>1
  <1>4. /\ raw = [i \in 1..n |-> PotAt(c, A, IF i = 1 THEN 0 ELSE lv[i - 1], lv[i])]
    BY DEF RawPots, lv
  <1>5. ASSUME NEW i \in 1..n
        PROVE  /\ i - 1 \in Nat /\ L(i - 1) \in Nat /\ L(i) \in Nat /\ L(i - 1) <= L(i)
               /\ raw[i] = PotAt(c, A, L(i - 1), L(i))
               /\ L(i) = lv[i]
    <2>1. CASE i = 1
      <3>1. L(i - 1) = 0 /\ L(i) = lv[i] /\ L(i) \in Nat
        BY <1>3, <2>1
      <3>2. raw[i] = PotAt(c, A, 0, lv[i])
        BY <1>4, <2>1
      <3> QED
        BY <2>1, <3>1, <3>2
    <2>2. CASE i # 1
      <3>1. i - 1 \in 1..n /\ i - 1 < i /\ i # 0 /\ i - 1 # 0
        BY <1>3, <2>2
      <3>2. L(i - 1) = lv[i - 1] /\ L(i) = lv[i]
        BY <3>1
      <3>3. lv[i - 1] \in Nat /\ lv[i] \in Nat /\ lv[i - 1] < lv[i]
        BY <1>1, <1>3, <3>1
      <3>4. raw[i] = PotAt(c, A, lv[i - 1], lv[i])
        BY <1>4, <2>2
      <3> QED
        BY <3>1, <3>2, <3>3, <3>4
    <2> QED
      BY <2>1, <2>2
  <1> HIDE DEF n, L, raw
  <1>6. ASSUME NEW i \in 1..n
        PROVE  /\ raw[i] \in PotOf(U)
               /\ raw[i].amount = Capped(c, L(i)) - Capped(c, L(i - 1))
               /\ raw[i].eligible = Reach(i)
    <2> DEFINE a == L(i - 1)
               b == L(i)
    <2>1. a \in Nat /\ b \in Nat /\ a <= b /\ raw[i] = PotAt(c, A, a, b)
      BY <1>5
    <2>2. Reach(i) = {u \in D \cap A : c[u] >= b}
      OBVIOUS
    <2> HIDE DEF a, b, Reach
    <2>3. PotBetween(PotAt(c, A, a, b), c, A, a, b)
      BY <2>1, PotAtIs
    <2>4. PotBetween(raw[i], c, A, a, b)
      BY <2>1, <2>3
    <2>5. DOMAIN c = D
      OBVIOUS
    <2>6. raw[i] \in PotOf(U) /\ raw[i].amount = Capped(c, b) - Capped(c, a)
      BY <2>4, <2>5 DEF PotBetween
    <2>7. raw[i].eligible = Reach(i)
      BY <2>2, <2>4, <2>5 DEF PotBetween
    <2> QED
      BY <2>6, <2>7 DEF a, b
  <1>7. raw \in Seq(PotOf(U)) /\ Len(raw) = n
    <2>1. raw \in [1..n -> PotOf(U)]
      BY <1>4, <1>6
    <2> QED
      BY <1>3, <2>1, SequenceOf
  <1>8. PICK m \in [0..n -> Seq(PotOf(U))] : MergeSteps(m, raw) /\ MergePots(raw) = m[n]
    BY <1>7, MergeFolds
  <1>9. m[0] = <<>> /\ \A i \in 1..n : m[i] = AddPot(m[i - 1], raw[i])
    BY <1>7, <1>8 DEF MergeSteps
  <1> DEFINE Ok(i) == /\ Layered(m[i])
                      /\ i > 0 => AllFor(Reach(i), m[i])
                      /\ Chips(m[i], SUBSET D) = Capped(c, L(i))
                      /\ \A p \in U : Chips(m[i], With(p)) = Capped(c, MinOf(L(i), c[p]))
             N == {i \in Nat : i <= n => Ok(i)}
  <1>10. 0 \in N
    <2>1. ASSUME NEW F PROVE Chips(<<>>, F) = 0
      <3> DEFINE f == [i \in DOMAIN <<>> |-> IF <<>>[i].eligible \in F THEN <<>>[i].amount ELSE 0]
      <3>1. f \in [{} -> Int] /\ Chips(<<>>, F) = SumFunction(f)
        BY DEF Chips
      <3> HIDE DEF f
      <3>2. SumFunction(f) = SumFunctionOnSet(f, {})
        BY <3>1, SumFunctionIs
      <3>3. IsFiniteSet({})
        BY FS_EmptySet
      <3>4. SumFunctionOnSet(f, {}) = 0
        BY <3>1, <3>3, SumZero
      <3> QED
        BY <3>1, <3>2, <3>4
    <2>2. L(0) = 0 /\ \A p \in U : MinOf(0, c[p]) = 0
      BY DEF L, MinOf
    <2>3. Capped(c, 0) = 0
      BY CappedIs
    <2>4. Layered(<<>>)
      BY DEF Layered
    <2>5. Chips(m[0], SUBSET D) = Capped(c, L(0))
      BY <1>9, <2>1, <2>2, <2>3
    <2>6. \A p \in U : Chips(m[0], With(p)) = Capped(c, MinOf(L(0), c[p]))
      BY <1>9, <2>1, <2>2, <2>3
    <2> HIDE DEF With
    <2> QED
      BY <1>9, <2>4, <2>5, <2>6
  <1>11. ASSUME NEW i \in Nat, i \in N PROVE i + 1 \in N
    <2>1. CASE i + 1 <= n
      <3> DEFINE j == i + 1
                 q == m[i]
                 pot == raw[j]
      <3>1. j \in 1..n /\ j - 1 = i /\ i \in 0..n
        BY <1>3, <2>1
      <3>2. m[j] = AddPot(q, pot) /\ q \in Seq(PotOf(U))
        BY <1>8, <1>9, <3>1
      <3>3. /\ pot \in PotOf(U) /\ pot.amount = Capped(c, L(j)) - Capped(c, L(i))
            /\ pot.eligible = Reach(j)
            /\ L(i) \in Nat /\ L(j) \in Nat /\ L(i) <= L(j) /\ L(j) = lv[j]
        BY <1>5, <1>6, <3>1
      <3>4. Ok(i)
        <4> HIDE DEF Ok
        <4> QED
          BY <1>11, <3>1
      <3>5. Capped(c, L(i)) \in Nat /\ Capped(c, L(j)) \in Nat
        BY <3>3, CappedIs
      <3> HIDE DEF j, q, pot
      <3>6. AllFor(pot.eligible, q)
        <4>1. CASE i = 0
          BY <1>9, <4>1 DEF AllFor, q
        <4>2. CASE i # 0
          <5>1. AllFor(Reach(i), q)
            BY <3>4, <4>2 DEF q
          <5>2. Reach(j) \subseteq Reach(i)
            BY <3>3
          <5> HIDE DEF Reach
          <5> QED
            BY <3>3, <5>1, <5>2 DEF AllFor
        <4> QED
          BY <4>1, <4>2
      <3>7. Layered(m[j]) /\ AllFor(Reach(j), m[j])
        <4>1. Layered(q)
          BY <3>4 DEF q
        <4> HIDE DEF Reach
        <4>2. Layered(AddPot(q, pot)) /\ AllFor(pot.eligible, AddPot(q, pot))
          BY <3>2, <3>3, <3>6, <4>1, AddPotLayers
        <4>3. m[j] = AddPot(q, pot) /\ pot.eligible = Reach(j)
          BY <3>2, <3>3
        <4> QED
          BY <4>2, <4>3, Zenon
      <3>8. \A F : Chips(m[j], F) = Chips(q, F) + (IF pot.eligible \in F THEN pot.amount ELSE 0)
        <4>1. pot \in PotOf(U) /\ q \in Seq(PotOf(U))
          BY <3>2, <3>3
        <4>2. ASSUME NEW F
              PROVE  Chips(AddPot(q, pot), F)
                        = Chips(q, F) + (IF pot.eligible \in F THEN pot.amount ELSE 0)
          <5> HIDE DEF U
          <5> QED
            BY <4>1, AddPotChips
        <4> QED
          BY <3>2, <4>2
      <3>9. Chips(m[j], SUBSET D) = Capped(c, L(j))
        <4>1. Chips(q, SUBSET D) = Capped(c, L(i))
          BY <3>4 DEF q
        <4>2. pot.eligible \in SUBSET D
          BY <3>3
        <4>3. Chips(m[j], SUBSET D) = Chips(q, SUBSET D) + pot.amount
          BY <3>8, <4>2
        <4> QED
          BY <3>3, <3>5, <4>1, <4>3
      <3>10. ASSUME NEW p \in U
             PROVE  Chips(m[j], With(p)) = Capped(c, MinOf(L(j), c[p]))
        <4>1. Chips(q, With(p)) = Capped(c, MinOf(L(i), c[p]))
          BY <3>4 DEF q
        <4>2. Chips(m[j], With(p))
                 = Chips(q, With(p)) + (IF pot.eligible \in With(p) THEN pot.amount ELSE 0)
          <5> HIDE DEF With
          <5> QED
            BY <3>8
        <4>3. pot.eligible \in With(p) <=> c[p] >= L(j)
          BY <3>3
        <4>4. c[p] \in Nat
          OBVIOUS
        <4> HIDE DEF With
        <4>5. CASE c[p] >= L(j)
          <5>1. MinOf(L(i), c[p]) = L(i) /\ MinOf(L(j), c[p]) = L(j)
            BY <3>3, <4>4, <4>5 DEF MinOf
          <5>2. Chips(q, With(p)) = Capped(c, L(i))
            BY <4>1, <5>1, Zenon
          <5>3. Chips(m[j], With(p)) = Capped(c, L(j))
            <6>1. Chips(m[j], With(p)) = Chips(q, With(p)) + pot.amount
              BY <4>2, <4>3, <4>5
            <6> QED
              BY <3>3, <3>5, <5>2, <6>1
          <5> QED
            BY <5>1, <5>3, Zenon
        <4>6. CASE c[p] < L(j)
          <5>1. c[p] <= L(i)
            <6>1. PICK h \in 1..n : lv[h] = c[p]
              BY <1>2
            <6>2. lv[h] < lv[j] /\ h \in Nat /\ j \in Nat
              BY <1>3, <3>1, <3>3, <4>6, <6>1
            <6>3. h < j
              <7>1. ~(j < h) /\ j # h
                BY <1>1, <1>3, <3>1, <6>1, <6>2
              <7> QED
                BY <6>2, <7>1
            <6>4. h <= i /\ i \in 1..n
              BY <1>3, <3>1, <6>1, <6>2, <6>3 DEF j
            <6>5. L(i) = lv[i]
              BY <6>4 DEF L
            <6>6. h = i \/ lv[h] < lv[i]
              BY <1>1, <6>1, <6>4
            <6>7. lv[h] \in Nat /\ lv[i] \in Nat
              BY <1>3, <6>1, <6>4
            <6> QED
              BY <6>1, <6>5, <6>6, <6>7
          <5>2. MinOf(L(i), c[p]) = c[p] /\ MinOf(L(j), c[p]) = c[p]
            BY <3>3, <4>4, <4>6, <5>1 DEF MinOf
          <5>3. Capped(c, c[p]) \in Nat
            BY <4>4, CappedIs
          <5>4. Chips(q, With(p)) = Capped(c, c[p])
            BY <4>1, <5>2, Zenon
          <5>5. Chips(m[j], With(p)) = Capped(c, c[p])
            <6>1. pot.eligible \notin With(p)
              BY <3>3, <4>3, <4>4, <4>6
            <6>2. Chips(m[j], With(p)) = Chips(q, With(p)) + 0
              BY <4>2, <6>1
            <6> QED
              BY <5>3, <5>4, <6>2
          <5> QED
            BY <5>2, <5>5, Zenon
        <4> QED
          BY <3>3, <4>4, <4>5, <4>6
      <3>11. Ok(j)
        <4> HIDE DEF With, Reach
        <4> QED
          BY <3>7, <3>9, <3>10, Zenon
      <3> QED
        <4> HIDE DEF Ok
        <4> QED
          BY <3>11 DEF j
    <2> QED
      BY <2>1
  <1>12. Nat \subseteq N
    <2> HIDE DEF N
    <2> QED
      BY <1>10, <1>11, NatSetInduction
  <1>13. Ok(n)
    <2>1. n \in N /\ n <= n
      <3> HIDE DEF Ok
      <3> QED
        BY <1>3, <1>12
    <2> HIDE DEF Ok
    <2> QED
      BY <2>1
  <1>14. \A u \in D : c[u] <= L(n) /\ L(n) \in Nat
    <2>1. ASSUME NEW u \in D PROVE c[u] <= L(n) /\ L(n) \in Nat
      <3>1. PICK i \in 1..n : lv[i] = c[u]
        BY <1>2
      <3>2. n \in 1..n /\ L(n) = lv[n] /\ (i = n \/ i < n)
        BY <1>3, <3>1 DEF L
      <3>3. lv[i] \in Nat /\ lv[n] \in Nat /\ (i = n \/ lv[i] < lv[n])
        BY <1>1, <1>3, <3>1, <3>2
      <3> QED
        BY <3>1, <3>2, <3>3
    <2> QED
      BY <2>1
  <1>15. L(n) \in Nat
    BY <1>3 DEF L
  <1>16. Capped(c, L(n)) = SumFunction(c)
    <2> DEFINE top == L(n)
    <2>1. top \in Nat /\ \A u \in D : c[u] <= top
      BY <1>14, <1>15
    <2> HIDE DEF top
    <2>2. Capped(c, top) = SumFunction(c)
      BY <2>1, CappedIs
    <2> QED
      BY <2>2 DEF top
  <1>17. \A p \in U : MinOf(L(n), c[p]) = c[p]
    BY <1>14 DEF MinOf
  <1>18. m[n] = CalculatePots(c, A) /\ m[n] \in Seq(PotOf(U))
    <2>1. n \in 0..n
      BY <1>3
    <2>2. m[n] \in Seq(PotOf(U))
      <3> HIDE DEF U
      <3> QED
        BY <1>8, <2>1
    <2>3. m[n] = CalculatePots(c, A)
      BY <1>8, Zenon DEF CalculatePots, raw
    <2> QED
      BY <2>2, <2>3
  <1>19. \A p \in U : Chips(m[n], With(p)) = Capped(c, c[p])
    <2> HIDE DEF With
    <2> QED
      BY <1>13, <1>17
  <1>20. DOMAIN c = D
    OBVIOUS
  <1> QED
    BY <1>13, <1>16, <1>18, <1>19, <1>20 DEF PotsFor

\* All the chips in the pots
LEMMA PotTotalIs ==
    ASSUME NEW U, NEW ps \in Seq(PotOf(U)), NEW F, SUBSET U \subseteq F
    PROVE  PotTotal(ps) = Chips(ps, F)
  <1>1. \A i \in DOMAIN ps : ps[i] \in PotOf(U)
    OBVIOUS
  <1>2. \A i \in DOMAIN ps : ps[i].eligible \in F
    BY <1>1 DEF PotOf
  <1>3. [i \in DOMAIN ps |-> ps[i].amount]
           = [i \in DOMAIN ps |-> IF ps[i].eligible \in F THEN ps[i].amount ELSE 0]
    BY <1>2
  <1> QED
    BY <1>3, Zenon DEF PotTotal, Chips

-----------------------------------------------------------------------------
(* Paying the pots out *)

\* Finite sets as sequences
LEMMA SetToSeqIs ==
    ASSUME NEW S, IsFiniteSet(S)
    PROVE  /\ SetToSeq(S) \in Seq(S)
           /\ Len(SetToSeq(S)) = Cardinality(S)
           /\ ToSet(SetToSeq(S)) = S
           /\ IsInjective(SetToSeq(S))
  <1> DEFINE n == Cardinality(S)
             q == SetToSeq(S)
  <1>1. n \in Nat /\ ExistsBijection(1..n, S)
    BY FS_CardinalityType
  <1>2. \E f \in [1..n -> S] : IsInjective(f)
    BY <1>1 DEF ExistsBijection, Bijection, Injection
  <1>3. q \in [1..n -> S] /\ IsInjective(q)
    BY <1>2, Zenon DEF SetToSeq
  <1> HIDE DEF n, q
  <1>4. q \in Seq(S) /\ Len(q) = n
    BY <1>1, <1>3, SequenceOf
  <1>5. q \in Injection(1..n, S)
    BY <1>3 DEF Injection
  <1>6. q \in Surjection(1..n, S)
    <2>1. IsFiniteSet(1..n) /\ Cardinality(1..n) = n
      BY <1>1, FS_Interval
    <2>2. Cardinality(1..n) = Cardinality(S)
      BY <2>1 DEF n
    <2> QED
      BY <1>5, <2>2, FS_Injection
  <1>7. ToSet(q) = S
    BY <1>3, <1>6 DEF Surjection, ToSet
  <1> QED
    BY <1>3, <1>4, <1>7 DEF n, q

\* A sequence without repetitions is as long as the set of its members is large.
LEMMA InjectiveLength ==
    ASSUME NEW X, NEW q \in Seq(X), IsInjective(q)
    PROVE  IsFiniteSet(ToSet(q)) /\ Cardinality(ToSet(q)) = Len(q)
  <1> DEFINE n == Len(q)
             S == ToSet(q)
  <1>1. n \in Nat /\ DOMAIN q = 1..n
    OBVIOUS
  <1>2. q \in Surjection(1..n, S) /\ q \in Injection(1..n, S)
    <2>1. q = [i \in 1..n |-> q[i]]
      BY <1>1
    <2>2. \A i \in 1..n : q[i] \in S
      BY <1>1 DEF ToSet
    <2>3. q \in [1..n -> S]
      BY <2>1, <2>2
    <2>4. \A x \in S : \E i \in 1..n : q[i] = x
      BY <1>1 DEF ToSet
    <2> HIDE DEF n, S
    <2> QED
      BY <2>3, <2>4 DEF Surjection, Injection
  <1>3. IsFiniteSet(1..n) /\ Cardinality(1..n) = n
    BY <1>1, FS_Interval
  <1> HIDE DEF n, S
  <1>4. IsFiniteSet(S) /\ Cardinality(S) = Cardinality(1..n)
    BY <1>2, <1>3, FS_Surjection
  <1> QED
    BY <1>3, <1>4 DEF n, S

\* The sum of a constant
LEMMA SumConst ==
    ASSUME NEW D, NEW f \in [D -> Int], NEW S \in SUBSET D, IsFiniteSet(S),
           NEW d \in Int, \A x \in S : f[x] = d
    PROVE  SumFunctionOnSet(f, S) = d * Cardinality(S)
  <1> DEFINE Good == {T \in SUBSET S : SumFunctionOnSet(f, T) = d * Cardinality(T)}
  <1>1. ASSUME NEW T \in SUBSET S, \A x \in T : T \ {x} \in Good PROVE T \in Good
    <2>1. IsFiniteSet(T) /\ T \in SUBSET D /\ Cardinality(T) \in Nat
      BY FS_Subset, FS_CardinalityType
    <2>2. CASE T = {}
      <3>1. SumFunctionOnSet(f, T) = 0
        BY <2>1, <2>2, SumStep
      <3>2. Cardinality(T) = 0
        BY <2>1, <2>2, FS_EmptySet
      <3> QED
        BY <3>1, <3>2
    <2>3. ASSUME NEW x \in T PROVE SumFunctionOnSet(f, T) = d * Cardinality(T)
      <3> DEFINE R == T \ {x}
                 k == Cardinality(R)
      <3>1. SumFunctionOnSet(f, T) = f[x] + SumFunctionOnSet(f, R)
        BY <2>1, SumStep
      <3>2. SumFunctionOnSet(f, R) = d * k
        BY <1>1
      <3>3. k = Cardinality(T) - 1
        BY <2>1, FS_RemoveElement
      <3>4. f[x] = d
        OBVIOUS
      <3> HIDE DEF R, k
      <3>5. k \in Int /\ Cardinality(T) = k + 1
        BY <2>1, <3>3
      <3>6. d * (k + 1) = d + d * k
        BY <3>5
      <3> QED
        BY <3>1, <3>2, <3>4, <3>5, <3>6
    <2> QED
      BY <2>2, <2>3
  <1>2. S \in Good
    <2> HIDE DEF Good
    <2> QED
      BY <1>1, SubsetsInduction
  <1> QED
    BY <1>2

\* A double sum, by rows and by columns
LEMMA SumSwap ==
    ASSUME NEW A, IsFiniteSet(A), NEW B, IsFiniteSet(B), NEW F \in [A -> [B -> Int]]
    PROVE  SumFunction([a \in A |-> SumFunction(F[a])])
              = SumFunction([b \in B |-> SumFunction([a \in A |-> F[a][b]])])
  <1> DEFINE Row == [a \in A |-> SumFunctionOnSet(F[a], B)]
             Col(b) == [a \in A |-> F[a][b]]
             Cols(T) == [b \in B |-> SumFunctionOnSet(Col(b), T)]
             Good == {T \in SUBSET A : SumFunctionOnSet(Row, T) = SumFunctionOnSet(Cols(T), B)}
  <1>1. \A a \in A : F[a] \in [B -> Int]
    OBVIOUS
  <1>2. Row \in [A -> Int]
    <2>1. \A a \in A : SumFunctionOnSet(F[a], B) \in Int
      BY <1>1, SumStep
    <2> QED
      BY <2>1
  <1>3. ASSUME NEW b \in B PROVE Col(b) \in [A -> Int]
    BY <1>1
  <1>4. ASSUME NEW T \in SUBSET A
        PROVE  /\ IsFiniteSet(T) /\ Cols(T) \in [B -> Int]
               /\ T = {} => \A b \in B : Cols(T)[b] = 0
               /\ \A x \in T, b \in B : Cols(T)[b] = F[x][b] + Cols(T \ {x})[b]
    <2>1. IsFiniteSet(T)
      BY FS_Subset
    <2>2. ASSUME NEW b \in B
          PROVE  /\ SumFunctionOnSet(Col(b), T) \in Int
                 /\ T = {} => SumFunctionOnSet(Col(b), T) = 0
                 /\ \A x \in T : SumFunctionOnSet(Col(b), T)
                                    = F[x][b] + SumFunctionOnSet(Col(b), T \ {x})
      <3> DEFINE f == Col(b)
      <3>1. f \in [A -> Int] /\ \A x \in T : f[x] = F[x][b]
        BY <1>3
      <3> HIDE DEF f
      <3>2. /\ SumFunctionOnSet(f, T) \in Int
            /\ T = {} => SumFunctionOnSet(f, T) = 0
            /\ \A x \in T : SumFunctionOnSet(f, T) = f[x] + SumFunctionOnSet(f, T \ {x})
        BY <2>1, <3>1, SumStep
      <3>3. \A x \in T : SumFunctionOnSet(f, T) = F[x][b] + SumFunctionOnSet(f, T \ {x})
        BY <3>1, <3>2
      <3> QED
        BY <3>2, <3>3 DEF f
    <2> HIDE DEF Col
    <2> QED
      BY <2>1, <2>2
  <1> HIDE DEF Cols, Row, Col
  <1>5. ASSUME NEW T \in SUBSET A, \A x \in T : T \ {x} \in Good PROVE T \in Good
    <2>1. CASE T = {}
      <3>1. SumFunctionOnSet(Row, T) = 0
        BY <1>2, <1>4, <2>1, SumStep
      <3>2. SumFunctionOnSet(Cols(T), B) = 0
        <4> DEFINE f == Cols(T)
        <4>1. f \in [B -> Int] /\ \A b \in B : f[b] = 0
          BY <1>4, <2>1
        <4> HIDE DEF f
        <4>2. SumFunctionOnSet(f, B) = 0
          BY <4>1, SumZero
        <4> QED
          BY <4>2 DEF f
      <3> QED
        BY <3>1, <3>2
    <2>2. ASSUME NEW x \in T PROVE SumFunctionOnSet(Row, T) = SumFunctionOnSet(Cols(T), B)
      <3> DEFINE R == T \ {x}
                 h == Cols(T)
                 e == Cols(R)
                 f == F[x]
      <3>1. SumFunctionOnSet(Row, T) = Row[x] + SumFunctionOnSet(Row, R)
        BY <1>2, <1>4, SumStep
      <3>2. Row[x] = SumFunctionOnSet(f, B)
        BY DEF Row
      <3>3. SumFunctionOnSet(Row, R) = SumFunctionOnSet(e, B)
        BY <2>2, <1>5
      <3>4. R \in SUBSET A
        OBVIOUS
      <3>5. f \in [B -> Int] /\ e \in [B -> Int] /\ h \in [B -> Int]
        BY <1>1, <1>4, <3>4
      <3>6. \A b \in B : h[b] = f[b] + e[b]
        BY <1>4
      <3> HIDE DEF f, e, h, R
      <3>7. SumFunctionOnSet(h, B) = SumFunctionOnSet(f, B) + SumFunctionOnSet(e, B)
        BY <3>5, <3>6, SumPlus
      <3> QED
        BY <3>1, <3>2, <3>3, <3>7 DEF h
    <2> QED
      BY <2>1, <2>2
  <1>6. A \in Good
    <2> HIDE DEF Good
    <2> QED
      BY <1>5, SubsetsInduction
  <1>7. \A a \in A : SumFunction(F[a]) = SumFunctionOnSet(F[a], B)
    BY <1>1, SumFunctionIs
  <1>8. [a \in A |-> SumFunction(F[a])] = Row
    BY <1>7 DEF Row
  <1>9. \A b \in B : SumFunction(Col(b)) = SumFunctionOnSet(Col(b), A)
    <2>1. ASSUME NEW b \in B PROVE SumFunction(Col(b)) = SumFunctionOnSet(Col(b), A)
      BY <1>3, SumFunctionIs
    <2> QED
      BY <2>1
  <1>10. [b \in B |-> SumFunction(Col(b))] = Cols(A)
    BY <1>9 DEF Cols
  <1>11. SumFunction(Row) = SumFunctionOnSet(Row, A)
    BY <1>2, SumFunctionIs
  <1>12. SumFunction(Cols(A)) = SumFunctionOnSet(Cols(A), B)
    <2>1. Cols(A) \in [B -> Int]
      BY <1>4
    <2> QED
      BY <2>1, SumFunctionIs
  <1>13. [b \in B |-> SumFunction([a \in A |-> F[a][b]])] = Cols(A)
    BY <1>10 DEF Col
  <1>14. SumFunctionOnSet(Row, A) = SumFunctionOnSet(Cols(A), B)
    BY <1>6
  <1>15. SumFunction([a \in A |-> SumFunction(F[a])]) = SumFunction(Row)
    BY <1>8, Zenon
  <1>16. SumFunction([b \in B |-> SumFunction([a \in A |-> F[a][b]])]) = SumFunction(Cols(A))
    BY <1>13, Zenon
  <1> QED
    BY <1>11, <1>12, <1>14, <1>15, <1>16

\* The winners of a pot share it out to the last chip.
WinnersOf(w, S) == w \in Seq(S) /\ w # <<>> /\ IsInjective(w)

\* Quotient and rest of a division of naturals
LEMMA Division ==
    ASSUME NEW a \in Nat, NEW n \in Nat, n > 0
    PROVE  a \div n \in Nat /\ a % n \in Nat /\ a = (a \div n) * n + (a % n)
  BY Z3

\* award_pots: the shares of a pot add up to the pot, the odd chips included.
LEMMA ShareIs ==
    ASSUME NEW S, IsFiniteSet(S), NEW w, WinnersOf(w, S), NEW amount \in Nat
    PROVE  /\ \A u \in S : Share(amount, w, u) \in Nat
           /\ SumFunction([u \in S |-> Share(amount, w, u)]) = amount
  <1> DEFINE n == Len(w)
             W == ToSet(w)
             d == amount \div n
             r == amount % n
             h == [u \in S |-> Share(amount, w, u)]
             f == [u \in S |-> IF u \in W THEN d ELSE 0]
             e == [u \in S |-> IF u = w[1] THEN r ELSE 0]
  <1>1. /\ n \in Nat /\ n > 0 /\ w \in Seq(S) /\ IsInjective(w) /\ w[1] \in S
        /\ W \in SUBSET S /\ w[1] \in W
    BY DEF WinnersOf, ToSet
  <1>2. IsFiniteSet(W) /\ Cardinality(W) = n
    BY <1>1, InjectiveLength
  <1>3. d \in Nat /\ r \in Nat /\ amount = d * n + r
    BY <1>1, Division
  <1>4. \A u \in S : Share(amount, w, u) = f[u] + e[u]
    <2>1. ASSUME NEW u \in S PROVE Share(amount, w, u) = f[u] + e[u]
      <3>1. CASE u \notin W
        <4>1. u # w[1]
          BY <1>1, <3>1
        <4>2. Share(amount, w, u) = 0
          BY <3>1 DEF Share
        <4>3. f[u] = 0 /\ e[u] = 0
          BY <3>1, <4>1
        <4> QED
          BY <4>2, <4>3
      <3>2. CASE u \in W
        <4>1. Share(amount, w, u) = d + (IF w[1] = u THEN r ELSE 0)
          BY <3>2 DEF Share
        <4>2. f[u] = d /\ e[u] = IF w[1] = u THEN r ELSE 0
          BY <3>2
        <4> QED
          BY <4>1, <4>2
      <3> QED
        BY <3>1, <3>2
    <2> QED
      BY <2>1
  <1> HIDE DEF d, r, W, n
  <1>5. f \in [S -> Nat] /\ e \in [S -> Nat] /\ f \in [S -> Int] /\ e \in [S -> Int]
    BY <1>3
  <1>6. \A u \in S : Share(amount, w, u) \in Nat
    BY <1>4, <1>5
  <1>7. h \in [S -> Int] /\ \A u \in S : h[u] = f[u] + e[u]
    BY <1>4, <1>6
  <1>8. (\A u \in W : f[u] = d) /\ \A u \in S \ W : f[u] = 0
    BY <1>1
  <1>9. e[w[1]] = r /\ \A u \in S \ {w[1]} : e[u] = 0
    BY <1>1
  <1> HIDE DEF f, e, h
  <1>10. SumFunction(h) = SumFunctionOnSet(h, S)
    BY <1>7, SumFunctionIs
  <1>11. SumFunctionOnSet(h, S) = SumFunctionOnSet(f, S) + SumFunctionOnSet(e, S)
    BY <1>5, <1>7, SumPlus
  <1>12. SumFunctionOnSet(e, S) = r
    <2> DEFINE x == w[1]
    <2>1. x \in S /\ e[x] = r /\ \A u \in S \ {x} : e[u] = 0
      BY <1>1, <1>9
    <2> HIDE DEF x
    <2>2. SumFunctionOnSet(e, S) = e[x]
      BY <1>5, <2>1, SumOne
    <2> QED
      BY <2>1, <2>2
  <1>13. SumFunctionOnSet(f, S) = d * n
    <2> DEFINE Z == S \ W
    <2>1. Z \in SUBSET S /\ IsFiniteSet(Z) /\ W \cap Z = {} /\ W \cup Z = S
          /\ \A u \in Z : f[u] = 0
      BY <1>1, <1>8, FS_Subset
    <2> HIDE DEF Z
    <2>2. SumFunctionOnSet(f, W \cup Z) = SumFunctionOnSet(f, W) + SumFunctionOnSet(f, Z)
      <3>1. f \in [S -> Int] /\ W \in SUBSET S /\ IsFiniteSet(W)
        BY <1>1, <1>2, <1>5
      <3> HIDE DEF WinnersOf
      <3> QED
        BY ONLY <3>1, <2>1, SumSplit
    <2>3. SumFunctionOnSet(f, Z) = 0
      BY <1>5, <2>1, SumZero
    <2>4. SumFunctionOnSet(f, W) = d * Cardinality(W)
      <3>1. d \in Int
        BY <1>3
      <3>2. f \in [S -> Int] /\ W \in SUBSET S /\ IsFiniteSet(W)
        BY <1>1, <1>2, <1>5
      <3> QED
        BY ONLY <3>1, <3>2, <1>8, SumConst
    <2>5. SumFunctionOnSet(f, W \cup Z) = SumFunctionOnSet(f, S)
      BY <2>1, Zenon
    <2>6. SumFunctionOnSet(f, W) = d * n
      BY <1>2, <2>4, Zenon
    <2>7. SumFunctionOnSet(f, W) \in Int
      BY <1>1, <1>2, <1>5, SumStep
    <2> QED
      BY <2>2, <2>3, <2>5, <2>6, <2>7
  <1> QED
    BY <1>3, <1>6, <1>10, <1>11, <1>12, <1>13 DEF h

\* Awarding pots pays out what is in them.
LEMMA AwardPotsIs ==
    ASSUME NEW S, IsFiniteSet(S), NEW U, NEW ps \in Seq(PotOf(U)),
           NEW w, \A i \in DOMAIN ps : WinnersOf(w[i], S)
    PROVE  /\ AwardPots(ps, w, S) \in [S -> Nat]
           /\ SumFunction(AwardPots(ps, w, S)) = PotTotal(ps)
  <1> DEFINE I == DOMAIN ps
             F == [u \in S |-> [i \in I |-> Share(ps[i].amount, w[i], u)]]
             a == [i \in I |-> ps[i].amount]
  <1>1. \A i \in I : ps[i].amount \in Nat
    <2>1. \A i \in I : ps[i] \in PotOf(U)
      OBVIOUS
    <2> QED
      BY <2>1 DEF PotOf
  <1>2. IsFiniteSet(I)
    <2>1. Len(ps) \in Nat /\ I = 1..Len(ps)
      OBVIOUS
    <2> QED
      BY <2>1, FS_Interval
  <1>3. AwardPots(ps, w, S) = [u \in S |-> SumFunction(F[u])]
    BY DEF AwardPots
  <1>4. PotTotal(ps) = SumFunction(a)
    BY DEF PotTotal
  <1> HIDE DEF I
  <1>5. \A i \in I, u \in S : Share(ps[i].amount, w[i], u) \in Nat
    BY <1>1, ShareIs DEF I
  <1>6. \A i \in I : SumFunction([u \in S |-> Share(ps[i].amount, w[i], u)]) = a[i]
    BY <1>1, ShareIs DEF I
  <1>7. F \in [S -> [I -> Int]] /\ \A u \in S : F[u] \in [I -> Nat]
    BY <1>5
  <1>8. \A u \in S : SumFunction(F[u]) \in Nat
    <2>1. ASSUME NEW u \in S PROVE SumFunction(F[u]) \in Nat
      <3> DEFINE f == F[u]
      <3>1. f \in [I -> Nat] /\ f \in [I -> Int]
        BY <1>7
      <3> HIDE DEF f
      <3>2. SumFunction(f) = SumFunctionOnSet(f, I)
        BY <3>1, SumFunctionIs
      <3>3. SumFunctionOnSet(f, I) \in Nat
        BY <1>2, <3>1, SumNat
      <3> QED
        BY <3>2, <3>3 DEF f
    <2> QED
      BY <2>1
  <1>9. \A i \in I : [u \in S |-> F[u][i]] = [u \in S |-> Share(ps[i].amount, w[i], u)]
    OBVIOUS
  <1> HIDE DEF F
  <1>10. SumFunction([u \in S |-> SumFunction(F[u])])
            = SumFunction([i \in I |-> SumFunction([u \in S |-> F[u][i]])])
    BY <1>2, <1>7, SumSwap
  <1>11. [i \in I |-> SumFunction([u \in S |-> F[u][i]])] = a
    BY <1>6, <1>9
  <1>12. SumFunction([i \in I |-> SumFunction([u \in S |-> F[u][i]])]) = SumFunction(a)
    BY <1>11, Zenon
  <1>13. AwardPots(ps, w, S) \in [S -> Nat]
    BY <1>3, <1>8
  <1>14. SumFunction(AwardPots(ps, w, S)) = SumFunction([u \in S |-> SumFunction(F[u])])
    BY <1>3, Zenon
  <1> QED
    BY <1>4, <1>10, <1>12, <1>13, <1>14

-----------------------------------------------------------------------------
(* Seats *)

\* What the engine may be passed and may return.  A player, a hand, a table
SomePlayer == [seat : SeatIndex, stack : Nat, status : Statuses, timeouts : Nat]
OverSomeUsers(X) == UNION {[S -> X] : S \in SUBSET Users}
AnySeat == SeatIndex \cup {NoSeat}
HandPhases == BettingPhases \cup {"NONE", "HAND_END", "START_HAND"}
Hands ==
    [phase : HandPhases, dealer : AnySeat, bb : AnySeat, cards : OverSomeUsers(Cards),
     current_bet : Nat, bets : [Users -> Nat], min_raise_to : Nat,
     acted : SUBSET SeatIndex, turn : AnySeat,
     start : OverSomeUsers(Nat), start_order : Seq(Users)]
Games ==
    [phase : BettingPhases \cup {"WAITING_FOR_PLAYERS"}, players : OverSomeUsers(SomePlayer),
     order : Seq(Users), hand : Hands]

OwnSeats(players) ==
    \A u, v \in DOMAIN players : players[u].seat = players[v].seat => u = v

\* The numbers of a table's configuration
LEMMA Configured ==
    /\ SmallBlind \in Nat /\ SmallBlind > 0 /\ BigBlind \in Nat /\ BigBlind > 0
    /\ MaxPlayers \in Nat /\ MaxPlayers > 0 /\ SeatIndex \subseteq Nat /\ IsFiniteSet(SeatIndex)
    /\ StartingStack \in Nat /\ SitOutAfter \in Nat /\ SitOutAfter > 0
    /\ 2 * BigBlind \in Nat
  <1>1. SmallBlind \in Nat /\ SmallBlind > 0
    BY ConfigAssumption
  <1>2. BigBlind \in Nat /\ BigBlind > 0 /\ 2 * BigBlind \in Nat
    BY <1>1 DEF BigBlind
  <1>3. MaxPlayers \in Nat /\ MaxPlayers > 0
    BY ConfigAssumption
  <1>4. SeatIndex \subseteq Nat /\ IsFiniteSet(SeatIndex)
    <2>1. MaxPlayers - 1 \in Int
      BY <1>3
    <2> QED
      BY <2>1, FS_Interval DEF SeatIndex
  <1>5. StartingStack \in Nat /\ SitOutAfter \in Nat /\ SitOutAfter > 0
    BY ConfigAssumption
  <1> QED
    BY <1>1, <1>2, <1>3, <1>4, <1>5

\* A function over some of the users
LEMMA OverSomeUsersIs ==
    ASSUME NEW X, NEW f
    PROVE  f \in OverSomeUsers(X) <=> DOMAIN f \subseteq Users /\ f \in [DOMAIN f -> X]
  BY DEF OverSomeUsers

\* Two players are never on one seat, so a table has finitely many.
LEMMA SeatedFinite ==
    ASSUME NEW p \in OverSomeUsers(SomePlayer), OwnSeats(p)
    PROVE  IsFiniteSet(DOMAIN p)
  <1> DEFINE S == DOMAIN p
             f == [u \in S |-> p[u].seat]
  <1>1. p \in [S -> SomePlayer]
    BY OverSomeUsersIs
  <1>2. \A u \in S : p[u].seat \in SeatIndex
    <2>1. \A u \in S : p[u] \in SomePlayer
      BY <1>1
    <2> QED
      BY <2>1 DEF SomePlayer
  <1>3. f \in Injection(S, SeatIndex)
    <2>1. f \in [S -> SeatIndex]
      BY <1>2
    <2>2. \A u, v \in S : f[u] = f[v] => u = v
      BY DEF OwnSeats
    <2> HIDE DEF f, S
    <2> QED
      BY <2>1, <2>2 DEF Injection, IsInjective
  <1>4. IsFiniteSet(SeatIndex)
    BY Configured
  <1> HIDE DEF f, S
  <1>5. IsFiniteSet(S)
    BY <1>3, <1>4, FS_Injection
  <1> QED
    BY <1>5 DEF S

\* The lowest of some seats is one of them.
LEMMA MinSeatIs ==
    ASSUME NEW S \in SUBSET Nat, S # {}
    PROVE  MinSeat(S) \in S /\ \A s \in S : MinSeat(S) <= s
  BY LeastNat DEF MinSeat

\* The next seat is one of the seats asked for.
LEMMA NextSeatIs ==
    ASSUME NEW S \in SUBSET Nat, S # {}, NEW from
    PROVE  NextSeat(S, from) \in S
  <1> DEFINE H == {s \in S : s > from}
  <1>1. H \in SUBSET Nat /\ H \subseteq S
    OBVIOUS
  <1> HIDE DEF H
  <1>2. H # {} => MinSeat(H) \in H
    BY <1>1, MinSeatIs
  <1>3. MinSeat(S) \in S
    BY MinSeatIs
  <1>4. NextSeat(S, from) = IF H # {} THEN MinSeat(H) ELSE MinSeat(S)
    BY DEF NextSeat, H
  <1> QED
    BY <1>1, <1>2, <1>3, <1>4

\* A seat that has been vacated counts as one of those that are left.
LEMMA AnchorIs ==
    ASSUME NEW S \in SUBSET Nat, S # {}, NEW seat
    PROVE  Anchor(S, seat) \in S
  BY MinSeatIs DEF Anchor

\* The user at a seat that somebody has
LEMMA UserAtIs ==
    ASSUME NEW s, NEW seat \in Seats(s)
    PROVE  UserAt(s, seat) \in Seated(s) /\ s.players[UserAt(s, seat)].seat = seat
  <1>1. \E u \in Seated(s) : s.players[u].seat = seat
    BY DEF Seats
  <1> QED
    BY <1>1 DEF UserAt

-----------------------------------------------------------------------------
(* The bonus *)

StacksOf(players) == SumFunction([u \in DOMAIN players |-> players[u].stack])

\* A bonus moves chips from the others to the winner.
LEMMA PayBonusIs ==
    ASSUME NEW S, IsFiniteSet(S), NEW a \in [S -> Nat], NEW w \in S
    PROVE  PayBonus(a, w) \in [S -> Nat] /\ SumFunction(PayBonus(a, w)) = SumFunction(a)
  <1> DEFINE h == PayBonus(a, w)
             d == [u \in S |-> IF u = w THEN 0 ELSE MinOf(a[u], BigBlind)]
             t == SumFunction(d)
             e == [u \in S |-> IF u = w THEN t ELSE 0]
             b == [u \in S |-> a[u] + e[u]]
  <1>1. BigBlind \in Nat
    BY Configured
  <1>2. \A u \in S : a[u] \in Nat
    OBVIOUS
  <1>3. d \in [S -> Nat] /\ \A u \in S : d[u] <= a[u]
    BY <1>1, <1>2 DEF MinOf
  <1>4. t \in Nat
    <2> HIDE DEF d
    <2>1. d \in [S -> Int]
      BY <1>3
    <2>2. SumFunction(d) = SumFunctionOnSet(d, S)
      BY <2>1, SumFunctionIs
    <2>3. SumFunctionOnSet(d, S) \in Nat
      BY <1>3, SumNat
    <2> QED
      BY <2>2, <2>3
  <1>5. h = [u \in S |-> IF u = w THEN a[u] + t
                         ELSE a[u] - (IF u = w THEN 0 ELSE MinOf(a[u], BigBlind))]
    <2>1. DOMAIN a = S
      OBVIOUS
    <2> QED
      BY <2>1 DEF PayBonus
  <1>6. \A u \in S : h[u] = IF u = w THEN a[u] + t ELSE a[u] - d[u]
    <2> HIDE DEF h, t
    <2> QED
      BY <1>5
  <1>7. h \in [S -> Nat] /\ \A u \in S : h[u] + d[u] = b[u]
    <2>1. \A u \in S : u # w => h[u] = a[u] - d[u] /\ b[u] = a[u]
      <3> HIDE DEF h, d, t
      <3> QED
        BY <1>2, <1>6
    <2>2. h[w] = a[w] + t /\ b[w] = a[w] + t /\ d[w] = 0
      <3>1. d[w] = 0
        OBVIOUS
      <3> HIDE DEF h, d, t
      <3> QED
        BY <1>6, <3>1
    <2>3. h = [u \in S |-> h[u]]
      <3>1. DOMAIN h = S
        BY <1>5
      <3> QED
        BY <1>5
    <2> HIDE DEF h, b, d, t
    <2>4. \A u \in S : h[u] \in Nat /\ h[u] + d[u] = b[u]
      BY <1>2, <1>3, <1>4, <2>1, <2>2
    <2> QED
      BY <2>3, <2>4
  <1> HIDE DEF h, t
  <1>8. e \in [S -> Int] /\ b \in [S -> Int] /\ a \in [S -> Int] /\ d \in [S -> Int]
        /\ h \in [S -> Int] /\ e[w] = t /\ (\A u \in S \ {w} : e[u] = 0)
        /\ \A u \in S : b[u] = a[u] + e[u]
    BY <1>3, <1>4, <1>7
  <1> HIDE DEF b, d, e
  <1>10. SumFunctionOnSet(b, S) = SumFunctionOnSet(a, S) + SumFunctionOnSet(e, S)
    <2>1. S \in SUBSET S /\ IsFiniteSet(S)
      OBVIOUS
    <2> QED
      BY ONLY <1>8, <2>1, SumPlus
  <1>11. SumFunctionOnSet(b, S) = SumFunctionOnSet(h, S) + SumFunctionOnSet(d, S)
    <2>1. S \in SUBSET S /\ IsFiniteSet(S)
      OBVIOUS
    <2>2. \A u \in S : b[u] = h[u] + d[u]
      BY <1>7
    <2> QED
      BY ONLY <1>8, <2>1, <2>2, SumPlus
  <1>12. SumFunctionOnSet(e, S) = t
    <2>1. SumFunctionOnSet(e, S) = e[w]
      BY <1>8, SumOne
    <2> QED
      BY <1>8, <2>1
  <1>13. SumFunctionOnSet(d, S) = t
    <2>1. SumFunction(d) = SumFunctionOnSet(d, S)
      BY <1>8, SumFunctionIs
    <2> QED
      BY <2>1 DEF t
  <1>14. SumFunctionOnSet(a, S) \in Int /\ SumFunctionOnSet(h, S) \in Int
    <2>1. S \in SUBSET S /\ IsFiniteSet(S)
      OBVIOUS
    <2>2. SumFunctionOnSet(a, S) \in Int
      BY ONLY <1>8, <2>1, SumStep
    <2>3. SumFunctionOnSet(h, S) \in Int
      BY ONLY <1>8, <2>1, SumStep
    <2> QED
      BY <2>2, <2>3
  <1>15. SumFunctionOnSet(h, S) = SumFunctionOnSet(a, S)
    <2>1. SumFunctionOnSet(a, S) + t = SumFunctionOnSet(h, S) + t
      BY <1>10, <1>11, <1>12, <1>13
    <2>2. \A x, y \in Int, z \in Nat : x + z = y + z => x = y
      OBVIOUS
    <2>3. t \in Nat
      BY <1>4
    <2> QED
      BY ONLY <1>14, <2>1, <2>2, <2>3
  <1>16. SumFunction(h) = SumFunctionOnSet(h, S) /\ SumFunction(a) = SumFunctionOnSet(a, S)
    BY <1>8, SumFunctionIs
  <1> QED
    BY <1>7, <1>15, <1>16 DEF h

\* FoldLeft(PayBonus, ...) pays the bonuses one at a time.
BonusRecursion(k, p, q) ==
    k = [T \in SUBSET DOMAIN q |->
            IF T = {} THEN p ELSE PayBonus(k[T \ {Max(T)}], q[Max(T)])]

\* The fold over the winners without the operators of the library
LEMMA BonusUnfolds ==
    ASSUME NEW p, NEW q
    PROVE  FoldLeft(PayBonus, p, q) = (CHOOSE k : BonusRecursion(k, p, q))[DOMAIN q]
  BY Zenon DEF FoldLeft, MapThenFoldSet, BonusRecursion

\* All the bonuses of a hand move chips and nothing else, and lose none.
LEMMA BonusesAre ==
    ASSUME NEW S, IsFiniteSet(S), NEW p \in [S -> Nat], NEW q \in Seq(S)
    PROVE  /\ FoldLeft(PayBonus, p, q) \in [S -> Nat]
           /\ SumFunction(FoldLeft(PayBonus, p, q)) = SumFunction(p)
  <1> DEFINE n == Len(q)
             V == {r \in [S -> Nat] : SumFunction(r) = SumFunction(p)}
             G == [x \in (1..n) \X V |-> PayBonus(x[2], q[x[1]])]
             k == CHOOSE k : BonusRecursion(k, p, q)
  <1>1. n \in Nat /\ DOMAIN q = 1..n /\ \A i \in 1..n : q[i] \in S
    OBVIOUS
  <1>2. p \in V
    OBVIOUS
  <1>3. \A i \in 1..n, v \in V : G[<<i, v>>] = PayBonus(v, q[i])
    OBVIOUS
  <1>4. FoldLeft(PayBonus, p, q) = k[1..n]
    BY <1>1, BonusUnfolds
  <1>5. ASSUME NEW T \in SUBSET (1..n), T # {} PROVE Max(T) \in 1..n
    BY <1>1, <1>5, IndexSets
  <1>6. \A i \in 1..n, v \in V : PayBonus(v, q[i]) \in V
    <2>1. ASSUME NEW i \in 1..n, NEW v \in V PROVE PayBonus(v, q[i]) \in V
      <3> DEFINE r == PayBonus(v, q[i])
      <3>1. v \in [S -> Nat] /\ SumFunction(v) = SumFunction(p) /\ q[i] \in S
        BY <1>1
      <3>2. r \in [S -> Nat] /\ SumFunction(r) = SumFunction(v)
        BY <3>1, PayBonusIs
      <3> HIDE DEF r
      <3>3. r \in V
        BY <3>1, <3>2
      <3> QED
        BY <3>3 DEF r
    <2> QED
      BY <2>1
  <1>7. G \in [(1..n) \X V -> V]
    <2>1. \A x \in (1..n) \X V : x[1] \in 1..n /\ x[2] \in V
      OBVIOUS
    <2> HIDE DEF n, V
    <2> QED
      BY <1>6, <2>1
  <1> HIDE DEF n, V, G
  <1>8. PICK h : FoldsLeft(h, n, V, p, G)
    BY <1>1, <1>2, <1>7, FoldLeftExists
  <1>9. BonusRecursion(h, p, q)
    <2>1. h \in [SUBSET (1..n) -> V] /\ h[{}] = p
      BY <1>8 DEF FoldsLeft
    <2>2. ASSUME NEW T \in SUBSET (1..n), T # {}
          PROVE  h[T] = PayBonus(h[T \ {Max(T)}], q[Max(T)])
      <3>1. h[T \ {Max(T)}] \in V /\ Max(T) \in 1..n
        BY <1>5, <2>1, <2>2
      <3>2. h[T] = G[<<Max(T), h[T \ {Max(T)}]>>]
        BY <1>8, <2>2 DEF FoldsLeft
      <3> QED
        BY <1>3, <3>1, <3>2
    <2> QED
      BY <1>1, <2>1, <2>2 DEF BonusRecursion
  <1>10. BonusRecursion(k, p, q)
    BY <1>9
  <1> HIDE DEF k
  <1>11. k[{}] = p
    BY <1>1, <1>10 DEF BonusRecursion
  <1>12. ASSUME NEW T \in SUBSET (1..n), T # {}, k[T \ {Max(T)}] \in V
         PROVE  k[T] = G[<<Max(T), k[T \ {Max(T)}]>>]
    <2>1. k[T] = PayBonus(k[T \ {Max(T)}], q[Max(T)])
      BY <1>1, <1>10, <1>12 DEF BonusRecursion
    <2> QED
      BY <1>3, <1>5, <1>12, <2>1
  <1>13. PICK m : FoldSteps(m, k, n, V, p, G)
    <2>1. FollowsFold(k, n, V, p, G)
      BY <1>11, <1>12 DEF FollowsFold
    <2> QED
      BY <1>1, <1>2, <1>7, <2>1, FoldPrefixes
  <1>14. k[1..n] \in V
    BY <1>1, <1>13 DEF FoldSteps
  <1>15. FoldLeft(PayBonus, p, q) \in V
    BY <1>4, <1>14
  <1> QED
    BY <1>15 DEF V

\* Two lists, and one list after another without its repetitions
LEMMA ConcatIs ==
    ASSUME NEW X, NEW s \in Seq(X), NEW t \in Seq(X)
    PROVE  s \o t \in Seq(X)
  OBVIOUS

ListingRecursion(k, ws) ==
    k = [T \in SUBSET DOMAIN ws |->
            IF T = {} THEN <<>>
            ELSE k[T \ {Max(T)}]
                    \o Filter(ws[Max(T)], Users \ ToSet(k[T \ {Max(T)}]))]

Listed(ws) ==
    FoldLeft(LAMBDA seq, w : seq \o Filter(w, Users \ ToSet(seq)), <<>>, ws)

\* The list of all winners without the operators of the library
LEMMA ListingUnfolds ==
    ASSUME NEW ws
    PROVE  Listed(ws) = (CHOOSE k : ListingRecursion(k, ws))[DOMAIN ws]
  BY Zenon DEF Listed, FoldLeft, MapThenFoldSet, ListingRecursion

\* The winners of all pots, listed, are players.
LEMMA ListedIs ==
    ASSUME NEW X, NEW n \in Nat, NEW ws, DOMAIN ws = 1..n, \A i \in 1..n : ws[i] \in Seq(X)
    PROVE  Listed(ws) \in Seq(X)
  <1> DEFINE V == Seq(X)
             Step(v, w) == v \o Filter(w, Users \ ToSet(v))
             G == [x \in (1..n) \X V |-> Step(x[2], ws[x[1]])]
             k == CHOOSE k : ListingRecursion(k, ws)
  <1>2. <<>> \in V
    OBVIOUS
  <1>3. \A i \in 1..n, v \in V : G[<<i, v>>] = Step(v, ws[i])
    OBVIOUS
  <1>4. Listed(ws) = k[1..n]
    BY ListingUnfolds
  <1>5. ASSUME NEW T \in SUBSET (1..n), T # {} PROVE Max(T) \in 1..n
    BY <1>5, IndexSets
  <1>6. \A i \in 1..n, v \in V : Step(v, ws[i]) \in V
    <2>1. ASSUME NEW i \in 1..n, NEW v \in V PROVE Step(v, ws[i]) \in V
      <3> DEFINE f == Filter(ws[i], Users \ ToSet(v))
      <3>1. ws[i] \in Seq(X)
        OBVIOUS
      <3>2. f \in Seq(X)
        BY <3>1, FilterIs
      <3> HIDE DEF f
      <3>3. v \o f \in Seq(X)
        BY <3>2, ConcatIs
      <3> QED
        BY <3>3 DEF f
    <2> QED
      BY <2>1
  <1>7. G \in [(1..n) \X V -> V]
    <2>1. \A x \in (1..n) \X V : x[1] \in 1..n /\ x[2] \in V
      OBVIOUS
    <2> HIDE DEF V, Step
    <2> QED
      BY <1>6, <2>1
  <1>8. \A v, w : Step(v, w) = v \o Filter(w, Users \ ToSet(v))
    OBVIOUS
  <1> HIDE DEF V, G, Step
  <1>9. PICK h : FoldsLeft(h, n, V, <<>>, G)
    BY <1>2, <1>7, FoldLeftExists
  <1>10. ListingRecursion(h, ws)
    <2>1. h \in [SUBSET (1..n) -> V] /\ h[{}] = <<>>
      BY <1>9 DEF FoldsLeft
    <2>2. ASSUME NEW T \in SUBSET (1..n), T # {}
          PROVE  h[T] = Step(h[T \ {Max(T)}], ws[Max(T)])
      <3>1. h[T \ {Max(T)}] \in V /\ Max(T) \in 1..n
        BY <1>5, <2>1, <2>2
      <3>2. h[T] = G[<<Max(T), h[T \ {Max(T)}]>>]
        BY <1>9, <2>2 DEF FoldsLeft
      <3> QED
        BY <1>3, <3>1, <3>2
    <2>3. \A T \in SUBSET (1..n) : T # {} =>
             h[T] = h[T \ {Max(T)}] \o Filter(ws[Max(T)], Users \ ToSet(h[T \ {Max(T)}]))
      BY <2>2, <1>8
    <2> QED
      BY <2>1, <2>3 DEF ListingRecursion
  <1>11. ListingRecursion(k, ws)
    BY <1>10
  <1> HIDE DEF k
  <1>12. k[{}] = <<>>
    BY <1>11 DEF ListingRecursion
  <1>13. ASSUME NEW T \in SUBSET (1..n), T # {}, k[T \ {Max(T)}] \in V
         PROVE  k[T] = G[<<Max(T), k[T \ {Max(T)}]>>]
    <2>1. k[T] = k[T \ {Max(T)}] \o Filter(ws[Max(T)], Users \ ToSet(k[T \ {Max(T)}]))
      BY <1>11, <1>13 DEF ListingRecursion
    <2>2. k[T] = Step(k[T \ {Max(T)}], ws[Max(T)])
      BY <1>8, <2>1
    <2> QED
      BY <1>3, <1>5, <1>13, <2>2
  <1>14. PICK m : FoldSteps(m, k, n, V, <<>>, G)
    <2>1. FollowsFold(k, n, V, <<>>, G)
      BY <1>12, <1>13 DEF FollowsFold
    <2> QED
      BY <1>2, <1>7, <2>1, FoldPrefixes
  <1>15. k[1..n] \in V
    BY <1>14 DEF FoldSteps
  <1> QED
    BY <1>4, <1>15 DEF V

\* A list of members of a set is a sequence over that set.
LEMMA SequenceOver ==
    ASSUME NEW X, NEW q \in Seq(X), NEW S, ToSet(q) \subseteq S
    PROVE  q \in Seq(S)
  <1>1. Len(q) \in Nat /\ DOMAIN q = 1..Len(q) /\ q = [i \in 1..Len(q) |-> q[i]]
    OBVIOUS
  <1>2. \A i \in 1..Len(q) : q[i] \in S
    BY <1>1 DEF ToSet
  <1>3. q \in [1..Len(q) -> S]
    BY <1>1, <1>2
  <1> QED
    BY <1>1, <1>3, SequenceOf

\* The players the bonus is paid to are seated.
LEMMA BonusWinnersAre ==
    ASSUME NEW s, NEW S, NEW n \in Nat, NEW ws, DOMAIN ws = 1..n,
           \A i \in 1..n : ws[i] \in Seq(S), NEW wins \in [S -> Nat]
    PROVE  BonusWinners(s, ws, wins) \in Seq(S)
  <1> DEFINE q == Listed(ws)
             B == {u \in DOMAIN wins \cap DOMAIN s.hand.cards :
                            /\ "bonus_27" \in HouseRules
                            /\ wins[u] > 0
                            /\ s.hand.cards[u].kind = "two_seven"}
  <1>1. q \in Seq(S)
    BY ListedIs
  <1>2. BonusWinners(s, ws, wins) = Filter(q, B)
    BY Zenon DEF BonusWinners, Listed
  <1> HIDE DEF q, B
  <1>3. Filter(q, B) \in Seq(S)
    BY <1>1, FilterIs
  <1> QED
    BY <1>2, <1>3

\* Without the house rule nobody is paid a bonus.
LEMMA NoBonus ==
    ASSUME "bonus_27" \notin HouseRules, NEW s, NEW S, NEW n \in Nat, NEW ws, DOMAIN ws = 1..n,
           \A i \in 1..n : ws[i] \in Seq(S), NEW wins \in [S -> Nat], NEW p
    PROVE  FoldLeft(PayBonus, p, BonusWinners(s, ws, wins)) = p
  <1> DEFINE l == Listed(ws)
             B == {u \in DOMAIN wins \cap DOMAIN s.hand.cards :
                            /\ "bonus_27" \in HouseRules
                            /\ wins[u] > 0
                            /\ s.hand.cards[u].kind = "two_seven"}
             b == BonusWinners(s, ws, wins)
             k == CHOOSE k : BonusRecursion(k, p, b)
  <1>1. l \in Seq(S)
    BY ListedIs
  <1>2. b = Filter(l, B)
    BY Zenon DEF BonusWinners, Listed
  <1>3. B = {}
    OBVIOUS
  <1> HIDE DEF l, B, b
  <1>4. b \in Seq(S) /\ ToSet(b) = {}
    BY <1>1, <1>2, <1>3, FilterIs
  <1>5. DOMAIN b = {}
    BY <1>4 DEF ToSet
  <1>6. BonusRecursion(k, p, b)
    <2>1. BonusRecursion([T \in SUBSET DOMAIN b |-> p], p, b)
      BY <1>5 DEF BonusRecursion
    <2> QED
      BY <2>1
  <1> HIDE DEF k
  <1>7. k[DOMAIN b] = p
    BY <1>5, <1>6 DEF BonusRecursion
  <1>8. FoldLeft(PayBonus, p, b) = k[DOMAIN b]
    BY BonusUnfolds, Zenon DEF k
  <1> QED
    BY <1>7, <1>8 DEF b

-----------------------------------------------------------------------------
(* The end of a hand *)

\* The players a hand was dealt to, and everybody else waits.
Dealt(s) ==
    /\ ToSet(s.hand.start_order) = DOMAIN s.hand.start /\ IsInjective(s.hand.start_order)
    /\ \A u \in Seated(s) \ DOMAIN s.hand.start :
          s.players[u].status \in {"WAITING", "SIT_OUT"}

\* Nobody has bet more than the current bet, or more than he has put in, or
\* without having been dealt in.
BetsCovered(s) ==
    /\ s.hand.current_bet <= s.hand.min_raise_to
    /\ \A u \in Users : /\ s.hand.bets[u] <= s.hand.current_bet
                        /\ u \notin DOMAIN s.hand.start => s.hand.bets[u] = 0
    /\ \A u \in DOMAIN s.hand.start :
          s.hand.bets[u] + (IF u \in Seated(s) THEN s.players[u].stack ELSE 0)
              <= s.hand.start[u]

InPlay(s) == s \in Games /\ OwnSeats(s.players) /\ Dealt(s) /\ BetsCovered(s)

\* The chips of a table on which a hand is on
Bank(s) ==
    SumFunction(s.hand.start)
        + SumFunction([u \in Seated(s) \ DOMAIN s.hand.start |-> s.players[u].stack])

SameTable(s, g) ==
    /\ Seated(s) = Seated(g) /\ s.order = g.order
    /\ \A u \in Seated(g) : s.players[u].seat = g.players[u].seat

\* s is the table once the hand that was on in g is over.
Over(s, g) ==
    /\ s \in Games /\ OwnSeats(s.players) /\ SameTable(s, g)
    /\ s.phase = "WAITING_FOR_PLAYERS" /\ s.hand = EmptyHand("HAND_END", g.hand.dealer)
    /\ StacksOf(s.players) = Bank(g)

\* What a state's fields are
LEMMA GameIs ==
    ASSUME NEW s \in Games, OwnSeats(s.players)
    PROVE  /\ s.players \in [Seated(s) -> SomePlayer] /\ Seated(s) \subseteq Users
           /\ IsFiniteSet(Seated(s))
           /\ s.hand \in Hands /\ s.order \in Seq(Users)
           /\ s.hand.start \in [DOMAIN s.hand.start -> Nat] /\ DOMAIN s.hand.start \subseteq Users
           /\ s.hand.cards \in [DOMAIN s.hand.cards -> Cards]
           /\ DOMAIN s.hand.cards \subseteq Users
           /\ s.hand.bets \in [Users -> Nat] /\ s.hand.start_order \in Seq(Users)
           /\ s.hand.current_bet \in Nat /\ s.hand.min_raise_to \in Nat
           /\ \A u \in Seated(s) : /\ s.players[u] \in SomePlayer /\ s.players[u].stack \in Nat
                                   /\ s.players[u].seat \in SeatIndex
  <1>1. s.players \in OverSomeUsers(SomePlayer) /\ s.hand \in Hands /\ s.order \in Seq(Users)
    BY DEF Games
  <1>2. /\ s.hand.start \in OverSomeUsers(Nat) /\ s.hand.cards \in OverSomeUsers(Cards)
        /\ s.hand.bets \in [Users -> Nat] /\ s.hand.start_order \in Seq(Users)
        /\ s.hand.current_bet \in Nat /\ s.hand.min_raise_to \in Nat
    BY <1>1 DEF Hands
  <1>3. s.players \in [Seated(s) -> SomePlayer] /\ Seated(s) \subseteq Users
    BY <1>1, OverSomeUsersIs DEF Seated
  <1>4. IsFiniteSet(Seated(s))
    BY <1>1, SeatedFinite DEF Seated
  <1>5. \A u \in Seated(s) : s.players[u] \in SomePlayer
    BY <1>3
  <1>6. \A u \in Seated(s) : s.players[u].stack \in Nat /\ s.players[u].seat \in SeatIndex
    BY <1>5 DEF SomePlayer
  <1>7. s.hand.start \in [DOMAIN s.hand.start -> Nat] /\ DOMAIN s.hand.start \subseteq Users
    BY <1>2, OverSomeUsersIs
  <1>8. s.hand.cards \in [DOMAIN s.hand.cards -> Cards] /\ DOMAIN s.hand.cards \subseteq Users
    BY <1>2, OverSomeUsersIs
  <1> QED
    BY <1>1, <1>2, <1>3, <1>4, <1>5, <1>6, <1>7, <1>8

\* What is in the pots and what is left in front of the players add up to the
\* chips of the table.
LEMMA ContributionsAre ==
    ASSUME NEW s, InPlay(s)
    PROVE  /\ IsFiniteSet(DOMAIN s.hand.start)
           /\ TotalContributions(s) \in [DOMAIN s.hand.start -> Nat]
           /\ StacksOf(s.players) + SumFunction(TotalContributions(s)) = Bank(s)
           /\ StacksOf(s.players) \in Int /\ SumFunction(TotalContributions(s)) \in Int
  <1> DEFINE D == DOMAIN s.hand.start
             S == Seated(s)
             a == s.hand.start
             c == TotalContributions(s)
             b == [u \in D |-> IF u \in S THEN s.players[u].stack ELSE 0]
             p == [u \in S |-> s.players[u].stack]
             late == [u \in S \ D |-> s.players[u].stack]
  <1>1. /\ IsFiniteSet(S) /\ S \subseteq Users /\ a \in [D -> Nat]
        /\ s.hand.start_order \in Seq(Users) /\ s.hand.bets \in [Users -> Nat] /\ D \subseteq Users
        /\ \A u \in S : s.players[u].stack \in Nat
    BY GameIs DEF InPlay
  <1>2. IsFiniteSet(D)
    BY <1>1, InjectiveLength DEF InPlay, Dealt
  <1>3. b \in [D -> Nat] /\ p \in [S -> Nat] /\ late \in [S \ D -> Nat]
    BY <1>1
  <1>4. \A u \in D : b[u] <= a[u]
    <2>1. \A u \in D : s.hand.bets[u] + b[u] <= a[u]
      BY DEF InPlay, BetsCovered
    <2>2. \A u \in D : s.hand.bets[u] \in Nat
      BY <1>1
    <2> HIDE DEF a, b
    <2> QED
      BY <1>1, <1>3, <2>1, <2>2
  <1>5. c = [u \in D |-> a[u] - b[u]]
    BY DEF TotalContributions
  <1>6. c \in [D -> Nat] /\ \A u \in D : a[u] = c[u] + b[u]
    <2> HIDE DEF a, b, c
    <2>1. \A u \in D : a[u] - b[u] \in Nat /\ a[u] = (a[u] - b[u]) + b[u]
      BY <1>1, <1>3, <1>4
    <2> QED
      BY <1>5, <2>1
  <1>7. \A u \in S \cap D : b[u] = p[u]
    OBVIOUS
  <1>8. \A u \in D \ S : b[u] = 0
    OBVIOUS
  <1>9. \A u \in S \ D : late[u] = p[u]
    OBVIOUS
  <1>10. StacksOf(s.players) = SumFunction(p)
    <2>1. [u \in DOMAIN s.players |-> s.players[u].stack] = p
      BY DEF Seated
    <2> QED
      BY <2>1, Zenon DEF StacksOf
  <1>11. Bank(s) = SumFunction(a) + SumFunction(late)
    BY DEF Bank
  <1> HIDE DEF D, S, a, b, c, p, late
  <1>12. /\ a \in [D -> Int] /\ b \in [D -> Int] /\ c \in [D -> Int] /\ p \in [S -> Int]
         /\ late \in [S \ D -> Int]
    BY <1>1, <1>3, <1>6
  <1>13. /\ SumFunction(a) = SumFunctionOnSet(a, D) /\ SumFunction(c) = SumFunctionOnSet(c, D)
         /\ SumFunction(p) = SumFunctionOnSet(p, S)
    BY <1>12, SumFunctionIs
  <1>14. SumFunction(late) = SumFunctionOnSet(late, S \ D)
    BY <1>12, SumFunctionIs
  <1>15. D \in SUBSET D /\ S \cap D \in SUBSET D /\ D \ S \in SUBSET D
    OBVIOUS
  <1>16. S \cap D \in SUBSET S /\ S \ D \in SUBSET S /\ S \ D \in SUBSET (S \ D)
    OBVIOUS
  <1>17. IsFiniteSet(S \cap D) /\ IsFiniteSet(D \ S) /\ IsFiniteSet(S \ D)
    BY <1>1, <1>2, <1>15, <1>16, FS_Subset
  <1>18. SumFunctionOnSet(a, D) = SumFunctionOnSet(c, D) + SumFunctionOnSet(b, D)
    BY <1>2, <1>6, <1>12, <1>15, SumPlus
  <1>19. SumFunctionOnSet(b, D) = SumFunctionOnSet(b, S \cap D) + SumFunctionOnSet(b, D \ S)
    <2> DEFINE A == S \cap D
               B == D \ S
    <2>1. A \cap B = {} /\ A \cup B = D
      OBVIOUS
    <2>2. A \in SUBSET D /\ B \in SUBSET D /\ IsFiniteSet(A) /\ IsFiniteSet(B)
      BY <1>15, <1>17
    <2> HIDE DEF A, B
    <2>3. SumFunctionOnSet(b, A \cup B) = SumFunctionOnSet(b, A) + SumFunctionOnSet(b, B)
      BY ONLY <1>12, <2>1, <2>2, SumSplit
    <2> QED
      BY <2>1, <2>3 DEF A, B
  <1>20. SumFunctionOnSet(p, S) = SumFunctionOnSet(p, S \cap D) + SumFunctionOnSet(p, S \ D)
    <2> DEFINE A == S \cap D
               B == S \ D
    <2>1. A \cap B = {} /\ A \cup B = S
      OBVIOUS
    <2>2. A \in SUBSET S /\ B \in SUBSET S /\ IsFiniteSet(A) /\ IsFiniteSet(B)
      BY <1>16, <1>17
    <2> HIDE DEF A, B
    <2>3. SumFunctionOnSet(p, A \cup B) = SumFunctionOnSet(p, A) + SumFunctionOnSet(p, B)
      BY ONLY <1>12, <2>1, <2>2, SumSplit
    <2> QED
      BY <2>1, <2>3 DEF A, B
  <1>21. SumFunctionOnSet(b, D \ S) = 0
    BY <1>8, <1>12, <1>15, <1>17, SumZero
  <1>22. SumFunctionOnSet(b, S \cap D) = SumFunctionOnSet(p, S \cap D)
    BY <1>7, <1>12, <1>15, <1>16, <1>17, SumAgree
  <1>23. SumFunctionOnSet(late, S \ D) = SumFunctionOnSet(p, S \ D)
    BY <1>9, <1>12, <1>16, <1>17, SumAgree
  <1>24. SumFunctionOnSet(c, D) \in Int
    BY <1>2, <1>12, <1>15, SumStep
  <1>25. SumFunctionOnSet(p, S \cap D) \in Int
    BY <1>12, <1>16, <1>17, SumStep
  <1>26. SumFunctionOnSet(p, S \ D) \in Int
    BY <1>12, <1>16, <1>17, SumStep
  <1>27. SumFunction(p) + SumFunction(c) = SumFunction(a) + SumFunction(late)
         /\ SumFunction(p) \in Int /\ SumFunction(c) \in Int
    BY <1>13, <1>14, <1>18, <1>19, <1>20, <1>21, <1>22, <1>23, <1>24, <1>25, <1>26
  <1>28. IsFiniteSet(D) /\ c \in [D -> Nat]
    BY <1>2, <1>6
  <1> QED
    BY <1>10, <1>11, <1>27, <1>28 DEF D, c

\* Every pot that can be awarded has winners, and all of them are seated.
LEMMA PotWinnersAre ==
    ASSUME NEW s, InPlay(s), NEW pot \in PotOf(DOMAIN s.hand.start \cap InHand(s)),
           Cardinality(pot.eligible) = 1 \/ Contenders(s, pot) # {}
    PROVE  /\ WinnersOf(PotWinners(s, pot), Seated(s))
           /\ ToSet(PotWinners(s, pot)) \subseteq pot.eligible
  <1> DEFINE S == Seated(s)
             E == pot.eligible
             C == Contenders(s, pot)
             D == DOMAIN s.hand.start
  <1>1. /\ IsFiniteSet(S) /\ S \subseteq Users /\ s.hand.start_order \in Seq(Users)
        /\ s.hand.cards \in [DOMAIN s.hand.cards -> Cards]
    BY GameIs DEF InPlay
  <1>2. E \subseteq S /\ E \subseteq D /\ IsFiniteSet(E)
    <2>1. E \subseteq D \cap InHand(s)
      BY DEF PotOf
    <2>2. InHand(s) \subseteq S
      BY DEF InHand, WithStatus
    <2>3. E \subseteq S /\ E \subseteq D
      BY <2>1, <2>2
    <2> QED
      BY <1>1, <2>3, FS_Subset
  <1>3. CASE Cardinality(E) = 1
    <2> DEFINE q == SetToSeq(E)
    <2>1. q \in Seq(E) /\ Len(q) = 1 /\ IsInjective(q) /\ ToSet(q) = E
      BY <1>2, <1>3, SetToSeqIs
    <2>2. PotWinners(s, pot) = q
      BY <1>3 DEF PotWinners
    <2> HIDE DEF q
    <2>3. q \in Seq(S)
      BY <1>2, <2>1, SequenceOver
    <2>4. q # <<>>
      <3>1. Len(q) = 1 /\ 1 # 0
        BY <2>1
      <3>2. Len(<<>>) = 0
        OBVIOUS
      <3> QED
        BY <3>1, <3>2, Zenon
    <2> QED
      BY <2>1, <2>2, <2>3, <2>4 DEF WinnersOf, E
  <1>4. CASE Cardinality(E) # 1
    <2> DEFINE R == {s.hand.cards[u].rank : u \in C}
               B == {u \in C : s.hand.cards[u].rank = Max(R)}
               q == Filter(s.hand.start_order, B)
    <2>1. C \in SUBSET E /\ C # {} /\ C \subseteq DOMAIN s.hand.cards
      BY <1>4 DEF Contenders
    <2>2. IsFiniteSet(C)
      BY <1>2, <2>1, FS_Subset
    <2>3. \A u \in C : s.hand.cards[u].rank \in Ranks
      <3>1. \A u \in C : s.hand.cards[u] \in Cards
        BY <1>1, <2>1
      <3> QED
        BY <3>1 DEF Cards
    <2>4. Ranks \subseteq Int
      BY ConfigAssumption
    <2>5. R \in SUBSET Int /\ R # {} /\ IsFiniteSet(R)
      <3>1. [u \in C |-> s.hand.cards[u].rank] \in Surjection(C, R)
        BY DEF Surjection
      <3>2. R \in SUBSET Int /\ R # {}
        BY <2>1, <2>3, <2>4
      <3> HIDE DEF R, C
      <3> QED
        BY <2>2, <3>1, <3>2, FS_Surjection
    <2>6. \A y \in R : \E u \in C : s.hand.cards[u].rank = y
      OBVIOUS
    <2> HIDE DEF R
    <2>7. Max(R) \in R
      BY <2>5, MaxIs
    <2>8. B # {} /\ B \subseteq C
      BY <2>6, <2>7
    <2>9. PotWinners(s, pot) = q
      BY <1>4 DEF PotWinners, BestOf, R
    <2> HIDE DEF B
    <2>10. q \in Seq(Users) /\ ToSet(q) = ToSet(s.hand.start_order) \cap B
           /\ (IsInjective(s.hand.start_order) => IsInjective(q))
      BY <1>1, FilterIs
    <2>11. ToSet(s.hand.start_order) = D /\ IsInjective(s.hand.start_order)
      BY DEF InPlay, Dealt
    <2> HIDE DEF q, C, D, E, S
    <2>12. ToSet(q) = B /\ IsInjective(q)
      BY <1>2, <2>1, <2>8, <2>10, <2>11
    <2>13. q \in Seq(S)
      BY <1>2, <2>1, <2>8, <2>10, <2>12, SequenceOver
    <2>14. q # <<>>
      <3>1. ToSet(<<>>) = {}
        BY DEF ToSet
      <3> QED
        BY <2>8, <2>12, <3>1
    <2> QED
      <3>1. ToSet(q) \subseteq E
        BY <2>1, <2>8, <2>12
      <3> QED
        BY <2>9, <2>12, <2>13, <2>14, <3>1 DEF WinnersOf, S, E
  <1> QED
    BY <1>3, <1>4

\* No hand and the end of a hand
LEMMA EmptyHandIs ==
    ASSUME NEW phase \in HandPhases, NEW dealer \in AnySeat
    PROVE  /\ EmptyHand(phase, dealer) \in Hands
           /\ DOMAIN <<>> = {}
  <1>1. <<>> \in OverSomeUsers(Cards) /\ <<>> \in OverSomeUsers(Nat)
    <2>1. DOMAIN <<>> = {} /\ <<>> = [x \in {} |-> x]
      OBVIOUS
    <2>2. <<>> \in [{} -> Cards] /\ <<>> \in [{} -> Nat]
      BY <2>1
    <2> QED
      BY <2>1, <2>2, OverSomeUsersIs
  <1>2. NoBets \in [Users -> Nat] /\ NoSeat \in AnySeat /\ {} \in SUBSET SeatIndex
    BY DEF NoBets, AnySeat
  <1>3. <<>> \in Seq(Users)
    OBVIOUS
  <1>4. DOMAIN <<>> = {}
    OBVIOUS
  <1> QED
    BY <1>1, <1>2, <1>3, <1>4 DEF EmptyHand, Hands

\* _award_hand ends the hand and loses no chip.
LEMMA AwardHandIs ==
    ASSUME NEW g, InPlay(g), NEW s \in AwardHand(g)
    PROVE  Over(s, g)
  <1> DEFINE S == Seated(g)
             D == DOMAIN g.hand.start
             c == TotalContributions(g)
             pots == CalculatePots(c, InHand(g))
             ws == [i \in DOMAIN pots |-> PotWinners(g, pots[i])]
             wins == AwardPots(pots, ws, S)
             paid == [u \in S |-> g.players[u].stack + wins[u]]
             bonus == BonusWinners(g, ws, wins)
             stacks == FoldLeft(PayBonus, paid, bonus)
             r == [u \in S |-> [g.players[u] EXCEPT !.stack = stacks[u]]]
             e == EmptyHand("HAND_END", g.hand.dealer)
  <1>1. /\ g \in Games /\ OwnSeats(g.players)
        /\ IsFiniteSet(S) /\ S \subseteq Users /\ g.players \in [S -> SomePlayer]
        /\ \A u \in S : g.players[u] \in SomePlayer /\ g.players[u].stack \in Nat
    BY GameIs DEF InPlay
  <1>2. /\ IsFiniteSet(D) /\ c \in [D -> Nat]
        /\ StacksOf(g.players) + SumFunction(c) = Bank(g)
        /\ StacksOf(g.players) \in Int /\ SumFunction(c) \in Int
    BY ContributionsAre
  <1>3. CanAward(g, pots) /\ s = [g EXCEPT !.players = r, !.hand = e,
                                           !.phase = "WAITING_FOR_PLAYERS"]
    BY DEF AwardHand
  <1> HIDE DEF c, D
  <1>4. PotsFor(pots, c, InHand(g)) /\ DOMAIN c = D
    BY <1>2, PotsAre
  <1> HIDE DEF pots
  <1>5. pots \in Seq(PotOf(D \cap InHand(g))) /\ PotTotal(pots) = SumFunction(c)
    <2>1. pots \in Seq(PotOf(D \cap InHand(g))) /\ Chips(pots, SUBSET D) = SumFunction(c)
      BY <1>4 DEF PotsFor
    <2>2. SUBSET (D \cap InHand(g)) \subseteq SUBSET D
      OBVIOUS
    <2>3. PotTotal(pots) = Chips(pots, SUBSET D)
      BY <2>1, <2>2, PotTotalIs
    <2> QED
      BY <2>1, <2>3
  <1>6. \A i \in DOMAIN pots : WinnersOf(ws[i], S)
    <2>1. ASSUME NEW i \in DOMAIN pots PROVE WinnersOf(PotWinners(g, pots[i]), S)
      <3>1. pots[i] \in PotOf(D \cap InHand(g))
        BY <1>5
      <3>2. Cardinality(pots[i].eligible) = 1 \/ Contenders(g, pots[i]) # {}
        BY <1>3 DEF CanAward
      <3> QED
        BY <3>1, <3>2, PotWinnersAre DEF D
    <2> QED
      BY <2>1
  <1>7. Len(pots) \in Nat /\ DOMAIN pots = 1..Len(pots) /\ DOMAIN ws = 1..Len(pots)
    BY <1>5
  <1> HIDE DEF ws
  <1>8. wins \in [S -> Nat] /\ SumFunction(wins) = PotTotal(pots)
    BY <1>1, <1>5, <1>6, AwardPotsIs
  <1> HIDE DEF wins
  <1>9. bonus \in Seq(S)
    <2>1. \A i \in 1..Len(pots) : ws[i] \in Seq(S)
      BY <1>6, <1>7 DEF WinnersOf
    <2> QED
      BY <1>7, <1>8, <2>1, BonusWinnersAre
  <1>10. paid \in [S -> Nat]
    BY <1>1, <1>8
  <1>11. SumFunction(paid) = StacksOf(g.players) + SumFunction(wins)
    <2> DEFINE a == [u \in S |-> g.players[u].stack]
    <2>1. a \in [S -> Int] /\ paid \in [S -> Int] /\ wins \in [S -> Int]
          /\ \A u \in S : paid[u] = a[u] + wins[u]
      BY <1>1, <1>8, <1>10
    <2>2. DOMAIN g.players = S
      BY <1>1
    <2>3. StacksOf(g.players) = SumFunction(a)
      BY <2>2, Zenon DEF StacksOf
    <2> HIDE DEF a, paid
    <2>4. /\ SumFunction(a) = SumFunctionOnSet(a, S)
          /\ SumFunction(paid) = SumFunctionOnSet(paid, S)
          /\ SumFunction(wins) = SumFunctionOnSet(wins, S)
      BY <2>1, SumFunctionIs
    <2>5. SumFunctionOnSet(paid, S) = SumFunctionOnSet(a, S) + SumFunctionOnSet(wins, S)
      BY <1>1, <2>1, SumPlus
    <2> QED
      BY <2>3, <2>4, <2>5
  <1> HIDE DEF paid, bonus
  <1>12. stacks \in [S -> Nat] /\ SumFunction(stacks) = SumFunction(paid)
    BY <1>1, <1>9, <1>10, BonusesAre
  <1> HIDE DEF stacks
  <1>13. ASSUME NEW u \in S
         PROVE  r[u] \in SomePlayer /\ r[u].stack = stacks[u] /\ r[u].seat = g.players[u].seat
    <2>1. r[u] = [g.players[u] EXCEPT !.stack = stacks[u]]
      OBVIOUS
    <2>2. g.players[u] \in SomePlayer /\ stacks[u] \in Nat
      BY <1>1, <1>12
    <2> HIDE DEF r
    <2> QED
      BY <2>1, <2>2 DEF SomePlayer
  <1>14. /\ r \in [S -> SomePlayer] /\ StacksOf(r) = SumFunction(paid)
         /\ \A u \in S : r[u].seat = g.players[u].seat
    <2>1. DOMAIN r = S /\ r = [u \in S |-> r[u]]
      OBVIOUS
    <2> HIDE DEF r
    <2>2. [u \in DOMAIN r |-> r[u].stack] = stacks
      BY <1>12, <1>13, <2>1
    <2>3. StacksOf(r) = SumFunction(stacks)
      BY <2>2, Zenon DEF StacksOf
    <2> QED
      BY <1>12, <1>13, <2>1, <2>3
  <1> HIDE DEF r
  <1>15. e \in Hands
    <2>1. g.hand.dealer \in AnySeat
      BY <1>1 DEF Games, Hands
    <2> QED
      BY <2>1, EmptyHandIs DEF HandPhases
  <1>16. /\ s.players = r /\ s.hand = e /\ s.phase = "WAITING_FOR_PLAYERS" /\ s.order = g.order
         /\ s \in Games
    <2>1. r \in OverSomeUsers(SomePlayer)
      BY <1>1, <1>14, OverSomeUsersIs
    <2> HIDE DEF e
    <2> QED
      BY <1>1, <1>3, <1>15, <2>1 DEF Games
  <1>17. SameTable(s, g) /\ OwnSeats(s.players)
    <2>1. DOMAIN r = S /\ DOMAIN g.players = S
      BY <1>1, <1>14
    <2>2. Seated(s) = Seated(g)
      BY <1>16, <2>1 DEF Seated
    <2>3. OwnSeats(r)
      BY <1>1, <1>14, <2>1 DEF OwnSeats
    <2> QED
      BY <1>14, <1>16, <2>2, <2>3 DEF SameTable
  <1>18. StacksOf(s.players) = Bank(g)
    <2>1. StacksOf(r) = Bank(g)
      BY <1>2, <1>5, <1>8, <1>11, <1>14
    <2> QED
      BY <1>16, <2>1
  <1> QED
    BY <1>16, <1>17, <1>18 DEF Over, e

-----------------------------------------------------------------------------
(* What stays the same while a hand is on *)

\* s is a later state of the hand that is on in g: the same players on the same
\* seats, the same stacks to start with, and nobody who was not dealt in has
\* won or lost a chip.
Kept(s, g) ==
    /\ InPlay(s) /\ SameTable(s, g)
    /\ s.hand.start = g.hand.start /\ s.hand.start_order = g.hand.start_order
    /\ s.hand.dealer = g.hand.dealer
    /\ \A u \in Seated(g) \ DOMAIN g.hand.start : s.players[u].stack = g.players[u].stack

\* What a change of the state has to leave alone for that
Bystanding(s, g) ==
    \A u \in Seated(g) \ DOMAIN g.hand.start :
        /\ s.players[u].stack = g.players[u].stack
        /\ s.players[u].status \in {g.players[u].status, "SIT_OUT"}

\* Chips go from a stack to a bet.
NoNewChips(s, g) ==
    \A u \in DOMAIN g.hand.start :
        IF u \in Seated(g)
          THEN s.hand.bets[u] + s.players[u].stack <= g.hand.bets[u] + g.players[u].stack
          ELSE s.hand.bets[u] <= g.hand.bets[u]

SoundBets(s, g) ==
    /\ s.hand.current_bet <= s.hand.min_raise_to
    /\ \A u \in Users : /\ s.hand.bets[u] <= s.hand.current_bet
                        /\ u \notin DOMAIN g.hand.start => s.hand.bets[u] = 0

\* A state that differs from g by chips that went from stacks to bets, with bets
\* that are covered, is a later state of the same hand.
LEMMA KeptIs ==
    ASSUME NEW g, InPlay(g), NEW s \in Games, SameTable(s, g),
           s.hand.start = g.hand.start, s.hand.start_order = g.hand.start_order,
           s.hand.dealer = g.hand.dealer,
           Bystanding(s, g), NoNewChips(s, g), SoundBets(s, g)
    PROVE  Kept(s, g)
  <1> DEFINE D == DOMAIN g.hand.start
  <1>1. /\ g \in Games /\ OwnSeats(g.players) /\ D \subseteq Users
        /\ \A u \in Seated(g) : g.players[u].stack \in Nat
        /\ \A u \in Users : g.hand.bets[u] \in Nat
        /\ \A u \in D : g.hand.start[u] \in Nat
    BY GameIs DEF InPlay
  <1>2. Seated(s) = Seated(g) /\ OwnSeats(s.players)
    BY <1>1 DEF SameTable, OwnSeats, Seated
  <1>3. /\ \A u \in Seated(g) : s.players[u].stack \in Nat
        /\ \A u \in Users : s.hand.bets[u] \in Nat
    BY <1>2, GameIs
  <1>4. Dealt(s)
    <2>1. Dealt(g)
      BY DEF InPlay
    <2>2. \A u \in Seated(s) \ D : s.players[u].status \in {"WAITING", "SIT_OUT"}
      BY <1>2, <2>1 DEF Dealt, Bystanding
    <2> QED
      BY <2>1, <2>2 DEF Dealt
  <1>5. ASSUME NEW u \in D
        PROVE  s.hand.bets[u] + (IF u \in Seated(s) THEN s.players[u].stack ELSE 0)
                  <= s.hand.start[u]
    <2>1. g.hand.bets[u] + (IF u \in Seated(g) THEN g.players[u].stack ELSE 0)
             <= g.hand.start[u]
      BY DEF InPlay, BetsCovered
    <2>2. u \in Users /\ g.hand.bets[u] \in Nat /\ s.hand.bets[u] \in Nat /\ g.hand.start[u] \in Nat
      BY <1>1, <1>3
    <2>3. CASE u \in Seated(g)
      <3>1. s.hand.bets[u] + s.players[u].stack <= g.hand.bets[u] + g.players[u].stack
        BY <2>3 DEF NoNewChips
      <3>2. g.hand.bets[u] + g.players[u].stack <= g.hand.start[u]
        BY <2>1, <2>3
      <3>3. g.players[u].stack \in Nat /\ s.players[u].stack \in Nat
        BY <1>1, <1>3, <2>3
      <3>4. s.hand.bets[u] + s.players[u].stack <= g.hand.start[u]
        BY <2>2, <3>1, <3>2, <3>3
      <3> QED
        BY <1>2, <2>3, <3>4
    <2>4. CASE u \notin Seated(g)
      <3>1. s.hand.bets[u] <= g.hand.bets[u]
        BY <2>4 DEF NoNewChips
      <3>2. g.hand.bets[u] + 0 <= g.hand.start[u]
        BY <2>1, <2>4
      <3>3. s.hand.bets[u] + 0 <= g.hand.start[u]
        BY <2>2, <3>1, <3>2
      <3> QED
        BY <1>2, <2>4, <3>3
    <2> QED
      BY <2>3, <2>4
  <1>6. BetsCovered(s)
    BY <1>5 DEF BetsCovered, SoundBets
  <1>7. InPlay(s)
    BY <1>2, <1>4, <1>6 DEF InPlay
  <1> QED
    BY <1>7 DEF Kept, Bystanding

\* A state is a later state of its own hand,
LEMMA KeptSelf ==
    ASSUME NEW g, InPlay(g)
    PROVE  Kept(g, g)
  BY DEF Kept, SameTable

\* The chips of the table are the same ones.
LEMMA KeptBank ==
    ASSUME NEW s, NEW g, Kept(s, g)
    PROVE  Bank(s) = Bank(g)
  <1>1. [u \in Seated(s) \ DOMAIN s.hand.start |-> s.players[u].stack]
           = [u \in Seated(g) \ DOMAIN g.hand.start |-> g.players[u].stack]
    BY DEF Kept, SameTable
  <1>2. s.hand.start = g.hand.start
    BY DEF Kept
  <1> QED
    BY <1>1, <1>2, Zenon DEF Bank

\* and so is a later state of a later state, or the table once that is over.
LEMMA KeptAgain ==
    ASSUME NEW r, NEW g, Kept(r, g), NEW s
    PROVE  /\ Kept(s, r) => Kept(s, g)
           /\ Over(s, r) => Over(s, g)
  <1>1. ASSUME Kept(s, r) PROVE Kept(s, g)
    BY <1>1 DEF Kept, SameTable
  <1>2. ASSUME Over(s, r) PROVE Over(s, g)
    <2>1. Bank(r) = Bank(g)
      BY KeptBank
    <2> QED
      BY <1>2, <2>1 DEF Over, Kept, SameTable
  <1> QED
    BY <1>1, <1>2

\* A state in which only the hand, the phase or one player is another
LEMMA HandChanged ==
    ASSUME NEW g \in Games, NEW h \in Hands,
           NEW phase \in BettingPhases \cup {"WAITING_FOR_PLAYERS"}
    PROVE  LET s == [g EXCEPT !.hand = h, !.phase = phase]
           IN  /\ s \in Games /\ s.hand = h /\ s.phase = phase
               /\ s.players = g.players /\ s.order = g.order
  BY DEF Games

\* A state in which one player has another stack, status or count, on his seat
LEMMA PlayerChanged ==
    ASSUME NEW g \in Games, OwnSeats(g.players), NEW u \in Seated(g), NEW p \in SomePlayer,
           p.seat = g.players[u].seat
    PROVE  LET s == [g EXCEPT !.players = [g.players EXCEPT ![u] = p]]
           IN  /\ s \in Games /\ s.hand = g.hand /\ s.phase = g.phase /\ s.order = g.order
               /\ Seated(s) = Seated(g) /\ s.players[u] = p
               /\ \A v \in Seated(g) \ {u} : s.players[v] = g.players[v]
               /\ SameTable(s, g) /\ OwnSeats(s.players)
  <1> DEFINE ps == [g.players EXCEPT ![u] = p]
             s == [g EXCEPT !.players = ps]
  <1>1. g.players \in [Seated(g) -> SomePlayer] /\ Seated(g) \subseteq Users
    BY GameIs
  <1>2. /\ ps \in [Seated(g) -> SomePlayer] /\ ps[u] = p
        /\ \A v \in Seated(g) \ {u} : ps[v] = g.players[v]
    BY <1>1
  <1>3. \A v \in Seated(g) : ps[v].seat = g.players[v].seat
    BY <1>2
  <1> HIDE DEF ps
  <1>4. ps \in OverSomeUsers(SomePlayer) /\ DOMAIN ps = Seated(g) /\ DOMAIN g.players = Seated(g)
    BY <1>1, <1>2, OverSomeUsersIs
  <1>5. s \in Games /\ s.hand = g.hand /\ s.phase = g.phase /\ s.order = g.order /\ s.players = ps
    BY <1>4 DEF Games
  <1> HIDE DEF s
  <1>6. Seated(s) = Seated(g)
    BY <1>4, <1>5 DEF Seated
  <1>7. SameTable(s, g) /\ OwnSeats(s.players)
    BY <1>3, <1>4, <1>5, <1>6 DEF SameTable, OwnSeats
  <1> QED
    BY <1>2, <1>5, <1>6, <1>7 DEF s, ps

\* A new count of timeouts, and perhaps a seat that is sat out, change nothing
\* of the hand.
LEMMA StatusKept ==
    ASSUME NEW g \in Games, OwnSeats(g.players), NEW u \in Seated(g), NEW p \in SomePlayer,
           p.seat = g.players[u].seat, p.stack = g.players[u].stack,
           p.status \in {g.players[u].status, "SIT_OUT"},
           NEW s, s = [g EXCEPT !.players = [g.players EXCEPT ![u] = p]]
    PROVE  /\ InPlay(g) => Kept(s, g) /\ s.phase = g.phase /\ s.hand = g.hand
           /\ \A f : Over(g, f) => Over(s, f)
  <1>4. /\ s \in Games /\ s.hand = g.hand /\ s.phase = g.phase /\ s.order = g.order
        /\ Seated(s) = Seated(g) /\ s.players[u] = p
        /\ \A v \in Seated(g) \ {u} : s.players[v] = g.players[v]
        /\ SameTable(s, g) /\ OwnSeats(s.players)
    BY PlayerChanged
  <1>5. \A v \in Seated(g) : /\ s.players[v].stack = g.players[v].stack
                             /\ s.players[v].status \in {g.players[v].status, "SIT_OUT"}
    BY <1>4
  <1>6. ASSUME InPlay(g) PROVE Kept(s, g)
    <2>1. Bystanding(s, g)
      BY <1>5 DEF Bystanding
    <2>2. NoNewChips(s, g)
      <3>1. \A v \in Users : g.hand.bets[v] \in Nat
        BY GameIs
      <3>2. \A v \in Seated(g) : g.players[v].stack \in Nat
        BY GameIs
      <3>3. \A v \in DOMAIN g.hand.start : v \in Users
        BY GameIs
      <3> QED
        BY <1>4, <1>5, <3>1, <3>2, <3>3 DEF NoNewChips
    <2>3. SoundBets(s, g)
      BY <1>4, <1>6 DEF SoundBets, InPlay, BetsCovered
    <2> QED
      BY <1>4, <1>6, <2>1, <2>2, <2>3, KeptIs
  <1>7. ASSUME NEW f, Over(g, f) PROVE Over(s, f)
    <2>1. StacksOf(s.players) = StacksOf(g.players)
      <3>1. [v \in DOMAIN s.players |-> s.players[v].stack]
               = [v \in DOMAIN g.players |-> g.players[v].stack]
        BY <1>4, <1>5 DEF Seated
      <3> QED
        BY <3>1, Zenon DEF StacksOf
    <2> QED
      BY <1>4, <1>7, <2>1 DEF Over, SameTable
  <1> QED
    BY <1>4, <1>6, <1>7

-----------------------------------------------------------------------------
(* Bets *)

\* A bet takes its chips from the stack.
Betted(s, g, u, total) ==
    /\ s \in Games /\ SameTable(s, g) /\ s.phase = g.phase
    /\ s.hand = [g.hand EXCEPT !.bets = [g.hand.bets EXCEPT ![u] = total]]
    /\ s.players[u].stack = g.players[u].stack - (total - g.hand.bets[u])
    /\ s.players[u].status \in {g.players[u].status, "ALL_IN"}
    /\ s.players[u].stack > 0 \/ s.players[u].status = "ALL_IN"
    /\ \A v \in Seated(g) \ {u} : s.players[v] = g.players[v]

\* Chips up to a total that the player has go from his stack to his bet, and
\* everybody else is left alone.
LEMMA BetTotalIs ==
    ASSUME NEW g \in Games, OwnSeats(g.players), NEW u \in Seated(g), NEW total \in Nat,
           total <= g.hand.bets[u] + g.players[u].stack
    PROVE  Betted(BetTotal(g, u, total), g, u, total)
  <1> DEFINE p == g.players[u]
             h == g.hand
             left == p.stack - (total - h.bets[u])
             p2 == [p EXCEPT !.stack = left, !.status = IF left = 0 THEN "ALL_IN" ELSE p.status]
             r1 == [g EXCEPT !.players = [g.players EXCEPT ![u] = p2]]
             h2 == [h EXCEPT !.bets = [h.bets EXCEPT ![u] = total]]
             r == BetTotal(g, u, total)
  <1>1. /\ p \in SomePlayer /\ p.stack \in Nat /\ h \in Hands /\ h.bets \in [Users -> Nat]
        /\ g.players \in [Seated(g) -> SomePlayer] /\ Seated(g) \subseteq Users
        /\ u \in Users
    BY GameIs
  <1>2. left \in Nat
    BY <1>1
  <1>3. /\ p2 \in SomePlayer /\ p2.seat = p.seat /\ p2.stack = left
        /\ p2.status \in {p.status, "ALL_IN"} /\ (left > 0 \/ p2.status = "ALL_IN")
    <2> HIDE DEF left, p
    <2>1. CASE left = 0
      <3>1. p2 = [p EXCEPT !.stack = left, !.status = "ALL_IN"]
        BY <2>1
      <3> HIDE DEF p2
      <3> QED
        BY <1>1, <1>2, <3>1 DEF SomePlayer, Statuses
    <2>2. CASE left # 0
      <3>1. p2 = [p EXCEPT !.stack = left]
        BY <1>1, <2>2 DEF SomePlayer
      <3> HIDE DEF p2
      <3> QED
        BY <1>1, <1>2, <2>2, <3>1 DEF SomePlayer
    <2> QED
      BY <2>1, <2>2
  <1>4. h2 \in Hands
    BY <1>1 DEF Hands
  <1>5. r = [g EXCEPT !.players = [g.players EXCEPT ![u] = p2], !.hand = h2]
    BY <1>1 DEF BetTotal, Games, Hands, SomePlayer
  <1> HIDE DEF p2, h2, r, left
  <1>6. /\ r1 \in Games /\ r1.hand = g.hand /\ r1.phase = g.phase /\ r1.order = g.order
        /\ Seated(r1) = Seated(g) /\ r1.players[u] = p2
        /\ \A v \in Seated(g) \ {u} : r1.players[v] = g.players[v]
        /\ SameTable(r1, g)
    BY <1>3, PlayerChanged
  <1>7. r = [r1 EXCEPT !.hand = h2, !.phase = g.phase]
    BY <1>5, <1>6 DEF Games
  <1>8. g.phase \in BettingPhases \cup {"WAITING_FOR_PLAYERS"}
    BY DEF Games
  <1> HIDE DEF r1
  <1>9. /\ r \in Games /\ r.hand = h2 /\ r.phase = g.phase /\ r.players = r1.players
        /\ r.order = r1.order
    BY <1>4, <1>6, <1>7, <1>8 DEF Games
  <1>10. SameTable(r, g)
    BY <1>6, <1>9 DEF SameTable, Seated
  <1>11. r.players[u] = p2 /\ \A v \in Seated(g) \ {u} : r.players[v] = g.players[v]
    BY <1>6, <1>9
  <1> QED
    BY <1>3, <1>9, <1>10, <1>11 DEF Betted, left, h2, r

\* Who has acted is remembered, and nothing else.
LEMMA MarkActedIs ==
    ASSUME NEW g, InPlay(g), NEW u \in Seated(g)
    PROVE  LET s == MarkActed(g, u)
           IN  /\ Kept(s, g) /\ s.phase = g.phase /\ s.players = g.players
               /\ s.hand.phase = g.hand.phase
  <1> DEFINE s == MarkActed(g, u)
             h == [g.hand EXCEPT !.acted = @ \cup {g.players[u].seat}]
  <1>1. g \in Games /\ OwnSeats(g.players) /\ g.hand \in Hands /\ g.players[u].seat \in SeatIndex
    BY GameIs DEF InPlay
  <1>2. h \in Hands /\ h.phase = g.hand.phase /\ h.start = g.hand.start
        /\ h.start_order = g.hand.start_order /\ h.dealer = g.hand.dealer
        /\ h.bets = g.hand.bets /\ h.current_bet = g.hand.current_bet
        /\ h.min_raise_to = g.hand.min_raise_to
    BY <1>1 DEF Hands
  <1>3. s = [g EXCEPT !.hand = h]
    BY <1>1 DEF MarkActed, Games
  <1> HIDE DEF h, s
  <1>4. /\ s \in Games /\ s.hand = h /\ s.phase = g.phase /\ s.players = g.players
        /\ s.order = g.order
    BY <1>1, <1>2, <1>3 DEF Games
  <1>5. SameTable(s, g)
    BY <1>4 DEF SameTable, Seated
  <1>6. Bystanding(s, g)
    BY <1>4 DEF Bystanding
  <1>7. NoNewChips(s, g)
    <2>1. \A v \in Users : g.hand.bets[v] \in Nat
      BY <1>1, GameIs
    <2>2. \A v \in Seated(g) : g.players[v].stack \in Nat
      BY <1>1, GameIs
    <2>3. \A v \in DOMAIN g.hand.start : v \in Users
      BY <1>1, GameIs
    <2> QED
      BY <1>2, <1>4, <2>1, <2>2, <2>3 DEF NoNewChips
  <1>8. SoundBets(s, g)
    BY <1>2, <1>4 DEF SoundBets, InPlay, BetsCovered
  <1>9. Kept(s, g)
    BY <1>2, <1>4, <1>5, <1>6, <1>7, <1>8, KeptIs
  <1> QED
    BY <1>2, <1>4, <1>9 DEF s

\* A bet that is put in by a player who was dealt in, up to a total, under a
\* current bet that is raised to it if need be
LEMMA BetKept ==
    ASSUME NEW g, InPlay(g), NEW u \in Seated(g), u \in DOMAIN g.hand.start,
           NEW total \in Nat, NEW b, Betted(b, g, u, total),
           NEW s \in Games, s.players = b.players, s.order = b.order,
           NEW h \in Hands, s.hand = h, h.start = b.hand.start,
           h.start_order = b.hand.start_order, h.dealer = b.hand.dealer, h.bets = b.hand.bets,
           g.hand.current_bet <= h.current_bet, total <= h.current_bet,
           h.current_bet <= h.min_raise_to
    PROVE  Kept(s, g)
  <1>1. /\ g \in Games /\ OwnSeats(g.players) /\ g.hand \in Hands
        /\ \A v \in Seated(g) : g.players[v].stack \in Nat
        /\ g.hand.bets \in [Users -> Nat] /\ DOMAIN g.hand.start \subseteq Users
        /\ g.hand.current_bet \in Nat /\ Seated(g) \subseteq Users
    BY GameIs DEF InPlay
  <1>2. /\ b.hand.start = g.hand.start /\ b.hand.start_order = g.hand.start_order
        /\ b.hand.dealer = g.hand.dealer /\ b.hand.bets = [g.hand.bets EXCEPT ![u] = total]
    BY <1>1 DEF Betted, Hands
  <1>3. SameTable(s, g)
    BY DEF Betted, SameTable, Seated
  <1>4. Bystanding(s, g)
    BY DEF Betted, Bystanding
  <1>5. h.bets[u] = total /\ \A v \in Users \ {u} : h.bets[v] = g.hand.bets[v]
    BY <1>1, <1>2
  <1>6. NoNewChips(s, g)
    <2>1. \A v \in Seated(g) \ {u} : s.players[v] = g.players[v]
      BY DEF Betted
    <2>2. total + s.players[u].stack <= g.hand.bets[u] + g.players[u].stack
      <3>1. s.players[u].stack = g.players[u].stack - (total - g.hand.bets[u])
        BY DEF Betted
      <3>2. g.players[u].stack \in Nat /\ g.hand.bets[u] \in Nat
        BY <1>1
      <3> QED
        BY <3>1, <3>2
    <2>3. ASSUME NEW v \in DOMAIN g.hand.start
          PROVE  IF v \in Seated(g)
                   THEN s.hand.bets[v] + s.players[v].stack
                           <= g.hand.bets[v] + g.players[v].stack
                   ELSE s.hand.bets[v] <= g.hand.bets[v]
      <3>1. CASE v = u
        BY <1>5, <2>2, <3>1
      <3>2. CASE v # u
        <4>1. s.hand.bets[v] = g.hand.bets[v] /\ g.hand.bets[v] \in Nat
          BY <1>1, <1>5, <3>2
        <4>2. CASE v \in Seated(g)
          <5>1. s.players[v].stack = g.players[v].stack /\ g.players[v].stack \in Nat
            BY <1>1, <2>1, <3>2, <4>2
          <5> QED
            BY <4>1, <4>2, <5>1
        <4> QED
          BY <4>1, <4>2
      <3> QED
        BY <3>1, <3>2
    <2> QED
      BY <2>3 DEF NoNewChips
  <1>7. SoundBets(s, g)
    <2>1. h.current_bet \in Nat
      BY DEF Hands
    <2>2. ASSUME NEW v \in Users
          PROVE  /\ s.hand.bets[v] <= s.hand.current_bet
                 /\ v \notin DOMAIN g.hand.start => s.hand.bets[v] = 0
      <3>1. CASE v = u
        BY <1>5, <3>1
      <3>2. CASE v # u
        <4>1. s.hand.bets[v] = g.hand.bets[v] /\ g.hand.bets[v] \in Nat
          BY <1>1, <1>5, <3>2
        <4>2. g.hand.bets[v] <= g.hand.current_bet
              /\ (v \notin DOMAIN g.hand.start => g.hand.bets[v] = 0)
          BY DEF InPlay, BetsCovered
        <4> QED
          BY <1>1, <2>1, <4>1, <4>2
      <3> QED
        BY <3>1, <3>2
    <2> QED
      BY <2>2 DEF SoundBets
  <1> QED
    BY <1>2, <1>3, <1>4, <1>6, <1>7, KeptIs

\* A call, or an all-in that raises nothing
LEMMA CallIs ==
    ASSUME NEW g, InPlay(g), NEW u \in Seated(g), u \in DOMAIN g.hand.start,
           NEW total \in Nat, total <= g.hand.bets[u] + g.players[u].stack,
           total <= g.hand.current_bet
    PROVE  LET s == MarkActed(BetTotal(g, u, total), u)
           IN  Kept(s, g) /\ s.phase = g.phase /\ s.hand.phase = g.hand.phase
  <1> DEFINE b == BetTotal(g, u, total)
  <1>1. g \in Games /\ OwnSeats(g.players) /\ g.hand \in Hands /\ g.hand.current_bet \in Nat
        /\ g.hand.min_raise_to \in Nat
    BY GameIs DEF InPlay
  <1>2. Betted(b, g, u, total)
    BY <1>1, BetTotalIs
  <1> HIDE DEF b
  <1>3. /\ b \in Games /\ b.phase = g.phase /\ b.hand.phase = g.hand.phase
        /\ b.hand.current_bet = g.hand.current_bet
        /\ b.hand.min_raise_to = g.hand.min_raise_to /\ b.hand \in Hands
    BY <1>1, <1>2 DEF Betted, Hands, Games
  <1>4. g.hand.current_bet <= g.hand.min_raise_to
    BY DEF InPlay, BetsCovered
  <1>5. /\ g.hand.current_bet <= b.hand.current_bet /\ total <= b.hand.current_bet
        /\ b.hand.current_bet <= b.hand.min_raise_to
    BY <1>1, <1>3, <1>4
  <1>6. Kept(b, g)
    <2> DEFINE h == b.hand
    <2>1. h \in Hands /\ b.hand = h /\ h.start = b.hand.start
          /\ h.start_order = b.hand.start_order /\ h.dealer = b.hand.dealer
          /\ h.bets = b.hand.bets
      BY <1>3
    <2> HIDE DEF h
    <2> QED
      BY <1>2, <1>3, <1>5, <2>1, BetKept
  <1>7. InPlay(b) /\ u \in Seated(b)
    BY <1>6 DEF Kept, SameTable
  <1> DEFINE s == MarkActed(b, u)
  <1>8. Kept(s, b) /\ s.phase = b.phase /\ s.hand.phase = b.hand.phase
    BY <1>7, MarkActedIs
  <1> HIDE DEF s
  <1>9. Kept(s, g)
    BY <1>6, <1>8, KeptAgain
  <1> QED
    BY <1>3, <1>8, <1>9 DEF s, b

\* A raise
LEMMA RaiseIs ==
    ASSUME NEW g, InPlay(g), NEW u \in Seated(g), u \in DOMAIN g.hand.start,
           NEW total \in Nat, total <= g.hand.bets[u] + g.players[u].stack,
           g.hand.current_bet <= total
    PROVE  LET s == RaiseTo(g, u, total)
           IN  Kept(s, g) /\ s.phase = g.phase /\ s.hand.phase = g.hand.phase
  <1> DEFINE b == BetTotal(g, u, total)
             mrt == 2 * total - g.hand.current_bet
             h == [b.hand EXCEPT !.current_bet = total, !.min_raise_to = mrt,
                                 !.acted = {g.players[u].seat}]
             s == RaiseTo(g, u, total)
  <1>1. g \in Games /\ OwnSeats(g.players) /\ g.hand \in Hands /\ g.hand.current_bet \in Nat
        /\ g.players[u].seat \in SeatIndex
    BY GameIs DEF InPlay
  <1>2. Betted(b, g, u, total)
    BY <1>1, BetTotalIs
  <1>3. b \in Games /\ b.phase = g.phase /\ b.hand.phase = g.hand.phase /\ b.hand \in Hands
    BY <1>1, <1>2 DEF Betted, Hands, Games
  <1>4. mrt \in Nat /\ total <= mrt
    BY <1>1
  <1>5. s = [b EXCEPT !.hand = h]
    BY <1>3 DEF RaiseTo, Games, Hands
  <1> HIDE DEF b, mrt, s
  <1>6. /\ h \in Hands /\ h.start = b.hand.start /\ h.start_order = b.hand.start_order
        /\ h.dealer = b.hand.dealer /\ h.bets = b.hand.bets /\ h.phase = b.hand.phase
        /\ h.current_bet = total /\ h.min_raise_to = mrt
    BY <1>1, <1>3, <1>4 DEF Hands
  <1> HIDE DEF h
  <1>7. /\ s \in Games /\ s.hand = h /\ s.phase = b.phase /\ s.players = b.players
        /\ s.order = b.order
    BY <1>3, <1>5, <1>6 DEF Games
  <1>8. g.hand.current_bet <= h.current_bet /\ total <= h.current_bet
        /\ h.current_bet <= h.min_raise_to
    BY <1>4, <1>6
  <1>9. Kept(s, g)
    BY <1>2, <1>6, <1>7, <1>8, BetKept
  <1> QED
    BY <1>3, <1>6, <1>7, <1>9 DEF s

-----------------------------------------------------------------------------
(* Betting rounds *)

\* What a call of the engine returns while a hand is on: the hand goes on in a
\* betting round, or it is over.
PlayedOn(s, g) ==
    Kept(s, g) /\ s.phase \in BettingPhases /\ s.hand.phase = s.phase

Played(s, g) == PlayedOn(s, g) \/ Over(s, g)

\* What a later state of a hand is played to, the hand is played to.
LEMMA PlayedAgain ==
    ASSUME NEW r, NEW g, Kept(r, g), NEW s, Played(s, r)
    PROVE  Played(s, g)
  BY KeptAgain DEF Played, PlayedOn

\* The turn goes to some seat.
LEMMA TurnIs ==
    ASSUME NEW g, InPlay(g), NEW seat \in AnySeat
    PROVE  LET s == [g EXCEPT !.hand.turn = seat]
           IN  /\ Kept(s, g) /\ s.phase = g.phase /\ s.players = g.players
               /\ s.hand = [g.hand EXCEPT !.turn = seat]
  <1> DEFINE s == [g EXCEPT !.hand.turn = seat]
             h == [g.hand EXCEPT !.turn = seat]
  <1>1. g \in Games /\ OwnSeats(g.players) /\ g.hand \in Hands
    BY GameIs DEF InPlay
  <1>2. h \in Hands /\ h.phase = g.hand.phase /\ h.start = g.hand.start
        /\ h.start_order = g.hand.start_order /\ h.dealer = g.hand.dealer
        /\ h.bets = g.hand.bets /\ h.current_bet = g.hand.current_bet
        /\ h.min_raise_to = g.hand.min_raise_to
    BY <1>1 DEF Hands
  <1>3. s = [g EXCEPT !.hand = h]
    BY <1>1 DEF Games
  <1> HIDE DEF h, s
  <1>4. /\ s \in Games /\ s.hand = h /\ s.phase = g.phase /\ s.players = g.players
        /\ s.order = g.order
    BY <1>1, <1>2, <1>3 DEF Games
  <1>5. SameTable(s, g)
    BY <1>4 DEF SameTable, Seated
  <1>6. Bystanding(s, g)
    BY <1>4 DEF Bystanding
  <1>7. NoNewChips(s, g)
    <2>1. \A v \in Users : g.hand.bets[v] \in Nat
      BY <1>1, GameIs
    <2>2. \A v \in Seated(g) : g.players[v].stack \in Nat
      BY <1>1, GameIs
    <2>3. \A v \in DOMAIN g.hand.start : v \in Users
      BY <1>1, GameIs
    <2> QED
      BY <1>2, <1>4, <2>1, <2>2, <2>3 DEF NoNewChips
  <1>8. SoundBets(s, g)
    BY <1>2, <1>4 DEF SoundBets, InPlay, BetsCovered
  <1>9. Kept(s, g)
    BY <1>2, <1>4, <1>5, <1>6, <1>7, <1>8, KeptIs
  <1> QED
    BY <1>4, <1>9 DEF s, h

\* A hand run out to the showdown is over.
LEMMA RunOutIs ==
    ASSUME NEW g, InPlay(g), NEW s \in RunOutBoard(g)
    PROVE  Over(s, g)
  <1> DEFINE r == [g EXCEPT !.hand.turn = NoSeat]
  <1>1. NoSeat \in AnySeat
    BY DEF AnySeat
  <1>2. Kept(r, g)
    BY <1>1, TurnIs
  <1>3. s \in AwardHand(r)
    BY DEF RunOutBoard
  <1> HIDE DEF r
  <1>4. Over(s, r)
    BY <1>2, <1>3, AwardHandIs DEF Kept
  <1> QED
    BY <1>2, <1>4, KeptAgain

\* A new betting round starts from nothing, the first one from the blinds.
LEMMA OpenRoundIs ==
    ASSUME NEW g, InPlay(g), NEW phase \in BettingPhases
    PROVE  LET o == OpenRound(g, phase)
           IN  /\ Kept(o, g) /\ o.phase = phase /\ o.hand.phase = phase
               /\ o.players = g.players /\ o.hand.acted = {}
  <1> DEFINE first == phase = "PRE_FLOP"
             bets == IF first THEN g.hand.bets ELSE NoBets
             cb == IF first THEN g.hand.current_bet ELSE 0
             mrt == IF first THEN g.hand.min_raise_to ELSE BigBlind
             h == [g.hand EXCEPT !.current_bet = cb, !.bets = bets, !.min_raise_to = mrt,
                                 !.phase = phase, !.acted = {}]
             o == OpenRound(g, phase)
  <1>1. /\ g \in Games /\ OwnSeats(g.players) /\ g.hand \in Hands
        /\ g.hand.bets \in [Users -> Nat] /\ g.hand.current_bet \in Nat
        /\ g.hand.min_raise_to \in Nat
    BY GameIs DEF InPlay
  <1>2. bets \in [Users -> Nat] /\ cb \in Nat /\ mrt \in Nat
    BY <1>1, Configured DEF NoBets
  <1>3. o = [g EXCEPT !.hand = h, !.phase = phase]
    <2>1. CASE phase = "PRE_FLOP"
      BY <1>1, <2>1 DEF OpenRound, Games, Hands
    <2>2. CASE phase # "PRE_FLOP"
      BY <1>1, <2>2 DEF OpenRound, Games, Hands
    <2> QED
      BY <2>1, <2>2
  <1>4. cb <= mrt /\ \A u \in Users : /\ bets[u] <= g.hand.bets[u] /\ bets[u] <= cb
                                      /\ u \notin DOMAIN g.hand.start => bets[u] = 0
    <2>1. /\ g.hand.current_bet <= g.hand.min_raise_to
          /\ \A u \in Users : /\ g.hand.bets[u] <= g.hand.current_bet
                              /\ u \notin DOMAIN g.hand.start => g.hand.bets[u] = 0
      BY DEF InPlay, BetsCovered
    <2>2. CASE first
      BY <1>1, <2>1, <2>2
    <2>3. CASE ~first
      <3>1. \A u \in Users : NoBets[u] = 0 /\ g.hand.bets[u] \in Nat
        BY <1>1 DEF NoBets
      <3>2. BigBlind \in Nat
        BY Configured
      <3> QED
        BY <2>3, <3>1, <3>2
    <2> QED
      BY <2>2, <2>3
  <1> HIDE DEF first, bets, cb, mrt, o
  <1>5. /\ h \in Hands /\ h.start = g.hand.start /\ h.start_order = g.hand.start_order
        /\ h.dealer = g.hand.dealer /\ h.bets = bets /\ h.current_bet = cb
        /\ h.min_raise_to = mrt /\ h.phase = phase /\ h.acted = {}
    BY <1>1, <1>2 DEF Hands, HandPhases
  <1> HIDE DEF h
  <1>6. o \in Games /\ o.hand = h /\ o.phase = phase /\ o.players = g.players /\ o.order = g.order
    BY <1>1, <1>3, <1>5 DEF Games
  <1>7. SameTable(o, g)
    BY <1>6 DEF SameTable, Seated
  <1>8. Bystanding(o, g)
    BY <1>6 DEF Bystanding
  <1>9. NoNewChips(o, g)
    <2>1. \A v \in Users : g.hand.bets[v] \in Nat /\ bets[v] \in Nat /\ bets[v] <= g.hand.bets[v]
      BY <1>1, <1>2, <1>4
    <2>2. \A v \in Seated(g) : g.players[v].stack \in Nat
      BY <1>1, GameIs
    <2>3. \A v \in DOMAIN g.hand.start : v \in Users
      BY <1>1, GameIs
    <2> QED
      BY <1>5, <1>6, <2>1, <2>2, <2>3 DEF NoNewChips
  <1>10. SoundBets(o, g)
    BY <1>4, <1>5, <1>6 DEF SoundBets
  <1>11. Kept(o, g)
    BY <1>5, <1>6, <1>7, <1>8, <1>9, <1>10, KeptIs
  <1> QED
    BY <1>5, <1>6, <1>11 DEF o

\* The seats of some of the players
LEMMA SeatsOfIs ==
    ASSUME NEW g, InPlay(g), NEW T \in SUBSET Seated(g)
    PROVE  SeatsOf(g, T) \in SUBSET SeatIndex /\ (T # {} => SeatsOf(g, T) # {})
  <1>1. \A u \in Seated(g) : g.players[u].seat \in SeatIndex
    BY GameIs DEF InPlay
  <1> QED
    BY <1>1 DEF SeatsOf

\* The next seat of some of the players is the seat of one of them.
LEMMA NextSeatOf ==
    ASSUME NEW g, InPlay(g), NEW T \in SUBSET Seated(g), T # {}, NEW from
    PROVE  NextSeat(SeatsOf(g, T), from) \in SeatsOf(g, T)
           /\ NextSeat(SeatsOf(g, T), from) \in AnySeat
  <1> DEFINE R == SeatsOf(g, T)
  <1>1. R \in SUBSET SeatIndex /\ R # {}
    BY SeatsOfIs
  <1>2. SeatIndex \subseteq Nat
    BY Configured
  <1> HIDE DEF R
  <1>3. NextSeat(R, from) \in R
    BY <1>1, <1>2, NextSeatIs
  <1> QED
    BY <1>1, <1>3 DEF R, AnySeat

\* _begin_betting_round
LEMMA BeginIs ==
    ASSUME NEW g, InPlay(g), NEW phase \in BettingPhases, NEW s \in BeginBettingRound(g, phase)
    PROVE  Played(s, g)
  <1> DEFINE o == OpenRound(g, phase)
  <1>1. Kept(o, g) /\ o.phase = phase /\ o.hand.phase = phase
    BY OpenRoundIs
  <1>2. \/ Cardinality(CanAct(o)) <= 1 /\ s \in RunOutBoard(o)
        \/ ~(Cardinality(CanAct(o)) <= 1) /\ s = [o EXCEPT !.hand.turn = FirstToAct(o, phase)]
    BY DEF BeginBettingRound
  <1> HIDE DEF o
  <1>3. InPlay(o)
    BY <1>1 DEF Kept
  <1>4. CASE s \in RunOutBoard(o)
    <2>1. Over(s, o)
      BY <1>3, <1>4, RunOutIs
    <2> QED
      BY <1>1, <2>1, KeptAgain DEF Played
  <1>5. CASE ~(Cardinality(CanAct(o)) <= 1) /\ s = [o EXCEPT !.hand.turn = FirstToAct(o, phase)]
    <2> DEFINE seat == FirstToAct(o, phase)
    <2>1. CanAct(o) \in SUBSET Seated(o)
      BY DEF CanAct, WithStatus
    <2>2. CanAct(o) # {}
      <3>1. Cardinality({}) = 0
        BY FS_EmptySet
      <3> QED
        BY <1>5, <3>1
    <2>3. seat \in AnySeat
      BY <1>3, <2>1, <2>2, NextSeatOf, Zenon DEF FirstToAct
    <2>4. s = [o EXCEPT !.hand.turn = seat]
      BY <1>5
    <2>5. o.hand \in Hands
      BY <1>3, GameIs DEF InPlay
    <2> HIDE DEF seat
    <2>6. Kept(s, o) /\ s.phase = o.phase /\ s.hand = [o.hand EXCEPT !.turn = seat]
      BY <1>3, <2>3, <2>4, TurnIs
    <2>7. s.hand.phase = o.hand.phase
      BY <2>5, <2>6 DEF Hands
    <2>8. Kept(s, g)
      BY <1>1, <2>6, KeptAgain
    <2> QED
      BY <1>1, <2>6, <2>7, <2>8 DEF Played, PlayedOn
  <1> QED
    BY <1>2, <1>4, <1>5

\* _advance
LEMMA AdvanceIs ==
    ASSUME NEW g, InPlay(g), g.phase \in BettingPhases, g.hand.phase = g.phase,
           NEW s \in Advance(g)
    PROVE  Played(s, g)
  <1>1. \/ s \in AwardHand(g)
        \/ ~BettingRoundComplete(g) /\ s = [g EXCEPT !.hand.turn = NextActiveSeat(g)]
        \/ g.hand.phase # "RIVER" /\ s \in BeginBettingRound(g, PhaseAfter[g.hand.phase])
    BY DEF Advance, NextPhase
  <1>2. CASE s \in AwardHand(g)
    BY <1>2, AwardHandIs DEF Played
  <1>3. CASE ~BettingRoundComplete(g) /\ s = [g EXCEPT !.hand.turn = NextActiveSeat(g)]
    <2> DEFINE seat == NextActiveSeat(g)
               T == {u \in CanAct(g) : Owes(g, u)}
    <2>1. T \in SUBSET Seated(g)
      BY DEF CanAct, WithStatus
    <2>2. T # {}
      BY <1>3 DEF BettingRoundComplete
    <2>3. seat \in AnySeat
      <3> HIDE DEF T
      <3>1. seat = NextSeat(SeatsOf(g, T), Anchor(Seats(g), g.hand.turn))
        BY DEF NextActiveSeat, T
      <3> HIDE DEF seat
      <3> QED
        BY <2>1, <2>2, <3>1, NextSeatOf, Zenon
    <2>4. s = [g EXCEPT !.hand.turn = seat]
      BY <1>3
    <2>5. g.hand \in Hands
      BY GameIs DEF InPlay
    <2> HIDE DEF seat
    <2>6. Kept(s, g) /\ s.phase = g.phase /\ s.hand = [g.hand EXCEPT !.turn = seat]
      BY <2>3, <2>4, TurnIs
    <2>7. s.hand.phase = g.hand.phase
      BY <2>5, <2>6 DEF Hands
    <2> QED
      BY <2>6, <2>7 DEF Played, PlayedOn
  <1>4. CASE g.hand.phase # "RIVER" /\ s \in BeginBettingRound(g, PhaseAfter[g.hand.phase])
    <2>1. g.hand.phase \in {"PRE_FLOP", "FLOP", "TURN"}
      BY <1>4 DEF BettingPhases
    <2>2. PhaseAfter[g.hand.phase] \in BettingPhases
      BY <2>1 DEF PhaseAfter, BettingPhases
    <2> QED
      BY <1>4, <2>2, BeginIs
  <1> QED
    BY <1>1, <1>2, <1>3, <1>4

-----------------------------------------------------------------------------
(* Player actions *)

\* A player who can act was dealt in.
LEMMA ActiveIsDealt ==
    ASSUME NEW g, InPlay(g), NEW u \in Seated(g),
           g.players[u].status \notin {"WAITING", "SIT_OUT"}
    PROVE  u \in DOMAIN g.hand.start
  BY DEF InPlay, Dealt

\* One player's status is another, of which nothing of the hand depends.
LEMMA FoldKept ==
    ASSUME NEW g, InPlay(g), NEW u \in Seated(g), u \in DOMAIN g.hand.start
    PROVE  LET s == [g EXCEPT !.players[u].status = "FOLDED"]
           IN  Kept(s, g) /\ s.phase = g.phase /\ s.hand = g.hand
  <1> DEFINE p == [g.players[u] EXCEPT !.status = "FOLDED"]
             s == [g EXCEPT !.players[u].status = "FOLDED"]
  <1>1. /\ g.players[u] \in SomePlayer /\ g.players \in [Seated(g) -> SomePlayer]
        /\ Seated(g) \subseteq Users /\ g \in Games /\ OwnSeats(g.players)
    BY GameIs DEF InPlay
  <1>2. p \in SomePlayer /\ p.seat = g.players[u].seat /\ p.stack = g.players[u].stack
    BY <1>1 DEF SomePlayer, Statuses
  <1>3. s = [g EXCEPT !.players = [g.players EXCEPT ![u] = p]]
    BY <1>1 DEF Games
  <1> HIDE DEF p, s
  <1>4. /\ s \in Games /\ s.hand = g.hand /\ s.phase = g.phase
        /\ Seated(s) = Seated(g) /\ s.players[u] = p
        /\ \A v \in Seated(g) \ {u} : s.players[v] = g.players[v]
        /\ SameTable(s, g)
    BY <1>1, <1>2, <1>3, PlayerChanged
  <1>5. \A v \in Seated(g) : s.players[v].stack = g.players[v].stack
    BY <1>2, <1>4
  <1>6. Bystanding(s, g)
    BY <1>4 DEF Bystanding
  <1>7. NoNewChips(s, g)
    <2>1. \A v \in Users : g.hand.bets[v] \in Nat
      BY <1>1, GameIs
    <2>2. \A v \in Seated(g) : g.players[v].stack \in Nat
      BY <1>1, GameIs
    <2>3. \A v \in DOMAIN g.hand.start : v \in Users
      BY <1>1, GameIs
    <2> QED
      BY <1>4, <1>5, <2>1, <2>2, <2>3 DEF NoNewChips
  <1>8. SoundBets(s, g)
    BY <1>4 DEF SoundBets, InPlay, BetsCovered
  <1>9. Kept(s, g)
    BY <1>4, <1>6, <1>7, <1>8, KeptIs
  <1> QED
    BY <1>4, <1>9 DEF s

\* The effect of an action on the bets (_apply_fold and the others)
LEMMA BetIs ==
    ASSUME NEW g, InPlay(g), NEW u, NEW type \in {"fold", "check", "call", "raise", "all_in"},
           NEW amount \in Int, ValidAction(g, u, type, amount)
    PROVE  LET s == Bet(g, u, type, amount)
           IN  Kept(s, g) /\ s.phase = g.phase /\ s.hand.phase = g.hand.phase
  <1> DEFINE s == Bet(g, u, type, amount)
             stack == g.players[u].stack
             allIn == g.hand.bets[u] + stack
  <1>1. u \in Seated(g) /\ g.players[u].status = "ACTIVE"
    BY DEF ValidAction, ValidTurn
  <1>2. u \in DOMAIN g.hand.start
    BY <1>1, ActiveIsDealt
  <1>3. /\ stack \in Nat /\ g.hand.bets[u] \in Nat /\ allIn \in Nat
        /\ g.hand.current_bet \in Nat /\ g.hand.min_raise_to \in Nat
        /\ g.hand.current_bet <= g.hand.min_raise_to
    <2>1. g \in Games /\ OwnSeats(g.players) /\ BetsCovered(g)
      BY DEF InPlay
    <2>2. /\ stack \in Nat /\ g.hand.bets \in [Users -> Nat] /\ u \in Users
          /\ g.hand.current_bet \in Nat /\ g.hand.min_raise_to \in Nat
      BY <1>1, <2>1, GameIs
    <2> HIDE DEF stack
    <2> QED
      BY <2>1, <2>2 DEF BetsCovered
  <1>4. CASE type = "fold"
    <2> DEFINE f == [g EXCEPT !.players[u].status = "FOLDED"]
    <2>1. Kept(f, g) /\ f.phase = g.phase /\ f.hand = g.hand
      BY <1>1, <1>2, FoldKept
    <2>2. s = MarkActed(f, u)
      BY <1>4 DEF Bet
    <2> HIDE DEF f, s
    <2>3. InPlay(f) /\ u \in Seated(f)
      BY <1>1, <2>1 DEF Kept, SameTable
    <2>4. Kept(s, f) /\ s.phase = f.phase /\ s.hand.phase = f.hand.phase
      BY <2>2, <2>3, MarkActedIs
    <2>5. Kept(s, g)
      BY <2>1, <2>4, KeptAgain
    <2> QED
      BY <2>1, <2>4, <2>5 DEF s
  <1>5. CASE type = "check"
    <2>1. s = MarkActed(g, u)
      BY <1>5 DEF Bet
    <2> QED
      BY <1>1, <2>1, MarkActedIs
  <1>6. CASE type = "call"
    <2> DEFINE total == MinOf(g.hand.current_bet, allIn)
    <2>1. total \in Nat /\ total <= allIn /\ total <= g.hand.current_bet
      <3> HIDE DEF allIn
      <3> QED
        BY <1>3 DEF MinOf
    <2>2. s = MarkActed(BetTotal(g, u, total), u)
      BY <1>6 DEF Bet
    <2> HIDE DEF total
    <2> QED
      BY <1>1, <1>2, <2>1, <2>2, CallIs
  <1>7. CASE type = "raise"
    <2>1. amount > 0 /\ amount >= g.hand.min_raise_to /\ amount <= g.hand.bets[u] + g.players[u].stack
      BY <1>7 DEF ValidAction
    <2>2. amount \in Nat /\ g.hand.current_bet <= amount
      BY <1>3, <2>1
    <2>3. s = RaiseTo(g, u, amount)
      BY <1>7 DEF Bet
    <2> QED
      BY <1>1, <1>2, <2>1, <2>2, <2>3, RaiseIs
  <1>8. CASE type = "all_in"
    <2> DEFINE total == allIn
    <2>1. total \in Nat /\ total <= g.hand.bets[u] + g.players[u].stack
      BY <1>3
    <2>2. CASE total > g.hand.current_bet
      <3>1. s = RaiseTo(g, u, total)
        BY <1>8, <2>2 DEF Bet
      <3>2. g.hand.current_bet <= total
        BY <1>3, <2>2
      <3> HIDE DEF total
      <3> QED
        BY <1>1, <1>2, <2>1, <3>1, <3>2, RaiseIs
    <2>3. CASE ~(total > g.hand.current_bet)
      <3>1. s = MarkActed(BetTotal(g, u, total), u)
        BY <1>8, <2>3 DEF Bet
      <3>2. total <= g.hand.current_bet
        BY <1>3, <2>3
      <3> HIDE DEF total
      <3> QED
        BY <1>1, <1>2, <2>1, <3>1, <3>2, CallIs
    <2> QED
      BY <2>2, <2>3
  <1> QED
    BY <1>4, <1>5, <1>6, <1>7, <1>8

\* A valid action is not refused because the count of timeouts starts again.
LEMMA ValidKept ==
    ASSUME NEW g, NEW s, NEW u \in Seated(g), s.hand = g.hand, Seated(s) = Seated(g),
           s.players[u].seat = g.players[u].seat, s.players[u].status = g.players[u].status,
           s.players[u].stack = g.players[u].stack, NEW type, NEW amount,
           ValidAction(g, u, type, amount)
    PROVE  ValidAction(s, u, type, amount)
  BY DEF ValidAction, ValidTurn, ToCall

\* apply_action
LEMMA ApplyActionIs ==
    ASSUME NEW g, InPlay(g), g.phase \in BettingPhases, g.hand.phase = g.phase, NEW u,
           NEW type \in {"fold", "check", "call", "raise", "all_in"}, NEW amount \in Int,
           NEW s \in ApplyAction(g, u, type, amount)
    PROVE  Played(s, g) /\ u \in Seated(g)
  <1> DEFINE f == [g EXCEPT !.players[u].timeouts = 0]
             p == [g.players[u] EXCEPT !.timeouts = 0]
             b == Bet(f, u, type, amount)
  <1>1. ValidAction(g, u, type, amount) /\ s \in Advance(b)
    BY DEF ApplyAction
  <1>2. u \in Seated(g)
    BY <1>1 DEF ValidAction, ValidTurn
  <1>3. /\ g.players[u] \in SomePlayer /\ g.players \in [Seated(g) -> SomePlayer]
        /\ Seated(g) \subseteq Users /\ g \in Games /\ OwnSeats(g.players)
    BY <1>2, GameIs DEF InPlay
  <1>4. /\ p \in SomePlayer /\ p.seat = g.players[u].seat /\ p.stack = g.players[u].stack
        /\ p.status = g.players[u].status
    BY <1>3 DEF SomePlayer, Statuses
  <1>5. f = [g EXCEPT !.players = [g.players EXCEPT ![u] = p]]
    BY <1>3 DEF Games
  <1>6. p.status \in {g.players[u].status, "SIT_OUT"}
    BY <1>4
  <1> HIDE DEF p, f
  <1>7. Kept(f, g) /\ f.phase = g.phase /\ f.hand = g.hand
    BY <1>2, <1>3, <1>4, <1>5, <1>6, StatusKept
  <1>8. ValidAction(f, u, type, amount)
    <2>1. Seated(f) = Seated(g) /\ f.players[u] = p
      BY <1>2, <1>3, <1>4, <1>5, PlayerChanged
    <2> QED
      BY <1>1, <1>2, <1>4, <1>7, <2>1, ValidKept
  <1>9. InPlay(f)
    BY <1>7 DEF Kept
  <1>10. Kept(b, f) /\ b.phase = f.phase /\ b.hand.phase = f.hand.phase
    BY <1>8, <1>9, BetIs
  <1> HIDE DEF b
  <1>11. InPlay(b) /\ b.phase \in BettingPhases /\ b.hand.phase = b.phase
    BY <1>7, <1>10 DEF Kept
  <1>12. Played(s, b)
    BY <1>1, <1>11, AdvanceIs
  <1>13. Played(s, g)
    BY <1>7, <1>10, <1>12, PlayedAgain
  <1> QED
    BY <1>2, <1>13

\* handle_timeout
LEMMA HandleTimeoutIs ==
    ASSUME NEW g, InPlay(g), g.phase \in BettingPhases, g.hand.phase = g.phase,
           NEW s \in HandleTimeout(g)
    PROVE  Played(s, g)
  <1>1. CASE g.hand.turn = NoSeat \/ g.hand.turn \notin Seats(g)
    <2>1. s = g
      BY <1>1 DEF HandleTimeout
    <2> QED
      BY <2>1, KeptSelf DEF Played, PlayedOn
  <1>2. CASE ~(g.hand.turn = NoSeat \/ g.hand.turn \notin Seats(g))
    <2> DEFINE u == UserAt(g, g.hand.turn)
               count == MinOf(g.players[u].timeouts + 1, SitOutAfter)
               type == AutoAction(g, u)
               S(r) == [r EXCEPT !.players[u].timeouts = count,
                                 !.players[u].status = IF count >= SitOutAfter
                                                         THEN "SIT_OUT" ELSE @]
    <2>1. u \in Seated(g)
      BY <1>2, UserAtIs
    <2>2. g.players[u].timeouts \in Nat
      <3>1. g.players[u] \in SomePlayer
        BY <2>1, GameIs DEF InPlay
      <3> QED
        BY <3>1 DEF SomePlayer
    <2> HIDE DEF u
    <2>3. count \in Nat
      BY <2>2, Configured DEF MinOf
    <2>4. type \in {"fold", "check", "call", "raise", "all_in"} /\ 0 \in Int
      BY DEF AutoAction
    <2>5. \E r \in ApplyAction(g, u, type, 0) : s = S(r)
      BY <1>2, Zenon DEF HandleTimeout, u
    <2>6. PICK r \in ApplyAction(g, u, type, 0) : s = S(r)
      BY <2>5
    <2> HIDE DEF type, count
    <2>7. Played(r, g)
      BY <2>4, ApplyActionIs
    <2>8. r \in Games /\ OwnSeats(r.players) /\ u \in Seated(r)
      BY <2>1, <2>7 DEF Played, PlayedOn, Kept, Over, InPlay, SameTable
    <2> DEFINE status == IF count >= SitOutAfter THEN "SIT_OUT" ELSE r.players[u].status
               p == [r.players[u] EXCEPT !.timeouts = count, !.status = status]
    <2>9. r.players \in [Seated(r) -> SomePlayer] /\ r.players[u] \in SomePlayer
      BY <2>8, GameIs
    <2>10. s = [r EXCEPT !.players = [r.players EXCEPT ![u] = p]]
      BY <2>6, <2>8, <2>9 DEF Games, SomePlayer
    <2>11. /\ InPlay(r) => Kept(s, r) /\ s.phase = r.phase /\ s.hand = r.hand
           /\ \A f : Over(r, f) => Over(s, f)
      <3>1. status \in {r.players[u].status, "SIT_OUT"} /\ status \in Statuses
        BY <2>9 DEF SomePlayer, Statuses
      <3> HIDE DEF status
      <3>2. /\ p \in SomePlayer /\ p.seat = r.players[u].seat
            /\ p.stack = r.players[u].stack /\ p.status = status
        BY <2>3, <2>9, <3>1 DEF SomePlayer
      <3> HIDE DEF p, S
      <3> QED
        BY <2>8, <2>10, <3>1, <3>2, StatusKept
    <2>12. CASE PlayedOn(r, g)
      <3>1. Kept(s, r) /\ s.phase = r.phase /\ s.hand = r.hand
        BY <2>11, <2>12 DEF PlayedOn, Kept
      <3>2. Kept(s, g)
        BY <2>12, <3>1, KeptAgain DEF PlayedOn
      <3> QED
        BY <2>12, <3>1, <3>2 DEF Played, PlayedOn
    <2>13. CASE Over(r, g)
      BY <2>11, <2>13 DEF Played
    <2> QED
      BY <2>7, <2>12, <2>13 DEF Played
  <1> QED
    BY <1>1, <1>2

-----------------------------------------------------------------------------
(* Starting a hand *)

\* The table between two hands: everybody is in the order, once.
Ordered(g) == ToSet(g.order) = Seated(g) /\ IsInjective(g.order)

\* s is the table g when a hand has been started, and perhaps run out at once.
Started(s, g) ==
    /\ s \in Games /\ OwnSeats(s.players) /\ SameTable(s, g)
    /\ s.hand.dealer = NextDealer(Reset(g)) /\ s.hand.dealer \in AnySeat
    /\ \/ /\ InPlay(s) /\ s.phase \in BettingPhases /\ s.hand.phase = s.phase
          /\ Bank(s) = StacksOf(g.players) /\ DOMAIN s.hand.start = Seated(g)
       \/ /\ s.phase = "WAITING_FOR_PLAYERS"
          /\ \E dealer \in AnySeat : s.hand = EmptyHand("HAND_END", dealer)
          /\ StacksOf(s.players) = StacksOf(g.players)

\* Last hand's statuses go, and nothing else.
LEMMA ResetIs ==
    ASSUME NEW g \in Games, OwnSeats(g.players)
    PROVE  LET r == Reset(g)
           IN  /\ r \in Games /\ OwnSeats(r.players) /\ SameTable(r, g)
               /\ r.hand = g.hand /\ r.phase = g.phase
               /\ \A u \in Seated(g) : /\ r.players[u] = ResetStatus(g.players[u])
                                       /\ r.players[u].stack = g.players[u].stack
                                       /\ r.players[u].status # "WAITING"
  <1> DEFINE ps == [u \in Seated(g) |-> ResetStatus(g.players[u])]
             r == [g EXCEPT !.players = ps]
  <1>1. g.players \in [Seated(g) -> SomePlayer] /\ Seated(g) \subseteq Users
    BY GameIs
  <1>2. ASSUME NEW p \in SomePlayer
        PROVE  /\ ResetStatus(p) \in SomePlayer /\ ResetStatus(p).seat = p.seat
               /\ ResetStatus(p).stack = p.stack /\ ResetStatus(p).status # "WAITING"
    <2> DEFINE st == CASE p.status = "WAITING" -> "ACTIVE"
                       [] p.status \in {"FOLDED", "ALL_IN"} ->
                            IF p.stack > 0 THEN "ACTIVE" ELSE "SIT_OUT"
                       [] OTHER -> p.status
    <2>1. p.status \in Statuses
      BY DEF SomePlayer
    <2>2. st \in Statuses /\ st # "WAITING"
      BY <2>1 DEF Statuses
    <2>3. ResetStatus(p) = [p EXCEPT !.status = st]
      BY DEF ResetStatus
    <2> HIDE DEF st
    <2> QED
      BY <2>2, <2>3 DEF SomePlayer
  <1>3. \A u \in Seated(g) :
           /\ ps[u] \in SomePlayer /\ ps[u].seat = g.players[u].seat
           /\ ps[u].stack = g.players[u].stack /\ ps[u].status # "WAITING"
           /\ ps[u] = ResetStatus(g.players[u])
    BY <1>1, <1>2
  <1>4. ps \in [Seated(g) -> SomePlayer] /\ DOMAIN ps = Seated(g)
    BY <1>3
  <1> HIDE DEF ps
  <1>5. ps \in OverSomeUsers(SomePlayer)
    BY <1>1, <1>4, OverSomeUsersIs
  <1>6. r \in Games /\ r.players = ps /\ r.hand = g.hand /\ r.phase = g.phase /\ r.order = g.order
    BY <1>5 DEF Games
  <1> HIDE DEF r
  <1>7. Seated(r) = Seated(g) /\ DOMAIN g.players = Seated(g)
    BY <1>4, <1>6 DEF Seated
  <1>8. SameTable(r, g) /\ OwnSeats(r.players)
    BY <1>3, <1>4, <1>6, <1>7 DEF SameTable, OwnSeats
  <1> QED
    BY <1>3, <1>6, <1>8 DEF r, ps, Reset

\* _post_forced_bet
LEMMA ForcedBetIs ==
    ASSUME NEW g, InPlay(g), NEW u \in Seated(g), u \in DOMAIN g.hand.start, NEW amount \in Nat
    PROVE  LET s == PostForcedBet(g, u, amount)
           IN  Kept(s, g) /\ s.phase = g.phase /\ s.hand.phase = g.hand.phase
  <1> DEFINE total == g.hand.bets[u] + MinOf(amount, g.players[u].stack)
             b == BetTotal(g, u, total)
             s == PostForcedBet(g, u, amount)
  <1>1. /\ g \in Games /\ OwnSeats(g.players) /\ g.hand \in Hands /\ g.hand.current_bet \in Nat
        /\ g.hand.min_raise_to \in Nat /\ g.hand.bets[u] \in Nat /\ g.players[u].stack \in Nat
        /\ g.hand.current_bet <= g.hand.min_raise_to
    <2>1. g \in Games /\ OwnSeats(g.players) /\ BetsCovered(g)
      BY DEF InPlay
    <2>2. /\ g.hand \in Hands /\ g.hand.current_bet \in Nat /\ g.hand.min_raise_to \in Nat
          /\ g.hand.bets \in [Users -> Nat] /\ u \in Users /\ g.players[u].stack \in Nat
      BY <2>1, GameIs
    <2> QED
      BY <2>1, <2>2 DEF BetsCovered
  <1>2. total \in Nat /\ total <= g.hand.bets[u] + g.players[u].stack
    BY <1>1 DEF MinOf
  <1>3. s = IF total > g.hand.current_bet
              THEN [b EXCEPT !.hand.current_bet = total, !.hand.min_raise_to = total + amount]
              ELSE b
    BY DEF PostForcedBet
  <1> HIDE DEF total
  <1>4. Betted(b, g, u, total)
    BY <1>1, <1>2, BetTotalIs
  <1> HIDE DEF b, s
  <1>5. /\ b \in Games /\ b.phase = g.phase /\ b.hand.phase = g.hand.phase
        /\ b.hand.current_bet = g.hand.current_bet
        /\ b.hand.min_raise_to = g.hand.min_raise_to /\ b.hand \in Hands
    BY <1>1, <1>4 DEF Betted, Hands, Games
  <1>6. CASE total > g.hand.current_bet
    <2> DEFINE mrt == total + amount
               h == [b.hand EXCEPT !.current_bet = total, !.min_raise_to = mrt]
    <2>6. mrt \in Nat /\ total <= mrt
      BY <1>2
    <2>1. s = [b EXCEPT !.hand = h]
      BY <1>3, <1>5, <1>6 DEF Games, Hands
    <2> HIDE DEF mrt
    <2>2. /\ h \in Hands /\ h.start = b.hand.start /\ h.start_order = b.hand.start_order
          /\ h.dealer = b.hand.dealer /\ h.bets = b.hand.bets /\ h.phase = b.hand.phase
          /\ h.current_bet = total /\ h.min_raise_to = mrt
      BY <1>2, <1>5, <2>6 DEF Hands
    <2> HIDE DEF h
    <2>3. /\ s \in Games /\ s.hand = h /\ s.phase = b.phase /\ s.players = b.players
          /\ s.order = b.order
      BY <1>5, <2>1, <2>2 DEF Games
    <2>4. g.hand.current_bet <= h.current_bet /\ total <= h.current_bet
          /\ h.current_bet <= h.min_raise_to
      BY <1>1, <1>2, <1>6, <2>2, <2>6
    <2>5. Kept(s, g)
      BY <1>2, <1>4, <2>2, <2>3, <2>4, BetKept
    <2> QED
      BY <1>5, <2>2, <2>3, <2>5 DEF s
  <1>7. CASE ~(total > g.hand.current_bet)
    <2> DEFINE h == b.hand
    <2>1. s = b
      BY <1>3, <1>7
    <2>2. h \in Hands /\ s.hand = h /\ h.start = b.hand.start
          /\ h.start_order = b.hand.start_order /\ h.dealer = b.hand.dealer
          /\ h.bets = b.hand.bets
      BY <1>5, <2>1
    <2>3. g.hand.current_bet <= h.current_bet /\ total <= h.current_bet
          /\ h.current_bet <= h.min_raise_to
      BY <1>1, <1>2, <1>5, <1>7
    <2>4. s \in Games /\ s.players = b.players /\ s.order = b.order
      BY <1>5, <2>1
    <2> HIDE DEF h
    <2>5. Kept(s, g)
      BY <1>2, <1>4, <2>2, <2>3, <2>4, BetKept
    <2> QED
      BY <1>5, <2>1, <2>5 DEF s
  <1> QED
    BY <1>6, <1>7

\* The hand opens with everybody dealt in and nobody having bet.
Opened(g, dealer, bb) ==
    [g EXCEPT !.hand = [EmptyHand("START_HAND", dealer) EXCEPT
                           !.bb = bb,
                           !.min_raise_to = BigBlind,
                           !.start = [u \in Seated(g) |-> g.players[u].stack],
                           !.start_order = g.order]]

\* That is a hand in order, with all the chips of the table in it.
LEMMA OpenedIs ==
    ASSUME NEW g \in Games, OwnSeats(g.players), Ordered(g),
           NEW dealer \in AnySeat, NEW bb \in AnySeat
    PROVE  LET s == Opened(g, dealer, bb)
           IN  /\ InPlay(s) /\ SameTable(s, g) /\ s.phase = g.phase /\ s.players = g.players
               /\ DOMAIN s.hand.start = Seated(g) /\ Bank(s) = StacksOf(g.players)
               /\ s.hand.dealer = dealer
  <1> DEFINE st == [u \in Seated(g) |-> g.players[u].stack]
             e == EmptyHand("START_HAND", dealer)
             h == [e EXCEPT !.bb = bb, !.min_raise_to = BigBlind, !.start = st,
                            !.start_order = g.order]
             s == [g EXCEPT !.hand = h]
  <1>1. /\ \A u \in Seated(g) : g.players[u].stack \in Nat
        /\ Seated(g) \subseteq Users /\ g.order \in Seq(Users)
    BY GameIs
  <1>2. st \in OverSomeUsers(Nat) /\ DOMAIN st = Seated(g)
        /\ \A u \in Seated(g) : st[u] = g.players[u].stack
    <2>1. st \in [Seated(g) -> Nat] /\ DOMAIN st = Seated(g)
      BY <1>1
    <2>2. \A u \in Seated(g) : st[u] = g.players[u].stack
      OBVIOUS
    <2> HIDE DEF st
    <2> QED
      BY <1>1, <2>1, <2>2, OverSomeUsersIs
  <1>3. e \in Hands
    BY EmptyHandIs DEF HandPhases
  <1>4. e.bets = NoBets /\ e.current_bet = 0 /\ e.dealer = dealer
    BY DEF EmptyHand
  <1>5. BigBlind \in Nat
    BY Configured
  <1> HIDE DEF st, e
  <1>6. /\ h \in Hands /\ h.start = st /\ h.start_order = g.order /\ h.bets = NoBets
        /\ h.current_bet = 0 /\ h.min_raise_to = BigBlind /\ h.dealer = dealer
    BY <1>1, <1>2, <1>3, <1>4, <1>5 DEF Hands
  <1> HIDE DEF h
  <1>7. s \in Games /\ s.hand = h /\ s.phase = g.phase /\ s.players = g.players /\ s.order = g.order
    BY <1>6 DEF Games
  <1> HIDE DEF s
  <1>8. SameTable(s, g) /\ OwnSeats(s.players) /\ Seated(s) = Seated(g)
    BY <1>7 DEF SameTable, OwnSeats, Seated
  <1>9. Dealt(s)
    BY <1>2, <1>6, <1>7, <1>8 DEF Dealt, Ordered
  <1>10. BetsCovered(s)
    <2>1. \A u \in Users : h.bets[u] = 0
      BY <1>6 DEF NoBets
    <2>2. \A u \in Seated(g) : u \in Users
      BY <1>1
    <2>3. \A u \in DOMAIN h.start : u \in Seated(g) /\ h.start[u] = g.players[u].stack
                                    /\ g.players[u].stack \in Nat
      BY <1>1, <1>2, <1>6
    <2> QED
      BY <1>5, <1>6, <1>7, <1>8, <2>1, <2>2, <2>3 DEF BetsCovered
  <1>11. Bank(s) = StacksOf(g.players)
    <2> DEFINE late == [u \in Seated(s) \ DOMAIN s.hand.start |-> s.players[u].stack]
    <2>1. StacksOf(g.players) = SumFunction(st)
      <3>1. [u \in DOMAIN g.players |-> g.players[u].stack] = st
        BY DEF st, Seated
      <3> QED
        BY <3>1, Zenon DEF StacksOf
    <2>2. DOMAIN s.hand.start = Seated(s)
      BY <1>2, <1>6, <1>7, <1>8
    <2>3. late \in [{} -> Int]
      BY <2>2
    <2> HIDE DEF late
    <2>4. SumFunction(late) = SumFunctionOnSet(late, {})
      BY <2>3, SumFunctionIs
    <2>5. IsFiniteSet({}) /\ {} \in SUBSET {}
      BY FS_EmptySet
    <2>6. SumFunctionOnSet(late, {}) = 0
      BY <2>3, <2>5, SumStep
    <2>7. SumFunction(st) \in Int
      <3>1. st \in [Seated(g) -> Int] /\ Seated(g) \in SUBSET Seated(g)
        BY <1>1, <1>2 DEF st
      <3>2. IsFiniteSet(Seated(g))
        BY GameIs
      <3>3. SumFunction(st) = SumFunctionOnSet(st, Seated(g))
        BY <3>1, SumFunctionIs
      <3>4. SumFunctionOnSet(st, Seated(g)) \in Int
        BY <3>1, <3>2, SumStep
      <3> QED
        BY <3>3, <3>4
    <2>8. Bank(s) = SumFunction(st) + SumFunction(late)
      BY <1>6, <1>7, Zenon DEF Bank, late
    <2> QED
      BY <2>1, <2>4, <2>6, <2>7, <2>8
  <1>12. InPlay(s)
    BY <1>7, <1>8, <1>9, <1>10 DEF InPlay
  <1> QED
    BY <1>2, <1>6, <1>7, <1>8, <1>11, <1>12 DEF s, h, e, st, Opened

\* The blinds are posted by two of the players with chips.
LEMMA PostBlindsIs ==
    ASSUME NEW g \in Games, OwnSeats(g.players), Ordered(g),
           {u \in CanAct(g) : g.players[u].stack > 0} # {}, NEW dealer \in AnySeat
    PROVE  LET s == PostBlinds(g, dealer)
           IN  /\ InPlay(s) /\ SameTable(s, g) /\ s.phase = g.phase
               /\ DOMAIN s.hand.start = Seated(g) /\ Bank(s) = StacksOf(g.players)
               /\ s.hand.dealer = dealer
  <1> DEFINE T == {u \in CanAct(g) : g.players[u].stack > 0}
             S == SeatsOf(g, T)
             d == Anchor(S, dealer)
             sb == IF Cardinality(S) = 2 THEN d ELSE NextSeat(S, d)
             bb == NextSeat(S, sb)
             o == Opened(g, dealer, bb)
             small == PostForcedBet(o, UserAt(g, sb), SmallBlind)
             s == PostForcedBet(small, UserAt(g, bb), BigBlind)
  <1>1. S \in SUBSET SeatIndex /\ S # {} /\ S \subseteq Seats(g)
    <2>1. T \in SUBSET Seated(g) /\ T # {}
      BY DEF CanAct, WithStatus
    <2>2. \A u \in Seated(g) : g.players[u].seat \in SeatIndex
      BY GameIs
    <2> HIDE DEF T
    <2> QED
      BY <2>1, <2>2 DEF SeatsOf, Seats
  <1>2. SeatIndex \subseteq Nat /\ SmallBlind \in Nat /\ BigBlind \in Nat
    BY Configured
  <1>3. PostBlinds(g, dealer) = s
    BY DEF PostBlinds, BlindSeats, Opened
  <1> HIDE DEF S
  <1>4. S \in SUBSET Nat
    BY <1>1, <1>2
  <1>5. d \in S
    BY <1>1, <1>4, AnchorIs
  <1>6. sb \in S
    <2>1. NextSeat(S, d) \in S
      BY <1>1, <1>4, NextSeatIs
    <2> QED
      BY <1>5, <2>1
  <1> HIDE DEF sb
  <1>7. bb \in S
    BY <1>1, <1>4, NextSeatIs
  <1> HIDE DEF bb
  <1>8. UserAt(g, sb) \in Seated(g) /\ UserAt(g, bb) \in Seated(g)
    <2>1. sb \in Seats(g) /\ bb \in Seats(g)
      BY <1>1, <1>6, <1>7
    <2>2. UserAt(g, sb) \in Seated(g)
      BY <2>1, UserAtIs
    <2>3. UserAt(g, bb) \in Seated(g)
      BY <2>1, UserAtIs
    <2> QED
      BY <2>2, <2>3
  <1>9. bb \in AnySeat
    BY <1>1, <1>7 DEF AnySeat
  <1>10. /\ InPlay(o) /\ SameTable(o, g) /\ o.phase = g.phase
         /\ DOMAIN o.hand.start = Seated(g) /\ Bank(o) = StacksOf(g.players)
         /\ o.hand.dealer = dealer
    BY <1>9, OpenedIs
  <1> DEFINE x == UserAt(g, sb)
             y == UserAt(g, bb)
  <1>11. x \in Seated(o) /\ x \in DOMAIN o.hand.start
    BY <1>8, <1>10 DEF SameTable
  <1> HIDE DEF o, x, y
  <1>12. Kept(PostForcedBet(o, x, SmallBlind), o)
         /\ PostForcedBet(o, x, SmallBlind).phase = o.phase
    BY <1>2, <1>10, <1>11, ForcedBetIs
  <1>13. Kept(small, o) /\ small.phase = o.phase
    BY <1>12 DEF x
  <1> HIDE DEF small
  <1>14. InPlay(small) /\ y \in Seated(small) /\ y \in DOMAIN small.hand.start
    BY <1>8, <1>10, <1>13 DEF Kept, SameTable, y
  <1>15. Kept(PostForcedBet(small, y, BigBlind), small)
         /\ PostForcedBet(small, y, BigBlind).phase = small.phase
    BY <1>2, <1>14, ForcedBetIs
  <1>16. Kept(s, small) /\ s.phase = small.phase
    BY <1>15 DEF y
  <1> HIDE DEF s
  <1>17. Kept(s, o)
    BY <1>13, <1>16, KeptAgain
  <1>18. Bank(s) = Bank(o)
    BY <1>17, KeptBank
  <1>19. InPlay(s) /\ SameTable(s, g) /\ DOMAIN s.hand.start = Seated(g)
         /\ s.hand.dealer = dealer
    BY <1>10, <1>17 DEF Kept, SameTable
  <1> QED
    BY <1>3, <1>10, <1>13, <1>16, <1>18, <1>19

\* The straddle is a forced bet of whoever sits left of the big blind.
LEMMA StraddleIs ==
    ASSUME NEW g, InPlay(g), DOMAIN g.hand.start = Seated(g)
    PROVE  Kept(PostStraddle(g), g) /\ PostStraddle(g).phase = g.phase
  <1> DEFINE u == UserAt(g, NextSeat(Seats(g), g.hand.bb))
             s == PostStraddle(g)
  <1>1. \/ s = g
        \/ u \in CanAct(g) /\ s = PostForcedBet(g, u, 2 * BigBlind)
    BY DEF PostStraddle
  <1> HIDE DEF u, s
  <1>2. CASE s = g
    BY <1>2, KeptSelf DEF s
  <1>3. CASE u \in CanAct(g) /\ s = PostForcedBet(g, u, 2 * BigBlind)
    <2> DEFINE amount == 2 * BigBlind
    <2>1. u \in Seated(g) /\ u \in DOMAIN g.hand.start
      BY <1>3 DEF CanAct, WithStatus
    <2>2. amount \in Nat
      BY Configured
    <2>3. s = PostForcedBet(g, u, amount)
      BY <1>3
    <2> HIDE DEF amount
    <2>4. Kept(s, g) /\ s.phase = g.phase
      BY <2>1, <2>2, <2>3, ForcedBetIs
    <2> QED
      BY <2>4 DEF s
  <1> QED
    BY <1>1, <1>2, <1>3

\* The cards, and the seven-ten that is folded on the spot
LEMMA DealIs ==
    ASSUME NEW g, InPlay(g), NEW s \in DealHoleCards(g)
    PROVE  Kept(s, g) /\ s.phase = g.phase
  <1>1. PICK c \in [CanAct(g) -> Cards] :
           s = [g EXCEPT !.hand.cards = c,
                         !.players = [u \in Seated(g) |->
                              IF u \in CanAct(g) /\ c[u].kind = "seven_ten"
                                THEN [g.players[u] EXCEPT !.status = "FOLDED"]
                                ELSE g.players[u]]]
    BY DEF DealHoleCards
  <1> DEFINE ps == [u \in Seated(g) |->
                       IF u \in CanAct(g) /\ c[u].kind = "seven_ten"
                         THEN [g.players[u] EXCEPT !.status = "FOLDED"]
                         ELSE g.players[u]]
             h == [g.hand EXCEPT !.cards = c]
  <1>2. /\ g \in Games /\ OwnSeats(g.players) /\ g.hand \in Hands
        /\ g.players \in [Seated(g) -> SomePlayer] /\ Seated(g) \subseteq Users
        /\ \A u \in Users : g.hand.bets[u] \in Nat
        /\ \A u \in Seated(g) : g.players[u] \in SomePlayer /\ g.players[u].stack \in Nat
        /\ \A u \in DOMAIN g.hand.start : u \in Users
    BY GameIs DEF InPlay
  <1>3. c \in OverSomeUsers(Cards)
    <2>1. CanAct(g) \subseteq Users /\ DOMAIN c = CanAct(g)
      BY <1>2 DEF CanAct, WithStatus
    <2> QED
      BY <2>1, OverSomeUsersIs
  <1>4. /\ h \in Hands /\ h.phase = g.hand.phase /\ h.start = g.hand.start
        /\ h.start_order = g.hand.start_order /\ h.dealer = g.hand.dealer
        /\ h.bets = g.hand.bets /\ h.current_bet = g.hand.current_bet
        /\ h.min_raise_to = g.hand.min_raise_to
    BY <1>2, <1>3 DEF Hands
  <1>5. \A u \in Seated(g) : /\ ps[u] \in SomePlayer /\ ps[u].seat = g.players[u].seat
                             /\ ps[u].stack = g.players[u].stack
                             /\ ps[u].status = g.players[u].status \/ u \in CanAct(g)
    <2>1. ASSUME NEW u \in Seated(g)
          PROVE  /\ ps[u] \in SomePlayer /\ ps[u].seat = g.players[u].seat
                 /\ ps[u].stack = g.players[u].stack
                 /\ ps[u].status = g.players[u].status \/ u \in CanAct(g)
      <3> DEFINE p == g.players[u]
                 f == [p EXCEPT !.status = "FOLDED"]
      <3>1. p \in SomePlayer
        BY <1>2
      <3>2. f \in SomePlayer /\ f.seat = p.seat /\ f.stack = p.stack
        BY <3>1 DEF SomePlayer, Statuses
      <3>3. ps[u] = p \/ (u \in CanAct(g) /\ ps[u] = f)
        OBVIOUS
      <3> HIDE DEF f, ps
      <3> QED
        BY <3>1, <3>2, <3>3
    <2> QED
      BY <2>1
  <1>6. s = [g EXCEPT !.hand = h, !.players = ps]
    BY <1>1, <1>2 DEF Games
  <1>7. ps \in [Seated(g) -> SomePlayer] /\ DOMAIN ps = Seated(g)
    BY <1>5
  <1> HIDE DEF ps, h
  <1>8. ps \in OverSomeUsers(SomePlayer)
    BY <1>2, <1>7, OverSomeUsersIs
  <1>9. s \in Games /\ s.hand = h /\ s.players = ps /\ s.phase = g.phase /\ s.order = g.order
    BY <1>2, <1>4, <1>6, <1>8 DEF Games
  <1>10. Seated(s) = Seated(g) /\ SameTable(s, g)
    BY <1>5, <1>7, <1>9 DEF Seated, SameTable
  <1>11. Bystanding(s, g)
    <2>1. \A u \in Seated(g) \ DOMAIN g.hand.start : u \notin CanAct(g)
      BY DEF InPlay, Dealt, CanAct, WithStatus
    <2> QED
      BY <1>5, <1>9, <2>1 DEF Bystanding
  <1>12. NoNewChips(s, g)
    BY <1>2, <1>4, <1>5, <1>9 DEF NoNewChips
  <1>13. SoundBets(s, g)
    BY <1>4, <1>9 DEF SoundBets, InPlay, BetsCovered
  <1>14. Kept(s, g)
    BY <1>4, <1>9, <1>10, <1>11, <1>12, <1>13, KeptIs
  <1> QED
    BY <1>9, <1>14

\* The button goes to a player.
LEMMA DealerIs ==
    ASSUME NEW g \in Games, OwnSeats(g.players), CanAct(g) # {}
    PROVE  NextDealer(g) \in Seats(g) /\ NextDealer(g) \in AnySeat
  <1> DEFINE S == Seats(g)
             A == SeatsOf(g, CanAct(g))
  <1>1. CanAct(g) \subseteq Seated(g)
    BY DEF CanAct, WithStatus
  <1>2. \A u \in Seated(g) : g.players[u].seat \in SeatIndex
    BY GameIs
  <1>3. S \in SUBSET SeatIndex /\ S # {} /\ A \in SUBSET SeatIndex /\ A # {} /\ A \subseteq S
    BY <1>1, <1>2 DEF Seats, SeatsOf
  <1>4. SeatIndex \subseteq Nat
    BY Configured
  <1>5. NextDealer(g) = IF g.hand.phase = "NONE" THEN MinSeat(S)
                        ELSE NextSeat(A, IF g.hand.dealer \in S THEN g.hand.dealer ELSE NoSeat)
    BY DEF NextDealer
  <1> HIDE DEF S, A
  <1>6. MinSeat(S) \in S
    BY <1>3, <1>4, MinSeatIs
  <1>7. \A from : NextSeat(A, from) \in A
    BY <1>3, <1>4, NextSeatIs
  <1>8. NextDealer(g) \in S
    BY <1>3, <1>5, <1>6, <1>7
  <1> QED
    BY <1>3, <1>8 DEF S, AnySeat

\* start_hand
LEMMA StartHandIs ==
    ASSUME NEW g \in Games, OwnSeats(g.players), Ordered(g), NEW s \in StartHand(g)
    PROVE  Started(s, g)
  <1> DEFINE r == Reset(g)
             T == {u \in CanAct(r) : r.players[u].stack > 0}
             dealer == NextDealer(r)
             b == PostBlinds(r, dealer)
             st == PostStraddle(b)
  <1>1. /\ Cardinality(Eligible(r)) >= 2
        /\ \E d \in DealHoleCards(st) : s \in BeginBettingRound(d, "PRE_FLOP")
    BY DEF StartHand, MayStart, Deals
  <1>2. /\ r \in Games /\ OwnSeats(r.players) /\ SameTable(r, g)
        /\ \A u \in Seated(g) : /\ r.players[u].stack = g.players[u].stack
                                /\ r.players[u].status # "WAITING"
    BY ResetIs
  <1> HIDE DEF r
  <1>3. Ordered(r)
    BY <1>2 DEF Ordered, SameTable
  <1>4. StacksOf(r.players) = StacksOf(g.players)
    <2>1. [u \in DOMAIN r.players |-> r.players[u].stack]
             = [u \in DOMAIN g.players |-> g.players[u].stack]
      BY <1>2 DEF SameTable, Seated
    <2> QED
      BY <2>1, Zenon DEF StacksOf
  <1>5. T # {}
    <2>1. Eligible(r) # {}
      <3>1. Cardinality({}) = 0
        BY FS_EmptySet
      <3> QED
        BY <1>1, <3>1
    <2>2. \A u \in Seated(r) : r.players[u].status # "WAITING"
      BY <1>2 DEF SameTable
    <2>3. Eligible(r) \subseteq T
      BY <2>2 DEF Eligible, CanAct, WithStatus
    <2> QED
      BY <2>1, <2>3
  <1>6. dealer \in AnySeat
    BY <1>2, <1>5, DealerIs
  <1> HIDE DEF dealer
  <1>7. /\ InPlay(b) /\ SameTable(b, r) /\ DOMAIN b.hand.start = Seated(r)
        /\ Bank(b) = StacksOf(r.players) /\ b.hand.dealer = dealer
    BY <1>2, <1>3, <1>5, <1>6, PostBlindsIs
  <1> HIDE DEF b
  <1>8. Kept(st, b)
    <2>1. DOMAIN b.hand.start = Seated(b)
      BY <1>7 DEF SameTable
    <2> QED
      BY <1>7, <2>1, StraddleIs
  <1> HIDE DEF st
  <1>9. InPlay(st)
    BY <1>8 DEF Kept
  <1>10. PICK d \in DealHoleCards(st) : s \in BeginBettingRound(d, "PRE_FLOP")
    BY <1>1
  <1>11. Kept(d, b)
    <2>1. Kept(d, st)
      BY <1>9, DealIs
    <2> QED
      BY <1>8, <2>1, KeptAgain
  <1>12. InPlay(d) /\ "PRE_FLOP" \in BettingPhases
    BY <1>11 DEF Kept, BettingPhases
  <1>13. Played(s, b)
    <2>1. Played(s, d)
      BY <1>10, <1>12, BeginIs
    <2> QED
      BY <1>11, <2>1, PlayedAgain
  <1>14. SameTable(b, g)
    BY <1>2, <1>7 DEF SameTable
  <1>15. CASE PlayedOn(s, b)
    <2>1. Bank(s) = Bank(b)
      BY <1>15, KeptBank DEF PlayedOn
    <2>2. SameTable(s, g) /\ InPlay(s) /\ s.phase \in BettingPhases /\ s.hand.phase = s.phase
      BY <1>14, <1>15 DEF PlayedOn, Kept, SameTable
    <2>3. s \in Games /\ OwnSeats(s.players)
      BY <2>2 DEF InPlay
    <2>4. s.hand.dealer = dealer /\ DOMAIN s.hand.start = Seated(g)
      BY <1>2, <1>7, <1>15 DEF PlayedOn, Kept, SameTable
    <2> QED
      BY <1>4, <1>6, <1>7, <2>1, <2>2, <2>3, <2>4 DEF Started, dealer, r
  <1>16. CASE Over(s, b)
    <2>1. SameTable(s, g)
      BY <1>14, <1>16 DEF Over, SameTable
    <2>2. b.hand.dealer \in AnySeat /\ b.hand.dealer = dealer
      BY <1>6, <1>7
    <2>3. s.hand.dealer = b.hand.dealer
      BY <1>16 DEF Over, EmptyHand
    <2> QED
      BY <1>4, <1>7, <1>16, <2>1, <2>2, <2>3 DEF Started, Over, dealer, r
  <1> QED
    BY <1>13, <1>15, <1>16 DEF Played

-----------------------------------------------------------------------------
(* Tables *)

\* A hand is on, in one of its betting rounds.
Playing(s) == InPlay(s) /\ s.phase \in BettingPhases /\ s.hand.phase = s.phase

\* No hand is on.
Idle(s) ==
    /\ s.phase = "WAITING_FOR_PLAYERS"
    /\ \E phase \in {"NONE", "HAND_END"}, dealer \in AnySeat : s.hand = EmptyHand(phase, dealer)

\* The table is in order and holds so many chips.
SoundTable(s, chips) ==
    /\ s \in Games /\ OwnSeats(s.players) /\ Ordered(s)
    /\ \/ Playing(s) /\ Bank(s) = chips
       \/ Idle(s) /\ StacksOf(s.players) = chips

\* There is no turn between hands.
LEMMA IdleIs ==
    ASSUME NEW s, Idle(s)
    PROVE  /\ s.hand.phase \in {"NONE", "HAND_END"} /\ s.hand.phase \notin BettingPhases
           /\ s.hand.turn = NoSeat /\ ~Playing(s)
  <1>1. \A phase, dealer : /\ EmptyHand(phase, dealer).phase = phase
                           /\ EmptyHand(phase, dealer).turn = NoSeat
    BY DEF EmptyHand
  <1>2. PICK phase \in {"NONE", "HAND_END"}, dealer \in AnySeat :
           s.hand = EmptyHand(phase, dealer)
    BY DEF Idle
  <1>3. s.hand.phase = phase /\ s.hand.turn = NoSeat
    BY <1>1, <1>2
  <1> QED
    BY <1>3 DEF Idle, Playing, BettingPhases

\* The chips of a table are not negative.
LEMMA ChipsAre ==
    ASSUME NEW s, NEW chips, SoundTable(s, chips)
    PROVE  chips \in Nat /\ StacksOf(s.players) \in Nat
  <1> DEFINE f == [u \in Seated(s) |-> s.players[u].stack]
             late == [u \in Seated(s) \ DOMAIN s.hand.start |-> s.players[u].stack]
  <1>1. /\ IsFiniteSet(Seated(s)) /\ s.hand.start \in [DOMAIN s.hand.start -> Nat]
        /\ \A u \in Seated(s) : s.players[u].stack \in Nat
    BY GameIs DEF SoundTable
  <1>2. f \in [Seated(s) -> Nat] /\ late \in [Seated(s) \ DOMAIN s.hand.start -> Nat]
    BY <1>1
  <1>3. StacksOf(s.players) = SumFunction(f)
    BY Zenon DEF StacksOf, Seated
  <1>4. Bank(s) = SumFunction(s.hand.start) + SumFunction(late)
    BY DEF Bank
  <1> HIDE DEF f, late
  <1>5. \A D, h : IsFiniteSet(D) /\ h \in [D -> Nat] => SumFunction(h) \in Nat
    <2> TAKE D, h
    <2> HAVE IsFiniteSet(D) /\ h \in [D -> Nat]
    <2>1. D \in SUBSET D
      OBVIOUS
    <2>2. SumFunctionOnSet(h, D) \in Nat
      BY <2>1, SumNat
    <2>3. h \in [D -> Int]
      OBVIOUS
    <2>4. SumFunction(h) = SumFunctionOnSet(h, D)
      BY <2>3, SumFunctionIs
    <2> QED
      BY <2>2, <2>4
  <1>6. SumFunction(f) \in Nat
    BY <1>1, <1>2, <1>5
  <1>7. CASE Idle(s) /\ StacksOf(s.players) = chips
    BY <1>3, <1>6, <1>7
  <1>8. CASE Playing(s) /\ Bank(s) = chips
    <2>1. IsFiniteSet(DOMAIN s.hand.start)
      BY <1>8, ContributionsAre DEF Playing
    <2>2. IsFiniteSet(Seated(s) \ DOMAIN s.hand.start)
      BY <1>1, FS_Subset
    <2>3. SumFunction(s.hand.start) \in Nat
      BY <1>1, <1>5, <2>1
    <2>4. SumFunction(late) \in Nat
      BY <1>2, <1>5, <2>2
    <2> QED
      BY <1>3, <1>4, <1>6, <1>8, <2>3, <2>4
  <1> QED
    BY <1>7, <1>8 DEF SoundTable

\* What the engine returns for a hand that is on is a table in order again.
LEMMA PlayedSound ==
    ASSUME NEW s, NEW chips, SoundTable(s, chips), Playing(s), Bank(s) = chips,
           NEW r, Played(r, s)
    PROVE  /\ SoundTable(r, chips) /\ SameTable(r, s)
           /\ Playing(r) => r.hand.start = s.hand.start
  <1>1. CASE PlayedOn(r, s)
    <2>1. Bank(r) = Bank(s)
      BY <1>1, KeptBank DEF PlayedOn
    <2>2. InPlay(r) /\ SameTable(r, s) /\ r.hand.start = s.hand.start
      BY <1>1 DEF PlayedOn, Kept
    <2>3. Playing(r)
      BY <1>1, <2>2 DEF PlayedOn, Playing
    <2>4. r \in Games /\ OwnSeats(r.players) /\ Ordered(r)
      BY <2>2 DEF InPlay, SoundTable, SameTable, Ordered
    <2> QED
      BY <2>1, <2>2, <2>3, <2>4 DEF SoundTable
  <1>2. CASE Over(r, s)
    <2>1. r \in Games /\ OwnSeats(r.players) /\ SameTable(r, s) /\ StacksOf(r.players) = chips
      BY <1>2 DEF Over
    <2>2. s.hand.dealer \in AnySeat
      BY GameIs DEF SoundTable, Hands
    <2>3. Idle(r)
      BY <1>2, <2>2 DEF Over, Idle
    <2>4. ~Playing(r)
      BY <2>3, IdleIs
    <2>5. Ordered(r)
      BY <2>1 DEF SoundTable, SameTable, Ordered
    <2> QED
      BY <2>1, <2>3, <2>4, <2>5 DEF SoundTable
  <1> QED
    BY <1>1, <1>2 DEF Played

\* An action that the engine accepts
LEMMA ActionSound ==
    ASSUME NEW s, NEW chips, SoundTable(s, chips), NEW u,
           NEW type \in {"fold", "check", "call", "raise", "all_in"}, NEW amount \in Int,
           NEW r \in ApplyAction(s, u, type, amount)
    PROVE  /\ SoundTable(r, chips) /\ SameTable(r, s) /\ u \in Seated(s)
           /\ Playing(r) => u \in DOMAIN r.hand.start
  <1>1. ValidTurn(s, u)
    BY DEF ApplyAction, ValidAction
  <1>2. s.hand.phase \in BettingPhases /\ u \in Seated(s) /\ s.players[u].status = "ACTIVE"
    BY <1>1 DEF ValidTurn
  <1>3. Playing(s) /\ Bank(s) = chips
    BY <1>2, IdleIs DEF SoundTable
  <1>4. u \in DOMAIN s.hand.start
    BY <1>2, <1>3, ActiveIsDealt DEF Playing
  <1>5. InPlay(s) /\ s.phase \in BettingPhases /\ s.hand.phase = s.phase
    BY <1>3 DEF Playing
  <1>6. Played(r, s)
    BY <1>5, ApplyActionIs
  <1> QED
    BY <1>2, <1>3, <1>4, <1>6, PlayedSound

\* A turn that times out
LEMMA TimeoutSound ==
    ASSUME NEW s, NEW chips, SoundTable(s, chips), NEW r \in HandleTimeout(s)
    PROVE  SoundTable(r, chips) /\ SameTable(r, s)
           /\ (s.hand.turn \notin Seats(s) => r = s)
  <1>0. s.hand.turn = NoSeat \/ s.hand.turn \notin Seats(s) => r = s
    BY DEF HandleTimeout
  <1>1. CASE Idle(s)
    <2>1. r = s
      BY <1>0, <1>1, IdleIs
    <2> QED
      BY <2>1 DEF SameTable
  <1>2. CASE Playing(s) /\ Bank(s) = chips
    <2>1. InPlay(s) /\ s.phase \in BettingPhases /\ s.hand.phase = s.phase
      BY <1>2 DEF Playing
    <2>2. Played(r, s)
      BY <2>1, HandleTimeoutIs
    <2> QED
      BY <1>0, <1>2, <2>2, PlayedSound
  <1> QED
    BY <1>1, <1>2 DEF SoundTable

\* A hand that is started between two hands
LEMMA StartSound ==
    ASSUME NEW s, NEW chips, SoundTable(s, chips), NEW r \in StartHand(s)
    PROVE  /\ SoundTable(r, chips) /\ SameTable(r, s)
           /\ Playing(r) => DOMAIN r.hand.start = Seated(r)
  <1>1. s.phase \in BetweenHands
    BY DEF StartHand, MayStart
  <1>2. Idle(s) /\ StacksOf(s.players) = chips
    BY <1>1 DEF SoundTable, Playing, BettingPhases, BetweenHands
  <1>3. Started(r, s)
    BY StartHandIs DEF SoundTable
  <1>4. r \in Games /\ OwnSeats(r.players) /\ SameTable(r, s)
    BY <1>3 DEF Started
  <1>5. Ordered(r)
    BY <1>4 DEF SoundTable, SameTable, Ordered
  <1>6. \/ Playing(r) /\ Bank(r) = chips /\ DOMAIN r.hand.start = Seated(r)
        \/ Idle(r) /\ StacksOf(r.players) = chips /\ ~Playing(r)
    BY <1>2, <1>3, IdleIs DEF Started, Playing, Idle, SameTable
  <1> QED
    BY <1>4, <1>5, <1>6 DEF SoundTable
=============================================================================
