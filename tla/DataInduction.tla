--------------------------- MODULE DataInduction ---------------------------
(***************************************************************************)
(* Induction and recursion over numbers and finite sets, in a form the     *)
(* provers can instantiate: a property is a set of numbers or of sets, the *)
(* step of a recursion is a function.  Everything rests on one fact, that  *)
(* a set of natural numbers that is not empty has a least element.         *)
(***************************************************************************)
EXTENDS Integers, FiniteSetsExt, FiniteSetTheorems, SequenceTheorems,
        WellFoundedInduction, TLAPS

LEMMA LeastNumber ==
  ASSUME NEW S \in SUBSET Nat, S # {}
  PROVE  \E x \in S : \A y \in S : x <= y
<1> DEFINE R == OpToRel(<, Nat)
<1>1. IsWellFoundedOn(R, Nat) BY NatLessThanWellFounded, Zenon
<1>2. \A y, x \in Nat : y < x => <<y, x>> \in R BY DEF OpToRel
<1> HIDE DEF R
<1>3. PICK x \in S : \A y \in S : ~(<<y, x>> \in R) BY <1>1, WFMin
<1>4. \A y \in S : ~(y < x) BY <1>2, <1>3
<1> QED BY <1>4

\* A set that holds 0, and with a number the next one, holds them all.
LEMMA NumbersByInduction ==
  ASSUME NEW S, 0 \in S, \A n \in Nat : n \in S => n + 1 \in S
  PROVE  \A n \in Nat : n \in S
<1> SUFFICES ASSUME NEW n \in Nat, n \notin S PROVE FALSE OBVIOUS
<1> DEFINE T == {i \in Nat : i \notin S}
<1>1. PICK x \in T : \A y \in T : x <= y BY LeastNumber
<1>2. x \in Nat /\ x # 0 BY <1>1
<1>3. x - 1 \in Nat /\ x - 1 \notin T BY <1>1, <1>2
<1>4. (x - 1) + 1 = x BY <1>2
<1> QED BY <1>1, <1>3, <1>4

\* The same up to a bound.
LEMMA RangeByInduction ==
  ASSUME NEW S, NEW m \in Nat, 0 \in S, \A n \in 0..(m - 1) : n \in S => n + 1 \in S
  PROVE  \A n \in 0..m : n \in S
<1> DEFINE T == {i \in Nat : i > m \/ i \in S}
<1>1. 0 \in T OBVIOUS
<1>2. ASSUME NEW n \in Nat, n \in T PROVE n + 1 \in T
  <2>1. CASE n + 1 > m BY <2>1
  <2>2. CASE n + 1 <= m BY <2>2, <1>2
  <2> QED BY <2>1, <2>2
<1> HIDE DEF T
<1>3. \A n \in Nat : n \in T BY <1>1, <1>2, NumbersByInduction
<1> QED BY <1>3 DEF T

\* A family of sets that holds the empty set, and T when it holds T without any
\* one of its elements, holds every finite set (of elements of S).
LEMMA SetsByInduction ==
  ASSUME NEW S, NEW U, {} \in U,
         \A T \in SUBSET S : IsFiniteSet(T) /\ T # {} /\ (\A x \in T : T \ {x} \in U) => T \in U
  PROVE  \A T \in SUBSET S : IsFiniteSet(T) => T \in U
<1> DEFINE P == {n \in Nat : \A T \in SUBSET S : IsFiniteSet(T) /\ Cardinality(T) = n => T \in U}
<1>1. 0 \in P BY FS_EmptySet
<1>2. ASSUME NEW n \in Nat, n \in P PROVE n + 1 \in P
  <2> SUFFICES ASSUME NEW T \in SUBSET S, IsFiniteSet(T), Cardinality(T) = n + 1 PROVE T \in U
    BY DEF P
  <2>1. T # {} BY FS_EmptySet
  <2>2. ASSUME NEW x \in T PROVE T \ {x} \in U
    <3>1. IsFiniteSet(T \ {x}) /\ Cardinality(T \ {x}) = Cardinality(T) - 1 BY FS_RemoveElement
    <3>2. Cardinality(T \ {x}) = n BY <3>1
    <3> QED BY <1>2, <3>1, <3>2
  <2> QED BY <2>1, <2>2
<1> HIDE DEF P
<1>3. \A n \in Nat : n \in P BY <1>1, <1>2, NumbersByInduction
<1> QED BY <1>3, FS_CardinalityType DEF P

\* A set that holds the empty sequence, and with a sequence all that are one longer.
LEMMA SeqsByInduction ==
  ASSUME NEW S, NEW U, <<>> \in U, \A s \in Seq(S), e \in S : s \in U => Append(s, e) \in U
  PROVE  \A s \in Seq(S) : s \in U
<1> DEFINE P == {n \in Nat : \A s \in Seq(S) : Len(s) = n => s \in U}
<1>1. 0 \in P
  <2>1. \A s \in Seq(S) : Len(s) = 0 => s = <<>> OBVIOUS
  <2> QED BY <2>1
<1>2. ASSUME NEW n \in Nat, n \in P PROVE n + 1 \in P
  <2> SUFFICES ASSUME NEW s \in Seq(S), Len(s) = n + 1 PROVE s \in U OBVIOUS
  <2>1. s # <<>> BY EmptySeq
  <2>2. PICK t \in Seq(S), e \in S : s = Append(t, e) BY <2>1, SequenceEmptyOrAppend
  <2>3. Len(t) = n BY <2>2, AppendProperties
  <2> QED BY <1>2, <2>2, <2>3
<1> HIDE DEF P
<1>3. \A n \in Nat : n \in P BY <1>1, <1>2, NumbersByInduction
<1> QED BY <1>3 DEF P

\* A value for 0 and a function that makes the next one of a value define one for
\* every number up to a bound.
Recurs(g, n, V, a, F) ==
  /\ g \in [0..n -> V]
  /\ \A i \in 0..n : g[i] = IF i = 0 THEN a ELSE F[<<g[i - 1], i>>]

LEMMA NumberRecursion ==
  ASSUME NEW n \in Nat, NEW V, NEW a \in V, NEW F \in [V \X Nat -> V]
  PROVE  \E g : Recurs(g, n, V, a, F)
<1> DEFINE Solves(g, k) ==
             /\ g \in [0..k -> V]
             /\ \A i \in 0..k : g[i] = IF i = 0 THEN a ELSE F[<<g[i - 1], i>>]
           S == {k \in Nat : \E g : Solves(g, k)}
<1>1. 0 \in S
  <2>1. Solves([i \in 0..0 |-> a], 0) OBVIOUS
  <2> QED BY <2>1
<1>2. ASSUME NEW k \in Nat, k \in S PROVE k + 1 \in S
  <2>1. PICK g : Solves(g, k) BY <1>2
  <2> DEFINE h == [i \in 0..(k + 1) |-> IF i = k + 1 THEN F[<<g[k], k + 1>>] ELSE g[i]]
  <2>2. g \in [0..k -> V] /\ g[k] \in V BY <2>1
  <2>3. F[<<g[k], k + 1>>] \in V BY <2>2
  <2>4. h \in [0..(k + 1) -> V] BY <2>2, <2>3
  <2>5. ASSUME NEW i \in 0..(k + 1)
        PROVE  h[i] = IF i = 0 THEN a ELSE F[<<h[i - 1], i>>]
    <3>1. CASE i = k + 1
      <4>1. h[k + 1] = F[<<g[k], k + 1>>] /\ h[k] = g[k] /\ k + 1 # 0 /\ (k + 1) - 1 = k
        OBVIOUS
      <4> QED BY <3>1, <4>1
    <3>2. CASE i # k + 1
      <4>1. i \in 0..k /\ h[i] = g[i] /\ (i # 0 => h[i - 1] = g[i - 1]) BY <3>2
      <4>2. g[i] = IF i = 0 THEN a ELSE F[<<g[i - 1], i>>] BY <2>1, <4>1
      <4> QED BY <4>1, <4>2
    <3> QED BY <3>1, <3>2
  <2> HIDE DEF h
  <2>6. Solves(h, k + 1) BY <2>4, <2>5
  <2> HIDE DEF Solves
  <2> QED BY <2>6
<1> HIDE DEF S
<1>3. \A k \in Nat : k \in S BY <1>1, <1>2, NumbersByInduction
<1>4. PICK g : Solves(g, n) BY <1>3 DEF S
<1> QED BY <1>4 DEF Recurs

\* The recursion of a fold over the subsets of S: c chooses the element that is
\* taken first, F adds it to what the other elements come to.
Chooses(c, S) == \A T \in SUBSET S : T # {} => c[T] \in T
Folds(g, S, V, a, F, c) ==
  /\ g \in [SUBSET S -> V]
  /\ \A T \in SUBSET S : g[T] = IF T = {} THEN a ELSE F[<<g[T \ {c[T]}], c[T]>>]

LEMMA SetRecursion ==
  ASSUME NEW S, IsFiniteSet(S), NEW V, NEW a \in V, NEW F \in [V \X S -> V],
         NEW c, Chooses(c, S)
  PROVE  \E g : Folds(g, S, V, a, F, c)
<1> DEFINE Small(n) == {T \in SUBSET S : Cardinality(T) <= n}
           Value(g, T) == IF T = {} THEN a ELSE F[<<g[T \ {c[T]}], c[T]>>]
           Solves(g, n) == g \in [Small(n) -> V] /\ \A T \in Small(n) : g[T] = Value(g, T)
           N == {n \in Nat : \E g : Solves(g, n)}
<1>1. \A T \in SUBSET S : IsFiniteSet(T) /\ Cardinality(T) \in Nat BY FS_Subset, FS_CardinalityType
<1>2. ASSUME NEW T \in SUBSET S, T # {}, NEW n \in Nat, T \in Small(n + 1)
      PROVE  T \ {c[T]} \in Small(n) /\ c[T] \in S
  <2>1. c[T] \in T BY <1>2 DEF Chooses
  <2>2. Cardinality(T \ {c[T]}) = Cardinality(T) - 1 BY <1>1, <2>1, FS_RemoveElement
  <2> QED BY <1>1, <1>2, <2>1, <2>2
<1>3. 0 \in N
  <2>1. \A T \in Small(0) : T = {} BY <1>1, FS_EmptySet
  <2>2. Solves([T \in Small(0) |-> a], 0) BY <2>1
  <2> QED BY <2>2
<1>4. ASSUME NEW n \in Nat, n \in N PROVE n + 1 \in N
  <2>1. PICK g : Solves(g, n) BY <1>4
  <2> DEFINE h == [T \in Small(n + 1) |-> Value(g, T)]
  <2>2. ASSUME NEW T \in Small(n + 1) PROVE h[T] \in V
    <3>1. CASE T = {} BY <3>1
    <3>2. CASE T # {}
      <4>1. T \ {c[T]} \in Small(n) /\ c[T] \in S BY <3>2, <1>2
      <4>2. g[T \ {c[T]}] \in V BY <2>1, <4>1
      <4> QED BY <3>2, <4>1, <4>2
    <3> QED BY <3>1, <3>2
  <2>3. ASSUME NEW T \in Small(n) PROVE T \in Small(n + 1) /\ h[T] = g[T]
    <3>1. T \in Small(n + 1) BY <1>1
    <3>2. h[T] = Value(g, T) BY <3>1
    <3>3. g[T] = Value(g, T) BY <2>1
    <3> QED BY <3>1, <3>2, <3>3
  <2>4. ASSUME NEW T \in Small(n + 1) PROVE h[T] = Value(h, T)
    <3>1. CASE T = {} BY <3>1
    <3>2. CASE T # {}
      <4>1. T \ {c[T]} \in Small(n) BY <3>2, <1>2
      <4>2. h[T \ {c[T]}] = g[T \ {c[T]}] BY <2>3, <4>1
      <4> QED BY <3>2, <4>2
    <3> QED BY <3>1, <3>2
  <2>5. h = [T \in Small(n + 1) |-> h[T]] OBVIOUS
  <2> HIDE DEF h, Small, Value
  <2>6. h \in [Small(n + 1) -> V] BY <2>2, <2>5
  <2>7. Solves(h, n + 1) BY <2>4, <2>6
  <2> QED BY <2>7
<1> HIDE DEF N
<1>5. \A n \in Nat : n \in N BY <1>3, <1>4, NumbersByInduction
<1>6. Cardinality(S) \in Nat BY FS_CardinalityType
<1>7. PICK g : Solves(g, Cardinality(S)) BY <1>5, <1>6 DEF N
<1>8. Small(Cardinality(S)) = SUBSET S BY FS_Subset
<1>9. g \in [SUBSET S -> V] /\ \A T \in SUBSET S : g[T] = Value(g, T) BY <1>7, <1>8
<1> QED BY <1>9 DEF Folds

-----------------------------------------------------------------------------
(* Folds over sequences: FoldLeft and FoldSeq take the positions from the  *)
(* greatest down                                                           *)

LEMMA GreatestNumber ==
  ASSUME NEW n \in Nat, NEW T \in SUBSET (1..n), T # {}
  PROVE  Max(T) \in T /\ \A x \in T : Max(T) >= x
<1> DEFINE S == {n - x : x \in T}
<1>0. \A x \in T : x \in Int /\ n - x \in Nat OBVIOUS
<1>1. S \in SUBSET Nat /\ S # {} BY <1>0
<1>2. PICK m \in S : \A y \in S : m <= y BY <1>1, LeastNumber
<1>3. PICK x \in T : m = n - x BY <1>2
<1>4. \A y \in T : x >= y
  <2> SUFFICES ASSUME NEW y \in T PROVE x >= y OBVIOUS
  <2>1. n - y \in S BY <1>0
  <2>2. n - x <= n - y /\ x \in Int /\ y \in Int BY <1>0, <1>2, <1>3, <2>1
  <2> QED BY <2>2
<1> QED BY <1>4 DEF Max

LEMMA GreatestOfRange ==
  ASSUME NEW k \in Nat \ {0}
  PROVE  Max(1..k) = k /\ (1..k) \ {k} = 1..(k - 1)
<1> DEFINE T == 1..k
<1>1. k \in T /\ T \in SUBSET (1..k) OBVIOUS
<1> HIDE DEF T
<1>2. Max(T) \in T /\ Max(T) >= k BY <1>1, GreatestNumber
<1> QED BY <1>2 DEF T

FoldsLeft(g, n, V, a, F) ==
  /\ g \in [SUBSET (1..n) -> V]
  /\ \A T \in SUBSET (1..n) :
       g[T] = IF T = {} THEN a ELSE F[<<g[T \ {Max(T)}], Max(T)>>]

LEMMA FoldRecursion ==
  ASSUME NEW n \in Nat, NEW V, NEW a \in V, NEW F \in [V \X (1..n) -> V]
  PROVE  \E g : FoldsLeft(g, n, V, a, F)
<1> DEFINE S == 1..n
           c == [T \in SUBSET S |-> Max(T)]
<1>1. IsFiniteSet(S) BY FS_Interval
<1>2. Chooses(c, S) BY GreatestNumber DEF Chooses
<1>3. \A T \in SUBSET S : c[T] = Max(T) OBVIOUS
<1>4. F \in [V \X S -> V] OBVIOUS
<1> HIDE DEF c, S
<1>5. PICK g : Folds(g, S, V, a, F, c) BY <1>1, <1>2, <1>4, SetRecursion
<1>6. g \in [SUBSET S -> V] BY <1>5 DEF Folds
<1>7. \A T \in SUBSET S : g[T] = IF T = {} THEN a ELSE F[<<g[T \ {Max(T)}], Max(T)>>]
  BY <1>3, <1>5 DEF Folds
<1>8. FoldsLeft(g, n, V, a, F) BY <1>6, <1>7 DEF S, FoldsLeft
<1> QED BY <1>8
=============================================================================
