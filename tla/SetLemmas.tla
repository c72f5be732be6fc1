----------------------------- MODULE SetLemmas ------------------------------
(***************************************************************************)
(* Finite sets of numbers, for the proofs about loops that look for the    *)
(* first or the last of something.                                         *)
(***************************************************************************)
EXTENDS Integers, FiniteSets, FiniteSetTheorems, FunctionTheorems, TLAPS

\* Among finitely many numbers there is a first and a last.
LEMMA LeastAndGreatest ==
  ASSUME NEW S, IsFiniteSet(S), S \subseteq Int, S # {}
  PROVE  /\ \E i \in S : \A j \in S : i <= j
         /\ \E i \in S : \A j \in S : j <= i
<1> DEFINE n    == Cardinality(S)
           L(i) == {j \in S : j <= i}
           C    == [i \in S |-> Cardinality(L(i))]
<1>1. n \in Nat \ {0}
  BY FS_CardinalityType, FS_EmptySet
<1>2. \A i \in S : IsFiniteSet(L(i)) /\ Cardinality(L(i)) \in 1 .. n
  <2> SUFFICES ASSUME NEW i \in S
               PROVE  IsFiniteSet(L(i)) /\ Cardinality(L(i)) \in 1 .. n
    OBVIOUS
  <2>1. L(i) \in SUBSET S /\ i \in L(i)
    OBVIOUS
  <2>2. IsFiniteSet(L(i)) /\ Cardinality(L(i)) <= n
    BY <2>1, FS_Subset
  <2>3. Cardinality(L(i)) \in Nat /\ Cardinality(L(i)) # 0
    BY <2>1, <2>2, FS_CardinalityType, FS_EmptySet
  <2> QED
    BY <1>1, <2>2, <2>3
<1>3. \A i, j \in S : i < j => C[i] < C[j]
  <2> SUFFICES ASSUME NEW i \in S, NEW j \in S, i < j
               PROVE  Cardinality(L(i)) < Cardinality(L(j))
    OBVIOUS
  <2>1. L(i) \in SUBSET L(j) /\ j \in L(j) /\ j \notin L(i)
    <3>1. \A k \in S : k <= i => k <= j
      OBVIOUS
    <3>2. j <= j /\ ~(j <= i)
      OBVIOUS
    <3> QED
      BY <3>1, <3>2
  <2>2. /\ Cardinality(L(i)) <= Cardinality(L(j))
        /\ Cardinality(L(j)) = Cardinality(L(i)) => L(j) = L(i)
    BY <1>2, <2>1, FS_Subset
  <2> HIDE DEF L
  <2> QED
    BY <1>2, <2>1, <2>2
<1>4. C \in Injection(S, 1 .. n)
  <2>1. C \in [S -> 1 .. n]
    BY <1>2
  <2>2. \A i, j \in S : C[i] = C[j] => i = j
    <3> HIDE DEF C
    <3> QED
      BY <1>1, <1>3, <2>1
  <2> HIDE DEF C
  <2> QED
    BY <2>1, <2>2, Fun_IsInj
<1>5. C \in Surjection(S, 1 .. n)
  <2>1. IsFiniteSet(1 .. n) /\ Cardinality(1 .. n) = n
    BY <1>1, FS_Interval
  <2> HIDE DEF C, L
  <2> QED
    BY <1>4, <2>1, FS_Injection
<1>6. \A k \in 1 .. n : \E i \in S : C[i] = k
  <2> HIDE DEF C
  <2> QED
    BY <1>5 DEF Surjection
<1>7. \A i \in S : C[i] \in 1 .. n
  BY <1>2
<1> HIDE DEF C
<1>8. \E i \in S : \A j \in S : i <= j
  <2>1. PICK i \in S : C[i] = 1
    BY <1>1, <1>6
  <2>2. \A j \in S : i <= j
    BY <1>1, <1>3, <1>7, <2>1
  <2> QED
    BY <2>2
<1>9. \E i \in S : \A j \in S : j <= i
  <2>1. PICK i \in S : C[i] = n
    BY <1>1, <1>6
  <2>2. \A j \in S : j <= i
    BY <1>1, <1>3, <1>7, <2>1
  <2> QED
    BY <2>2
<1> QED
  BY <1>8, <1>9

\* Some positions of a sequence of length n, or some numbers below n.
LEMMA SomeBelow ==
  ASSUME NEW n \in Nat, NEW S \in SUBSET (0 .. n), S # {}
  PROVE  /\ \E i \in S : \A j \in S : i <= j
         /\ \E i \in S : \A j \in S : j <= i
<1>1. IsFiniteSet(0 .. n)
  BY FS_Interval
<1>2. IsFiniteSet(S)
  BY <1>1, FS_Subset
<1>3. S \subseteq Int
  OBVIOUS
<1> QED
  BY <1>2, <1>3, LeastAndGreatest
=============================================================================
