----------------------------- MODULE CpioProofs -----------------------------
(***************************************************************************)
(* Proofs about Cpio for every set of names, images and commands: what an  *)
(* archive keeps between the commands; then what the two loops of a        *)
(* session, that of Backup and that of Dump, do, for every archive; that a *)
(* session implements Ramdisk; and that Restore undoes a backup.           *)
(*                                                                         *)
(* Backup: from what it records ORIG can be recovered, in whatever order   *)
(* the archives list their entries.  The invariant says what the loops     *)
(* have accounted for: every left key passed is saved or is in the archive *)
(* with the same data, every right key passed is recorded or is a left     *)
(* key.  Where both lists are sorted the difference is the least one: then *)
(* neither index passes a name that the other one has still to come to     *)
(* (LeftAhead, RightAhead).                                                *)
(*                                                                         *)
(* Dump: the file always begins with the items of the first keys, and only *)
(* its last item may be torn.                                              *)
(*                                                                         *)
(* Ramdisk: in plain sessions Keys lists exactly the names of Entries, and *)
(* those that may be removed once (Tidy), in memory and in every file.     *)
(*                                                                         *)
(* Restore: IsBackup says what a backup holds; from it Restore reads back  *)
(* what was lost (BackupsGiveBack) and what was added (RmListRead).        *)
(***************************************************************************)
EXTENDS Cpio, CpioRamdisk, CpioRestore, SetLemmas, SequenceTheorems

-----------------------------------------------------------------------------
(* Listing a finite set by a key.                                          *)

\* Enumerate lists every element of S once, by ascending key.  An element's
\* place is the number of elements whose key is not above its own.
LEMMA EnumerateLists ==
  ASSUME NEW S, IsFiniteSet(S), NEW key,
         \A i \in S : key[i] \in Int,
         \A i, j \in S : key[i] = key[j] => i = j
  PROVE  LET e == Enumerate(S, key)
             n == Cardinality(S)
         IN  /\ n \in Nat
             /\ e \in [1..n -> S]
             /\ \A x \in S : \E k \in 1..n : e[k] = x
             /\ \A a, b \in 1..n : a < b => key[e[a]] < key[e[b]]
<1> DEFINE n    == Cardinality(S)
           L(i) == {j \in S : key[j] <= key[i]}
           C    == [i \in S |-> Cardinality(L(i))]
<1>1. n \in Nat
  BY FS_CardinalityType
<1>2. \A i \in S : IsFiniteSet(L(i)) /\ Cardinality(L(i)) \in 1..n
  <2> SUFFICES ASSUME NEW i \in S
               PROVE  IsFiniteSet(L(i)) /\ Cardinality(L(i)) \in 1..n
    OBVIOUS
  <2>1. L(i) \in SUBSET S /\ i \in L(i)
    OBVIOUS
  <2>2. IsFiniteSet(L(i)) /\ Cardinality(L(i)) <= n
    BY <2>1, FS_Subset
  <2>3. Cardinality(L(i)) \in Nat /\ Cardinality(L(i)) # 0
    BY <2>1, <2>2, FS_CardinalityType, FS_EmptySet
  <2> QED
    BY <1>1, <2>2, <2>3
<1>3. \A i, j \in S : key[i] < key[j] => C[i] < C[j]
  <2> SUFFICES ASSUME NEW i \in S, NEW j \in S, key[i] < key[j]
               PROVE  Cardinality(L(i)) < Cardinality(L(j))
    OBVIOUS
  <2>1. L(i) \in SUBSET L(j)
    OBVIOUS
  <2>2. j \in L(j) /\ j \notin L(i)
    OBVIOUS
  <2>3. /\ Cardinality(L(i)) <= Cardinality(L(j))
        /\ Cardinality(L(j)) = Cardinality(L(i)) => L(j) = L(i)
    BY <1>2, <2>1, FS_Subset
  <2> HIDE DEF L
  <2> QED
    BY <1>2, <2>2, <2>3
<1>4. C \in Injection(S, 1..n)
  <2>1. C \in [S -> 1..n]
    BY <1>2
  <2>2. \A i, j \in S : C[i] = C[j] => i = j
    <3> HIDE DEF C
    <3> QED
      BY <1>1, <1>3, <2>1
  <2> HIDE DEF C
  <2> QED
    BY <2>1, <2>2, Fun_IsInj
<1>5. C \in Surjection(S, 1..n)
  <2>1. IsFiniteSet(1..n) /\ Cardinality(1..n) = n
    BY <1>1, FS_Interval
  <2> HIDE DEF C, L
  <2> QED
    BY <1>4, <2>1, FS_Injection
<1>6. \A k \in 1..n : \E i \in S : C[i] = k
  <2> HIDE DEF C
  <2> QED
    BY <1>5 DEF Surjection
<1> DEFINE e    == Enumerate(S, key)
           P(k) == CHOOSE i \in S : Cardinality({j \in S : key[j] <= key[i]}) = k
<1>7. \A k \in 1..n : P(k) \in S /\ C[P(k)] = k
  <2> SUFFICES ASSUME NEW k \in 1..n
               PROVE  P(k) \in S /\ C[P(k)] = k
    OBVIOUS
  <2>1. \E i \in S : Cardinality({j \in S : key[j] <= key[i]}) = k
    BY <1>6
  <2>2. P(k) \in S /\ Cardinality({j \in S : key[j] <= key[P(k)]}) = k
    BY <2>1
  <2> HIDE DEF P
  <2> QED
    BY <2>2
<1>8. e = [k \in 1..n |-> P(k)]
  BY DEF Enumerate
<1> HIDE DEF C, e, P
<1>9. /\ e \in [1..n -> S]
      /\ \A k \in 1..n : e[k] \in S /\ C[e[k]] = k
  BY <1>7, <1>8
<1>10. \A x \in S : \E k \in 1..n : e[k] = x
  <2> SUFFICES ASSUME NEW x \in S
               PROVE  \E k \in 1..n : e[k] = x
    OBVIOUS
  <2>1. C[x] \in 1..n
    BY <1>4 DEF Injection
  <2>2. e[C[x]] = x
    BY <1>4, <1>9, <2>1 DEF Injection, IsInjective
  <2> QED
    BY <2>1, <2>2
<1>11. \A a, b \in 1..n : a < b => key[e[a]] < key[e[b]]
  <2> SUFFICES ASSUME NEW a \in 1..n, NEW b \in 1..n, a < b
               PROVE  key[e[a]] < key[e[b]]
    OBVIOUS
  <2>1. CASE key[e[b]] < key[e[a]]
    BY <1>3, <1>9, <2>1
  <2>2. CASE key[e[b]] = key[e[a]]
    BY <1>9, <2>2
  <2> QED
    BY <1>9, <2>1, <2>2
<1> QED
  BY <1>1, <1>9, <1>10, <1>11 DEF e

\* A function on 1..n is a sequence.
LEMMA IsSeq ==
  ASSUME NEW T, NEW n \in Nat, NEW f \in [1..n -> T]
  PROVE  f \in Seq(T) /\ Len(f) = n /\ DOMAIN f = 1..n
OBVIOUS

\* Pick takes the elements at the positions in I and no others, in order.
LEMMA PickPicks ==
  ASSUME NEW s, NEW T, NEW I, IsFiniteSet(I), I \subseteq Int,
         \A i \in I : s[i] \in T
  PROVE  /\ Pick(s, I) \in Seq(T)
         /\ Range(Pick(s, I)) = {s[i] : i \in I}
<1> DEFINE pos == [i \in I |-> i]
           e  == Enumerate(I, pos)
           n  == Cardinality(I)
<1>1. /\ n \in Nat
      /\ e \in [1..n -> I]
      /\ \A x \in I : \E k \in 1..n : e[k] = x
      /\ \A a, b \in 1..n : a < b => pos[e[a]] < pos[e[b]]
  <2>1. \A i \in I : pos[i] \in Int
    OBVIOUS
  <2>2. \A i, j \in I : pos[i] = pos[j] => i = j
    OBVIOUS
  <2>3. IsFiniteSet(I)
    OBVIOUS
  <2> HIDE DEF pos
  <2> QED
    BY <2>1, <2>2, <2>3, EnumerateLists
<1>2. Pick(s, I) = [k \in 1..n |-> s[e[k]]]
  BY DEF Pick
<1> HIDE DEF n, e
<1>3. Pick(s, I) \in [1..n -> T]
  BY <1>1, <1>2
<1>4. DOMAIN Pick(s, I) = 1..n /\ \A k \in 1..n : Pick(s, I)[k] = s[e[k]]
  BY <1>2
<1>5. \A i \in I : \E k \in 1..n : Pick(s, I)[k] = s[i]
  BY <1>1, <1>4
<1>6. \A k \in 1..n : \E i \in I : Pick(s, I)[k] = s[i]
  BY <1>1, <1>4
<1>7. Range(Pick(s, I)) = {s[i] : i \in I}
  <2>1. Range(Pick(s, I)) = {Pick(s, I)[k] : k \in 1..n}
    BY <1>4 DEF Range
  <2> HIDE DEF n, e
  <2> QED
    BY <1>5, <1>6, <2>1
<1> QED
  BY <1>1, <1>3, <1>7, IsSeq

\* The order of names is a numbering of the names of the instance.
LEMMA RankNumbers ==
  /\ Rank \in [Paths -> Nat]
  /\ \A p, q \in Paths : Rank[p] = Rank[q] => p = q
<1>1. PathOrder \in [DOMAIN PathOrder -> Paths]
  BY PathsAssumption DEF Paths, Range
<1>2. DOMAIN PathOrder \subseteq Nat
  BY PathsAssumption
<1>3. DOMAIN PathOrder = {} => Paths = {}
  BY DEF Paths, Range
<1>4. /\ Rank \in [Paths -> DOMAIN PathOrder]
      /\ \A p \in Paths : PathOrder[Rank[p]] = p
  BY <1>1, <1>3, Fun_InverseProperties DEF Rank, AntiFunction, Paths
<1> QED
  BY <1>2, <1>4

\* Names are compared first, positions break the tie.
LEMMA TieBreak ==
  ASSUME NEW a \in Nat, NEW b \in Nat, NEW n \in Nat,
         NEW i \in 1..n, NEW j \in 1..n, a < b
  PROVE  a * (n + 1) + i < b * (n + 1) + j
<1> DEFINE d == b - a - 1
<1>1. d \in Nat /\ b = a + 1 + d
  OBVIOUS
<1> HIDE DEF d
<1>2. d * (n + 1) \in Nat /\ a * (n + 1) \in Nat
  BY <1>1
<1>3. (a + 1 + d) * (n + 1) = a * (n + 1) + (n + 1) + d * (n + 1)
  BY <1>1
<1> QED
  BY <1>1, <1>2, <1>3

\* The k-th of the n keys of the sorted list stood at e[k].
Arranges(s, n, e) ==
  /\ SortKeys(s) = [k \in 1..n |-> s[e[k]]]
  /\ \A x \in DOMAIN s : \E k \in 1..n : e[k] = x
  /\ \A a, b \in 1..n : e[a] = e[b] => a = b
  /\ \A a, b \in 1..n : a < b => Rank[s[e[a]]] <= Rank[s[e[b]]]

\* sort.Strings moves every key to one place, and puts them in order.
LEMMA SortPermutes ==
  ASSUME NEW s \in Seq(Paths)
  PROVE  \E n \in Nat : \E e \in [1..n -> DOMAIN s] : Arranges(s, n, e)
<1> DEFINE D   == DOMAIN s
           key == [i \in D |-> Rank[s[i]] * (Len(s) + 1) + i]
           e   == Enumerate(D, key)
           n   == Cardinality(D)
<1>1. D = 1..Len(s) /\ Len(s) \in Nat /\ \A i \in D : s[i] \in Paths
  OBVIOUS
<1>2. \A i \in D : Rank[s[i]] \in Nat
  BY <1>1, RankNumbers
<1>3. \A i \in D : key[i] \in Int
  BY <1>1, <1>2
<1>4. \A i, j \in D : Rank[s[i]] < Rank[s[j]] => key[i] < key[j]
  <2> SUFFICES ASSUME NEW i \in D, NEW j \in D, Rank[s[i]] < Rank[s[j]]
               PROVE  Rank[s[i]] * (Len(s) + 1) + i < Rank[s[j]] * (Len(s) + 1) + j
    OBVIOUS
  <2> QED
    BY <1>1, <1>2, TieBreak
<1>5. \A i, j \in D : key[i] = key[j] => i = j
  <2> SUFFICES ASSUME NEW i \in D, NEW j \in D, key[i] = key[j]
               PROVE  i = j
    OBVIOUS
  <2>1. ~(Rank[s[i]] < Rank[s[j]]) /\ ~(Rank[s[j]] < Rank[s[i]])
    <3> HIDE DEF key
    <3> QED
      BY <1>3, <1>4
  <2>2. Rank[s[i]] = Rank[s[j]]
    BY <1>2, <2>1
  <2>3. Rank[s[i]] * (Len(s) + 1) \in Nat
    BY <1>1, <1>2
  <2> QED
    BY <1>1, <2>2, <2>3
<1>6. /\ n \in Nat
      /\ e \in [1..n -> D]
      /\ \A x \in D : \E k \in 1..n : e[k] = x
      /\ \A a, b \in 1..n : a < b => key[e[a]] < key[e[b]]
  <2>1. IsFiniteSet(D)
    BY <1>1, FS_Interval
  <2> HIDE DEF key, D
  <2> QED
    BY <1>3, <1>5, <2>1, EnumerateLists
<1>7. SortKeys(s) = [k \in 1..n |-> s[e[k]]]
  BY DEF SortKeys
<1> HIDE DEF n, e
<1>8. \A a, b \in 1..n : e[a] = e[b] => a = b
  <2> SUFFICES ASSUME NEW a \in 1..n, NEW b \in 1..n, e[a] = e[b]
               PROVE  a = b
    OBVIOUS
  <2>1. key[e[a]] = key[e[b]] /\ key[e[a]] \in Int /\ key[e[b]] \in Int
    <3> HIDE DEF key
    <3> QED
      BY <1>3, <1>6
  <2>2. ~(a < b) /\ ~(b < a)
    <3> HIDE DEF key
    <3> QED
      BY <1>6, <2>1
  <2> QED
    BY <1>6, <2>2
<1>9. ASSUME NEW a \in 1..n, NEW b \in 1..n, a < b
      PROVE  Rank[s[e[a]]] <= Rank[s[e[b]]]
  <2>1. e[a] \in D /\ e[b] \in D
    BY <1>6
  <2>2. ~(key[e[b]] < key[e[a]])
    <3> HIDE DEF key
    <3> QED
      BY <1>3, <1>6, <1>9, <2>1
  <2>3. ~(Rank[s[e[b]]] < Rank[s[e[a]]])
    <3> HIDE DEF key
    <3> QED
      BY <1>4, <2>1, <2>2
  <2> QED
    BY <1>2, <2>1, <2>3
<1>10. \A a, b \in 1..n : a < b => Rank[s[e[a]]] <= Rank[s[e[b]]]
  BY <1>9
<1>11. n \in Nat /\ e \in [1..n -> DOMAIN s] /\ \A x \in DOMAIN s : \E k \in 1..n : e[k] = x
  BY <1>6
<1> HIDE DEF key, D
<1>12. Arranges(s, n, e)
  BY <1>7, <1>8, <1>10, <1>11 DEF Arranges
<1> QED
  BY <1>11, <1>12

\* sort.Strings keeps the keys and puts them in order.
LEMMA SortKeysSorts ==
  ASSUME NEW s \in Seq(Paths)
  PROVE  /\ SortKeys(s) \in Seq(Paths)
         /\ Range(SortKeys(s)) = Range(s)
         /\ InOrder(SortKeys(s))
<1>1. PICK n \in Nat : \E e \in [1..n -> DOMAIN s] : Arranges(s, n, e)
  BY SortPermutes
<1>2. PICK e \in [1..n -> DOMAIN s] :
        /\ SortKeys(s) = [k \in 1..n |-> s[e[k]]]
        /\ \A x \in DOMAIN s : \E k \in 1..n : e[k] = x
        /\ \A a, b \in 1..n : a < b => Rank[s[e[a]]] <= Rank[s[e[b]]]
  BY <1>1 DEF Arranges
<1>3. DOMAIN SortKeys(s) = 1..n /\ \A k \in 1..n : SortKeys(s)[k] = s[e[k]]
  BY <1>2
<1>4. \A i \in DOMAIN s : s[i] \in Paths
  OBVIOUS
<1>5. SortKeys(s) \in [1..n -> Paths]
  BY <1>2, <1>4
<1>6. Range(SortKeys(s)) = Range(s)
  <2>1. \A i \in DOMAIN s : \E k \in 1..n : SortKeys(s)[k] = s[i]
    BY <1>2, <1>3
  <2>2. \A k \in 1..n : \E i \in DOMAIN s : SortKeys(s)[k] = s[i]
    BY <1>3
  <2>3. Range(SortKeys(s)) = {SortKeys(s)[k] : k \in 1..n}
    BY <1>3 DEF Range
  <2>4. Range(s) = {s[i] : i \in DOMAIN s}
    BY DEF Range
  <2>5. \A x \in Range(s) : x \in Range(SortKeys(s))
    BY <2>1, <2>3, <2>4
  <2>6. \A x \in Range(SortKeys(s)) : x \in Range(s)
    BY <2>2, <2>3, <2>4
  <2> QED
    BY <2>5, <2>6
<1>7. InOrder(SortKeys(s))
  BY <1>2, <1>3 DEF InOrder
<1> QED
  BY <1>1, <1>5, <1>6, <1>7, IsSeq

-----------------------------------------------------------------------------
(* Finite sets of names and of positions.                                  *)

\* The instance's names, and so every set of them, are finitely many.
LEMMA PathsFinite ==
  IsFiniteSet(Paths) /\ \A S \in SUBSET Paths : IsFiniteSet(S)
<1>1. PathOrder \in [1..Len(PathOrder) -> Paths] /\ Len(PathOrder) \in Nat
  BY PathsAssumption DEF Paths, Range
<1>2. PathOrder \in Surjection(1..Len(PathOrder), Paths)
  BY <1>1 DEF Surjection, Paths, Range
<1>3. IsFiniteSet(Paths)
  BY <1>1, <1>2, FS_Interval, FS_Surjection
<1> QED
  BY <1>3, FS_Subset

\* Positions of a sequence form a finite set.
LEMMA PositionsFinite ==
  ASSUME NEW T, NEW s \in Seq(T), NEW I \in SUBSET DOMAIN s
  PROVE  IsFiniteSet(I) /\ I \subseteq Int
<1>1. DOMAIN s = 1..Len(s) /\ Len(s) \in Nat
  OBVIOUS
<1>2. IsFiniteSet(1..Len(s))
  BY <1>1, FS_Interval
<1> QED
  BY <1>1, <1>2, FS_Subset

\* The last of some positions.
LEMMA LastExists ==
  ASSUME NEW I, IsFiniteSet(I), I \subseteq Int, I # {}
  PROVE  \E i \in I : \A j \in I : j <= i
<1> DEFINE pos == [i \in I |-> i]
           e   == Enumerate(I, pos)
           n   == Cardinality(I)
<1>1. /\ n \in Nat
      /\ e \in [1..n -> I]
      /\ \A x \in I : \E k \in 1..n : e[k] = x
      /\ \A a, b \in 1..n : a < b => pos[e[a]] < pos[e[b]]
  <2>1. \A i \in I : pos[i] \in Int
    OBVIOUS
  <2>2. \A i, j \in I : pos[i] = pos[j] => i = j
    OBVIOUS
  <2>3. IsFiniteSet(I)
    OBVIOUS
  <2> HIDE DEF pos
  <2> QED
    BY <2>1, <2>2, <2>3, EnumerateLists
<1>2. n # 0
  BY FS_EmptySet
<1>3. \A x \in I : pos[x] = x
  OBVIOUS
<1> HIDE DEF n, e, pos
<1>4. e[n] \in I
  BY <1>1, <1>2
<1>5. ASSUME NEW j \in I
      PROVE  j <= e[n]
  <2>1. PICK k \in 1..n : e[k] = j
    BY <1>1
  <2>2. CASE k = n
    BY <1>4, <2>1, <2>2
  <2>3. CASE k < n
    <3>1. n \in 1..n
      BY <1>1, <1>2
    <3>2. pos[e[k]] < pos[e[n]]
      BY <1>1, <2>3, <3>1
    <3>3. pos[j] = j /\ pos[e[n]] = e[n]
      BY <1>3, <1>4
    <3>4. j \in Int /\ e[n] \in Int
      BY <1>4
    <3>5. j < e[n]
      BY <2>1, <3>2, <3>3
    <3> QED
      BY <3>4, <3>5
  <2> QED
    BY <1>1, <2>1, <2>2, <2>3
<1> QED
  BY <1>4, <1>5

-----------------------------------------------------------------------------
(* The operations on archives.                                             *)

\* Listing the keys of a map (range over a Go map) yields exactly its names.
LEMMA KeysOfLists ==
  ASSUME NEW m, DOMAIN m \subseteq Paths
  PROVE  KeysOf(m) \in Seq(Paths) /\ Range(KeysOf(m)) = DOMAIN m
<1> DEFINE S == DOMAIN m
           e == Enumerate(S, Rank)
           n == Cardinality(S)
<1>1. /\ n \in Nat
      /\ e \in [1..n -> S]
      /\ \A x \in S : \E k \in 1..n : e[k] = x
      /\ \A a, b \in 1..n : a < b => Rank[e[a]] < Rank[e[b]]
  <2>1. IsFiniteSet(S)
    BY PathsFinite
  <2>2. \A i \in S : Rank[i] \in Int
    BY RankNumbers
  <2>3. \A i, j \in S : Rank[i] = Rank[j] => i = j
    BY RankNumbers
  <2> QED
    BY <2>1, <2>2, <2>3, EnumerateLists
<1>2. KeysOf(m) = e
  BY DEF KeysOf
<1> HIDE DEF e, n
<1>3. KeysOf(m) \in [1..n -> Paths]
  BY <1>1, <1>2
<1>4. DOMAIN KeysOf(m) = 1..n
  BY <1>1, <1>2
<1>5. Range(KeysOf(m)) = {KeysOf(m)[k] : k \in 1..n}
  BY <1>4 DEF Range
<1>6. Range(KeysOf(m)) = DOMAIN m
  <2>1. \A k \in 1..n : KeysOf(m)[k] \in S
    BY <1>1, <1>2
  <2>2. \A x \in S : \E k \in 1..n : KeysOf(m)[k] = x
    BY <1>1, <1>2
  <2> QED
    BY <1>5, <2>1, <2>2
<1> QED
  BY <1>1, <1>3, <1>6, IsSeq

\* A batch of entries leaves the archive well-formed, its list in order and
\* complete if it was complete.
LEMMA InsertInserts ==
  ASSUME NEW c, IsArchive(c), NEW m, IsEntryMap(m)
  PROVE  /\ IsArchive(Insert(c, m))
         /\ Range(Insert(c, m).keys) = Range(c.keys) \union DOMAIN m
         /\ Indexed(c) => Indexed(Insert(c, m))
         /\ InOrder(Insert(c, m).keys)
<1> DEFINE s == c.keys \o KeysOf(m)
<1>1. c.keys \in Seq(Paths) /\ KeysOf(m) \in Seq(Paths)
      /\ Range(KeysOf(m)) = DOMAIN m
  BY KeysOfLists DEF IsArchive, IsEntryMap
<1>2. s \in Seq(Paths) /\ Range(s) = Range(c.keys) \union DOMAIN m
  BY <1>1, RangeConcatenation
<1>3. /\ SortKeys(s) \in Seq(Paths)
      /\ Range(SortKeys(s)) = Range(s)
      /\ InOrder(SortKeys(s))
  <2> HIDE DEF s
  <2> QED
    BY <1>2, SortKeysSorts
<1>4. /\ Insert(c, m).keys = SortKeys(s)
      /\ Insert(c, m).entries = Overlay(m, c.entries)
      /\ Insert(c, m) = [entries |-> Insert(c, m).entries,
                         keys |-> Insert(c, m).keys]
  BY DEF Insert
<1>5. /\ DOMAIN Overlay(m, c.entries) = DOMAIN m \union DOMAIN c.entries
      /\ IsEntryMap(Overlay(m, c.entries))
  BY DEF Overlay, IsEntryMap, IsArchive
<1> HIDE DEF s
<1> QED
  BY <1>2, <1>3, <1>4, <1>5 DEF IsArchive, Indexed

\* The entries that mkdir, ln, add and Backup build are entries.
LEMMA EntriesTyped ==
  /\ Nothing \in Payloads /\ Zero \in Entries /\ DirEntry \in Entries
  /\ \A t \in Texts : SymLink(t) \in Entries
  /\ \A d \in Payloads : RegEntry(d) \in Entries
  /\ \A names \in Seq(Paths) \ {<<>>} : NameList(names) \in Payloads
<1>1. [form |-> "empty"] \in Bases
  BY DEF Bases
<1>2. \A t \in Texts : [form |-> "text", text |-> t] \in Bases
  BY DEF Bases
<1>3. \A names \in Seq(Paths) \ {<<>>} : [form |-> "names", names |-> names] \in Bases
  BY DEF Bases
<1>4. \A b \in Bases : Raw(b) \in Payloads
  BY DEF Raw, Payloads
<1>5. \A names \in Seq(Paths) \ {<<>>} : NameList(names) \in Payloads
  BY <1>3, <1>4 DEF NameList
<1>6. Nothing \in Payloads
  BY <1>1, <1>4 DEF Nothing
<1>7. \A t \in Texts : Raw([form |-> "text", text |-> t]) \in Payloads
  BY <1>2, <1>4
<1> QED
  BY <1>5, <1>6, <1>7 DEF Zero, DirEntry, SymLink, RegEntry, Entries, Kinds

\* Indexing c.Entries yields an entry, Go's zero value for a missing name.
LEMMA LookupTyped ==
  ASSUME NEW c, IsArchive(c), NEW p
  PROVE  Lookup(c, p) \in Entries
BY EntriesTyped DEF Lookup, IsArchive, IsEntryMap

\* Compress and Decompress turn entries into entries.
LEMMA CompressTyped ==
  ASSUME NEW e \in Entries
  PROVE  Compress(e) \in Entries /\ Decompress(e) \in Entries
<1> DEFINE C == {"whole", "cut"}
<1>1. e = [kind |-> e.kind, data |-> e.data] /\ e.kind \in Kinds /\ e.data \in Payloads
  BY DEF Entries
<1>2. e.data = [base |-> e.data.base, coats |-> e.data.coats]
      /\ e.data.base \in Bases /\ e.data.coats \in Seq(C)
  BY <1>1 DEF Payloads
<1>3. Append(e.data.coats, "cut") \in Seq(C)
  BY <1>2
<1>4. Decompresses(e) => SubSeq(e.data.coats, 1, Len(e.data.coats) - 1) \in Seq(C)
  BY <1>2 DEF Decompresses
<1>5. \A s \in Seq(C) : [e EXCEPT !.data.coats = s] \in Entries
  BY <1>1, <1>2 DEF Entries, Payloads
<1>6. Compress(e) = IF e.kind = "reg" THEN [e EXCEPT !.data.coats = Append(e.data.coats, "cut")] ELSE e
  BY DEF Compress
<1>7. Decompress(e) = IF Decompresses(e)
                      THEN [e EXCEPT !.data.coats = SubSeq(e.data.coats, 1, Len(e.data.coats) - 1)]
                      ELSE e
  BY DEF Decompress
<1> QED
  BY <1>3, <1>4, <1>5, <1>6, <1>7

\* Removing names leaves the archive well-formed and its list complete.
LEMMA RemoveRemoves ==
  ASSUME NEW c, IsArchive(c), NEW S
  PROVE  /\ IsArchive(removeEntries(c, S))
         /\ Indexed(c) => Indexed(removeEntries(c, S))
<1> DEFINE gone   == S \intersect DOMAIN c.entries
           firsts == {i \in DOMAIN c.keys :
                        /\ c.keys[i] \in gone
                        /\ \A j \in 1..(i - 1) : c.keys[j] # c.keys[i]}
           I      == DOMAIN c.keys \ firsts
           r      == removeEntries(c, S)
<1>1. /\ r.entries = Without(c.entries, gone)
      /\ r.keys = Pick(c.keys, I)
      /\ r = [entries |-> r.entries, keys |-> r.keys]
  BY DEF removeEntries
<1>2. /\ DOMAIN r.entries = DOMAIN c.entries \ gone
      /\ IsEntryMap(r.entries)
  BY <1>1 DEF Without, Restrict, IsArchive, IsEntryMap
<1>3. c.keys \in Seq(Paths) /\ \A i \in DOMAIN c.keys : c.keys[i] \in Paths
  BY DEF IsArchive
<1>4. /\ Pick(c.keys, I) \in Seq(Paths)
      /\ Range(Pick(c.keys, I)) = {c.keys[i] : i \in I}
  <2>1. IsFiniteSet(I) /\ I \subseteq Int
    BY <1>3, PositionsFinite
  <2> HIDE DEF firsts
  <2> QED
    BY <1>3, <2>1, PickPicks
<1>5. ASSUME Indexed(c), NEW p \in DOMAIN r.entries
      PROVE  p \in Range(r.keys)
  <2>1. PICK i \in DOMAIN c.keys : c.keys[i] = p
    BY <1>2, <1>5 DEF Indexed, Range
  <2>2. i \in I
    BY <1>2, <1>5, <2>1
  <2> HIDE DEF I
  <2> QED
    BY <1>1, <1>4, <2>1, <2>2
<1> HIDE DEF r
<1>6. IsArchive(r)
  BY <1>1, <1>2, <1>4 DEF IsArchive
<1>7. Indexed(c) => Indexed(r)
  BY <1>5 DEF Indexed
<1> QED
  BY <1>6, <1>7 DEF r

\* Rm keeps the Cpio struct well formed and every entry on the list.
LEMMA RmKeeps ==
  ASSUME NEW c, IsArchive(c), NEW p, NEW r
  PROVE  IsArchive(Rm(c, p, r)) /\ (Indexed(c) => Indexed(Rm(c, p, r)))
BY RemoveRemoves DEF Rm

\* addEntry keeps the struct well formed, every entry listed, and sorts.
LEMMA AddKeeps ==
  ASSUME NEW c, IsArchive(c), NEW p \in Paths, NEW e \in Entries
  PROVE  /\ IsArchive(addEntry(c, p, e))
         /\ Indexed(c) => Indexed(addEntry(c, p, e))
         /\ InOrder(addEntry(c, p, e).keys)
<1> DEFINE m == [q \in {p} |-> e]
<1>1. IsEntryMap(m)
  BY DEF IsEntryMap
<1>2. addEntry(c, p, e) = Insert(c, m)
  BY DEF addEntry
<1> HIDE DEF m
<1> QED
  BY <1>1, <1>2, InsertInserts

\* Mv keeps the struct well formed, every entry listed, and sorts.
LEMMA MvKeeps ==
  ASSUME NEW c, IsArchive(c), NEW from, NEW to \in Paths
  PROVE  /\ IsArchive(Mv(c, from, to))
         /\ Indexed(c) => Indexed(Mv(c, from, to))
         /\ InOrder(Mv(c, from, to).keys)
<1> DEFINE I == {i \in DOMAIN c.keys : c.keys[i] # from}
           r == [entries |-> Without(c.entries, {from}), keys |-> Pick(c.keys, I)]
<1>1. c.keys \in Seq(Paths) /\ \A i \in DOMAIN c.keys : c.keys[i] \in Paths
  BY DEF IsArchive
<1>2. /\ Pick(c.keys, I) \in Seq(Paths)
      /\ Range(Pick(c.keys, I)) = {c.keys[i] : i \in I}
  <2>1. IsFiniteSet(I) /\ I \subseteq Int
    BY <1>1, PositionsFinite
  <2> QED
    BY <1>1, <2>1, PickPicks
<1>3. /\ DOMAIN r.entries = DOMAIN c.entries \ {from}
      /\ IsEntryMap(r.entries)
  BY DEF Without, Restrict, IsArchive, IsEntryMap
<1>4. /\ r.keys = Pick(c.keys, I)
      /\ r = [entries |-> r.entries, keys |-> r.keys]
  OBVIOUS
<1>5. ASSUME Indexed(c), NEW p \in DOMAIN r.entries
      PROVE  p \in Range(r.keys)
  <2>1. PICK i \in DOMAIN c.keys : c.keys[i] = p
    BY <1>3, <1>5 DEF Indexed, Range
  <2>2. i \in I
    BY <1>3, <1>5, <2>1
  <2> HIDE DEF I
  <2> QED
    BY <1>4, <1>2, <2>1, <2>2
<1>6. Mv(c, from, to) = addEntry(r, to, Lookup(c, from))
  BY DEF Mv
<1> HIDE DEF r
<1>7. IsArchive(r)
  BY <1>2, <1>3, <1>4 DEF IsArchive
<1>8. Indexed(c) => Indexed(r)
  BY <1>5 DEF Indexed
<1>9. Lookup(c, from) \in Entries
  BY LookupTyped
<1> QED
  BY <1>6, <1>7, <1>8, <1>9, AddKeeps

\* Whatever the file holds, LoadFromData builds a well-formed archive whose
\* list names every entry and nothing else, and no name that it skips.
LEMMA LoadLoads ==
  ASSUME NEW items \in Seq(Items)
  PROVE  LET r == LoadFromData(items)
         IN  /\ IsArchive(r) /\ Indexed(r) /\ Range(r.keys) = DOMAIN r.entries
             /\ Range(r.keys) \intersect (DotNames \union {Trailer}) = {}
<1> DEFINE A        == Accepted(items)
           named(p) == {i \in A : items[i].name = p}
           last(p)  == CHOOSE i \in named(p) : \A j \in named(p) : j <= i
           names    == {items[i].name : i \in A}
           s        == [i \in DOMAIN items |->
                          IF i \in A THEN items[i].name ELSE <<>>]
           r        == LoadFromData(items)
<1>1. \A i \in DOMAIN items : items[i] \in Items
  OBVIOUS
<1>2. A \subseteq DOMAIN items
  BY DEF Accepted
<1>3. \A i \in A : items[i].name \in Paths /\ items[i].entry \in Entries
  BY <1>1 DEF Accepted, Items
<1>4. /\ r.entries = [p \in names |-> items[last(p)].entry]
      /\ r.keys = Pick(s, A)
      /\ r = [entries |-> r.entries, keys |-> r.keys]
  BY DEF LoadFromData
<1>5. IsFiniteSet(A) /\ A \subseteq Int
  BY <1>2, PositionsFinite
<1>6. \A i \in A : s[i] = items[i].name /\ s[i] \in Paths
  BY <1>2, <1>3
<1>7. \A i \in A : items[i].name \notin DotNames \union {Trailer}
  BY DEF Accepted
<1>8. Pick(s, A) \in Seq(Paths) /\ Range(Pick(s, A)) = {s[i] : i \in A}
  <2> HIDE DEF A, s
  <2> QED
    BY <1>5, <1>6, PickPicks
<1>9. ASSUME NEW p \in names
      PROVE  items[last(p)].entry \in Entries
  <2>1. named(p) # {} /\ named(p) \in SUBSET A
    OBVIOUS
  <2>2. IsFiniteSet(named(p)) /\ named(p) \subseteq Int
    BY <1>5, <2>1, FS_Subset
  <2>3. \E i \in named(p) : \A j \in named(p) : j <= i
    <3> HIDE DEF named
    <3> QED
      BY <2>1, <2>2, LastExists
  <2>4. last(p) \in named(p)
    <3> HIDE DEF named
    <3> QED
      BY <2>3
  <2> QED
    BY <1>3, <2>4
<1>10. names \subseteq Paths
  BY <1>3
<1> HIDE DEF A, last, s, r
<1>11. IsEntryMap(r.entries)
  BY <1>4, <1>9, <1>10 DEF IsEntryMap
<1>12. IsArchive(r)
  BY <1>4, <1>8, <1>11 DEF IsArchive
<1>13. DOMAIN r.entries = Range(r.keys)
  BY <1>4, <1>6, <1>8
<1>14. Range(r.keys) \intersect (DotNames \union {Trailer}) = {}
  BY <1>4, <1>6, <1>8, <1>7
<1> QED
  BY <1>12, <1>13, <1>14 DEF r, Indexed

\* The names of what Restore brings back are names of the instance.
LEMMA NewNameTyped ==
  ASSUME NEW c, NEW p \in Members
  PROVE  NewName(c, p) \in Paths
BY PathsAssumption DEF NewName

\* What Restore brings back is a map of entries.
LEMMA BackupsTyped ==
  ASSUME NEW c, IsArchive(c)
  PROVE  IsEntryMap(Backups(c))
<1> DEFINE members  == {i \in DOMAIN c.keys : c.keys[i] \in Members}
           named(n) == {i \in members : NewName(c, c.keys[i]) = n}
           at(n)    == CHOOSE i \in named(n) : \A j \in named(n) : j <= i
           last(n)  == c.keys[at(n)]
           names    == {NewName(c, c.keys[i]) : i \in members}
           back(n)  == IF EndsInXz(last(n)) THEN Decompress(Lookup(c, last(n)))
                                            ELSE Lookup(c, last(n))
<1>1. Backups(c) = [n \in names |-> back(n)]
  BY DEF Backups
<1>2. names \subseteq Paths
  BY NewNameTyped
<1>3. \A n : Lookup(c, last(n)) \in Entries /\ Decompress(Lookup(c, last(n))) \in Entries
  BY LookupTyped, CompressTyped
<1> HIDE DEF names, last
<1> QED
  BY <1>1, <1>2, <1>3 DEF IsEntryMap

\* Restore keeps the struct well formed and every entry on the list.
LEMMA RestoreKeeps ==
  ASSUME NEW c, IsArchive(c)
  PROVE  IsArchive(Restore(c)) /\ (Indexed(c) => Indexed(Restore(c)))
<1> DEFINE kept    == Rm(c, BackupDir, FALSE)
           cleared == [kept EXCEPT !.entries = EmptyMap]
           rest    == removeEntries(kept, RmListed(c))
<1>1. IsArchive(kept) /\ (Indexed(c) => Indexed(kept))
  BY RmKeeps
<1>2. IsArchive(cleared) /\ Indexed(cleared)
  <2> HIDE DEF kept
  <2> QED
    BY <1>1 DEF IsArchive, IsEntryMap, Indexed, EmptyMap
<1>3. IsArchive(rest) /\ (Indexed(c) => Indexed(rest))
  <2> HIDE DEF kept
  <2> QED
    BY <1>1, RemoveRemoves
<1>4. /\ IsArchive(Insert(rest, Backups(c)))
      /\ Indexed(c) => Indexed(Insert(rest, Backups(c)))
  <2> HIDE DEF rest
  <2> QED
    BY <1>3, BackupsTyped, InsertInserts
<1>5. Restore(c) \in {cleared, Insert(rest, Backups(c))}
  BY DEF Restore
<1> HIDE DEF cleared, rest
<1> QED
  BY <1>2, <1>4, <1>5

\* Patch keeps the struct well formed and every entry on the list.
LEMMA PatchKeeps ==
  ASSUME NEW c, IsArchive(c), NEW k
  PROVE  IsArchive(Patch(c, k)) /\ (Indexed(c) => Indexed(Patch(c, k)))
BY RmKeeps DEF Patch

-----------------------------------------------------------------------------
(* The state machine.                                                      *)

\* What the commands and loops rely on besides the types: the locals of
\* Backup and of Dump exist only while these run, a merge is part of an
\* argument, the file exists while Dump writes it, and a process that is not
\* running keeps no archive.
Phases ==
  /\ pc # "merge" => merge = NoMerge
  /\ pc = "merge" => argc > 0
  /\ pc # "dump" => cursor = 0
  /\ pc = "dump" => cursor > 0 /\ disk \in Seq(Items)
  /\ pc = "idle" => cpio = NewCpio

IInv == TypeOK /\ EntriesIndexed /\ Phases

\* The archive NewCpio is well formed and lists all its entries.
LEMMA EmptyTyped ==
  /\ IsArchive(NewCpio) /\ Indexed(NewCpio) /\ IsEntryMap(EmptyMap)
  /\ NoMerge.orig = NewCpio
BY DEF IsArchive, NewCpio, IsEntryMap, EmptyMap, Indexed, NoMerge

\* What Dump writes are items of a file image.
LEMMA ItemsTyped ==
  /\ Torn \in Items
  /\ \A p \in Paths \union {Trailer}, e \in Entries : EntryItem(p, e) \in Items
BY DEF Items, Torn, EntryItem

\* The two bounds of an instance are natural numbers.
LEMMA BoundsTyped == MaxCommands \in Nat /\ MaxRuns \in Nat
BY CpioAssumption

\* The invariant holds before the first run of the tool.
LEMMA InitIInv == Init => IInv
<1> SUFFICES ASSUME Init PROVE IInv
  OBVIOUS
<1>1. disk \in Seq(Items) \union {NoFile}
  BY CpioAssumption DEF Init
<1>2. IsArchive(cpio) /\ Indexed(cpio) /\ IsArchive(merge.orig) /\ Indexed(merge.orig)
  BY EmptyTyped DEF Init
<1>3. /\ merge = NoMerge /\ pc = "idle" /\ argc = 0 /\ cursor = 0
      /\ cpio = NewCpio /\ full = FALSE /\ status = "none" /\ runs = 0
  BY DEF Init
<1>4. /\ merge.l \in 1..(Len(LeftKeys) + 1)
      /\ merge.r \in 1..(Len(RightKeys) + 1)
  BY <1>2, <1>3 DEF NoMerge, LeftKeys, RightKeys, IsArchive
<1>5. IsEntryMap(merge.saved) /\ merge.rmlist \in Seq(Paths) /\ merge.skip \in BOOLEAN
  BY <1>3, EmptyTyped DEF NoMerge
<1>6. merge = [orig |-> merge.orig, l |-> merge.l, r |-> merge.r,
               saved |-> merge.saved, rmlist |-> merge.rmlist,
               skip |-> merge.skip]
  BY <1>3 DEF NoMerge
<1>7. cursor \in 0..(Len(cpio.keys) + 1)
  BY <1>2, <1>3 DEF IsArchive
<1>8. /\ argc \in 0..MaxCommands /\ runs \in 0..MaxRuns
      /\ full \in BOOLEAN /\ status \in Statuses
      /\ pc \in {"idle", "run", "merge", "dump"}
  <2>1. argc \in 0..MaxCommands /\ runs \in 0..MaxRuns
    BY <1>3, BoundsTyped
  <2>2. full \in BOOLEAN
    BY <1>3, Zenon
  <2>3. status \in Statuses /\ pc \in {"idle", "run", "merge", "dump"}
    BY <1>3 DEF Statuses
  <2> QED
    BY <2>1, <2>2, <2>3, Zenon
<1>9. TypeOK
  BY <1>1, <1>2, <1>4, <1>5, <1>6, <1>7, <1>8, Zenon DEF TypeOK
<1> QED
  BY <1>2, <1>3, <1>9 DEF IInv, EntriesIndexed, Phases

\* The process ends: everything in memory is reset.
LEMMA ExitKeeps ==
  ASSUME IInv, NEW how \in Statuses, Exit(how),
         disk' \in Seq(Items) \union {NoFile}
  PROVE  IInv'
<1>1. /\ merge' = NoMerge /\ pc' = "idle" /\ argc' = 0 /\ cursor' = 0
      /\ cpio' = NewCpio /\ full' = FALSE /\ status' = how /\ runs' = runs
  BY DEF Exit
<1>2. /\ IsArchive(cpio') /\ Indexed(cpio')
      /\ IsArchive(merge.orig') /\ Indexed(merge.orig')
  BY <1>1, EmptyTyped
<1>3. /\ merge.l' \in 1..(Len(LeftKeys') + 1)
      /\ merge.r' \in 1..(Len(RightKeys') + 1)
  BY <1>1, <1>2 DEF NoMerge, LeftKeys, RightKeys, IsArchive
<1>4. IsEntryMap(merge.saved') /\ merge.rmlist' \in Seq(Paths) /\ merge.skip' \in BOOLEAN
  BY <1>1, EmptyTyped DEF NoMerge
<1>5. merge' = [orig |-> merge.orig', l |-> merge.l', r |-> merge.r',
                saved |-> merge.saved', rmlist |-> merge.rmlist',
                skip |-> merge.skip']
  BY <1>1 DEF NoMerge
<1>6. cursor' \in 0..(Len(cpio.keys') + 1)
  BY <1>1, <1>2 DEF IsArchive
<1>7. /\ argc' \in 0..MaxCommands /\ runs' \in 0..MaxRuns
      /\ full' \in BOOLEAN /\ status' \in Statuses
      /\ pc' \in {"idle", "run", "merge", "dump"}
  <2>1. runs \in 0..MaxRuns
    BY DEF IInv, TypeOK
  <2>2. argc' \in 0..MaxCommands /\ runs' \in 0..MaxRuns
    BY <1>1, <2>1, BoundsTyped
  <2>3. full' \in BOOLEAN
    BY <1>1, Zenon
  <2>4. status' \in Statuses /\ pc' \in {"idle", "run", "merge", "dump"}
    BY <1>1
  <2> QED
    BY <2>2, <2>3, <2>4, Zenon
<1>8. TypeOK'
  BY <1>2, <1>3, <1>4, <1>5, <1>6, <1>7, Zenon DEF TypeOK
<1> QED
  BY <1>1, <1>2, <1>8 DEF IInv, EntriesIndexed, Phases

\* A command that edits the archive and goes on to the next argument.
LEMMA ContinueKeeps ==
  ASSUME IInv, pc = "run", argc > 0, NEW c, Continue(c),
         IsArchive(c), Indexed(c)
  PROVE  IInv'
<1>1. /\ cpio' = c /\ argc' = argc - 1 /\ disk' = disk /\ pc' = "run"
      /\ merge' = NoMerge /\ cursor' = 0 /\ full' = full
      /\ status' = status /\ runs' = runs
  BY DEF Continue, IInv, Phases
<1>2. /\ IsArchive(cpio') /\ Indexed(cpio')
      /\ IsArchive(merge.orig') /\ Indexed(merge.orig')
  BY <1>1, EmptyTyped
<1>3. /\ merge.l' \in 1..(Len(LeftKeys') + 1)
      /\ merge.r' \in 1..(Len(RightKeys') + 1)
  BY <1>1, <1>2 DEF NoMerge, LeftKeys, RightKeys, IsArchive
<1>4. IsEntryMap(merge.saved') /\ merge.rmlist' \in Seq(Paths) /\ merge.skip' \in BOOLEAN
  BY <1>1, EmptyTyped DEF NoMerge
<1>5. merge' = [orig |-> merge.orig', l |-> merge.l', r |-> merge.r',
                saved |-> merge.saved', rmlist |-> merge.rmlist',
                skip |-> merge.skip']
  BY <1>1 DEF NoMerge
<1>6. cursor' \in 0..(Len(cpio.keys') + 1)
  BY <1>1, <1>2 DEF IsArchive
<1>7. /\ argc' \in 0..MaxCommands /\ runs' \in 0..MaxRuns
      /\ full' \in BOOLEAN /\ status' \in Statuses
      /\ pc' \in {"idle", "run", "merge", "dump"}
      /\ disk' \in Seq(Items) \union {NoFile}
  BY <1>1, BoundsTyped DEF IInv, TypeOK
<1>8. TypeOK'
  BY <1>2, <1>3, <1>4, <1>5, <1>6, <1>7, Zenon DEF TypeOK
<1> QED
  BY <1>1, <1>2, <1>8 DEF IInv, EntriesIndexed, Phases

\* The arguments of a command have the types its verb says.
LEMMA CommandTyped ==
  ASSUME NEW cmd \in Commands
  PROVE  /\ cmd.verb = "mkdir" => cmd.path \in Paths
         /\ cmd.verb = "ln" => cmd.path \in Paths /\ cmd.target \in Texts
         /\ cmd.verb = "mv" => cmd.to \in Paths
         /\ cmd.verb = "add" => cmd.path \in Paths /\ cmd.infile \in InFiles
         /\ cmd.verb = "backup" => /\ cmd.orig \in Seq(Items) \union {NoFile}
                                   /\ cmd.skip \in BOOLEAN
         /\ cmd.verb = "malformed" => cmd.exit \in {"usage", "fatal", "panic"}
<1> cmd \in Cmds
  BY CpioAssumption
<1>1. cmd.verb = "mkdir" => cmd.path \in Paths
  BY DEF Cmds
<1>2. cmd.verb = "ln" => cmd.path \in Paths /\ cmd.target \in Texts
  BY DEF Cmds
<1>3. cmd.verb = "mv" => cmd.to \in Paths
  BY DEF Cmds
<1>4. cmd.verb = "add" => cmd.path \in Paths /\ cmd.infile \in InFiles
  BY DEF Cmds
<1>5. cmd.verb = "backup" => cmd.orig \in Seq(Items) \union {NoFile}
  BY DEF Cmds
<1>6. cmd.verb = "backup" => cmd.skip \in BOOLEAN
  BY DEF Cmds
<1>7. cmd.verb = "malformed" => cmd.exit \in {"usage", "fatal", "panic"}
  BY DEF Cmds
<1> QED
  BY <1>1, <1>2, <1>3, <1>4, <1>5, <1>6, <1>7

\* Loading the file keeps the invariant.
LEMMA StartKeeps ==
  ASSUME IInv, Start
  PROVE  IInv'
<1>1. /\ disk' = disk /\ merge' = NoMerge /\ cursor' = 0 /\ full' = full
      /\ runs' = runs + 1 /\ runs < MaxRuns
  BY DEF Start, IInv, Phases
<1>2. /\ IsArchive(cpio') /\ Indexed(cpio')
      /\ IsArchive(merge.orig') /\ Indexed(merge.orig')
  <2>1. disk # NoFile => disk \in Seq(Items)
    BY DEF IInv, TypeOK
  <2>2. cpio' = cpio \/ cpio' = NewCpio \/ (disk # NoFile /\ cpio' = LoadFromData(disk))
    BY DEF Start
  <2>3. IsArchive(cpio) /\ Indexed(cpio)
    BY DEF IInv, TypeOK, EntriesIndexed
  <2> QED
    BY <1>1, <2>1, <2>2, <2>3, EmptyTyped, LoadLoads
<1>3. /\ merge.l' \in 1..(Len(LeftKeys') + 1)
      /\ merge.r' \in 1..(Len(RightKeys') + 1)
  BY <1>1, <1>2 DEF NoMerge, LeftKeys, RightKeys, IsArchive
<1>4. IsEntryMap(merge.saved') /\ merge.rmlist' \in Seq(Paths) /\ merge.skip' \in BOOLEAN
  BY <1>1, EmptyTyped DEF NoMerge
<1>5. merge' = [orig |-> merge.orig', l |-> merge.l', r |-> merge.r',
                saved |-> merge.saved', rmlist |-> merge.rmlist',
                skip |-> merge.skip']
  BY <1>1 DEF NoMerge
<1>6. cursor' \in 0..(Len(cpio.keys') + 1)
  BY <1>1, <1>2 DEF IsArchive
<1>7. argc' \in 0..MaxCommands /\ runs' \in 0..MaxRuns
  <2>1. argc \in 0..MaxCommands /\ runs \in 0..MaxRuns
    BY DEF IInv, TypeOK
  <2>2. argc' = argc \/ argc' \in 0..MaxCommands
    BY DEF Start
  <2> QED
    BY <1>1, <2>1, <2>2, BoundsTyped
<1>8. full' \in BOOLEAN /\ disk' \in Seq(Items) \union {NoFile}
  BY <1>1, Zenon DEF IInv, TypeOK
<1>9. status' \in Statuses /\ pc' \in {"idle", "run", "merge", "dump"}
  BY DEF Start, Statuses
<1>10. TypeOK'
  BY <1>2, <1>3, <1>4, <1>5, <1>6, <1>7, <1>8, <1>9, Zenon DEF TypeOK
<1>11. Phases'
  BY <1>1 DEF Start, Phases, IInv
<1> QED
  BY <1>2, <1>10, <1>11 DEF IInv, EntriesIndexed

\* Leaving through os.Exit, log.Fatal or a panic keeps the invariant.
LEMMA AbortKeeps ==
  ASSUME IInv, NEW how \in Statuses, Abort(how)
  PROVE  IInv'
BY ExitKeeps DEF Abort, IInv, TypeOK

\* Backup up to its loops keeps the invariant.
LEMMA BackupBeginKeeps ==
  ASSUME IInv, pc = "run", argc > 0, NEW cmd \in Commands, CmdBackup(cmd)
  PROVE  IInv'
<1>1. CASE Abort("panic")
  BY <1>1, AbortKeeps DEF Statuses
<1>2. CASE Loads(cmd.orig) /\ ~Abort("panic")
  <2> DEFINE o == LoadFromData(cmd.orig)
             f == [p \in {BackupDir} |-> DirEntry]
  <2>1. /\ pc' = "merge"
        /\ cpio' = Rm(cpio, BackupDir, TRUE)
        /\ merge' = [orig |-> Rm(o, BackupDir, TRUE), l |-> 1, r |-> 1,
                     saved |-> f, rmlist |-> <<>>, skip |-> cmd.skip]
        /\ disk' = disk /\ argc' = argc /\ cursor' = cursor /\ full' = full
        /\ status' = status /\ runs' = runs
    BY <1>2 DEF CmdBackup, NoMerge
  <2>2. cmd.orig \in Seq(Items) /\ cmd.skip \in BOOLEAN
    BY <1>2, CommandTyped DEF CmdBackup, Loads
  <2>3. IsArchive(o) /\ Indexed(o)
    BY <2>2, LoadLoads
  <2>4. IsArchive(cpio) /\ Indexed(cpio)
    BY DEF IInv, TypeOK, EntriesIndexed
  <2> HIDE DEF o
  <2>5. /\ IsArchive(cpio') /\ Indexed(cpio')
        /\ IsArchive(merge.orig') /\ Indexed(merge.orig')
    BY <2>1, <2>3, <2>4, RmKeeps
  <2>6. /\ merge.l' \in 1..(Len(LeftKeys') + 1)
        /\ merge.r' \in 1..(Len(RightKeys') + 1)
    <3>1. merge.l' = 1 /\ merge.r' = 1
      BY <2>1
    <3>2. merge.orig.keys' \in Seq(Paths) /\ cpio.keys' \in Seq(Paths)
      BY <2>5 DEF IsArchive
    <3> QED
      BY <3>1, <3>2 DEF LeftKeys, RightKeys
  <2>7. IsEntryMap(merge.saved')
    <3>1. IsEntryMap(f)
      BY PathsAssumption, EntriesTyped DEF IsEntryMap
    <3> QED
      BY <2>1, <3>1
  <2>8. merge.rmlist' \in Seq(Paths)
    BY <2>1
  <2>9. merge.skip' \in BOOLEAN
    <3>1. merge.skip' = cmd.skip
      BY <2>1
    <3> QED
      BY <2>2, <3>1, Zenon
  <2>10. merge' = [orig |-> merge.orig', l |-> merge.l', r |-> merge.r',
                   saved |-> merge.saved', rmlist |-> merge.rmlist',
                   skip |-> merge.skip']
    BY <2>1
  <2>11. cursor' \in 0..(Len(cpio.keys') + 1)
    <3>1. cursor' = 0
      BY <2>1 DEF IInv, Phases
    <3>2. cpio.keys' \in Seq(Paths)
      BY <2>5 DEF IsArchive
    <3> QED
      BY <3>1, <3>2
  <2>12. /\ disk' \in Seq(Items) \union {NoFile} /\ argc' \in 0..MaxCommands
         /\ full' \in BOOLEAN /\ status' \in Statuses /\ runs' \in 0..MaxRuns
         /\ pc' \in {"idle", "run", "merge", "dump"}
    BY <2>1, Zenon DEF IInv, TypeOK
  <2>13. TypeOK'
    BY <2>5, <2>6, <2>7, <2>8, <2>9, <2>10, <2>11, <2>12, Zenon DEF TypeOK
  <2>14. Phases'
    BY <2>1 DEF Phases, IInv
  <2> QED
    BY <2>5, <2>13, <2>14 DEF IInv, EntriesIndexed
<1> QED
  BY <1>1, <1>2 DEF CmdBackup

\* Every command of CpioCommands keeps the invariant.
LEMMA CommandKeeps ==
  ASSUME IInv, Command
  PROVE  IInv'
<1>1. pc = "run" /\ argc > 0
  BY DEF Command
<1>2. IsArchive(cpio) /\ Indexed(cpio)
  BY DEF IInv, TypeOK, EntriesIndexed
<1>3. PICK cmd \in Commands :
        \/ CmdRm(cmd) \/ CmdMkdir(cmd) \/ CmdLn(cmd) \/ CmdMv(cmd)
        \/ CmdAdd(cmd) \/ CmdExtract(cmd) \/ CmdPatch(cmd)
        \/ CmdRestore(cmd) \/ CmdTest(cmd) \/ CmdExists(cmd) \/ CmdLs(cmd)
        \/ CmdIgnored(cmd) \/ CmdMalformed(cmd) \/ CmdBackup(cmd)
  BY DEF Command
<1>4. CASE CmdRm(cmd)
  BY <1>1, <1>2, <1>4, RmKeeps, ContinueKeeps DEF CmdRm
<1>5. CASE CmdMkdir(cmd)
  <2>1. IsArchive(addEntry(cpio, cmd.path, DirEntry)) /\ Indexed(addEntry(cpio, cmd.path, DirEntry))
    BY <1>2, <1>5, CommandTyped, EntriesTyped, AddKeeps DEF CmdMkdir
  <2> QED
    BY <1>1, <1>5, <2>1, ContinueKeeps DEF CmdMkdir
<1>6. CASE CmdLn(cmd)
  <2> DEFINE e == SymLink(cmd.target)
  <2>1. e \in Entries /\ cmd.path \in Paths
    BY <1>6, CommandTyped, EntriesTyped DEF CmdLn
  <2>2. Continue(addEntry(cpio, cmd.path, e))
    BY <1>6 DEF CmdLn
  <2> HIDE DEF e
  <2> QED
    BY <1>1, <1>2, <2>1, <2>2, AddKeeps, ContinueKeeps
<1>7. CASE CmdMv(cmd)
  <2>1. cmd.to \in Paths
    BY <1>7, CommandTyped DEF CmdMv
  <2> QED
    BY <1>1, <1>2, <1>7, <2>1, MvKeeps, ContinueKeeps DEF CmdMv
<1>8. CASE CmdAdd(cmd)
  <2>1. CASE Abort("fatal")
    BY <2>1, AbortKeeps DEF Statuses
  <2>2. CASE ~Abort("fatal")
    <3> DEFINE e == Added(cmd.infile.kind, cmd.infile.data)
    <3>1. cmd.path \in Paths /\ cmd.infile.data \in Payloads
      BY <1>8, CommandTyped DEF CmdAdd, InFiles
    <3>2. e \in Entries
      BY <3>1, EntriesTyped DEF Added, Entries, Kinds
    <3>3. Continue(addEntry(cpio, cmd.path, e))
      BY <1>8, <2>2 DEF CmdAdd
    <3> HIDE DEF e
    <3> QED
      BY <1>1, <1>2, <3>1, <3>2, <3>3, AddKeeps, ContinueKeeps
  <2> QED
    BY <2>1, <2>2
<1>9. CASE CmdExtract(cmd)
  BY <1>1, <1>2, <1>9, AbortKeeps, ContinueKeeps DEF CmdExtract, Statuses
<1>10. CASE CmdPatch(cmd)
  BY <1>1, <1>2, <1>10, AbortKeeps, PatchKeeps, ContinueKeeps
  DEF CmdPatch, Statuses
<1>11. CASE CmdRestore(cmd)
  BY <1>1, <1>2, <1>11, AbortKeeps, RestoreKeeps, ContinueKeeps
  DEF CmdRestore, Statuses
<1>12. CASE CmdTest(cmd)
  <2>1. Test(cpio) \in Statuses
    BY DEF Test, Statuses
  <2> QED
    BY <1>12, <2>1, AbortKeeps DEF CmdTest
<1>13. CASE CmdExists(cmd)
  <2> DEFINE how == IF cmd.path \in Range(cpio.keys) THEN "0" ELSE "1"
  <2>1. how \in Statuses
    BY DEF Statuses
  <2>2. Abort(how)
    BY <1>13 DEF CmdExists
  <2> HIDE DEF how
  <2> QED
    BY <2>1, <2>2, AbortKeeps
<1>14. CASE CmdLs(cmd)
  BY <1>14, AbortKeeps DEF CmdLs, Statuses
<1>15. CASE CmdIgnored(cmd)
  BY <1>1, <1>2, <1>15, ContinueKeeps DEF CmdIgnored
<1>16. CASE CmdMalformed(cmd)
  <2>1. cmd.exit \in Statuses
    BY <1>16, CommandTyped DEF CmdMalformed, Statuses
  <2> QED
    BY <1>16, <2>1, AbortKeeps DEF CmdMalformed
<1>17. CASE CmdBackup(cmd)
  BY <1>1, <1>17, BackupBeginKeeps
<1> QED
  BY <1>3, <1>4, <1>5, <1>6, <1>7, <1>8, <1>9, <1>10, <1>11, <1>12, <1>13,
     <1>14, <1>15, <1>16, <1>17

\* What one iteration of the merge loops adds to the backup is an entry map.
LEMMA SavedTyped ==
  ASSUME IInv, NEW p \in Paths
  PROVE  IsEntryMap(Saved(p))
<1> DEFINE e == Lookup(merge.orig, p)
           f == [q \in {p} |-> IF merge.skip THEN e ELSE Compress(e)]
<1>1. e \in Entries /\ Compress(e) \in Entries
  BY LookupTyped, CompressTyped DEF IInv, TypeOK
<1>2. IsEntryMap(f)
  <2> HIDE DEF e
  <2> QED
    BY <1>1 DEF IsEntryMap
<1>3. IsEntryMap(merge.saved)
  BY DEF IInv, TypeOK
<1>4. Saved(p) = Overlay(f, merge.saved)
  BY DEF Saved
<1> HIDE DEF f
<1> QED
  BY <1>2, <1>3, <1>4 DEF Overlay, IsEntryMap

\* An iteration of Backup's loops keeps the invariant.
LEMMA MergeStepKeeps ==
  ASSUME IInv, MergeStep
  PROVE  IInv'
<1>1. /\ pc = "merge" /\ UNCHANGED <<disk, pc, argc, cpio, cursor, full, status, runs>>
      /\ MergeLeft \/ MergeRight \/ MergeBoth
  BY DEF MergeStep
<1>2. /\ IsArchive(cpio) /\ IsArchive(merge.orig)
      /\ merge = [orig |-> merge.orig, l |-> merge.l, r |-> merge.r,
                  saved |-> merge.saved, rmlist |-> merge.rmlist,
                  skip |-> merge.skip]
      /\ merge.l \in 1..(Len(LeftKeys) + 1)
      /\ merge.r \in 1..(Len(RightKeys) + 1)
      /\ IsEntryMap(merge.saved)
      /\ merge.rmlist \in Seq(Paths)
  BY DEF IInv, TypeOK
<1>3. LeftKeys \in Seq(Paths) /\ RightKeys \in Seq(Paths)
  BY <1>2 DEF IsArchive, LeftKeys, RightKeys
<1>4. merge = [orig |-> merge.orig, l |-> merge.l, r |-> merge.r,
               saved |-> merge.saved, rmlist |-> merge.rmlist,
               skip |-> merge.skip]
  BY <1>2
<1> DEFINE After(l, r, saved, rmlist) ==
             [orig |-> merge.orig, l |-> l, r |-> r, saved |-> saved,
              rmlist |-> rmlist, skip |-> merge.skip]
<1>5. \E l, r, saved, rmlist :
        /\ merge' = After(l, r, saved, rmlist)
        /\ l \in 1..(Len(LeftKeys) + 1)
        /\ r \in 1..(Len(RightKeys) + 1)
        /\ IsEntryMap(saved)
        /\ rmlist \in Seq(Paths)
  <2>1. CASE MergeLeft
    <3> DEFINE saved == Saved(LeftKeys[merge.l])
    <3>1. merge.l \in 1..Len(LeftKeys) /\ LeftKeys[merge.l] \in Paths
      BY <1>2, <1>3, <2>1 DEF MergeLeft
    <3>2. merge' = [merge EXCEPT !.saved = saved, !.l = merge.l + 1]
      BY <2>1 DEF MergeLeft
    <3>3. IsEntryMap(saved)
      BY <3>1, SavedTyped
    <3>4. merge' = After(merge.l + 1, merge.r, saved, merge.rmlist)
      <4> HIDE DEF saved
      <4> QED
        BY <1>4, <3>2
    <3>5. merge.l + 1 \in 1..(Len(LeftKeys) + 1)
      BY <1>3, <3>1
    <3> HIDE DEF saved, After
    <3> QED
      BY <1>2, <3>3, <3>4, <3>5
  <2>2. CASE MergeRight
    <3> DEFINE rmlist == Append(merge.rmlist, RightKeys[merge.r])
    <3>1. merge.r \in 1..Len(RightKeys) /\ RightKeys[merge.r] \in Paths
      BY <1>2, <1>3, <2>2 DEF MergeRight
    <3>2. merge' = [merge EXCEPT !.rmlist = rmlist, !.r = merge.r + 1]
      BY <2>2 DEF MergeRight
    <3>3. rmlist \in Seq(Paths)
      BY <1>2, <3>1
    <3>4. merge' = After(merge.l, merge.r + 1, merge.saved, rmlist)
      <4> HIDE DEF rmlist
      <4> QED
        BY <1>4, <3>2
    <3>5. merge.r + 1 \in 1..(Len(RightKeys) + 1)
      BY <1>3, <3>1
    <3> HIDE DEF rmlist, After
    <3> QED
      BY <1>2, <3>3, <3>4, <3>5
  <2>3. CASE MergeBoth
    <3>1. /\ merge.l \in 1..Len(LeftKeys) /\ LeftKeys[merge.l] \in Paths
          /\ merge.r \in 1..Len(RightKeys)
      BY <1>2, <1>3, <2>3 DEF MergeBoth
    <3>2. PICK saved \in {merge.saved, Saved(LeftKeys[merge.l])} :
            merge' = [merge EXCEPT !.l = merge.l + 1, !.r = merge.r + 1,
                                   !.saved = saved]
      BY <2>3 DEF MergeBoth
    <3>3. IsEntryMap(saved)
      BY <1>2, <3>1, SavedTyped
    <3>4. merge' = After(merge.l + 1, merge.r + 1, saved, merge.rmlist)
      BY <1>4, <3>2
    <3>5. /\ merge.l + 1 \in 1..(Len(LeftKeys) + 1)
          /\ merge.r + 1 \in 1..(Len(RightKeys) + 1)
      BY <1>3, <3>1
    <3> HIDE DEF After
    <3> QED
      BY <1>2, <3>3, <3>4, <3>5
  <2> QED
    BY <1>1, <2>1, <2>2, <2>3
<1>6. /\ merge.orig' = merge.orig /\ merge.skip' = merge.skip
      /\ merge' = [orig |-> merge.orig', l |-> merge.l', r |-> merge.r',
                   saved |-> merge.saved', rmlist |-> merge.rmlist',
                   skip |-> merge.skip']
      /\ merge.l' \in 1..(Len(LeftKeys) + 1)
      /\ merge.r' \in 1..(Len(RightKeys) + 1)
      /\ IsEntryMap(merge.saved')
      /\ merge.rmlist' \in Seq(Paths)
  BY <1>5
<1>7. LeftKeys' = LeftKeys /\ RightKeys' = RightKeys /\ cpio.keys' = cpio.keys
  BY <1>1, <1>6 DEF LeftKeys, RightKeys
<1>8. TypeOK'
  BY <1>1, <1>6, <1>7, Zenon DEF IInv, TypeOK
<1>9. EntriesIndexed' /\ Phases'
  BY <1>1, <1>6 DEF IInv, EntriesIndexed, Phases
<1> QED
  BY <1>8, <1>9 DEF IInv

\* The entries Backup adds to the archive in the end.
LEMMA MergedTyped ==
  ASSUME IInv
  PROVE  IsEntryMap(IF merge.rmlist = <<>> THEN merge.saved
                    ELSE Overlay([q \in {RmListName} |->
                                    RegEntry(NameList(merge.rmlist))],
                                 merge.saved))
<1> DEFINE list == [q \in {RmListName} |-> RegEntry(NameList(merge.rmlist))]
<1>1. IsEntryMap(merge.saved) /\ merge.rmlist \in Seq(Paths)
  BY DEF IInv, TypeOK
<1>2. CASE merge.rmlist # <<>>
  <2>1. RegEntry(NameList(merge.rmlist)) \in Entries
    BY <1>1, <1>2, EntriesTyped
  <2>2. IsEntryMap(list)
    BY <2>1, PathsAssumption DEF IsEntryMap
  <2> HIDE DEF list
  <2>3. IsEntryMap(Overlay(list, merge.saved))
    BY <1>1, <2>2 DEF Overlay, IsEntryMap
  <2> QED
    BY <1>2, <2>3 DEF list
<1> QED
  BY <1>1, <1>2

\* Merging the saved entries into the archive keeps the invariant.
LEMMA MergeEndKeeps ==
  ASSUME IInv, MergeEnd
  PROVE  IInv'
<1> DEFINE list == [q \in {RmListName} |-> RegEntry(NameList(merge.rmlist))]
           m    == IF merge.rmlist = <<>> THEN merge.saved
                   ELSE Overlay(list, merge.saved)
<1>1. /\ pc = "merge" /\ pc' = "run" /\ argc' = argc - 1 /\ merge' = NoMerge
      /\ cpio' = Insert(cpio, m)
      /\ UNCHANGED <<disk, cursor, full, status, runs>>
  BY DEF MergeEnd
<1>2. IsEntryMap(m)
  BY MergedTyped
<1> HIDE DEF m
<1>3. /\ IsArchive(cpio') /\ Indexed(cpio')
      /\ IsArchive(merge.orig') /\ Indexed(merge.orig')
  <2>1. IsArchive(cpio) /\ Indexed(cpio)
    BY DEF IInv, TypeOK, EntriesIndexed
  <2> QED
    BY <1>1, <1>2, <2>1, InsertInserts, EmptyTyped
<1>4. /\ merge.l' \in 1..(Len(LeftKeys') + 1)
      /\ merge.r' \in 1..(Len(RightKeys') + 1)
  BY <1>1, <1>3 DEF NoMerge, LeftKeys, RightKeys, IsArchive
<1>5. IsEntryMap(merge.saved') /\ merge.rmlist' \in Seq(Paths) /\ merge.skip' \in BOOLEAN
  BY <1>1, EmptyTyped DEF NoMerge
<1>6. merge' = [orig |-> merge.orig', l |-> merge.l', r |-> merge.r',
                saved |-> merge.saved', rmlist |-> merge.rmlist',
                skip |-> merge.skip']
  BY <1>1 DEF NoMerge
<1>7. cursor' \in 0..(Len(cpio.keys') + 1)
  BY <1>1, <1>3 DEF IsArchive, IInv, Phases
<1>8. argc' \in 0..MaxCommands
  BY <1>1, BoundsTyped DEF IInv, TypeOK, Phases
<1>9. /\ disk' \in Seq(Items) \union {NoFile} /\ full' \in BOOLEAN
      /\ status' \in Statuses /\ runs' \in 0..MaxRuns
      /\ pc' \in {"idle", "run", "merge", "dump"}
  BY <1>1, Zenon DEF IInv, TypeOK
<1>10. TypeOK'
  BY <1>3, <1>4, <1>5, <1>6, <1>7, <1>8, <1>9, Zenon DEF TypeOK
<1>11. Phases'
  BY <1>1 DEF IInv, Phases
<1> QED
  BY <1>3, <1>10, <1>11 DEF IInv, EntriesIndexed

\* A step of Dump that writes to the file and moves its cursor.
LEMMA WriteKeeps ==
  ASSUME IInv, pc' = "dump", cursor' \in 1..(Len(cpio.keys) + 1),
         disk' \in Seq(Items), full' \in BOOLEAN,
         pc \in {"run", "dump"}, UNCHANGED <<argc, cpio, merge, status, runs>>
  PROVE  IInv'
<1>1. merge = NoMerge
  BY DEF IInv, Phases
<1>2. LeftKeys' = LeftKeys /\ RightKeys' = RightKeys
  BY DEF LeftKeys, RightKeys
<1>3. cursor' \in 0..(Len(cpio.keys') + 1) /\ cursor' > 0
  <2>1. Len(cpio.keys) \in Nat
    BY DEF IInv, TypeOK, IsArchive
  <2>2. cpio' = cpio
    OBVIOUS
  <2>3. cursor' \in 0..(Len(cpio.keys) + 1) /\ cursor' > 0
    BY <2>1
  <2> QED
    BY <2>2, <2>3
<1>4. TypeOK'
  BY <1>2, <1>3, Zenon DEF IInv, TypeOK
<1>5. EntriesIndexed' /\ Phases'
  BY <1>1, <1>3 DEF IInv, EntriesIndexed, Phases
<1> QED
  BY <1>4, <1>5 DEF IInv

\* Every step of Dump, and every failure in it, keeps the invariant.
LEMMA DumpKeeps ==
  ASSUME IInv, Dump
  PROVE  IInv'
<1>1. /\ cpio.keys \in Seq(Paths) /\ Len(cpio.keys) \in Nat
      /\ cursor \in 0..(Len(cpio.keys) + 1)
      /\ disk \in Seq(Items) \union {NoFile}
      /\ pc = "dump" => cursor > 0 /\ disk \in Seq(Items)
  BY DEF IInv, TypeOK, IsArchive, Phases
<1>2. full \in BOOLEAN
  BY Zenon DEF IInv, TypeOK
<1>3. CASE BeginDump
  <2>1. CASE Abort("fatal")
    BY <2>1, AbortKeeps DEF Statuses
  <2>2. CASE ~Abort("fatal")
    <3>1. /\ pc = "run" /\ pc' = "dump" /\ disk' = <<>> /\ cursor' = 1
          /\ UNCHANGED <<argc, cpio, merge, full, status, runs>>
      BY <1>3, <2>2 DEF BeginDump
    <3>2. cursor' \in 1..(Len(cpio.keys) + 1)
      BY <1>1, <3>1
    <3>3. full' \in BOOLEAN
      BY <1>2, <3>1, Zenon
    <3>4. disk' \in Seq(Items)
      BY <3>1
    <3> QED
      BY <3>1, <3>2, <3>3, <3>4, WriteKeeps
  <2> QED
    BY <2>1, <2>2
<1>4. CASE DumpEntry
  <2> DEFINE item == EntryItem(cpio.keys[cursor], Lookup(cpio, cpio.keys[cursor]))
  <2>1. /\ pc = "dump" /\ pc' = "dump" /\ disk' = Append(disk, item)
        /\ cursor' = cursor + 1 /\ cursor <= Len(cpio.keys)
        /\ UNCHANGED <<argc, cpio, merge, full, status, runs>>
    BY <1>4 DEF DumpEntry, Dumping
  <2>2. cursor \in 1..Len(cpio.keys)
    BY <1>1, <2>1
  <2>3. item \in Items
    <3>1. cpio.keys[cursor] \in Paths
      BY <1>1, <2>2
    <3>2. Lookup(cpio, cpio.keys[cursor]) \in Entries
      BY LookupTyped DEF IInv, TypeOK
    <3> QED
      BY <3>1, <3>2, ItemsTyped
  <2> HIDE DEF item
  <2>4. disk' \in Seq(Items)
    BY <1>1, <2>1, <2>3
  <2>5. cursor' \in 1..(Len(cpio.keys) + 1)
    BY <1>1, <2>1, <2>2
  <2>6. full' \in BOOLEAN
    BY <1>2, <2>1, Zenon
  <2> QED
    BY <2>1, <2>4, <2>5, <2>6, WriteKeeps
<1>5. CASE DumpHeaderFails
  BY <1>5, ExitKeeps DEF DumpHeaderFails, Statuses
<1>6. CASE DumpBodyFails
  <2>1. /\ pc = "dump" /\ cursor <= Len(cpio.keys) /\ disk' = Append(disk, Torn)
    BY <1>6 DEF DumpBodyFails, Dumping
  <2>2. disk' \in Seq(Items)
    BY <1>1, <2>1, ItemsTyped
  <2>3. CASE Exit("fatal")
    BY <2>2, <2>3, ExitKeeps DEF Statuses
  <2>4. CASE ~Exit("fatal")
    <3>1. /\ cursor' = cursor + 1 /\ full' = TRUE /\ pc' = "dump"
          /\ UNCHANGED <<argc, cpio, merge, status, runs>>
      BY <1>6, <2>1, <2>4 DEF DumpBodyFails
    <3>2. cursor' \in 1..(Len(cpio.keys) + 1)
      BY <1>1, <2>1, <3>1
    <3>3. full' \in BOOLEAN
      BY <3>1, Zenon
    <3> QED
      BY <2>1, <2>2, <3>1, <3>2, <3>3, WriteKeeps
  <2> QED
    BY <2>3, <2>4
<1>7. CASE DumpTrailer
  <2>1. EntryItem(Trailer, Zero) \in Items
    BY EntriesTyped, ItemsTyped
  <2>2. disk' \in Seq(Items)
    BY <1>1, <1>7, <2>1 DEF DumpTrailer, DumpDone
  <2> QED
    BY <1>7, <2>2, ExitKeeps DEF DumpTrailer, Statuses
<1>8. CASE DumpTrailerFails
  <2>1. disk' \in Seq(Items)
    BY <1>1, <1>8, ItemsTyped DEF DumpTrailerFails, DumpDone
  <2> QED
    BY <1>8, <2>1, ExitKeeps DEF DumpTrailerFails, Statuses
<1> QED
  BY <1>3, <1>4, <1>5, <1>6, <1>7, <1>8 DEF Dump

\* Killing the process keeps the invariant.
LEMMA CrashKeeps ==
  ASSUME IInv, Crash
  PROVE  IInv'
<1>1. disk' \in {disk} \/ (pc = "dump" /\ disk' = Append(disk, Torn))
  BY DEF Crash
<1>2. disk \in Seq(Items) \union {NoFile} /\ (pc = "dump" => disk \in Seq(Items))
  BY DEF IInv, TypeOK, Phases
<1>3. disk' \in Seq(Items) \union {NoFile}
  BY <1>1, <1>2, ItemsTyped
<1> QED
  BY <1>3, ExitKeeps DEF Crash, Statuses

\* The invariant is inductive.
LEMMA NextIInv == IInv /\ [Next]_vars => IInv'
<1> SUFFICES ASSUME IInv, [Next]_vars PROVE IInv'
  OBVIOUS
<1>1. CASE Start
  BY <1>1, StartKeeps
<1>2. CASE Command
  BY <1>2, CommandKeeps
<1>3. CASE MergeStep
  BY <1>3, MergeStepKeeps
<1>4. CASE MergeEnd
  BY <1>4, MergeEndKeeps
<1>5. CASE Dump
  BY <1>5, DumpKeeps
<1>6. CASE Crash
  BY <1>6, CrashKeeps
<1>7. CASE UNCHANGED vars
  BY <1>7 DEF vars, IInv, TypeOK, EntriesIndexed, Phases, LeftKeys, RightKeys
<1> QED
  BY <1>1, <1>2, <1>3, <1>4, <1>5, <1>6, <1>7 DEF Next, Process

\* In every session, with every fault and kill, the invariant holds: locals are
\* at rest outside the phase that uses them, and the write cursor, the merge
\* indices and the file are where that phase of the code leaves them.
THEOREM AlwaysIInv == Spec => []IInv
BY InitIInv, NextIInv, PTL DEF Spec

\* Type correctness: whatever images and commands a user gives, the file, the
\* Cpio struct and the locals of Backup and Dump keep their types, the merge
\* indices stay within their lists and the write cursor within Keys.
THEOREM TypeCorrect == Spec => []TypeOK
<1>1. IInv => TypeOK
  BY DEF IInv
<1> QED
  BY <1>1, AlwaysIInv, PTL

\* No command of CpioCommands lets the map Entries and the list Keys drift
\* apart in the direction that loses data: every entry stays on the list that
\* Dump, Extract, Patch and Backup go through.
THEOREM AlwaysIndexed == Spec => []EntriesIndexed
<1>1. IInv => EntriesIndexed
  BY DEF IInv
<1> QED
  BY <1>1, AlwaysIInv, PTL

-----------------------------------------------------------------------------
(* The order of the keys.                                                  *)

\* What Pick takes comes in the order in which it stood.
LEMMA PickKeepsOrder ==
  ASSUME NEW s \in Seq(Paths), NEW I \in SUBSET DOMAIN s, InOrder(s)
  PROVE  InOrder(Pick(s, I))
<1> DEFINE pos == [i \in I |-> i]
           e   == Enumerate(I, pos)
           n   == Cardinality(I)
<1>1. IsFiniteSet(I) /\ I \subseteq Int
  BY PositionsFinite
<1>2. /\ n \in Nat
      /\ e \in [1..n -> I]
      /\ \A x \in I : \E k \in 1..n : e[k] = x
      /\ \A a, b \in 1..n : a < b => pos[e[a]] < pos[e[b]]
  <2>1. \A i \in I : pos[i] \in Int
    BY <1>1
  <2>2. \A i, j \in I : pos[i] = pos[j] => i = j
    OBVIOUS
  <2> HIDE DEF pos
  <2> QED
    BY <1>1, <2>1, <2>2, EnumerateLists
<1>3. \A i \in I : pos[i] = i
  OBVIOUS
<1>4. Pick(s, I) = [k \in 1..n |-> s[e[k]]]
  BY DEF Pick
<1> HIDE DEF pos, e, n
<1>5. SUFFICES ASSUME NEW a \in 1..n, NEW b \in 1..n, a < b
               PROVE  Rank[s[e[a]]] <= Rank[s[e[b]]]
  BY <1>4 DEF InOrder
<1>6. e[a] \in DOMAIN s /\ e[b] \in DOMAIN s
  BY <1>2
<1>7. e[a] < e[b]
  BY <1>2, <1>3, <1>5
<1> QED
  BY <1>6, <1>7 DEF InOrder

\* removeByValue keeps a sorted list sorted.
LEMMA RemoveKeepsOrder ==
  ASSUME NEW c, IsArchive(c), InOrder(c.keys), NEW S
  PROVE  InOrder(removeEntries(c, S).keys)
<1> DEFINE gone   == S \intersect DOMAIN c.entries
           firsts == {i \in DOMAIN c.keys :
                        /\ c.keys[i] \in gone
                        /\ \A j \in 1..(i - 1) : c.keys[j] # c.keys[i]}
           I      == DOMAIN c.keys \ firsts
<1>1. removeEntries(c, S).keys = Pick(c.keys, I)
  BY DEF removeEntries
<1>2. c.keys \in Seq(Paths) /\ I \in SUBSET DOMAIN c.keys
  BY DEF IsArchive
<1> HIDE DEF I
<1> QED
  BY <1>1, <1>2, PickKeepsOrder

\* Restore keeps a sorted list sorted.
LEMMA RestoreKeepsOrder ==
  ASSUME NEW c, IsArchive(c), InOrder(c.keys)
  PROVE  InOrder(Restore(c).keys)
<1> DEFINE kept    == Rm(c, BackupDir, FALSE)
           cleared == [kept EXCEPT !.entries = EmptyMap]
           rest    == removeEntries(kept, RmListed(c))
<1>1. IsArchive(kept) /\ InOrder(kept.keys)
  BY RmKeeps, RemoveKeepsOrder DEF Rm
<1>2. InOrder(cleared.keys)
  <2>1. cleared.keys = kept.keys
    <3> HIDE DEF kept
    <3> QED
      BY <1>1 DEF IsArchive
  <2> QED
    BY <1>1, <2>1
<1>3. IsArchive(rest)
  <2> HIDE DEF kept
  <2> QED
    BY <1>1, RemoveRemoves
<1>4. InOrder(Insert(rest, Backups(c)).keys)
  <2> HIDE DEF rest
  <2> QED
    BY <1>3, BackupsTyped, InsertInserts
<1>5. Restore(c) \in {cleared, Insert(rest, Backups(c))}
  BY DEF Restore
<1> HIDE DEF cleared, rest
<1> QED
  BY <1>2, <1>4, <1>5

\* Every command of CpioCommands keeps sorted keys sorted.
LEMMA CommandKeepsOrder ==
  ASSUME IInv, Command, InOrder(cpio.keys)
  PROVE  InOrder(cpio.keys')
<1>1. IsArchive(cpio)
  BY DEF IInv, TypeOK
<1>2. \A how : Abort(how) => InOrder(cpio.keys')
  BY DEF Abort, Exit, NewCpio, InOrder
<1>3. \A c : Continue(c) /\ InOrder(c.keys) => InOrder(cpio.keys')
  BY DEF Continue
<1>4. PICK cmd \in Commands :
        \/ CmdRm(cmd) \/ CmdMkdir(cmd) \/ CmdLn(cmd) \/ CmdMv(cmd)
        \/ CmdAdd(cmd) \/ CmdExtract(cmd) \/ CmdPatch(cmd)
        \/ CmdRestore(cmd) \/ CmdTest(cmd) \/ CmdExists(cmd) \/ CmdLs(cmd)
        \/ CmdIgnored(cmd) \/ CmdMalformed(cmd) \/ CmdBackup(cmd)
  BY DEF Command
<1>5. CASE CmdRm(cmd)
  BY <1>1, <1>3, <1>5, RemoveKeepsOrder DEF CmdRm, Rm
<1>6. CASE CmdMkdir(cmd)
  <2>1. InOrder(addEntry(cpio, cmd.path, DirEntry).keys)
    BY <1>1, <1>6, CommandTyped, EntriesTyped, AddKeeps DEF CmdMkdir
  <2> QED
    BY <1>3, <1>6, <2>1 DEF CmdMkdir
<1>7. CASE CmdLn(cmd)
  <2> DEFINE e == SymLink(cmd.target)
  <2>1. e \in Entries /\ cmd.path \in Paths
    BY <1>7, CommandTyped, EntriesTyped DEF CmdLn
  <2>2. Continue(addEntry(cpio, cmd.path, e))
    BY <1>7 DEF CmdLn
  <2> HIDE DEF e
  <2> QED
    BY <1>1, <1>3, <2>1, <2>2, AddKeeps
<1>8. CASE CmdMv(cmd)
  <2>1. cmd.to \in Paths
    BY <1>8, CommandTyped DEF CmdMv
  <2> QED
    BY <1>1, <1>3, <1>8, <2>1, MvKeeps DEF CmdMv
<1>9. CASE CmdAdd(cmd)
  <2>1. CASE Abort("fatal")
    BY <1>2, <2>1
  <2>2. CASE ~Abort("fatal")
    <3> DEFINE e == Added(cmd.infile.kind, cmd.infile.data)
    <3>1. cmd.path \in Paths /\ cmd.infile.data \in Payloads
      BY <1>9, CommandTyped DEF CmdAdd, InFiles
    <3>2. e \in Entries
      BY <3>1, EntriesTyped DEF Added, Entries, Kinds
    <3>3. Continue(addEntry(cpio, cmd.path, e))
      BY <1>9, <2>2 DEF CmdAdd
    <3> HIDE DEF e
    <3> QED
      BY <1>1, <1>3, <3>1, <3>2, <3>3, AddKeeps
  <2> QED
    BY <2>1, <2>2
<1>10. CASE CmdExtract(cmd)
  BY <1>2, <1>3, <1>10 DEF CmdExtract
<1>11. CASE CmdPatch(cmd)
  <2>1. InOrder(Patch(cpio, cmd.keepVerity).keys)
    BY <1>1, RemoveKeepsOrder DEF Patch, Rm
  <2> QED
    BY <1>2, <1>3, <1>11, <2>1 DEF CmdPatch
<1>12. CASE CmdRestore(cmd)
  BY <1>1, <1>2, <1>3, <1>12, RestoreKeepsOrder DEF CmdRestore
<1>13. CASE CmdTest(cmd) \/ CmdExists(cmd) \/ CmdLs(cmd) \/ CmdMalformed(cmd)
  BY <1>2, <1>13 DEF CmdTest, CmdExists, CmdLs, CmdMalformed
<1>14. CASE CmdIgnored(cmd)
  BY <1>3, <1>14 DEF CmdIgnored
<1>15. CASE CmdBackup(cmd)
  <2>1. InOrder(Rm(cpio, BackupDir, TRUE).keys)
    BY <1>1, RemoveKeepsOrder DEF Rm
  <2> QED
    BY <1>2, <1>15, <2>1 DEF CmdBackup
<1> QED
  BY <1>4, <1>5, <1>6, <1>7, <1>8, <1>9, <1>10, <1>11, <1>12, <1>13, <1>14, <1>15

\* Once the keys are in byte order, every command, merge and dump of the
\* session leaves them in byte order, which Backup and `ls` take for granted.
THEOREM SortedSteps == Spec => KeysStaySorted
<1> DEFINE A == InOrder(cpio.keys) => InOrder(cpio.keys') \/ pc = "idle"
<1>1. IInv /\ [Next]_vars => A \/ UNCHANGED vars
  <2> SUFFICES ASSUME IInv, Next, InOrder(cpio.keys), pc # "idle"
               PROVE  InOrder(cpio.keys')
    OBVIOUS
  <2>1. CASE Command
    BY <2>1, CommandKeepsOrder
  <2>2. CASE MergeStep
    BY <2>2 DEF MergeStep
  <2>3. CASE MergeEnd
    <3> DEFINE list == [q \in {RmListName} |-> RegEntry(NameList(merge.rmlist))]
               m    == IF merge.rmlist = <<>> THEN merge.saved
                       ELSE Overlay(list, merge.saved)
    <3>1. cpio' = Insert(cpio, m)
      BY <2>3 DEF MergeEnd
    <3>2. IsArchive(cpio) /\ IsEntryMap(m)
      BY MergedTyped DEF IInv, TypeOK
    <3> HIDE DEF m
    <3> QED
      BY <3>1, <3>2, InsertInserts
  <2>4. CASE Exit("fatal") \/ Exit("dumped") \/ Exit("killed")
    BY <2>4 DEF Exit, NewCpio, InOrder
  <2>5. CASE UNCHANGED cpio
    BY <2>5
  <2>6. CASE Dump
    BY <2>4, <2>5, <2>6 DEF Dump, BeginDump, DumpEntry, DumpHeaderFails, Abort,
       DumpBodyFails, DumpTrailer, DumpTrailerFails
  <2>7. CASE Crash
    BY <2>4, <2>7 DEF Crash
  <2>8. CASE Start
    BY <2>8 DEF Start
  <2> QED
    BY <2>1, <2>2, <2>3, <2>6, <2>7, <2>8 DEF Next, Process
<1> QED
  BY <1>1, AlwaysIInv, PTL DEF Spec, KeysStaySorted

-----------------------------------------------------------------------------
(* Names that are listed once, and keys that have no entry.                *)

\* Every key has its entry.
NoGhosts(c) == Range(c.keys) \subseteq DOMAIN c.entries

\* Pick takes no position twice.
LEMMA PickOnce ==
  ASSUME NEW s \in Seq(Paths), NEW I \in SUBSET DOMAIN s, NEW N, Once(s, N)
  PROVE  Once(Pick(s, I), N)
<1> DEFINE pos == [i \in I |-> i]
           e   == Enumerate(I, pos)
           n   == Cardinality(I)
<1>1. IsFiniteSet(I) /\ I \subseteq Int
  BY PositionsFinite
<1>2. /\ n \in Nat
      /\ e \in [1..n -> I]
      /\ \A a, b \in 1..n : a < b => pos[e[a]] < pos[e[b]]
  <2>1. \A i \in I : pos[i] \in Int
    BY <1>1
  <2>2. \A i, j \in I : pos[i] = pos[j] => i = j
    OBVIOUS
  <2> HIDE DEF pos
  <2> QED
    BY <1>1, <2>1, <2>2, EnumerateLists
<1>3. \A i \in I : pos[i] = i
  OBVIOUS
<1>4. Pick(s, I) = [k \in 1..n |-> s[e[k]]]
  BY DEF Pick
<1> HIDE DEF pos, e, n
<1>5. SUFFICES ASSUME NEW a \in 1..n, NEW b \in 1..n, s[e[a]] = s[e[b]], s[e[a]] \in N
               PROVE  a = b
  BY <1>4 DEF Once
<1>6. e[a] \in I /\ e[b] \in I /\ e[a] \in Int /\ e[b] \in Int
  BY <1>1, <1>2
<1>7. e[a] = e[b]
  BY <1>5, <1>6 DEF Once
<1>8. ~(a < b) /\ ~(b < a)
  BY <1>2, <1>3, <1>6, <1>7
<1> QED
  BY <1>2, <1>8

\* sort.Strings moves every key to one place.
LEMMA SortOnce ==
  ASSUME NEW s \in Seq(Paths), NEW N, Once(s, N)
  PROVE  Once(SortKeys(s), N)
<1>1. PICK n \in Nat : \E e \in [1..n -> DOMAIN s] : Arranges(s, n, e)
  BY SortPermutes
<1>2. PICK e \in [1..n -> DOMAIN s] :
        /\ SortKeys(s) = [k \in 1..n |-> s[e[k]]]
        /\ \A a, b \in 1..n : e[a] = e[b] => a = b
  BY <1>1 DEF Arranges
<1>3. SUFFICES ASSUME NEW a \in 1..n, NEW b \in 1..n, s[e[a]] = s[e[b]], s[e[a]] \in N
               PROVE  a = b
  BY <1>2 DEF Once
<1>4. e[a] \in DOMAIN s /\ e[b] \in DOMAIN s
  BY <1>2
<1> QED
  BY <1>2, <1>3, <1>4 DEF Once

\* The names of a map are listed once.
LEMMA KeysOfOnce ==
  ASSUME NEW m, DOMAIN m \subseteq Paths
  PROVE  \A i, j \in DOMAIN KeysOf(m) : KeysOf(m)[i] = KeysOf(m)[j] => i = j
<1> DEFINE S == DOMAIN m
           e == Enumerate(S, Rank)
           n == Cardinality(S)
<1>1. /\ n \in Nat
      /\ e \in [1..n -> S]
      /\ \A a, b \in 1..n : a < b => Rank[e[a]] < Rank[e[b]]
  <2>1. IsFiniteSet(S)
    BY PathsFinite
  <2>2. \A i \in S : Rank[i] \in Int
    BY RankNumbers
  <2>3. \A i, j \in S : Rank[i] = Rank[j] => i = j
    BY RankNumbers
  <2> QED
    BY <2>1, <2>2, <2>3, EnumerateLists
<1>2. KeysOf(m) = e
  BY DEF KeysOf
<1> HIDE DEF e, n
<1>3. DOMAIN KeysOf(m) = 1..n
  BY <1>1, <1>2
<1> SUFFICES ASSUME NEW i \in 1..n, NEW j \in 1..n, e[i] = e[j]
             PROVE  i = j
  BY <1>2, <1>3
<1>4. Rank[e[i]] \in Int /\ Rank[e[j]] \in Int /\ Rank[e[i]] = Rank[e[j]]
  BY <1>1, RankNumbers
<1>5. ~(i < j) /\ ~(j < i)
  BY <1>1, <1>4
<1> QED
  BY <1>1, <1>5

\* A batch of entries under other names leaves the names in N listed once.
LEMMA InsertOnce ==
  ASSUME NEW c, IsArchive(c), NEW m, DOMAIN m \subseteq Paths, NEW N,
         Once(c.keys, N), DOMAIN m \intersect N = {}
  PROVE  Once(Insert(c, m).keys, N)
<1> DEFINE k == KeysOf(m)
           s == c.keys \o k
<1>1. c.keys \in Seq(Paths) /\ k \in Seq(Paths) /\ Range(k) = DOMAIN m
  BY KeysOfLists DEF IsArchive
<1> HIDE DEF k
<1>2. \A i \in DOMAIN k : k[i] \notin N
  BY <1>1 DEF Range
<1>3. s \in Seq(Paths)
  BY <1>1
<1>4. /\ DOMAIN s = 1..(Len(c.keys) + Len(k)) /\ Len(c.keys) \in Nat /\ Len(k) \in Nat
      /\ DOMAIN c.keys = 1..Len(c.keys) /\ DOMAIN k = 1..Len(k)
  BY <1>1
<1>5. \A i \in DOMAIN s : s[i] \in N => i \in DOMAIN c.keys /\ s[i] = c.keys[i]
  <2> SUFFICES ASSUME NEW i \in DOMAIN s, s[i] \in N
               PROVE  i \in DOMAIN c.keys /\ s[i] = c.keys[i]
    OBVIOUS
  <2>1. CASE i <= Len(c.keys)
    BY <1>1, <1>4, <2>1
  <2>2. CASE i > Len(c.keys)
    <3>1. i - Len(c.keys) \in DOMAIN k
      BY <1>4, <2>2
    <3>2. s[i] = k[i - Len(c.keys)]
      BY <1>1, <1>4, <2>2
    <3> QED
      BY <1>2, <3>1, <3>2
  <2> QED
    BY <1>4, <2>1, <2>2
<1> HIDE DEF s
<1>6. Once(s, N)
  BY <1>5 DEF Once
<1>7. Insert(c, m).keys = SortKeys(s)
  BY DEF Insert, s, k
<1> QED
  BY <1>3, <1>6, <1>7, SortOnce

\* Removing names leaves the names in N listed once.
LEMMA RemoveOnce ==
  ASSUME NEW c, IsArchive(c), NEW S, NEW N, Once(c.keys, N)
  PROVE  Once(removeEntries(c, S).keys, N)
<1> DEFINE gone   == S \intersect DOMAIN c.entries
           firsts == {i \in DOMAIN c.keys :
                        /\ c.keys[i] \in gone
                        /\ \A j \in 1..(i - 1) : c.keys[j] # c.keys[i]}
           I      == DOMAIN c.keys \ firsts
<1>1. removeEntries(c, S).keys = Pick(c.keys, I)
  BY DEF removeEntries
<1>2. c.keys \in Seq(Paths) /\ I \in SUBSET DOMAIN c.keys
  BY DEF IsArchive
<1> HIDE DEF I
<1> QED
  BY <1>1, <1>2, PickOnce

\* Adding entries brings no key without one.
LEMMA InsertNoGhosts ==
  ASSUME NEW c, IsArchive(c), NEW m, IsEntryMap(m), NoGhosts(c)
  PROVE  NoGhosts(Insert(c, m))
<1>1. Range(Insert(c, m).keys) = Range(c.keys) \union DOMAIN m
  BY InsertInserts
<1>2. DOMAIN Insert(c, m).entries = DOMAIN m \union DOMAIN c.entries
  BY DEF Insert, Overlay
<1> QED
  BY <1>1, <1>2 DEF NoGhosts

\* removeByValue takes one key per entry, which is enough for names listed once.
LEMMA RemoveNoGhosts ==
  ASSUME NEW c, IsArchive(c), NEW S, NoGhosts(c), Once(c.keys, S)
  PROVE  NoGhosts(removeEntries(c, S))
<1> DEFINE gone   == S \intersect DOMAIN c.entries
           firsts == {i \in DOMAIN c.keys :
                        /\ c.keys[i] \in gone
                        /\ \A j \in 1..(i - 1) : c.keys[j] # c.keys[i]}
           I      == DOMAIN c.keys \ firsts
           r      == removeEntries(c, S)
<1>1. DOMAIN r.entries = DOMAIN c.entries \ gone /\ r.keys = Pick(c.keys, I)
  BY DEF removeEntries, Without, Restrict
<1>2. /\ c.keys \in Seq(Paths) /\ DOMAIN c.keys = 1..Len(c.keys) /\ Len(c.keys) \in Nat
      /\ \A i \in DOMAIN c.keys : c.keys[i] \in Paths
  BY DEF IsArchive
<1>3. \A i \in I : c.keys[i] \in DOMAIN c.entries \ gone
  <2> SUFFICES ASSUME NEW i \in I PROVE c.keys[i] \in DOMAIN c.entries \ gone
    OBVIOUS
  <2>1. c.keys[i] \in DOMAIN c.entries
    BY DEF NoGhosts, Range
  <2>2. ASSUME c.keys[i] \in gone PROVE FALSE
    <3>1. PICK j \in 1..(i - 1) : c.keys[j] = c.keys[i]
      BY <2>2
    <3>2. j \in DOMAIN c.keys /\ j # i
      BY <1>2
    <3> QED
      BY <2>2, <3>1, <3>2 DEF Once
  <2> QED
    BY <2>1, <2>2
<1>4. Range(Pick(c.keys, I)) = {c.keys[i] : i \in I}
  <2>1. IsFiniteSet(I) /\ I \subseteq Int
    BY <1>2, PositionsFinite
  <2> HIDE DEF firsts
  <2> QED
    BY <1>2, <2>1, PickPicks
<1> HIDE DEF I, gone
<1> QED
  BY <1>1, <1>3, <1>4 DEF NoGhosts, r

\* Mv takes every key of the old name.
LEMMA MvNoGhosts ==
  ASSUME NEW c, IsArchive(c), NEW from, NEW to \in Paths, NoGhosts(c)
  PROVE  NoGhosts(Mv(c, from, to))
<1> DEFINE I == {i \in DOMAIN c.keys : c.keys[i] # from}
           r == [entries |-> Without(c.entries, {from}), keys |-> Pick(c.keys, I)]
           m == [q \in {to} |-> Lookup(c, from)]
<1>1. c.keys \in Seq(Paths) /\ \A i \in DOMAIN c.keys : c.keys[i] \in Paths
  BY DEF IsArchive
<1>2. Pick(c.keys, I) \in Seq(Paths) /\ Range(Pick(c.keys, I)) = {c.keys[i] : i \in I}
  <2>1. IsFiniteSet(I) /\ I \subseteq Int
    BY <1>1, PositionsFinite
  <2> QED
    BY <1>1, <2>1, PickPicks
<1>3. DOMAIN r.entries = DOMAIN c.entries \ {from} /\ IsEntryMap(r.entries)
  BY DEF Without, Restrict, IsArchive, IsEntryMap
<1>4. \A i \in I : c.keys[i] \in DOMAIN c.entries \ {from}
  BY DEF NoGhosts, Range
<1>5. r.keys = Pick(c.keys, I) /\ r = [entries |-> r.entries, keys |-> r.keys]
  OBVIOUS
<1>6. Mv(c, from, to) = Insert(r, m)
  BY DEF Mv, addEntry
<1>7. IsEntryMap(m)
  BY LookupTyped DEF IsEntryMap
<1> HIDE DEF r, m, I
<1>8. IsArchive(r) /\ NoGhosts(r)
  BY <1>2, <1>3, <1>4, <1>5 DEF IsArchive, NoGhosts
<1> QED
  BY <1>6, <1>7, <1>8, InsertNoGhosts

\* Where every name is listed once, so is every name of a set.
LEMMA ExactOnce ==
  ASSUME NEW c, Exact(c)
  PROVE  NoGhosts(c) /\ \A N : Once(c.keys, N)
BY DEF Exact, NoGhosts, Once, IsInjective

\* Restore leaves a key without an entry only where it finds no backup at all.
LEMMA RestoreNoGhosts ==
  ASSUME NEW c, IsArchive(c), Exact(c)
  PROVE  \/ NoGhosts(Restore(c))
         \/ RmListEmpty(c) /\ DOMAIN Backups(c) = {} /\ Restore(c).entries = EmptyMap
<1> DEFINE kept    == Rm(c, BackupDir, FALSE)
           cleared == [kept EXCEPT !.entries = EmptyMap]
           rest    == removeEntries(kept, RmListed(c))
<1>1. kept = removeEntries(c, {BackupDir})
  BY DEF Rm
<1> HIDE DEF kept
<1>2. /\ IsArchive(kept) /\ NoGhosts(kept)
      /\ \A N : Once(kept.keys, N)
  BY <1>1, ExactOnce, RemoveRemoves, RemoveNoGhosts, RemoveOnce
<1>3. IsArchive(rest) /\ NoGhosts(rest)
  BY <1>2, RemoveRemoves, RemoveNoGhosts
<1>4. NoGhosts(Insert(rest, Backups(c)))
  <2> HIDE DEF rest
  <2> QED
    BY <1>3, BackupsTyped, InsertNoGhosts
<1>5. cleared.entries = EmptyMap
  BY <1>2 DEF IsArchive
<1>6. Restore(c) = IF RmListEmpty(c) /\ DOMAIN Backups(c) = {}
                   THEN cleared ELSE Insert(rest, Backups(c))
  BY DEF Restore, kept
<1> HIDE DEF cleared, rest
<1> QED
  BY <1>4, <1>5, <1>6

\* No command of CpioCommands makes a key without an entry of an archive that
\* lists every name once, except a restore without a backup.
LEMMA CommandNoGhosts ==
  ASSUME IInv, Command, Exact(cpio)
  PROVE  \/ NoGhosts(cpio')
         \/ RmListEmpty(cpio) /\ DOMAIN Backups(cpio) = {} /\ cpio.entries' = EmptyMap
<1>1. IsArchive(cpio) /\ NoGhosts(cpio) /\ \A N : Once(cpio.keys, N)
  BY ExactOnce DEF IInv, TypeOK
<1>2. \A how : Abort(how) => NoGhosts(cpio')
  <2>1. NoGhosts(NewCpio)
    BY DEF NoGhosts, NewCpio, Range
  <2> QED
    BY <2>1 DEF Abort, Exit
<1>3. \A c : Continue(c) => cpio' = c
  BY DEF Continue
<1>4. PICK cmd \in Commands :
        \/ CmdRm(cmd) \/ CmdMkdir(cmd) \/ CmdLn(cmd) \/ CmdMv(cmd)
        \/ CmdAdd(cmd) \/ CmdExtract(cmd) \/ CmdPatch(cmd)
        \/ CmdRestore(cmd) \/ CmdTest(cmd) \/ CmdExists(cmd) \/ CmdLs(cmd)
        \/ CmdIgnored(cmd) \/ CmdMalformed(cmd) \/ CmdBackup(cmd)
  BY DEF Command
<1>5. \A p, r : NoGhosts(Rm(cpio, p, r))
  BY <1>1, RemoveNoGhosts DEF Rm
<1>6. \A p \in Paths, e \in Entries : NoGhosts(addEntry(cpio, p, e))
  <2> SUFFICES ASSUME NEW p \in Paths, NEW e \in Entries
               PROVE  NoGhosts(addEntry(cpio, p, e))
    OBVIOUS
  <2>1. IsEntryMap([q \in {p} |-> e])
    BY DEF IsEntryMap
  <2> QED
    BY <1>1, <2>1, InsertNoGhosts DEF addEntry
<1>7. CASE CmdRm(cmd)
  BY <1>3, <1>5, <1>7 DEF CmdRm
<1>8. CASE CmdMkdir(cmd)
  BY <1>3, <1>6, <1>8, CommandTyped, EntriesTyped DEF CmdMkdir
<1>9. CASE CmdLn(cmd)
  BY <1>3, <1>6, <1>9, CommandTyped, EntriesTyped DEF CmdLn
<1>10. CASE CmdMv(cmd)
  <2>1. cmd.to \in Paths
    BY <1>10, CommandTyped DEF CmdMv
  <2> QED
    BY <1>1, <1>3, <1>10, <2>1, MvNoGhosts DEF CmdMv
<1>11. CASE CmdAdd(cmd)
  <2>1. CASE Abort("fatal")
    BY <1>2, <2>1
  <2>2. CASE ~Abort("fatal")
    <3> DEFINE e == Added(cmd.infile.kind, cmd.infile.data)
    <3>1. cmd.path \in Paths /\ cmd.infile.data \in Payloads
      BY <1>11, CommandTyped DEF CmdAdd, InFiles
    <3>2. e \in Entries
      BY <3>1, EntriesTyped DEF Added, Entries, Kinds
    <3>3. Continue(addEntry(cpio, cmd.path, e))
      BY <1>11, <2>2 DEF CmdAdd
    <3> HIDE DEF e
    <3> QED
      BY <1>3, <1>6, <3>1, <3>2, <3>3
  <2> QED
    BY <2>1, <2>2
<1>12. CASE CmdExtract(cmd)
  BY <1>1, <1>2, <1>3, <1>12 DEF CmdExtract
<1>13. CASE CmdPatch(cmd)
  <2>1. NoGhosts(Patch(cpio, cmd.keepVerity))
    BY <1>1, <1>5 DEF Patch
  <2> QED
    BY <1>2, <1>3, <1>13, <2>1 DEF CmdPatch
<1>14. CASE CmdRestore(cmd)
  <2>1. CASE Abort("panic")
    BY <1>2, <2>1
  <2>2. CASE ~Abort("panic")
    <3>1. cpio' = Restore(cpio)
      BY <1>3, <1>14, <2>2 DEF CmdRestore
    <3>2. cpio.entries' = Restore(cpio).entries
      BY <3>1
    <3> QED
      BY <1>1, <3>1, <3>2, RestoreNoGhosts
  <2> QED
    BY <2>1, <2>2
<1>15. CASE CmdTest(cmd) \/ CmdExists(cmd) \/ CmdLs(cmd) \/ CmdMalformed(cmd)
  BY <1>2, <1>15 DEF CmdTest, CmdExists, CmdLs, CmdMalformed
<1>16. CASE CmdIgnored(cmd)
  BY <1>1, <1>3, <1>16 DEF CmdIgnored
<1>17. CASE CmdBackup(cmd)
  <2>1. CASE Abort("panic")
    BY <1>2, <2>1
  <2>2. CASE ~Abort("panic")
    <3>1. cpio' = Rm(cpio, BackupDir, TRUE)
      BY <1>17, <2>2 DEF CmdBackup
    <3> QED
      BY <1>5, <3>1
  <2> QED
    BY <2>1, <2>2
<1> QED
  BY <1>4, <1>7, <1>8, <1>9, <1>10, <1>11, <1>12, <1>13, <1>14, <1>15, <1>16, <1>17

\* A key without an entry, which Dump writes as an entry of mode 0, arises only
\* where a name is listed twice (removeByValue takes one of two keys out), and
\* from a restore that finds no backup.
THEOREM GhostsTraced == Spec => GhostsNeedDuplicates
<1> DEFINE A == pc = "run" /\ Exact(cpio)
                  => \/ Range(cpio.keys') \subseteq DOMAIN cpio.entries'
                     \/ /\ RmListEmpty(cpio) /\ DOMAIN Backups(cpio) = {}
                        /\ cpio.entries' = EmptyMap
<1>1. IInv /\ [Next]_vars => A \/ UNCHANGED vars
  <2> SUFFICES ASSUME IInv, Next, pc = "run", Exact(cpio)
               PROVE  \/ NoGhosts(cpio')
                      \/ /\ RmListEmpty(cpio) /\ DOMAIN Backups(cpio) = {}
                         /\ cpio.entries' = EmptyMap
    BY DEF NoGhosts
  <2>1. \A how : Exit(how) => NoGhosts(cpio')
    <3>1. NoGhosts(NewCpio)
      BY DEF NoGhosts, NewCpio, Range
    <3> QED
      BY <3>1 DEF Exit
  <2>2. CASE Command
    BY <2>2, CommandNoGhosts
  <2>3. CASE Dump
    <3>1. BeginDump
      BY <2>3 DEF Dump, DumpEntry, DumpHeaderFails, DumpBodyFails, DumpTrailer,
         DumpTrailerFails, Dumping, DumpDone
    <3>2. cpio' = cpio \/ NoGhosts(cpio')
      BY <2>1, <3>1 DEF BeginDump, Abort
    <3> QED
      BY <3>2, ExactOnce
  <2>4. CASE Crash
    BY <2>1, <2>4 DEF Crash
  <2> QED
    BY <2>2, <2>3, <2>4 DEF Next, Process, Start, MergeStep, MergeEnd
<1> QED
  BY <1>1, AlwaysIInv, PTL DEF Spec, GhostsNeedDuplicates

-----------------------------------------------------------------------------
(* Backup.                                                                 *)

\* The keys before position n.
Passed(keys, n) == {keys[i] : i \in 1..(n - 1)}

NoOldBackup == BackupDir \notin DOMAIN merge.orig.entries

SavedOfOrig ==
  \A p \in DOMAIN merge.saved \ {BackupDir} :
    /\ p \in Passed(LeftKeys, merge.l)
    /\ Uncoated(merge.saved[p].data) = Uncoated(Lookup(merge.orig, p).data)

RecordedPassed == Range(merge.rmlist) \subseteq Passed(RightKeys, merge.r)

RightAccounted ==
  \A p \in Passed(RightKeys, merge.r) :
    p \in Range(merge.rmlist) \/ p \in Passed(LeftKeys, merge.l)

Kept(p) ==
  /\ p \in Passed(RightKeys, merge.r)
  /\ p \notin Range(merge.rmlist)
  /\ Lookup(cpio, p).data = Lookup(merge.orig, p).data

LeftAccounted ==
  IsInjective(RightKeys) =>
    \A p \in Passed(LeftKeys, merge.l) : p \in DOMAIN merge.saved \/ Kept(p)

MergeInv == NoOldBackup /\ SavedOfOrig /\ RecordedPassed
              /\ RightAccounted /\ LeftAccounted

BInv == pc = "merge" => MergeInv

-----------------------------------------------------------------------------
\* Advancing an index passes one more key, a new one if none is repeated.
LEMMA PassedNext ==
  ASSUME NEW T, NEW keys \in Seq(T), NEW n \in 1..Len(keys)
  PROVE  /\ Passed(keys, n + 1) = Passed(keys, n) \union {keys[n]}
         /\ IsInjective(keys) => keys[n] \notin Passed(keys, n)
<1>1. 1..((n + 1) - 1) = (1..(n - 1)) \union {n}
  OBVIOUS
<1>2. Passed(keys, n + 1) = Passed(keys, n) \union {keys[n]}
  BY <1>1 DEF Passed
<1>3. \A i \in 1..(n - 1) : i \in DOMAIN keys /\ i # n
  OBVIOUS
<1>4. IsInjective(keys) => keys[n] \notin Passed(keys, n)
  BY <1>3 DEF Passed, IsInjective
<1> QED
  BY <1>2, <1>4

\* At the first position no key is passed.
LEMMA PassedFirst == \A keys : Passed(keys, 1) = {}
BY DEF Passed

\* Behind the last position every key is passed.
LEMMA PassedAll ==
  ASSUME NEW T, NEW keys \in Seq(T)
  PROVE  Passed(keys, Len(keys) + 1) = Range(keys)
BY DEF Passed, Range

\* A name appended is one more in the list.
LEMMA RangeAppended ==
  ASSUME NEW T, NEW s \in Seq(T), NEW x \in T
  PROVE  Range(Append(s, x)) = Range(s) \union {x}
<1>1. /\ DOMAIN Append(s, x) = 1..(Len(s) + 1)
      /\ Append(s, x)[Len(s) + 1] = x
      /\ \A i \in DOMAIN s : Append(s, x)[i] = s[i]
      /\ DOMAIN s = 1..Len(s) /\ Len(s) \in Nat
  OBVIOUS
<1> QED
  BY <1>1 DEF Range

\* A compressed entry holds the data it had.
LEMMA CompressUncoats ==
  ASSUME NEW e \in Entries
  PROVE  Uncoated(Compress(e).data) = Uncoated(e.data)
<1>1. e = [kind |-> e.kind, data |-> e.data]
      /\ e.data = [base |-> e.data.base, coats |-> e.data.coats]
  BY DEF Entries, Payloads
<1>2. e.kind = "reg" => Compress(e) = [e EXCEPT !.data.coats = Append(e.data.coats, "cut")]
  BY DEF Compress
<1>3. \A s : Uncoated([e EXCEPT !.data.coats = s].data) = Uncoated(e.data)
  BY <1>1 DEF Uncoated
<1> QED
  BY <1>2, <1>3 DEF Compress

\* Saving an entry of ORIG adds its name and its data, and keeps the others.
LEMMA SavedSaves ==
  ASSUME IInv, NEW p
  PROVE  /\ DOMAIN Saved(p) = DOMAIN merge.saved \union {p}
         /\ Uncoated(Saved(p)[p].data) = Uncoated(Lookup(merge.orig, p).data)
         /\ \A q \in DOMAIN merge.saved \ {p} : Saved(p)[q] = merge.saved[q]
<1> DEFINE e == Lookup(merge.orig, p)
           x == IF merge.skip THEN e ELSE Compress(e)
           f == [q \in {p} |-> x]
<1>1. e \in Entries
  BY LookupTyped DEF IInv, TypeOK
<1>2. Uncoated(x.data) = Uncoated(e.data)
  <2> HIDE DEF e
  <2> QED
    BY <1>1, CompressUncoats
<1>3. Saved(p) = Overlay(f, merge.saved)
  BY DEF Saved
<1> HIDE DEF x
<1>4. DOMAIN f = {p} /\ f[p] = x
  OBVIOUS
<1> HIDE DEF f
<1>5. /\ DOMAIN Saved(p) = {p} \union DOMAIN merge.saved
      /\ Saved(p)[p] = x
      /\ \A q \in DOMAIN merge.saved \ {p} : Saved(p)[q] = merge.saved[q]
  BY <1>3, <1>4 DEF Overlay
<1> QED
  BY <1>2, <1>5

-----------------------------------------------------------------------------
\* Backup enters its loops with nothing passed and nothing recorded.
LEMMA BackupBeginsBInv ==
  ASSUME IInv, NEW cmd \in Commands, CmdBackup(cmd)
  PROVE  BInv'
<1>1. CASE Abort("panic")
  BY <1>1 DEF Abort, Exit, BInv
<1>2. CASE ~Abort("panic")
  <2> DEFINE o == LoadFromData(cmd.orig)
             f == [p \in {BackupDir} |-> DirEntry]
  <2>1. /\ merge'.orig = Rm(o, BackupDir, TRUE)
        /\ merge'.l = 1 /\ merge'.r = 1
        /\ merge'.saved = f /\ merge'.rmlist = <<>>
    BY <1>2 DEF CmdBackup, NoMerge
  <2>2. BackupDir \notin DOMAIN Rm(o, BackupDir, TRUE).entries
    <3> HIDE DEF o
    <3> QED
      BY DEF Rm, removeEntries, Without, Restrict
  <2>3. DOMAIN merge'.saved = {BackupDir}
    BY <2>1
  <2>4. Range(merge'.rmlist) = {}
    BY <2>1 DEF Range
  <2>5. Passed(LeftKeys', merge'.l) = {} /\ Passed(RightKeys', merge'.r) = {}
    BY <2>1, PassedFirst
  <2>6. NoOldBackup'
    BY <2>1, <2>2 DEF NoOldBackup
  <2>7. SavedOfOrig'
    BY <2>3 DEF SavedOfOrig
  <2>8. RecordedPassed'
    BY <2>4 DEF RecordedPassed
  <2>9. RightAccounted' /\ LeftAccounted'
    BY <2>5 DEF RightAccounted, LeftAccounted
  <2> QED
    BY <2>6, <2>7, <2>8, <2>9 DEF BInv, MergeInv
<1> QED
  BY <1>1, <1>2

\* What one iteration of the loops leaves alone.
LEMMA MergeStepFrame ==
  ASSUME IInv, MergeStep
  PROVE  /\ LeftKeys \in Seq(Paths) /\ RightKeys \in Seq(Paths)
         /\ merge.l \in Nat \ {0} /\ merge.r \in Nat \ {0}
         /\ merge.rmlist \in Seq(Paths)
         /\ cpio' = cpio /\ merge.orig' = merge.orig
         /\ LeftKeys' = LeftKeys /\ RightKeys' = RightKeys
         /\ pc = "merge"
         /\ DOMAIN merge = {"orig", "l", "r", "saved", "rmlist", "skip"}
<1>1. /\ IsArchive(cpio) /\ IsArchive(merge.orig)
      /\ merge.l \in 1..(Len(LeftKeys) + 1)
      /\ merge.r \in 1..(Len(RightKeys) + 1)
      /\ merge.rmlist \in Seq(Paths)
  BY DEF IInv, TypeOK
<1>2. merge = [orig |-> merge.orig, l |-> merge.l, r |-> merge.r,
               saved |-> merge.saved, rmlist |-> merge.rmlist,
               skip |-> merge.skip]
  BY DEF IInv, TypeOK
<1>3. LeftKeys \in Seq(Paths) /\ RightKeys \in Seq(Paths)
  BY <1>1 DEF IsArchive, LeftKeys, RightKeys
<1>4. merge.l \in Nat \ {0} /\ merge.r \in Nat \ {0}
  BY <1>1, <1>3
<1>5. cpio' = cpio /\ pc = "merge"
  BY DEF MergeStep
<1>6. merge.orig' = merge.orig
  BY <1>2 DEF MergeStep, MergeLeft, MergeRight, MergeBoth
<1>7. DOMAIN merge = {"orig", "l", "r", "saved", "rmlist", "skip"}
  BY <1>2
<1> QED
  BY <1>1, <1>3, <1>4, <1>5, <1>6, <1>7 DEF LeftKeys, RightKeys

\* A key that only ORIG has is saved.
LEMMA MergeLeftKeeps ==
  ASSUME IInv, MergeInv, MergeStep, MergeLeft
  PROVE  MergeInv'
<1> DEFINE p == LeftKeys[merge.l]
<1>1. /\ LeftKeys \in Seq(Paths) /\ RightKeys \in Seq(Paths)
      /\ merge.l \in 1..Len(LeftKeys)
      /\ cpio' = cpio /\ merge.orig' = merge.orig
      /\ LeftKeys' = LeftKeys /\ RightKeys' = RightKeys
  BY MergeStepFrame DEF MergeLeft
<1>2. /\ merge.saved' = Saved(p) /\ merge.l' = merge.l + 1
      /\ merge.r' = merge.r /\ merge.rmlist' = merge.rmlist
  BY MergeStepFrame DEF MergeLeft
<1>3. Passed(LeftKeys', merge.l') = Passed(LeftKeys, merge.l) \union {p}
  BY <1>1, <1>2, PassedNext
<1>4. Passed(RightKeys', merge.r') = Passed(RightKeys, merge.r)
  BY <1>1, <1>2
<1>5. /\ DOMAIN merge.saved' = DOMAIN merge.saved \union {p}
      /\ Uncoated(merge.saved'[p].data) = Uncoated(Lookup(merge.orig, p).data)
      /\ \A q \in DOMAIN merge.saved \ {p} : merge.saved'[q] = merge.saved[q]
  BY <1>2, SavedSaves
<1> HIDE DEF p
<1>6. NoOldBackup'
  BY <1>1 DEF MergeInv, NoOldBackup
<1>7. SavedOfOrig'
  BY <1>1, <1>3, <1>5 DEF MergeInv, SavedOfOrig
<1>8. RecordedPassed' /\ RightAccounted'
  BY <1>2, <1>3, <1>4 DEF MergeInv, RecordedPassed, RightAccounted
<1>9. LeftAccounted'
  BY <1>1, <1>2, <1>3, <1>4, <1>5 DEF MergeInv, LeftAccounted, Kept
<1> QED
  BY <1>6, <1>7, <1>8, <1>9 DEF MergeInv

\* A key that only the archive has is recorded.
LEMMA MergeRightKeeps ==
  ASSUME IInv, MergeInv, MergeStep, MergeRight
  PROVE  MergeInv'
<1> DEFINE p == RightKeys[merge.r]
<1>1. /\ LeftKeys \in Seq(Paths) /\ RightKeys \in Seq(Paths)
      /\ merge.r \in 1..Len(RightKeys) /\ merge.rmlist \in Seq(Paths)
      /\ cpio' = cpio /\ merge.orig' = merge.orig
      /\ LeftKeys' = LeftKeys /\ RightKeys' = RightKeys
  BY MergeStepFrame DEF MergeRight
<1>2. /\ merge.saved' = merge.saved /\ merge.l' = merge.l
      /\ merge.r' = merge.r + 1 /\ merge.rmlist' = Append(merge.rmlist, p)
  BY MergeStepFrame DEF MergeRight
<1>3. /\ Passed(RightKeys', merge.r') = Passed(RightKeys, merge.r) \union {p}
      /\ IsInjective(RightKeys) => p \notin Passed(RightKeys, merge.r)
  BY <1>1, <1>2, PassedNext
<1>4. Passed(LeftKeys', merge.l') = Passed(LeftKeys, merge.l)
  BY <1>1, <1>2
<1>5. p \in Paths
  BY <1>1
<1> HIDE DEF p
<1>6. Range(merge.rmlist') = Range(merge.rmlist) \union {p}
  BY <1>1, <1>2, <1>5, RangeAppended
<1>7. NoOldBackup'
  BY <1>1 DEF MergeInv, NoOldBackup
<1>8. SavedOfOrig'
  BY <1>1, <1>2, <1>4 DEF MergeInv, SavedOfOrig
<1>9. RecordedPassed' /\ RightAccounted'
  BY <1>3, <1>4, <1>6 DEF MergeInv, RecordedPassed, RightAccounted
<1>10. LeftAccounted'
  BY <1>1, <1>2, <1>3, <1>4, <1>6 DEF MergeInv, LeftAccounted, Kept
<1> QED
  BY <1>7, <1>8, <1>9, <1>10 DEF MergeInv

\* A key that both have is saved if its data differ.
LEMMA MergeBothKeeps ==
  ASSUME IInv, MergeInv, MergeStep, MergeBoth
  PROVE  MergeInv'
<1> DEFINE p == LeftKeys[merge.l]
<1>1. /\ LeftKeys \in Seq(Paths) /\ RightKeys \in Seq(Paths)
      /\ merge.l \in 1..Len(LeftKeys) /\ merge.r \in 1..Len(RightKeys)
      /\ cpio' = cpio /\ merge.orig' = merge.orig
      /\ LeftKeys' = LeftKeys /\ RightKeys' = RightKeys
      /\ p = RightKeys[merge.r]
  BY MergeStepFrame DEF MergeBoth
<1>2. /\ merge.saved' = IF Lookup(cpio, p).data = Lookup(merge.orig, p).data
                        THEN merge.saved ELSE Saved(p)
      /\ merge.l' = merge.l + 1
      /\ merge.r' = merge.r + 1 /\ merge.rmlist' = merge.rmlist
  BY MergeStepFrame DEF MergeBoth
<1>3. Passed(LeftKeys', merge.l') = Passed(LeftKeys, merge.l) \union {p}
  BY <1>1, <1>2, PassedNext
<1>4. /\ Passed(RightKeys', merge.r') = Passed(RightKeys, merge.r) \union {p}
      /\ IsInjective(RightKeys) => p \notin Passed(RightKeys, merge.r)
  BY <1>1, <1>2, PassedNext
<1>5. /\ DOMAIN Saved(p) = DOMAIN merge.saved \union {p}
      /\ Uncoated(Saved(p)[p].data) = Uncoated(Lookup(merge.orig, p).data)
      /\ \A q \in DOMAIN merge.saved \ {p} : Saved(p)[q] = merge.saved[q]
  BY SavedSaves
<1> HIDE DEF p
<1>6. NoOldBackup'
  BY <1>1 DEF MergeInv, NoOldBackup
<1>7. SavedOfOrig'
  BY <1>1, <1>2, <1>3, <1>5 DEF MergeInv, SavedOfOrig
<1>8. RecordedPassed' /\ RightAccounted'
  BY <1>2, <1>3, <1>4 DEF MergeInv, RecordedPassed, RightAccounted
<1>9. LeftAccounted'
  <2> SUFFICES ASSUME IsInjective(RightKeys),
                      NEW q \in Passed(LeftKeys, merge.l) \union {p}
               PROVE  q \in DOMAIN merge.saved' \/ Kept(q)'
    BY <1>1, <1>3 DEF LeftAccounted
  <2>1. DOMAIN merge.saved \subseteq DOMAIN merge.saved'
    BY <1>2, <1>5
  <2>2. Kept(q) => Kept(q)'
    BY <1>1, <1>2, <1>4 DEF Kept
  <2>3. CASE q \in Passed(LeftKeys, merge.l)
    BY <2>1, <2>2, <2>3 DEF MergeInv, LeftAccounted
  <2>4. CASE q = p /\ Lookup(cpio, p).data = Lookup(merge.orig, p).data
    <3>1. p \notin Range(merge.rmlist)
      BY <1>4 DEF MergeInv, RecordedPassed
    <3> QED
      BY <1>1, <1>2, <1>4, <2>4, <3>1 DEF Kept
  <2>5. CASE q = p /\ Lookup(cpio, p).data # Lookup(merge.orig, p).data
    BY <1>2, <1>5, <2>5
  <2> QED
    BY <2>3, <2>4, <2>5
<1> QED
  BY <1>6, <1>7, <1>8, <1>9 DEF MergeInv

\* No merge is under way before the first run.
LEMMA InitBInv == Init => BInv
BY DEF Init, BInv

\* What the loops of Backup have accounted for stays so with every step.
LEMMA NextBInv == IInv /\ BInv /\ [Next]_vars => BInv'
<1> SUFFICES ASSUME IInv, BInv, [Next]_vars, pc' = "merge" PROVE MergeInv'
  BY DEF BInv
<1>1. CASE MergeStep
  <2>1. MergeInv
    BY <1>1, MergeStepFrame DEF BInv
  <2> QED
    BY <1>1, <2>1, MergeLeftKeeps, MergeRightKeeps, MergeBothKeeps DEF MergeStep
<1>2. CASE Command
  <2>1. \A how : ~Abort(how)
    BY DEF Abort, Exit
  <2>2. \A c : ~Continue(c)
    BY <1>2 DEF Continue, Command
  <2>3. PICK cmd \in Commands : CmdBackup(cmd)
    BY <1>2, <2>1, <2>2 DEF Command, CmdRm, CmdMkdir, CmdLn, CmdMv, CmdAdd,
       CmdExtract, CmdPatch, CmdRestore, CmdTest, CmdExists, CmdLs,
       CmdIgnored, CmdMalformed
  <2>4. BInv'
    BY <2>3, BackupBeginsBInv
  <2> QED
    BY <2>4 DEF BInv
<1>3. CASE Start
  BY <1>3 DEF Start, IInv, TypeOK
<1>4. CASE MergeEnd
  BY <1>4 DEF MergeEnd
<1>5. CASE Dump
  BY <1>5 DEF Dump, BeginDump, DumpEntry, DumpHeaderFails, DumpBodyFails,
     DumpTrailer, DumpTrailerFails, Dumping, DumpDone, Abort, Exit
<1>6. CASE Crash
  BY <1>6 DEF Crash, Exit
<1>7. CASE UNCHANGED vars
  BY <1>7 DEF vars, BInv, MergeInv, NoOldBackup, SavedOfOrig, RecordedPassed,
     RightAccounted, LeftAccounted, Kept, LeftKeys, RightKeys
<1> QED
  BY <1>1, <1>2, <1>3, <1>4, <1>5, <1>6, <1>7 DEF Next, Process

\* When both lists are passed the invariant says that ORIG can be recovered.
LEMMA BInvRecovers == IInv /\ BInv => BackupRecovers
<1> SUFFICES ASSUME IInv, BInv, Merged, Exact(merge.orig), Exact(cpio)
             PROVE  Recovers
  BY DEF BackupRecovers
<1> DEFINE saved == Without(merge.saved, {BackupDir})
           rest  == Without(cpio.entries, Range(merge.rmlist))
           back  == Overlay(saved, rest)
           orig  == merge.orig.entries
<1>1. /\ LeftKeys \in Seq(Paths) /\ RightKeys \in Seq(Paths)
      /\ merge.l \in 1..(Len(LeftKeys) + 1) /\ merge.r \in 1..(Len(RightKeys) + 1)
  BY DEF IInv, TypeOK, IsArchive, LeftKeys, RightKeys
<1>2. merge.l = Len(LeftKeys) + 1 /\ merge.r = Len(RightKeys) + 1
  BY <1>1 DEF Merged
<1>3. /\ Passed(LeftKeys, merge.l) = DOMAIN orig
      /\ Passed(RightKeys, merge.r) = DOMAIN cpio.entries
      /\ IsInjective(RightKeys)
  BY <1>1, <1>2, PassedAll DEF Exact, LeftKeys, RightKeys
<1>4. MergeInv
  BY DEF BInv, Merged
<1>5. /\ DOMAIN saved = DOMAIN merge.saved \ {BackupDir}
      /\ \A p \in DOMAIN saved : saved[p] = merge.saved[p]
      /\ DOMAIN rest = DOMAIN cpio.entries \ Range(merge.rmlist)
      /\ \A p \in DOMAIN rest : rest[p] = cpio.entries[p]
  BY DEF Without, Restrict
<1> HIDE DEF saved, rest
<1>6. /\ DOMAIN back = DOMAIN saved \union DOMAIN rest
      /\ \A p \in DOMAIN saved : back[p] = saved[p]
      /\ \A p \in DOMAIN rest \ DOMAIN saved : back[p] = rest[p]
  BY DEF Overlay
<1> HIDE DEF back
<1>7. BackupDir \notin DOMAIN orig
  BY <1>4 DEF MergeInv, NoOldBackup
<1>8. DOMAIN saved \subseteq DOMAIN orig
  BY <1>3, <1>4, <1>5 DEF MergeInv, SavedOfOrig
<1>9. DOMAIN rest \subseteq DOMAIN orig
  BY <1>3, <1>4, <1>5 DEF MergeInv, RightAccounted
<1>10. \A p \in DOMAIN orig : p \in DOMAIN saved \/ (p \in DOMAIN rest /\ Kept(p))
  BY <1>3, <1>4, <1>5, <1>7 DEF MergeInv, LeftAccounted, Kept
<1>11. ASSUME NEW p \in DOMAIN back
       PROVE  Uncoated(back[p].data) = Uncoated(orig[p].data)
  <2>1. p \in DOMAIN orig /\ Lookup(merge.orig, p) = orig[p]
    BY <1>6, <1>8, <1>9 DEF Lookup
  <2>2. CASE p \in DOMAIN saved
    BY <1>4, <1>5, <1>6, <2>1, <2>2 DEF MergeInv, SavedOfOrig
  <2>3. CASE p \notin DOMAIN saved
    <3>1. p \in DOMAIN rest /\ Kept(p)
      BY <1>10, <2>1, <2>3
    <3>2. back[p] = cpio.entries[p] /\ Lookup(cpio, p) = cpio.entries[p]
      BY <1>5, <1>6, <2>3, <3>1 DEF Lookup
    <3> QED
      BY <2>1, <3>1, <3>2 DEF Kept
  <2> QED
    BY <2>2, <2>3
<1>12. DOMAIN back = DOMAIN orig
  BY <1>6, <1>8, <1>9, <1>10
<1> QED
  BY <1>11, <1>12 DEF Recovers, back, saved, rest

\* After its loops Backup can name a difference from which the names and the
\* data of ORIG are recovered: for every archive, every ORIG without names
\* listed twice, and whatever order their entries have.
THEOREM BackupCorrect == Spec => []BackupRecovers
BY InitIInv, NextIInv, InitBInv, NextBInv, BInvRecovers, PTL DEF Spec

-----------------------------------------------------------------------------
(* The difference is the least.                                            *)

\* Both lists name every entry once, in order.
Sorted ==
  /\ InOrder(LeftKeys)  /\ IsInjective(LeftKeys)
  /\ InOrder(RightKeys) /\ IsInjective(RightKeys)

\* A left key passed comes before the right keys to come, and the other way.
LeftAhead ==
  \A i \in 1..(merge.l - 1), j \in merge.r..Len(RightKeys) :
    Rank[LeftKeys[i]] < Rank[RightKeys[j]]

RightAhead ==
  \A j \in 1..(merge.r - 1), i \in merge.l..Len(LeftKeys) :
    Rank[RightKeys[j]] < Rank[LeftKeys[i]]

OnlyRightRecorded == Range(merge.rmlist) \intersect Range(LeftKeys) = {}

OnlyChangedSaved ==
  \A p \in DOMAIN merge.saved \ {BackupDir} :
    p \in Range(RightKeys) => Lookup(cpio, p).data # Lookup(merge.orig, p).data

MinInv ==
  /\ BackupDir \notin DOMAIN cpio.entries
  /\ Sorted => LeftAhead /\ RightAhead /\ OnlyRightRecorded /\ OnlyChangedSaved

DInv == pc = "merge" => MinInv

\* Keys that are in order and not repeated ascend.
LEMMA Ascending ==
  ASSUME NEW keys \in Seq(Paths), InOrder(keys), IsInjective(keys)
  PROVE  /\ \A i, j \in 1..Len(keys) : i < j => Rank[keys[i]] < Rank[keys[j]]
         /\ \A i \in 1..Len(keys) : keys[i] \in Paths /\ Rank[keys[i]] \in Nat
<1>1. \A i \in 1..Len(keys) : keys[i] \in Paths /\ Rank[keys[i]] \in Nat
  BY RankNumbers
<1>2. ASSUME NEW i \in 1..Len(keys), NEW j \in 1..Len(keys), i < j
      PROVE  Rank[keys[i]] < Rank[keys[j]]
  <2>1. Rank[keys[i]] <= Rank[keys[j]] /\ keys[i] # keys[j]
    BY <1>2 DEF InOrder, IsInjective
  <2>2. Rank[keys[i]] # Rank[keys[j]]
    BY <1>1, <2>1, RankNumbers
  <2> QED
    BY <1>1, <2>1, <2>2
<1> QED
  BY <1>1, <1>2

\* What the steps of the loops have in common.
LEMMA SortedFrame ==
  ASSUME IInv, MergeStep, Sorted
  PROVE  /\ \A i, j \in 1..Len(LeftKeys) : i < j => Rank[LeftKeys[i]] < Rank[LeftKeys[j]]
         /\ \A i, j \in 1..Len(RightKeys) : i < j => Rank[RightKeys[i]] < Rank[RightKeys[j]]
         /\ \A i \in 1..Len(LeftKeys) : Rank[LeftKeys[i]] \in Nat
         /\ \A j \in 1..Len(RightKeys) : Rank[RightKeys[j]] \in Nat
         /\ Len(LeftKeys) \in Nat /\ Len(RightKeys) \in Nat
         /\ merge.l \in Nat \ {0} /\ merge.r \in Nat \ {0}
<1>1. LeftKeys \in Seq(Paths) /\ RightKeys \in Seq(Paths)
      /\ merge.l \in Nat \ {0} /\ merge.r \in Nat \ {0}
  BY MergeStepFrame
<1> QED
  BY <1>1, Ascending DEF Sorted

\* A key that only ORIG has: it is not among the right keys.
LEMMA MergeLeftMinimal ==
  ASSUME IInv, MinInv, MergeStep, MergeLeft, Sorted
  PROVE  LeftAhead' /\ RightAhead' /\ OnlyRightRecorded' /\ OnlyChangedSaved'
<1> DEFINE p == LeftKeys[merge.l]
<1>1. /\ cpio' = cpio /\ merge.orig' = merge.orig
      /\ LeftKeys' = LeftKeys /\ RightKeys' = RightKeys
      /\ merge.l <= Len(LeftKeys)
      /\ merge.saved' = Saved(p) /\ merge.l' = merge.l + 1
      /\ merge.r' = merge.r /\ merge.rmlist' = merge.rmlist
  BY MergeStepFrame DEF MergeLeft
<1>2. LeftAhead /\ RightAhead /\ OnlyRightRecorded /\ OnlyChangedSaved
  BY DEF MinInv
<1>3. \A j \in merge.r..Len(RightKeys) : Rank[p] < Rank[RightKeys[j]]
  <2> SUFFICES ASSUME NEW j \in merge.r..Len(RightKeys)
               PROVE  Rank[p] < Rank[RightKeys[j]]
    OBVIOUS
  <2>1. Rank[p] < Rank[RightKeys[merge.r]] /\ merge.r \in 1..Len(RightKeys)
    BY SortedFrame DEF MergeLeft
  <2>2. Rank[p] \in Nat
    BY <1>1, SortedFrame
  <2>3. j \in 1..Len(RightKeys) /\ (merge.r = j \/ merge.r < j)
    BY SortedFrame
  <2>4. Rank[RightKeys[merge.r]] \in Nat /\ Rank[RightKeys[j]] \in Nat
    BY <2>1, <2>3, SortedFrame
  <2>5. Rank[RightKeys[merge.r]] <= Rank[RightKeys[j]]
    BY <2>1, <2>3, <2>4, SortedFrame
  <2> QED
    BY <2>1, <2>2, <2>4, <2>5
<1>4. LeftAhead'
  <2> SUFFICES ASSUME NEW i \in 1..merge.l, NEW j \in merge.r..Len(RightKeys)
               PROVE  Rank[LeftKeys[i]] < Rank[RightKeys[j]]
    BY <1>1, SortedFrame DEF LeftAhead
  <2>1. i = merge.l \/ i \in 1..(merge.l - 1)
    BY SortedFrame
  <2> QED
    BY <1>2, <1>3, <2>1 DEF LeftAhead
<1>5. RightAhead'
  BY <1>1, <1>2, SortedFrame DEF RightAhead
<1>6. p \notin Range(RightKeys)
  <2> SUFFICES ASSUME NEW j \in 1..Len(RightKeys), RightKeys[j] = p
               PROVE  FALSE
    BY MergeStepFrame DEF Range
  <2>1. j \in 1..(merge.r - 1) \/ j \in merge.r..Len(RightKeys)
    BY SortedFrame
  <2>2. Rank[p] \in Nat /\ merge.l \in merge.l..Len(LeftKeys)
    BY <1>1, SortedFrame
  <2>3. Rank[RightKeys[j]] < Rank[p] \/ Rank[p] < Rank[RightKeys[j]]
    BY <1>2, <1>3, <2>1, <2>2 DEF RightAhead
  <2> QED
    BY <2>2, <2>3
<1>7. OnlyChangedSaved'
  <2>1. /\ DOMAIN merge.saved' = DOMAIN merge.saved \union {p}
    BY <1>1, SavedSaves
  <2> HIDE DEF p
  <2> QED
    BY <1>1, <1>2, <1>6, <2>1 DEF OnlyChangedSaved
<1> QED
  BY <1>1, <1>2, <1>4, <1>5, <1>7 DEF OnlyRightRecorded

\* A key that only the archive has: it is not among the left keys.
LEMMA MergeRightMinimal ==
  ASSUME IInv, MinInv, MergeStep, MergeRight, Sorted
  PROVE  LeftAhead' /\ RightAhead' /\ OnlyRightRecorded' /\ OnlyChangedSaved'
<1> DEFINE p == RightKeys[merge.r]
<1>1. /\ cpio' = cpio /\ merge.orig' = merge.orig /\ merge.rmlist \in Seq(Paths)
      /\ LeftKeys' = LeftKeys /\ RightKeys' = RightKeys
      /\ merge.r <= Len(RightKeys)
      /\ merge.saved' = merge.saved /\ merge.l' = merge.l
      /\ merge.r' = merge.r + 1 /\ merge.rmlist' = Append(merge.rmlist, p)
  BY MergeStepFrame DEF MergeRight
<1>2. LeftAhead /\ RightAhead /\ OnlyRightRecorded /\ OnlyChangedSaved
  BY DEF MinInv
<1>3. \A i \in merge.l..Len(LeftKeys) : Rank[p] < Rank[LeftKeys[i]]
  <2> SUFFICES ASSUME NEW i \in merge.l..Len(LeftKeys)
               PROVE  Rank[p] < Rank[LeftKeys[i]]
    OBVIOUS
  <2>1. Rank[LeftKeys[merge.l]] > Rank[p] /\ merge.l \in 1..Len(LeftKeys)
    BY SortedFrame DEF MergeRight
  <2>2. Rank[p] \in Nat
    BY <1>1, SortedFrame
  <2>3. i \in 1..Len(LeftKeys) /\ (merge.l = i \/ merge.l < i)
    BY SortedFrame
  <2>4. Rank[LeftKeys[merge.l]] \in Nat /\ Rank[LeftKeys[i]] \in Nat
    BY <2>1, <2>3, SortedFrame
  <2>5. Rank[LeftKeys[merge.l]] <= Rank[LeftKeys[i]]
    BY <2>1, <2>3, <2>4, SortedFrame
  <2> QED
    BY <2>1, <2>2, <2>4, <2>5
<1>4. RightAhead'
  <2> SUFFICES ASSUME NEW j \in 1..merge.r, NEW i \in merge.l..Len(LeftKeys)
               PROVE  Rank[RightKeys[j]] < Rank[LeftKeys[i]]
    BY <1>1, SortedFrame DEF RightAhead
  <2>1. j = merge.r \/ j \in 1..(merge.r - 1)
    BY SortedFrame
  <2> QED
    BY <1>2, <1>3, <2>1 DEF RightAhead
<1>5. LeftAhead'
  BY <1>1, <1>2, SortedFrame DEF LeftAhead
<1>6. p \notin Range(LeftKeys)
  <2> SUFFICES ASSUME NEW i \in 1..Len(LeftKeys), LeftKeys[i] = p
               PROVE  FALSE
    BY MergeStepFrame DEF Range
  <2>1. i \in 1..(merge.l - 1) \/ i \in merge.l..Len(LeftKeys)
    BY SortedFrame
  <2>2. Rank[p] \in Nat /\ merge.r \in merge.r..Len(RightKeys)
    BY <1>1, SortedFrame
  <2>3. Rank[LeftKeys[i]] < Rank[p] \/ Rank[p] < Rank[LeftKeys[i]]
    BY <1>2, <1>3, <2>1, <2>2 DEF LeftAhead
  <2> QED
    BY <2>2, <2>3
<1>7. OnlyRightRecorded'
  <2>1. p \in Paths
    BY <1>1, MergeStepFrame, SortedFrame
  <2> HIDE DEF p
  <2>2. Range(merge.rmlist') = Range(merge.rmlist) \union {p}
    BY <1>1, <2>1, RangeAppended
  <2> QED
    BY <1>1, <1>2, <1>6, <2>2 DEF OnlyRightRecorded
<1> QED
  BY <1>1, <1>2, <1>4, <1>5, <1>7 DEF OnlyChangedSaved

\* A key that both have is passed in both.
LEMMA MergeBothMinimal ==
  ASSUME IInv, MinInv, MergeStep, MergeBoth, Sorted
  PROVE  LeftAhead' /\ RightAhead' /\ OnlyRightRecorded' /\ OnlyChangedSaved'
<1> DEFINE p == LeftKeys[merge.l]
<1>1. /\ cpio' = cpio /\ merge.orig' = merge.orig
      /\ LeftKeys' = LeftKeys /\ RightKeys' = RightKeys
      /\ merge.l <= Len(LeftKeys) /\ merge.r <= Len(RightKeys)
      /\ p = RightKeys[merge.r]
      /\ merge.saved' = IF Lookup(cpio, p).data = Lookup(merge.orig, p).data
                        THEN merge.saved ELSE Saved(p)
      /\ merge.l' = merge.l + 1
      /\ merge.r' = merge.r + 1 /\ merge.rmlist' = merge.rmlist
  BY MergeStepFrame DEF MergeBoth
<1>2. LeftAhead /\ RightAhead /\ OnlyRightRecorded /\ OnlyChangedSaved
  BY DEF MinInv
<1>3. LeftAhead'
  <2> SUFFICES ASSUME NEW i \in 1..merge.l, NEW j \in (merge.r + 1)..Len(RightKeys)
               PROVE  Rank[LeftKeys[i]] < Rank[RightKeys[j]]
    BY <1>1, SortedFrame DEF LeftAhead
  <2>1. CASE i = merge.l
    BY <1>1, <2>1, SortedFrame
  <2>2. CASE i \in 1..(merge.l - 1)
    BY <1>2, <2>2, SortedFrame DEF LeftAhead
  <2> QED
    BY <2>1, <2>2, SortedFrame
<1>4. RightAhead'
  <2> SUFFICES ASSUME NEW j \in 1..merge.r, NEW i \in (merge.l + 1)..Len(LeftKeys)
               PROVE  Rank[RightKeys[j]] < Rank[LeftKeys[i]]
    BY <1>1, SortedFrame DEF RightAhead
  <2>1. CASE j = merge.r
    <3>1. merge.l \in 1..Len(LeftKeys) /\ i \in 1..Len(LeftKeys) /\ merge.l < i
      BY <1>1, SortedFrame
    <3>2. Rank[LeftKeys[merge.l]] < Rank[LeftKeys[i]]
      BY <3>1, SortedFrame
    <3> QED
      BY <1>1, <2>1, <3>2
  <2>2. CASE j \in 1..(merge.r - 1)
    BY <1>2, <2>2, SortedFrame DEF RightAhead
  <2> QED
    BY <2>1, <2>2, SortedFrame
<1>5. OnlyChangedSaved'
  <2>1. DOMAIN Saved(p) = DOMAIN merge.saved \union {p}
    BY SavedSaves
  <2> HIDE DEF p
  <2> QED
    BY <1>1, <1>2, <2>1 DEF OnlyChangedSaved
<1> QED
  BY <1>1, <1>2, <1>3, <1>4, <1>5 DEF OnlyRightRecorded

\* Backup enters its loops with nothing saved or recorded.
LEMMA BackupBeginsDInv ==
  ASSUME IInv, NEW cmd \in Commands, CmdBackup(cmd), pc' = "merge"
  PROVE  MinInv'
<1> DEFINE f == [p \in {BackupDir} |-> DirEntry]
<1>1. /\ cpio' = Rm(cpio, BackupDir, TRUE)
      /\ merge'.l = 1 /\ merge'.r = 1 /\ merge'.saved = f /\ merge'.rmlist = <<>>
  BY DEF CmdBackup, NoMerge, Abort, Exit
<1>2. BackupDir \notin DOMAIN cpio'.entries
  BY <1>1 DEF Rm, removeEntries, Without, Restrict
<1>3. LeftAhead' /\ RightAhead'
  BY <1>1 DEF LeftAhead, RightAhead
<1>4. OnlyRightRecorded'
  BY <1>1 DEF OnlyRightRecorded, Range
<1>5. OnlyChangedSaved'
  BY <1>1 DEF OnlyChangedSaved
<1> QED
  BY <1>2, <1>3, <1>4, <1>5 DEF MinInv

\* The loops find the least difference, step by step.
LEMMA NextDInv == IInv /\ DInv /\ [Next]_vars => DInv'
<1> SUFFICES ASSUME IInv, DInv, [Next]_vars, pc' = "merge" PROVE MinInv'
  BY DEF DInv
<1>1. CASE MergeStep
  <2>1. MinInv /\ cpio' = cpio /\ (Sorted' <=> Sorted)
    BY <1>1, MergeStepFrame DEF DInv, Sorted
  <2> QED
    BY <1>1, <2>1, MergeLeftMinimal, MergeRightMinimal, MergeBothMinimal
    DEF MergeStep, MinInv
<1>2. CASE Command
  <2>1. \A how : ~Abort(how)
    BY DEF Abort, Exit
  <2>2. \A c : ~Continue(c)
    BY <1>2 DEF Continue, Command
  <2>3. PICK cmd \in Commands : CmdBackup(cmd)
    BY <1>2, <2>1, <2>2 DEF Command, CmdRm, CmdMkdir, CmdLn, CmdMv, CmdAdd,
       CmdExtract, CmdPatch, CmdRestore, CmdTest, CmdExists, CmdLs,
       CmdIgnored, CmdMalformed
  <2> QED
    BY <2>3, BackupBeginsDInv
<1>3. CASE Start \/ MergeEnd \/ Dump \/ Crash
  BY <1>3 DEF Start, IInv, TypeOK, MergeEnd, Dump, BeginDump, DumpEntry,
     DumpHeaderFails, DumpBodyFails, DumpTrailer, DumpTrailerFails, Dumping,
     DumpDone, Abort, Exit, Crash
<1>4. CASE UNCHANGED vars
  <2>1. UNCHANGED <<pc, cpio, merge>>
    BY <1>4 DEF vars
  <2> QED
    BY <2>1 DEF DInv, MinInv, Sorted, LeftAhead, RightAhead, OnlyRightRecorded,
       OnlyChangedSaved, LeftKeys, RightKeys
<1> QED
  BY <1>1, <1>2, <1>3, <1>4 DEF Next, Process

\* When both lists are passed nothing is backed up that need not be.
LEMMA DInvMinimal == IInv /\ BInv /\ DInv => BackupMinimal
<1> SUFFICES ASSUME IInv, BInv, DInv, Merged, InOrder(LeftKeys), Exact(merge.orig),
                    InOrder(RightKeys), Exact(cpio)
             PROVE  Minimal
  BY DEF BackupMinimal
<1>1. MinInv /\ SavedOfOrig /\ Sorted
  BY DEF BInv, DInv, MergeInv, Merged, Sorted, Exact, LeftKeys, RightKeys
<1>2. BackupDir \notin DOMAIN cpio.entries /\ OnlyRightRecorded /\ OnlyChangedSaved
  BY <1>1 DEF MinInv
<1>3. DOMAIN cpio.entries = Range(RightKeys) /\ DOMAIN merge.orig.entries = Range(LeftKeys)
  BY DEF Exact, LeftKeys, RightKeys
<1>4. LeftKeys \in Seq(Paths) /\ merge.l \in 1..(Len(LeftKeys) + 1)
  BY DEF IInv, TypeOK, IsArchive, LeftKeys
<1>5. Passed(LeftKeys, merge.l) \subseteq Range(LeftKeys)
  BY <1>4 DEF Passed, Range
<1>6. ASSUME NEW p \in DOMAIN merge.saved \intersect DOMAIN cpio.entries
      PROVE  cpio.entries[p].data # merge.orig.entries[p].data
  <2>1. p \in DOMAIN merge.saved \ {BackupDir} /\ p \in Range(RightKeys)
    BY <1>2, <1>3
  <2>2. p \in DOMAIN merge.orig.entries
    BY <1>1, <1>3, <1>5, <2>1 DEF SavedOfOrig
  <2>3. Lookup(cpio, p).data # Lookup(merge.orig, p).data
    BY <1>2, <2>1 DEF OnlyChangedSaved
  <2> QED
    BY <2>2, <2>3 DEF Lookup
<1> QED
  BY <1>2, <1>6 DEF Minimal, OnlyRightRecorded

\* Where both archives list their entries in order and once, Backup records no
\* name that ORIG has and saves no entry that is still there as it was.
THEOREM BackupLeast == Spec => []BackupMinimal
<1>1. Init => DInv
  BY DEF Init, DInv
<1> QED
  BY <1>1, InitIInv, NextIInv, InitBInv, NextBInv, NextDInv, DInvMinimal, PTL DEF Spec

-----------------------------------------------------------------------------
(* Dump, and the load of what it wrote.                                    *)

\* The names that LoadFromData skips.
Skipped == DotNames \union {Trailer}

\* The file begins with the items of the first n keys.
Begins(items, c, n) ==
  \A i \in 1..n : items[i] = EntryItem(c.keys[i], Lookup(c, c.keys[i]))

\* What Dump may leave after the n-th key: these items, and perhaps the trailer
\* or an item without its end.
DumpFile(items, c, n) ==
  /\ items \in Seq(Items) /\ n \in 0..Len(c.keys)
  /\ Begins(items, c, n)
  /\ \/ Len(items) = n
     \/ Len(items) = n + 1 /\ items[n + 1] \in {Torn, EntryItem(Trailer, Zero)}

\* Pick depends on the elements at the positions it takes only.
LEMMA PickAgrees ==
  ASSUME NEW s, NEW t, NEW I, IsFiniteSet(I), I \subseteq Int,
         \A i \in I : s[i] = t[i]
  PROVE  Pick(s, I) = Pick(t, I)
<1> DEFINE pos == [i \in I |-> i]
           e   == Enumerate(I, pos)
           n   == Cardinality(I)
<1>1. n \in Nat /\ e \in [1..n -> I]
  <2>1. \A i \in I : pos[i] \in Int
    OBVIOUS
  <2>2. \A i, j \in I : pos[i] = pos[j] => i = j
    OBVIOUS
  <2>3. IsFiniteSet(I)
    OBVIOUS
  <2> HIDE DEF pos
  <2> QED
    BY <2>1, <2>2, <2>3, EnumerateLists
<1>2. Pick(s, I) = [k \in 1..n |-> s[e[k]]] /\ Pick(t, I) = [k \in 1..n |-> t[e[k]]]
  BY DEF Pick
<1> HIDE DEF n, e
<1>3. \A k \in 1..n : s[e[k]] = t[e[k]]
  BY <1>1
<1> QED
  BY <1>2, <1>3

\* Where exactly the first b keys are accepted, these are loaded.
LEMMA LoadsFirst ==
  ASSUME NEW c, IsArchive(c), NEW items \in Seq(Items), NEW b \in 0..Len(c.keys),
         b <= Len(items), Begins(items, c, b),
         Accepted(items) = {i \in 1..b : c.keys[i] \notin Skipped}
  PROVE  Reloads(items, c, b)
<1> DEFINE A        == Accepted(items)
           named(p) == {i \in A : items[i].name = p}
           last(p)  == CHOOSE i \in named(p) : \A j \in named(p) : j <= i
           names    == {items[i].name : i \in A}
           s        == [i \in DOMAIN items |->
                          IF i \in A THEN items[i].name ELSE <<>>]
           kept     == Pick(c.keys, A)
<1>1. c.keys \in Seq(Paths) /\ Len(c.keys) \in Nat /\ A \subseteq 1..b
      /\ A \subseteq DOMAIN c.keys /\ A \subseteq DOMAIN items
  BY DEF IsArchive
<1>2. IsFiniteSet(A) /\ A \subseteq Int
  BY <1>1, PositionsFinite
<1>3. \A i \in A : items[i].name = c.keys[i] /\ items[i].entry = Lookup(c, c.keys[i])
  <2> SUFFICES ASSUME NEW i \in 1..b
               PROVE  items[i].name = c.keys[i] /\ items[i].entry = Lookup(c, c.keys[i])
    BY <1>1
  <2>1. items[i] = EntryItem(c.keys[i], Lookup(c, c.keys[i]))
    BY DEF Begins
  <2> QED
    BY <2>1 DEF EntryItem
<1>4. \A i \in A : s[i] = c.keys[i]
  BY <1>1, <1>3
<1>5. Pick(s, A) = kept
  <2> HIDE DEF A, s
  <2> QED
    BY <1>2, <1>4, PickAgrees
<1>6. Range(kept) = {c.keys[i] : i \in A}
  <2>1. \A i \in A : c.keys[i] \in Paths
    BY <1>1
  <2> HIDE DEF A
  <2> QED
    BY <1>2, <2>1, PickPicks
<1>7. names = Range(kept)
  BY <1>3, <1>6
<1>8. ASSUME NEW p \in names
      PROVE  items[last(p)].entry = Lookup(c, p)
  <2>1. named(p) # {} /\ named(p) \in SUBSET A
    OBVIOUS
  <2>2. IsFiniteSet(named(p)) /\ named(p) \subseteq Int
    BY <1>2, <2>1, FS_Subset
  <2>3. \E i \in named(p) : \A j \in named(p) : j <= i
    <3> HIDE DEF named
    <3> QED
      BY <2>1, <2>2, LastExists
  <2>4. last(p) \in named(p)
    <3> HIDE DEF named
    <3> QED
      BY <2>3
  <2>5. last(p) \in A /\ items[last(p)].name = p
    BY <2>4
  <2> HIDE DEF last, A
  <2> QED
    BY <1>3, <2>5
<1>9. LoadFromData(items) =
        [entries |-> [p \in names |-> items[last(p)].entry], keys |-> Pick(s, A)]
  BY DEF LoadFromData
<1>10. A = {i \in 1..b : c.keys[i] \notin DotNames \union {Trailer}}
  BY DEF Skipped
<1> HIDE DEF names, last, s, A
<1>11. [p \in names |-> items[last(p)].entry] = [p \in Range(kept) |-> Lookup(c, p)]
  BY <1>7, <1>8
<1> QED
  BY <1>5, <1>9, <1>10, <1>11 DEF Reloads

\* A loader reads the first keys of what Dump left; all of it, and without a
\* complaint, if no dot entry has data and nothing is torn.
LEMMA DumpFileLoads ==
  ASSUME NEW c, IsArchive(c), NEW items, NEW n, DumpFile(items, c, n)
  PROVE  /\ \E b \in 0..n : Reloads(items, c, b)
         /\ DotsEmpty(c) => /\ Reloads(items, c, n)
                            /\ items[n + 1] # Torn \/ Len(items) = n => Stops(items) = {}
<1> DEFINE Dot(i) == c.keys[i] \in DotNames /\ Lookup(c, c.keys[i]).data # Nothing
           dots   == {i \in 1..n : Dot(i)}
           First(b) == {i \in 1..b : c.keys[i] \notin Skipped}
<1>1. /\ items \in Seq(Items) /\ n \in Nat /\ n <= Len(c.keys)
      /\ c.keys \in Seq(Paths) /\ Len(c.keys) \in Nat /\ Len(items) \in Nat
      /\ DOMAIN items = 1..Len(items) /\ n <= Len(items) /\ Len(items) <= n + 1
      /\ Begins(items, c, n)
  BY DEF DumpFile, IsArchive
<1>2. ASSUME NEW i \in 1..n
      PROVE  /\ items[i].tag = "entry" /\ items[i].name = c.keys[i]
             /\ items[i].entry = Lookup(c, c.keys[i]) /\ i \in DOMAIN items
  <2>1. items[i] = EntryItem(c.keys[i], Lookup(c, c.keys[i]))
    BY <1>1 DEF Begins
  <2> QED
    BY <1>1, <2>1 DEF EntryItem
<1>3. \A i \in DOMAIN items : i \in 1..n \/ i = n + 1
  BY <1>1
<1>4. \A i \in 1..n : i \in Stops(items) <=> i \in dots
  <2> SUFFICES ASSUME NEW i \in 1..n PROVE i \in Stops(items) <=> Dot(i)
    OBVIOUS
  <2> HIDE DEF Dot
  <2>1. /\ items[i].tag = "entry" /\ items[i].name = c.keys[i]
        /\ items[i].entry = Lookup(c, c.keys[i]) /\ i \in DOMAIN items
    BY <1>2
  <2> QED
    BY <2>1 DEF Stops, Dot
<1>5. n + 1 \in DOMAIN items =>
        \/ items[n + 1] = Torn
        \/ /\ items[n + 1] = EntryItem(Trailer, Zero)
           /\ n + 1 \notin Stops(items)
  <2> SUFFICES ASSUME n + 1 \in DOMAIN items, items[n + 1] # Torn
               PROVE  /\ items[n + 1] = EntryItem(Trailer, Zero)
                      /\ n + 1 \notin Stops(items)
    OBVIOUS
  <2>1. items[n + 1] = EntryItem(Trailer, Zero)
    <3>1. items \in Seq(Items) /\ n \in Nat
      BY <1>1
    <3>2. Len(items) # n
      BY <3>1
    <3> QED
      BY <3>2 DEF DumpFile
  <2>2. /\ items[n + 1].tag = "entry" /\ items[n + 1].entry = Zero
    BY <2>1 DEF EntryItem
  <2>3. items[n + 1].entry.data = Nothing
    BY <2>2 DEF Zero
  <2> QED
    BY <2>1, <2>2, <2>3 DEF Stops
<1>6. n + 1 \notin Accepted(items)
  <2>1. CASE items[n + 1] = Torn
    BY <2>1 DEF Accepted, Torn
  <2>2. CASE items[n + 1] # Torn
    BY <1>5, <2>2 DEF Accepted, EntryItem
  <2> QED
    BY <2>1, <2>2
<1>7. \A i \in 1..n : i \in Accepted(items) <=>
                        i \in First(n) /\ \A s \in Stops(items) : i < s
  BY <1>2 DEF Accepted, Skipped
<1>8. Accepted(items) \subseteq 1..n /\ Stops(items) \subseteq 1..(n + 1)
  <2>1. Accepted(items) \subseteq DOMAIN items /\ Stops(items) \subseteq DOMAIN items
    BY DEF Accepted, Stops
  <2> QED
    BY <1>1, <1>3, <1>6, <2>1
<1>9. CASE dots = {}
  <2>1. Stops(items) \subseteq {n + 1}
    <3>1. \A i \in 1..(n + 1) : i \in 1..n \/ i = n + 1
      BY <1>1
    <3>2. \A i \in 1..n : i \notin Stops(items)
      BY <1>4, <1>9
    <3> QED
      BY <1>8, <3>1, <3>2
  <2>2. Accepted(items) = First(n)
    <3>1. \A i \in 1..n : \A s \in Stops(items) : i < s
      BY <1>1, <2>1
    <3>2. \A i \in 1..n : i \in Accepted(items) <=> i \in First(n)
      BY <1>7, <3>1
    <3> QED
      BY <1>8, <3>2
  <2>3. Reloads(items, c, n)
    <3>1. n \in 0..Len(c.keys)
      BY <1>1
    <3>2. Accepted(items) = {i \in 1..n : c.keys[i] \notin Skipped}
      BY <2>2
    <3> HIDE DEF dots, First
    <3> QED
      BY <1>1, <3>1, <3>2, LoadsFirst
  <2>4. items[n + 1] # Torn \/ Len(items) = n => Stops(items) = {}
    <3>1. n + 1 \in Stops(items) => n + 1 \in DOMAIN items
      BY DEF Stops
    <3>2. n + 1 \in DOMAIN items => Len(items) # n
      <4> HIDE DEF dots, First
      <4>1. items \in Seq(Items) /\ n \in Nat
        BY <1>1
      <4> QED
        BY <4>1
    <3>3. n + 1 \in Stops(items) => items[n + 1] = Torn
      BY <1>5, <3>1
    <3> QED
      BY <2>1, <3>1, <3>2, <3>3
  <2>5. n \in 0..n
    BY <1>1
  <2> QED
    BY <2>3, <2>4, <2>5
<1>10. CASE dots # {}
  <2>1. IsFiniteSet(dots) /\ dots \subseteq Int
    <3>1. IsFiniteSet(1..n) /\ dots \in SUBSET (1..n)
      BY <1>1, FS_Interval
    <3> QED
      BY <1>1, <3>1, FS_Subset
  <2>2. PICK b \in dots : \A j \in dots : b <= j
    <3> HIDE DEF dots
    <3> QED
      BY <1>10, <2>1, LeastAndGreatest
  <2>3. b \in 1..n /\ c.keys[b] \in DotNames /\ b \in Stops(items)
    BY <1>4, <2>2
  <2>4. \A s \in Stops(items) : s >= b
    <3> SUFFICES ASSUME NEW s \in Stops(items) PROVE s >= b
      OBVIOUS
    <3>1. s \in dots \/ s = n + 1
      <4>1. s \in 1..n \/ s = n + 1
        BY <1>1, <1>8
      <4> QED
        BY <1>4, <4>1
    <3> QED
      BY <1>1, <2>2, <2>3, <3>1
  <2>5. First(b) = First(n) \intersect 1..(b - 1)
    <3>1. \A i \in 1..b : i = b \/ i \in 1..(b - 1)
      BY <2>3
    <3>2. b \notin First(b)
      BY <2>3 DEF Skipped
    <3>3. \A i \in 1..(b - 1) : i \in 1..b /\ i \in 1..n
      BY <1>1, <2>3
    <3> QED
      BY <3>1, <3>2, <3>3
  <2>6. \A i \in 1..n : i \in Accepted(items) <=> i \in First(b)
    <3> SUFFICES ASSUME NEW i \in 1..n
                 PROVE  i \in Accepted(items) <=> i \in First(b)
      OBVIOUS
    <3>1. (\A s \in Stops(items) : i < s) <=> i < b
      BY <1>1, <1>8, <2>3, <2>4
    <3>2. i < b <=> i \in 1..(b - 1)
      BY <1>1, <2>3
    <3> QED
      BY <1>7, <2>5, <3>1, <3>2
  <2>7. Accepted(items) = First(b)
    BY <1>8, <2>5, <2>6
  <2>8. Begins(items, c, b) /\ b \in 0..Len(c.keys) /\ b <= Len(items)
    BY <1>1, <2>3 DEF Begins
  <2>9. Reloads(items, c, b)
    <3>1. Accepted(items) = {i \in 1..b : c.keys[i] \notin Skipped}
      BY <2>7
    <3> HIDE DEF dots, First
    <3> QED
      BY <1>1, <2>8, <3>1, LoadsFirst
  <2>10. ~DotsEmpty(c)
    <3>1. c.keys[b] \in Range(c.keys)
      BY <1>1, <2>3 DEF Range
    <3>2. Dot(b)
      BY <2>2
    <3> QED
      BY <3>1, <3>2 DEF DotsEmpty
  <2>11. b \in 0..n
    BY <1>1, <2>3
  <2> QED
    BY <2>9, <2>10, <2>11
<1> QED
  BY <1>9, <1>10

-----------------------------------------------------------------------------
(* The write loop.                                                         *)

\* The keys Dump has written, but for the one the device had no room for.
Written == IF full THEN cursor - 2 ELSE cursor - 1

\* The file follows the cursor, and a run has no status before it ends.
WriteInv ==
  /\ full => pc = "dump"
  /\ pc # "idle" => status = "none"
  /\ pc = "dump" => /\ cursor # 0 /\ DumpFile(disk, cpio, Written)
                    /\ Len(disk) = cursor - 1

LEMMA InitWriteInv == Init => WriteInv
BY DEF Init, WriteInv

\* One more item follows the items of the first n keys: that of the next key, or
\* one that ends the file.
LEMMA AppendsKey ==
  ASSUME NEW c, NEW items, NEW n, DumpFile(items, c, n), Len(items) = n,
         n < Len(c.keys), c.keys \in Seq(Paths),
         NEW item \in Items,
         item = EntryItem(c.keys[n + 1], Lookup(c, c.keys[n + 1]))
  PROVE  DumpFile(Append(items, item), c, n + 1) /\ Len(Append(items, item)) = n + 1
<1> DEFINE longer == Append(items, item)
<1>1. /\ items \in Seq(Items) /\ n \in Nat /\ Len(c.keys) \in Nat
      /\ Begins(items, c, n) /\ Len(items) = n
  BY DEF DumpFile
<1>2. /\ longer \in Seq(Items) /\ Len(longer) = n + 1 /\ longer[n + 1] = item
      /\ \A i \in 1..n : longer[i] = items[i]
  BY <1>1
<1> HIDE DEF longer
<1>3. n + 1 \in 0..Len(c.keys)
  BY <1>1
<1>4. \A i \in 1..(n + 1) : i \in 1..n \/ i = n + 1
  BY <1>1
<1>5. Begins(longer, c, n + 1)
  BY <1>1, <1>2, <1>4 DEF Begins
<1>6. DumpFile(longer, c, n + 1)
  BY <1>2, <1>3, <1>5 DEF DumpFile
<1> QED
  BY <1>2, <1>6 DEF longer

LEMMA AppendsEnd ==
  ASSUME NEW c, NEW items, NEW n, DumpFile(items, c, n), Len(items) = n,
         NEW item \in {Torn, EntryItem(Trailer, Zero)}
  PROVE  /\ DumpFile(Append(items, item), c, n)
         /\ Len(Append(items, item)) = n + 1 /\ Append(items, item)[n + 1] = item
<1> DEFINE longer == Append(items, item)
<1>1. /\ items \in Seq(Items) /\ n \in 0..Len(c.keys) /\ n \in Nat
      /\ Begins(items, c, n) /\ Len(items) = n
  BY DEF DumpFile
<1>2. item \in Items
  BY ItemsTyped, EntriesTyped
<1>3. /\ longer \in Seq(Items) /\ Len(longer) = n + 1 /\ longer[n + 1] = item
      /\ \A i \in 1..n : longer[i] = items[i]
  BY <1>1, <1>2
<1> HIDE DEF longer
<1>4. Begins(longer, c, n)
  BY <1>1, <1>3 DEF Begins
<1>5. DumpFile(longer, c, n)
  BY <1>1, <1>3, <1>4 DEF DumpFile
<1> QED
  BY <1>3, <1>5 DEF longer

\* Every step while Dump writes: the file stays a prefix of what Dump is to
\* write, and it is all of it if Dump succeeds on a sound device.
LEMMA DumpSteps ==
  ASSUME IInv, WriteInv, Next, pc = "dump"
  PROVE  /\ WriteInv'
         /\ disk' # NoFile => \E n \in 0..Len(cpio.keys) : DumpFile(disk', cpio, n)
         /\ status' = "dumped" /\ ~Faults =>
              /\ DumpFile(disk', cpio, Len(cpio.keys))
              /\ disk'[Len(cpio.keys) + 1] # Torn
<1> DEFINE n == Len(cpio.keys)
           Prefix == \E k \in 0..n : DumpFile(disk', cpio, k)
           All    == DumpFile(disk', cpio, n) /\ disk'[n + 1] # Torn
<1>1. /\ cpio.keys \in Seq(Paths) /\ n \in Nat
      /\ cursor \in 0..(n + 1) /\ cursor # 0 /\ cursor \in Nat
      /\ DumpFile(disk, cpio, Written) /\ Len(disk) = cursor - 1
      /\ status = "none" /\ Written \in 0..n
  BY DEF IInv, TypeOK, IsArchive, WriteInv, DumpFile
<1>2. \A how : Exit(how) => ~full' /\ pc' = "idle" /\ status' = how
  BY DEF Exit
<1>3. \A how : Exit(how) => WriteInv'
  BY <1>2 DEF WriteInv
<1>4. ASSUME ~full PROVE Written = cursor - 1 /\ Len(disk) = Written
  BY <1>1, <1>4 DEF Written
<1>5. ASSUME ~full, disk' = Append(disk, Torn)
      PROVE  DumpFile(disk', cpio, Written) /\ Len(disk') = cursor
  <2>1. Len(disk) = Written /\ Written + 1 = cursor
    BY <1>1, <1>4, <1>5
  <2>2. DumpFile(Append(disk, Torn), cpio, Written)
        /\ Len(Append(disk, Torn)) = Written + 1
    BY <1>1, <2>1, AppendsEnd
  <2> QED
    BY <1>5, <2>1, <2>2
<1>6. CASE DumpEntry
  <2> DEFINE item == EntryItem(cpio.keys[cursor], Lookup(cpio, cpio.keys[cursor]))
             w    == cursor - 1
  <2>1. /\ disk' = Append(disk, item) /\ ~full /\ cursor' = cursor + 1
        /\ cursor <= n /\ UNCHANGED <<pc, cpio, full, status>>
    BY <1>6 DEF DumpEntry, Dumping
  <2>2. cursor \in 1..n /\ w + 1 = cursor /\ w < n /\ cursor \in 0..n
    BY <1>1, <2>1
  <2>3. item \in Items
    BY <1>1, <2>2, LookupTyped, ItemsTyped DEF IInv, TypeOK
  <2>4. DumpFile(disk, cpio, w) /\ Len(disk) = w
    BY <1>1, <1>4, <2>1
  <2>5. item = EntryItem(cpio.keys[w + 1], Lookup(cpio, cpio.keys[w + 1]))
    BY <2>2
  <2> HIDE DEF item, w
  <2>6. DumpFile(Append(disk, item), cpio, w + 1) /\ Len(Append(disk, item)) = w + 1
    BY <1>1, <2>2, <2>3, <2>4, <2>5, AppendsKey
  <2>7. DumpFile(disk', cpio, cursor) /\ Len(disk') = cursor
    BY <2>1, <2>2, <2>6
  <2>8. Written' = cursor /\ cursor' # 0 /\ cursor' - 1 = cursor
    BY <1>1, <2>1 DEF Written
  <2>9. WriteInv'
    BY <1>1, <2>1, <2>7, <2>8 DEF WriteInv
  <2>10. status' # "dumped"
    BY <1>1, <2>1
  <2> QED
    BY <2>2, <2>7, <2>9, <2>10
<1>7. CASE DumpHeaderFails
  BY <1>2, <1>3, <1>7 DEF DumpHeaderFails
<1>8. CASE DumpBodyFails
  <2>1. ~full /\ disk' = Append(disk, Torn) /\ Faults
    BY <1>8 DEF DumpBodyFails
  <2>2. DumpFile(disk', cpio, Written) /\ Len(disk') = cursor
    BY <1>5, <2>1
  <2>3. CASE Exit("fatal")
    BY <1>1, <1>3, <2>1, <2>2, <2>3
  <2>4. CASE ~Exit("fatal")
    <3>1. cursor' = cursor + 1 /\ full' = TRUE /\ UNCHANGED <<pc, cpio, status>>
      BY <1>8, <2>4 DEF DumpBodyFails
    <3>2. Written' = Written /\ cursor' # 0 /\ cursor' - 1 = cursor
      BY <1>1, <1>4, <2>1, <3>1 DEF Written
    <3>3. WriteInv'
      BY <1>1, <2>2, <3>1, <3>2 DEF WriteInv
    <3> QED
      BY <1>1, <2>1, <2>2, <3>3
  <2> QED
    BY <2>3, <2>4
<1>9. CASE DumpTrailer
  <2> DEFINE item == EntryItem(Trailer, Zero)
  <2>1. disk' = Append(disk, item) /\ ~full /\ cursor > n /\ Exit("dumped")
    BY <1>9 DEF DumpTrailer, DumpDone
  <2>2. DumpFile(disk, cpio, n) /\ Len(disk) = n
    <3>1. cursor - 1 = n
      BY <1>1, <2>1
    <3> QED
      BY <1>1, <1>4, <2>1, <3>1
  <2>3. item # Torn
    BY DEF EntryItem, Torn
  <2> HIDE DEF item, n
  <2>4. DumpFile(disk', cpio, n) /\ disk'[n + 1] = item
    BY <2>1, <2>2, AppendsEnd DEF item
  <2>5. n \in 0..n
    BY <1>1
  <2> QED
    BY <1>3, <2>1, <2>3, <2>4, <2>5 DEF n
<1>10. CASE DumpTrailerFails
  <2>1. Faults /\ (Exit("dumped") \/ Exit("fatal"))
        /\ (disk' = disk \/ (~full /\ disk' = Append(disk, Torn)))
    BY <1>10 DEF DumpTrailerFails
  <2>2. DumpFile(disk', cpio, Written)
    BY <1>1, <1>5, <2>1
  <2> QED
    BY <1>1, <1>3, <2>1, <2>2
<1>11. CASE Crash
  <2>1. Exit("killed") /\ (disk' = disk \/ (~full /\ disk' = Append(disk, Torn)))
    BY <1>11 DEF Crash
  <2>2. DumpFile(disk', cpio, Written)
    BY <1>1, <1>5, <2>1
  <2> QED
    BY <1>1, <1>2, <1>3, <2>1, <2>2
<1>12. ~Start /\ ~Command /\ ~MergeStep /\ ~MergeEnd /\ ~BeginDump
  BY DEF Start, Command, MergeStep, MergeEnd, BeginDump
<1> QED
  BY <1>6, <1>7, <1>8, <1>9, <1>10, <1>11, <1>12 DEF Next, Process, Dump

\* The write invariant is kept by every step.
LEMMA NextWriteInv == IInv /\ WriteInv /\ [Next]_vars => WriteInv'
<1> SUFFICES ASSUME IInv, WriteInv, [Next]_vars PROVE WriteInv'
  OBVIOUS
<1>1. \A how : Exit(how) => WriteInv'
  BY DEF Exit, WriteInv
<1>2. CASE UNCHANGED vars
  BY <1>2 DEF vars, WriteInv, Written
<1>3. CASE Next /\ pc = "dump"
  BY <1>3, DumpSteps
<1>4. CASE BeginDump
  <2>1. CASE Abort("fatal")
    BY <1>1, <2>1 DEF Abort
  <2>2. CASE ~Abort("fatal")
    <3>1. /\ pc = "run" /\ pc' = "dump" /\ disk' = <<>> /\ cursor' = 1
          /\ UNCHANGED <<cpio, full, status>>
      BY <1>4, <2>2 DEF BeginDump
    <3>2. ~full' /\ status' = "none" /\ cpio.keys \in Seq(Paths)
      BY <3>1 DEF WriteInv, IInv, TypeOK, IsArchive
    <3>3. DumpFile(<<>>, cpio, 0)
      BY <3>2 DEF DumpFile, Begins
    <3>4. Written' = 0
      BY <3>1, <3>2 DEF Written
    <3> QED
      BY <3>1, <3>2, <3>3, <3>4 DEF WriteInv
  <2> QED
    BY <2>1, <2>2
<1>5. CASE Start
  BY <1>5 DEF Start, WriteInv
<1>6. ASSUME Command PROVE WriteInv'
  <2>1. \A c : Continue(c) => WriteInv'
    BY <1>6 DEF Continue, Command, WriteInv
  <2>2. \A how : Abort(how) => WriteInv'
    BY <1>1 DEF Abort
  <2>3. \A cmd : CmdBackup(cmd) => WriteInv'
    <3>1. \A cmd : CmdBackup(cmd) =>
            Abort("panic") \/ (pc' = "merge" /\ UNCHANGED <<full, status>>)
      BY DEF CmdBackup
    <3>2. pc = "run"
      BY <1>6 DEF Command
    <3> QED
      BY <2>2, <3>1, <3>2 DEF WriteInv
  <2> QED
    BY <1>6, <2>1, <2>2, <2>3 DEF Command, CmdRm, CmdMkdir, CmdLn, CmdMv, CmdAdd,
       CmdExtract, CmdPatch, CmdRestore, CmdTest, CmdExists, CmdLs,
       CmdIgnored, CmdMalformed
<1>7. CASE MergeStep \/ MergeEnd
  BY <1>7 DEF MergeStep, MergeEnd, WriteInv
<1>8. CASE Crash
  BY <1>1, <1>8 DEF Crash
<1>9. CASE Next /\ pc # "dump"
  <2>1. ~Dumping /\ ~DumpDone
    BY <1>9 DEF Dumping, DumpDone
  <2> QED
    BY <1>4, <1>5, <1>6, <1>7, <1>8, <1>9, <2>1 DEF Next, Process, Dump, DumpEntry,
       DumpHeaderFails, DumpBodyFails, DumpTrailer, DumpTrailerFails
<1> QED
  BY <1>2, <1>3, <1>9

LEMMA AlwaysWriteInv == Spec => [](IInv /\ WriteInv)
BY InitIInv, NextIInv, InitWriteInv, NextWriteInv, PTL DEF Spec

\* However Dump ends, by a kill at any byte or by a device that fills up, what
\* the next run loads of the file are the first keys of the archive with the
\* entries they had in memory: Dump never leaves a wrong entry behind.
THEOREM PartialDumps == Spec => PartialDumpAgrees
<1> DEFINE A == pc = "dump" /\ disk' # NoFile =>
                  \E n \in 0..Len(cpio.keys) : Reloads(disk', cpio, n)
<1>1. IInv /\ WriteInv /\ [Next]_vars => A \/ UNCHANGED vars
  <2> SUFFICES ASSUME IInv, WriteInv, Next, pc = "dump", disk' # NoFile
               PROVE  \E n \in 0..Len(cpio.keys) : Reloads(disk', cpio, n)
    OBVIOUS
  <2>1. PICK k \in 0..Len(cpio.keys) : DumpFile(disk', cpio, k)
    BY DumpSteps
  <2>2. IsArchive(cpio) /\ Len(cpio.keys) \in Nat
    BY DEF IInv, TypeOK, IsArchive
  <2>3. PICK b \in 0..k : Reloads(disk', cpio, b)
    BY <2>1, <2>2, DumpFileLoads
  <2>4. b \in 0..Len(cpio.keys)
    BY <2>1, <2>2, <2>3
  <2> QED
    BY <2>3, <2>4
<1>2. IInv /\ WriteInv /\ [Next]_vars => [A]_vars
  BY <1>1
<1> QED
  BY <1>2, AlwaysWriteInv, PTL DEF Spec, PartialDumpAgrees

\* On a device that does not fill up, a run that exits 0 after Dump leaves a file
\* that the next run reads to its end without a complaint, and from which it
\* loads what this run had in memory: a key without an entry comes back with
\* Go's zero entry, and only a dot entry with data would stop the loader.
THEOREM DumpsAreExact ==
  ASSUME ~Faults
  PROVE  Spec => DumpRoundTrip
<1> DEFINE A == status' = "dumped" /\ pc = "dump" /\ DotsEmpty(cpio) =>
                  /\ ~LoadPanics(disk') /\ ~LoadFails(disk')
                  /\ Reloads(disk', cpio, Len(cpio.keys))
<1>1. IInv /\ WriteInv /\ [Next]_vars => A \/ UNCHANGED vars
  <2> SUFFICES ASSUME IInv, WriteInv, Next, pc = "dump", status' = "dumped",
                      DotsEmpty(cpio)
               PROVE  /\ ~LoadPanics(disk') /\ ~LoadFails(disk')
                      /\ Reloads(disk', cpio, Len(cpio.keys))
    OBVIOUS
  <2>1. /\ DumpFile(disk', cpio, Len(cpio.keys))
        /\ disk'[Len(cpio.keys) + 1] # Torn
    BY DumpSteps
  <2>2. IsArchive(cpio)
    BY DEF IInv, TypeOK
  <2>3. Reloads(disk', cpio, Len(cpio.keys)) /\ Stops(disk') = {}
    BY <2>1, <2>2, DumpFileLoads
  <2> QED
    BY <2>3 DEF LoadPanics, LoadFails
<1>2. IInv /\ WriteInv /\ [Next]_vars => [A]_vars
  BY <1>1
<1> QED
  BY <1>2, AlwaysWriteInv, PTL DEF Spec, DumpRoundTrip

-----------------------------------------------------------------------------
(* Plain sessions: the map, the list and the file stay in step.            *)

\* Every key has its entry and every entry its key; the names that may be
\* removed are listed once, in memory and in the file; no loader skips a key.
Tidy(c) ==
  /\ Range(c.keys) = DOMAIN c.entries
  /\ Once(c.keys, Removable)
  /\ Range(c.keys) \intersect Skipped = {}

PlainInv ==
  /\ pc # "merge" /\ ~full
  /\ Tidy(cpio)
  /\ disk # NoFile => Tidy(LoadFromData(disk))

\* What a loader makes of a file that Dump writes of a tidy archive: the first
\* keys, and their entries.
LEMMA DumpContents ==
  ASSUME NEW c, IsArchive(c), Tidy(c), NEW items, NEW n, DumpFile(items, c, n)
  PROVE  /\ LoadFromData(items).entries =
              [p \in {c.keys[i] : i \in 1..n} |-> Lookup(c, p)]
         /\ Tidy(LoadFromData(items))
<1> DEFINE I    == {i \in 1..n : c.keys[i] \notin DotNames \union {Trailer}}
           kept == Pick(c.keys, I)
<1>1. /\ c.keys \in Seq(Paths) /\ n \in Nat /\ n <= Len(c.keys) /\ Len(c.keys) \in Nat
      /\ items \in Seq(Items)
  BY DEF IsArchive, DumpFile
<1>2. \A i \in 1..n : i \in DOMAIN c.keys /\ c.keys[i] \in Range(c.keys)
  BY <1>1 DEF Range
<1>3. I = 1..n
  BY <1>2 DEF Tidy, Skipped
<1>4. DotsEmpty(c)
  BY DEF DotsEmpty, Tidy, Skipped
<1>5. LoadFromData(items) =
        [entries |-> [p \in Range(kept) |-> Lookup(c, p)], keys |-> kept]
  BY <1>4, DumpFileLoads DEF Reloads
<1> HIDE DEF kept
<1>6. I \in SUBSET DOMAIN c.keys
  BY <1>2, <1>3
<1>7. Range(kept) = {c.keys[i] : i \in 1..n}
  <2>1. IsFiniteSet(1..n) /\ 1..n \subseteq Int /\ \A i \in 1..n : c.keys[i] \in Paths
    BY <1>1, <1>2, FS_Interval
  <2>2. kept = Pick(c.keys, 1..n)
    BY <1>3 DEF kept
  <2> QED
    BY <2>1, <2>2, PickPicks
<1>8. Once(kept, Removable)
  BY <1>1, <1>6, PickOnce DEF Tidy, kept
<1>9. Range(kept) \subseteq Range(c.keys)
  BY <1>2, <1>7
<1> QED
  BY <1>5, <1>7, <1>8, <1>9 DEF Tidy

\* Nothing is read of an empty file.
LEMMA EmptyContents ==
  LoadFromData(<<>>).entries = EmptyMap /\ Tidy(LoadFromData(<<>>)) /\ Tidy(NewCpio)
<1> DEFINE r == LoadFromData(<<>>)
<1>1. Accepted(<<>>) = {}
  BY DEF Accepted
<1>2. DOMAIN r.entries = {}
  BY <1>1 DEF LoadFromData
<1>3. IsArchive(r) /\ Range(r.keys) = DOMAIN r.entries
  <2>1. <<>> \in Seq(Items)
    OBVIOUS
  <2> QED
    BY <2>1, LoadLoads
<1>4. r.entries = EmptyMap
  BY <1>2, <1>3 DEF IsArchive, IsEntryMap, EmptyMap
<1>5. \A i \in DOMAIN r.keys : FALSE
  BY <1>2, <1>3 DEF Range
<1>6. Tidy(r)
  BY <1>2, <1>3, <1>5 DEF Tidy, Once
<1>7. Tidy(NewCpio)
  BY DEF Tidy, NewCpio, EmptyMap, Range, Once
<1> QED
  BY <1>4, <1>6, <1>7

\* Removing what may be removed, adding what is a target and moving to it leave
\* an archive tidy.
LEMMA RemoveTidy ==
  ASSUME NEW c, IsArchive(c), Tidy(c), NEW S \in SUBSET Removable
  PROVE  Tidy(removeEntries(c, S))
<1> DEFINE r      == removeEntries(c, S)
           gone   == S \intersect DOMAIN c.entries
           firsts == {i \in DOMAIN c.keys :
                        /\ c.keys[i] \in gone
                        /\ \A j \in 1..(i - 1) : c.keys[j] # c.keys[i]}
           I      == DOMAIN c.keys \ firsts
<1>1. c.keys \in Seq(Paths) /\ \A i \in DOMAIN c.keys : c.keys[i] \in Paths
  BY DEF IsArchive
<1>2. NoGhosts(c) /\ Once(c.keys, S) /\ Indexed(c)
  BY DEF Tidy, NoGhosts, Once, Indexed
<1>3. NoGhosts(r) /\ Indexed(r) /\ Once(r.keys, Removable)
  BY <1>2, RemoveNoGhosts, RemoveRemoves, RemoveOnce DEF Tidy
<1>4. r.keys = Pick(c.keys, I) /\ I \in SUBSET DOMAIN c.keys
  BY DEF removeEntries
<1> HIDE DEF r, I
<1>5. Range(r.keys) = {c.keys[i] : i \in I}
  <2>1. IsFiniteSet(I) /\ I \subseteq Int /\ \A i \in I : c.keys[i] \in Paths
    BY <1>1, <1>4, PositionsFinite
  <2> QED
    BY <1>4, <2>1, PickPicks
<1>6. Range(r.keys) \subseteq Range(c.keys)
  BY <1>4, <1>5 DEF Range
<1>7. Tidy(r)
  BY <1>3, <1>6 DEF Tidy, NoGhosts, Indexed
<1> QED
  BY <1>7 DEF r

LEMMA InsertTidy ==
  ASSUME NEW c, IsArchive(c), Tidy(c), NEW m, IsEntryMap(m),
         DOMAIN m \intersect (Removable \union Skipped) = {}
  PROVE  Tidy(Insert(c, m))
<1>1. Range(Insert(c, m).keys) = Range(c.keys) \union DOMAIN m
  BY InsertInserts
<1>2. Once(Insert(c, m).keys, Removable)
  BY InsertOnce DEF Tidy, IsEntryMap
<1>3. DOMAIN Insert(c, m).entries = DOMAIN m \union DOMAIN c.entries
  BY DEF Insert, Overlay
<1> QED
  BY <1>1, <1>2, <1>3 DEF Tidy

LEMMA AddTidy ==
  ASSUME NEW c, IsArchive(c), Tidy(c), NEW p \in Paths, NEW e \in Entries,
         p \notin Removable \union Skipped
  PROVE  Tidy(addEntry(c, p, e))
<1>1. IsEntryMap([q \in {p} |-> e])
  BY DEF IsEntryMap
<1> QED
  BY <1>1, InsertTidy DEF addEntry

LEMMA MvTidy ==
  ASSUME NEW c, IsArchive(c), Tidy(c), NEW from, NEW to \in Paths,
         to \notin Removable \union Skipped
  PROVE  Tidy(Mv(c, from, to))
<1> DEFINE I == {i \in DOMAIN c.keys : c.keys[i] # from}
           k == Pick(c.keys, I)
           r == [entries |-> Without(c.entries, {from}), keys |-> k]
<1>1. c.keys \in Seq(Paths) /\ \A i \in DOMAIN c.keys : c.keys[i] \in Paths
  BY DEF IsArchive
<1>2. k \in Seq(Paths) /\ Range(k) = {c.keys[i] : i \in I}
  <2>1. IsFiniteSet(I) /\ I \subseteq Int
    BY <1>1, PositionsFinite
  <2> QED
    BY <1>1, <2>1, PickPicks
<1>3. DOMAIN r.entries = DOMAIN c.entries \ {from} /\ IsEntryMap(r.entries)
  BY DEF Without, Restrict, IsArchive, IsEntryMap
<1>4. Once(k, Removable)
  BY <1>1, PickOnce DEF Tidy
<1>5. Range(k) = Range(c.keys) \ {from}
  BY <1>2 DEF Range
<1>6. r = [entries |-> r.entries, keys |-> r.keys] /\ r.keys = k
  OBVIOUS
<1>7. Mv(c, from, to) = addEntry(r, to, Lookup(c, from))
  BY DEF Mv
<1> HIDE DEF k, r, I
<1>8. IsArchive(r) /\ Tidy(r)
  BY <1>2, <1>3, <1>4, <1>5, <1>6 DEF IsArchive, Tidy
<1> QED
  BY <1>7, <1>8, LookupTyped, AddTidy

-----------------------------------------------------------------------------
(* Refinement: each step of a plain session is a step of Ramdisk.          *)

\* The operations on Entries are those of Ramdisk.
LEMMA MapsAgree ==
  ASSUME NEW c
  PROVE  /\ \A S : removeEntries(c, S).entries =
                     R!Minus(c.entries, S \intersect DOMAIN c.entries)
         /\ \A p, e : addEntry(c, p, e).entries = R!With(c.entries, p, e)
         /\ \A m, n : Mv(c, m, n).entries =
                        R!With(R!Minus(c.entries, {m}), n, R!At(c.entries, m))
<1>1. \A p, e, d : addEntry(d, p, e).entries = R!With(d.entries, p, e)
  BY DEF addEntry, Insert, Overlay, R!With
<1>2. \A S : removeEntries(c, S).entries =
               R!Minus(c.entries, S \intersect DOMAIN c.entries)
  BY DEF removeEntries, Without, Restrict, R!Minus
<1>3. \A m : Without(c.entries, {m}) = R!Minus(c.entries, {m})
  BY DEF Without, Restrict, R!Minus
<1>4. \A m : Lookup(c, m) = R!At(c.entries, m)
  BY DEF Lookup, R!At
<1>5. \A m, n : Mv(c, m, n).entries =
                  R!With(R!Minus(c.entries, {m}), n, R!At(c.entries, m))
  <2> SUFFICES ASSUME NEW m, NEW n
               PROVE  Mv(c, m, n).entries =
                        R!With(R!Minus(c.entries, {m}), n, R!At(c.entries, m))
    OBVIOUS
  <2> DEFINE r == [entries |-> Without(c.entries, {m}),
                   keys    |-> Pick(c.keys, {i \in DOMAIN c.keys : c.keys[i] # m})]
  <2>1. Mv(c, m, n) = addEntry(r, n, Lookup(c, m))
    BY DEF Mv
  <2>2. r.entries = R!Minus(c.entries, {m})
    BY <1>3
  <2> HIDE DEF r
  <2> QED
    BY <1>1, <1>4, <2>1, <2>2
<1> QED
  BY <1>1, <1>2, <1>5

\* A command that goes on edits the working copy only.
LEMMA ContinueEdits ==
  ASSUME PlainInv, pc = "run", NEW c, Tidy(c), Continue(c)
  PROVE  PlainInv' /\ R!Edit(c.entries)
<1>1. cpio' = c /\ UNCHANGED <<disk, pc, full, status>>
  BY DEF Continue
<1>2. PlainInv'
  BY <1>1 DEF PlainInv
<1>3. R!Edit(c.entries)
  BY <1>1 DEF R!Edit
<1> QED
  BY <1>2, <1>3

\* A run that ends other than by a completed Dump loses its copy.
LEMMA ExitLoses ==
  ASSUME PlainInv, pc # "idle", NEW how, how # "dumped", Exit(how),
         Contents(disk') = Contents(disk),
         disk' # NoFile => Tidy(LoadFromData(disk'))
  PROVE  PlainInv' /\ R!Lose
<1>1. pc' = "idle" /\ cpio' = NewCpio /\ full' = FALSE /\ status' = how
  BY DEF Exit
<1>2. PlainInv'
  BY <1>1, EmptyContents DEF PlainInv
<1>3. cpio'.entries = R!None
  BY <1>1 DEF NewCpio, EmptyMap, R!None
<1>4. R!Lose
  BY <1>1, <1>3 DEF R!Lose, R!Close
<1> QED
  BY <1>2, <1>4

\* What PlainSessions says of one command.
LEMMA PlainCommand ==
  ASSUME PlainSessions, NEW cmd \in Commands
  PROVE  /\ cmd.verb \notin {"backup", "restore"}
         /\ cmd.verb \in {"mkdir", "ln", "add"} =>
              cmd.path \in Paths /\ cmd.path \notin Removable \union Skipped
         /\ cmd.verb = "mv" =>
              /\ cmd.path \in Paths /\ cmd.to \in Paths
              /\ cmd.to \notin Removable \union Skipped
         /\ cmd.verb = "rm" =>
              {cmd.path} \union (IF cmd.recursive THEN Below(cmd.path) ELSE {})
                \subseteq Removable
         /\ cmd.verb = "patch" /\ ~cmd.keepVerity => VerityKey \in Removable
<1>1. cmd.verb \in {"mkdir", "ln", "add"} => cmd.path \in Targets
  BY DEF Targets
<1>2. cmd.verb = "mv" => cmd.to \in Targets
  BY DEF Targets
<1>3. Targets \intersect (Removable \union Skipped) = {}
  BY DEF PlainSessions, Skipped
<1>4. cmd.verb = "mv" => cmd.path \in Paths /\ cmd.to \in Paths
  <2>1. cmd \in Cmds
    BY CpioAssumption
  <2> QED
    BY <2>1 DEF Cmds
<1>5. cmd.verb = "rm" =>
        {cmd.path} \union (IF cmd.recursive THEN Below(cmd.path) ELSE {})
          \subseteq Removable
  <2>1. cmd.verb = "rm" => cmd.path \in Paths
    <3>1. cmd \in Cmds
      BY CpioAssumption
    <3> QED
      BY <3>1 DEF Cmds
  <2>2. Below(cmd.path) \subseteq Paths
    BY DEF Below
  <2> QED
    BY <2>1, <2>2 DEF Removable
<1>6. cmd.verb = "patch" /\ ~cmd.keepVerity => VerityKey \in Removable
  BY DEF Removable
<1>7. cmd.verb \in {"mkdir", "ln", "add"} => cmd.path \in Paths
  BY CommandTyped
<1> QED
  BY <1>1, <1>2, <1>3, <1>4, <1>5, <1>6, <1>7 DEF PlainSessions

\* Every command is an edit of the map, nothing, or the loss of it.
LEMMA CommandRefines ==
  ASSUME PlainSessions, IInv, PlainInv, Command
  PROVE  PlainInv' /\ (R!RNext \/ UNCHANGED R!rvars)
<1> DEFINE Mapped == PlainInv' /\ (R!RNext \/ UNCHANGED R!rvars)
<1>1. /\ pc = "run" /\ IsArchive(cpio) /\ Tidy(cpio)
      /\ disk # NoFile => Tidy(LoadFromData(disk))
  BY DEF Command, PlainInv, IInv, TypeOK
<1>2. ASSUME NEW how, how # "dumped", Abort(how) PROVE Mapped
  <2>1. disk' = disk /\ Exit(how)
    BY <1>2 DEF Abort
  <2>2. PlainInv' /\ R!Lose
    BY <1>1, <1>2, <2>1, ExitLoses
  <2> QED
    BY <2>2 DEF R!RNext
<1>3. ASSUME Continue(cpio) PROVE Mapped
  <2>1. PlainInv'
    BY <1>1, <1>3, ContinueEdits
  <2>2. UNCHANGED R!rvars
    BY <1>3 DEF Continue, R!rvars
  <2> QED
    BY <2>1, <2>2
<1>4. ASSUME NEW S \in SUBSET Removable, Continue(removeEntries(cpio, S))
      PROVE  Mapped
  <2> DEFINE T == S \intersect DOMAIN cpio.entries
  <2>1. PlainInv' /\ R!Edit(removeEntries(cpio, S).entries)
    BY <1>1, <1>4, RemoveTidy, ContinueEdits
  <2>2. R!Edit(R!Minus(cpio.entries, T)) /\ T \in SUBSET DOMAIN cpio.entries
    BY <2>1, MapsAgree
  <2>3. R!Remove
    BY <2>2 DEF R!Remove
  <2> QED
    BY <2>1, <2>3 DEF R!RNext
<1>5. ASSUME NEW p \in Paths, p \notin Removable \union Skipped,
             NEW e \in Entries, e \in Brought, Continue(addEntry(cpio, p, e))
      PROVE  Mapped
  <2>1. PlainInv' /\ R!Edit(addEntry(cpio, p, e).entries)
    BY <1>1, <1>5, AddTidy, ContinueEdits
  <2>2. R!Edit(R!With(cpio.entries, p, e))
    BY <2>1, MapsAgree
  <2>3. R!Put
    BY <1>5, <2>2 DEF R!Put
  <2> QED
    BY <2>1, <2>3 DEF R!RNext
<1>6. PICK cmd \in Commands :
        \/ CmdRm(cmd) \/ CmdMkdir(cmd) \/ CmdLn(cmd) \/ CmdMv(cmd)
        \/ CmdAdd(cmd) \/ CmdExtract(cmd) \/ CmdPatch(cmd)
        \/ CmdRestore(cmd) \/ CmdTest(cmd) \/ CmdExists(cmd) \/ CmdLs(cmd)
        \/ CmdIgnored(cmd) \/ CmdMalformed(cmd) \/ CmdBackup(cmd)
  BY DEF Command
<1>7. CASE CmdRm(cmd)
  BY <1>4, <1>7, PlainCommand DEF CmdRm, Rm
<1>8. CASE CmdMkdir(cmd)
  <2>1. DirEntry \in Entries /\ DirEntry \in Brought
    BY EntriesTyped DEF Brought
  <2> QED
    BY <1>5, <1>8, <2>1, PlainCommand DEF CmdMkdir
<1>9. CASE CmdLn(cmd)
  <2>1. cmd.target \in Texts /\ cmd.verb = "ln"
    BY <1>9, CommandTyped DEF CmdLn
  <2>2. SymLink(cmd.target) \in Entries /\ SymLink(cmd.target) \in Brought
    BY <2>1, EntriesTyped DEF Brought
  <2> QED
    BY <1>5, <1>9, <2>1, <2>2, PlainCommand DEF CmdLn
<1>10. CASE CmdMv(cmd)
  <2>1. /\ cmd.path \in Paths /\ cmd.to \in Paths
        /\ cmd.to \notin Removable \union Skipped
        /\ Continue(Mv(cpio, cmd.path, cmd.to))
    BY <1>10, PlainCommand DEF CmdMv
  <2>2. PlainInv' /\ R!Edit(Mv(cpio, cmd.path, cmd.to).entries)
    BY <1>1, <2>1, MvTidy, ContinueEdits
  <2>3. R!Edit(R!With(R!Minus(cpio.entries, {cmd.path}), cmd.to,
                      R!At(cpio.entries, cmd.path)))
    BY <2>2, MapsAgree
  <2>4. R!Rename
    BY <2>1, <2>3 DEF R!Rename
  <2> QED
    BY <2>2, <2>4 DEF R!RNext
<1>11. CASE CmdAdd(cmd)
  <2>1. CASE Abort("fatal")
    BY <1>2, <2>1
  <2>2. CASE ~Abort("fatal")
    <3> DEFINE e == Added(cmd.infile.kind, cmd.infile.data)
    <3>1. cmd.verb = "add" /\ Continue(addEntry(cpio, cmd.path, e))
      BY <1>11, <2>2 DEF CmdAdd
    <3>2. cmd.infile.data \in Payloads
      BY <3>1, CommandTyped DEF InFiles
    <3>3. e \in Entries
      BY <3>2, EntriesTyped DEF Added, Entries, Kinds
    <3>4. e \in Brought
      BY <3>1 DEF Brought
    <3>5. cmd.path \in Paths /\ cmd.path \notin Removable \union Skipped
      BY <3>1, PlainCommand
    <3> HIDE DEF e
    <3> QED
      BY <1>5, <3>1, <3>3, <3>4, <3>5
  <2> QED
    BY <2>1, <2>2
<1>12. CASE CmdExtract(cmd)
  BY <1>2, <1>3, <1>12 DEF CmdExtract
<1>13. CASE CmdPatch(cmd)
  <2>1. CASE Abort("panic")
    BY <1>2, <2>1
  <2>2. CASE ~Abort("panic")
    <3>1. cmd.verb = "patch" /\ Continue(Patch(cpio, cmd.keepVerity))
      BY <1>13, <2>2 DEF CmdPatch
    <3>2. CASE ~cmd.keepVerity /\ VerityKey \in Range(cpio.keys)
      <4>1. Patch(cpio, cmd.keepVerity) = removeEntries(cpio, {VerityKey})
        BY <3>2 DEF Patch, Rm
      <4>2. {VerityKey} \in SUBSET Removable
        BY <3>1, <3>2, PlainCommand
      <4> QED
        BY <1>4, <3>1, <4>1, <4>2
    <3>3. CASE ~(~cmd.keepVerity /\ VerityKey \in Range(cpio.keys))
      BY <1>3, <3>1, <3>3 DEF Patch
    <3> QED
      BY <3>2, <3>3
  <2> QED
    BY <2>1, <2>2
<1>14. CASE CmdTest(cmd) \/ CmdExists(cmd) \/ CmdLs(cmd)
  BY <1>2, <1>14 DEF CmdTest, CmdExists, CmdLs, Test
<1>15. CASE CmdIgnored(cmd)
  BY <1>3, <1>15 DEF CmdIgnored
<1>16. CASE CmdMalformed(cmd)
  <2>1. cmd.exit # "dumped" /\ Abort(cmd.exit)
    BY <1>16, CommandTyped DEF CmdMalformed
  <2> QED
    BY <1>2, <2>1
<1>17. ~CmdRestore(cmd) /\ ~CmdBackup(cmd)
  BY PlainCommand DEF CmdRestore, CmdBackup
<1> QED
  BY <1>6, <1>7, <1>8, <1>9, <1>10, <1>11, <1>12, <1>13, <1>14, <1>15, <1>16, <1>17

\* A file that Dump writes stands for the first keys of the map.
LEMMA DumpStored ==
  ASSUME NEW c, IsArchive(c), Tidy(c), NEW items, NEW n, DumpFile(items, c, n)
  PROVE  /\ Contents(items) = [p \in {c.keys[i] : i \in 1..n} |-> c.entries[p]]
         /\ items # NoFile /\ Tidy(LoadFromData(items))
<1>1. items # NoFile
  BY CpioAssumption DEF DumpFile
<1>2. Contents(items) = LoadFromData(items).entries
  BY <1>1 DEF Contents
<1>3. {c.keys[i] : i \in 1..n} \subseteq DOMAIN c.entries
  <2>1. c.keys \in Seq(Paths) /\ n \in Nat /\ n <= Len(c.keys) /\ Len(c.keys) \in Nat
    BY DEF IsArchive, DumpFile
  <2>2. \A i \in 1..n : c.keys[i] \in Range(c.keys)
    BY <2>1 DEF Range
  <2> QED
    BY <2>2 DEF Tidy
<1>4. \A p \in {c.keys[i] : i \in 1..n} : Lookup(c, p) = c.entries[p]
  BY <1>3 DEF Lookup
<1> QED
  BY <1>1, <1>2, <1>4, DumpContents

\* Dump stores the copy entry by entry, and succeeds when all of it is stored.
LEMMA DumpRefines ==
  ASSUME PlainSessions, IInv, PlainInv, WriteInv, Next, pc = "dump"
  PROVE  PlainInv' /\ R!RNext
<1> DEFINE n == Len(cpio.keys)
           First(k) == {cpio.keys[i] : i \in 1..k}
<1>1. /\ IsArchive(cpio) /\ Tidy(cpio) /\ ~Faults /\ ~full
      /\ cpio.keys \in Seq(Paths) /\ n \in Nat /\ cursor \in Nat /\ cursor # 0
      /\ cursor <= n + 1
  BY DEF IInv, TypeOK, IsArchive, PlainInv, PlainSessions, WriteInv
<1>2. /\ DumpFile(disk, cpio, cursor - 1) /\ Len(disk) = cursor - 1
  BY <1>1 DEF WriteInv, Written
<1>3. Contents(disk) = [p \in First(cursor - 1) |-> cpio.entries[p]]
      /\ disk # NoFile /\ Tidy(LoadFromData(disk))
  BY <1>1, <1>2, DumpStored
<1>4. \A k \in DOMAIN cpio.keys : cpio.keys[k] \in DOMAIN cpio.entries
  BY <1>1 DEF Tidy, Range
<1>5. CASE DumpEntry
  <2> DEFINE p == cpio.keys[cursor]
  <2>1. /\ ~full /\ cursor <= n /\ cursor' = cursor + 1
        /\ UNCHANGED <<pc, cpio, full, status>>
    BY <1>5 DEF DumpEntry, Dumping
  <2>2. WriteInv'
    BY DumpSteps
  <2>3. DumpFile(disk', cpio, cursor)
    BY <1>1, <2>1, <2>2 DEF WriteInv, Written
  <2>4. Contents(disk') = [q \in First(cursor) |-> cpio.entries[q]]
        /\ disk' # NoFile /\ Tidy(LoadFromData(disk'))
    BY <1>1, <2>3, DumpStored
  <2>5. p \in DOMAIN cpio.entries
    BY <1>1, <1>4, <2>1
  <2>6. First(cursor) = First(cursor - 1) \union {p}
    <3>1. \A i \in 1..cursor : i \in 1..(cursor - 1) \/ i = cursor
      BY <1>1
    <3>2. \A i \in 1..(cursor - 1) : i \in 1..cursor
      BY <1>1
    <3>3. cursor \in 1..cursor
      BY <1>1
    <3> QED
      BY <3>1, <3>2, <3>3
  <2> HIDE DEF First, p
  <2>7. Contents(disk') = R!With(Contents(disk), p, cpio.entries[p])
    BY <1>3, <2>4, <2>6 DEF R!With
  <2>8. R!Write
    BY <1>5, <2>1, <2>5, <2>7 DEF R!Write
  <2>9. PlainInv'
    BY <2>1, <2>4 DEF PlainInv
  <2> QED
    BY <2>8, <2>9 DEF R!RNext
<1>6. CASE DumpTrailer
  <2>1. /\ disk' = Append(disk, EntryItem(Trailer, Zero)) /\ cursor > n
        /\ Exit("dumped")
    BY <1>6 DEF DumpTrailer, DumpDone
  <2>2. cursor - 1 = n
    BY <1>1, <2>1
  <2>3. DumpFile(disk', cpio, n)
    BY <1>2, <2>1, <2>2, AppendsEnd
  <2>4. Contents(disk') = [q \in First(n) |-> cpio.entries[q]]
        /\ disk' # NoFile /\ Tidy(LoadFromData(disk'))
    BY <1>1, <2>3, DumpStored
  <2>5. First(n) = DOMAIN cpio.entries
    BY <1>1 DEF Tidy, Range
  <2>6. cpio.entries = [q \in DOMAIN cpio.entries |-> cpio.entries[q]]
    BY <1>1 DEF IsArchive, IsEntryMap
  <2> HIDE DEF First, n
  <2>7. Contents(disk) = cpio.entries /\ Contents(disk') = Contents(disk)
    BY <1>3, <2>2, <2>4, <2>5, <2>6
  <2>8. pc' = "idle" /\ cpio' = NewCpio /\ full' = FALSE /\ status' = "dumped"
    BY <2>1 DEF Exit
  <2>9. PlainInv'
    BY <2>4, <2>8, EmptyContents DEF PlainInv
  <2>10. cpio'.entries = R!None
    BY <2>8 DEF NewCpio, EmptyMap, R!None
  <2>11. R!Finish
    BY <2>7, <2>8, <2>10 DEF R!Finish, R!Close
  <2> QED
    BY <2>9, <2>11 DEF R!RNext
<1>7. CASE Crash
  <2>1. Exit("killed") /\ (disk' = disk \/ disk' = Append(disk, Torn))
    BY <1>7 DEF Crash
  <2>2. DumpFile(disk', cpio, cursor - 1)
    BY <1>2, <2>1, AppendsEnd
  <2>3. Contents(disk') = [q \in First(cursor - 1) |-> cpio.entries[q]]
        /\ disk' # NoFile /\ Tidy(LoadFromData(disk'))
    BY <1>1, <2>2, DumpStored
  <2>4. Contents(disk') = Contents(disk)
    BY <1>3, <2>3
  <2> QED
    BY <2>1, <2>3, <2>4, ExitLoses DEF R!RNext
<1>8. ~Start /\ ~Command /\ ~MergeStep /\ ~MergeEnd /\ ~BeginDump
  BY DEF Start, Command, MergeStep, MergeEnd, BeginDump
<1>9. ~DumpHeaderFails /\ ~DumpBodyFails /\ ~DumpTrailerFails
  BY <1>1 DEF DumpHeaderFails, DumpBodyFails, DumpTrailerFails
<1> QED
  BY <1>5, <1>6, <1>7, <1>8, <1>9 DEF Next, Process, Dump

\* A session opens the stored map, or does not read it at all.
LEMMA StartRefines ==
  ASSUME IInv, PlainInv, Start
  PROVE  PlainInv' /\ R!RNext
<1>1. pc = "idle" /\ disk' = disk /\ full' = full
  BY DEF Start
<1>2. CASE status' \in {"fatal", "panic"} /\ UNCHANGED <<pc, cpio>>
  <2>1. PlainInv'
    BY <1>1, <1>2 DEF PlainInv
  <2>2. R!Reject
    BY <1>1, <1>2 DEF R!Reject
  <2> QED
    BY <2>1, <2>2 DEF R!RNext
<1>3. CASE /\ disk = NoFile \/ Loads(disk)
           /\ pc' = "run" /\ status' = "none"
           /\ cpio' = IF disk = NoFile THEN NewCpio ELSE LoadFromData(disk)
  <2>1. cpio'.entries = Contents(disk)
    BY <1>3 DEF Contents, NewCpio
  <2>2. Tidy(cpio')
    BY <1>3, EmptyContents DEF PlainInv
  <2>3. PlainInv'
    BY <1>1, <1>3, <2>2 DEF PlainInv
  <2>4. R!Open
    BY <1>1, <1>3, <2>1 DEF R!Open
  <2> QED
    BY <2>3, <2>4 DEF R!RNext
<1> QED
  BY <1>2, <1>3 DEF Start

\* Dump begins by emptying what is stored.
LEMMA BeginRefines ==
  ASSUME PlainSessions, PlainInv, BeginDump
  PROVE  PlainInv' /\ R!RNext
<1>1. /\ pc = "run" /\ pc' = "dump" /\ disk' = <<>>
      /\ UNCHANGED <<cpio, full, status>>
  BY DEF BeginDump, PlainSessions
<1>2. Contents(<<>>) = R!None
  BY EmptyContents DEF Contents, EmptyMap, R!None
<1>3. R!Save
  BY <1>1, <1>2 DEF R!Save
<1>4. PlainInv'
  BY <1>1, EmptyContents DEF PlainInv
<1> QED
  BY <1>3, <1>4 DEF R!RNext

LEMMA NextRefines ==
  ASSUME PlainSessions, IInv, PlainInv, WriteInv, [Next]_vars
  PROVE  PlainInv' /\ [R!RNext]_(R!rvars)
<1>1. CASE Start
  BY <1>1, StartRefines
<1>2. CASE Command
  BY <1>2, CommandRefines
<1>3. CASE Next /\ pc = "dump"
  BY <1>3, DumpRefines
<1>4. CASE BeginDump
  BY <1>4, BeginRefines
<1>5. CASE Crash /\ pc # "dump"
  <2>1. disk' = disk /\ Exit("killed") /\ pc # "idle"
    BY <1>5 DEF Crash
  <2>2. PlainInv' /\ R!Lose
    BY <2>1, ExitLoses DEF PlainInv
  <2> QED
    BY <2>2 DEF R!RNext
<1>6. CASE UNCHANGED vars
  BY <1>6 DEF vars, PlainInv, R!rvars
<1>7. ~MergeStep /\ ~MergeEnd
  BY DEF PlainInv, MergeStep, MergeEnd
<1>8. pc # "dump" => ~Dumping /\ ~DumpDone
  BY DEF Dumping, DumpDone
<1> QED
  BY <1>1, <1>2, <1>3, <1>4, <1>5, <1>6, <1>7, <1>8 DEF Next, Process, Dump,
     DumpEntry, DumpHeaderFails, DumpBodyFails, DumpTrailer, DumpTrailerFails

LEMMA InitPlain ==
  ASSUME PlainSessions, Init
  PROVE  PlainInv /\ R!RInit
<1>1. disk \in Images /\ pc = "idle" /\ cpio = NewCpio /\ ~full /\ status = "none"
  BY DEF Init
<1>2. disk # NoFile => Tidy(LoadFromData(disk))
  <2> SUFFICES ASSUME disk # NoFile PROVE Tidy(LoadFromData(disk))
    OBVIOUS
  <2>1. disk \in Seq(Items)
    BY <1>1, CpioAssumption
  <2>2. Once(LoadFromData(disk).keys, Removable)
    BY <1>1 DEF PlainSessions
  <2> QED
    BY <2>1, <2>2, LoadLoads DEF Tidy, Skipped
<1>3. PlainInv
  BY <1>1, <1>2, EmptyContents DEF PlainInv
<1>4. cpio.entries = R!None
  BY <1>1 DEF NewCpio, EmptyMap, R!None
<1>5. R!RInit
  BY <1>1, <1>4 DEF R!RInit
<1> QED
  BY <1>3, <1>5

\* In plain sessions, killed at any step, the tool is an editor of one map: a
\* session either stores its copy completely and exits 0, or leaves what was
\* stored, or (killed while Dump writes) a part of its copy and no wrong entry.
THEOREM SessionsRefine ==
  ASSUME PlainSessions
  PROVE  Spec => RefinesRamdisk
<1>1. Init => PlainInv /\ R!RInit
  BY InitPlain
<1>2. IInv /\ WriteInv /\ PlainInv /\ [Next]_vars => PlainInv' /\ [R!RNext]_(R!rvars)
  BY NextRefines
<1> QED
  BY <1>1, <1>2, AlwaysWriteInv, PTL DEF Spec, RefinesRamdisk, R!RSpec

-----------------------------------------------------------------------------
(* Restore.                                                                *)

\* What a member's name says it is the member of.
NameBack(q) == IF EndsInXz(q) THEN Tail(Stem(q)) ELSE Tail(q)

Coated(o, xz, p) == xz /\ o[p].kind = "reg"

\* The entries of o that r lacks or changed, and the names that only r has.
Lost(o, r) == {p \in DOMAIN o : p \in DOMAIN r => r[p].data # o[p].data}
Fresh(o, r) == DOMAIN r \ DOMAIN o

MemberOf(o, xz, p) == Member(p, Coated(o, xz, p))

\* The member of an entry, as it is found in the archive.
Stored(o, xz, p) ==
  IF Coated(o, xz, p) THEN [o[p] EXCEPT !.data.coats = Append(@, "whole")] ELSE o[p]

\* Each name has a member, which says of what.
LEMMA MemberNamed ==
  ASSUME NEW o, Restorable(o), NEW xz \in BOOLEAN, NEW p \in DOMAIN o
  PROVE  /\ MemberOf(o, xz, p) \in Members
         /\ NameBack(MemberOf(o, xz, p)) = p
         /\ EndsInXz(MemberOf(o, xz, p)) <=> Coated(o, xz, p)
<1> DEFINE q == MemberOf(o, xz, p)
<1>1. /\ ~EndsInXz(p) /\ BackupDir \o p \in Members
      /\ o[p].kind = "reg" => \E m \in Members : EndsInXz(m) /\ Tail(Stem(m)) = p
  BY DEF Restorable
<1>2. CASE Coated(o, xz, p)
  <2>1. q = CHOOSE m \in Members : EndsInXz(m) /\ Tail(Stem(m)) = p
    BY <1>2 DEF MemberOf, Member
  <2>2. q \in Members /\ EndsInXz(q) /\ Tail(Stem(q)) = p
    BY <1>1, <1>2, <2>1 DEF Coated
  <2> QED
    BY <1>2, <2>2 DEF NameBack
<1>3. CASE ~Coated(o, xz, p)
  <2>1. q = CHOOSE m \in Members : m = BackupDir \o p
    BY <1>3 DEF MemberOf, Member
  <2>2. q = BackupDir \o p /\ q \in Members
    BY <1>1, <2>1
  <2>3. p \in Seq(STRING) /\ p # <<>>
    <3>1. p \in Paths
      BY DEF Restorable, IsEntryMap
    <3>2. p \in Seq(STRING)
      BY <3>1, PathsAssumption DEF Paths, Range
    <3>3. p # <<>>
      <4> SUFFICES ASSUME p = <<>>
                   PROVE  FALSE
        OBVIOUS
      <4>1. BackupDir \o p = BackupDir
        BY DEF BackupDir
      <4> QED
        BY <1>1, <4>1 DEF Members, Below, IsStrictPrefix, BackupDir
    <3> QED
      BY <3>2, <3>3
  <2>4. Tail(q) = p /\ q # <<>> /\ q[Len(q)] = p[Len(p)]
    BY <2>2, <2>3 DEF BackupDir
  <2>5. ~EndsInXz(q)
    BY <1>1, <2>3, <2>4 DEF EndsInXz
  <2> QED
    BY <1>3, <2>2, <2>4, <2>5 DEF NameBack
<1> QED
  BY <1>2, <1>3

\* The last of a sequence can be taken off again.
LEMMA AppendOff ==
  ASSUME NEW T, NEW s \in Seq(T), NEW a \in T
  PROVE  LET t == Append(s, a) IN
         /\ t \in Seq(T) /\ t # <<>> /\ t[Len(t)] = a
         /\ SubSeq(t, 1, Len(t) - 1) = s
<1> DEFINE t == Append(s, a)
           u == SubSeq(t, 1, Len(s))
<1>1. t \in Seq(T) /\ Len(t) = Len(s) + 1 /\ Len(s) \in Nat /\ t[Len(s) + 1] = a
  OBVIOUS
<1>2. \A i \in 1 .. Len(s) : t[i] = s[i]
  OBVIOUS
<1> HIDE DEF t
<1>3. u \in Seq(T) /\ Len(u) = Len(s) /\ \A i \in 1 .. Len(s) : u[i] = t[i]
  BY <1>1
<1> HIDE DEF u
<1>4. u = s
  BY <1>2, <1>3
<1>5. Len(t) - 1 = Len(s) /\ t # <<>>
  BY <1>1
<1> QED
  BY <1>1, <1>4, <1>5 DEF t, u

\* A whole coat comes off.
LEMMA CoatComesOff ==
  ASSUME NEW e \in Entries, e.kind = "reg"
  PROVE  LET f == [e EXCEPT !.data.coats = Append(@, "whole")] IN
         f \in Entries /\ Decompresses(f) /\ Decompress(f) = e
<1> DEFINE s == e.data.coats
           t == Append(s, "whole")
           d == [e.data EXCEPT !.coats = t]
           f == [e EXCEPT !.data = d]
<1>1. /\ e = [kind |-> e.kind, data |-> e.data] /\ e.kind \in Kinds
      /\ e.data = [base |-> e.data.base, coats |-> e.data.coats]
      /\ e.data.base \in Bases /\ s \in Seq({"whole", "cut"})
  BY DEF Entries, Payloads
<1>2. t \in Seq({"whole", "cut"}) /\ t # <<>> /\ t[Len(t)] = "whole"
      /\ SubSeq(t, 1, Len(t) - 1) = s
  BY <1>1, AppendOff
<1> HIDE DEF t
<1>3. d = [base |-> e.data.base, coats |-> t]
  BY <1>1
<1>4. f = [kind |-> e.kind, data |-> d]
  BY <1>1
<1>5. f \in Entries
  BY <1>1, <1>2, <1>3, <1>4 DEF Entries, Payloads
<1>6. Decompresses(f)
  BY <1>2, <1>3, <1>4 DEF Decompresses
<1>7. Decompress(f) = e
  <2>1. Decompress(f) = [f EXCEPT !.data = [f.data EXCEPT !.coats = s]]
    BY <1>2, <1>3, <1>4, <1>6 DEF Decompress
  <2>2. [f.data EXCEPT !.coats = s] = e.data
    BY <1>1, <1>3, <1>4
  <2> QED
    BY <1>1, <1>4, <2>1, <2>2
<1>8. [e EXCEPT !.data.coats = Append(@, "whole")] = f
  BY DEF t
<1> QED
  BY <1>5, <1>6, <1>7, <1>8

\* What Insert puts on top of a map.
LEMMA OverlayIs ==
  ASSUME NEW m, NEW n
  PROVE  /\ DOMAIN Overlay(m, n) = DOMAIN m \union DOMAIN n
         /\ \A p \in DOMAIN m : Overlay(m, n)[p] = m[p]
         /\ \A p \in DOMAIN n \ DOMAIN m : Overlay(m, n)[p] = n[p]
BY DEF Overlay

LEMMA OverlayTyped ==
  ASSUME NEW m, IsEntryMap(m), NEW n, IsEntryMap(n)
  PROVE  IsEntryMap(Overlay(m, n))
BY DEF Overlay, IsEntryMap

LEMMA OverlayLays ==
  ASSUME NEW m, IsEntryMap(m), NEW n, IsEntryMap(n)
  PROVE  /\ IsEntryMap(Overlay(m, n)) /\ DOMAIN Overlay(m, n) = DOMAIN m \union DOMAIN n
         /\ \A p \in DOMAIN m : Overlay(m, n)[p] = m[p]
         /\ \A p \in DOMAIN n \ DOMAIN m : Overlay(m, n)[p] = n[p]
BY OverlayIs, OverlayTyped

\* The names of a backup itself.
LEMMA HiddenNames ==
  /\ BackupDir \notin Members /\ RmListName \notin Members /\ MagiskName \notin Members
  /\ BackupDir \in Hidden /\ RmListName \in Hidden /\ Members \subseteq Hidden
  /\ MagiskName \in Paths => MagiskName \in Hidden
  /\ BackupDir # RmListName /\ MagiskName # BackupDir /\ MagiskName # RmListName
  /\ Members \subseteq Paths /\ BackupDir \in Paths /\ RmListName \in Paths
<1>1. BackupDir \notin Below(BackupDir)
  BY DEF Below, IsStrictPrefix
<1>2. \A a : LET t == <<".backup", a>> IN IsStrictPrefix(BackupDir, t)
  <2> TAKE a
  <2> DEFINE t == <<".backup", a>>
  <2>1. Len(BackupDir) = 1 /\ Len(t) = 2 /\ BackupDir # t
    BY DEF BackupDir
  <2>2. ASSUME NEW s, s[1] = ".backup"
        PROVE  SubSeq(s, 1, 1) = <<".backup">>
    <3> DEFINE u == SubSeq(s, 1, 1)
    <3>1. /\ u \in Seq({".backup"}) /\ Len(u) = 1
          /\ \A i \in 1 .. 1 : u[i] = s[i]
      BY <2>2, SubSeqProperties
    <3>2. \A i \in 1 .. 1 : i = 1
      OBVIOUS
    <3> HIDE DEF u
    <3>3. u[1] = ".backup"
      BY <2>2, <3>1
    <3>4. u = <<".backup">>
      BY <3>1, <3>3
    <3> QED
      BY <3>4 DEF u
  <2>3. SubSeq(BackupDir, 1, Len(BackupDir)) = SubSeq(t, 1, Len(BackupDir))
    <3>1. BackupDir[1] = ".backup" /\ t[1] = ".backup"
      BY DEF BackupDir
    <3> QED
      BY <2>1, <2>2, <3>1
  <2> QED
    BY <2>1, <2>3 DEF IsStrictPrefix, IsPrefix
<1>3. RmListName \in Below(BackupDir)
  BY <1>2, PathsAssumption DEF Below, RmListName
<1>4. MagiskName \in Paths => MagiskName \in Below(BackupDir)
  BY <1>2 DEF Below, MagiskName
<1>5. BackupDir # RmListName /\ MagiskName # BackupDir /\ MagiskName # RmListName
  BY DEF BackupDir, RmListName, MagiskName
<1>6. Below(BackupDir) \subseteq Paths
  BY DEF Below
<1> QED
  BY <1>1, <1>3, <1>4, <1>5, <1>6, PathsAssumption DEF Members, Hidden

\* The members of a backup of o in r, as a map.
MembersOf(o, r, xz) ==
  [q \in {MemberOf(o, xz, p) : p \in Lost(o, r)} |->
     LET p == CHOOSE p \in Lost(o, r) : q = MemberOf(o, xz, p)
     IN  IF Coated(o, xz, p)
         THEN [o[p] EXCEPT !.data.coats = Append(@, "whole")]
         ELSE o[p]]

LEMMA MembersAre ==
  ASSUME NEW o, Restorable(o), NEW r, NEW xz \in BOOLEAN
  PROVE  /\ IsEntryMap(MembersOf(o, r, xz)) /\ DOMAIN MembersOf(o, r, xz) \subseteq Members
         /\ DOMAIN MembersOf(o, r, xz) = {MemberOf(o, xz, p) : p \in Lost(o, r)}
         /\ \A p \in Lost(o, r) :
              MembersOf(o, r, xz)[MemberOf(o, xz, p)] = Stored(o, xz, p)
<1> DEFINE mem(p) == MemberOf(o, xz, p)
           M == MembersOf(o, r, xz)
<1>1. Lost(o, r) \subseteq DOMAIN o
  BY DEF Lost
<1>2. \A p \in Lost(o, r) : mem(p) \in Members /\ NameBack(mem(p)) = p
  BY <1>1, MemberNamed
<1> HIDE DEF mem
<1>3. DOMAIN M = {mem(p) : p \in Lost(o, r)}
  BY DEF MembersOf, mem
<1>4. ASSUME NEW p \in Lost(o, r)
      PROVE  M[mem(p)] = Stored(o, xz, p) /\ Stored(o, xz, p) \in Entries
  <2>1. (CHOOSE a \in Lost(o, r) : mem(p) = mem(a)) = p
    BY <1>2
  <2>2. mem(p) \in DOMAIN M
    BY <1>3
  <2>3. M[mem(p)] = Stored(o, xz, p)
    BY <2>1, <2>2 DEF MembersOf, Stored, mem
  <2>4. o[p] \in Entries
    BY <1>1 DEF Restorable, IsEntryMap
  <2>5. Stored(o, xz, p) \in Entries
    BY <2>4, CoatComesOff DEF Stored, Coated
  <2> QED
    BY <2>3, <2>5
<1>5. \A q \in DOMAIN M : M[q] \in Entries /\ q \in Members
  BY <1>2, <1>3, <1>4
<1>6. M = [q \in DOMAIN M |-> M[q]]
  BY DEF MembersOf
<1> HIDE DEF M
<1>7. IsEntryMap(M)
  BY <1>5, <1>6, HiddenNames DEF IsEntryMap
<1> QED
  BY <1>3, <1>4, <1>5, <1>7 DEF M, mem

\* The list of the names that only r has, if there is one.
RmListOf(o, r) ==
  LET new == Restrict(Rank, DOMAIN r \ DOMAIN o)
  IN  [q \in IF new = <<>> THEN {} ELSE {RmListName} |->
         RegEntry(NameList(KeysOf(new)))]

LEMMA RmListIs ==
  ASSUME NEW o, NEW r, IsEntryMap(r)
  PROVE  /\ IsEntryMap(RmListOf(o, r))
         /\ DOMAIN RmListOf(o, r) = IF Fresh(o, r) = {} THEN {} ELSE {RmListName}
         /\ Fresh(o, r) # {} =>
              \E names \in Seq(Paths) \ {<<>>} :
                /\ RmListOf(o, r)[RmListName] = RegEntry(NameList(names))
                /\ Range(names) = Fresh(o, r)
<1> DEFINE new   == Restrict(Rank, DOMAIN r \ DOMAIN o)
           names == KeysOf(new)
           L     == RmListOf(o, r)
<1>1. DOMAIN r \subseteq Paths
  BY DEF IsEntryMap
<1>2. new = [x \in DOMAIN r \ DOMAIN o |-> Rank[x]]
  BY DEF Restrict
<1>3. DOMAIN new = Fresh(o, r) /\ DOMAIN new \subseteq Paths
  BY <1>1, <1>2 DEF Fresh
<1>4. new = <<>> <=> Fresh(o, r) = {}
  <2>1. \A f : f = [x \in {} |-> Rank[x]] => f = <<>>
    OBVIOUS
  <2>2. Fresh(o, r) = {} => new = <<>>
    BY <1>2, <2>1 DEF Fresh
  <2>3. new = <<>> => Fresh(o, r) = {}
    BY <1>3
  <2> QED
    BY <2>2, <2>3
<1>5. names \in Seq(Paths) /\ Range(names) = Fresh(o, r)
  BY <1>3, KeysOfLists
<1> HIDE DEF new
<1>6. L = [q \in IF new = <<>> THEN {} ELSE {RmListName} |-> RegEntry(NameList(names))]
  BY DEF RmListOf, new
<1> HIDE DEF names, L
<1>7. Fresh(o, r) # {} => names # <<>>
  <2> SUFFICES ASSUME names = <<>> PROVE Range(names) = {}
    BY <1>5
  <2> QED
    BY DEF Range
<1>8. Fresh(o, r) # {} => RegEntry(NameList(names)) \in Entries
  BY <1>5, <1>7, EntriesTyped
<1>9. CASE Fresh(o, r) = {}
  <2>1. L = [q \in {} |-> RegEntry(NameList(names))]
    BY <1>4, <1>6, <1>9
  <2> QED
    BY <1>9, <2>1 DEF IsEntryMap, L
<1>10. CASE Fresh(o, r) # {}
  <2>1. L = [q \in {RmListName} |-> RegEntry(NameList(names))]
    BY <1>4, <1>6, <1>10
  <2>2. IsEntryMap(L) /\ DOMAIN L = {RmListName} /\ L[RmListName] = RegEntry(NameList(names))
    BY <1>8, <1>10, <2>1, HiddenNames DEF IsEntryMap
  <2> QED
    BY <1>5, <1>7, <1>10, <2>2 DEF L
<1> QED
  BY <1>9, <1>10

\* Insert lays a map over the entries and lists its names.
LEMMA InsertLays ==
  ASSUME NEW c, IsArchive(c), Range(c.keys) = DOMAIN c.entries,
         NEW m, IsEntryMap(m)
  PROVE  /\ IsArchive(Insert(c, m))
         /\ Range(Insert(c, m).keys) = DOMAIN Insert(c, m).entries
         /\ DOMAIN Insert(c, m).entries = DOMAIN c.entries \union DOMAIN m
         /\ \A p \in DOMAIN m : Insert(c, m).entries[p] = m[p]
         /\ \A p \in DOMAIN c.entries \ DOMAIN m : Insert(c, m).entries[p] = c.entries[p]
<1>1. Insert(c, m).entries = Overlay(m, c.entries)
  BY DEF Insert
<1>2. IsArchive(Insert(c, m)) /\ Range(Insert(c, m).keys) = DOMAIN c.entries \union DOMAIN m
  BY InsertInserts
<1>3. /\ DOMAIN Overlay(m, c.entries) = DOMAIN m \union DOMAIN c.entries
      /\ \A p \in DOMAIN m : Overlay(m, c.entries)[p] = m[p]
      /\ \A p \in DOMAIN c.entries \ DOMAIN m : Overlay(m, c.entries)[p] = c.entries[p]
  BY OverlayIs
<1> QED
  BY <1>1, <1>2, <1>3

\* What a backup of o in r holds, and what its key list names.
IsBackup(c, o, r, xz) ==
  /\ IsArchive(c) /\ Range(c.keys) = DOMAIN c.entries
  /\ DOMAIN c.entries \ Hidden = DOMAIN r
  /\ \A p \in DOMAIN r : c.entries[p] = r[p]
  /\ DOMAIN c.entries \intersect Members = {MemberOf(o, xz, p) : p \in Lost(o, r)}
  /\ \A p \in Lost(o, r) : c.entries[MemberOf(o, xz, p)] = Stored(o, xz, p)
  /\ RmListName \in DOMAIN c.entries <=> Fresh(o, r) # {}
  /\ RmListName \in DOMAIN c.entries =>
       \E names \in Seq(Paths) \ {<<>>} :
         /\ c.entries[RmListName] = RegEntry(NameList(names))
         /\ Range(names) = Fresh(o, r)

LEMMA BackedUpIs ==
  ASSUME NEW o, Restorable(o), NEW r, Restorable(r), NEW xz \in BOOLEAN
  PROVE  IsBackup(BackedUp(o, r, xz), o, r, xz)
<1> DEFINE M == MembersOf(o, r, xz)
           L == RmListOf(o, r)
           D == [q \in {BackupDir} |-> DirEntry]
           H == Overlay(D, L)
           B == Overlay(M, r)
           m == Overlay(H, B)
           c == Insert(NewCpio, m)
<1>1. BackedUp(o, r, xz) = c
  BY DEF BackedUp, MembersOf, RmListOf, MemberOf, Coated, Lost
<1>2. IsEntryMap(r) /\ DOMAIN r \intersect Hidden = {}
  BY DEF Restorable
<1>3. IsEntryMap(D) /\ DOMAIN D = {BackupDir}
  BY HiddenNames, EntriesTyped DEF IsEntryMap
<1>4. /\ IsEntryMap(M) /\ DOMAIN M \subseteq Members
      /\ DOMAIN M = {MemberOf(o, xz, p) : p \in Lost(o, r)}
      /\ \A p \in Lost(o, r) : M[MemberOf(o, xz, p)] = Stored(o, xz, p)
  BY MembersAre
<1>5. /\ IsEntryMap(L)
      /\ DOMAIN L = IF Fresh(o, r) = {} THEN {} ELSE {RmListName}
      /\ Fresh(o, r) # {} =>
           \E names \in Seq(Paths) \ {<<>>} :
             /\ L[RmListName] = RegEntry(NameList(names))
             /\ Range(names) = Fresh(o, r)
  BY <1>2, RmListIs
<1> HIDE DEF D, M, L, H, B, m, c
<1>6. /\ IsEntryMap(H) /\ DOMAIN H = {BackupDir} \union DOMAIN L
      /\ \A q \in DOMAIN L \ {BackupDir} : H[q] = L[q]
  <2>1. IsEntryMap(D) /\ IsEntryMap(L)
    BY <1>3, <1>5
  <2>2. /\ IsEntryMap(H) /\ DOMAIN H = DOMAIN D \union DOMAIN L
        /\ \A q \in DOMAIN L \ DOMAIN D : H[q] = L[q]
    BY <2>1, OverlayLays DEF H
  <2> QED
    BY <1>3, <2>2
<1>7. /\ IsEntryMap(B) /\ DOMAIN B = DOMAIN M \union DOMAIN r
      /\ \A q \in DOMAIN M : B[q] = M[q]
      /\ \A q \in DOMAIN r \ DOMAIN M : B[q] = r[q]
  BY <1>2, <1>4, OverlayLays DEF B
<1>8. /\ IsEntryMap(m) /\ DOMAIN m = DOMAIN H \union DOMAIN B
      /\ \A q \in DOMAIN H : m[q] = H[q]
      /\ \A q \in DOMAIN B \ DOMAIN H : m[q] = B[q]
  BY <1>6, <1>7, OverlayLays DEF m
<1>9. /\ DOMAIN m = {BackupDir} \union DOMAIN L \union DOMAIN M \union DOMAIN r
      /\ \A q \in DOMAIN M : m[q] = M[q]
      /\ \A q \in DOMAIN r : m[q] = r[q]
      /\ RmListName \in DOMAIN L => m[RmListName] = L[RmListName]
  <2>1. DOMAIN H \subseteq {BackupDir, RmListName}
    BY <1>5, <1>6
  <2>2. DOMAIN M \intersect DOMAIN H = {} /\ DOMAIN r \intersect DOMAIN H = {}
    BY <1>2, <1>4, <2>1, HiddenNames
  <2>3. DOMAIN r \intersect DOMAIN M = {}
    BY <1>2, <1>4, HiddenNames
  <2>4. DOMAIN m = {BackupDir} \union DOMAIN L \union DOMAIN M \union DOMAIN r
    BY <1>6, <1>7, <1>8
  <2>5. \A q \in DOMAIN M : m[q] = M[q]
    BY <1>7, <1>8, <2>2
  <2>6. \A q \in DOMAIN r : m[q] = r[q]
    BY <1>7, <1>8, <2>2, <2>3
  <2>7. RmListName \in DOMAIN L => m[RmListName] = L[RmListName]
    BY <1>6, <1>8, HiddenNames
  <2> QED
    BY <2>4, <2>5, <2>6, <2>7
<1>10. /\ IsArchive(c) /\ Range(c.keys) = DOMAIN c.entries /\ DOMAIN c.entries = DOMAIN m
       /\ \A q \in DOMAIN m : c.entries[q] = m[q]
  <2>1. DOMAIN NewCpio.entries = {} /\ Range(NewCpio.keys) = {}
    BY DEF NewCpio, EmptyMap, Range
  <2>2. IsArchive(NewCpio)
    BY EmptyTyped
  <2>3. IsEntryMap(m) /\ Range(NewCpio.keys) = DOMAIN NewCpio.entries
    BY <1>8, <2>1
  <2>4. LET d == Insert(NewCpio, m) IN
        /\ IsArchive(d) /\ Range(d.keys) = DOMAIN d.entries
        /\ DOMAIN d.entries = DOMAIN NewCpio.entries \union DOMAIN m
        /\ \A q \in DOMAIN m : d.entries[q] = m[q]
    BY <2>2, <2>3, InsertLays
  <2> QED
    BY <2>1, <2>4 DEF c
<1>11. DOMAIN c.entries \ Hidden = DOMAIN r
  BY <1>2, <1>4, <1>5, <1>9, <1>10, HiddenNames
<1>12. DOMAIN c.entries \intersect Members = {MemberOf(o, xz, p) : p \in Lost(o, r)}
  <2>1. DOMAIN c.entries \intersect Members = DOMAIN M
    BY <1>2, <1>4, <1>5, <1>9, <1>10, HiddenNames
  <2> QED
    BY <1>4, <2>1
<1>13. RmListName \in DOMAIN c.entries <=> Fresh(o, r) # {}
  BY <1>2, <1>4, <1>5, <1>9, <1>10, HiddenNames
<1>14. \A p \in DOMAIN r : c.entries[p] = r[p]
  BY <1>9, <1>10
<1>15. \A p \in Lost(o, r) : c.entries[MemberOf(o, xz, p)] = Stored(o, xz, p)
  BY <1>4, <1>9, <1>10
<1>16. RmListName \in DOMAIN c.entries =>
         \E names \in Seq(Paths) \ {<<>>} :
           /\ c.entries[RmListName] = RegEntry(NameList(names))
           /\ Range(names) = Fresh(o, r)
  BY <1>5, <1>9, <1>10, <1>13
<1> QED
  BY <1>1, <1>10, <1>11, <1>12, <1>13, <1>14, <1>15, <1>16 DEF IsBackup

\* The marker of an installation leaves a backup a backup.
LEMMA BackedIs ==
  ASSUME NEW o, Restorable(o), NEW r, Restorable(r), NEW xz \in BOOLEAN,
         NEW magisk \in BOOLEAN, MagiskName \in Paths
  PROVE  IsBackup(Backed(o, r, xz, magisk), o, r, xz)
<1> DEFINE c == BackedUp(o, r, xz)
           m == [q \in {MagiskName} |-> RegEntry(Nothing)]
           d == Insert(c, m)
<1>1. IsBackup(c, o, r, xz)
  BY BackedUpIs
<1>2. DOMAIN r \intersect Hidden = {}
  BY DEF Restorable
<1>3. \A p \in Lost(o, r) : MemberOf(o, xz, p) \in Members
  BY MemberNamed DEF Lost
<1>4. CASE ~magisk
  BY <1>1, <1>4 DEF Backed
<1>5. CASE magisk
  <2>1. Backed(o, r, xz, magisk) = d
    BY <1>5 DEF Backed, addEntry
  <2>2. IsEntryMap(m) /\ DOMAIN m = {MagiskName}
    BY EntriesTyped DEF IsEntryMap
  <2> HIDE DEF c, m
  <2>3. /\ IsArchive(d) /\ Range(d.keys) = DOMAIN d.entries
        /\ DOMAIN d.entries = DOMAIN c.entries \union {MagiskName}
        /\ \A p \in DOMAIN c.entries \ {MagiskName} : d.entries[p] = c.entries[p]
    BY <1>1, <2>2, InsertLays DEF IsBackup
  <2> HIDE DEF d
  <2>4. MagiskName \in Hidden /\ MagiskName \notin Members /\ MagiskName # RmListName
    BY HiddenNames
  <2>5. DOMAIN d.entries \ Hidden = DOMAIN c.entries \ Hidden
        /\ DOMAIN d.entries \intersect Members = DOMAIN c.entries \intersect Members
        /\ (RmListName \in DOMAIN d.entries <=> RmListName \in DOMAIN c.entries)
    BY <2>3, <2>4
  <2>6. \A p \in DOMAIN r : d.entries[p] = c.entries[p]
    BY <1>1, <1>2, <2>3, <2>4 DEF IsBackup
  <2>7. \A p \in Lost(o, r) : d.entries[MemberOf(o, xz, p)] = c.entries[MemberOf(o, xz, p)]
    <3>1. \A p \in Lost(o, r) : MemberOf(o, xz, p) \in DOMAIN c.entries
      BY <1>1 DEF IsBackup
    <3> QED
      BY <1>3, <2>3, <2>4, <3>1
  <2>8. RmListName \in DOMAIN d.entries => d.entries[RmListName] = c.entries[RmListName]
    BY <2>3, <2>4
  <2>9. IsBackup(d, o, r, xz)
    BY <1>1, <2>3, <2>5, <2>6, <2>7, <2>8 DEF IsBackup
  <2> QED
    BY <2>1, <2>9
<1> QED
  BY <1>4, <1>5

\* Restore sees what each member is the member of.
LEMMA NewNameIs ==
  ASSUME NEW o, Restorable(o), NEW r, NEW xz \in BOOLEAN,
         NEW c, IsBackup(c, o, r, xz), NEW p \in Lost(o, r)
  PROVE  LET q == MemberOf(o, xz, p) IN
         /\ NewName(c, q) = p /\ q \in Range(c.keys) /\ q \in Members
         /\ (IF EndsInXz(q) THEN Decompress(Lookup(c, q)) ELSE Lookup(c, q)) = o[p]
<1> DEFINE q == MemberOf(o, xz, p)
<1>1. p \in DOMAIN o
  BY DEF Lost
<1>2. q \in Members /\ NameBack(q) = p /\ (EndsInXz(q) <=> Coated(o, xz, p))
  BY <1>1, MemberNamed
<1>3. q \in DOMAIN c.entries /\ c.entries[q] = Stored(o, xz, p) /\ q \in Range(c.keys)
  BY DEF IsBackup
<1>4. Lookup(c, q) = Stored(o, xz, p)
  BY <1>3 DEF Lookup
<1>5. o[p] \in Entries
  BY <1>1 DEF Restorable, IsEntryMap
<1> HIDE DEF q
<1>6. CASE Coated(o, xz, p)
  <2>1. Decompresses(Stored(o, xz, p)) /\ Decompress(Stored(o, xz, p)) = o[p]
    BY <1>5, <1>6, CoatComesOff DEF Stored, Coated
  <2> QED
    BY <1>2, <1>3, <1>4, <1>6, <2>1 DEF NewName, NameBack, q
<1>7. CASE ~Coated(o, xz, p)
  <2>1. Stored(o, xz, p) = o[p]
    BY <1>7 DEF Stored
  <2> QED
    BY <1>2, <1>3, <1>4, <1>7, <2>1 DEF NewName, NameBack, q
<1> QED
  BY <1>6, <1>7

\* What Restore brings back is what was lost.
LEMMA BackupsGiveBack ==
  ASSUME NEW o, Restorable(o), NEW r, NEW xz \in BOOLEAN,
         NEW c, IsBackup(c, o, r, xz)
  PROVE  /\ DOMAIN Backups(c) = Lost(o, r)
         /\ \A p \in Lost(o, r) : Backups(c)[p] = o[p]
         /\ IsEntryMap(Backups(c))
<1> DEFINE members  == {i \in DOMAIN c.keys : c.keys[i] \in Members}
           named(n) == {i \in members : NewName(c, c.keys[i]) = n}
           at(n)    == CHOOSE i \in named(n) : \A j \in named(n) : j <= i
           last(n)  == c.keys[at(n)]
           names    == {NewName(c, c.keys[i]) : i \in members}
           mem(p)   == MemberOf(o, xz, p)
<1>1. IsArchive(c) /\ c.keys \in Seq(Paths) /\ Range(c.keys) = DOMAIN c.entries
      /\ DOMAIN c.entries \intersect Members = {mem(p) : p \in Lost(o, r)}
  BY DEF IsBackup, IsArchive
<1>2. \A p \in Lost(o, r) :
        /\ NewName(c, mem(p)) = p /\ mem(p) \in Range(c.keys) /\ mem(p) \in Members
        /\ (IF EndsInXz(mem(p)) THEN Decompress(Lookup(c, mem(p)))
                                ELSE Lookup(c, mem(p))) = o[p]
  BY NewNameIs
<1> HIDE DEF mem
<1>3. ASSUME NEW i \in members
      PROVE  NewName(c, c.keys[i]) \in Lost(o, r) /\ c.keys[i] = mem(NewName(c, c.keys[i]))
  <2>1. c.keys[i] \in DOMAIN c.entries \intersect Members
    BY <1>1 DEF Range
  <2>2. PICK p \in Lost(o, r) : c.keys[i] = mem(p)
    BY <1>1, <2>1
  <2> QED
    BY <1>2, <2>2
<1>4. ASSUME NEW p \in Lost(o, r)
      PROVE  \E i \in members : c.keys[i] = mem(p) /\ NewName(c, c.keys[i]) = p
  <2>1. PICK i \in DOMAIN c.keys : c.keys[i] = mem(p)
    BY <1>2 DEF Range
  <2> QED
    BY <1>2, <2>1
<1>5. names = Lost(o, r)
  BY <1>3, <1>4
<1>6. ASSUME NEW p \in Lost(o, r)
      PROVE  last(p) = mem(p)
  <2>1. named(p) \in SUBSET DOMAIN c.keys /\ named(p) # {}
    BY <1>4
  <2>2. IsFiniteSet(named(p)) /\ named(p) \subseteq Int
    BY <1>1, <2>1, PositionsFinite
  <2>3. \E i \in named(p) : \A j \in named(p) : j <= i
    BY <2>1, <2>2, LastExists
  <2>4. at(p) \in named(p)
    BY <2>3
  <2> HIDE DEF at
  <2> QED
    BY <1>3, <2>4
<1> HIDE DEF at
<1>7. Backups(c) = [n \in names |->
         IF EndsInXz(last(n)) THEN Decompress(Lookup(c, last(n)))
                              ELSE Lookup(c, last(n))]
  BY DEF Backups, at
<1> HIDE DEF names, last
<1>8. \A p \in Lost(o, r) : Backups(c)[p] = o[p]
  BY <1>2, <1>5, <1>6, <1>7
<1>9. IsEntryMap(Backups(c))
  BY <1>1, BackupsTyped
<1> QED
  BY <1>5, <1>7, <1>8, <1>9

\* What Restore reads from the list of a backup.
LEMMA RmListRead ==
  ASSUME NEW o, NEW r, NEW xz, NEW c, IsBackup(c, o, r, xz)
  PROVE  RmListed(c) = Fresh(o, r) /\ (RmListEmpty(c) <=> Fresh(o, r) = {})
<1>1. (RmListName \in DOMAIN c.entries <=> Fresh(o, r) # {})
      /\ Range(c.keys) = DOMAIN c.entries
  BY DEF IsBackup
<1>2. CASE Fresh(o, r) = {}
  <2>1. Lookup(c, RmListName) = Zero
    BY <1>1, <1>2 DEF Lookup
  <2>2. RmListed(c) = {}
    BY <2>1 DEF RmListed, Zero, Nothing, Raw
  <2> QED
    BY <1>1, <1>2, <2>2 DEF RmListEmpty
<1>3. CASE Fresh(o, r) # {}
  <2>1. PICK names \in Seq(Paths) \ {<<>>} :
          /\ c.entries[RmListName] = RegEntry(NameList(names))
          /\ Range(names) = Fresh(o, r)
    BY <1>1, <1>3 DEF IsBackup
  <2>2. Lookup(c, RmListName) = RegEntry(NameList(names))
    BY <1>1, <1>3, <2>1 DEF Lookup
  <2>3. Lookup(c, RmListName).data = [base |-> [form |-> "names", names |-> names], coats |-> <<>>]
    BY <2>2 DEF RegEntry, NameList, Raw
  <2>4. RmListed(c) = Range(names)
    BY <2>3 DEF RmListed
  <2>5. Lookup(c, RmListName).data # Nothing
    BY <2>3 DEF Nothing, Raw
  <2> QED
    BY <1>1, <1>3, <2>1, <2>4, <2>5 DEF RmListEmpty
<1> QED
  BY <1>2, <1>3

\* Ramdisks that differ leave something to restore or to remove.
LEMMA DifferentSay ==
  ASSUME NEW o, IsEntryMap(o), NEW r, IsEntryMap(r), o # r,
         \A p \in DOMAIN o \intersect DOMAIN r : o[p].data = r[p].data => o[p] = r[p]
  PROVE  Lost(o, r) # {} \/ Fresh(o, r) # {}
<1> SUFFICES ASSUME Lost(o, r) = {}, Fresh(o, r) = {}
             PROVE  FALSE
  OBVIOUS
<1>1. \A p \in DOMAIN o : p \in DOMAIN r /\ r[p].data = o[p].data
  BY DEF Lost
<1>2. DOMAIN r = DOMAIN o
  BY <1>1 DEF Fresh
<1>3. \A p \in DOMAIN o : o[p] = r[p]
  BY <1>1, <1>2
<1>4. o = [p \in DOMAIN o |-> o[p]] /\ r = [p \in DOMAIN r |-> r[p]]
  BY DEF IsEntryMap
<1> QED
  BY <1>2, <1>3, <1>4

LEMMA RestoreGivesBack ==
  ASSUME NEW o, Restorable(o), NEW r, Restorable(r), NEW xz \in BOOLEAN, o # r,
         \A p \in DOMAIN o \intersect DOMAIN r : o[p].data = r[p].data => o[p] = r[p],
         NEW c, IsBackup(c, o, r, xz)
  PROVE  Without(Restore(c).entries, Hidden) = o
<1> DEFINE kept  == Rm(c, BackupDir, FALSE)
           rest  == removeEntries(kept, RmListed(c))
           B     == Backups(c)
           after == Restore(c).entries
<1>1. /\ IsEntryMap(o) /\ IsEntryMap(r)
      /\ DOMAIN o \intersect Hidden = {} /\ DOMAIN r \intersect Hidden = {}
  BY DEF Restorable
<1>2. /\ DOMAIN c.entries \ Hidden = DOMAIN r
      /\ \A p \in DOMAIN r : c.entries[p] = r[p]
  BY DEF IsBackup
<1>3. DOMAIN B = Lost(o, r) /\ \A p \in Lost(o, r) : B[p] = o[p]
  BY BackupsGiveBack
<1>4. RmListed(c) = Fresh(o, r) /\ (RmListEmpty(c) <=> Fresh(o, r) = {})
  BY RmListRead
<1>5. ~(RmListEmpty(c) /\ DOMAIN B = {})
  BY <1>1, <1>3, <1>4, DifferentSay
<1>6. /\ DOMAIN kept.entries = DOMAIN c.entries \ {BackupDir}
      /\ \A p \in DOMAIN kept.entries : kept.entries[p] = c.entries[p]
  BY DEF Rm, removeEntries, Without, Restrict
<1> HIDE DEF kept, B
<1>7. /\ DOMAIN rest.entries = DOMAIN kept.entries \ Fresh(o, r)
      /\ \A p \in DOMAIN rest.entries : rest.entries[p] = kept.entries[p]
  BY <1>4 DEF removeEntries, Without, Restrict
<1> HIDE DEF rest
<1>8. after = Overlay(B, rest.entries)
  BY <1>5 DEF Restore, Insert, kept, rest, B
<1> HIDE DEF after
<1>9. /\ DOMAIN after = DOMAIN B \union DOMAIN rest.entries
      /\ \A p \in DOMAIN B : after[p] = B[p]
      /\ \A p \in DOMAIN rest.entries \ DOMAIN B : after[p] = rest.entries[p]
  <2>1. LET S == Overlay(B, rest.entries) IN
        /\ DOMAIN S = DOMAIN B \union DOMAIN rest.entries
        /\ \A p \in DOMAIN B : S[p] = B[p]
        /\ \A p \in DOMAIN rest.entries \ DOMAIN B : S[p] = rest.entries[p]
    BY OverlayIs
  <2> QED
    BY <1>8, <2>1
<1>10. DOMAIN after \ Hidden = DOMAIN o
  <2>1. DOMAIN rest.entries \ Hidden = DOMAIN r \ Fresh(o, r)
    BY <1>2, <1>6, <1>7, HiddenNames
  <2>2. Lost(o, r) \subseteq DOMAIN o /\ DOMAIN o \ DOMAIN r \subseteq Lost(o, r)
    BY DEF Lost
  <2>3. DOMAIN r \ Fresh(o, r) = DOMAIN r \intersect DOMAIN o
    BY DEF Fresh
  <2> QED
    BY <1>1, <1>3, <1>9, <2>1, <2>2, <2>3
<1>11. ASSUME NEW p \in DOMAIN o
       PROVE  after[p] = o[p]
  <2>1. CASE p \in Lost(o, r)
    BY <1>3, <1>9, <2>1
  <2>2. CASE p \notin Lost(o, r)
    <3>1. p \in DOMAIN r /\ r[p].data = o[p].data
      BY <2>2 DEF Lost
    <3>2. r[p] = o[p]
      BY <3>1
    <3>3. p \notin Hidden /\ p \notin Fresh(o, r) /\ p \in DOMAIN c.entries
      BY <1>1, <1>2, <3>1 DEF Fresh
    <3>4. p \in DOMAIN rest.entries /\ rest.entries[p] = c.entries[p]
      BY <1>6, <1>7, <3>3, HiddenNames
    <3> QED
      BY <1>2, <1>3, <1>9, <2>2, <3>1, <3>2, <3>4
  <2> QED
    BY <2>1, <2>2
<1>12. Without(after, Hidden) = [p \in DOMAIN after \ Hidden |-> after[p]]
  BY DEF Without, Restrict
<1>13. o = [p \in DOMAIN o |-> o[p]]
  BY <1>1 DEF IsEntryMap
<1>14. Without(after, Hidden) = o
  BY <1>10, <1>11, <1>12, <1>13
<1> QED
  BY <1>14 DEF after

\* The command restore is the inverse of a backup: for all restorable ramdisks
\* that are not the same, with compressed members or plain ones, with or
\* without the marker of an installation, a restore that does not panic leaves,
\* outside .backup, exactly the names and entries of the ramdisk before it.
THEOREM RestoreUndoes == Spec => RestoreUndoesBackup
<1> DEFINE Undone ==
             pc = "run" /\ pc' = "run" =>
               \A cmd \in Commands, pair \in Pairs, xz \in BOOLEAN, m \in BOOLEAN :
                 CmdRestore(cmd) /\ cpio = Backed(pair[1], pair[2], xz, m) =>
                   Without(cpio.entries', Hidden) = pair[1]
<1>1. Undone
  <2> SUFFICES ASSUME pc' = "run", NEW cmd \in Commands, NEW pair \in Pairs,
                      NEW xz \in BOOLEAN, NEW m \in BOOLEAN, CmdRestore(cmd),
                      cpio = Backed(pair[1], pair[2], xz, m)
               PROVE  Without(cpio.entries', Hidden) = pair[1]
    OBVIOUS
  <2> DEFINE o == pair[1]
             r == pair[2]
  <2>1. o \in Ramdisks /\ r \in Ramdisks /\ o # r
    BY DEF Pairs
  <2>2. /\ Restorable(o) /\ Restorable(r) /\ MagiskName \in Paths
        /\ \A p \in DOMAIN o \intersect DOMAIN r : o[p].data = r[p].data => o[p] = r[p]
    BY <2>1, RestoreAssumption
  <2> HIDE DEF o, r
  <2>3. IsBackup(cpio, o, r, xz)
    BY <2>2, BackedIs DEF o, r
  <2>4. cpio' = Restore(cpio)
    BY DEF CmdRestore, Continue, Abort, Exit
  <2>5. Without(Restore(cpio).entries, Hidden) = o
    BY <2>1, <2>2, <2>3, RestoreGivesBack
  <2> QED
    BY <2>4, <2>5 DEF o
<1> HIDE DEF Undone
<1> QED
  BY <1>1, PTL DEF RestoreUndoesBackup, Undone
=============================================================================
