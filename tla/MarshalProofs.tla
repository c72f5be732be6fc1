---------------------------- MODULE MarshalProofs ----------------------------
(***************************************************************************)
(* Unmarshal undoes Marshal, for every manifest, every width of a varint   *)
(* that holds a word and every length that an int holds.                   *)
(*                                                                         *)
(* First the encoder.  The digits of a varint are those that the decoder   *)
(* takes it apart into (VarintDigit); each field of each message is        *)
(* written, in order, in the bytes that Size counts (AllWritten); so there *)
(* is a script of each message, items that store its fields one by one     *)
(* (Scripted), and the items lie end to end in its code (EndsStep).        *)
(*                                                                         *)
(* Then the decoder.  RInv says where it is when the bytes are the code of *)
(* a manifest or the beginning of it: each call has a message of which its *)
(* slice is the code, and has stored the items up to its index; its caller *)
(* waits in the item that is this message (Follows); and the top call is   *)
(* between two items, or so many digits into the varint that is due        *)
(* (Placed).  Only the bytes may end too early, and then those of every    *)
(* call do (TooFew).                                                       *)
(*                                                                         *)
(* The same holds of the first bytes of a code that zeros follow, as far   *)
(* as they go (NextExact, with their number lim): the first call is among  *)
(* them.  QInv says what comes of the zeros (Past): no tag is zero, so the *)
(* decoder gives up or is already behind all that the extraction uses, as  *)
(* a manifest ends with its security patch level (RootOrder).              *)
(***************************************************************************)
EXTENDS ManifestProofs, ManifestMarshal, SetLemmas

-----------------------------------------------------------------------------
(* Sequences put together.                                                 *)

\* f runs from v0 through the first n steps.
Solves(f, V, v0, step, n) ==
  /\ f \in [0 .. n -> V] /\ f[0] = v0
  /\ \A i \in 1 .. n : f[i] = step[i][f[i-1]]

\* A recursion over 1 .. n has a solution.
LEMMA Recursion ==
  ASSUME NEW n \in Nat, NEW V, NEW v0 \in V, NEW step \in [1 .. n -> [V -> V]]
  PROVE  \E f : Solves(f, V, v0, step, n)
<1> DEFINE Sol(k, f) == Solves(f, V, v0, step, k)
           S == {k \in 0 .. n : ~ \E f : Sol(k, f)}
<1>1. S = {}
  <2> SUFFICES ASSUME S # {}
               PROVE  FALSE
    OBVIOUS
  <2>1. PICK k \in S : \A j \in S : k <= j
    BY SomeBelow
  <2>2. k # 0
    <3>1. Sol(0, [i \in 0 .. 0 |-> v0])
      BY DEF Solves
    <3> QED
      BY <3>1
  <2>3. k - 1 \in 0 .. n /\ k - 1 \notin S /\ k \in 1 .. n
    <3>1. k \in 0 .. n /\ \A j \in S : k <= j
      BY <2>1
    <3> HIDE DEF S
    <3> QED
      BY <2>2, <3>1
  <2>4. PICK f : Sol(k - 1, f)
    BY <2>3
  <2>41. /\ f \in [0 .. k-1 -> V] /\ f[0] = v0
        /\ \A i \in 1 .. k-1 : f[i] = step[i][f[i-1]]
    BY <2>4 DEF Solves
  <2> DEFINE g == [i \in 0 .. k |-> IF i = k THEN step[k][f[k-1]] ELSE f[i]]
  <2>5. f[k-1] \in V
    BY <2>3, <2>41
  <2>6. step[k][f[k-1]] \in V
    BY <2>3, <2>5
  <2>7. g \in [0 .. k -> V] /\ g[0] = v0
    BY <2>2, <2>3, <2>41, <2>6
  <2>8. ASSUME NEW i \in 1 .. k
        PROVE  g[i] = step[i][g[i-1]]
    <3>1. g[i-1] = f[i-1]
      BY <2>3
    <3>2. CASE i = k
      BY <3>1, <3>2
    <3>3. CASE i # k
      <4>1. i \in 1 .. k - 1 /\ g[i] = f[i]
        BY <2>3, <3>3
      <4> QED
        BY <2>41, <3>1, <4>1
    <3> QED
      BY <3>2, <3>3
  <2> HIDE DEF g
  <2>9. Sol(k, g)
    BY <2>7, <2>8 DEF Solves
  <2> QED
    BY <2>1, <2>9
<1>2. n \in 0 .. n
  OBVIOUS
<1> QED
  BY <1>1, <1>2

\* The concatenation of the first i sequences of s.
Joined(s, i) == FlattenSeq(SubSeq(s, 1, i))

\* The first elements of a sequence.
LEMMA SubSeqFirst ==
  ASSUME NEW T, NEW s \in Seq(T), NEW i \in 0 .. Len(s)
  PROVE  /\ SubSeq(s, 1, i) \in Seq(T) /\ Len(SubSeq(s, 1, i)) = i
         /\ \A j \in 1 .. i : SubSeq(s, 1, i)[j] = s[j]
OBVIOUS

\* FlattenSeq puts one sequence after the other.
LEMMA FlattenIs ==
  ASSUME NEW T, NEW s \in Seq(Seq(T)), NEW f \in [0 .. Len(s) -> Seq(T)],
         f[0] = <<>>, \A i \in 1 .. Len(s) : f[i] = f[i-1] \o s[i]
  PROVE  FlattenSeq(s) = f[Len(s)]
<1> DEFINE n    == Len(s)
           D(g) == [i \in 1 .. n |-> IF i = 1 THEN s[i] ELSE g[i - 1] \o s[i]]
<1>1. n \in Nat
  OBVIOUS
<1>2. CASE n = 0
  <2>1. FlattenSeq(s) = s /\ s = <<>>
    BY <1>2 DEF FlattenSeq
  <2> QED
    BY <1>2, <2>1
<1>3. CASE n > 0
  <2> DEFINE h == [i \in 1 .. n |-> f[i]]
  <2>1. s[1] \in Seq(T)
    BY <1>3
  <2>2. f[1] = s[1]
    <3>1. 1 \in 1 .. Len(s) /\ 1 - 1 = 0
      BY <1>1, <1>3
    <3>2. f[1] = <<>> \o s[1]
      BY <3>1
    <3> QED
      BY <2>1, <3>2
  <2>3. ASSUME NEW i \in 1 .. n
        PROVE  h[i] = D(h)[i]
    <3>1. CASE i = 1
      BY <2>2, <3>1
    <3>2. CASE i # 1
      <4>1. i - 1 \in 1 .. n /\ h[i-1] = f[i-1]
        BY <1>1, <3>2
      <4> QED
        BY <3>2, <4>1
    <3> QED
      BY <3>1, <3>2
  <2>4. h = D(h)
    BY <2>3
  <2> DEFINE flatten == CHOOSE g : g = D(g)
  <2>5. flatten = D(flatten)
    <3> HIDE DEF h, D
    <3> QED
      BY <2>4
  <2> HIDE DEF flatten
  <2>6. flatten = [i \in 1 .. n |-> IF i = 1 THEN s[i] ELSE flatten[i - 1] \o s[i]]
    BY <2>5
  <2>7. FlattenSeq(s) = flatten[n]
    BY <1>3 DEF FlattenSeq, flatten
  <2> DEFINE S == {i \in 0 .. n : i # 0 /\ flatten[i] # f[i]}
  <2>8. S = {}
    <3> SUFFICES ASSUME S # {}
                 PROVE  FALSE
      OBVIOUS
    <3>1. PICK k \in S : \A j \in S : k <= j
      BY <1>1, SomeBelow
    <3>2. k \in 1 .. n /\ k \in Int /\ flatten[k] # f[k]
      OBVIOUS
    <3>3. flatten[k] = IF k = 1 THEN s[k] ELSE flatten[k - 1] \o s[k]
      BY <2>6, <3>2
    <3>4. k # 1
      BY <2>2, <3>2, <3>3
    <3>5. k - 1 \in 0 .. n /\ k - 1 # 0 /\ k - 1 \notin S
      BY <1>1, <3>1, <3>2, <3>4
    <3>6. flatten[k-1] = f[k-1]
      BY <3>5
    <3> QED
      BY <3>2, <3>3, <3>4, <3>6
  <2>9. n \in 0 .. n /\ n # 0
    BY <1>3
  <2> QED
    BY <2>7, <2>8, <2>9
<1> QED
  BY <1>1, <1>2, <1>3

\* FlattenSeq is a recursion over the prefixes of the sequence, so it has a
\* solution whose steps are concatenations.
LEMMA FlattenSolved ==
  ASSUME NEW T, NEW s \in Seq(Seq(T))
  PROVE  \E f \in [0 .. Len(s) -> Seq(T)] :
           /\ f[0] = <<>> /\ \A i \in 1 .. Len(s) : f[i] = f[i-1] \o s[i]
           /\ \A i \in 0 .. Len(s) : Joined(s, i) = f[i]
<1> DEFINE n    == Len(s)
           step == [i \in 1 .. n |-> [x \in Seq(T) |-> x \o s[i]]]
<1>1. n \in Nat
  OBVIOUS
<1>2. step \in [1 .. n -> [Seq(T) -> Seq(T)]]
  <2>1. \A i \in 1 .. n : s[i] \in Seq(T)
    OBVIOUS
  <2>2. \A i \in 1 .. n : [x \in Seq(T) |-> x \o s[i]] \in [Seq(T) -> Seq(T)]
    BY <2>1
  <2> QED
    BY <2>2
<1>3. <<>> \in Seq(T)
  OBVIOUS
<1>4. PICK f \in [0 .. n -> Seq(T)] :
         f[0] = <<>> /\ \A i \in 1 .. n : f[i] = step[i][f[i-1]]
  <2>1. \E f : Solves(f, Seq(T), <<>>, step, n)
    <3> HIDE DEF step, n
    <3> QED
      BY <1>1, <1>2, <1>3, Recursion
  <2> QED
    BY <2>1 DEF Solves
<1>5. \A i \in 1 .. n : f[i] = f[i-1] \o s[i]
  <2> SUFFICES ASSUME NEW i \in 1 .. n
               PROVE  f[i] = f[i-1] \o s[i]
    OBVIOUS
  <2>1. i - 1 \in 0 .. n
    BY <1>1
  <2>2. f[i-1] \in Seq(T)
    BY <1>4, <2>1
  <2>3. step[i][f[i-1]] = f[i-1] \o s[i]
    BY <2>2
  <2> QED
    BY <1>4, <2>3
<1>6. ASSUME NEW i \in 0 .. n
      PROVE  Joined(s, i) = f[i]
  <2> DEFINE r == SubSeq(s, 1, i)
             g == [j \in 0 .. i |-> f[j]]
  <2>1. r \in Seq(Seq(T)) /\ Len(r) = i /\ \A j \in 1 .. i : r[j] = s[j]
    BY SubSeqFirst
  <2>2. g \in [0 .. i -> Seq(T)] /\ g[0] = <<>>
    BY <1>1, <1>4
  <2>3. ASSUME NEW j \in 1 .. i
        PROVE  g[j] = g[j-1] \o r[j]
    <3>1. j \in 1 .. n /\ j - 1 \in 0 .. i /\ j \in 0 .. i
      BY <1>1
    <3> QED
      BY <1>5, <2>1, <3>1
  <2>4. g[i] = f[i]
    OBVIOUS
  <2> HIDE DEF r, g
  <2>5. FlattenSeq(r) = g[i]
    BY <2>1, <2>2, <2>3, FlattenIs
  <2> QED
    BY <2>4, <2>5 DEF Joined, r
<1> QED
  BY <1>4, <1>5, <1>6

\* Step by step, one sequence is put behind what there is.
LEMMA FlatSteps ==
  ASSUME NEW T, NEW s \in Seq(Seq(T))
  PROVE  /\ Joined(s, 0) = <<>> /\ Joined(s, Len(s)) = FlattenSeq(s)
         /\ \A i \in 0 .. Len(s) : Joined(s, i) \in Seq(T)
         /\ \A i \in 1 .. Len(s) : Joined(s, i) = Joined(s, i - 1) \o s[i]
<1>1. PICK f \in [0 .. Len(s) -> Seq(T)] :
           /\ f[0] = <<>> /\ \A i \in 1 .. Len(s) : f[i] = f[i-1] \o s[i]
           /\ \A i \in 0 .. Len(s) : Joined(s, i) = f[i]
  BY FlattenSolved
<1>2. Len(s) \in Nat
  OBVIOUS
<1>3. FlattenSeq(s) = f[Len(s)]
  BY <1>1, FlattenIs
<1>4. 0 \in 0 .. Len(s) /\ Len(s) \in 0 .. Len(s)
  BY <1>2
<1>5. Joined(s, 0) = <<>> /\ Joined(s, Len(s)) = FlattenSeq(s)
  BY <1>1, <1>3, <1>4
<1>6. ASSUME NEW i \in 1 .. Len(s)
      PROVE  Joined(s, i) = Joined(s, i - 1) \o s[i]
  <2>1. i \in 0 .. Len(s) /\ i - 1 \in 0 .. Len(s)
    BY <1>2
  <2>2. Joined(s, i) = f[i] /\ Joined(s, i - 1) = f[i - 1]
    BY <1>1, <2>1
  <2> QED
    BY <1>1, <2>2
<1>7. \A i \in 0 .. Len(s) : Joined(s, i) \in Seq(T)
  BY <1>1
<1> QED
  BY <1>5, <1>6, <1>7

\* s begins with r.
Begins(s, r) == Len(r) <= Len(s) /\ \A j \in 1 .. Len(r) : s[j] = r[j]

\* The first of the steps and the last, and each of them, as facts to cite.
LEMMA FlatEnds ==
  ASSUME NEW T, NEW s \in Seq(Seq(T))
  PROVE  Joined(s, 0) = <<>> /\ Joined(s, Len(s)) = FlattenSeq(s)
BY FlatSteps

LEMMA FlatTyped ==
  ASSUME NEW T, NEW s \in Seq(Seq(T)), NEW i \in 0 .. Len(s)
  PROVE  Joined(s, i) \in Seq(T)
BY FlatSteps

LEMMA FlatStep ==
  ASSUME NEW T, NEW s \in Seq(Seq(T)), NEW i \in 1 .. Len(s)
  PROVE  /\ Joined(s, i) = Joined(s, i - 1) \o s[i]
         /\ s[i] \in Seq(T) /\ Joined(s, i - 1) \in Seq(T)
<1>1. i - 1 \in 0 .. Len(s)
  OBVIOUS
<1>2. Joined(s, i - 1) \in Seq(T)
  BY <1>1, FlatTyped
<1>3. s[i] \in Seq(T)
  OBVIOUS
<1> QED
  BY <1>2, <1>3, FlatSteps

\* What is put together from sequences of T is a sequence of T.
LEMMA FlattenTyped ==
  ASSUME NEW T, NEW s \in Seq(Seq(T))
  PROVE  FlattenSeq(s) \in Seq(T)
<1>1. Len(s) \in 0 .. Len(s)
  OBVIOUS
<1> QED
  BY <1>1, FlatTyped, FlatEnds

\* What is put together first stays where it is.
LEMMA FlatBegins ==
  ASSUME NEW T, NEW s \in Seq(Seq(T)), NEW k \in 0 .. Len(s), NEW i \in 0 .. k
  PROVE  Begins(Joined(s, k), Joined(s, i))
<1> DEFINE n == Len(s)
           S == {h \in 0 .. n : i <= h /\ ~Begins(Joined(s, h), Joined(s, i))}
<1>1. n \in Nat /\ i \in 0 .. n /\ k \in 0 .. n /\ k \in Int /\ i \in Int
  OBVIOUS
<1>2. S = {}
  <2> SUFFICES ASSUME S # {}
               PROVE  FALSE
    OBVIOUS
  <2>1. PICK h \in S : \A j \in S : h <= j
    BY <1>1, SomeBelow
  <2>2. h \in 0 .. n /\ i <= h /\ ~Begins(Joined(s, h), Joined(s, i))
    OBVIOUS
  <2>3. h # i
    BY <2>2 DEF Begins
  <2>4. h \in 1 .. n /\ h - 1 \in 0 .. n /\ i <= h - 1 /\ h - 1 \notin S
    <3>1. \A j \in S : h <= j
      BY <2>1
    <3> HIDE DEF S
    <3> QED
      BY <1>1, <2>2, <2>3, <3>1
  <2>5. Begins(Joined(s, h - 1), Joined(s, i))
    BY <2>4
  <2>6. /\ Joined(s, h) = Joined(s, h - 1) \o s[h] /\ s[h] \in Seq(T)
        /\ Joined(s, h - 1) \in Seq(T) /\ Joined(s, i) \in Seq(T)
    BY <1>1, <2>4, FlatStep, FlatTyped
  <2>7. Begins(Joined(s, h - 1) \o s[h], Joined(s, i))
    <3> DEFINE a == Joined(s, h - 1)
               b == s[h]
               c == Joined(s, i)
    <3>1. a \in Seq(T) /\ b \in Seq(T) /\ c \in Seq(T) /\ Begins(a, c)
      BY <2>5, <2>6
    <3> HIDE DEF a, b, c
    <3>2. Begins(a \o b, c)
      BY <3>1 DEF Begins
    <3> QED
      BY <3>2 DEF a, b, c
  <2> QED
    BY <2>2, <2>6, <2>7
<1>3. k \notin S
  BY <1>2
<1> QED
  BY <1>1, <1>3

\* Where the i-th sequence is in the concatenation.
LEMMA FlatPlaces ==
  ASSUME NEW T, NEW s \in Seq(Seq(T)), NEW i \in 1 .. Len(s)
  PROVE  /\ Len(Joined(s, i - 1)) \in Nat /\ Len(s[i]) \in Nat
         /\ Len(Joined(s, i)) = Len(Joined(s, i - 1)) + Len(s[i])
         /\ Len(Joined(s, i)) <= Len(FlattenSeq(s))
         /\ \A j \in 1 .. Len(s[i]) :
              FlattenSeq(s)[Len(Joined(s, i - 1)) + j] = s[i][j]
<1> DEFINE n == Len(s)
           a == Joined(s, i - 1)
           b == s[i]
           c == FlattenSeq(s)
<1>1. n \in Nat /\ i \in 0 .. n /\ i - 1 \in 0 .. n /\ n \in 0 .. n
  OBVIOUS
<1>2. a \in Seq(T) /\ b \in Seq(T) /\ c \in Seq(T) /\ Joined(s, i) = a \o b
  BY <1>1, FlatStep, FlattenTyped
<1>3. Begins(c, a \o b)
  <2>1. i \in 0 .. n
    BY <1>1
  <2>2. Begins(Joined(s, n), Joined(s, i))
    BY <1>1, <2>1, FlatBegins
  <2> QED
    BY <1>2, <2>2, FlatEnds
<1> HIDE DEF a, b, c
<1>4. /\ Len(a) \in Nat /\ Len(b) \in Nat /\ Len(a \o b) = Len(a) + Len(b)
      /\ \A j \in 1 .. Len(b) : (a \o b)[Len(a) + j] = b[j]
  BY <1>2
<1>5. ASSUME NEW j \in 1 .. Len(b)
      PROVE  c[Len(a) + j] = b[j]
  <2>1. Len(a) + j \in 1 .. Len(a \o b)
    BY <1>4
  <2> QED
    BY <1>3, <1>4, <2>1 DEF Begins
<1>6. Len(a \o b) <= Len(c)
  BY <1>3 DEF Begins
<1> QED
  BY <1>2, <1>4, <1>5, <1>6 DEF a, b, c

\* One sequence alone is itself.
LEMMA FlattenOne == ASSUME NEW T, NEW x \in Seq(T) PROVE FlattenSeq(<<x>>) = x
<1> DEFINE s == <<x>>
<1>1. s \in Seq(Seq(T)) /\ Len(s) = 1 /\ s[1] = x
  OBVIOUS
<1> HIDE DEF s
<1>2. /\ Joined(s, 0) = <<>> /\ Joined(s, 1) = FlattenSeq(s)
      /\ \A i \in 1 .. 1 : Joined(s, i) = Joined(s, i - 1) \o s[i]
  BY <1>1, FlatSteps
<1>3. 1 \in 1 .. 1 /\ 1 - 1 = 0
  OBVIOUS
<1>4. Joined(s, 1) = <<>> \o x
  BY <1>1, <1>2, <1>3
<1>5. <<>> \o x = x
  OBVIOUS
<1> QED
  BY <1>2, <1>4, <1>5 DEF s

\* The lengths add up.
LEMMA FlattenConcat ==
  ASSUME NEW T, NEW a \in Seq(Seq(T)), NEW b \in Seq(Seq(T))
  PROVE  Len(FlattenSeq(a \o b)) = Len(FlattenSeq(a)) + Len(FlattenSeq(b))
<1> DEFINE s == a \o b
           n == Len(a)
           S == {k \in 0 .. Len(b) :
                   Len(Joined(s, n + k)) # Len(FlattenSeq(a)) + Len(Joined(b, k))}
<1>1. /\ s \in Seq(Seq(T)) /\ n \in Nat /\ Len(b) \in Nat /\ Len(s) = n + Len(b)
      /\ \A k \in 1 .. Len(b) : s[n + k] = b[k]
  OBVIOUS
<1>2. FlattenSeq(a) \in Seq(T) /\ Len(FlattenSeq(a)) \in Nat
  BY FlattenTyped
<1>3. Joined(s, n) = FlattenSeq(a)
  <2>1. n \in 0 .. Len(s)
    BY <1>1
  <2>2. SubSeq(s, 1, n) = a
    <3>1. /\ SubSeq(s, 1, n) \in Seq(Seq(T)) /\ Len(SubSeq(s, 1, n)) = n
          /\ \A j \in 1 .. n : SubSeq(s, 1, n)[j] = s[j]
      BY <1>1, <2>1, SubSeqFirst
    <3>2. \A j \in 1 .. n : s[j] = a[j]
      OBVIOUS
    <3> HIDE DEF s
    <3> QED
      BY <3>1, <3>2
  <2> QED
    BY <2>2 DEF Joined
<1>4. S = {}
  <2> SUFFICES ASSUME S # {}
               PROVE  FALSE
    OBVIOUS
  <2>1. PICK k \in S : \A j \in S : k <= j
    BY <1>1, SomeBelow
  <2>2. k \in 0 .. Len(b) /\ Len(Joined(s, n + k)) # Len(FlattenSeq(a)) + Len(Joined(b, k))
    OBVIOUS
  <2>3. k # 0
    <3>1. Joined(b, 0) = <<>> /\ Len(<<>>) = 0 /\ n + 0 = n
      BY <1>1, FlatEnds
    <3> HIDE DEF s
    <3> QED
      BY <1>2, <1>3, <2>2, <3>1
  <2>4. /\ k \in 1 .. Len(b) /\ k - 1 \in 0 .. Len(b) /\ k - 1 \notin S
        /\ n + k \in 1 .. Len(s) /\ (n + k) - 1 = n + (k - 1)
    <3>1. \A j \in S : k <= j
      BY <2>1
    <3> HIDE DEF S, s
    <3> QED
      BY <1>1, <2>2, <2>3, <3>1
  <2>5. Len(Joined(s, n + (k - 1))) = Len(FlattenSeq(a)) + Len(Joined(b, k - 1))
    BY <2>4
  <2>6. /\ Len(Joined(b, k)) = Len(Joined(b, k - 1)) + Len(b[k])
        /\ Len(Joined(b, k - 1)) \in Nat /\ Len(b[k]) \in Nat
    BY <2>4, FlatPlaces
  <2>7. Len(Joined(s, n + k)) = Len(Joined(s, n + (k - 1))) + Len(s[n + k])
    <3> HIDE DEF s
    <3> QED
      BY <1>1, <2>4, FlatPlaces
  <2>8. s[n + k] = b[k]
    BY <1>1, <2>4
  <2> DEFINE x == Len(Joined(s, n + k))
             y == Len(Joined(b, k))
             z == Len(Joined(s, n + (k - 1)))
             v == Len(Joined(b, k - 1))
             w == Len(FlattenSeq(a))
             d == Len(b[k])
  <2>9. x = z + d /\ y = v + d /\ z = w + v
    BY <2>5, <2>6, <2>7, <2>8
  <2>10. v \in Nat /\ d \in Nat /\ w \in Nat /\ x # w + y
    BY <1>2, <2>2, <2>6
  <2> HIDE DEF x, y, z, v, w, d
  <2> QED
    BY <2>9, <2>10
<1>5. Len(Joined(s, n + Len(b))) = Len(FlattenSeq(a)) + Len(Joined(b, Len(b)))
  <2>1. Len(b) \in 0 .. Len(b)
    BY <1>1
  <2> QED
    BY <1>4, <2>1
<1>6. Joined(s, Len(s)) = FlattenSeq(s) /\ Joined(b, Len(b)) = FlattenSeq(b)
  BY <1>1, FlatEnds
<1> QED
  BY <1>1, <1>5, <1>6

-----------------------------------------------------------------------------
(* Lengths, and the powers of the base.                                    *)

\* The sum of numbers that are the steps of f.
LEMMA TotalIs ==
  ASSUME NEW s, Len(s) \in Nat, NEW f \in [0 .. Len(s) -> Nat],
         f[0] = 0, \A i \in 1 .. Len(s) : f[i] = f[i-1] + s[i]
  PROVE  Total(s) = f[Len(s)]
<1> DEFINE n    == Len(s)
           D(g) == [i \in 0 .. n |-> IF i = 0 THEN 0 ELSE g[i - 1] + s[i]]
<1>1. ASSUME NEW i \in 0 .. n
      PROVE  f[i] = D(f)[i]
  <2>1. CASE i = 0
    BY <2>1
  <2>2. CASE i # 0
    <3>1. i \in 1 .. n
      BY <2>2
    <3> QED
      BY <2>2, <3>1
  <2> QED
    BY <2>1, <2>2
<1>2. f = D(f)
  BY <1>1
<1> DEFINE sum == CHOOSE g : g = D(g)
<1>3. sum = D(sum)
  <2> HIDE DEF D
  <2> QED
    BY <1>2
<1> HIDE DEF sum
<1>4. sum = [i \in 0 .. n |-> IF i = 0 THEN 0 ELSE sum[i - 1] + s[i]]
  BY <1>3
<1>5. Total(s) = sum[n]
  BY DEF Total, sum
<1> DEFINE S == {i \in 0 .. n : sum[i] # f[i]}
<1>6. S = {}
  <2> SUFFICES ASSUME S # {}
               PROVE  FALSE
    OBVIOUS
  <2>1. PICK k \in S : \A j \in S : k <= j
    BY SomeBelow
  <2>2. k \in 0 .. n /\ sum[k] # f[k]
    OBVIOUS
  <2>3. sum[k] = IF k = 0 THEN 0 ELSE sum[k - 1] + s[k]
    BY <1>4, <2>2
  <2>4. k # 0
    BY <2>2, <2>3
  <2>5. k \in 1 .. n /\ k - 1 \in 0 .. n /\ k - 1 \notin S
    <3>1. \A j \in S : k <= j
      BY <2>1
    <3> HIDE DEF S
    <3> QED
      BY <2>2, <2>4, <3>1
  <2>6. sum[k - 1] = f[k - 1]
    BY <2>5
  <2> QED
    BY <2>2, <2>3, <2>4, <2>5, <2>6
<1>7. n \in 0 .. n /\ n \notin S
  BY <1>6
<1> QED
  BY <1>5, <1>7

\* The length of what is put together is the sum of the lengths.
LEMMA LengthsTotal ==
  ASSUME NEW T, NEW s \in Seq(Seq(T)), NEW l, DOMAIN l = 1 .. Len(s),
         l = [i \in 1 .. Len(s) |-> Len(s[i])]
  PROVE  Total(l) = Len(FlattenSeq(s))
<1> DEFINE n == Len(s)
           f == [i \in 0 .. n |-> Len(Joined(s, i))]
<1>1. n \in Nat /\ n \in 0 .. n
  OBVIOUS
<1>2. Len(l) = n
  BY <1>1
<1>3. f \in [0 .. n -> Nat]
  <2>1. ASSUME NEW i \in 0 .. n
        PROVE  Len(Joined(s, i)) \in Nat
    <3>1. Joined(s, i) \in Seq(T)
      BY FlatTyped
    <3> QED
      BY <3>1
  <2> QED
    BY <2>1
<1>4. f[0] = 0
  <2>1. f[0] = Len(Joined(s, 0))
    BY <1>1
  <2>2. Joined(s, 0) = <<>>
    BY FlatEnds
  <2> QED
    BY <2>1, <2>2
<1>5. ASSUME NEW i \in 1 .. n
      PROVE  f[i] = f[i-1] + l[i]
  <2>1. Len(Joined(s, i)) = Len(Joined(s, i - 1)) + Len(s[i])
    BY FlatPlaces
  <2>2. i \in 0 .. n /\ i - 1 \in 0 .. n
    BY <1>1
  <2>3. f[i] = Len(Joined(s, i)) /\ f[i-1] = Len(Joined(s, i - 1)) /\ l[i] = Len(s[i])
    BY <2>2
  <2> QED
    BY <2>1, <2>3
<1>6. f[n] = Len(FlattenSeq(s))
  <2>1. f[n] = Len(Joined(s, n))
    BY <1>1
  <2> QED
    BY <2>1, FlatEnds
<1> HIDE DEF f
<1>7. /\ Len(l) \in Nat /\ f \in [0 .. Len(l) -> Nat]
      /\ \A i \in 1 .. Len(l) : f[i] = f[i-1] + l[i]
  BY <1>1, <1>2, <1>3, <1>5
<1>8. Total(l) = f[Len(l)]
  BY <1>4, <1>7, TotalIs
<1> QED
  BY <1>2, <1>6, <1>8

-----------------------------------------------------------------------------
(* Varints.                                                                *)

\* The powers of the base of a varint, as far as it goes.
LEMMA Powers ==
  /\ Power[0] = 1
  /\ \A n \in 0 .. MaxDigits : Power[n] \in Nat \ {0}
  /\ \A n \in 1 .. MaxDigits : Power[n] = 128 * Power[n - 1]
<1> DEFINE V    == Nat \ {0}
           step == [i \in 1 .. MaxDigits |-> [x \in V |-> 128 * x]]
           D(g) == [n \in 0 .. MaxDigits |-> IF n = 0 THEN 1 ELSE Base * g[n - 1]]
<1>1. MaxDigits \in Nat /\ Base = 128
  BY WidthAssumption, EncodingAssumption
<1>2. step \in [1 .. MaxDigits -> [V -> V]]
  OBVIOUS
<1>3. PICK f : Solves(f, V, 1, step, MaxDigits)
  <2>1. 1 \in V
    OBVIOUS
  <2> HIDE DEF V, step
  <2> QED
    BY <1>1, <1>2, <2>1, Recursion
<1>4. /\ f \in [0 .. MaxDigits -> V] /\ f[0] = 1
      /\ \A i \in 1 .. MaxDigits : f[i] = step[i][f[i-1]]
  BY <1>3 DEF Solves
<1>5. ASSUME NEW i \in 1 .. MaxDigits
      PROVE  f[i] = 128 * f[i-1]
  <2>1. i - 1 \in 0 .. MaxDigits
    BY <1>1
  <2>2. f[i-1] \in V
    BY <1>4, <2>1
  <2>3. step[i][f[i-1]] = 128 * f[i-1]
    BY <2>2
  <2> QED
    BY <1>4, <2>3
<1>6. ASSUME NEW i \in 0 .. MaxDigits
      PROVE  f[i] = D(f)[i]
  <2>1. CASE i = 0
    BY <1>4, <2>1
  <2>2. CASE i # 0
    <3>1. i \in 1 .. MaxDigits
      BY <2>2
    <3> QED
      BY <1>1, <1>5, <2>2, <3>1
  <2> QED
    BY <2>1, <2>2
<1>7. f = D(f)
  BY <1>4, <1>6
<1>8. Power = CHOOSE g : g = D(g)
  BY DEF Power
<1>9. Power = D(Power)
  <2> HIDE DEF D
  <2> QED
    BY <1>7, <1>8
<1>10. Power = [n \in 0 .. MaxDigits |-> IF n = 0 THEN 1 ELSE Base * Power[n - 1]]
  BY <1>9
<1> DEFINE S == {i \in 0 .. MaxDigits : Power[i] # f[i]}
<1>11. S = {}
  <2> SUFFICES ASSUME S # {}
               PROVE  FALSE
    OBVIOUS
  <2>1. PICK k \in S : \A j \in S : k <= j
    BY <1>1, SomeBelow
  <2>2. k \in 0 .. MaxDigits /\ Power[k] # f[k]
    OBVIOUS
  <2>3. Power[k] = IF k = 0 THEN 1 ELSE 128 * Power[k - 1]
    BY <1>1, <1>10, <2>2
  <2>4. k # 0
    BY <1>4, <2>2, <2>3
  <2>5. k \in 1 .. MaxDigits /\ k - 1 \in 0 .. MaxDigits /\ k - 1 \notin S
    <3>1. \A j \in S : k <= j
      BY <2>1
    <3> HIDE DEF S
    <3> QED
      BY <1>1, <2>2, <2>4, <3>1
  <2>6. Power[k - 1] = f[k - 1]
    BY <2>5
  <2> QED
    BY <1>5, <2>2, <2>3, <2>4, <2>5, <2>6
<1>12. \A i \in 0 .. MaxDigits : Power[i] = f[i]
  BY <1>11
<1>13. \A i \in 1 .. MaxDigits : i \in 0 .. MaxDigits /\ i - 1 \in 0 .. MaxDigits
  BY <1>1
<1>14. 0 \in 0 .. MaxDigits
  BY <1>1
<1> HIDE DEF S, step, D
<1> QED
  BY <1>4, <1>5, <1>12, <1>13, <1>14

-----------------------------------------------------------------------------
(* The digits of a number.                                                 *)

\* Quotient and remainder, and that they are the only ones.
LEMMA DivMod ==
  ASSUME NEW x \in Nat, NEW B \in Nat \ {0}
  PROVE  /\ x \div B \in Nat /\ x % B \in 0 .. B - 1
         /\ x = B * (x \div B) + (x % B)
OBVIOUS

LEMMA DivModUnique ==
  ASSUME NEW B \in Nat \ {0}, NEW q \in Nat, NEW r \in 0 .. B - 1
  PROVE  (B * q + r) % B = r /\ (B * q + r) \div B = q
OBVIOUS

\* One digit more.
LEMMA NextDigit ==
  ASSUME NEW x \in Nat, NEW P \in Nat \ {0}
  PROVE  (x % P) + ((x \div P) % 128) * P = x % (128 * P)
<1> DEFINE q == x \div P
           r == x % P
           h == q \div 128
           d == q % 128
<1>1. q \in Nat /\ r \in 0 .. P - 1 /\ x = P * q + r
  BY DivMod
<1>2. h \in Nat /\ d \in 0 .. 127 /\ q = 128 * h + d
  BY <1>1
<1> HIDE DEF q, r, h, d
<1>3. x = (128 * P) * h + (P * d + r)
  <2>1. P * (128 * h + d) = P * (128 * h) + P * d
    BY <1>1, <1>2
  <2>2. P * (128 * h) = (128 * P) * h
    BY <1>1, <1>2
  <2>3. P * q = (128 * P) * h + P * d
    BY <1>2, <2>1, <2>2
  <2> DEFINE a == P * q
             b == (128 * P) * h
             c == P * d
  <2>4. a \in Nat /\ b \in Nat /\ c \in Nat /\ a = b + c /\ x = a + r
    BY <1>1, <1>2, <2>3
  <2> HIDE DEF a, b, c
  <2>5. x = b + (c + r)
    BY <1>1, <2>4
  <2> QED
    BY <2>5 DEF b, c
<1>4. P * d + r \in 0 .. (128 * P) - 1
  <2>1. P * d <= P * 127 /\ P * d \in Nat
    BY <1>2
  <2>2. P * 127 + P = 128 * P
    OBVIOUS
  <2> DEFINE c == P * d
             e == P * 127
             g == 128 * P
  <2>3. c \in Nat /\ e \in Nat /\ g \in Nat /\ c <= e /\ e + P = g
    BY <2>1, <2>2
  <2> HIDE DEF c, e, g
  <2>4. c + r \in 0 .. g - 1
    BY <1>1, <2>3
  <2> QED
    BY <2>4 DEF c, g
<1>5. 128 * P \in Nat \ {0}
  OBVIOUS
<1>6. x % (128 * P) = P * d + r
  <2> DEFINE B == 128 * P
             s == P * d + r
  <2>1. B \in Nat \ {0} /\ s \in 0 .. B - 1 /\ x = B * h + s
    BY <1>3, <1>4, <1>5
  <2> HIDE DEF B, s
  <2>2. x % B = s
    BY <1>2, <2>1, DivModUnique
  <2> QED
    BY <2>2 DEF B, s
<1>7. P * d = d * P
  BY <1>2
<1>8. r + d * P = P * d + r
  BY <1>1, <1>2, <1>7
<1> QED
  BY <1>6, <1>8 DEF q, r, d

\* More digits do not tell less apart.
LEMMA PowersGrow ==
  ASSUME NEW j \in 0 .. MaxDigits, NEW i \in 0 .. j
  PROVE  Power[i] <= Power[j]
<1> DEFINE S == {k \in 0 .. MaxDigits : i <= k /\ ~(Power[i] <= Power[k])}
<1>1. MaxDigits \in Nat /\ i \in 0 .. MaxDigits /\ Power[i] \in Nat
  BY WidthAssumption, Powers
<1>2. S = {}
  <2> SUFFICES ASSUME S # {}
               PROVE  FALSE
    OBVIOUS
  <2>1. PICK k \in S : \A h \in S : k <= h
    BY <1>1, SomeBelow
  <2>2. k \in 0 .. MaxDigits /\ i <= k /\ ~(Power[i] <= Power[k])
    OBVIOUS
  <2>3. k # i
    BY <1>1, <2>2
  <2>4. k \in 1 .. MaxDigits /\ k - 1 \in 0 .. MaxDigits /\ i <= k - 1 /\ k - 1 \notin S
    <3>1. \A h \in S : k <= h
      BY <2>1
    <3> HIDE DEF S
    <3> QED
      BY <1>1, <2>2, <2>3, <3>1
  <2>5. Power[i] <= Power[k - 1]
    BY <2>4
  <2>6. Power[k] = 128 * Power[k - 1] /\ Power[k - 1] \in Nat
    BY <2>4, Powers
  <2> QED
    BY <1>1, <2>2, <2>5, <2>6
<1>3. j \notin S
  BY <1>2
<1> QED
  BY <1>3

\* The number of digits.
LEMMA SovFacts ==
  ASSUME NEW x \in Words
  PROVE  /\ sov(x) \in 1 .. MaxDigits /\ x < Power[sov(x)]
         /\ \A d \in 1 .. MaxDigits : d < sov(x) => Power[d] <= x
         /\ \A d \in 1 .. MaxDigits : x < Power[d] => sov(x) <= d
<1> DEFINE S == {n \in 0 .. MaxDigits : n # 0 /\ x < Power[n]}
           P(n) == n \in 1 .. MaxDigits /\ x < Power[n] /\ (n = 1 \/ x >= Power[n - 1])
<1>1. MaxDigits \in Nat \ {0} /\ x \in Nat /\ x < Word /\ Word \in Nat
  BY WidthAssumption DEF Words
<1>2. MaxDigits \in S
  <2>1. Word <= Power[MaxDigits] /\ Power[MaxDigits] \in Nat
    BY <1>1, EncodingAssumption, Powers
  <2> QED
    BY <1>1, <2>1
<1>3. PICK n \in S : \A j \in S : n <= j
  BY <1>1, <1>2, SomeBelow
<1>4. P(n)
  <2>1. n \in 1 .. MaxDigits /\ x < Power[n]
    BY <1>1
  <2>2. n # 1 => n - 1 \in 0 .. MaxDigits /\ n - 1 # 0 /\ n - 1 \notin S
    <3>1. \A j \in S : n <= j
      BY <1>3
    <3> HIDE DEF S
    <3> QED
      BY <1>1, <2>1, <3>1
  <2>3. n # 1 => ~(x < Power[n - 1]) /\ Power[n - 1] \in Nat
    BY <2>2, Powers
  <2> QED
    BY <1>1, <2>1, <2>3
<1>5. sov(x) = CHOOSE k \in 1 .. MaxDigits : x < Power[k] /\ (k = 1 \/ x >= Power[k - 1])
  BY DEF sov
<1> DEFINE s == sov(x)
<1>6. P(s)
  <2>1. \E k \in 1 .. MaxDigits : x < Power[k] /\ (k = 1 \/ x >= Power[k - 1])
    BY <1>4
  <2> QED
    BY <1>5, <2>1
<1> HIDE DEF s
<1>7. ASSUME NEW d \in 1 .. MaxDigits, d < s
      PROVE  Power[d] <= x
  <2>1. s - 1 \in 0 .. MaxDigits /\ d \in 0 .. s - 1 /\ s # 1
    BY <1>1, <1>6, <1>7
  <2>2. Power[d] <= Power[s - 1] /\ Power[s - 1] <= x
    BY <1>1, <1>6, <2>1, PowersGrow, Powers
  <2>3. Power[d] \in Nat /\ Power[s - 1] \in Nat
    BY <1>1, <2>1, Powers
  <2> QED
    BY <1>1, <2>2, <2>3
<1>8. ASSUME NEW d \in 1 .. MaxDigits, x < Power[d]
      PROVE  s <= d
  <2>1. d < s => Power[d] <= x
    BY <1>7
  <2>2. Power[d] \in Nat
    BY <1>1, Powers
  <2> QED
    BY <1>1, <1>6, <1>8, <2>1, <2>2
<1> QED
  BY <1>6, <1>7, <1>8 DEF s

\* The widths that the code is written for.
LEMMA Sizes ==
  /\ Base = 128 /\ Word \in Nat /\ Word > 256 /\ Half \in Nat /\ Half > 64
  /\ MaxDigits \in Nat /\ MaxDigits >= 2
  /\ Bytes = 0 .. 255 /\ Words = 0 .. Word - 1 /\ Halves = 0 .. Half - 1
  /\ Halves \subseteq Words
<1>1. /\ Base = 128 /\ Word \in Nat /\ Word > 256 /\ Half \in Nat \ {0} /\ Half > 64
      /\ MaxDigits \in Nat \ {0} /\ Word <= Power[MaxDigits] /\ Word % Half = 0
  BY WidthAssumption, EncodingAssumption
<1>2. MaxDigits >= 2
  <2>1. MaxDigits = 1 => Power[MaxDigits] = 128
    BY <1>1, Powers
  <2> QED
    BY <1>1, <2>1
<1>3. Half <= Word
  BY <1>1
<1>4. Bytes = 0 .. 255 /\ Words = 0 .. Word - 1 /\ Halves = 0 .. Half - 1
  BY <1>1 DEF Bytes, Words, Halves
<1> QED
  BY <1>1, <1>2, <1>3, <1>4

\* encodeVarint writes as many bytes as sov says, the digits from the lowest one,
\* with the top bit set in all but the last.
LEMMA VarintTyped ==
  ASSUME NEW x \in Words
  PROVE  /\ encodeVarint(x) \in Strings /\ Len(encodeVarint(x)) = sov(x)
         /\ sov(x) \in 1 .. MaxDigits
         /\ \A i \in 1 .. sov(x) :
              encodeVarint(x)[i]
                = ((x \div Power[i - 1]) % 128) + (IF i < sov(x) THEN 128 ELSE 0)
<1> DEFINE s == sov(x)
<1>1. s \in 1 .. MaxDigits /\ x \in Nat
  BY SovFacts, Sizes
<1>2. ASSUME NEW i \in 1 .. s
      PROVE  ((x \div Power[i - 1]) % 128) + (IF i < s THEN 128 ELSE 0) \in Bytes
  <2>1. Power[i - 1] \in Nat \ {0}
    <3>1. i - 1 \in 0 .. MaxDigits
      BY <1>1, Sizes
    <3> QED
      BY <3>1, Powers
  <2>2. x \div Power[i - 1] \in Nat
    BY <1>1, <2>1
  <2> DEFINE c == (x \div Power[i - 1]) % 128
  <2>3. c \in 0 .. 127
    BY <2>2
  <2> HIDE DEF c
  <2>4. c \in Bytes /\ c + 128 \in Bytes /\ c + 0 \in Bytes
    BY <2>3, Sizes
  <2>5. c + (IF i < s THEN 128 ELSE 0) \in Bytes
    BY <2>4
  <2> QED
    BY <2>5 DEF c
<1>3. encodeVarint(x)
        = [i \in 1 .. s |-> ((x \div Power[i - 1]) % 128) + (IF i < s THEN 128 ELSE 0)]
  BY Sizes DEF encodeVarint
<1>4. encodeVarint(x) \in [1 .. s -> Bytes]
  BY <1>2, <1>3
<1>5. s \in Nat
  BY <1>1
<1> HIDE DEF s
<1>6. encodeVarint(x) \in Seq(Bytes) /\ Len(encodeVarint(x)) = s
  BY <1>4, <1>5
<1> QED
  BY <1>1, <1>3, <1>6 DEF Strings, s

\* What the decoder makes of the next byte of a varint.
LEMMA VarintDigit ==
  ASSUME NEW x \in Words, NEW d \in 0 .. sov(x) - 1
  PROVE  LET b == encodeVarint(x)[d + 1] IN
         /\ b \in Bytes /\ (b < Base <=> d + 1 = sov(x))
         /\ ((x % Power[d]) + (b % Base) * Power[d]) % Word = x % Power[d + 1]
         /\ d + 1 < sov(x) => (Power[d] * Base) % Word = Power[d + 1]
         /\ d + 1 = sov(x) => x % Power[d + 1] = x
<1> DEFINE s == sov(x)
           b == encodeVarint(x)[d + 1]
           P == Power[d]
           c == (x \div P) % 128
<1>1. s \in 1 .. MaxDigits /\ x \in Nat /\ x < Word /\ x < Power[s]
  BY SovFacts, Sizes
<1>2. d \in 0 .. MaxDigits /\ d + 1 \in 1 .. MaxDigits /\ d + 1 \in 1 .. s
  BY <1>1, Sizes
<1>3. P \in Nat \ {0} /\ Power[d + 1] = 128 * P /\ Power[d + 1] \in Nat \ {0}
  <2>1. (d + 1) - 1 = d /\ d + 1 \in 0 .. MaxDigits
    BY <1>2
  <2> QED
    BY <1>2, <2>1, Powers
<1>4. x \div P \in Nat
  BY <1>1, <1>3
<1>5. c \in 0 .. 127
  BY <1>4
<1>6. b = c + (IF d + 1 < s THEN 128 ELSE 0)
  <2>1. (d + 1) - 1 = d
    BY <1>2
  <2> QED
    BY <1>2, <2>1, VarintTyped
<1> HIDE DEF b, c, s
<1>7. b \in Bytes /\ (b < 128 <=> d + 1 = s) /\ b % 128 = c
  <2>1. CASE d + 1 < s
    <3>1. b = c + 128
      BY <1>6, <2>1
    <3> QED
      BY <1>5, <2>1, <3>1, <1>1, <1>2, Sizes
  <2>2. CASE d + 1 = s
    <3>1. b = c
      BY <1>1, <1>5, <1>6, <2>2
    <3> QED
      BY <1>5, <2>2, <3>1, Sizes
  <2> QED
    BY <1>1, <1>2, <2>1, <2>2
<1>8. (x % P) + c * P = x % Power[d + 1]
  BY <1>1, <1>3, NextDigit DEF c
<1>9. x % Power[d + 1] \in Nat /\ x % Power[d + 1] <= x
  BY <1>1, <1>3
<1>10. (x % Power[d + 1]) % Word = x % Power[d + 1]
  <2> DEFINE y == x % Power[d + 1]
  <2>1. y \in Nat /\ y < Word
    BY <1>1, <1>9, Sizes
  <2> HIDE DEF y
  <2>2. y % Word = y
    BY <2>1, Sizes
  <2> QED
    BY <2>2 DEF y
<1>11. ((x % P) + (b % 128) * P) % Word = x % Power[d + 1]
  BY <1>7, <1>8, <1>10
<1>12. d + 1 < s => (P * 128) % Word = Power[d + 1]
  <2>1. d + 1 < s => Power[d + 1] <= x
    BY <1>2, SovFacts DEF s
  <2>2. P * 128 = Power[d + 1]
    BY <1>3
  <2> DEFINE y == Power[d + 1]
  <2>3. y \in Nat /\ (y <= x => y < Word)
    BY <1>1, <1>3, Sizes
  <2> HIDE DEF y
  <2>4. y <= x => y % Word = y
    BY <2>3, Sizes
  <2> QED
    BY <2>1, <2>2, <2>4 DEF y
<1>13. d + 1 = s => x % Power[d + 1] = x
  BY <1>1, <1>3
<1> QED
  BY <1>7, <1>11, <1>12, <1>13, Sizes DEF b, s, P

\* Tags and flags are short.
LEMMA SmallVarint ==
  /\ \A x \in 0 .. 127 : x \in Words /\ sov(x) = 1
  /\ \A x \in 128 .. 255 : x \in Words /\ sov(x) = 2
<1>1. Power[1] = 128 /\ Power[2] = 16384
  <2>1. 1 \in 1 .. MaxDigits /\ 2 \in 1 .. MaxDigits /\ 1 - 1 = 0 /\ 2 - 1 = 1
    BY Sizes
  <2> QED
    BY <2>1, Powers
<1>2. 1 \in 1 .. MaxDigits /\ 2 \in 1 .. MaxDigits
  BY Sizes
<1>3. ASSUME NEW x \in 0 .. 127
      PROVE  x \in Words /\ sov(x) = 1
  <2>1. x \in Words
    BY Sizes
  <2>2. sov(x) <= 1 /\ sov(x) \in 1 .. MaxDigits
    BY <1>1, <1>2, <2>1, SovFacts
  <2> QED
    BY <2>1, <2>2, Sizes
<1>4. ASSUME NEW x \in 128 .. 255
      PROVE  x \in Words /\ sov(x) = 2
  <2>1. x \in Words
    BY Sizes
  <2>2. x < 16384
    OBVIOUS
  <2>3. sov(x) <= 2 /\ sov(x) \in 1 .. MaxDigits /\ x < Power[sov(x)]
    BY <1>1, <1>2, <2>1, <2>2, SovFacts
  <2>4. sov(x) # 1
    BY <1>1, <2>3
  <2> QED
    BY <2>1, <2>3, <2>4, Sizes
<1> QED
  BY <1>3, <1>4

-----------------------------------------------------------------------------
(* Values: what they are written as, and what that is read back as.        *)

\* The varint that a scalar is written as, and what it is read back as.
Wire(kind, v) ==
  CASE kind = "bool" -> IF v THEN 1 ELSE 0
    [] kind = "int32" -> FromEnum(v)
    [] OTHER -> v

ReadBack(kind, x) ==
  CASE kind = "bool" -> x # 0
    [] kind \in {"uint32", "int32"} -> x % Half
    [] OTHER -> x

\* An enum is extended to 64 bits with its sign; the low half is the enum.
LEMMA EnumBack ==
  ASSUME NEW x \in Halves
  PROVE  FromEnum(x) \in Words /\ FromEnum(x) % Half = x
<1>1. /\ Word \in Nat /\ Half \in Nat \ {0} /\ Half > 64 /\ x \in 0 .. Half - 1
      /\ Word % Half = 0 /\ Words = 0 .. Word - 1 /\ x \in Words /\ Word > 256
  BY Sizes, EncodingAssumption
<1>2. CASE 2 * x >= Half
  <2>1. FromEnum(x) = x + Word - Half
    BY <1>2 DEF FromEnum
  <2>2. Word >= Half /\ (Word - Half) % Half = 0 /\ Word - Half \in Nat
    <3> DEFINE q == Word \div Half
    <3>1. q \in Nat /\ Word = Half * q + (Word % Half)
      BY <1>1, DivMod
    <3> HIDE DEF q
    <3>2. Word = Half * q
      BY <1>1, <3>1
    <3>3. q # 0
      BY <1>1, <3>2
    <3>4. q - 1 \in Nat /\ Half * (q - 1) = Half * q - Half
      BY <1>1, <3>1, <3>3
    <3>5. (Half * (q - 1) + 0) % Half = 0
      BY <1>1, <3>4, DivModUnique
    <3>6. Half * (q - 1) \in Nat
      BY <1>1, <3>4
    <3> DEFINE z == Half * (q - 1)
    <3>7. z \in Nat /\ z = Word - Half /\ (z + 0) % Half = 0
      BY <3>2, <3>4, <3>5, <3>6
    <3> HIDE DEF z
    <3> QED
      BY <1>1, <3>7
  <2>3. (x + (Word - Half)) % Half = x
    <3> DEFINE z == Word - Half
               q == z \div Half
    <3>1. z \in Nat /\ z % Half = 0
      BY <2>2
    <3> HIDE DEF z
    <3>2. q \in Nat /\ z = Half * q + (z % Half)
      BY <1>1, <3>1, DivMod
    <3> HIDE DEF q
    <3>3. (Half * q + x) % Half = x
      BY <1>1, <3>2, DivModUnique
    <3> DEFINE y == Half * q
    <3>4. y \in Nat /\ z = y /\ (y + x) % Half = x
      BY <1>1, <3>1, <3>2, <3>3
    <3> HIDE DEF y
    <3>5. (x + z) % Half = x
      BY <1>1, <3>4
    <3> QED
      BY <3>5 DEF z
  <2> QED
    BY <1>1, <2>1, <2>2, <2>3
<1>3. CASE ~(2 * x >= Half)
  BY <1>1, <1>3 DEF FromEnum
<1> QED
  BY <1>2, <1>3

\* A scalar that takes a varint is read back as it was.
LEMMA WireBack ==
  ASSUME NEW kind \in Varied, NEW v \in Values(kind)
  PROVE  Wire(kind, v) \in Words /\ ReadBack(kind, Wire(kind, v)) = v
<1>1. CASE kind \in {"uint64", "int64"}
  BY <1>1, KindValues DEF Wire, ReadBack
<1>2. CASE kind = "uint32"
  <2>1. v \in Halves
    BY <1>2, KindValues
  <2>2. v \in Words /\ v % Half = v
    BY <2>1, Sizes
  <2> QED
    BY <1>2, <2>2 DEF Wire, ReadBack
<1>3. CASE kind = "int32"
  <2>1. v \in Halves
    BY <1>3, KindValues
  <2> QED
    BY <1>3, <2>1, EnumBack DEF Wire, ReadBack
<1>4. CASE kind = "bool"
  <2>1. v \in BOOLEAN
    BY <1>4, KindValues
  <2>2. Wire("bool", TRUE) = 1 /\ Wire("bool", FALSE) = 0
    BY DEF Wire
  <2>3. ReadBack("bool", 1) = (1 # 0) /\ ReadBack("bool", 0) = (0 # 0)
    BY DEF ReadBack
  <2>4. (1 # 0) = TRUE /\ (0 # 0) = FALSE
    OBVIOUS
  <2>5. ReadBack("bool", 1) = TRUE /\ ReadBack("bool", 0) = FALSE
    BY <2>3, <2>4, Zenon
  <2>6. v = TRUE \/ v = FALSE
    BY <2>1
  <2>7. 1 \in Words /\ 0 \in Words
    BY Sizes
  <2> QED
    BY <1>4, <2>2, <2>5, <2>6, <2>7, Zenon
<1> QED
  BY <1>1, <1>2, <1>3, <1>4 DEF Varied

\* The bytes of a fixed32, and what the decoder makes of them.
Quarters(x) ==
  << x % 256, (x \div 256) % 256, (x \div 65536) % 256, (x \div 16777216) % 256 >>

\* The four bytes of a fixed32, put together again as Unmarshal does, in 32 bits.
LEMMA FixedBack ==
  ASSUME NEW x \in Halves
  PROVE  /\ Quarters(x) \in Strings /\ Len(Quarters(x)) = 4
         /\ \A no : EncodeFixed32(no, x) = encodeVarint(8 * no + 5) \o Quarters(x)
         /\ LET b == Quarters(x)
                w == (2 * Base) % Half
            IN  (b[1] + w * (b[2] + w * ((b[3] + w * b[4]) % Half))) % Half = x
<1> DEFINE c1 == x \div 256
           c2 == x \div 65536
           c3 == x \div 16777216
           b  == Quarters(x)
<1>1. x \in Nat /\ x < Half /\ Half \in Nat /\ Half > 64 /\ Base = 128 /\ Bytes = 0 .. 255
  BY Sizes
<1>2. (Half - 1) \div 16777216 < 256
  <2>1. (2 * 128) * (2 * 128) * (2 * 128) = 16777216 /\ 2 * 128 = 256
    OBVIOUS
  <2> QED
    BY <1>1, <2>1, EncodingAssumption
<1>3. b[1] = x % 256 /\ b[2] = c1 % 256 /\ b[3] = c2 % 256 /\ b[4] = c3 % 256 /\ Len(b) = 4
  BY DEF Quarters
<1>4. x % 256 \in Bytes /\ c1 % 256 \in Bytes /\ c2 % 256 \in Bytes /\ c3 % 256 \in Bytes
  BY <1>1
<1>5. b \in Strings
  BY <1>4 DEF Strings, Quarters
<1>6. c3 % 256 = c3 /\ c3 \in Nat
  BY <1>1, <1>2
<1>7. c2 = 256 * c3 + (c2 % 256) /\ c2 \in Nat
  BY <1>1
<1>8. c1 = 256 * c2 + (c1 % 256) /\ c1 \in Nat
  BY <1>1
<1>9. x = 256 * c1 + (x % 256)
  BY <1>1
<1>10. c2 <= x
  BY <1>1
<1>11. ASSUME NEW no
       PROVE  EncodeFixed32(no, x) = encodeVarint(8 * no + 5) \o b
  <2>1. 2 * Base = 256 /\ 256 * 256 = 65536 /\ 256 * 256 * 256 = 16777216
    BY <1>1
  <2> QED
    BY <2>1 DEF EncodeFixed32, Quarters
<1> DEFINE w == (2 * Base) % Half
<1>12. (b[1] + w * (b[2] + w * ((b[3] + w * b[4]) % Half))) % Half = x
  <2>1. CASE Half > 256
    <3>1. w = 256
      BY <1>1, <2>1
    <3>2. b[3] + 256 * b[4] = c2
      BY <1>3, <1>6, <1>7
    <3>3. c2 % Half = c2
      BY <1>1, <1>7, <1>10
    <3>4. b[2] + 256 * c2 = c1
      BY <1>3, <1>7, <1>8
    <3>5. b[1] + 256 * c1 = x
      BY <1>1, <1>3, <1>8, <1>9
    <3> HIDE DEF w, b, c1, c2, c3
    <3> QED
      BY <1>1, <3>1, <3>2, <3>3, <3>4, <3>5
  <2>2. CASE Half <= 256
    <3>1. c1 = 0 /\ c2 = 0 /\ c3 = 0 /\ x % 256 = x
      BY <1>1, <2>2
    <3>2. b[1] = x /\ b[2] = 0 /\ b[3] = 0 /\ b[4] = 0
      BY <1>3, <3>1
    <3>3. w \in Nat
      BY <1>1
    <3> HIDE DEF w, b, c1, c2, c3
    <3>4. w * 0 = 0 /\ 0 % Half = 0 /\ x % Half = x
      BY <1>1, <3>3
    <3>5. b[3] + w * b[4] = 0
      BY <3>2, <3>4
    <3>6. b[2] + w * ((b[3] + w * b[4]) % Half) = 0
      BY <3>2, <3>4, <3>5
    <3>7. b[1] + w * (b[2] + w * ((b[3] + w * b[4]) % Half)) = x
      BY <1>1, <3>2, <3>4, <3>6
    <3> QED
      BY <3>4, <3>7
  <2> QED
    BY <1>1, <2>1, <2>2
<1> QED
  BY <1>3, <1>5, <1>11, <1>12

-----------------------------------------------------------------------------
(* Messages: what is written of the fields, and where storing it leads.    *)

\* The messages of a manifest, itself among them.
Written == MessageTypes \ {"Signatures", "ApexMetadata"}

\* What is written of a message, by its type.
Marshalled(t, g) ==
  CASE t = "Extent" -> MarshalExtent(g)
    [] t = "Signature" -> MarshalSignature(g)
    [] t = "PartitionInfo" -> MarshalPartitionInfo(g)
    [] t = "InstallOperation" -> MarshalInstallOperation(g)
    [] t = "CowMergeOperation" -> MarshalCowMergeOperation(g)
    [] t = "PartitionUpdate" -> MarshalPartitionUpdate(g)
    [] t = "DynamicPartitionGroup" -> MarshalDynamicPartitionGroup(g)
    [] t = "VABCFeatureSet" -> MarshalVABCFeatureSet(g)
    [] t = "DynamicPartitionMetadata" -> MarshalDynamicPartitionMetadata(g)
    [] t = "ApexInfo" -> MarshalApexInfo(g)
    [] t = "DeltaArchiveManifest" -> MarshalManifest(g)

\* The bytes after the length, for a value that has one.
Body(kind, v) == IF kind = "bytes" THEN v ELSE FlattenSeq(Marshalled(kind, v))

\* One value of field f.
Item(f, v) ==
  CASE f.kind \in Varied -> EncodeWord(f.no, Wire(f.kind, v))
    [] f.kind = "fixed32" -> EncodeFixed32(f.no, v)
    [] OTHER -> EncodeBytes(f.no, Body(f.kind, v))

\* What is written of a field that holds x.
Items(f, x) ==
  IF f.label \in {"ptr", "rep"} THEN [i \in DOMAIN x |-> Item(f, x[i])]
  ELSE << Item(f, x) >>


\* Reading the items C one after another takes a message from a to b: the k-th
\* is the value V[k] of field F[k], and M[k] is what there is after it.
Walk(F, V, M, t, C, a, b) ==
  /\ M[0] = a /\ M[Len(C)] = b
  /\ \A k \in 1 .. Len(C) :
       /\ F[k] \in Fields[t] /\ V[k] \in Values(F[k].kind)
       /\ C[k] = Item(F[k], V[k])
       /\ M[k] = Put(M[k-1], F[k], V[k])
       /\ F[k].label = "ptr" => M[k-1][F[k].name] = <<>>

\* It passes the fields with a name in R.
Passes(F, n, R) == \A r \in R : \E k \in 1 .. n : F[k].name = r

IsItems(C) == \E S : C \in Seq(S)

Leads(t, C, a, b, R) ==
  IsItems(C) /\ \E F, V, M : Walk(F, V, M, t, C, a, b) /\ Passes(F, Len(C), R)

\* No items leave a message as it is; items after items lead on.
LEMMA LeadsNowhere == ASSUME NEW t, NEW a PROVE Leads(t, <<>>, a, a, {})
<1> DEFINE M == [k \in {0} |-> a]
<1>1. IsItems(<<>>) /\ Len(<<>>) = 0
  BY DEF IsItems
<1>2. Walk(M, M, M, t, <<>>, a, a)
  BY <1>1 DEF Walk
<1>3. Passes(M, Len(<<>>), {})
  BY DEF Passes
<1> HIDE DEF M
<1> QED
  BY <1>1, <1>2, <1>3 DEF Leads

LEMMA LeadsOn ==
  ASSUME NEW t, NEW C, NEW D, NEW a, NEW b, NEW c, NEW R, NEW Q,
         Leads(t, C, a, b, R), Leads(t, D, b, c, Q)
  PROVE  Leads(t, C \o D, a, c, R \union Q)
<1> DEFINE m == Len(C)
           n == Len(D)
           E == C \o D
<1>1. PICK S1, S2 : C \in Seq(S1) /\ D \in Seq(S2)
  BY DEF Leads, IsItems
<1>2. /\ m \in Nat /\ n \in Nat /\ Len(E) = m + n /\ E \in Seq(S1 \union S2)
      /\ \A k \in 1 .. m : E[k] = C[k]
      /\ \A k \in 1 .. n : E[m + k] = D[k]
  <2>1. C \in Seq(S1 \union S2) /\ D \in Seq(S1 \union S2)
    BY <1>1
  <2> QED
    BY <2>1
<1>3. PICK F1, V1, M1 : Walk(F1, V1, M1, t, C, a, b) /\ Passes(F1, m, R)
  BY DEF Leads
<1>4. PICK F2, V2, M2 : Walk(F2, V2, M2, t, D, b, c) /\ Passes(F2, n, Q)
  BY DEF Leads
<1> DEFINE F == [k \in 1 .. m + n |-> IF k <= m THEN F1[k] ELSE F2[k - m]]
           V == [k \in 1 .. m + n |-> IF k <= m THEN V1[k] ELSE V2[k - m]]
           M == [k \in 0 .. m + n |-> IF k <= m THEN M1[k] ELSE M2[k - m]]
<1>5. /\ \A k \in 1 .. m : F[k] = F1[k] /\ V[k] = V1[k]
      /\ \A k \in 0 .. m : M[k] = M1[k]
  BY <1>2
<1>6. /\ \A k \in 1 .. n : F[m + k] = F2[k] /\ V[m + k] = V2[k]
      /\ \A k \in 0 .. n : M[m + k] = M2[k]
  <2>1. ASSUME NEW k \in 1 .. n
        PROVE  F[m + k] = F2[k] /\ V[m + k] = V2[k] /\ M[m + k] = M2[k]
    <3>1. m + k \in 1 .. m + n /\ m + k \in 0 .. m + n /\ ~(m + k <= m) /\ (m + k) - m = k
      BY <1>2
    <3> QED
      BY <3>1
  <2>2. M[m + 0] = M2[0]
    <3>1. m + 0 = m /\ m \in 0 .. m + n
      BY <1>2
    <3>2. M[m] = M1[m]
      BY <1>2, <3>1
    <3> QED
      BY <1>3, <1>4, <3>1, <3>2 DEF Walk
  <2> HIDE DEF M, F, V
  <2>3. \A k \in 0 .. n : k = 0 \/ k \in 1 .. n
    BY <1>2
  <2> QED
    BY <2>1, <2>2, <2>3
<1> HIDE DEF F, V, M
<1>7. ASSUME NEW k \in 1 .. m + n
      PROVE  /\ F[k] \in Fields[t] /\ V[k] \in Values(F[k].kind)
             /\ E[k] = Item(F[k], V[k])
             /\ M[k] = Put(M[k-1], F[k], V[k])
             /\ F[k].label = "ptr" => M[k-1][F[k].name] = <<>>
  <2>1. CASE k <= m
    <3>1. k \in 1 .. m /\ k \in 0 .. m /\ k - 1 \in 0 .. m
      BY <1>2, <2>1
    <3>2. F[k] = F1[k] /\ V[k] = V1[k] /\ M[k] = M1[k] /\ M[k-1] = M1[k-1] /\ E[k] = C[k]
      BY <1>2, <1>5, <3>1
    <3> HIDE DEF E
    <3> QED
      BY <1>3, <3>1, <3>2 DEF Walk
  <2>2. CASE ~(k <= m)
    <3> DEFINE j == k - m
    <3>1. j \in 1 .. n /\ j \in 0 .. n /\ j - 1 \in 0 .. n /\ k = m + j /\ k - 1 = m + (j - 1)
      BY <1>2, <2>2
    <3> HIDE DEF j
    <3>2. /\ F[k] = F2[j] /\ V[k] = V2[j] /\ M[k] = M2[j] /\ M[k-1] = M2[j-1]
          /\ E[k] = D[j]
      BY <1>2, <1>6, <3>1
    <3> HIDE DEF E
    <3> QED
      BY <1>4, <3>1, <3>2 DEF Walk
  <2> QED
    BY <2>1, <2>2
<1>8. M[0] = a /\ M[m + n] = c
  <2>1. 0 \in 0 .. m /\ n \in 0 .. n
    BY <1>2
  <2> QED
    BY <1>3, <1>4, <1>5, <1>6, <2>1 DEF Walk
<1>9. Walk(F, V, M, t, E, a, c)
  BY <1>2, <1>7, <1>8 DEF Walk
<1>10. Passes(F, m + n, R \union Q)
  <2>1. ASSUME NEW r \in R
        PROVE  \E k \in 1 .. m + n : F[k].name = r
    <3>1. PICK k \in 1 .. m : F1[k].name = r
      BY <1>3 DEF Passes
    <3>2. k \in 1 .. m + n /\ F[k] = F1[k]
      BY <1>2, <1>5
    <3> QED
      BY <3>1, <3>2
  <2>2. ASSUME NEW r \in Q
        PROVE  \E k \in 1 .. m + n : F[k].name = r
    <3>1. PICK k \in 1 .. n : F2[k].name = r
      BY <1>4 DEF Passes
    <3>2. m + k \in 1 .. m + n /\ F[m + k] = F2[k]
      BY <1>2, <1>6
    <3> QED
      BY <3>1, <3>2
  <2> QED
    BY <2>1, <2>2 DEF Passes
<1>11. IsItems(E)
  BY <1>2 DEF IsItems
<1> HIDE DEF E
<1> QED
  BY <1>2, <1>9, <1>10, <1>11 DEF Leads, E

\* One item.
LEMMA LeadsToOne ==
  ASSUME NEW t, NEW f \in Fields[t], NEW v \in Values(f.kind), NEW a,
         f.label = "ptr" => a[f.name] = <<>>
  PROVE  Leads(t, << Item(f, v) >>, a, Put(a, f, v), {f.name})
<1> DEFINE F == [k \in {1} |-> f]
           V == [k \in {1} |-> v]
           M == [k \in {0, 1} |-> IF k = 0 THEN a ELSE Put(a, f, v)]
           C == << Item(f, v) >>
<1>1. Len(C) = 1 /\ C[1] = Item(f, v) /\ C \in Seq({Item(f, v)})
  OBVIOUS
<1>2. F[1] = f /\ V[1] = v /\ M[0] = a /\ M[1] = Put(a, f, v)
  OBVIOUS
<1> HIDE DEF F, V, M, C
<1>3. \A k \in 1 .. 1 : k = 1 /\ k - 1 = 0
  OBVIOUS
<1>4. Walk(F, V, M, t, C, a, Put(a, f, v))
  BY <1>1, <1>2, <1>3 DEF Walk
<1>5. Passes(F, Len(C), {f.name})
  <2>1. 1 \in 1 .. Len(C) /\ F[1].name = f.name
    BY <1>1, <1>2
  <2> QED
    BY <2>1 DEF Passes
<1>6. IsItems(C)
  BY <1>1 DEF IsItems
<1> QED
  BY <1>4, <1>5, <1>6 DEF Leads, C

\* The items of a slice, appended to a field that is empty.
LEMMA LeadsToMany ==
  ASSUME NEW t, NEW f \in Fields[t], NEW s \in Seq(Values(f.kind)), NEW a,
         f.label = "rep", f.name \in DOMAIN a, a = [n \in DOMAIN a |-> a[n]],
         a[f.name] = <<>>
  PROVE  Leads(t, [i \in DOMAIN s |-> Item(f, s[i])], a, [a EXCEPT ![f.name] = s], {})
<1> DEFINE n == Len(s)
           C == [i \in DOMAIN s |-> Item(f, s[i])]
           b == [a EXCEPT ![f.name] = s]
           F == [k \in 1 .. n |-> f]
           M == [k \in 0 .. n |-> [a EXCEPT ![f.name] = SubSeq(s, 1, k)]]
<1>1. n \in Nat /\ DOMAIN s = 1 .. n /\ \A k \in 1 .. n : s[k] \in Values(f.kind)
  OBVIOUS
<1>2. C \in Seq({Item(f, v) : v \in Values(f.kind)}) /\ Len(C) = n
  <2>1. C \in [1 .. n -> {Item(f, v) : v \in Values(f.kind)}]
    BY <1>1
  <2> HIDE DEF C
  <2> QED
    BY <1>1, <2>1
<1>3. SubSeq(s, 1, 0) = <<>> /\ SubSeq(s, 1, n) = s
  OBVIOUS
<1>4. M[0] = a /\ M[n] = b
  <2>1. 0 \in 0 .. n /\ n \in 0 .. n
    BY <1>1
  <2>2. M[0] = [a EXCEPT ![f.name] = SubSeq(s, 1, 0)]
    BY <2>1
  <2>3. M[n] = [a EXCEPT ![f.name] = SubSeq(s, 1, n)]
    BY <2>1
  <2>4. [a EXCEPT ![f.name] = <<>>] = a
    OBVIOUS
  <2> QED
    BY <1>3, <2>2, <2>3, <2>4
<1>5. ASSUME NEW k \in 1 .. n
      PROVE  M[k] = Put(M[k-1], f, s[k])
  <2>1. k \in 0 .. n /\ k - 1 \in 0 .. n
    BY <1>1
  <2> DEFINE r == SubSeq(s, 1, k - 1)
             q == SubSeq(s, 1, k)
             c == [a EXCEPT ![f.name] = r]
  <2>2. M[k-1] = c /\ M[k] = [a EXCEPT ![f.name] = q]
    BY <2>1
  <2>3. q = Append(r, s[k])
    <3>1. /\ r \in Seq(Values(f.kind)) /\ Len(r) = k - 1
          /\ \A j \in 1 .. k - 1 : r[j] = s[j]
      BY <2>1, SubSeqFirst
    <3>2. /\ q \in Seq(Values(f.kind)) /\ Len(q) = k
          /\ \A j \in 1 .. k : q[j] = s[j]
      BY <2>1, SubSeqFirst
    <3>3. s[k] \in Values(f.kind)
      BY <1>1
    <3> HIDE DEF r, q
    <3> DEFINE p == Append(r, s[k])
    <3>4. /\ p \in Seq(Values(f.kind)) /\ Len(p) = k
          /\ p[k] = s[k] /\ \A j \in 1 .. k - 1 : p[j] = r[j]
      BY <3>1, <3>3
    <3>5. \A j \in 1 .. k : j = k \/ j \in 1 .. k - 1
      BY <1>1
    <3> HIDE DEF p
    <3>6. \A j \in 1 .. k : p[j] = q[j]
      BY <3>1, <3>2, <3>4, <3>5
    <3>7. p = q
      BY <3>2, <3>4, <3>6
    <3> QED
      BY <3>7 DEF p
  <2>4. c[f.name] = r
    OBVIOUS
  <2> HIDE DEF r, q
  <2>5. Put(c, f, s[k]) = [c EXCEPT ![f.name] = Append(r, s[k])]
    BY <2>4 DEF Put
  <2>6. [c EXCEPT ![f.name] = q] = [a EXCEPT ![f.name] = q]
    OBVIOUS
  <2> QED
    BY <2>2, <2>3, <2>5, <2>6
<1>6. \A k \in 1 .. n : F[k] = f /\ C[k] = Item(f, s[k])
  BY <1>1
<1> HIDE DEF F, M, C, b
<1>7. Walk(F, s, M, t, C, a, b)
  BY <1>1, <1>2, <1>4, <1>5, <1>6 DEF Walk
<1>8. Passes(F, Len(C), {})
  BY DEF Passes
<1>9. IsItems(C)
  BY <1>2 DEF IsItems
<1> QED
  BY <1>7, <1>8, <1>9 DEF Leads, C, b

\* g as far as the fields with a name in S are concerned.
Partly(t, g, S) == [n \in Names(Fields[t]) |-> IF n \in S THEN g[n] ELSE New(t)[n]]

\* C is what is written of the fields with a name in S.
Tracks(t, g, C, S) ==
  Leads(t, C, New(t), Partly(t, g, S), S \intersect Required(t))

\* A new message has all fields, the slices and pointers of it are empty.
LEMMA NewFields ==
  ASSUME NEW t \in MessageTypes
  PROVE  /\ New(t) = [n \in Names(Fields[t]) |-> New(t)[n]]
         /\ \A f \in Fields[t] : f.label \in {"ptr", "rep"} => New(t)[f.name] = <<>>
<1> DEFINE F    == Fields[t]
           At(n) == CHOOSE g \in F : g.name = n
           Z(f) == CASE f.label \in {"ptr", "rep"} \/ f.kind = "bytes" -> <<>>
                     [] f.label \in {"opt", "req"} /\ f.kind = "bool" -> FALSE
                     [] OTHER -> 0
<1>1. IsTable(F)
  BY MessagesTabled DEF Tabled
<1>2. New(t) = [n \in Names(F) |-> Z(At(n))]
  BY DEF New, Names
<1>3. ASSUME NEW f \in F, f.label \in {"ptr", "rep"}
      PROVE  New(t)[f.name] = <<>>
  <2>1. At(f.name) = f
    <3>1. \A g \in F : g.name = f.name => g = f
      BY <1>1 DEF IsTable
    <3> QED
      BY <3>1
  <2>2. f.name \in Names(F)
    BY DEF Names
  <2>3. Z(f) = <<>>
    BY <1>3
  <2> HIDE DEF Z, At
  <2> QED
    BY <1>2, <2>1, <2>2, <2>3
<1> HIDE DEF Z, At
<1>4. New(t) = [n \in Names(F) |-> New(t)[n]]
  BY <1>2
<1> QED
  BY <1>3, <1>4

\* The next field.
LEMMA TracksOn ==
  ASSUME NEW t \in MessageTypes, NEW g \in Messages(t), NEW C, NEW S, NEW f \in Fields[t],
         Tracks(t, g, C, S), f.name \notin S
  PROVE  Tracks(t, g, C \o Items(f, g[f.name]), S \union {f.name})
<1> DEFINE N == Names(Fields[t])
           x == g[f.name]
           a == Partly(t, g, S)
           b == Partly(t, g, S \union {f.name})
           Q == {f.name} \intersect Required(t)
<1>1. /\ IsTable(Fields[t]) /\ x \in Slot(f.label, f.kind) /\ f.label \in Labels
      /\ f.name \in N
  BY MessagesTabled DEF Tabled, AreRecords, IsTable, Names
<1>2. a = [n \in N |-> a[n]] /\ DOMAIN a = N /\ a[f.name] = New(t)[f.name]
  BY <1>1 DEF Partly
<1>3. b = [a EXCEPT ![f.name] = x]
  BY <1>1 DEF Partly
<1> HIDE DEF N, x, a, b
<1>4. Leads(t, Items(f, x), a, b, Q)
  <2>1. CASE f.label \in {"opt", "req"}
    <3>1. x \in Values(f.kind)
      BY <1>1, <2>1, LabelSlots
    <3>2. Leads(t, << Item(f, x) >>, a, Put(a, f, x), {f.name})
      BY <2>1, <3>1, LeadsToOne
    <3>3. Put(a, f, x) = b
      BY <1>3, <2>1 DEF Put
    <3>4. Items(f, x) = << Item(f, x) >>
      BY <2>1 DEF Items
    <3>5. Leads(t, << Item(f, x) >>, a, b, {f.name})
      BY <3>2, <3>3
    <3> QED
      BY <3>4, <3>5 DEF Leads, Passes
  <2>2. CASE f.label = "rep"
    <3>1. x \in Seq(Values(f.kind)) /\ a[f.name] = <<>>
      BY <1>1, <1>2, <2>2, LabelSlots, NewFields
    <3>2. Items(f, x) = [i \in DOMAIN x |-> Item(f, x[i])]
      BY <2>2 DEF Items
    <3>3. Leads(t, Items(f, x), a, b, {})
      BY <1>1, <1>2, <1>3, <2>2, <3>1, <3>2, LeadsToMany
    <3>4. Q = {}
      <4>1. ASSUME f.name \in Required(t)
            PROVE  FALSE
        <5>1. PICK h \in Fields[t] : h.label = "req" /\ h.name = f.name
          BY <4>1 DEF Required
        <5>2. h = f
          BY <1>1, <5>1 DEF IsTable
        <5> QED
          BY <2>2, <5>1, <5>2
      <4> QED
        BY <4>1
    <3> QED
      BY <3>3, <3>4
  <2>3. CASE f.label = "ptr"
    <3>1. x \in Seq(Values(f.kind)) /\ Len(x) <= 1 /\ a[f.name] = <<>>
      BY <1>1, <1>2, <2>3, LabelSlots, NewFields DEF Maybe
    <3>2. Items(f, x) = [i \in DOMAIN x |-> Item(f, x[i])]
      BY <2>3 DEF Items
    <3>3. Q = {}
      <4>1. ASSUME f.name \in Required(t)
            PROVE  FALSE
        <5>1. PICK h \in Fields[t] : h.label = "req" /\ h.name = f.name
          BY <4>1 DEF Required
        <5>2. h = f
          BY <1>1, <5>1 DEF IsTable
        <5> QED
          BY <2>3, <5>1, <5>2
      <4> QED
        BY <4>1
    <3>4. CASE Len(x) = 0
      <4>1. x = <<>>
        BY <3>1, <3>4
      <4>2. Items(f, x) = <<>>
        BY <3>2, <4>1
      <4>3. b = a
        BY <1>1, <1>2, <1>3, <3>1, <4>1
      <4> QED
        BY <3>3, <4>2, <4>3, LeadsNowhere
    <3>5. CASE Len(x) = 1
      <4>1. x[1] \in Values(f.kind) /\ x = << x[1] >>
        BY <3>1, <3>5
      <4>2. Items(f, x) = << Item(f, x[1]) >>
        BY <3>1, <3>2, <3>5
      <4>3. Leads(t, << Item(f, x[1]) >>, a, Put(a, f, x[1]), {f.name})
        BY <3>1, <4>1, LeadsToOne
      <4>4. Put(a, f, x[1]) = b
        BY <1>3, <2>3, <4>1 DEF Put
      <4>5. Leads(t, << Item(f, x[1]) >>, a, b, {f.name})
        BY <4>3, <4>4
      <4>6. Leads(t, << Item(f, x[1]) >>, a, b, Q)
        BY <4>5 DEF Leads, Passes
      <4> QED
        BY <4>2, <4>6
    <3>6. Len(x) = 0 \/ Len(x) = 1
      <4> DEFINE l == Len(x)
      <4>1. l \in Nat /\ l <= 1
        BY <3>1
      <4> HIDE DEF l
      <4>2. l = 0 \/ l = 1
        BY <4>1
      <4> QED
        BY <4>2 DEF l
    <3> QED
      BY <3>4, <3>5, <3>6
  <2> QED
    BY <1>1, <2>1, <2>2, <2>3 DEF Labels
<1> HIDE DEF Q
<1> DEFINE P == S \intersect Required(t)
<1>5. Leads(t, C, New(t), a, P)
  BY DEF Tracks, a
<1> HIDE DEF P
<1>6. Leads(t, C \o Items(f, x), New(t), b, P \union Q)
  BY <1>4, <1>5, LeadsOn
<1>7. P \union Q = (S \union {f.name}) \intersect Required(t)
  BY DEF P, Q
<1> QED
  BY <1>6, <1>7 DEF Tracks, b, x

\* The first field.
LEMMA TracksFirst ==
  ASSUME NEW t \in MessageTypes, NEW g \in Messages(t), NEW f \in Fields[t]
  PROVE  Tracks(t, g, Items(f, g[f.name]), {f.name})
<1> DEFINE C == Items(f, g[f.name])
<1>1. Tracks(t, g, <<>>, {})
  <2>1. Partly(t, g, {}) = New(t)
    BY NewFields DEF Partly
  <2>2. {} \intersect Required(t) = {}
    OBVIOUS
  <2> QED
    BY <2>1, <2>2, LeadsNowhere DEF Tracks
<1>2. Tracks(t, g, <<>> \o C, {} \union {f.name})
  BY <1>1, TracksOn
<1>3. {} \union {f.name} = {f.name}
  OBVIOUS
<1>4. <<>> \o C = C
  <2>1. CASE f.label \in {"ptr", "rep"}
    <3>1. g[f.name] \in Seq(Values(f.kind))
      BY <2>1, MessagesTabled, LabelSlots DEF Tabled, AreRecords, Maybe
    <3>2. C = [i \in 1 .. Len(g[f.name]) |-> Item(f, g[f.name][i])] /\ Len(g[f.name]) \in Nat
      BY <2>1, <3>1 DEF Items
    <3>3. C \in Seq({C[i] : i \in 1 .. Len(g[f.name])})
      BY <3>2
    <3> HIDE DEF C
    <3> QED
      BY <3>3
  <2>2. CASE f.label \notin {"ptr", "rep"}
    <3>1. C = << Item(f, g[f.name]) >>
      BY <2>2 DEF Items
    <3> QED
      BY <3>1
  <2> QED
    BY <2>1, <2>2
<1> HIDE DEF C
<1> QED
  BY <1>2, <1>3, <1>4 DEF C

\* All fields: the message.
LEMMA TracksAll ==
  ASSUME NEW t \in MessageTypes, NEW g \in Messages(t), NEW C,
         Tracks(t, g, C, Names(Fields[t]))
  PROVE  Leads(t, C, New(t), g, Required(t))
<1>1. Partly(t, g, Names(Fields[t])) = g
  BY MessagesTabled DEF Partly, Tabled, AreRecords
<1>2. Names(Fields[t]) \intersect Required(t) = Required(t)
  BY DEF Required, Names
<1> QED
  BY <1>1, <1>2 DEF Tracks

-----------------------------------------------------------------------------
(* How many bytes Marshal writes, and that Size counts them.               *)

\* The bytes that a tag takes.
TagLen(no) == IF no <= 15 THEN 1 ELSE 2

FieldNos == 1 .. 19

\* A tag takes one byte up to field 15 and two from there on, as the code counts.
LEMMA TagFacts ==
  ASSUME NEW no \in FieldNos, NEW w \in 0 .. 7
  PROVE  /\ 8 * no + w \in Words /\ sov(8 * no + w) = TagLen(no)
         /\ encodeVarint(8 * no + w) \in Strings
         /\ Len(encodeVarint(8 * no + w)) = TagLen(no)
<1> DEFINE x == 8 * no + w
<1>1. x \in Words /\ sov(x) = TagLen(no)
  <2>1. CASE no <= 15
    <3>1. x \in 0 .. 127 /\ TagLen(no) = 1
      BY <2>1 DEF FieldNos, TagLen
    <3> HIDE DEF x
    <3> QED
      BY <3>1, SmallVarint
  <2>2. CASE ~(no <= 15)
    <3>1. x \in 128 .. 255 /\ TagLen(no) = 2
      BY <2>2 DEF FieldNos, TagLen
    <3> HIDE DEF x
    <3> QED
      BY <3>1, SmallVarint
  <2> QED
    BY <2>1, <2>2
<1> HIDE DEF x
<1>2. encodeVarint(x) \in Strings /\ Len(encodeVarint(x)) = TagLen(no)
  BY <1>1, VarintTyped
<1> QED
  BY <1>1, <1>2 DEF x

\* One sequence behind another.
LEMMA ConcatLen ==
  ASSUME NEW T, NEW a \in Seq(T), NEW b \in Seq(T)
  PROVE  /\ a \o b \in Seq(T) /\ Len(a \o b) = Len(a) + Len(b)
         /\ Len(a) \in Nat /\ Len(b) \in Nat
         /\ \A i \in 1 .. Len(a) : (a \o b)[i] = a[i]
         /\ \A i \in 1 .. Len(b) : (a \o b)[Len(a) + i] = b[i]
OBVIOUS

\* A varint field: the tag and the digits.
LEMMA EncodedWord ==
  ASSUME NEW no \in FieldNos, NEW x \in Words
  PROVE  /\ EncodeWord(no, x) \in Strings
         /\ Len(EncodeWord(no, x)) = TagLen(no) + sov(x)
<1> DEFINE a == encodeVarint(8 * no)
           b == encodeVarint(x)
<1>1. a \in Strings /\ Len(a) = TagLen(no)
  <2>1. 8 * no + 0 = 8 * no /\ 0 \in 0 .. 7
    BY DEF FieldNos
  <2> QED
    BY <2>1, TagFacts
<1>2. b \in Strings /\ Len(b) = sov(x)
  BY VarintTyped
<1>3. EncodeWord(no, x) = a \o b
  BY DEF EncodeWord
<1> HIDE DEF a, b
<1> QED
  BY <1>1, <1>2, <1>3, ConcatLen DEF Strings

\* The length of a string is a word, and itself unless it wraps.
LEMMA LengthWord ==
  ASSUME NEW s \in Strings
  PROVE  uint64(Len(s)) \in Words /\ (Len(s) < Word => uint64(Len(s)) = Len(s))
<1>1. Len(s) \in Nat
  BY DEF Strings
<1> QED
  BY <1>1, Sizes DEF uint64

\* A field with a length: the tag, the digits of the length, the bytes.
LEMMA EncodedBytes ==
  ASSUME NEW no \in FieldNos, NEW s \in Strings
  PROVE  /\ EncodeBytes(no, s) \in Strings
         /\ Len(EncodeBytes(no, s)) = SizeBytes(TagLen(no), Len(s))
<1> DEFINE a == encodeVarint(8 * no + 2)
           b == encodeVarint(uint64(Len(s)))
<1>1. a \in Strings /\ Len(a) = TagLen(no)
  BY TagFacts
<1>2. b \in Strings /\ Len(b) = sov(uint64(Len(s)))
  BY LengthWord, VarintTyped
<1>3. EncodeBytes(no, s) = (a \o b) \o s
  BY DEF EncodeBytes
<1> HIDE DEF a, b
<1>4. a \o b \in Strings /\ Len(a \o b) = Len(a) + Len(b)
  BY <1>1, <1>2, ConcatLen DEF Strings
<1>5. (a \o b) \o s \in Strings /\ Len((a \o b) \o s) = Len(a \o b) + Len(s)
  BY <1>4, ConcatLen DEF Strings
<1>6. Len(a) \in Nat /\ Len(b) \in Nat /\ Len(s) \in Nat
  BY <1>1, <1>2 DEF Strings
<1> QED
  BY <1>1, <1>2, <1>3, <1>4, <1>5, <1>6 DEF SizeBytes

\* What is written of a field is so many bytes.
Takes(C, n) == C \in Seq(Strings) /\ Len(FlattenSeq(C)) = n /\ n \in Nat

\* What Put writes of a field, by the kind of the field, takes the bytes that
\* Size counts: one value of a scalar, of a string or of a fixed32.
LEMMA OneTakes ==
  ASSUME NEW x \in Strings
  PROVE  Takes(<< x >>, Len(x))
<1>1. x \in Seq(Bytes) /\ Len(x) \in Nat
  BY DEF Strings
<1>2. FlattenSeq(<< x >>) = x
  BY <1>1, FlattenOne
<1> QED
  BY <1>1, <1>2 DEF Takes

LEMMA WordTakes ==
  ASSUME NEW no \in FieldNos, NEW x \in Words
  PROVE  Takes(PutWord(no, x), TagLen(no) + sov(x))
BY EncodedWord, OneTakes DEF PutWord

LEMMA BoolTakes ==
  ASSUME NEW no \in FieldNos, NEW b
  PROVE  Takes(PutBool(no, b), TagLen(no) + 1)
<1> DEFINE x == IF b THEN 1 ELSE 0
<1>1. x \in 0 .. 127
  OBVIOUS
<1> HIDE DEF x
<1>2. x \in Words /\ sov(x) = 1
  BY <1>1, SmallVarint
<1> QED
  BY <1>2, WordTakes DEF PutBool, x

LEMMA BytesTake ==
  ASSUME NEW no \in FieldNos, NEW s \in Strings
  PROVE  Takes(PutBytes(no, s), SizeBytes(TagLen(no), Len(s)))
BY EncodedBytes, OneTakes DEF PutBytes

LEMMA FixedTakes ==
  ASSUME NEW x \in Halves
  PROVE  Takes(PutFixed32(3, x), 5)
<1> DEFINE a == encodeVarint(8 * 3 + 5)
           q == Quarters(x)
<1>1. a \in Strings /\ Len(a) = 1
  <2>1. 3 \in FieldNos /\ 5 \in 0 .. 7 /\ TagLen(3) = 1
    BY DEF FieldNos, TagLen
  <2> QED
    BY <2>1, TagFacts
<1>2. q \in Strings /\ Len(q) = 4
  BY FixedBack
<1>3. EncodeFixed32(3, x) = a \o q
  BY FixedBack
<1> HIDE DEF a, q
<1>4. a \o q \in Seq(Bytes) /\ Len(a \o q) = Len(a) + Len(q)
  <2>1. a \in Seq(Bytes) /\ q \in Seq(Bytes)
    BY <1>1, <1>2 DEF Strings
  <2> QED
    BY <2>1, ConcatLen
<1>5. a \o q \in Strings /\ Len(a \o q) = 5
  BY <1>1, <1>2, <1>4 DEF Strings
<1> QED
  BY <1>3, <1>5, OneTakes DEF PutFixed32

\* A field for each of several values.
LEMMA ManyTake ==
  ASSUME NEW n \in Nat, NEW C, NEW l,
         C = [i \in 1 .. n |-> C[i]], l = [i \in 1 .. n |-> l[i]],
         \A i \in 1 .. n : C[i] \in Strings /\ l[i] = Len(C[i])
  PROVE  Takes(C, Total(l))
<1>1. C \in Seq(Strings) /\ Len(C) = n
  OBVIOUS
<1>2. l = [i \in 1 .. Len(C) |-> Len(C[i])] /\ DOMAIN l = 1 .. Len(C)
  BY <1>1
<1>3. C \in Seq(Seq(Bytes))
  BY <1>1 DEF Strings
<1>4. Total(l) = Len(FlattenSeq(C))
  BY <1>2, <1>3, LengthsTotal
<1>5. FlattenSeq(C) \in Seq(Bytes)
  BY <1>3, FlattenTyped
<1> QED
  BY <1>1, <1>4, <1>5 DEF Takes

\* The values of a slice of numbers, and those of a slice of strings.
LEMMA WordsTake ==
  ASSUME NEW no \in FieldNos, NEW s \in Seq(Words)
  PROVE  Takes(PutWords(no, s), SizeWords(TagLen(no), s))
<1> DEFINE n == Len(s)
           C == PutWords(no, s)
           l == [i \in DOMAIN s |-> TagLen(no) + sov(s[i])]
<1>1. n \in Nat /\ DOMAIN s = 1 .. n
  OBVIOUS
<1>2. C = [i \in 1 .. n |-> EncodeWord(no, s[i])]
  BY <1>1 DEF PutWords
<1>3. ASSUME NEW i \in 1 .. n
      PROVE  C[i] \in Strings /\ l[i] = Len(C[i])
  <2>1. s[i] \in Words
    OBVIOUS
  <2> QED
    BY <1>1, <1>2, <2>1, EncodedWord
<1>4. C = [i \in 1 .. n |-> C[i]] /\ l = [i \in 1 .. n |-> l[i]]
  BY <1>1, <1>2
<1>5. Total(l) = SizeWords(TagLen(no), s)
  BY DEF SizeWords
<1> HIDE DEF C, l
<1>6. Takes(C, Total(l))
  BY <1>1, <1>3, <1>4, ManyTake
<1> QED
  BY <1>5, <1>6 DEF C

LEMMA StringsTake ==
  ASSUME NEW no \in FieldNos, NEW s \in Seq(Strings)
  PROVE  Takes(PutStrings(no, s), SizeStrings(TagLen(no), s))
<1> DEFINE n == Len(s)
           C == PutStrings(no, s)
           l == [i \in DOMAIN s |-> SizeBytes(TagLen(no), Len(s[i]))]
<1>1. n \in Nat /\ DOMAIN s = 1 .. n
  OBVIOUS
<1>2. C = [i \in 1 .. n |-> EncodeBytes(no, s[i])]
  BY <1>1 DEF PutStrings
<1>3. ASSUME NEW i \in 1 .. n
      PROVE  C[i] \in Strings /\ l[i] = Len(C[i])
  <2>1. s[i] \in Strings
    OBVIOUS
  <2> QED
    BY <1>1, <1>2, <2>1, EncodedBytes
<1>4. C = [i \in 1 .. n |-> C[i]] /\ l = [i \in 1 .. n |-> l[i]]
  BY <1>1, <1>2
<1>5. Total(l) = SizeStrings(TagLen(no), s)
  BY DEF SizeStrings
<1> HIDE DEF C, l
<1>6. Takes(C, Total(l))
  BY <1>1, <1>3, <1>4, ManyTake
<1> QED
  BY <1>5, <1>6 DEF C

\* One field after another.
LEMMA TakeBoth ==
  ASSUME NEW C, NEW D, NEW m, NEW n, Takes(C, m), Takes(D, n)
  PROVE  Takes(C \o D, m + n)
<1>1. C \in Seq(Seq(Bytes)) /\ D \in Seq(Seq(Bytes))
  BY DEF Takes, Strings
<1>2. Len(FlattenSeq(C \o D)) = Len(FlattenSeq(C)) + Len(FlattenSeq(D))
  BY <1>1, FlattenConcat
<1>3. C \o D \in Seq(Strings)
  BY DEF Takes
<1> QED
  BY <1>2, <1>3 DEF Takes

-----------------------------------------------------------------------------
(* The fields of a message, one after the other.                           *)

\* What Size says of a message, by its type.
Sized(t, g) ==
  CASE t = "Extent" -> SizeExtent(g)
    [] t = "Signature" -> SizeSignature(g)
    [] t = "PartitionInfo" -> SizePartitionInfo(g)
    [] t = "InstallOperation" -> SizeInstallOperation(g)
    [] t = "CowMergeOperation" -> SizeCowMergeOperation(g)
    [] t = "PartitionUpdate" -> SizePartitionUpdate(g)
    [] t = "DynamicPartitionGroup" -> SizeDynamicPartitionGroup(g)
    [] t = "VABCFeatureSet" -> SizeVABCFeatureSet(g)
    [] t = "DynamicPartitionMetadata" -> SizeDynamicPartitionMetadata(g)
    [] t = "ApexInfo" -> SizeApexInfo(g)
    [] t = "DeltaArchiveManifest" -> SizeManifest(g)

\* The fields with a name in S are written as C, in n bytes.
Writes(t, g, C, S, n) == Tracks(t, g, C, S) /\ Takes(C, n)

\* The first field of a message, and one more behind those before it.
LEMMA WritesFirst ==
  ASSUME NEW t \in MessageTypes, NEW g \in Messages(t), NEW f \in Fields[t], NEW n,
         Takes(Items(f, g[f.name]), n)
  PROVE  Writes(t, g, Items(f, g[f.name]), {f.name}, n)
BY TracksFirst DEF Writes

LEMMA WritesOn ==
  ASSUME NEW t \in MessageTypes, NEW g \in Messages(t), NEW C, NEW S, NEW m,
         Writes(t, g, C, S, m),
         NEW f \in Fields[t], f.name \notin S, NEW n, Takes(Items(f, g[f.name]), n)
  PROVE  Writes(t, g, C \o Items(f, g[f.name]), S \union {f.name}, m + n)
BY TracksOn, TakeBoth DEF Writes

\* Marshal writes all fields of every message of a type, in Size bytes.
WritesAll(t) ==
  \A g \in Messages(t) : Writes(t, g, Marshalled(t, g), Names(Fields[t]), Sized(t, g))

\* What is written of a field, in the words of Marshal and of Size, for each kind
\* of field.
LEMMA WordItems ==
  ASSUME NEW f, f.label \in {"opt", "req"}, f.kind \in {"uint64", "int64", "uint32"},
         f.no \in FieldNos, NEW x \in Words
  PROVE  /\ Items(f, x) = PutWord(f.no, x)
         /\ Takes(Items(f, x), TagLen(f.no) + sov(x))
<1>1. Items(f, x) = PutWord(f.no, x)
  BY DEF Items, Item, PutWord, Varied, Wire
<1> QED
  BY <1>1, WordTakes

LEMMA EnumItems ==
  ASSUME NEW f, f.label \in {"opt", "req"}, f.kind = "int32",
         f.no \in FieldNos, NEW x \in Halves
  PROVE  /\ Items(f, x) = PutWord(f.no, FromEnum(x))
         /\ Takes(Items(f, x), TagLen(f.no) + sov(FromEnum(x)))
<1>1. Items(f, x) = PutWord(f.no, FromEnum(x))
  BY DEF Items, Item, PutWord, Varied, Wire
<1> QED
  BY <1>1, WordTakes, EnumBack

LEMMA BoolItems ==
  ASSUME NEW f, f.label \in {"opt", "req"}, f.kind = "bool",
         f.no \in FieldNos, NEW x
  PROVE  Items(f, x) = PutBool(f.no, x) /\ Takes(Items(f, x), TagLen(f.no) + 1)
<1>1. Items(f, x) = PutBool(f.no, x)
  BY DEF Items, Item, PutWord, PutBool, Varied, Wire
<1> QED
  BY <1>1, BoolTakes

LEMMA BytesItems ==
  ASSUME NEW f, f.label \in {"opt", "req"}, f.kind = "bytes",
         f.no \in FieldNos, NEW x \in Strings
  PROVE  /\ Items(f, x) = PutBytes(f.no, x)
         /\ Takes(Items(f, x), SizeBytes(TagLen(f.no), Len(x)))
<1>1. Items(f, x) = PutBytes(f.no, x)
  BY DEF Items, Item, Body, PutBytes, Varied
<1> QED
  BY <1>1, BytesTake

LEMMA FixedItems ==
  ASSUME NEW f, f.label \in {"opt", "req"}, f.kind = "fixed32", f.no = 3,
         NEW x \in Halves
  PROVE  Items(f, x) = PutFixed32(3, x) /\ Takes(Items(f, x), 5)
<1>1. Items(f, x) = PutFixed32(3, x)
  BY DEF Items, Item, PutFixed32, Varied
<1> QED
  BY <1>1, FixedTakes

LEMMA WordsItems ==
  ASSUME NEW f, f.label \in {"ptr", "rep"}, f.kind = "uint32",
         f.no \in FieldNos, NEW x \in Seq(Halves)
  PROVE  /\ Items(f, x) = PutWords(f.no, x)
         /\ Takes(Items(f, x), SizeWords(TagLen(f.no), x))
<1>1. Items(f, x) = PutWords(f.no, x)
  BY DEF Items, Item, PutWords, Varied, Wire
<1>2. x \in Seq(Words)
  BY Sizes
<1> QED
  BY <1>1, <1>2, WordsTake

LEMMA StringsItems ==
  ASSUME NEW f, f.label \in {"ptr", "rep"}, f.kind = "bytes",
         f.no \in FieldNos, NEW x \in Seq(Strings)
  PROVE  /\ Items(f, x) = PutStrings(f.no, x)
         /\ Takes(Items(f, x), SizeStrings(TagLen(f.no), x))
<1>1. Items(f, x) = PutStrings(f.no, x)
  BY DEF Items, Item, Body, PutStrings, Varied
<1> QED
  BY <1>1, StringsTake

\* Messages in a field, and their size.
PutAll(kind, no, s) ==
  [i \in DOMAIN s |-> EncodeBytes(no, FlattenSeq(Marshalled(kind, s[i])))]

SizeAll(kind, t, s) == Total([i \in DOMAIN s |-> SizeBytes(t, Sized(kind, s[i]))])

\* A slice of messages, each of which is written in the bytes its own Size says.
LEMMA MessageItems ==
  ASSUME NEW f, f.label \in {"ptr", "rep"}, f.kind \in Written,
         f.no \in FieldNos, WritesAll(f.kind), NEW x \in Seq(Messages(f.kind))
  PROVE  /\ Items(f, x) = PutAll(f.kind, f.no, x)
         /\ Takes(Items(f, x), SizeAll(f.kind, TagLen(f.no), x))
<1> DEFINE n == Len(x)
           C == PutAll(f.kind, f.no, x)
           l == [i \in DOMAIN x |-> SizeBytes(TagLen(f.no), Sized(f.kind, x[i]))]
<1>1. n \in Nat /\ DOMAIN x = 1 .. n
  OBVIOUS
<1>2. Items(f, x) = C
  <2>1. f.kind \notin Varied /\ f.kind # "fixed32" /\ f.kind # "bytes"
    BY KindIsMessage DEF Written, Flat
  <2> QED
    BY <2>1 DEF Items, Item, Body, PutAll
<1>3. ASSUME NEW i \in 1 .. n
      PROVE  C[i] \in Strings /\ l[i] = Len(C[i])
  <2> DEFINE e == FlattenSeq(Marshalled(f.kind, x[i]))
  <2>1. x[i] \in Messages(f.kind)
    OBVIOUS
  <2>2. Takes(Marshalled(f.kind, x[i]), Sized(f.kind, x[i]))
    BY <2>1 DEF WritesAll, Writes
  <2>3. e \in Strings /\ Len(e) = Sized(f.kind, x[i])
    <3>1. Marshalled(f.kind, x[i]) \in Seq(Seq(Bytes))
      BY <2>2 DEF Takes, Strings
    <3>2. e \in Seq(Bytes)
      BY <3>1, FlattenTyped
    <3> QED
      BY <2>2, <3>2 DEF Takes, Strings
  <2>4. C[i] = EncodeBytes(f.no, e)
    BY <1>1 DEF PutAll
  <2> HIDE DEF e
  <2> QED
    BY <1>1, <2>3, <2>4, EncodedBytes
<1>4. C = [i \in 1 .. n |-> C[i]] /\ l = [i \in 1 .. n |-> l[i]]
  BY <1>1 DEF PutAll
<1>5. Total(l) = SizeAll(f.kind, TagLen(f.no), x)
  BY DEF SizeAll
<1> HIDE DEF C, l
<1>6. Takes(C, Total(l))
  BY <1>1, <1>3, <1>4, ManyTake
<1> QED
  BY <1>2, <1>5, <1>6 DEF C

\* The tags of the fields that there are.
LEMMA TagLens ==
  /\ \A no \in 1 .. 15 : TagLen(no) = 1 /\ no \in FieldNos
  /\ \A no \in 16 .. 19 : TagLen(no) = 2 /\ no \in FieldNos
BY DEF TagLen, FieldNos

\* Of the field with this name, c is written, z bytes.
Has(t, g, name, c, z) ==
  \E f \in Fields[t] : f.name = name /\ Items(f, g[name]) = c /\ Takes(c, z)

\* The first field, and one more, from what there is of it.
LEMMA HasFirst ==
  ASSUME NEW t \in MessageTypes, NEW g \in Messages(t), NEW name, NEW c, NEW z,
         Has(t, g, name, c, z)
  PROVE  Writes(t, g, c, {name}, z)
BY WritesFirst DEF Has

LEMMA HasOn ==
  ASSUME NEW t \in MessageTypes, NEW g \in Messages(t), NEW C, NEW S, NEW m,
         Writes(t, g, C, S, m),
         NEW name, name \notin S, NEW c, NEW z, Has(t, g, name, c, z)
  PROVE  Writes(t, g, C \o c, S \union {name}, m + z)
BY WritesOn DEF Has

\* What there is of a field in a table, for each kind of field.
LEMMA WordHas ==
  ASSUME NEW t, NEW g, NEW name, NEW no \in FieldNos,
         NEW k \in {"uint64", "int64", "uint32"},
         Opt(no, name, k) \in Fields[t],
         g[name] \in Words
  PROVE  Has(t, g, name, PutWord(no, g[name]),
             TagLen(no) + sov(g[name]))
<1>1. PICK f \in Fields[t] : /\ f.name = name /\ f.no = no /\ f.kind = k
                             /\ f.label \in {"opt"}
  BY DEF Opt, Field
<1>2. /\ Items(f, g[name]) = PutWord(no, g[name])
      /\ Takes(Items(f, g[name]), TagLen(no) + sov(g[name]))
  BY <1>1, WordItems
<1> QED
  BY <1>1, <1>2 DEF Has

LEMMA EnumHas ==
  ASSUME NEW t, NEW g, NEW name, NEW no \in FieldNos,
         Opt(no, name, "int32") \in Fields[t] \/ Req(no, name, "int32") \in Fields[t],
         g[name] \in Halves
  PROVE  Has(t, g, name, PutWord(no, FromEnum(g[name])),
             TagLen(no) + sov(FromEnum(g[name])))
<1>1. PICK f \in Fields[t] : /\ f.name = name /\ f.no = no /\ f.kind = "int32"
                             /\ f.label \in {"opt", "req"}
  BY DEF Opt, Req, Field
<1>2. /\ Items(f, g[name]) = PutWord(no, FromEnum(g[name]))
      /\ Takes(Items(f, g[name]), TagLen(no) + sov(FromEnum(g[name])))
  BY <1>1, EnumItems
<1> QED
  BY <1>1, <1>2 DEF Has

LEMMA BoolHas ==
  ASSUME NEW t, NEW g, NEW name, NEW no \in FieldNos,
         Opt(no, name, "bool") \in Fields[t]
  PROVE  Has(t, g, name, PutBool(no, g[name]),
             TagLen(no) + 1)
<1>1. PICK f \in Fields[t] : /\ f.name = name /\ f.no = no /\ f.kind = "bool"
                             /\ f.label \in {"opt"}
  BY DEF Opt, Field
<1>2. /\ Items(f, g[name]) = PutBool(no, g[name])
      /\ Takes(Items(f, g[name]), TagLen(no) + 1)
  BY <1>1, BoolItems
<1> QED
  BY <1>1, <1>2 DEF Has

LEMMA BytesHas ==
  ASSUME NEW t, NEW g, NEW name, NEW no \in FieldNos,
         Opt(no, name, "bytes") \in Fields[t] \/ Req(no, name, "bytes") \in Fields[t],
         g[name] \in Strings
  PROVE  Has(t, g, name, PutBytes(no, g[name]),
             SizeBytes(TagLen(no), Len(g[name])))
<1>1. PICK f \in Fields[t] : /\ f.name = name /\ f.no = no /\ f.kind = "bytes"
                             /\ f.label \in {"opt", "req"}
  BY DEF Opt, Req, Field
<1>2. /\ Items(f, g[name]) = PutBytes(no, g[name])
      /\ Takes(Items(f, g[name]), SizeBytes(TagLen(no), Len(g[name])))
  BY <1>1, BytesItems
<1> QED
  BY <1>1, <1>2 DEF Has

LEMMA FixedHas ==
  ASSUME NEW t, NEW g, NEW name,
         Opt(3, name, "fixed32") \in Fields[t],
         g[name] \in Halves
  PROVE  Has(t, g, name, PutFixed32(3, g[name]),
             5)
<1>1. PICK f \in Fields[t] : /\ f.name = name /\ f.no = 3 /\ f.kind = "fixed32"
                             /\ f.label \in {"opt"}
  BY DEF Opt, Field
<1>2. /\ Items(f, g[name]) = PutFixed32(3, g[name])
      /\ Takes(Items(f, g[name]), 5)
  BY <1>1, FixedItems
<1> QED
  BY <1>1, <1>2 DEF Has

LEMMA WordsHas ==
  ASSUME NEW t, NEW g, NEW name, NEW no \in FieldNos,
         Ptr(no, name, "uint32") \in Fields[t],
         g[name] \in Seq(Halves)
  PROVE  Has(t, g, name, PutWords(no, g[name]),
             SizeWords(TagLen(no), g[name]))
<1>1. PICK f \in Fields[t] : /\ f.name = name /\ f.no = no /\ f.kind = "uint32"
                             /\ f.label \in {"ptr"}
  BY DEF Ptr, Field
<1>2. /\ Items(f, g[name]) = PutWords(no, g[name])
      /\ Takes(Items(f, g[name]), SizeWords(TagLen(no), g[name]))
  BY <1>1, WordsItems
<1> QED
  BY <1>1, <1>2 DEF Has

LEMMA StringsHas ==
  ASSUME NEW t, NEW g, NEW name, NEW no \in FieldNos,
         Ptr(no, name, "bytes") \in Fields[t] \/ Rep(no, name, "bytes") \in Fields[t],
         g[name] \in Seq(Strings)
  PROVE  Has(t, g, name, PutStrings(no, g[name]),
             SizeStrings(TagLen(no), g[name]))
<1>1. PICK f \in Fields[t] : /\ f.name = name /\ f.no = no /\ f.kind = "bytes"
                             /\ f.label \in {"ptr", "rep"}
  BY DEF Ptr, Rep, Field
<1>2. /\ Items(f, g[name]) = PutStrings(no, g[name])
      /\ Takes(Items(f, g[name]), SizeStrings(TagLen(no), g[name]))
  BY <1>1, StringsItems
<1> QED
  BY <1>1, <1>2 DEF Has

LEMMA MessageHas ==
  ASSUME NEW t, NEW g, NEW name, NEW no \in FieldNos,
         NEW k \in Written, WritesAll(k),
         Ptr(no, name, k) \in Fields[t] \/ Rep(no, name, k) \in Fields[t],
         g[name] \in Seq(Messages(k))
  PROVE  Has(t, g, name, PutAll(k, no, g[name]),
             SizeAll(k, TagLen(no), g[name]))
<1>1. PICK f \in Fields[t] : /\ f.name = name /\ f.no = no /\ f.kind = k
                             /\ f.label \in {"ptr", "rep"}
  BY DEF Ptr, Rep, Field
<1>2. /\ Items(f, g[name]) = PutAll(k, no, g[name])
      /\ Takes(Items(f, g[name]), SizeAll(k, TagLen(no), g[name]))
  BY <1>1, MessageItems
<1> QED
  BY <1>1, <1>2 DEF Has

-----------------------------------------------------------------------------
(* Marshal and Size of each message.                                       *)

LEMMA ExtentWritten == WritesAll("Extent")
<1> SUFFICES ASSUME NEW g \in Extents
             PROVE  Writes("Extent", g, MarshalExtent(g),
                           Names(ExtentFields), SizeExtent(g))
  BY MessageValues, TableValues DEF WritesAll, Marshalled, Sized
<1> DEFINE t == "Extent"
           C1 == PutWord(1, g.StartBlock)
           C2 == C1 \o PutWord(2, g.NumBlocks)
           N1 == TagLen(1) + sov(g.StartBlock)
           N2 == N1 + (TagLen(2) + sov(g.NumBlocks))
           S1 == {"StartBlock"}
           S2 == S1 \union {"NumBlocks"}
<1>t. /\ t \in MessageTypes /\ Fields[t] = ExtentFields /\ g \in Messages(t)
      /\ g.StartBlock \in Words /\ g.NumBlocks \in Words
  BY AllMessageTypes, MessageValues, TableValues, Sizes DEF Extents, Maybe
<1>n. 1 .. 19 = FieldNos
  BY DEF FieldNos
<1> HIDE DEF t, C1, C2, N1, N2
<1>1. Writes(t, g, C1, S1, N1)
  <2>1. /\ Opt(1, "StartBlock", "uint64") \in Fields[t] /\ 1 \in FieldNos
        /\ g.StartBlock \in Words
    BY <1>t, <1>n DEF ExtentFields
  <2>2. Has(t, g, "StartBlock", PutWord(1, g.StartBlock),
            TagLen(1) + sov(g.StartBlock))
    BY <2>1, WordHas
  <2> QED
    BY <1>t, <2>2, HasFirst DEF C1, N1
<1>2. Writes(t, g, C2, S2, N2)
  <2>1. /\ Opt(2, "NumBlocks", "uint64") \in Fields[t] /\ 2 \in FieldNos
        /\ g.NumBlocks \in Words
    BY <1>t, <1>n DEF ExtentFields
  <2>2. Has(t, g, "NumBlocks", PutWord(2, g.NumBlocks),
            TagLen(2) + sov(g.NumBlocks))
    BY <2>1, WordHas
  <2> QED
    BY <1>t, <1>1, <2>2, HasOn DEF C2, N2
<1>s. S2 = Names(ExtentFields)
  BY DEF Names, ExtentFields, Field, Opt
<1>c. C2 = MarshalExtent(g)
  BY DEF MarshalExtent, C1, C2
<1>z. N2 = SizeExtent(g)
  BY DEF TagLen, SizeExtent, N1, N2
<1> QED
  BY <1>2, <1>s, <1>c, <1>z DEF t

LEMMA SignatureWritten == WritesAll("Signature")
<1> SUFFICES ASSUME NEW g \in Signature_s
             PROVE  Writes("Signature", g, MarshalSignature(g),
                           Names(SignatureFields), SizeSignature(g))
  BY MessageValues, TableValues DEF WritesAll, Marshalled, Sized
<1> DEFINE t == "Signature"
           C1 == PutWord(1, g.Version)
           C2 == C1 \o PutStrings(2, g.Data)
           C3 == C2 \o PutFixed32(3, g.UnpaddedSignatureSize)
           N1 == TagLen(1) + sov(g.Version)
           N2 == N1 + SizeStrings(TagLen(2), g.Data)
           N3 == N2 + 5
           S1 == {"Version"}
           S2 == S1 \union {"Data"}
           S3 == S2 \union {"UnpaddedSignatureSize"}
<1>t. /\ t \in MessageTypes /\ Fields[t] = SignatureFields /\ g \in Messages(t)
      /\ g.Version \in Words /\ g.Data \in Seq(Strings)
      /\ g.UnpaddedSignatureSize \in Halves
  BY AllMessageTypes, MessageValues, TableValues, Sizes DEF Signature_s, Maybe
<1>n. 1 .. 19 = FieldNos
  BY DEF FieldNos
<1> HIDE DEF t, C1, C2, C3, N1, N2, N3
<1>1. Writes(t, g, C1, S1, N1)
  <2>1. /\ Opt(1, "Version", "uint32") \in Fields[t] /\ 1 \in FieldNos
        /\ g.Version \in Words
    BY <1>t, <1>n DEF SignatureFields
  <2>2. Has(t, g, "Version", PutWord(1, g.Version), TagLen(1) + sov(g.Version))
    BY <2>1, WordHas
  <2> QED
    BY <1>t, <2>2, HasFirst DEF C1, N1
<1>2. Writes(t, g, C2, S2, N2)
  <2>1. /\ Ptr(2, "Data", "bytes") \in Fields[t] /\ 2 \in FieldNos
        /\ g.Data \in Seq(Strings)
    BY <1>t, <1>n DEF SignatureFields
  <2>2. Has(t, g, "Data", PutStrings(2, g.Data),
            SizeStrings(TagLen(2), g.Data))
    BY <2>1, StringsHas
  <2> QED
    BY <1>t, <1>1, <2>2, HasOn DEF C2, N2
<1>3. Writes(t, g, C3, S3, N3)
  <2>1. /\ Opt(3, "UnpaddedSignatureSize", "fixed32") \in Fields[t] /\ 3 \in FieldNos
        /\ g.UnpaddedSignatureSize \in Halves
    BY <1>t, <1>n DEF SignatureFields
  <2>2. Has(t, g, "UnpaddedSignatureSize", PutFixed32(3, g.UnpaddedSignatureSize),
            5)
    BY <2>1, FixedHas
  <2> QED
    BY <1>t, <1>2, <2>2, HasOn DEF C3, N3
<1>s. S3 = Names(SignatureFields)
  BY DEF Names, SignatureFields, Field, Opt, Ptr
<1>c. C3 = MarshalSignature(g)
  BY DEF MarshalSignature, C1, C2, C3
<1>z. N3 = SizeSignature(g)
  BY DEF TagLen, SizeSignature, N1, N2, N3
<1> QED
  BY <1>3, <1>s, <1>c, <1>z DEF t

LEMMA PartitionInfoWritten == WritesAll("PartitionInfo")
<1> SUFFICES ASSUME NEW g \in PartitionInfos
             PROVE  Writes("PartitionInfo", g, MarshalPartitionInfo(g),
                           Names(PartitionInfoFields), SizePartitionInfo(g))
  BY MessageValues, TableValues DEF WritesAll, Marshalled, Sized
<1> DEFINE t == "PartitionInfo"
           C1 == PutWord(1, g.Size_)
           C2 == C1 \o PutStrings(2, g.Hash)
           N1 == TagLen(1) + sov(g.Size_)
           N2 == N1 + SizeStrings(TagLen(2), g.Hash)
           S1 == {"Size_"}
           S2 == S1 \union {"Hash"}
<1>t. /\ t \in MessageTypes /\ g \in Messages(t)
      /\ Fields[t] = PartitionInfoFields
      /\ g.Size_ \in Words /\ g.Hash \in Seq(Strings)
  BY AllMessageTypes, MessageValues, TableValues, Sizes DEF PartitionInfos, Maybe
<1>n. 1 .. 19 = FieldNos
  BY DEF FieldNos
<1> HIDE DEF t, C1, C2, N1, N2
<1>1. Writes(t, g, C1, S1, N1)
  <2>1. /\ Opt(1, "Size_", "uint64") \in Fields[t] /\ 1 \in FieldNos
        /\ g.Size_ \in Words
    BY <1>t, <1>n DEF PartitionInfoFields
  <2>2. Has(t, g, "Size_", PutWord(1, g.Size_), TagLen(1) + sov(g.Size_))
    BY <2>1, WordHas
  <2> QED
    BY <1>t, <2>2, HasFirst DEF C1, N1
<1>2. Writes(t, g, C2, S2, N2)
  <2>1. /\ Ptr(2, "Hash", "bytes") \in Fields[t] /\ 2 \in FieldNos
        /\ g.Hash \in Seq(Strings)
    BY <1>t, <1>n DEF PartitionInfoFields
  <2>2. Has(t, g, "Hash", PutStrings(2, g.Hash),
            SizeStrings(TagLen(2), g.Hash))
    BY <2>1, StringsHas
  <2> QED
    BY <1>t, <1>1, <2>2, HasOn DEF C2, N2
<1>s. S2 = Names(PartitionInfoFields)
  BY DEF Names, PartitionInfoFields, Field, Opt, Ptr
<1>c. C2 = MarshalPartitionInfo(g)
  BY DEF MarshalPartitionInfo, C1, C2
<1>z. N2 = SizePartitionInfo(g)
  BY DEF TagLen, SizePartitionInfo, N1, N2
<1> QED
  BY <1>2, <1>s, <1>c, <1>z DEF t

LEMMA DynamicPartitionGroupWritten == WritesAll("DynamicPartitionGroup")
<1> SUFFICES ASSUME NEW g \in DynamicPartitionGroups
             PROVE  Writes("DynamicPartitionGroup", g, MarshalDynamicPartitionGroup(g),
                           Names(DynamicPartitionGroupFields), SizeDynamicPartitionGroup(g))
  BY MessageValues, TableValues DEF WritesAll, Marshalled, Sized
<1> DEFINE t == "DynamicPartitionGroup"
           C1 == PutBytes(1, g.Name)
           C2 == C1 \o PutWord(2, g.Size_)
           C3 == C2 \o PutStrings(3, g.PartitionNames)
           N1 == SizeBytes(TagLen(1), Len(g.Name))
           N2 == N1 + (TagLen(2) + sov(g.Size_))
           N3 == N2 + SizeStrings(TagLen(3), g.PartitionNames)
           S1 == {"Name"}
           S2 == S1 \union {"Size_"}
           S3 == S2 \union {"PartitionNames"}
<1>t. /\ t \in MessageTypes /\ g \in Messages(t)
      /\ Fields[t] = DynamicPartitionGroupFields
      /\ g.Name \in Strings /\ g.Size_ \in Words
      /\ g.PartitionNames \in Seq(Strings)
  BY AllMessageTypes, MessageValues, TableValues, Sizes
     DEF DynamicPartitionGroups, Maybe
<1>n. 1 .. 19 = FieldNos
  BY DEF FieldNos
<1> HIDE DEF t, C1, C2, C3, N1, N2, N3
<1>1. Writes(t, g, C1, S1, N1)
  <2>1. /\ Req(1, "Name", "bytes") \in Fields[t] /\ 1 \in FieldNos
        /\ g.Name \in Strings
    BY <1>t, <1>n DEF DynamicPartitionGroupFields
  <2>2. Has(t, g, "Name", PutBytes(1, g.Name),
            SizeBytes(TagLen(1), Len(g.Name)))
    BY <2>1, BytesHas
  <2> QED
    BY <1>t, <2>2, HasFirst DEF C1, N1
<1>2. Writes(t, g, C2, S2, N2)
  <2>1. /\ Opt(2, "Size_", "uint64") \in Fields[t] /\ 2 \in FieldNos
        /\ g.Size_ \in Words
    BY <1>t, <1>n DEF DynamicPartitionGroupFields
  <2>2. Has(t, g, "Size_", PutWord(2, g.Size_), TagLen(2) + sov(g.Size_))
    BY <2>1, WordHas
  <2> QED
    BY <1>t, <1>1, <2>2, HasOn DEF C2, N2
<1>3. Writes(t, g, C3, S3, N3)
  <2>1. /\ Rep(3, "PartitionNames", "bytes") \in Fields[t] /\ 3 \in FieldNos
        /\ g.PartitionNames \in Seq(Strings)
    BY <1>t, <1>n DEF DynamicPartitionGroupFields
  <2>2. Has(t, g, "PartitionNames", PutStrings(3, g.PartitionNames),
            SizeStrings(TagLen(3), g.PartitionNames))
    BY <2>1, StringsHas
  <2> QED
    BY <1>t, <1>2, <2>2, HasOn DEF C3, N3
<1>s. S3 = Names(DynamicPartitionGroupFields)
  BY DEF Names, DynamicPartitionGroupFields, Field, Opt, Rep, Req
<1>c. C3 = MarshalDynamicPartitionGroup(g)
  BY DEF MarshalDynamicPartitionGroup, C1, C2, C3
<1>z. N3 = SizeDynamicPartitionGroup(g)
  BY DEF TagLen, SizeDynamicPartitionGroup, N1, N2, N3
<1> QED
  BY <1>3, <1>s, <1>c, <1>z DEF t

LEMMA VABCFeatureSetWritten == WritesAll("VABCFeatureSet")
<1> SUFFICES ASSUME NEW g \in VABCFeatureSets
             PROVE  Writes("VABCFeatureSet", g, MarshalVABCFeatureSet(g),
                           Names(VABCFeatureSetFields), SizeVABCFeatureSet(g))
  BY MessageValues, TableValues DEF WritesAll, Marshalled, Sized
<1> DEFINE t == "VABCFeatureSet"
           C1 == PutBool(1, g.Threaded)
           C2 == C1 \o PutBool(2, g.BatchWrites)
           N1 == TagLen(1) + 1
           N2 == N1 + (TagLen(2) + 1)
           S1 == {"Threaded"}
           S2 == S1 \union {"BatchWrites"}
<1>t. /\ t \in MessageTypes /\ g \in Messages(t)
      /\ Fields[t] = VABCFeatureSetFields
  BY AllMessageTypes, MessageValues, TableValues, Sizes DEF VABCFeatureSets, Maybe
<1>n. 1 .. 19 = FieldNos
  BY DEF FieldNos
<1> HIDE DEF t, C1, C2, N1, N2
<1>1. Writes(t, g, C1, S1, N1)
  <2>1. Opt(1, "Threaded", "bool") \in Fields[t] /\ 1 \in FieldNos
    BY <1>t, <1>n DEF VABCFeatureSetFields
  <2>2. Has(t, g, "Threaded", PutBool(1, g.Threaded), TagLen(1) + 1)
    BY <2>1, BoolHas
  <2> QED
    BY <1>t, <2>2, HasFirst DEF C1, N1
<1>2. Writes(t, g, C2, S2, N2)
  <2>1. Opt(2, "BatchWrites", "bool") \in Fields[t] /\ 2 \in FieldNos
    BY <1>t, <1>n DEF VABCFeatureSetFields
  <2>2. Has(t, g, "BatchWrites", PutBool(2, g.BatchWrites), TagLen(2) + 1)
    BY <2>1, BoolHas
  <2> QED
    BY <1>t, <1>1, <2>2, HasOn DEF C2, N2
<1>s. S2 = Names(VABCFeatureSetFields)
  BY DEF Names, VABCFeatureSetFields, Field, Opt
<1>c. C2 = MarshalVABCFeatureSet(g)
  BY DEF MarshalVABCFeatureSet, C1, C2
<1>z. N2 = SizeVABCFeatureSet(g)
  BY DEF TagLen, SizeVABCFeatureSet, N1, N2
<1> QED
  BY <1>2, <1>s, <1>c, <1>z DEF t

LEMMA ApexInfoWritten == WritesAll("ApexInfo")
<1> SUFFICES ASSUME NEW g \in ApexInfos
             PROVE  Writes("ApexInfo", g, MarshalApexInfo(g),
                           Names(ApexInfoFields), SizeApexInfo(g))
  BY MessageValues, TableValues DEF WritesAll, Marshalled, Sized
<1> DEFINE t == "ApexInfo"
           C1 == PutBytes(1, g.PackageName)
           C2 == C1 \o PutWord(2, g.Version)
           C3 == C2 \o PutBool(3, g.IsCompressed)
           C4 == C3 \o PutWord(4, g.DecompressedSize)
           N1 == SizeBytes(TagLen(1), Len(g.PackageName))
           N2 == N1 + (TagLen(2) + sov(g.Version))
           N3 == N2 + (TagLen(3) + 1)
           N4 == N3 + (TagLen(4) + sov(g.DecompressedSize))
           S1 == {"PackageName"}
           S2 == S1 \union {"Version"}
           S3 == S2 \union {"IsCompressed"}
           S4 == S3 \union {"DecompressedSize"}
<1>t. /\ t \in MessageTypes /\ Fields[t] = ApexInfoFields /\ g \in Messages(t)
      /\ g.PackageName \in Strings /\ g.Version \in Words
      /\ g.DecompressedSize \in Words
  BY AllMessageTypes, MessageValues, TableValues, Sizes DEF ApexInfos, Maybe
<1>n. 1 .. 19 = FieldNos
  BY DEF FieldNos
<1> HIDE DEF t, C1, C2, C3, C4, N1, N2, N3, N4
<1>1. Writes(t, g, C1, S1, N1)
  <2>1. /\ Opt(1, "PackageName", "bytes") \in Fields[t] /\ 1 \in FieldNos
        /\ g.PackageName \in Strings
    BY <1>t, <1>n DEF ApexInfoFields
  <2>2. Has(t, g, "PackageName", PutBytes(1, g.PackageName),
            SizeBytes(TagLen(1), Len(g.PackageName)))
    BY <2>1, BytesHas
  <2> QED
    BY <1>t, <2>2, HasFirst DEF C1, N1
<1>2. Writes(t, g, C2, S2, N2)
  <2>1. /\ Opt(2, "Version", "int64") \in Fields[t] /\ 2 \in FieldNos
        /\ g.Version \in Words
    BY <1>t, <1>n DEF ApexInfoFields
  <2>2. Has(t, g, "Version", PutWord(2, g.Version), TagLen(2) + sov(g.Version))
    BY <2>1, WordHas
  <2> QED
    BY <1>t, <1>1, <2>2, HasOn DEF C2, N2
<1>3. Writes(t, g, C3, S3, N3)
  <2>1. Opt(3, "IsCompressed", "bool") \in Fields[t] /\ 3 \in FieldNos
    BY <1>t, <1>n DEF ApexInfoFields
  <2>2. Has(t, g, "IsCompressed", PutBool(3, g.IsCompressed), TagLen(3) + 1)
    BY <2>1, BoolHas
  <2> QED
    BY <1>t, <1>2, <2>2, HasOn DEF C3, N3
<1>4. Writes(t, g, C4, S4, N4)
  <2>1. /\ Opt(4, "DecompressedSize", "int64") \in Fields[t] /\ 4 \in FieldNos
        /\ g.DecompressedSize \in Words
    BY <1>t, <1>n DEF ApexInfoFields
  <2>2. Has(t, g, "DecompressedSize", PutWord(4, g.DecompressedSize),
            TagLen(4) + sov(g.DecompressedSize))
    BY <2>1, WordHas
  <2> QED
    BY <1>t, <1>3, <2>2, HasOn DEF C4, N4
<1>s. S4 = Names(ApexInfoFields)
  BY DEF Names, ApexInfoFields, Field, Opt
<1>c. C4 = MarshalApexInfo(g)
  BY DEF MarshalApexInfo, C1, C2, C3, C4
<1>z. N4 = SizeApexInfo(g)
  BY DEF TagLen, SizeApexInfo, N1, N2, N3, N4
<1> QED
  BY <1>4, <1>s, <1>c, <1>z DEF t

LEMMA InstallOperationWritten == WritesAll("InstallOperation")
<1> SUFFICES ASSUME NEW g \in InstallOperations
             PROVE  Writes("InstallOperation", g, MarshalInstallOperation(g),
                           Names(InstallOperationFields), SizeInstallOperation(g))
  BY MessageValues, TableValues DEF WritesAll, Marshalled, Sized
<1> DEFINE t == "InstallOperation"
           C1 == PutWord(1, FromEnum(g.Type))
           C2 == C1 \o PutWord(2, g.DataOffset)
           C3 == C2 \o PutWord(3, g.DataLength)
           C4 == C3 \o PutAll("Extent", 4, g.SrcExtents)
           C5 == C4 \o PutWord(5, g.SrcLength)
           C6 == C5 \o PutAll("Extent", 6, g.DstExtents)
           C7 == C6 \o PutWord(7, g.DstLength)
           C8 == C7 \o PutStrings(8, g.DataSha256Hash)
           C9 == C8 \o PutStrings(9, g.SrcSha256Hash)
           N1 == TagLen(1) + sov(FromEnum(g.Type))
           N2 == N1 + (TagLen(2) + sov(g.DataOffset))
           N3 == N2 + (TagLen(3) + sov(g.DataLength))
           N4 == N3 + SizeAll("Extent", TagLen(4), g.SrcExtents)
           N5 == N4 + (TagLen(5) + sov(g.SrcLength))
           N6 == N5 + SizeAll("Extent", TagLen(6), g.DstExtents)
           N7 == N6 + (TagLen(7) + sov(g.DstLength))
           N8 == N7 + SizeStrings(TagLen(8), g.DataSha256Hash)
           N9 == N8 + SizeStrings(TagLen(9), g.SrcSha256Hash)
           S1 == {"Type"}
           S2 == S1 \union {"DataOffset"}
           S3 == S2 \union {"DataLength"}
           S4 == S3 \union {"SrcExtents"}
           S5 == S4 \union {"SrcLength"}
           S6 == S5 \union {"DstExtents"}
           S7 == S6 \union {"DstLength"}
           S8 == S7 \union {"DataSha256Hash"}
           S9 == S8 \union {"SrcSha256Hash"}
<1>t. /\ t \in MessageTypes /\ g \in Messages(t)
      /\ Fields[t] = InstallOperationFields
      /\ g.Type \in Halves /\ g.DataOffset \in Words /\ g.DataLength \in Words
      /\ g.SrcExtents \in Seq(Extents) /\ g.SrcLength \in Words
      /\ g.DstExtents \in Seq(Extents) /\ g.DstLength \in Words
      /\ g.DataSha256Hash \in Seq(Strings) /\ g.SrcSha256Hash \in Seq(Strings)
  BY AllMessageTypes, MessageValues, TableValues, Sizes
     DEF InstallOperations, Maybe
<1>m. /\ "Extent" \in Written /\ Messages("Extent") = Extents
  BY AllMessageTypes, MessageValues DEF Written
<1>n. 1 .. 19 = FieldNos
  BY DEF FieldNos
<1> HIDE DEF t, C1, C2, C3, C4, C5, C6, C7, C8, C9, N1, N2, N3, N4, N5, N6,
             N7, N8, N9
<1>1. Writes(t, g, C1, S1, N1)
  <2>1. /\ Req(1, "Type", "int32") \in Fields[t] /\ 1 \in FieldNos
        /\ g.Type \in Halves
    BY <1>t, <1>n DEF InstallOperationFields
  <2>2. Has(t, g, "Type", PutWord(1, FromEnum(g.Type)),
            TagLen(1) + sov(FromEnum(g.Type)))
    BY <2>1, EnumHas
  <2> QED
    BY <1>t, <2>2, HasFirst DEF C1, N1
<1>2. Writes(t, g, C2, S2, N2)
  <2>1. /\ Opt(2, "DataOffset", "uint64") \in Fields[t] /\ 2 \in FieldNos
        /\ g.DataOffset \in Words
    BY <1>t, <1>n DEF InstallOperationFields
  <2>2. Has(t, g, "DataOffset", PutWord(2, g.DataOffset),
            TagLen(2) + sov(g.DataOffset))
    BY <2>1, WordHas
  <2> QED
    BY <1>t, <1>1, <2>2, HasOn DEF C2, N2
<1>3. Writes(t, g, C3, S3, N3)
  <2>1. /\ Opt(3, "DataLength", "uint64") \in Fields[t] /\ 3 \in FieldNos
        /\ g.DataLength \in Words
    BY <1>t, <1>n DEF InstallOperationFields
  <2>2. Has(t, g, "DataLength", PutWord(3, g.DataLength),
            TagLen(3) + sov(g.DataLength))
    BY <2>1, WordHas
  <2> QED
    BY <1>t, <1>2, <2>2, HasOn DEF C3, N3
<1>4. Writes(t, g, C4, S4, N4)
  <2>1. /\ Rep(4, "SrcExtents", "Extent") \in Fields[t] /\ 4 \in FieldNos
        /\ g.SrcExtents \in Seq(Extents)
    BY <1>t, <1>n DEF InstallOperationFields
  <2>2. Has(t, g, "SrcExtents", PutAll("Extent", 4, g.SrcExtents),
            SizeAll("Extent", TagLen(4), g.SrcExtents))
    BY <1>m, <2>1, MessageHas, ExtentWritten
  <2> QED
    BY <1>t, <1>3, <2>2, HasOn DEF C4, N4
<1>5. Writes(t, g, C5, S5, N5)
  <2>1. /\ Opt(5, "SrcLength", "uint64") \in Fields[t] /\ 5 \in FieldNos
        /\ g.SrcLength \in Words
    BY <1>t, <1>n DEF InstallOperationFields
  <2>2. Has(t, g, "SrcLength", PutWord(5, g.SrcLength),
            TagLen(5) + sov(g.SrcLength))
    BY <2>1, WordHas
  <2> QED
    BY <1>t, <1>4, <2>2, HasOn DEF C5, N5
<1>6. Writes(t, g, C6, S6, N6)
  <2>1. /\ Rep(6, "DstExtents", "Extent") \in Fields[t] /\ 6 \in FieldNos
        /\ g.DstExtents \in Seq(Extents)
    BY <1>t, <1>n DEF InstallOperationFields
  <2>2. Has(t, g, "DstExtents", PutAll("Extent", 6, g.DstExtents),
            SizeAll("Extent", TagLen(6), g.DstExtents))
    BY <1>m, <2>1, MessageHas, ExtentWritten
  <2> QED
    BY <1>t, <1>5, <2>2, HasOn DEF C6, N6
<1>7. Writes(t, g, C7, S7, N7)
  <2>1. /\ Opt(7, "DstLength", "uint64") \in Fields[t] /\ 7 \in FieldNos
        /\ g.DstLength \in Words
    BY <1>t, <1>n DEF InstallOperationFields
  <2>2. Has(t, g, "DstLength", PutWord(7, g.DstLength),
            TagLen(7) + sov(g.DstLength))
    BY <2>1, WordHas
  <2> QED
    BY <1>t, <1>6, <2>2, HasOn DEF C7, N7
<1>8. Writes(t, g, C8, S8, N8)
  <2>1. /\ Ptr(8, "DataSha256Hash", "bytes") \in Fields[t] /\ 8 \in FieldNos
        /\ g.DataSha256Hash \in Seq(Strings)
    BY <1>t, <1>n DEF InstallOperationFields
  <2>2. Has(t, g, "DataSha256Hash", PutStrings(8, g.DataSha256Hash),
            SizeStrings(TagLen(8), g.DataSha256Hash))
    BY <2>1, StringsHas
  <2> QED
    BY <1>t, <1>7, <2>2, HasOn DEF C8, N8
<1>9. Writes(t, g, C9, S9, N9)
  <2>1. /\ Ptr(9, "SrcSha256Hash", "bytes") \in Fields[t] /\ 9 \in FieldNos
        /\ g.SrcSha256Hash \in Seq(Strings)
    BY <1>t, <1>n DEF InstallOperationFields
  <2>2. Has(t, g, "SrcSha256Hash", PutStrings(9, g.SrcSha256Hash),
            SizeStrings(TagLen(9), g.SrcSha256Hash))
    BY <2>1, StringsHas
  <2> QED
    BY <1>t, <1>8, <2>2, HasOn DEF C9, N9
<1>s. S9 = Names(InstallOperationFields)
  BY DEF Names, InstallOperationFields, Field, Opt, Ptr, Rep, Req
<1>c. C9 = MarshalInstallOperation(g)
  BY DEF MarshalInstallOperation, C1, C2, C3, C4, C5, C6, C7, C8, C9, PutAll,
         PutEach, Marshalled
<1>z. N9 = SizeInstallOperation(g)
  BY DEF TagLen, SizeInstallOperation, N1, N2, N3, N4, N5, N6, N7, N8, N9,
         SizeAll, SizeEach, Sized
<1> QED
  BY <1>9, <1>s, <1>c, <1>z DEF t

LEMMA CowMergeOperationWritten == WritesAll("CowMergeOperation")
<1> SUFFICES ASSUME NEW g \in CowMergeOperations
             PROVE  Writes("CowMergeOperation", g, MarshalCowMergeOperation(g),
                           Names(CowMergeOperationFields), SizeCowMergeOperation(g))
  BY MessageValues, TableValues DEF WritesAll, Marshalled, Sized
<1> DEFINE t == "CowMergeOperation"
           C1 == PutWord(1, FromEnum(g.Type))
           C2 == C1 \o PutAll("Extent", 2, g.SrcExtent)
           C3 == C2 \o PutAll("Extent", 3, g.DstExtent)
           C4 == C3 \o PutWord(4, g.SrcOffset)
           N1 == TagLen(1) + sov(FromEnum(g.Type))
           N2 == N1 + SizeAll("Extent", TagLen(2), g.SrcExtent)
           N3 == N2 + SizeAll("Extent", TagLen(3), g.DstExtent)
           N4 == N3 + (TagLen(4) + sov(g.SrcOffset))
           S1 == {"Type"}
           S2 == S1 \union {"SrcExtent"}
           S3 == S2 \union {"DstExtent"}
           S4 == S3 \union {"SrcOffset"}
<1>t. /\ t \in MessageTypes /\ g \in Messages(t)
      /\ Fields[t] = CowMergeOperationFields
      /\ g.Type \in Halves /\ g.SrcExtent \in Seq(Extents)
      /\ g.DstExtent \in Seq(Extents) /\ g.SrcOffset \in Words
  BY AllMessageTypes, MessageValues, TableValues, Sizes
     DEF CowMergeOperations, Maybe
<1>m. /\ "Extent" \in Written /\ Messages("Extent") = Extents
  BY AllMessageTypes, MessageValues DEF Written
<1>n. 1 .. 19 = FieldNos
  BY DEF FieldNos
<1> HIDE DEF t, C1, C2, C3, C4, N1, N2, N3, N4
<1>1. Writes(t, g, C1, S1, N1)
  <2>1. /\ Opt(1, "Type", "int32") \in Fields[t] /\ 1 \in FieldNos
        /\ g.Type \in Halves
    BY <1>t, <1>n DEF CowMergeOperationFields
  <2>2. Has(t, g, "Type", PutWord(1, FromEnum(g.Type)),
            TagLen(1) + sov(FromEnum(g.Type)))
    BY <2>1, EnumHas
  <2> QED
    BY <1>t, <2>2, HasFirst DEF C1, N1
<1>2. Writes(t, g, C2, S2, N2)
  <2>1. /\ Ptr(2, "SrcExtent", "Extent") \in Fields[t] /\ 2 \in FieldNos
        /\ g.SrcExtent \in Seq(Extents)
    BY <1>t, <1>n DEF CowMergeOperationFields
  <2>2. Has(t, g, "SrcExtent", PutAll("Extent", 2, g.SrcExtent),
            SizeAll("Extent", TagLen(2), g.SrcExtent))
    BY <1>m, <2>1, MessageHas, ExtentWritten
  <2> QED
    BY <1>t, <1>1, <2>2, HasOn DEF C2, N2
<1>3. Writes(t, g, C3, S3, N3)
  <2>1. /\ Ptr(3, "DstExtent", "Extent") \in Fields[t] /\ 3 \in FieldNos
        /\ g.DstExtent \in Seq(Extents)
    BY <1>t, <1>n DEF CowMergeOperationFields
  <2>2. Has(t, g, "DstExtent", PutAll("Extent", 3, g.DstExtent),
            SizeAll("Extent", TagLen(3), g.DstExtent))
    BY <1>m, <2>1, MessageHas, ExtentWritten
  <2> QED
    BY <1>t, <1>2, <2>2, HasOn DEF C3, N3
<1>4. Writes(t, g, C4, S4, N4)
  <2>1. /\ Opt(4, "SrcOffset", "uint32") \in Fields[t] /\ 4 \in FieldNos
        /\ g.SrcOffset \in Words
    BY <1>t, <1>n DEF CowMergeOperationFields
  <2>2. Has(t, g, "SrcOffset", PutWord(4, g.SrcOffset),
            TagLen(4) + sov(g.SrcOffset))
    BY <2>1, WordHas
  <2> QED
    BY <1>t, <1>3, <2>2, HasOn DEF C4, N4
<1>s. S4 = Names(CowMergeOperationFields)
  BY DEF Names, CowMergeOperationFields, Field, Opt, Ptr
<1>c. C4 = MarshalCowMergeOperation(g)
  BY DEF MarshalCowMergeOperation, C1, C2, C3, C4, PutAll, PutEach, Marshalled
<1>z. N4 = SizeCowMergeOperation(g)
  BY DEF TagLen, SizeCowMergeOperation, N1, N2, N3, N4, SizeAll, SizeEach,
         Sized
<1> QED
  BY <1>4, <1>s, <1>c, <1>z DEF t

LEMMA DynamicPartitionMetadataWritten == WritesAll("DynamicPartitionMetadata")
<1> SUFFICES ASSUME NEW g \in DynamicPartitionMetadatas
             PROVE  Writes("DynamicPartitionMetadata", g, MarshalDynamicPartitionMetadata(g),
                           Names(DynamicPartitionMetadataFields), SizeDynamicPartitionMetadata(g))
  BY MessageValues, TableValues DEF WritesAll, Marshalled, Sized
<1> DEFINE t == "DynamicPartitionMetadata"
           C1 == PutAll("DynamicPartitionGroup", 1, g.Groups)
           C2 == C1 \o PutBool(2, g.SnapshotEnabled)
           C3 == C2 \o PutBool(3, g.VabcEnabled)
           C4 == C3 \o PutBytes(4, g.VabcCompressionParam)
           C5 == C4 \o PutWord(5, g.CowVersion)
           C6 == C5 \o PutAll("VABCFeatureSet", 6, g.VabcFeatureSet)
           N1 == SizeAll("DynamicPartitionGroup", TagLen(1), g.Groups)
           N2 == N1 + (TagLen(2) + 1)
           N3 == N2 + (TagLen(3) + 1)
           N4 == N3 + SizeBytes(TagLen(4), Len(g.VabcCompressionParam))
           N5 == N4 + (TagLen(5) + sov(g.CowVersion))
           N6 == N5 + SizeAll("VABCFeatureSet", TagLen(6), g.VabcFeatureSet)
           S1 == {"Groups"}
           S2 == S1 \union {"SnapshotEnabled"}
           S3 == S2 \union {"VabcEnabled"}
           S4 == S3 \union {"VabcCompressionParam"}
           S5 == S4 \union {"CowVersion"}
           S6 == S5 \union {"VabcFeatureSet"}
<1>t. /\ t \in MessageTypes /\ g \in Messages(t)
      /\ Fields[t] = DynamicPartitionMetadataFields
      /\ g.Groups \in Seq(DynamicPartitionGroups)
      /\ g.VabcCompressionParam \in Strings /\ g.CowVersion \in Words
      /\ g.VabcFeatureSet \in Seq(VABCFeatureSets)
  BY AllMessageTypes, MessageValues, TableValues, Sizes
     DEF DynamicPartitionMetadatas, Maybe
<1>m. /\ "DynamicPartitionGroup" \in Written
      /\ Messages("DynamicPartitionGroup") = DynamicPartitionGroups
      /\ "VABCFeatureSet" \in Written /\ Messages("VABCFeatureSet") = VABCFeatureSets
  BY AllMessageTypes, MessageValues DEF Written
<1>n. 1 .. 19 = FieldNos
  BY DEF FieldNos
<1> HIDE DEF t, C1, C2, C3, C4, C5, C6, N1, N2, N3, N4, N5, N6
<1>1. Writes(t, g, C1, S1, N1)
  <2>1. /\ Rep(1, "Groups", "DynamicPartitionGroup") \in Fields[t] /\ 1 \in FieldNos
        /\ g.Groups \in Seq(DynamicPartitionGroups)
    BY <1>t, <1>n DEF DynamicPartitionMetadataFields
  <2>2. Has(t, g, "Groups", PutAll("DynamicPartitionGroup", 1, g.Groups),
            SizeAll("DynamicPartitionGroup", TagLen(1), g.Groups))
    BY <1>m, <2>1, MessageHas, DynamicPartitionGroupWritten
  <2> QED
    BY <1>t, <2>2, HasFirst DEF C1, N1
<1>2. Writes(t, g, C2, S2, N2)
  <2>1. Opt(2, "SnapshotEnabled", "bool") \in Fields[t] /\ 2 \in FieldNos
    BY <1>t, <1>n DEF DynamicPartitionMetadataFields
  <2>2. Has(t, g, "SnapshotEnabled", PutBool(2, g.SnapshotEnabled),
            TagLen(2) + 1)
    BY <2>1, BoolHas
  <2> QED
    BY <1>t, <1>1, <2>2, HasOn DEF C2, N2
<1>3. Writes(t, g, C3, S3, N3)
  <2>1. Opt(3, "VabcEnabled", "bool") \in Fields[t] /\ 3 \in FieldNos
    BY <1>t, <1>n DEF DynamicPartitionMetadataFields
  <2>2. Has(t, g, "VabcEnabled", PutBool(3, g.VabcEnabled), TagLen(3) + 1)
    BY <2>1, BoolHas
  <2> QED
    BY <1>t, <1>2, <2>2, HasOn DEF C3, N3
<1>4. Writes(t, g, C4, S4, N4)
  <2>1. /\ Opt(4, "VabcCompressionParam", "bytes") \in Fields[t] /\ 4 \in FieldNos
        /\ g.VabcCompressionParam \in Strings
    BY <1>t, <1>n DEF DynamicPartitionMetadataFields
  <2>2. Has(t, g, "VabcCompressionParam", PutBytes(4, g.VabcCompressionParam),
            SizeBytes(TagLen(4), Len(g.VabcCompressionParam)))
    BY <2>1, BytesHas
  <2> QED
    BY <1>t, <1>3, <2>2, HasOn DEF C4, N4
<1>5. Writes(t, g, C5, S5, N5)
  <2>1. /\ Opt(5, "CowVersion", "uint32") \in Fields[t] /\ 5 \in FieldNos
        /\ g.CowVersion \in Words
    BY <1>t, <1>n DEF DynamicPartitionMetadataFields
  <2>2. Has(t, g, "CowVersion", PutWord(5, g.CowVersion),
            TagLen(5) + sov(g.CowVersion))
    BY <2>1, WordHas
  <2> QED
    BY <1>t, <1>4, <2>2, HasOn DEF C5, N5
<1>6. Writes(t, g, C6, S6, N6)
  <2>1. /\ Ptr(6, "VabcFeatureSet", "VABCFeatureSet") \in Fields[t] /\ 6 \in FieldNos
        /\ g.VabcFeatureSet \in Seq(VABCFeatureSets)
    BY <1>t, <1>n DEF DynamicPartitionMetadataFields
  <2>2. Has(t, g, "VabcFeatureSet", PutAll("VABCFeatureSet", 6, g.VabcFeatureSet),
            SizeAll("VABCFeatureSet", TagLen(6), g.VabcFeatureSet))
    BY <1>m, <2>1, MessageHas, VABCFeatureSetWritten
  <2> QED
    BY <1>t, <1>5, <2>2, HasOn DEF C6, N6
<1>s. S6 = Names(DynamicPartitionMetadataFields)
  BY DEF Names, DynamicPartitionMetadataFields, Field, Opt, Ptr, Rep
<1>c. C6 = MarshalDynamicPartitionMetadata(g)
  BY DEF MarshalDynamicPartitionMetadata, C1, C2, C3, C4, C5, C6, PutAll,
         PutEach, Marshalled
<1>z. N6 = SizeDynamicPartitionMetadata(g)
  BY DEF TagLen, SizeDynamicPartitionMetadata, N1, N2, N3, N4, N5, N6,
         SizeAll, SizeEach, Sized
<1> QED
  BY <1>6, <1>s, <1>c, <1>z DEF t

LEMMA PartitionUpdateWritten == WritesAll("PartitionUpdate")
<1> SUFFICES ASSUME NEW g \in PartitionUpdates
             PROVE  Writes("PartitionUpdate", g, MarshalPartitionUpdate(g),
                           Names(PartitionUpdateFields), SizePartitionUpdate(g))
  BY MessageValues, TableValues DEF WritesAll, Marshalled, Sized
<1> DEFINE t == "PartitionUpdate"
           C1 == PutBytes(1, g.PartitionName)
           C2 == C1 \o PutBool(2, g.RunPostinstall)
           C3 == C2 \o PutBytes(3, g.PostinstallPath)
           C4 == C3 \o PutBytes(4, g.FilesystemType)
           C5 == C4 \o PutAll("Signature", 5, g.NewPartitionSignature)
           C6 == C5 \o PutAll("PartitionInfo", 6, g.OldPartitionInfo)
           C7 == C6 \o PutAll("PartitionInfo", 7, g.NewPartitionInfo)
           C8 == C7 \o PutAll("InstallOperation", 8, g.Operations)
           C9 == C8 \o PutBool(9, g.PostinstallOptional)
           C10 == C9 \o PutAll("Extent", 10, g.HashTreeDataExtent)
           C11 == C10 \o PutAll("Extent", 11, g.HashTreeExtent)
           C12 == C11 \o PutBytes(12, g.HashTreeAlgorithm)
           C13 == C12 \o PutStrings(13, g.HashTreeSalt)
           C14 == C13 \o PutAll("Extent", 14, g.FecDataExtent)
           C15 == C14 \o PutAll("Extent", 15, g.FecExtent)
           C16 == C15 \o PutWords(16, g.FecRoots)
           C17 == C16 \o PutBytes(17, g.Version)
           C18 == C17 \o PutAll("CowMergeOperation", 18, g.MergeOperations)
           C19 == C18 \o PutWord(19, g.EstimateCowSize)
           N1 == SizeBytes(TagLen(1), Len(g.PartitionName))
           N2 == N1 + (TagLen(2) + 1)
           N3 == N2 + SizeBytes(TagLen(3), Len(g.PostinstallPath))
           N4 == N3 + SizeBytes(TagLen(4), Len(g.FilesystemType))
           N5 == N4 + SizeAll("Signature", TagLen(5), g.NewPartitionSignature)
           N6 == N5 + SizeAll("PartitionInfo", TagLen(6), g.OldPartitionInfo)
           N7 == N6 + SizeAll("PartitionInfo", TagLen(7), g.NewPartitionInfo)
           N8 == N7 + SizeAll("InstallOperation", TagLen(8), g.Operations)
           N9 == N8 + (TagLen(9) + 1)
           N10 == N9 + SizeAll("Extent", TagLen(10), g.HashTreeDataExtent)
           N11 == N10 + SizeAll("Extent", TagLen(11), g.HashTreeExtent)
           N12 == N11 + SizeBytes(TagLen(12), Len(g.HashTreeAlgorithm))
           N13 == N12 + SizeStrings(TagLen(13), g.HashTreeSalt)
           N14 == N13 + SizeAll("Extent", TagLen(14), g.FecDataExtent)
           N15 == N14 + SizeAll("Extent", TagLen(15), g.FecExtent)
           N16 == N15 + SizeWords(TagLen(16), g.FecRoots)
           N17 == N16 + SizeBytes(TagLen(17), Len(g.Version))
           N18 == N17 + SizeAll("CowMergeOperation", TagLen(18), g.MergeOperations)
           N19 == N18 + (TagLen(19) + sov(g.EstimateCowSize))
           S1 == {"PartitionName"}
           S2 == S1 \union {"RunPostinstall"}
           S3 == S2 \union {"PostinstallPath"}
           S4 == S3 \union {"FilesystemType"}
           S5 == S4 \union {"NewPartitionSignature"}
           S6 == S5 \union {"OldPartitionInfo"}
           S7 == S6 \union {"NewPartitionInfo"}
           S8 == S7 \union {"Operations"}
           S9 == S8 \union {"PostinstallOptional"}
           S10 == S9 \union {"HashTreeDataExtent"}
           S11 == S10 \union {"HashTreeExtent"}
           S12 == S11 \union {"HashTreeAlgorithm"}
           S13 == S12 \union {"HashTreeSalt"}
           S14 == S13 \union {"FecDataExtent"}
           S15 == S14 \union {"FecExtent"}
           S16 == S15 \union {"FecRoots"}
           S17 == S16 \union {"Version"}
           S18 == S17 \union {"MergeOperations"}
           S19 == S18 \union {"EstimateCowSize"}
<1>t. /\ t \in MessageTypes /\ g \in Messages(t)
      /\ Fields[t] = PartitionUpdateFields
      /\ g.PartitionName \in Strings /\ g.PostinstallPath \in Strings
      /\ g.FilesystemType \in Strings
      /\ g.NewPartitionSignature \in Seq(Signature_s)
      /\ g.OldPartitionInfo \in Seq(PartitionInfos)
      /\ g.NewPartitionInfo \in Seq(PartitionInfos)
      /\ g.Operations \in Seq(InstallOperations)
      /\ g.HashTreeDataExtent \in Seq(Extents)
      /\ g.HashTreeExtent \in Seq(Extents) /\ g.HashTreeAlgorithm \in Strings
      /\ g.HashTreeSalt \in Seq(Strings) /\ g.FecDataExtent \in Seq(Extents)
      /\ g.FecExtent \in Seq(Extents) /\ g.FecRoots \in Seq(Halves)
      /\ g.Version \in Strings /\ g.MergeOperations \in Seq(CowMergeOperations)
      /\ g.EstimateCowSize \in Words
  BY AllMessageTypes, MessageValues, TableValues, Sizes
     DEF PartitionUpdates, Maybe
<1>m. /\ "Signature" \in Written /\ Messages("Signature") = Signature_s
      /\ "PartitionInfo" \in Written /\ Messages("PartitionInfo") = PartitionInfos
      /\ "InstallOperation" \in Written /\ Messages("InstallOperation") = InstallOperations
      /\ "Extent" \in Written /\ Messages("Extent") = Extents
      /\ "CowMergeOperation" \in Written /\ Messages("CowMergeOperation") = CowMergeOperations
  BY AllMessageTypes, MessageValues DEF Written
<1>n. 1 .. 19 = FieldNos
  BY DEF FieldNos
<1> HIDE DEF t, C1, C2, C3, C4, C5, C6, C7, C8, C9, C10, C11, C12, C13, C14,
             C15, C16, C17, C18, C19, N1, N2, N3, N4, N5, N6, N7, N8, N9, N10,
             N11, N12, N13, N14, N15, N16, N17, N18, N19
<1>1. Writes(t, g, C1, S1, N1)
  <2>1. /\ Req(1, "PartitionName", "bytes") \in Fields[t] /\ 1 \in FieldNos
        /\ g.PartitionName \in Strings
    BY <1>t, <1>n DEF PartitionUpdateFields
  <2>2. Has(t, g, "PartitionName", PutBytes(1, g.PartitionName),
            SizeBytes(TagLen(1), Len(g.PartitionName)))
    BY <2>1, BytesHas
  <2> QED
    BY <1>t, <2>2, HasFirst DEF C1, N1
<1>2. Writes(t, g, C2, S2, N2)
  <2>1. Opt(2, "RunPostinstall", "bool") \in Fields[t] /\ 2 \in FieldNos
    BY <1>t, <1>n DEF PartitionUpdateFields
  <2>2. Has(t, g, "RunPostinstall", PutBool(2, g.RunPostinstall),
            TagLen(2) + 1)
    BY <2>1, BoolHas
  <2> QED
    BY <1>t, <1>1, <2>2, HasOn DEF C2, N2
<1>3. Writes(t, g, C3, S3, N3)
  <2>1. /\ Opt(3, "PostinstallPath", "bytes") \in Fields[t] /\ 3 \in FieldNos
        /\ g.PostinstallPath \in Strings
    BY <1>t, <1>n DEF PartitionUpdateFields
  <2>2. Has(t, g, "PostinstallPath", PutBytes(3, g.PostinstallPath),
            SizeBytes(TagLen(3), Len(g.PostinstallPath)))
    BY <2>1, BytesHas
  <2> QED
    BY <1>t, <1>2, <2>2, HasOn DEF C3, N3
<1>4. Writes(t, g, C4, S4, N4)
  <2>1. /\ Opt(4, "FilesystemType", "bytes") \in Fields[t] /\ 4 \in FieldNos
        /\ g.FilesystemType \in Strings
    BY <1>t, <1>n DEF PartitionUpdateFields
  <2>2. Has(t, g, "FilesystemType", PutBytes(4, g.FilesystemType),
            SizeBytes(TagLen(4), Len(g.FilesystemType)))
    BY <2>1, BytesHas
  <2> QED
    BY <1>t, <1>3, <2>2, HasOn DEF C4, N4
<1>5. Writes(t, g, C5, S5, N5)
  <2>1. /\ Rep(5, "NewPartitionSignature", "Signature") \in Fields[t] /\ 5 \in FieldNos
        /\ g.NewPartitionSignature \in Seq(Signature_s)
    BY <1>t, <1>n DEF PartitionUpdateFields
  <2>2. Has(t, g, "NewPartitionSignature", PutAll("Signature", 5, g.NewPartitionSignature),
            SizeAll("Signature", TagLen(5), g.NewPartitionSignature))
    BY <1>m, <2>1, MessageHas, SignatureWritten
  <2> QED
    BY <1>t, <1>4, <2>2, HasOn DEF C5, N5
<1>6. Writes(t, g, C6, S6, N6)
  <2>1. /\ Ptr(6, "OldPartitionInfo", "PartitionInfo") \in Fields[t] /\ 6 \in FieldNos
        /\ g.OldPartitionInfo \in Seq(PartitionInfos)
    BY <1>t, <1>n DEF PartitionUpdateFields
  <2>2. Has(t, g, "OldPartitionInfo", PutAll("PartitionInfo", 6, g.OldPartitionInfo),
            SizeAll("PartitionInfo", TagLen(6), g.OldPartitionInfo))
    BY <1>m, <2>1, MessageHas, PartitionInfoWritten
  <2> QED
    BY <1>t, <1>5, <2>2, HasOn DEF C6, N6
<1>7. Writes(t, g, C7, S7, N7)
  <2>1. /\ Ptr(7, "NewPartitionInfo", "PartitionInfo") \in Fields[t] /\ 7 \in FieldNos
        /\ g.NewPartitionInfo \in Seq(PartitionInfos)
    BY <1>t, <1>n DEF PartitionUpdateFields
  <2>2. Has(t, g, "NewPartitionInfo", PutAll("PartitionInfo", 7, g.NewPartitionInfo),
            SizeAll("PartitionInfo", TagLen(7), g.NewPartitionInfo))
    BY <1>m, <2>1, MessageHas, PartitionInfoWritten
  <2> QED
    BY <1>t, <1>6, <2>2, HasOn DEF C7, N7
<1>8. Writes(t, g, C8, S8, N8)
  <2>1. /\ Rep(8, "Operations", "InstallOperation") \in Fields[t] /\ 8 \in FieldNos
        /\ g.Operations \in Seq(InstallOperations)
    BY <1>t, <1>n DEF PartitionUpdateFields
  <2>2. Has(t, g, "Operations", PutAll("InstallOperation", 8, g.Operations),
            SizeAll("InstallOperation", TagLen(8), g.Operations))
    BY <1>m, <2>1, MessageHas, InstallOperationWritten
  <2> QED
    BY <1>t, <1>7, <2>2, HasOn DEF C8, N8
<1>9. Writes(t, g, C9, S9, N9)
  <2>1. Opt(9, "PostinstallOptional", "bool") \in Fields[t] /\ 9 \in FieldNos
    BY <1>t, <1>n DEF PartitionUpdateFields
  <2>2. Has(t, g, "PostinstallOptional", PutBool(9, g.PostinstallOptional),
            TagLen(9) + 1)
    BY <2>1, BoolHas
  <2> QED
    BY <1>t, <1>8, <2>2, HasOn DEF C9, N9
<1>10. Writes(t, g, C10, S10, N10)
  <2>1. /\ Ptr(10, "HashTreeDataExtent", "Extent") \in Fields[t] /\ 10 \in FieldNos
        /\ g.HashTreeDataExtent \in Seq(Extents)
    BY <1>t, <1>n DEF PartitionUpdateFields
  <2>2. Has(t, g, "HashTreeDataExtent", PutAll("Extent", 10, g.HashTreeDataExtent),
            SizeAll("Extent", TagLen(10), g.HashTreeDataExtent))
    BY <1>m, <2>1, MessageHas, ExtentWritten
  <2> QED
    BY <1>t, <1>9, <2>2, HasOn DEF C10, N10
<1>11. Writes(t, g, C11, S11, N11)
  <2>1. /\ Ptr(11, "HashTreeExtent", "Extent") \in Fields[t] /\ 11 \in FieldNos
        /\ g.HashTreeExtent \in Seq(Extents)
    BY <1>t, <1>n DEF PartitionUpdateFields
  <2>2. Has(t, g, "HashTreeExtent", PutAll("Extent", 11, g.HashTreeExtent),
            SizeAll("Extent", TagLen(11), g.HashTreeExtent))
    BY <1>m, <2>1, MessageHas, ExtentWritten
  <2> QED
    BY <1>t, <1>10, <2>2, HasOn DEF C11, N11
<1>12. Writes(t, g, C12, S12, N12)
  <2>1. /\ Opt(12, "HashTreeAlgorithm", "bytes") \in Fields[t] /\ 12 \in FieldNos
        /\ g.HashTreeAlgorithm \in Strings
    BY <1>t, <1>n DEF PartitionUpdateFields
  <2>2. Has(t, g, "HashTreeAlgorithm", PutBytes(12, g.HashTreeAlgorithm),
            SizeBytes(TagLen(12), Len(g.HashTreeAlgorithm)))
    BY <2>1, BytesHas
  <2> QED
    BY <1>t, <1>11, <2>2, HasOn DEF C12, N12
<1>13. Writes(t, g, C13, S13, N13)
  <2>1. /\ Ptr(13, "HashTreeSalt", "bytes") \in Fields[t] /\ 13 \in FieldNos
        /\ g.HashTreeSalt \in Seq(Strings)
    BY <1>t, <1>n DEF PartitionUpdateFields
  <2>2. Has(t, g, "HashTreeSalt", PutStrings(13, g.HashTreeSalt),
            SizeStrings(TagLen(13), g.HashTreeSalt))
    BY <2>1, StringsHas
  <2> QED
    BY <1>t, <1>12, <2>2, HasOn DEF C13, N13
<1>14. Writes(t, g, C14, S14, N14)
  <2>1. /\ Ptr(14, "FecDataExtent", "Extent") \in Fields[t] /\ 14 \in FieldNos
        /\ g.FecDataExtent \in Seq(Extents)
    BY <1>t, <1>n DEF PartitionUpdateFields
  <2>2. Has(t, g, "FecDataExtent", PutAll("Extent", 14, g.FecDataExtent),
            SizeAll("Extent", TagLen(14), g.FecDataExtent))
    BY <1>m, <2>1, MessageHas, ExtentWritten
  <2> QED
    BY <1>t, <1>13, <2>2, HasOn DEF C14, N14
<1>15. Writes(t, g, C15, S15, N15)
  <2>1. /\ Ptr(15, "FecExtent", "Extent") \in Fields[t] /\ 15 \in FieldNos
        /\ g.FecExtent \in Seq(Extents)
    BY <1>t, <1>n DEF PartitionUpdateFields
  <2>2. Has(t, g, "FecExtent", PutAll("Extent", 15, g.FecExtent),
            SizeAll("Extent", TagLen(15), g.FecExtent))
    BY <1>m, <2>1, MessageHas, ExtentWritten
  <2> QED
    BY <1>t, <1>14, <2>2, HasOn DEF C15, N15
<1>16. Writes(t, g, C16, S16, N16)
  <2>1. /\ Ptr(16, "FecRoots", "uint32") \in Fields[t] /\ 16 \in FieldNos
        /\ g.FecRoots \in Seq(Halves)
    BY <1>t, <1>n DEF PartitionUpdateFields
  <2>2. Has(t, g, "FecRoots", PutWords(16, g.FecRoots),
            SizeWords(TagLen(16), g.FecRoots))
    BY <2>1, WordsHas
  <2> QED
    BY <1>t, <1>15, <2>2, HasOn DEF C16, N16
<1>17. Writes(t, g, C17, S17, N17)
  <2>1. /\ Opt(17, "Version", "bytes") \in Fields[t] /\ 17 \in FieldNos
        /\ g.Version \in Strings
    BY <1>t, <1>n DEF PartitionUpdateFields
  <2>2. Has(t, g, "Version", PutBytes(17, g.Version),
            SizeBytes(TagLen(17), Len(g.Version)))
    BY <2>1, BytesHas
  <2> QED
    BY <1>t, <1>16, <2>2, HasOn DEF C17, N17
<1>18. Writes(t, g, C18, S18, N18)
  <2>1. /\ Rep(18, "MergeOperations", "CowMergeOperation") \in Fields[t] /\ 18 \in FieldNos
        /\ g.MergeOperations \in Seq(CowMergeOperations)
    BY <1>t, <1>n DEF PartitionUpdateFields
  <2>2. Has(t, g, "MergeOperations", PutAll("CowMergeOperation", 18, g.MergeOperations),
            SizeAll("CowMergeOperation", TagLen(18), g.MergeOperations))
    BY <1>m, <2>1, MessageHas, CowMergeOperationWritten
  <2> QED
    BY <1>t, <1>17, <2>2, HasOn DEF C18, N18
<1>19. Writes(t, g, C19, S19, N19)
  <2>1. /\ Opt(19, "EstimateCowSize", "uint64") \in Fields[t] /\ 19 \in FieldNos
        /\ g.EstimateCowSize \in Words
    BY <1>t, <1>n DEF PartitionUpdateFields
  <2>2. Has(t, g, "EstimateCowSize", PutWord(19, g.EstimateCowSize),
            TagLen(19) + sov(g.EstimateCowSize))
    BY <2>1, WordHas
  <2> QED
    BY <1>t, <1>18, <2>2, HasOn DEF C19, N19
<1>s. S19 = Names(PartitionUpdateFields)
  BY DEF Names, PartitionUpdateFields, Field, Opt, Ptr, Rep, Req
<1>c. C19 = MarshalPartitionUpdate(g)
  BY DEF MarshalPartitionUpdate, C1, C2, C3, C4, C5, C6, C7, C8, C9, C10, C11,
         C12, C13, C14, C15, C16, C17, C18, C19, PutAll, PutEach, Marshalled
<1>z. N19 = SizePartitionUpdate(g)
  BY DEF TagLen, SizePartitionUpdate, N1, N2, N3, N4, N5, N6, N7, N8, N9, N10,
         N11, N12, N13, N14, N15, N16, N17, N18, N19, SizeAll, SizeEach, Sized
<1> QED
  BY <1>19, <1>s, <1>c, <1>z DEF t

\* What is written of each field of a manifest.
LEMMA DeltaArchiveManifestHas ==
  ASSUME NEW g \in DeltaArchiveManifests
  PROVE  LET t == "DeltaArchiveManifest" IN
    /\ Has(t, g, "BlockSize", PutWords(3, g.BlockSize),
           SizeWords(TagLen(3), g.BlockSize))
    /\ Has(t, g, "SignaturesOffset", PutWord(4, g.SignaturesOffset),
           TagLen(4) + sov(g.SignaturesOffset))
    /\ Has(t, g, "SignaturesSize", PutWord(5, g.SignaturesSize),
           TagLen(5) + sov(g.SignaturesSize))
    /\ Has(t, g, "MinorVersion", PutWords(12, g.MinorVersion),
           SizeWords(TagLen(12), g.MinorVersion))
    /\ Has(t, g, "Partitions", PutAll("PartitionUpdate", 13, g.Partitions),
           SizeAll("PartitionUpdate", TagLen(13), g.Partitions))
    /\ Has(t, g, "MaxTimestamp", PutWord(14, g.MaxTimestamp),
           TagLen(14) + sov(g.MaxTimestamp))
    /\ Has(t, g, "DynamicPartitionMetadata",
           PutAll("DynamicPartitionMetadata", 15, g.DynamicPartitionMetadata),
           SizeAll("DynamicPartitionMetadata", TagLen(15), g.DynamicPartitionMetadata))
    /\ Has(t, g, "PartialUpdate", PutBool(16, g.PartialUpdate),
           TagLen(16) + 1)
    /\ Has(t, g, "ApexInfo", PutAll("ApexInfo", 17, g.ApexInfo),
           SizeAll("ApexInfo", TagLen(17), g.ApexInfo))
    /\ Has(t, g, "SecurityPatchLevel", PutBytes(18, g.SecurityPatchLevel),
           SizeBytes(TagLen(18), Len(g.SecurityPatchLevel)))
<1> DEFINE t == "DeltaArchiveManifest"
<1>t. /\ t \in MessageTypes /\ g \in Messages(t)
      /\ Fields[t] = DeltaArchiveManifestFields
      /\ g.BlockSize \in Seq(Halves) /\ g.SignaturesOffset \in Words
      /\ g.SignaturesSize \in Words /\ g.MinorVersion \in Seq(Halves)
      /\ g.Partitions \in Seq(PartitionUpdates) /\ g.MaxTimestamp \in Words
      /\ g.DynamicPartitionMetadata \in Seq(DynamicPartitionMetadatas)
      /\ g.ApexInfo \in Seq(ApexInfos) /\ g.SecurityPatchLevel \in Strings
  BY AllMessageTypes, MessageValues, TableValues, Sizes
     DEF DeltaArchiveManifests, Maybe
<1>m. /\ "PartitionUpdate" \in Written /\ Messages("PartitionUpdate") = PartitionUpdates
      /\ "DynamicPartitionMetadata" \in Written
      /\ Messages("DynamicPartitionMetadata") = DynamicPartitionMetadatas
      /\ "ApexInfo" \in Written /\ Messages("ApexInfo") = ApexInfos
  BY AllMessageTypes, MessageValues DEF Written
<1>n. 1 .. 19 = FieldNos
  BY DEF FieldNos
<1> HIDE DEF t
<1>1. Has(t, g, "BlockSize", PutWords(3, g.BlockSize),
          SizeWords(TagLen(3), g.BlockSize))
  <2>1. /\ Ptr(3, "BlockSize", "uint32") \in Fields[t] /\ 3 \in FieldNos
        /\ g.BlockSize \in Seq(Halves)
    BY <1>t, <1>n DEF DeltaArchiveManifestFields
  <2> QED
    BY <2>1, WordsHas
<1>2. Has(t, g, "SignaturesOffset", PutWord(4, g.SignaturesOffset),
          TagLen(4) + sov(g.SignaturesOffset))
  <2>1. /\ Opt(4, "SignaturesOffset", "uint64") \in Fields[t] /\ 4 \in FieldNos
        /\ g.SignaturesOffset \in Words
    BY <1>t, <1>n DEF DeltaArchiveManifestFields
  <2> QED
    BY <2>1, WordHas
<1>3. Has(t, g, "SignaturesSize", PutWord(5, g.SignaturesSize),
          TagLen(5) + sov(g.SignaturesSize))
  <2>1. /\ Opt(5, "SignaturesSize", "uint64") \in Fields[t] /\ 5 \in FieldNos
        /\ g.SignaturesSize \in Words
    BY <1>t, <1>n DEF DeltaArchiveManifestFields
  <2> QED
    BY <2>1, WordHas
<1>4. Has(t, g, "MinorVersion", PutWords(12, g.MinorVersion),
          SizeWords(TagLen(12), g.MinorVersion))
  <2>1. /\ Ptr(12, "MinorVersion", "uint32") \in Fields[t] /\ 12 \in FieldNos
        /\ g.MinorVersion \in Seq(Halves)
    BY <1>t, <1>n DEF DeltaArchiveManifestFields
  <2> QED
    BY <2>1, WordsHas
<1>5. Has(t, g, "Partitions", PutAll("PartitionUpdate", 13, g.Partitions),
          SizeAll("PartitionUpdate", TagLen(13), g.Partitions))
  <2>1. /\ Rep(13, "Partitions", "PartitionUpdate") \in Fields[t] /\ 13 \in FieldNos
        /\ g.Partitions \in Seq(PartitionUpdates)
    BY <1>t, <1>n DEF DeltaArchiveManifestFields
  <2> QED
    BY <1>m, <2>1, MessageHas, PartitionUpdateWritten
<1>6. Has(t, g, "MaxTimestamp", PutWord(14, g.MaxTimestamp),
          TagLen(14) + sov(g.MaxTimestamp))
  <2>1. /\ Opt(14, "MaxTimestamp", "int64") \in Fields[t] /\ 14 \in FieldNos
        /\ g.MaxTimestamp \in Words
    BY <1>t, <1>n DEF DeltaArchiveManifestFields
  <2> QED
    BY <2>1, WordHas
<1>7. Has(t, g, "DynamicPartitionMetadata",
          PutAll("DynamicPartitionMetadata", 15, g.DynamicPartitionMetadata),
          SizeAll("DynamicPartitionMetadata", TagLen(15), g.DynamicPartitionMetadata))
  <2>1. /\ Ptr(15, "DynamicPartitionMetadata", "DynamicPartitionMetadata") \in Fields[t] /\ 15 \in FieldNos
        /\ g.DynamicPartitionMetadata \in Seq(DynamicPartitionMetadatas)
    BY <1>t, <1>n DEF DeltaArchiveManifestFields
  <2> QED
    BY <1>m, <2>1, MessageHas, DynamicPartitionMetadataWritten
<1>8. Has(t, g, "PartialUpdate", PutBool(16, g.PartialUpdate),
          TagLen(16) + 1)
  <2>1. Opt(16, "PartialUpdate", "bool") \in Fields[t] /\ 16 \in FieldNos
    BY <1>t, <1>n DEF DeltaArchiveManifestFields
  <2> QED
    BY <2>1, BoolHas
<1>9. Has(t, g, "ApexInfo", PutAll("ApexInfo", 17, g.ApexInfo),
          SizeAll("ApexInfo", TagLen(17), g.ApexInfo))
  <2>1. /\ Rep(17, "ApexInfo", "ApexInfo") \in Fields[t] /\ 17 \in FieldNos
        /\ g.ApexInfo \in Seq(ApexInfos)
    BY <1>t, <1>n DEF DeltaArchiveManifestFields
  <2> QED
    BY <1>m, <2>1, MessageHas, ApexInfoWritten
<1>10. Has(t, g, "SecurityPatchLevel", PutBytes(18, g.SecurityPatchLevel),
          SizeBytes(TagLen(18), Len(g.SecurityPatchLevel)))
  <2>1. /\ Opt(18, "SecurityPatchLevel", "bytes") \in Fields[t] /\ 18 \in FieldNos
        /\ g.SecurityPatchLevel \in Strings
    BY <1>t, <1>n DEF DeltaArchiveManifestFields
  <2> QED
    BY <2>1, BytesHas
<1> QED
  BY <1>1, <1>2, <1>3, <1>4, <1>5, <1>6, <1>7, <1>8, <1>9, <1>10 DEF t

LEMMA DeltaArchiveManifestWritten == WritesAll("DeltaArchiveManifest")
<1> SUFFICES ASSUME NEW g \in DeltaArchiveManifests
             PROVE  Writes("DeltaArchiveManifest", g, MarshalManifest(g),
                           Names(DeltaArchiveManifestFields), SizeManifest(g))
  BY MessageValues, TableValues DEF WritesAll, Marshalled, Sized
<1> DEFINE t == "DeltaArchiveManifest"
           C1 == PutWords(3, g.BlockSize)
           C2 == C1 \o PutWord(4, g.SignaturesOffset)
           C3 == C2 \o PutWord(5, g.SignaturesSize)
           C4 == C3 \o PutWords(12, g.MinorVersion)
           C5 == C4 \o PutAll("PartitionUpdate", 13, g.Partitions)
           C6 == C5 \o PutWord(14, g.MaxTimestamp)
           C7 == C6 \o PutAll("DynamicPartitionMetadata", 15, g.DynamicPartitionMetadata)
           C8 == C7 \o PutBool(16, g.PartialUpdate)
           C9 == C8 \o PutAll("ApexInfo", 17, g.ApexInfo)
           C10 == C9 \o PutBytes(18, g.SecurityPatchLevel)
           N1 == SizeWords(TagLen(3), g.BlockSize)
           N2 == N1 + (TagLen(4) + sov(g.SignaturesOffset))
           N3 == N2 + (TagLen(5) + sov(g.SignaturesSize))
           N4 == N3 + SizeWords(TagLen(12), g.MinorVersion)
           N5 == N4 + SizeAll("PartitionUpdate", TagLen(13), g.Partitions)
           N6 == N5 + (TagLen(14) + sov(g.MaxTimestamp))
           N7 == N6 + SizeAll("DynamicPartitionMetadata", TagLen(15), g.DynamicPartitionMetadata)
           N8 == N7 + (TagLen(16) + 1)
           N9 == N8 + SizeAll("ApexInfo", TagLen(17), g.ApexInfo)
           N10 == N9 + SizeBytes(TagLen(18), Len(g.SecurityPatchLevel))
           S1 == {"BlockSize"}
           S2 == S1 \union {"SignaturesOffset"}
           S3 == S2 \union {"SignaturesSize"}
           S4 == S3 \union {"MinorVersion"}
           S5 == S4 \union {"Partitions"}
           S6 == S5 \union {"MaxTimestamp"}
           S7 == S6 \union {"DynamicPartitionMetadata"}
           S8 == S7 \union {"PartialUpdate"}
           S9 == S8 \union {"ApexInfo"}
           S10 == S9 \union {"SecurityPatchLevel"}
<1>t. /\ t \in MessageTypes /\ g \in Messages(t)
      /\ Fields[t] = DeltaArchiveManifestFields
      /\ g.BlockSize \in Seq(Halves) /\ g.SignaturesOffset \in Words
      /\ g.SignaturesSize \in Words /\ g.MinorVersion \in Seq(Halves)
      /\ g.Partitions \in Seq(PartitionUpdates) /\ g.MaxTimestamp \in Words
      /\ g.DynamicPartitionMetadata \in Seq(DynamicPartitionMetadatas)
      /\ g.ApexInfo \in Seq(ApexInfos) /\ g.SecurityPatchLevel \in Strings
  BY AllMessageTypes, MessageValues, TableValues, Sizes
     DEF DeltaArchiveManifests, Maybe
<1>h. /\ Has(t, g, "BlockSize", PutWords(3, g.BlockSize),
            SizeWords(TagLen(3), g.BlockSize))
      /\ Has(t, g, "SignaturesOffset", PutWord(4, g.SignaturesOffset),
            TagLen(4) + sov(g.SignaturesOffset))
      /\ Has(t, g, "SignaturesSize", PutWord(5, g.SignaturesSize),
            TagLen(5) + sov(g.SignaturesSize))
      /\ Has(t, g, "MinorVersion", PutWords(12, g.MinorVersion),
            SizeWords(TagLen(12), g.MinorVersion))
      /\ Has(t, g, "Partitions", PutAll("PartitionUpdate", 13, g.Partitions),
            SizeAll("PartitionUpdate", TagLen(13), g.Partitions))
      /\ Has(t, g, "MaxTimestamp", PutWord(14, g.MaxTimestamp),
            TagLen(14) + sov(g.MaxTimestamp))
      /\ Has(t, g, "DynamicPartitionMetadata",
           PutAll("DynamicPartitionMetadata", 15, g.DynamicPartitionMetadata),
            SizeAll("DynamicPartitionMetadata", TagLen(15), g.DynamicPartitionMetadata))
      /\ Has(t, g, "PartialUpdate", PutBool(16, g.PartialUpdate),
            TagLen(16) + 1)
      /\ Has(t, g, "ApexInfo", PutAll("ApexInfo", 17, g.ApexInfo),
            SizeAll("ApexInfo", TagLen(17), g.ApexInfo))
      /\ Has(t, g, "SecurityPatchLevel", PutBytes(18, g.SecurityPatchLevel),
            SizeBytes(TagLen(18), Len(g.SecurityPatchLevel)))
  BY DeltaArchiveManifestHas
<1> HIDE DEF t, C1, C2, C3, C4, C5, C6, C7, C8, C9, C10, N1, N2, N3, N4, N5,
             N6, N7, N8, N9, N10
<1>1. Writes(t, g, C1, S1, N1)
  BY <1>t, <1>h, HasFirst DEF C1, N1
<1>2. Writes(t, g, C2, S2, N2)
  BY <1>t, <1>1, <1>h, HasOn DEF C2, N2
<1>3. Writes(t, g, C3, S3, N3)
  BY <1>t, <1>2, <1>h, HasOn DEF C3, N3
<1>4. Writes(t, g, C4, S4, N4)
  BY <1>t, <1>3, <1>h, HasOn DEF C4, N4
<1>5. Writes(t, g, C5, S5, N5)
  BY <1>t, <1>4, <1>h, HasOn DEF C5, N5
<1>6. Writes(t, g, C6, S6, N6)
  BY <1>t, <1>5, <1>h, HasOn DEF C6, N6
<1>7. Writes(t, g, C7, S7, N7)
  BY <1>t, <1>6, <1>h, HasOn DEF C7, N7
<1>8. Writes(t, g, C8, S8, N8)
  BY <1>t, <1>7, <1>h, HasOn DEF C8, N8
<1>9. Writes(t, g, C9, S9, N9)
  BY <1>t, <1>8, <1>h, HasOn DEF C9, N9
<1>10. Writes(t, g, C10, S10, N10)
  BY <1>t, <1>9, <1>h, HasOn DEF C10, N10
<1>s. S10 = Names(DeltaArchiveManifestFields)
  BY DEF Names, DeltaArchiveManifestFields, Field, Opt, Ptr, Rep
<1>c. C10 = MarshalManifest(g)
  BY DEF MarshalManifest, C1, C2, C3, C4, C5, C6, C7, C8, C9, C10,
         PutAll, PutEach, Marshalled
<1>z. N10 = SizeManifest(g)
  BY DEF TagLen, SizeManifest, N1, N2, N3, N4, N5, N6, N7, N8, N9,
         N10, SizeAll, SizeEach, Sized
<1> QED
  BY <1>10, <1>s, <1>c, <1>z DEF t

-----------------------------------------------------------------------------
(* Where the items of a message are, and what is made of them.             *)

\* The fields of a table have a number each, and are written.
IsNumbered(F) ==
  /\ \A f, g \in F : f.no = g.no => f = g
  /\ \A f \in F : f.no \in FieldNos /\ f.kind \in Flat \union {"bytes"} \union Written

\* The messages that Marshal writes.
LEMMA WrittenTypes ==
  /\ Written \subseteq MessageTypes
  /\ Written = {"Extent", "Signature", "PartitionInfo", "InstallOperation",
                "CowMergeOperation", "PartitionUpdate", "DynamicPartitionGroup",
                "VABCFeatureSet", "DynamicPartitionMetadata", "ApexInfo",
                "DeltaArchiveManifest"}
BY AllMessageTypes DEF Written

\* In each table of fields a number stands for one field only: the code has one
\* case for it.
LEMMA ExtentNumbered == IsNumbered(ExtentFields)
BY WrittenTypes DEF IsNumbered, ExtentFields, Opt, Req, Ptr, Rep, Field, FieldNos, Flat,
                    Varied

LEMMA SignatureNumbered == IsNumbered(SignatureFields)
BY WrittenTypes DEF IsNumbered, SignatureFields, Opt, Req, Ptr, Rep, Field, FieldNos, Flat,
                    Varied

LEMMA PartitionInfoNumbered == IsNumbered(PartitionInfoFields)
BY WrittenTypes DEF IsNumbered, PartitionInfoFields, Opt, Req, Ptr, Rep, Field, FieldNos, Flat,
                    Varied

LEMMA DynamicPartitionGroupNumbered == IsNumbered(DynamicPartitionGroupFields)
BY WrittenTypes DEF IsNumbered, DynamicPartitionGroupFields, Opt, Req, Ptr, Rep, Field, FieldNos, Flat,
                    Varied

LEMMA VABCFeatureSetNumbered == IsNumbered(VABCFeatureSetFields)
BY WrittenTypes DEF IsNumbered, VABCFeatureSetFields, Opt, Req, Ptr, Rep, Field, FieldNos, Flat,
                    Varied

LEMMA ApexInfoNumbered == IsNumbered(ApexInfoFields)
BY WrittenTypes DEF IsNumbered, ApexInfoFields, Opt, Req, Ptr, Rep, Field, FieldNos, Flat,
                    Varied

LEMMA InstallOperationNumbered == IsNumbered(InstallOperationFields)
BY WrittenTypes DEF IsNumbered, InstallOperationFields, Opt, Req, Ptr, Rep, Field, FieldNos, Flat,
                    Varied

LEMMA CowMergeOperationNumbered == IsNumbered(CowMergeOperationFields)
BY WrittenTypes DEF IsNumbered, CowMergeOperationFields, Opt, Req, Ptr, Rep, Field, FieldNos, Flat,
                    Varied

LEMMA DynamicPartitionMetadataNumbered == IsNumbered(DynamicPartitionMetadataFields)
BY WrittenTypes DEF IsNumbered, DynamicPartitionMetadataFields, Opt, Req, Ptr, Rep, Field, FieldNos, Flat,
                    Varied

LEMMA PartitionUpdateNumbered == IsNumbered(PartitionUpdateFields)
BY WrittenTypes DEF IsNumbered, PartitionUpdateFields, Opt, Req, Ptr, Rep, Field, FieldNos, Flat,
                    Varied

LEMMA DeltaArchiveManifestNumbered == IsNumbered(DeltaArchiveManifestFields)
BY WrittenTypes DEF IsNumbered, DeltaArchiveManifestFields, Opt, Req, Ptr, Rep, Field, FieldNos, Flat,
                    Varied

\* All tables.
LEMMA AllNumbered == \A t \in Written : IsNumbered(Fields[t])
BY WrittenTypes, TableValues, ExtentNumbered, SignatureNumbered,
   PartitionInfoNumbered, DynamicPartitionGroupNumbered,
   VABCFeatureSetNumbered, ApexInfoNumbered,
   InstallOperationNumbered, CowMergeOperationNumbered,
   DynamicPartitionMetadataNumbered, PartitionUpdateNumbered,
   DeltaArchiveManifestNumbered

\* For all messages, Marshal writes every field, in the bytes that Size counts.
LEMMA AllWritten == \A t \in Written : WritesAll(t)
BY WrittenTypes, ExtentWritten, SignatureWritten,
   PartitionInfoWritten, DynamicPartitionGroupWritten,
   VABCFeatureSetWritten, ApexInfoWritten,
   InstallOperationWritten, CowMergeOperationWritten,
   DynamicPartitionMetadataWritten, PartitionUpdateWritten,
   DeltaArchiveManifestWritten

-----------------------------------------------------------------------------
\* What is written of the message g, and where its n-th item ends.
Code(t, g)    == FlattenSeq(Marshalled(t, g))
Count(t, g)   == Len(Marshalled(t, g))
Ends(t, g, n) == Len(Joined(Marshalled(t, g), n))

\* How it is read: the fields, the values, and what has been made of them.
Reads(s, t, g) ==
  /\ Walk(s[1], s[2], s[3], t, Marshalled(t, g), New(t), g)
  /\ Passes(s[1], Count(t, g), Required(t))

Script(t, g)     == CHOOSE s : Reads(s, t, g)
FieldAt(t, g, k) == Script(t, g)[1][k]
ValueAt(t, g, k) == Script(t, g)[2][k]
Made(t, g, k)    == Script(t, g)[3][k]

\* There is such a script for every message: Marshal writes what leads to it.
LEMMA Scripted ==
  ASSUME NEW t \in Written, NEW g \in Messages(t)
  PROVE  Reads(Script(t, g), t, g)
<1>1. t \in MessageTypes
  BY WrittenTypes
<1>2. Writes(t, g, Marshalled(t, g), Names(Fields[t]), Sized(t, g))
  BY AllWritten DEF WritesAll
<1>3. Leads(t, Marshalled(t, g), New(t), g, Required(t))
  BY <1>1, <1>2, TracksAll DEF Writes
<1>4. PICK F, V, M : /\ Walk(F, V, M, t, Marshalled(t, g), New(t), g)
                     /\ Passes(F, Len(Marshalled(t, g)), Required(t))
  BY <1>3 DEF Leads
<1>5. Reads(<<F, V, M>>, t, g)
  <2> DEFINE s == <<F, V, M>>
  <2>1. s[1] = F /\ s[2] = V /\ s[3] = M
    OBVIOUS
  <2> HIDE DEF s
  <2> QED
    BY <1>4, <2>1 DEF Reads, Count, s
<1> QED
  BY <1>5 DEF Script

\* The code of a message is made of bytes, as many as Size says.
LEMMA CodeFacts ==
  ASSUME NEW t \in Written, NEW g \in Messages(t)
  PROVE  /\ Marshalled(t, g) \in Seq(Seq(Bytes)) /\ Count(t, g) \in Nat
         /\ Code(t, g) \in Seq(Bytes) /\ Len(Code(t, g)) = Sized(t, g)
         /\ Len(Code(t, g)) \in Nat
<1>1. Takes(Marshalled(t, g), Sized(t, g))
  BY AllWritten DEF WritesAll, Writes
<1>2. Marshalled(t, g) \in Seq(Seq(Bytes))
  BY <1>1 DEF Takes, Strings
<1>3. Code(t, g) \in Seq(Bytes)
  BY <1>2, FlattenTyped DEF Code
<1> QED
  BY <1>1, <1>2, <1>3 DEF Takes, Code, Count

\* The first step and the last.
LEMMA Ways ==
  ASSUME NEW t \in Written, NEW g \in Messages(t)
  PROVE  /\ Made(t, g, 0) = New(t) /\ Made(t, g, Count(t, g)) = g
         /\ \A r \in Required(t) : \E k \in 1 .. Count(t, g) : FieldAt(t, g, k).name = r
BY Scripted DEF Reads, Walk, Passes, Made, FieldAt, Count

\* Each item stores its value.
LEMMA WayStep ==
  ASSUME NEW t \in Written, NEW g \in Messages(t), NEW k \in 1 .. Count(t, g)
  PROVE  LET f == FieldAt(t, g, k)
             v == ValueAt(t, g, k)
         IN  /\ f \in Fields[t] /\ v \in Values(f.kind)
             /\ Marshalled(t, g)[k] = Item(f, v)
             /\ Made(t, g, k) = Put(Made(t, g, k - 1), f, v)
             /\ f.label = "ptr" => Made(t, g, k - 1)[f.name] = <<>>
BY Scripted DEF Reads, Walk, Made, FieldAt, ValueAt, Count

-----------------------------------------------------------------------------
\* A varint x is in the bytes e after the first s ones.
Holds(e, s, x) ==
  /\ x \in Words /\ s \in Nat /\ s + sov(x) <= Len(e)
  /\ \A j \in 1 .. sov(x) : e[s + j] = encodeVarint(x)[j]

WireOf(f) == WireType(f.kind)
Tag(f)    == 8 * f.no + WireOf(f)

\* The tag of a field: its number names the field, its wire type the kind.
LEMMA TagIs ==
  ASSUME NEW t \in Written, NEW f \in Fields[t]
  PROVE  /\ f.no \in FieldNos /\ f.kind \in Flat \union {"bytes"} \union Written
         /\ \A e \in Fields[t] : e.no = f.no => e = f
         /\ WireOf(f) \in {0, 2, 5}
         /\ f.kind \in Varied <=> WireOf(f) = 0
         /\ f.kind = "fixed32" <=> WireOf(f) = 5
         /\ Tag(f) \in Words /\ sov(Tag(f)) \in 1 .. 2
         /\ encodeVarint(Tag(f)) \in Strings /\ Len(encodeVarint(Tag(f))) = sov(Tag(f))
<1>1. /\ f.no \in FieldNos /\ f.kind \in Flat \union {"bytes"} \union Written
      /\ \A e \in Fields[t] : e.no = f.no => e = f
  BY AllNumbered DEF IsNumbered
<1>2. /\ WireOf(f) \in {0, 2, 5}
      /\ f.kind \in Varied <=> WireOf(f) = 0
      /\ f.kind = "fixed32" <=> WireOf(f) = 5
  BY DEF WireOf, WireType, Varied
<1>3. WireOf(f) \in 0 .. 7
  BY <1>2
<1> DEFINE w == WireOf(f)
           no == f.no
<1>4. no \in FieldNos /\ w \in 0 .. 7 /\ Tag(f) = 8 * no + w
  BY <1>1, <1>3 DEF Tag
<1> HIDE DEF w, no
<1>5. /\ Tag(f) \in Words /\ sov(Tag(f)) = TagLen(no)
      /\ encodeVarint(Tag(f)) \in Strings /\ Len(encodeVarint(Tag(f))) = TagLen(no)
  BY <1>4, TagFacts
<1>6. TagLen(no) \in 1 .. 2
  BY DEF TagLen
<1> QED
  BY <1>1, <1>2, <1>5, <1>6

\* A varint put first, and one put behind other bytes.
LEMMA HoldsFirst ==
  ASSUME NEW x \in Words, NEW r \in Seq(Bytes)
  PROVE  /\ Holds(encodeVarint(x) \o r, 0, x)
         /\ encodeVarint(x) \o r \in Seq(Bytes)
         /\ Len(encodeVarint(x) \o r) = sov(x) + Len(r)
         /\ \A j \in 1 .. Len(r) : (encodeVarint(x) \o r)[sov(x) + j] = r[j]
<1> DEFINE a == encodeVarint(x)
<1>1. a \in Seq(Bytes) /\ Len(a) = sov(x) /\ sov(x) \in Nat
  BY VarintTyped DEF Strings
<1> DEFINE e == a \o r
<1>2. /\ e \in Seq(Bytes) /\ Len(e) = sov(x) + Len(r) /\ Len(r) \in Nat
      /\ \A j \in 1 .. sov(x) : e[j] = a[j]
      /\ \A j \in 1 .. Len(r) : e[sov(x) + j] = r[j]
  <2> HIDE DEF a
  <2>1. /\ e \in Seq(Bytes) /\ Len(e) = Len(a) + Len(r) /\ Len(r) \in Nat
        /\ \A j \in 1 .. Len(a) : e[j] = a[j]
        /\ \A j \in 1 .. Len(r) : e[Len(a) + j] = r[j]
    <3>1. a \in Seq(Bytes)
      BY <1>1
    <3> QED
      BY <3>1
  <2> HIDE DEF e
  <2> QED
    BY <1>1, <2>1
<1>3. Holds(e, 0, x)
  <2>1. \A j \in 1 .. sov(x) : 0 + j = j
    BY <1>1
  <2> HIDE DEF e
  <2> QED
    BY <1>1, <1>2, <2>1 DEF Holds, a
<1> QED
  BY <1>2, <1>3

LEMMA HoldsLater ==
  ASSUME NEW e \in Seq(Bytes), NEW r \in Seq(Bytes), NEW s \in Nat,
         Len(e) = s + Len(r), \A j \in 1 .. Len(r) : e[s + j] = r[j],
         NEW i, NEW x, Holds(r, i, x)
  PROVE  Holds(e, s + i, x)
<1>1. /\ x \in Words /\ i \in Nat /\ i + sov(x) <= Len(r)
      /\ \A j \in 1 .. sov(x) : r[i + j] = encodeVarint(x)[j]
  BY DEF Holds
<1>2. sov(x) \in Nat
  BY <1>1, VarintTyped
<1>3. ASSUME NEW j \in 1 .. sov(x)
      PROVE  e[(s + i) + j] = encodeVarint(x)[j]
  <2>1. i + j \in 1 .. Len(r) /\ (s + i) + j = s + (i + j)
    BY <1>1, <1>2
  <2> QED
    BY <1>1, <2>1
<1> QED
  BY <1>1, <1>2, <1>3 DEF Holds

\* What is put behind r in e is behind the first s bytes of it.
LEMMA Shifted ==
  ASSUME NEW e, NEW r, NEW s \in Nat, Len(r) \in Nat,
         \A j \in 1 .. Len(r) : e[s + j] = r[j],
         NEW i \in Nat, NEW b, Len(b) \in Nat, i + Len(b) <= Len(r),
         \A j \in 1 .. Len(b) : r[i + j] = b[j]
  PROVE  \A j \in 1 .. Len(b) : e[(s + i) + j] = b[j]
<1>1. ASSUME NEW j \in 1 .. Len(b)
      PROVE  e[(s + i) + j] = b[j]
  <2>1. i + j \in 1 .. Len(r) /\ (s + i) + j = s + (i + j)
    OBVIOUS
  <2> QED
    BY <2>1
<1> QED
  BY <1>1

\* The bytes of an item: the tag and a varint, or the tag and four bytes.
LEMMA VariedShape ==
  ASSUME NEW t \in Written, NEW f \in Fields[t], NEW v \in Values(f.kind),
         f.kind \in Varied
  PROVE  LET e == Item(f, v)
             s == sov(Tag(f))
             x == Wire(f.kind, v)
         IN  /\ e \in Seq(Bytes) /\ Holds(e, 0, Tag(f))
             /\ Holds(e, s, x) /\ Len(e) = s + sov(x)
<1> DEFINE e == Item(f, v)
           s == sov(Tag(f))
           x == Wire(f.kind, v)
           r == encodeVarint(x)
<1>1. Tag(f) \in Words /\ s \in Nat /\ WireOf(f) = 0 /\ f.no \in Nat
  BY TagIs DEF FieldNos
<1>2. x \in Words
  BY WireBack
<1>3. e = encodeVarint(Tag(f)) \o r
  <2>1. Tag(f) = 8 * f.no
    BY <1>1 DEF Tag
  <2>2. e = EncodeWord(f.no, x)
    BY DEF Item, Varied
  <2> HIDE DEF e, x
  <2> QED
    BY <2>1, <2>2 DEF EncodeWord
<1>4. r \in Seq(Bytes) /\ Len(r) = sov(x) /\ sov(x) \in Nat
  BY <1>2, VarintTyped DEF Strings
<1>5. Holds(r, 0, x)
  <2>1. \A j \in 1 .. sov(x) : 0 + j = j
    BY <1>4
  <2> QED
    BY <1>2, <1>4, <2>1 DEF Holds
<1> HIDE DEF x, r, e
<1>6. /\ Holds(e, 0, Tag(f)) /\ e \in Seq(Bytes) /\ Len(e) = s + Len(r)
      /\ \A j \in 1 .. Len(r) : e[s + j] = r[j]
  BY <1>1, <1>3, <1>4, HoldsFirst
<1> HIDE DEF s
<1>7. Holds(e, s + 0, x)
  BY <1>1, <1>4, <1>5, <1>6, HoldsLater
<1>8. s + 0 = s
  BY <1>1
<1> QED
  BY <1>4, <1>6, <1>7, <1>8 DEF e, s, x

LEMMA FixedShape ==
  ASSUME NEW t \in Written, NEW f \in Fields[t], NEW v \in Values(f.kind),
         f.kind = "fixed32"
  PROVE  LET e == Item(f, v)
             s == sov(Tag(f))
         IN  /\ e \in Seq(Bytes) /\ Holds(e, 0, Tag(f)) /\ Len(e) = s + 4
             /\ \A j \in 1 .. 4 : e[s + j] = Quarters(v)[j]
<1> DEFINE e == Item(f, v)
           s == sov(Tag(f))
           r == Quarters(v)
<1>1. Tag(f) \in Words /\ s \in Nat /\ WireOf(f) = 5 /\ f.no \in Nat
  <2>1. Tag(f) \in Words /\ s \in 1 .. 2 /\ WireOf(f) = 5 /\ f.no \in FieldNos
    BY TagIs
  <2> QED
    BY <2>1 DEF FieldNos
<1>2. v \in Halves
  BY KindValues
<1>3. r \in Seq(Bytes) /\ Len(r) = 4
  BY <1>2, FixedBack DEF Strings
<1>4. e = encodeVarint(Tag(f)) \o r
  <2>1. Tag(f) = 8 * f.no + 5 /\ f.kind \notin Varied
    BY <1>1 DEF Tag, Varied
  <2>2. e = EncodeFixed32(f.no, v)
    BY <2>1 DEF Item
  <2> QED
    BY <1>2, <2>1, <2>2, FixedBack
<1> HIDE DEF r, e
<1>5. /\ Holds(e, 0, Tag(f)) /\ e \in Seq(Bytes) /\ Len(e) = s + Len(r)
      /\ \A j \in 1 .. Len(r) : e[s + j] = r[j]
  BY <1>1, <1>3, <1>4, HoldsFirst
<1> QED
  BY <1>3, <1>5 DEF e, s, r

\* A value with a length has bytes.
LEMMA BodyTyped ==
  ASSUME NEW t \in Written, NEW f \in Fields[t], NEW v \in Values(f.kind),
         f.kind \notin Flat
  PROVE  /\ Body(f.kind, v) \in Seq(Bytes) /\ f.kind \in {"bytes"} \union Written
         /\ f.kind \in Written => /\ f.kind # "bytes" /\ v \in Messages(f.kind)
                                  /\ Body(f.kind, v) = Code(f.kind, v)
<1>1. f.kind \in {"bytes"} \union Written
  BY TagIs
<1>2. CASE f.kind = "bytes"
  BY <1>2, KindValues, KindIsMessage, WrittenTypes DEF Body, Strings
<1>3. CASE f.kind \in Written
  <2>1. f.kind # "bytes" /\ v \in Messages(f.kind)
    BY <1>3, KindIsMessage, WrittenTypes
  <2>2. Body(f.kind, v) = Code(f.kind, v)
    BY <2>1 DEF Body, Code
  <2> QED
    BY <1>1, <1>3, <2>1, <2>2, CodeFacts
<1> QED
  BY <1>1, <1>2, <1>3

\* Where the parentheses are does not matter.
LEMMA ConcatAssoc ==
  ASSUME NEW T, NEW a \in Seq(T), NEW b \in Seq(T), NEW c \in Seq(T)
  PROVE  (a \o b) \o c = a \o (b \o c)
OBVIOUS

\* The bytes of an item with a length: the tag, the length, the value.
LEMMA BodyShape ==
  ASSUME NEW t \in Written, NEW f \in Fields[t], NEW v \in Values(f.kind),
         f.kind \notin Flat
  PROVE  LET e == Item(f, v)
             s == sov(Tag(f))
             b == Body(f.kind, v)
             x == uint64(Len(b))
         IN  /\ e \in Seq(Bytes) /\ Holds(e, 0, Tag(f)) /\ Holds(e, s, x)
             /\ Len(e) = s + sov(x) + Len(b)
             /\ \A j \in 1 .. Len(b) : e[(s + sov(x)) + j] = b[j]
<1> DEFINE e == Item(f, v)
           s == sov(Tag(f))
           b == Body(f.kind, v)
           x == uint64(Len(b))
           r == encodeVarint(x) \o b
<1>1. /\ Tag(f) \in Words /\ s \in Nat /\ WireOf(f) = 2 /\ f.no \in Nat
      /\ encodeVarint(Tag(f)) \in Seq(Bytes)
  <2>1. /\ Tag(f) \in Words /\ s \in 1 .. 2 /\ f.no \in FieldNos
        /\ encodeVarint(Tag(f)) \in Strings
    BY TagIs
  <2>2. WireOf(f) = 2
    BY TagIs DEF Flat
  <2> QED
    BY <2>1, <2>2 DEF FieldNos, Strings
<1>2. b \in Seq(Bytes) /\ Len(b) \in Nat
  BY BodyTyped
<1>3. x \in Words
  BY <1>2, LengthWord DEF Strings
<1>4. encodeVarint(x) \in Seq(Bytes) /\ sov(x) \in Nat
  BY <1>3, VarintTyped DEF Strings
<1>5. e = encodeVarint(Tag(f)) \o r
  <2>1. Tag(f) = 8 * f.no + 2 /\ f.kind \notin Varied /\ f.kind # "fixed32"
    BY <1>1 DEF Tag, Flat
  <2>2. e = (encodeVarint(Tag(f)) \o encodeVarint(x)) \o b
    BY <2>1 DEF Item, EncodeBytes
  <2> HIDE DEF e, b, x
  <2>3. /\ encodeVarint(Tag(f)) \in Seq(Bytes) /\ encodeVarint(x) \in Seq(Bytes)
        /\ b \in Seq(Bytes)
    BY <1>1, <1>2, <1>4
  <2> QED
    BY <2>2, <2>3, ConcatAssoc
<1> HIDE DEF b, x
<1>6. /\ Holds(r, 0, x) /\ r \in Seq(Bytes) /\ Len(r) = sov(x) + Len(b)
      /\ \A j \in 1 .. Len(b) : r[sov(x) + j] = b[j]
  BY <1>2, <1>3, HoldsFirst
<1> HIDE DEF r, e
<1>7. /\ Holds(e, 0, Tag(f)) /\ e \in Seq(Bytes) /\ Len(e) = s + Len(r)
      /\ \A j \in 1 .. Len(r) : e[s + j] = r[j]
  BY <1>1, <1>5, <1>6, HoldsFirst
<1> HIDE DEF s
<1>8. Holds(e, s, x)
  <2>1. s \in Nat /\ s + 0 = s
    BY <1>1
  <2>2. Holds(e, s + 0, x)
    BY <1>6, <1>7, <2>1, HoldsLater
  <2> QED
    BY <2>1, <2>2
<1>9. ASSUME NEW j \in 1 .. Len(b)
      PROVE  e[(s + sov(x)) + j] = b[j]
  <2> DEFINE n == sov(x)
             l == Len(b)
             q == Len(r)
  <2>1. s \in Nat /\ n \in Nat /\ l \in Nat /\ j \in 1 .. l /\ q = n + l
    BY <1>1, <1>2, <1>4, <1>6
  <2>2. /\ \A k \in 1 .. l : r[n + k] = b[k]
        /\ \A k \in 1 .. q : e[s + k] = r[k]
    BY <1>6, <1>7
  <2> HIDE DEF n, l, q
  <2>3. n + j \in 1 .. q /\ (s + n) + j = s + (n + j)
    BY <2>1
  <2>4. e[s + (n + j)] = b[j]
    BY <2>1, <2>2, <2>3
  <2>5. e[(s + n) + j] = b[j]
    BY <2>3, <2>4
  <2> QED
    BY <2>5 DEF n
<1>10. Len(e) = s + sov(x) + Len(b)
  BY <1>1, <1>2, <1>4, <1>6, <1>7
<1> QED
  BY <1>7, <1>8, <1>9, <1>10 DEF e, s, b, x

\* Every item takes bytes.
LEMMA ItemShape ==
  ASSUME NEW t \in Written, NEW f \in Fields[t], NEW v \in Values(f.kind)
  PROVE  /\ Item(f, v) \in Seq(Bytes) /\ Len(Item(f, v)) \in Nat \ {0}
         /\ Holds(Item(f, v), 0, Tag(f))
<1>1. Item(f, v) \in Seq(Bytes) /\ Holds(Item(f, v), 0, Tag(f))
  BY VariedShape, FixedShape, BodyShape DEF Flat
<1>2. sov(Tag(f)) \in 1 .. 2 /\ 0 + sov(Tag(f)) <= Len(Item(f, v))
  BY <1>1, TagIs DEF Holds
<1> QED
  BY <1>1, <1>2

-----------------------------------------------------------------------------
\* Where the items are.
LEMMA EndsFacts ==
  ASSUME NEW t \in Written, NEW g \in Messages(t)
  PROVE  Ends(t, g, 0) = 0 /\ Ends(t, g, Count(t, g)) = Len(Code(t, g))
<1>1. Marshalled(t, g) \in Seq(Seq(Bytes))
  BY CodeFacts
<1>2. Joined(Marshalled(t, g), 0) = <<>>
      /\ Joined(Marshalled(t, g), Count(t, g)) = Code(t, g)
  BY <1>1, FlatEnds DEF Count, Code
<1> QED
  BY <1>2 DEF Ends

\* An item is where the one before it ends.
LEMMA EndsStep ==
  ASSUME NEW t \in Written, NEW g \in Messages(t), NEW n \in 0 .. Count(t, g) - 1
  PROVE  LET e == Item(FieldAt(t, g, n + 1), ValueAt(t, g, n + 1)) IN
         /\ n + 1 \in 1 .. Count(t, g)
         /\ Ends(t, g, n) \in Nat
         /\ Ends(t, g, n + 1) = Ends(t, g, n) + Len(e)
         /\ Len(e) \in Nat \ {0} /\ e \in Seq(Bytes)
         /\ Ends(t, g, n + 1) <= Len(Code(t, g))
         /\ \A j \in 1 .. Len(e) : Code(t, g)[Ends(t, g, n) + j] = e[j]
<1> DEFINE C == Marshalled(t, g)
           e == Item(FieldAt(t, g, n + 1), ValueAt(t, g, n + 1))
<1>1. C \in Seq(Seq(Bytes)) /\ Len(C) \in Nat /\ Len(C) = Count(t, g)
  BY CodeFacts DEF Count
<1>2. n + 1 \in 1 .. Len(C) /\ (n + 1) - 1 = n
  BY <1>1
<1>3. e = C[n + 1] /\ Len(e) \in Nat \ {0} /\ e \in Seq(Bytes)
  BY <1>1, <1>2, WayStep, ItemShape
<1> HIDE DEF e
<1> HIDE DEF C
<1>4. /\ Len(Joined(C, n)) \in Nat
      /\ Len(Joined(C, n + 1)) = Len(Joined(C, n)) + Len(C[n + 1])
      /\ Len(Joined(C, n + 1)) <= Len(FlattenSeq(C))
      /\ \A j \in 1 .. Len(C[n + 1]) : FlattenSeq(C)[Len(Joined(C, n)) + j] = C[n + 1][j]
  <2> DEFINE k == n + 1
  <2>1. k \in 1 .. Len(C) /\ k - 1 = n
    BY <1>2
  <2> HIDE DEF k
  <2>2. /\ Len(Joined(C, k - 1)) \in Nat
        /\ Len(Joined(C, k)) = Len(Joined(C, k - 1)) + Len(C[k])
        /\ Len(Joined(C, k)) <= Len(FlattenSeq(C))
        /\ \A j \in 1 .. Len(C[k]) : FlattenSeq(C)[Len(Joined(C, k - 1)) + j] = C[k][j]
    BY <1>1, <2>1, FlatPlaces
  <2>3. /\ Len(Joined(C, n)) \in Nat
        /\ Len(Joined(C, k)) = Len(Joined(C, n)) + Len(C[k])
        /\ Len(Joined(C, k)) <= Len(FlattenSeq(C))
        /\ \A j \in 1 .. Len(C[k]) : FlattenSeq(C)[Len(Joined(C, n)) + j] = C[k][j]
    BY <2>1, <2>2
  <2> QED
    BY <2>3 DEF k
<1> QED
  BY <1>1, <1>2, <1>3, <1>4 DEF Ends, Code, e, C

\* The end of an item that is not the last is before the end.
LEMMA EndsBefore ==
  ASSUME NEW t \in Written, NEW g \in Messages(t), NEW n \in 0 .. Count(t, g)
  PROVE  /\ Ends(t, g, n) \in Nat /\ Ends(t, g, n) <= Len(Code(t, g))
         /\ n < Count(t, g) <=> Ends(t, g, n) < Len(Code(t, g))
<1>1. Count(t, g) \in Nat /\ Len(Code(t, g)) \in Nat
  BY CodeFacts
<1>2. CASE n < Count(t, g)
  <2>1. n \in 0 .. Count(t, g) - 1
    BY <1>1, <1>2
  <2> DEFINE e == Item(FieldAt(t, g, n + 1), ValueAt(t, g, n + 1))
  <2>2. /\ Ends(t, g, n) \in Nat /\ Len(e) \in Nat \ {0}
        /\ Ends(t, g, n + 1) = Ends(t, g, n) + Len(e)
        /\ Ends(t, g, n + 1) <= Len(Code(t, g))
    BY <2>1, EndsStep
  <2> HIDE DEF e
  <2> QED
    BY <1>1, <1>2, <2>2
<1>3. CASE ~(n < Count(t, g))
  <2>1. n = Count(t, g)
    BY <1>1, <1>3
  <2> QED
    BY <1>1, <1>3, <2>1, EndsFacts
<1> QED
  BY <1>2, <1>3

\* A varint of an item in the code of its message.
LEMMA HeldInCode ==
  ASSUME NEW t \in Written, NEW g \in Messages(t), NEW n \in 0 .. Count(t, g) - 1,
         NEW s, NEW x, Holds(Item(FieldAt(t, g, n + 1), ValueAt(t, g, n + 1)), s, x)
  PROVE  Holds(Code(t, g), Ends(t, g, n) + s, x)
<1> DEFINE e == Item(FieldAt(t, g, n + 1), ValueAt(t, g, n + 1))
           p == Ends(t, g, n)
           E == Code(t, g)
<1>1. /\ p \in Nat /\ Ends(t, g, n + 1) = p + Len(e) /\ Len(e) \in Nat
      /\ Ends(t, g, n + 1) <= Len(E)
      /\ \A j \in 1 .. Len(e) : E[p + j] = e[j]
  BY EndsStep
<1>2. Len(E) \in Nat
  BY CodeFacts
<1>3. /\ x \in Words /\ s \in Nat /\ s + sov(x) <= Len(e)
      /\ \A j \in 1 .. sov(x) : e[s + j] = encodeVarint(x)[j]
  BY DEF Holds
<1>4. sov(x) \in Nat
  BY <1>3, VarintTyped
<1> HIDE DEF e, p, E
<1>5. ASSUME NEW j \in 1 .. sov(x)
      PROVE  E[(p + s) + j] = encodeVarint(x)[j]
  <2>1. s + j \in 1 .. Len(e) /\ (p + s) + j = p + (s + j)
    BY <1>1, <1>3, <1>4
  <2> QED
    BY <1>1, <1>3, <2>1
<1>6. p + s \in Nat /\ (p + s) + sov(x) <= Len(E)
  BY <1>1, <1>2, <1>3, <1>4
<1> QED
  BY <1>3, <1>5, <1>6 DEF Holds, E, p

-----------------------------------------------------------------------------
(* A decoder on its way through what was written of a manifest.            *)

\* The slice of the call c holds the bytes of a message w.g, or as many of them
\* as there are; only of the first lim bytes of D is it known what they are.
Carries(D, lim, c, w) ==
  /\ c.type \in Written /\ w.g \in Messages(c.type)
  /\ c.l <= Len(Code(c.type, w.g))
  /\ \A j \in 1 .. c.l : c.base + j <= lim => D[c.base + j] = Code(c.type, w.g)[j]

\* The call is through with w.n of its items.
Through(c, w) ==
  /\ w.n \in 0 .. Count(c.type, w.g)
  /\ c.m = Made(c.type, w.g, w.n)
  /\ \A k \in 1 .. w.n : LET f == FieldAt(c.type, w.g, k) IN
                         f.label = "req" => f.name \in c.got

\* The next item is the message that the call d is for.
Within(c, w, d, x) ==
  /\ w.n < Count(c.type, w.g)
  /\ d.at = FieldAt(c.type, w.g, w.n + 1) /\ x.g = ValueAt(c.type, w.g, w.n + 1)
  /\ c.iNdEx = Ends(c.type, w.g, w.n + 1)
  /\ d.l = Len(Code(d.type, x.g))

\* The calls s decode the bytes D as what was written of m, which the first lim
\* of them are.
Follows(D, lim, s, h, m) ==
  /\ s[1].type = "DeltaArchiveManifest" /\ s[1].base = 0 /\ s[1].l = Len(D)
  /\ h[1].g = m
  /\ \A k \in DOMAIN s : Carries(D, lim, s[k], h[k]) /\ Through(s[k], h[k])
  /\ \A k \in DOMAIN s : k > 1 => Within(s[k-1], h[k-1], s[k], h[k])

\* A varint x that begins at s is being read, or has been, and i is the index.
Reading(i, s, x, z) ==
  \/ /\ z.pc = "read" /\ z.digits \in 0 .. sov(x) - 1
     /\ i = s + z.digits
     /\ z.acc = x % Power[z.digits] /\ z.weight = Power[z.digits]
  \/ z.pc = "use" /\ i = s + sov(x) /\ z.acc = x

Due(u, f, v) ==
  CASE u = "tag" -> Tag(f)
    [] u = "value" -> Wire(f.kind, v)
    [] OTHER -> uint64(Len(Body(f.kind, v)))

Switches(z, f) ==
  \/ z.what = "tag"
  \/ z.what = "value" /\ z.field = f /\ f.kind \in Varied
  \/ z.what = "length" /\ z.field = f /\ f.kind \notin Flat

Offset(u, f) == IF u = "tag" THEN 0 ELSE sov(Tag(f))

\* Between two items.
Idle(c, w, z) ==
  /\ z.pc = "read" /\ z.what = "tag" /\ z.digits = 0 /\ z.weight = 1 /\ z.acc = 0
  /\ c.iNdEx = Ends(c.type, w.g, w.n)

\* In an item.
Busy(c, w, z) ==
  LET f == FieldAt(c.type, w.g, w.n + 1)
      v == ValueAt(c.type, w.g, w.n + 1)
  IN  /\ w.n < Count(c.type, w.g) /\ Switches(z, f)
      /\ Reading(c.iNdEx, Ends(c.type, w.g, w.n) + Offset(z.what, f),
                 Due(z.what, f, v), z)

Placed(c, w, z) == Idle(c, w, z) \/ Busy(c, w, z)

-----------------------------------------------------------------------------
\* The last call goes on, with more items behind it.
LEMMA FollowsOn ==
  ASSUME NEW D, NEW lim, NEW S, NEW s \in Seq(S), s # <<>>, NEW h, NEW m,
         Follows(D, lim, s, h, m),
         NEW c, c.type = Last(s).type, c.base = Last(s).base, c.l = Last(s).l,
         c.at = Last(s).at,
         NEW w, w.g = h[Len(s)].g, Through(c, w),
         NEW r, r = [s EXCEPT ![Len(s)] = c],
         NEW g, g = [k \in 1 .. Len(s) |-> IF k = Len(s) THEN w ELSE h[k]]
  PROVE  Follows(D, lim, r, g, m)
<1> DEFINE n == Len(s)
<1>1. n \in Nat \ {0} /\ DOMAIN s = 1 .. n /\ Last(s) = s[n]
  BY DEF Last
<1> HIDE DEF n
<1>2. /\ DOMAIN r = 1 .. n /\ r[n] = c /\ \A k \in 1 .. n : k # n => r[k] = s[k]
      /\ g[n] = w /\ \A k \in 1 .. n : k # n => g[k] = h[k]
  <2>1. r = [s EXCEPT ![n] = c] /\ g = [k \in 1 .. n |-> IF k = n THEN w ELSE h[k]]
    BY DEF n
  <2>2. n \in 1 .. n
    BY <1>1
  <2>3. DOMAIN r = 1 .. n /\ r[n] = c /\ \A k \in 1 .. n : k # n => r[k] = s[k]
    BY <1>1, <2>1, <2>2
  <2>4. g[n] = w /\ \A k \in 1 .. n : k # n => g[k] = h[k]
    BY <2>1, <2>2
  <2> QED
    BY <2>3, <2>4
<1>3. ASSUME NEW k \in 1 .. n
      PROVE  /\ Carries(D, lim, r[k], g[k]) /\ Through(r[k], g[k])
             /\ k > 1 => Within(r[k-1], g[k-1], r[k], g[k])
  <2>1. /\ Carries(D, lim, s[k], h[k]) /\ Through(s[k], h[k])
        /\ k > 1 => Within(s[k-1], h[k-1], s[k], h[k])
    BY <1>1 DEF Follows
  <2>2. k > 1 => r[k-1] = s[k-1] /\ g[k-1] = h[k-1]
    BY <1>1, <1>2
  <2>3. CASE k = n
    <3>1. /\ r[k] = c /\ g[k] = w /\ c.type = s[k].type /\ c.base = s[k].base
          /\ c.l = s[k].l /\ c.at = s[k].at /\ w.g = h[k].g
      BY <1>1, <1>2, <2>3 DEF n
    <3>2. Carries(D, lim, r[k], g[k])
      BY <2>1, <3>1 DEF Carries
    <3>3. k > 1 => Within(r[k-1], g[k-1], r[k], g[k])
      BY <2>1, <2>2, <3>1 DEF Within
    <3> QED
      BY <3>1, <3>2, <3>3
  <2>4. CASE k # n
    BY <1>2, <2>1, <2>2, <2>4
  <2> QED
    BY <2>3, <2>4
<1>4. /\ r[1].type = "DeltaArchiveManifest" /\ r[1].base = 0 /\ r[1].l = Len(D)
      /\ g[1].g = m
  <2>1. /\ s[1].type = "DeltaArchiveManifest" /\ s[1].base = 0 /\ s[1].l = Len(D)
        /\ h[1].g = m
    BY DEF Follows
  <2>2. CASE n = 1
    BY <1>1, <1>2, <2>1, <2>2 DEF n
  <2>3. CASE n # 1
    BY <1>1, <1>2, <2>1, <2>3
  <2> QED
    BY <2>2, <2>3
<1>5. Follows(D, lim, r, g, m)
  BY <1>2, <1>3, <1>4 DEF Follows
<1> QED
  BY <1>5

\* A call for the next item.
LEMMA FollowsCall ==
  ASSUME NEW D, NEW lim, NEW S, NEW s \in Seq(S), s # <<>>, NEW h, NEW m,
         Follows(D, lim, s, h, m),
         NEW d, NEW x, Carries(D, lim, d, x), Through(d, x),
         Within(Last(s), h[Len(s)], d, x)
  PROVE  Follows(D, lim, Append(s, d),
                 [k \in 1 .. Len(s) + 1 |-> IF k = Len(s) + 1 THEN x ELSE h[k]], m)
<1> DEFINE n == Len(s)
           r == Append(s, d)
           g == [k \in 1 .. n + 1 |-> IF k = n + 1 THEN x ELSE h[k]]
<1>1. n \in Nat \ {0} /\ DOMAIN s = 1 .. n /\ Last(s) = s[n]
  BY DEF Last
<1>2. DOMAIN r = 1 .. n + 1 /\ r[n + 1] = d /\ \A k \in 1 .. n : r[k] = s[k]
  <2>1. s \in Seq(S \union {d})
    OBVIOUS
  <2> QED
    BY <2>1
<1> HIDE DEF n, r
<1>3. g[n + 1] = x /\ \A k \in 1 .. n : g[k] = h[k]
  BY <1>1
<1> HIDE DEF g
<1>4. ASSUME NEW k \in 1 .. n + 1
      PROVE  /\ Carries(D, lim, r[k], g[k]) /\ Through(r[k], g[k])
             /\ k > 1 => Within(r[k-1], g[k-1], r[k], g[k])
  <2>1. CASE k = n + 1
    <3>1. r[k] = d /\ g[k] = x /\ r[k-1] = Last(s) /\ g[k-1] = h[Len(s)]
      BY <1>1, <1>2, <1>3, <2>1 DEF n
    <3> QED
      BY <3>1
  <2>2. CASE k # n + 1
    <3>1. /\ k \in 1 .. n /\ r[k] = s[k] /\ g[k] = h[k]
          /\ k > 1 => r[k-1] = s[k-1] /\ g[k-1] = h[k-1]
      BY <1>1, <1>2, <1>3, <2>2
    <3> QED
      BY <1>1, <3>1 DEF Follows
  <2> QED
    BY <2>1, <2>2
<1>5. /\ r[1].type = "DeltaArchiveManifest" /\ r[1].base = 0 /\ r[1].l = Len(D)
      /\ g[1].g = m
  <2>1. r[1] = s[1] /\ g[1] = h[1]
    BY <1>1, <1>2, <1>3
  <2> QED
    BY <2>1 DEF Follows
<1>6. Follows(D, lim, r, g, m)
  BY <1>2, <1>4, <1>5 DEF Follows
<1> QED
  BY <1>6 DEF r, g, n

\* Without the last call, the others stand.
LEMMA FollowsFront ==
  ASSUME NEW D, NEW lim, NEW S, NEW s \in Seq(S), Len(s) > 1, NEW h, NEW m,
         Follows(D, lim, s, h, m)
  PROVE  /\ Front(s) \in Seq(S) /\ Front(s) # <<>> /\ Len(Front(s)) = Len(s) - 1
         /\ Last(Front(s)) = s[Len(s) - 1] /\ Follows(D, lim, Front(s), h, m)
<1> DEFINE n == Len(s) - 1
<1>1. /\ n \in Nat \ {0} /\ DOMAIN s = 1 .. n + 1 /\ Front(s) \in Seq(S)
      /\ Len(Front(s)) = n /\ DOMAIN Front(s) = 1 .. n
      /\ \A k \in 1 .. n : Front(s)[k] = s[k]
  <2>1. n \in Nat \ {0} /\ Len(s) = n + 1 /\ DOMAIN s = 1 .. n + 1
    <3>1. Len(s) \in Nat /\ DOMAIN s = 1 .. Len(s)
      OBVIOUS
    <3>2. n \in Nat \ {0} /\ Len(s) = n + 1
      BY <3>1
    <3> QED
      BY <3>1, <3>2
  <2> HIDE DEF n
  <2>2. Front(s) = SubSeq(s, 1, n)
    BY <2>1 DEF Front
  <2>3. SubSeq(s, 1, n) \in Seq(S) /\ Len(SubSeq(s, 1, n)) = n
        /\ \A k \in 1 .. n : SubSeq(s, 1, n)[k] = s[k]
    BY <2>1
  <2> QED
    BY <2>1, <2>2, <2>3
<1> HIDE DEF n
<1>2. \A k \in 1 .. n : k \in 1 .. n + 1 /\ (k > 1 => k - 1 \in 1 .. n)
  BY <1>1
<1>3. 1 \in 1 .. n /\ n \in 1 .. n
  BY <1>1
<1>4. Follows(D, lim, Front(s), h, m)
  BY <1>1, <1>2, <1>3 DEF Follows
<1> QED
  BY <1>1, <1>3, <1>4 DEF n, Last

\* Only the first slice may be short of what was written of its message.
LEMMA ShortSlice ==
  ASSUME NEW D, NEW lim, NEW S, NEW s \in Seq(S), s # <<>>, NEW h, NEW m,
         Follows(D, lim, s, h, m),
         m \in DeltaArchiveManifests, Len(D) \in Nat,
         Last(s).l # Len(Code(Last(s).type, h[Len(s)].g))
  PROVE  Len(s) = 1 /\ Len(D) < Len(Encoded(m))
<1> DEFINE n == Len(s)
<1>1. n \in Nat \ {0} /\ DOMAIN s = 1 .. n /\ Last(s) = s[n] /\ n \in DOMAIN s
  BY DEF Last
<1> HIDE DEF n
<1>2. n = 1
  <2> SUFFICES ASSUME n # 1 PROVE FALSE
    OBVIOUS
  <2>1. n > 1
    BY <1>1
  <2>2. Within(s[n-1], h[n-1], s[n], h[n])
    BY <1>1, <2>1 DEF Follows
  <2> QED
    BY <1>1, <2>2 DEF Within, n
<1>3. /\ Last(s).type = "DeltaArchiveManifest" /\ Last(s).l = Len(D) /\ h[1].g = m
      /\ Carries(D, lim, Last(s), h[1])
  BY <1>1, <1>2 DEF Follows
<1>4. Code("DeltaArchiveManifest", m) = Encoded(m)
  BY DEF Code, Marshalled, Encoded
<1>5. Len(Encoded(m)) \in Nat
  <2>1. "DeltaArchiveManifest" \in Written /\ m \in Messages("DeltaArchiveManifest")
    BY WrittenTypes, MessageValues
  <2> QED
    BY <1>4, <2>1, CodeFacts
<1> QED
  BY <1>2, <1>3, <1>4, <1>5 DEF Carries, n

now == [pc |-> pc, what |-> what, digits |-> digits, weight |-> weight, acc |-> acc,
        field |-> field]

\* The decoder reads what was written of m, as h tells.
Tracked(m, lim, h) ==
  Follows(dAtA, lim, calls, h, m) /\ Placed(top, h[Len(calls)], now)

Root == "DeltaArchiveManifest"

\* It is on its way, or the bytes are too few, or they end between two items.
Exact(m, lim) ==
  /\ verdict = "run" => \E h : Tracked(m, lim, h)
  /\ verdict = "error" => Len(dAtA) < Len(Encoded(m))
  /\ verdict = "ok" => \E n \in 0 .. Count(Root, m) :
       /\ Len(dAtA) = Ends(Root, m, n) /\ manifest = Made(Root, m, n)
       /\ Len(dAtA) <= lim => dAtA = Joined(Marshalled(Root, m), n)

RInv == \A m \in Samples : IsPrefix(dAtA, Encoded(m)) => Exact(m, Len(dAtA))

\* The manifests are written.
LEMMA RootFacts ==
  ASSUME NEW m \in Samples
  PROVE  /\ Root \in Written /\ m \in Messages(Root) /\ m \in DeltaArchiveManifests
         /\ Code(Root, m) = Encoded(m) /\ Marshalled(Root, m) = MarshalManifest(m)
         /\ Len(Encoded(m)) \in Nat /\ Len(Encoded(m)) < Word \div 2
         /\ Len(Encoded(m)) = SizeManifest(m)
<1>1. Root \in Written /\ m \in Messages(Root) /\ m \in DeltaArchiveManifests
  BY WrittenTypes, MessageValues, SampleAssumption DEF Root
<1>2. Marshalled(Root, m) = MarshalManifest(m) /\ Sized(Root, m) = SizeManifest(m)
  BY DEF Marshalled, Sized, Root
<1>3. Code(Root, m) = Encoded(m)
  BY <1>2 DEF Code, Encoded
<1>4. Len(Encoded(m)) < Word \div 2
  BY SampleAssumption
<1> QED
  BY <1>1, <1>2, <1>3, <1>4, CodeFacts

\* What is known of the top call.
LEMMA TopTracked ==
  ASSUME SInv, TInv, NEW m \in Samples, NEW lim \in Nat, NEW h,
         Tracked(m, lim, h)
  PROVE  LET w == h[Len(calls)] IN
         /\ top.type \in Written /\ w.g \in Messages(top.type)
         /\ Carries(dAtA, lim, top, w) /\ Through(top, w) /\ Placed(top, w, now)
         /\ IsCall(top) /\ IsFrame(top) /\ IsTable(Fields[top.type])
         /\ calls # <<>> /\ top = Last(calls)
         /\ w.n \in 0 .. Count(top.type, w.g)
BY TopCall, TopFrame DEF SInv, TInv, IsStack, Tracked, Follows, Carries, Through, top

\* The top call is within its slice, the slice within the bytes, and the bytes
\* are those of its message.
LEMMA TopBounds ==
  ASSUME SInv, TInv, NEW m \in Samples, NEW lim \in Nat, NEW h,
         Tracked(m, lim, h)
  PROVE  LET e == Code(top.type, h[Len(calls)].g) IN
         /\ e \in Seq(Bytes) /\ Len(e) \in Nat /\ Len(e) < Word \div 2
         /\ top.l \in Nat /\ top.l <= Len(e) /\ top.base \in Nat
         /\ top.iNdEx \in Nat /\ top.iNdEx <= top.l
         /\ top.base + top.l <= Len(dAtA) /\ Len(dAtA) \in Nat
         /\ what \in {"tag", "value", "length"} /\ depth = 0
         /\ \A j \in 1 .. top.l : top.base + j <= lim => dAtA[top.base + j] = e[j]
<1> DEFINE w == h[Len(calls)]
           e == Code(top.type, w.g)
<1>1. /\ top.type \in Written /\ w.g \in Messages(top.type)
      /\ Carries(dAtA, lim, top, w) /\ Placed(top, w, now) /\ IsCall(top)
      /\ calls # <<>> /\ top = Last(calls) /\ Follows(dAtA, lim, calls, h, m)
  BY TopTracked DEF Tracked
<1>2. PICK S : calls \in Seq(S)
  BY DEF SInv, IsStack
<1>3. e \in Seq(Bytes) /\ Len(e) \in Nat
  BY <1>1, CodeFacts
<1>4. /\ Len(dAtA) \in Nat /\ Len(dAtA) <= Word \div 2 - 1
      /\ top.base + top.l <= Len(dAtA)
  BY TopCall DEF SInv, Varints, Strings
<1>5. what \in {"tag", "value", "length"} /\ depth = 0
  <2>1. now.what \in {"tag", "value", "length"}
    BY <1>1 DEF Placed, Idle, Busy, Switches
  <2>2. what \in {"tag", "value", "length"}
    BY <2>1 DEF now
  <2> QED
    BY <2>2 DEF SInv, Indices
<1>6. top.iNdEx <= top.l
  BY <1>5 DEF SInv, Indices
<1>7. /\ top.l <= Len(e)
      /\ \A j \in 1 .. top.l : top.base + j <= lim => dAtA[top.base + j] = e[j]
  BY <1>1 DEF Carries
<1>8. Len(e) < Word \div 2
  <2>1. CASE top.l = Len(e)
    <3> DEFINE q == Len(e)
               d == Len(dAtA)
               a == Word \div 2
    <3>1. /\ q \in Nat /\ d \in Nat /\ a \in Nat /\ d <= a - 1
          /\ top.base \in Nat /\ top.base + q <= d
      BY <1>1, <1>3, <1>4, <2>1, WordFacts DEF IsCall
    <3> HIDE DEF q, d, a
    <3>2. q < a
      BY <3>1
    <3> QED
      BY <3>2 DEF q, a
  <2>2. CASE top.l # Len(e)
    <3>1. Len(calls) = 1
      BY <1>1, <1>2, <1>4, <2>2, RootFacts, ShortSlice
    <3>2. calls[1].type = Root /\ h[1].g = m /\ top = calls[1]
      BY <1>1, <3>1 DEF Follows, Root, Last
    <3>3. e = Encoded(m)
      BY <3>1, <3>2, RootFacts
    <3> QED
      BY <3>3, RootFacts
  <2> QED
    BY <2>1, <2>2
<1> HIDE DEF e, w
<1>9. top.l \in Nat /\ top.base \in Nat /\ top.iNdEx \in Nat
  BY <1>1 DEF IsCall
<1> QED
  BY <1>3, <1>4, <1>5, <1>6, <1>7, <1>8, <1>9 DEF e, w

\* Bytes behind the top call's slice that the message has are missing at the end.
LEMMA TooFew ==
  ASSUME SInv, TInv, NEW m \in Samples, NEW lim \in Nat, NEW h,
         Tracked(m, lim, h),
         top.l < Len(Code(top.type, h[Len(calls)].g))
  PROVE  Len(calls) = 1 /\ Len(dAtA) < Len(Encoded(m))
<1>1. PICK S : calls \in Seq(S)
  BY DEF SInv, IsStack
<1>2. /\ calls # <<>> /\ top = Last(calls) /\ Follows(dAtA, lim, calls, h, m)
      /\ top.l \in Nat /\ Len(dAtA) \in Nat
  BY TopTracked, TopBounds DEF Tracked
<1>3. Last(calls).l # Len(Code(Last(calls).type, h[Len(calls)].g))
  BY <1>2
<1> QED
  BY <1>1, <1>2, <1>3, RootFacts, ShortSlice

\* The decoder fails.
LEMMA Fails ==
  ASSUME SInv, TInv, NEW m \in Samples, NEW lim \in Nat, NEW h,
         Tracked(m, lim, h), Fail,
         top.l < Len(Code(top.type, h[Len(calls)].g))
  PROVE  Exact(m, lim)'
<1>1. Len(dAtA) < Len(Encoded(m))
  BY TooFew
<1>2. verdict' = "error" /\ dAtA' = dAtA
  BY DEF Fail
<1> QED
  BY <1>1, <1>2 DEF Exact

\* The top call stays what it is.
LEMMA Stays ==
  ASSUME NEW m \in Samples, NEW lim \in Nat, NEW h,
         Tracked(m, lim, h),
         dAtA' = dAtA, calls' = calls, verdict' = "run",
         Placed(top, h[Len(calls)], now')
  PROVE  Exact(m, lim)'
<1>1. top' = top
  BY DEF top
<1>2. Tracked(m, lim, h)'
  BY <1>1 DEF Tracked
<1> QED
  BY <1>2 DEF Exact

\* The top call goes on as c.
LEMMA GoesOn ==
  ASSUME SInv, TInv, NEW m \in Samples, NEW lim \in Nat, NEW h,
         Tracked(m, lim, h),
         NEW c, c.type = top.type, c.base = top.base, c.l = top.l, c.at = top.at,
         NEW w, w.g = h[Len(calls)].g, Through(c, w),
         dAtA' = dAtA, verdict' = "run",
         calls' = [calls EXCEPT ![Len(calls)] = c], Placed(c, w, now')
  PROVE  Exact(m, lim)'
<1> DEFINE n == Len(calls)
           g == [k \in 1 .. n |-> IF k = n THEN w ELSE h[k]]
<1>1. PICK S : calls \in Seq(S)
  BY DEF SInv, IsStack
<1>2. calls # <<>> /\ top = Last(calls) /\ n \in Nat \ {0}
  BY TopTracked, TopCall
<1>3. Follows(dAtA, lim, calls', g, m)
  <2>1. /\ Follows(dAtA, lim, calls, h, m) /\ Last(calls).type = c.type
        /\ Last(calls).base = c.base /\ Last(calls).l = c.l /\ Last(calls).at = c.at
    BY <1>2 DEF Tracked
  <2> DEFINE r == [calls EXCEPT ![Len(calls)] = c]
  <2>2. r = [calls EXCEPT ![Len(calls)] = c]
    OBVIOUS
  <2>3. g = [k \in 1 .. Len(calls) |-> IF k = Len(calls) THEN w ELSE h[k]]
    OBVIOUS
  <2> HIDE DEF g, r
  <2>4. Follows(dAtA, lim, r, g, m)
    BY <1>1, <1>2, <2>1, <2>2, <2>3, FollowsOn
  <2> QED
    BY <2>2, <2>4
<1>4. Len(calls') = n /\ Last(calls') = c
  <2>1. calls \in Seq(S \union {c}) /\ n \in DOMAIN calls
    BY <1>1, <1>2
  <2> HIDE DEF n
  <2>2. calls' \in Seq(S \union {c}) /\ Len(calls') = n /\ calls'[n] = c
    BY <2>1 DEF n
  <2> QED
    BY <2>2 DEF Last
<1>5. g[n] = w
  BY <1>2
<1> HIDE DEF g, n
<1>6. PICK i : i = g
  OBVIOUS
<1>7. Tracked(m, lim, i)'
  BY <1>3, <1>4, <1>5, <1>6 DEF Tracked, top
<1> QED
  BY <1>7 DEF Exact

-----------------------------------------------------------------------------
(* The steps that read a varint.                                           *)

\* The varint that is due is in the item.
LEMMA DueHeld ==
  ASSUME NEW t \in Written, NEW f \in Fields[t], NEW v \in Values(f.kind), NEW z,
         Switches(z, f)
  PROVE  Holds(Item(f, v), Offset(z.what, f), Due(z.what, f, v))
<1>1. CASE z.what = "tag"
  BY <1>1, ItemShape DEF Offset, Due
<1>2. CASE z.what = "value"
  <2>1. f.kind \in Varied
    BY <1>2 DEF Switches
  <2> QED
    BY <1>2, <2>1, VariedShape DEF Offset, Due
<1>3. CASE z.what = "length"
  <2>1. f.kind \notin Flat
    BY <1>3 DEF Switches
  <2> QED
    BY <1>3, <2>1, BodyShape DEF Offset, Due
<1> QED
  BY <1>1, <1>2, <1>3 DEF Switches

\* The item that is read.
LEMMA BusyFacts ==
  ASSUME SInv, TInv, NEW m \in Samples, NEW lim \in Nat, NEW h,
         Tracked(m, lim, h),
         Busy(top, h[Len(calls)], now)
  PROVE  LET w == h[Len(calls)]
             t == top.type
             f == FieldAt(t, w.g, w.n + 1)
             v == ValueAt(t, w.g, w.n + 1)
             s == Ends(t, w.g, w.n) + Offset(what, f)
             x == Due(what, f, v)
         IN  /\ w.n \in 0 .. Count(t, w.g) - 1 /\ t \in Written /\ w.g \in Messages(t)
             /\ f \in Fields[t] /\ v \in Values(f.kind)
             /\ Ends(t, w.g, w.n) \in Nat
             /\ Holds(Code(t, w.g), s, x) /\ Reading(top.iNdEx, s, x, now)
<1> DEFINE w == h[Len(calls)]
           t == top.type
           n == w.n
           f == FieldAt(t, w.g, n + 1)
           v == ValueAt(t, w.g, n + 1)
           s == Ends(t, w.g, n) + Offset(what, f)
           x == Due(what, f, v)
<1>1. /\ t \in Written /\ w.g \in Messages(t) /\ n \in 0 .. Count(t, w.g)
      /\ Count(t, w.g) \in Nat
  BY TopTracked, CodeFacts
<1>2. /\ n < Count(t, w.g) /\ Switches(now, f) /\ now.what = what
      /\ Reading(top.iNdEx, s, x, now)
  BY DEF Busy, now
<1>3. n \in 0 .. Count(t, w.g) - 1 /\ n + 1 \in 1 .. Count(t, w.g)
  BY <1>1, <1>2
<1>4. f \in Fields[t] /\ v \in Values(f.kind)
  BY <1>1, <1>3, WayStep
<1>5. Holds(Item(f, v), Offset(what, f), x)
  BY <1>1, <1>2, <1>4, DueHeld
<1>6. Holds(Code(t, w.g), s, x)
  BY <1>1, <1>3, <1>5, HeldInCode
<1>7. Ends(t, w.g, n) \in Nat
  BY <1>1, <1>3, EndsStep
<1> QED
  BY <1>1, <1>2, <1>3, <1>4, <1>6, <1>7

\* Between two items the index is where one begins, if it is not the end.
LEMMA IdleBegins ==
  ASSUME NEW c, NEW w, NEW z, c.type \in Written, w.g \in Messages(c.type),
         w.n \in 0 .. Count(c.type, w.g),
         Idle(c, w, z), c.iNdEx < Len(Code(c.type, w.g))
  PROVE  Busy(c, w, z)
<1> DEFINE t == c.type
           g == w.g
           n == w.n
           f == FieldAt(t, g, n + 1)
           v == ValueAt(t, g, n + 1)
           p == Ends(t, g, n)
<1>1. n < Count(t, g) /\ p \in Nat /\ c.iNdEx = p /\ Count(t, g) \in Nat
  BY EndsBefore, CodeFacts DEF Idle
<1>2. f \in Fields[t]
  <2>1. n + 1 \in 1 .. Count(t, g)
    BY <1>1
  <2> QED
    BY <2>1, WayStep
<1>3. Tag(f) \in Words /\ sov(Tag(f)) \in 1 .. 2
  BY <1>2, TagIs
<1>4. /\ z.pc = "read" /\ z.what = "tag" /\ z.digits = 0 /\ z.weight = 1 /\ z.acc = 0
  BY DEF Idle
<1> HIDE DEF f, v, p, t, g, n
<1>5. Reading(p, p + 0, Tag(f), z)
  <2>1. Tag(f) \in Nat /\ Power[0] = 1 /\ Tag(f) % 1 = 0
    <3>1. Tag(f) \in Nat
      BY <1>3, WordFacts
    <3>2. \A q \in Nat : q % 1 = 0
      OBVIOUS
    <3> QED
      BY <3>1, <3>2, Powers
  <2>2. 0 \in 0 .. sov(Tag(f)) - 1 /\ p = (p + 0) + 0
    BY <1>1, <1>3
  <2> QED
    BY <1>4, <2>1, <2>2 DEF Reading
<1>6. /\ Offset(z.what, f) = 0 /\ Due(z.what, f, v) = Tag(f) /\ Switches(z, f)
  BY <1>4 DEF Offset, Due, Switches
<1> QED
  BY <1>1, <1>5, <1>6 DEF Busy, f, v, p, t, g, n

\* The index is that of the varint that is read.
LEMMA ReadingPlace ==
  ASSUME NEW e, NEW s, NEW x, Holds(e, s, x), NEW i, NEW z, Reading(i, s, x, z),
         z.pc = "read"
  PROVE  /\ z.digits \in 0 .. sov(x) - 1 /\ z.digits \in 0 .. MaxDigits - 1
         /\ i = s + z.digits /\ x \in Words
         /\ Len(e) \in Nat => i < Len(e) /\ e[i + 1] = encodeVarint(x)[z.digits + 1]
<1> DEFINE d == z.digits
           n == sov(x)
<1>1. /\ x \in Words /\ s \in Nat /\ s + n <= Len(e)
      /\ \A j \in 1 .. n : e[s + j] = encodeVarint(x)[j]
  BY DEF Holds
<1>2. d \in 0 .. n - 1 /\ i = s + d
  BY DEF Reading
<1>3. n \in 1 .. MaxDigits /\ MaxDigits \in Nat
  BY <1>1, VarintTyped, Sizes
<1> HIDE DEF n, d
<1>4. d \in 0 .. MaxDigits - 1
  BY <1>2, <1>3
<1>5. d + 1 \in 1 .. n /\ i + 1 = s + (d + 1)
  BY <1>1, <1>2, <1>3
<1>6. e[i + 1] = encodeVarint(x)[d + 1]
  BY <1>1, <1>5
<1>7. Len(e) \in Nat => i < Len(e)
  BY <1>1, <1>2, <1>3
<1> QED
  BY <1>1, <1>2, <1>4, <1>6, <1>7 DEF n, d

\* Another digit of the varint that is due.
LEMMA DigitTracks ==
  ASSUME SInv, TInv, NEW m \in Samples, NEW lim \in Nat, NEW h,
         Tracked(m, lim, h), Digit, top.base + top.iNdEx + 1 <= lim
  PROVE  Exact(m, lim)'
<1> DEFINE w == h[Len(calls)]
           t == top.type
           e == Code(t, w.g)
           f == FieldAt(t, w.g, w.n + 1)
           v == ValueAt(t, w.g, w.n + 1)
           s == Ends(t, w.g, w.n) + Offset(what, f)
           x == Due(what, f, v)
           i == top.iNdEx
           c == [top EXCEPT !.iNdEx = i + 1]
           b == dAtA[top.base + i + 1]
<1>1. /\ t \in Written /\ w.g \in Messages(t) /\ w.n \in 0 .. Count(t, w.g)
      /\ Through(top, w) /\ Placed(top, w, now) /\ IsCall(top) /\ IsFrame(top)
  BY TopTracked
<1>2. /\ Len(e) \in Nat /\ top.l <= Len(e) /\ top.l \in Nat /\ i \in Nat
      /\ top.base \in Nat
      /\ \A j \in 1 .. top.l : top.base + j <= lim => dAtA[top.base + j] = e[j]
  BY TopBounds
<1>3. /\ verdict = "run" /\ pc = "read" /\ i < top.l
      /\ acc' = (acc + (b % Base) * weight) % Word
      /\ pc' = IF b < Base THEN "use" ELSE "read"
      /\ calls' = Seek(i + 1)
      /\ digits' = digits + 1 /\ weight' = (weight * Base) % Word
      /\ UNCHANGED <<dAtA, what, preIndex, field, depth, verdict>>
  BY DEF Digit
<1>4. Busy(top, w, now)
  <2>1. i < Len(e)
    BY <1>2, <1>3
  <2> QED
    BY <1>1, <2>1, IdleBegins DEF Placed
<1>5. /\ Holds(e, s, x) /\ Reading(i, s, x, now) /\ w.n < Count(t, w.g)
      /\ Switches(now, f)
  BY <1>4, BusyFacts DEF Busy
<1>6. /\ now.pc = "read" /\ now.digits = digits /\ now.acc = acc /\ now.weight = weight
      /\ now.what = what /\ now.field = field
  BY <1>3 DEF now
<1>7. /\ now'.pc = pc' /\ now'.digits = digits + 1 /\ now'.acc = acc'
      /\ now'.weight = weight' /\ now'.what = what /\ now'.field = field
  BY <1>3 DEF now
<1>8. c.iNdEx = i + 1 /\ c.type = t /\ c.base = top.base /\ c.l = top.l /\ c.at = top.at
      /\ c.m = top.m /\ c.got = top.got
  BY <1>1 DEF IsCall, IsFrame, Parts, Numbers
<1>9. calls' = [calls EXCEPT ![Len(calls)] = c]
  BY <1>3, TopCall DEF Seek
<1> HIDE DEF w, t, e, f, v, s, x, i, c
<1>10. /\ digits \in 0 .. sov(x) - 1 /\ i = s + digits /\ x \in Words
       /\ e[i + 1] = encodeVarint(x)[digits + 1]
       /\ acc = x % Power[digits] /\ weight = Power[digits]
  <2>1. /\ digits \in 0 .. sov(x) - 1 /\ i = s + digits /\ x \in Words
        /\ e[i + 1] = encodeVarint(x)[digits + 1]
    BY <1>2, <1>5, <1>6, ReadingPlace
  <2> QED
    BY <1>5, <1>6, <2>1 DEF Reading
<1>11. b = encodeVarint(x)[digits + 1]
  <2>0. top.base + i + 1 <= lim
    BY DEF i
  <2>1. i + 1 \in 1 .. top.l /\ top.base + i + 1 = top.base + (i + 1)
    <3> DEFINE l == top.l
               a == top.base
    <3>1. i \in Nat /\ l \in Nat /\ a \in Nat /\ i < l
      BY <1>2, <1>3
    <3> HIDE DEF l, a
    <3>2. i + 1 \in 1 .. l /\ a + i + 1 = a + (i + 1)
      BY <3>1
    <3> QED
      BY <3>2 DEF l, a
  <2>2. dAtA[top.base + (i + 1)] = e[i + 1]
    BY <1>2, <2>0, <2>1
  <2> QED
    BY <1>10, <2>1, <2>2
<1> HIDE DEF b
<1>12. /\ b < Base <=> digits + 1 = sov(x)
       /\ acc' = x % Power[digits + 1]
       /\ digits + 1 < sov(x) => weight' = Power[digits + 1]
       /\ digits + 1 = sov(x) => x % Power[digits + 1] = x
  BY <1>3, <1>10, <1>11, VarintDigit
<1>13. Reading(i + 1, s, x, now')
  <2>1. sov(x) \in Nat /\ s \in Nat /\ digits \in Nat
    BY <1>5, <1>10, VarintTyped DEF Holds
  <2>2. i + 1 = s + (digits + 1)
    BY <1>10, <2>1
  <2>3. CASE digits + 1 = sov(x)
    BY <1>3, <1>7, <1>12, <2>2, <2>3 DEF Reading
  <2>4. CASE digits + 1 # sov(x)
    <3>1. digits + 1 < sov(x) /\ digits + 1 \in 0 .. sov(x) - 1
      BY <1>10, <2>1, <2>4
    <3> QED
      BY <1>3, <1>7, <1>12, <2>2, <2>4, <3>1 DEF Reading
  <2> QED
    BY <2>3, <2>4
<1>14. Switches(now', f) /\ now'.what = what
  BY <1>5, <1>6, <1>7 DEF Switches
<1>15. Placed(c, w, now')
  <2>1. Busy(c, w, now')
    BY <1>5, <1>8, <1>13, <1>14 DEF Busy, f, v, s, x
  <2> QED
    BY <2>1 DEF Placed
<1>16. Through(c, w)
  BY <1>1, <1>8 DEF Through, t
<1>17. c.type = top.type /\ w.g = h[Len(calls)].g
  BY <1>8 DEF t, w
<1> QED
  BY <1>3, <1>8, <1>9, <1>15, <1>16, <1>17, GoesOn

\* A varint is never too long: only the bytes may end in it.
LEMMA BadVarintTracks ==
  ASSUME SInv, TInv, NEW m \in Samples, NEW lim \in Nat, NEW h,
         Tracked(m, lim, h), BadVarint
  PROVE  Exact(m, lim)'
<1> DEFINE w == h[Len(calls)]
           t == top.type
           e == Code(t, w.g)
           f == FieldAt(t, w.g, w.n + 1)
           v == ValueAt(t, w.g, w.n + 1)
           s == Ends(t, w.g, w.n) + Offset(what, f)
           x == Due(what, f, v)
           i == top.iNdEx
<1>1. /\ pc = "read" /\ Fail
      /\ digits = MaxDigits \/ (i >= top.l /\ (digits > 0 \/ what # "tag"))
  BY DEF BadVarint
<1>2. now.pc = "read" /\ now.digits = digits /\ now.what = what
  BY <1>1 DEF now
<1>3. Busy(top, w, now)
  <2>1. Placed(top, w, now)
    BY TopTracked
  <2>2. MaxDigits # 0
    BY Sizes
  <2>3. ~Idle(top, w, now)
    BY <1>1, <1>2, <2>2 DEF Idle
  <2> QED
    BY <2>1, <2>3 DEF Placed
<1>4. Holds(e, s, x) /\ Reading(i, s, x, now)
  BY <1>3, BusyFacts
<1>5. Len(e) \in Nat /\ top.l \in Nat /\ i \in Nat
  BY TopBounds
<1> HIDE DEF e, s, x
<1>6. digits \in 0 .. MaxDigits - 1 /\ i < Len(e)
  BY <1>2, <1>4, <1>5, ReadingPlace
<1>7. digits # MaxDigits
  BY <1>6, Sizes
<1>8. top.l < Len(e)
  BY <1>1, <1>5, <1>6, <1>7
<1> QED
  BY <1>1, <1>8, Fails DEF e

\* The varint that was due has been read.
LEMMA UseFacts ==
  ASSUME SInv, TInv, NEW m \in Samples, NEW lim \in Nat, NEW h,
         Tracked(m, lim, h), pc = "use"
  PROVE  LET w == h[Len(calls)]
             t == top.type
             f == FieldAt(t, w.g, w.n + 1)
             v == ValueAt(t, w.g, w.n + 1)
             s == Ends(t, w.g, w.n) + Offset(what, f)
             x == Due(what, f, v)
         IN  /\ w.n \in 0 .. Count(t, w.g) - 1 /\ t \in Written /\ w.g \in Messages(t)
             /\ f \in Fields[t] /\ v \in Values(f.kind) /\ Switches(now, f)
             /\ Ends(t, w.g, w.n) \in Nat
             /\ acc = x /\ x \in Words /\ top.iNdEx = s + sov(x)
<1> DEFINE w == h[Len(calls)]
           t == top.type
           f == FieldAt(t, w.g, w.n + 1)
           v == ValueAt(t, w.g, w.n + 1)
           s == Ends(t, w.g, w.n) + Offset(what, f)
           x == Due(what, f, v)
<1>1. now.pc = "use" /\ now.acc = acc
  BY DEF now
<1>2. Busy(top, w, now)
  <2>1. Placed(top, w, now)
    BY TopTracked
  <2>2. ~Idle(top, w, now)
    BY <1>1 DEF Idle
  <2> QED
    BY <2>1, <2>2 DEF Placed
<1>3. /\ w.n \in 0 .. Count(t, w.g) - 1 /\ t \in Written /\ w.g \in Messages(t)
      /\ f \in Fields[t] /\ v \in Values(f.kind)
      /\ Ends(t, w.g, w.n) \in Nat
      /\ Holds(Code(t, w.g), s, x) /\ Reading(top.iNdEx, s, x, now)
  BY <1>2, BusyFacts
<1>4. Switches(now, f)
  BY <1>2 DEF Busy
<1> HIDE DEF f, v, s, x, t, w
<1>5. acc = x /\ top.iNdEx = s + sov(x)
  BY <1>1, <1>3 DEF Reading
<1>6. x \in Words
  BY <1>3 DEF Holds
<1> QED
  BY <1>3, <1>4, <1>5, <1>6 DEF f, v, s, x, t, w

\* The tag of the item's field leads to its case.
LEMMA TagRead ==
  ASSUME SInv, TInv, NEW m \in Samples, NEW lim \in Nat, NEW h,
         Tracked(m, lim, h), pc = "use", what = "tag"
  PROVE  LET w == h[Len(calls)]
             t == top.type
             f == FieldAt(t, w.g, w.n + 1)
         IN  /\ wireType = WireOf(f) /\ wireType \in {0, 2, 5}
             /\ fieldNum = f.no /\ fieldNum > 0 /\ Known /\ FieldOf = f
             /\ top.iNdEx = Ends(t, w.g, w.n) + sov(Tag(f))
<1> DEFINE w == h[Len(calls)]
           t == top.type
           f == FieldAt(t, w.g, w.n + 1)
           v == ValueAt(t, w.g, w.n + 1)
           s == Ends(t, w.g, w.n) + Offset(what, f)
           x == Due(what, f, v)
<1>1. /\ f \in Fields[t] /\ t \in Written /\ Ends(t, w.g, w.n) \in Nat
      /\ acc = x /\ top.iNdEx = s + sov(x)
  BY UseFacts
<1>2. x = Tag(f) /\ Offset(what, f) = 0
  BY DEF Due, Offset
<1>3. s = Ends(t, w.g, w.n)
  BY <1>1, <1>2
<1> HIDE DEF f, v, s, x, w
<1>4. /\ f.no \in FieldNos /\ \A e \in Fields[t] : e.no = f.no => e = f
      /\ WireOf(f) \in {0, 2, 5}
  BY <1>1, TagIs
<1> DEFINE no == f.no
           k == WireOf(f)
<1>5. no \in FieldNos /\ k \in 0 .. 7 /\ acc = 8 * no + k
  BY <1>1, <1>2, <1>4 DEF Tag
<1> HIDE DEF no, k
<1>6. acc % 8 = k /\ (acc \div 8) % Half = no /\ ~(2 * no >= Half)
  <2> DEFINE a == 8 * no + k
  <2>1. no \in FieldNos /\ k \in 0 .. 7 /\ a = 8 * no + k
    BY <1>5
  <2>2. acc = a
    BY <1>5
  <2>3. a % 8 = k /\ (a \div 8) % Half = no /\ ~(2 * no >= Half)
    <3>1. no \in 1 .. 19 /\ no \in Nat /\ k \in 0 .. 8 - 1
      BY <2>1 DEF FieldNos
    <3>2. a % 8 = k /\ a \div 8 = no
      BY <3>1, DivModUnique
    <3>3. no % Half = no /\ ~(2 * no >= Half)
      <4>1. Half \in Nat /\ Half > 64
        BY Sizes
      <4> QED
        BY <3>1, <4>1
    <3> QED
      BY <3>2, <3>3
  <2> HIDE DEF a
  <2> QED
    BY <2>2, <2>3
<1>7. wireType = k /\ fieldNum = no
  BY <1>6 DEF wireType, fieldNum
<1>8. no > 0
  BY <1>5 DEF FieldNos
<1>9. wireType = WireOf(f) /\ fieldNum = f.no /\ fieldNum > 0
  BY <1>7, <1>8 DEF no, k
<1>10. Known /\ FieldOf = f
  <2>1. Known
    BY <1>1, <1>9 DEF Known, t
  <2>2. FieldOf \in Fields[t] /\ FieldOf.no = f.no
    BY <1>1, <1>9 DEF FieldOf, t
  <2> QED
    BY <1>4, <2>1, <2>2
<1> QED
  BY <1>1, <1>2, <1>3, <1>4, <1>9, <1>10 DEF f, w

\* No tag that Marshal writes is rejected, and none is unknown.
LEMMA NoRejectTag ==
  ASSUME SInv, TInv, NEW m \in Samples, NEW lim \in Nat, NEW h,
         Tracked(m, lim, h), RejectTag \/ UnknownField
  PROVE  FALSE
<1>1. pc = "use" /\ what = "tag"
  BY DEF RejectTag, UnknownField, Running
<1> DEFINE f == FieldAt(top.type, h[Len(calls)].g, h[Len(calls)].n + 1)
<1>2. /\ wireType = WireOf(f) /\ wireType \in {0, 2, 5}
      /\ fieldNum > 0 /\ Known /\ FieldOf = f /\ fieldNum = f.no
  BY <1>1, TagRead
<1>3. f.no \in FieldNos
  BY <1>1, UseFacts, TagIs
<1> HIDE DEF f
<1>4. fieldNum \in Nat
  BY <1>2, <1>3 DEF FieldNos
<1>5. ~(fieldNum <= 0)
  BY <1>2, <1>4
<1> QED
  BY <1>2, <1>5 DEF RejectTag, UnknownField, WireOf

\* A tag leads to the value of its item.
LEMMA KnownTracks ==
  ASSUME SInv, TInv, NEW m \in Samples, NEW lim \in Nat, NEW h,
         Tracked(m, lim, h), KnownField
  PROVE  Exact(m, lim)'
<1> DEFINE w == h[Len(calls)]
           t == top.type
           f == FieldAt(t, w.g, w.n + 1)
           v == ValueAt(t, w.g, w.n + 1)
           p == Ends(t, w.g, w.n)
           u == IF wireType = 0 THEN "value" ELSE "length"
<1>1. /\ pc = "use" /\ what = "tag" /\ verdict = "run" /\ field' = FieldOf
      /\ Read(u) /\ FieldOf.kind # "fixed32"
      /\ UNCHANGED <<dAtA, calls, preIndex, depth, verdict>>
  BY DEF KnownField, Running
<1>2. /\ w.n \in 0 .. Count(t, w.g) - 1 /\ t \in Written /\ w.g \in Messages(t)
      /\ f \in Fields[t] /\ v \in Values(f.kind) /\ p \in Nat
  BY <1>1, UseFacts
<1>3. wireType = WireOf(f) /\ FieldOf = f /\ top.iNdEx = p + sov(Tag(f))
  BY <1>1, TagRead
<1>4. f.kind \in Varied <=> WireOf(f) = 0
  BY <1>2, TagIs
<1>5. /\ now'.pc = "read" /\ now'.what = u /\ now'.digits = 0 /\ now'.weight = 1
      /\ now'.acc = 0 /\ now'.field = f
  BY <1>1, <1>3 DEF now, Read
<1>6. Switches(now', f) /\ u # "tag"
  BY <1>1, <1>3, <1>4, <1>5 DEF Switches, Flat
<1>7. w.n < Count(t, w.g)
  BY <1>2, CodeFacts
<1> HIDE DEF w, t, f, v, p, u
<1> DEFINE x == Due(u, f, v)
<1>8. x \in Words
  BY <1>2, <1>5, <1>6, DueHeld DEF Holds
<1>9. Reading(top.iNdEx, p + sov(Tag(f)), x, now')
  <2>1. sov(x) \in 1 .. MaxDigits /\ MaxDigits \in Nat /\ x \in Nat
    BY <1>8, VarintTyped, Sizes, WordFacts
  <2>2. 0 \in 0 .. sov(x) - 1
    BY <2>1
  <2>3. Power[0] = 1 /\ x % Power[0] = 0
    <3>1. \A q \in Nat : q % 1 = 0
      OBVIOUS
    <3> QED
      BY <2>1, <3>1, Powers
  <2>4. p + sov(Tag(f)) \in Nat
    <3>1. sov(Tag(f)) \in 1 .. 2
      BY <1>2, TagIs
    <3> QED
      BY <1>2, <3>1
  <2>5. top.iNdEx = (p + sov(Tag(f))) + 0
    BY <1>3, <2>4
  <2> QED
    BY <1>5, <2>2, <2>3, <2>5 DEF Reading
<1>10. Busy(top, w, now')
  <2>1. Offset(u, f) = sov(Tag(f))
    BY <1>6 DEF Offset
  <2> QED
    BY <1>5, <1>6, <1>7, <1>9, <2>1 DEF Busy, f, v, p, t
<1> QED
  BY <1>1, <1>10, Stays DEF Placed, w

\* The value of the next item is stored where it ends.
LEMMA StoreTracks ==
  ASSUME SInv, TInv, NEW m \in Samples, NEW lim \in Nat, NEW h,
         Tracked(m, lim, h), verdict = "run",
         NEW g, g = h[Len(calls)].g, NEW n, n = h[Len(calls)].n,
         n \in 0 .. Count(top.type, g) - 1,
         NEW f, f = FieldAt(top.type, g, n + 1),
         NEW v, v = ValueAt(top.type, g, n + 1),
         NEW i, i = Ends(top.type, g, n + 1),
         calls' = Stored(f, v, i), Loop(i)
  PROVE  Exact(m, lim)'
<1> DEFINE t == top.type
           k == Len(calls)
           w == [g |-> g, n |-> n + 1]
           y == Put(top.m, f, v)
           q == top.got \union {f.name}
           c == [[[top EXCEPT !.m = y] EXCEPT !.got = q] EXCEPT !.iNdEx = i]
<1>1. /\ t \in Written /\ g \in Messages(t) /\ Through(top, h[k])
      /\ IsCall(top) /\ IsFrame(top)
  BY TopTracked
<1>2. k \in DOMAIN calls /\ top = calls[k]
  BY TopCall
<1>3. calls' = [calls EXCEPT ![k].m = y, ![k].got = q, ![k].iNdEx = i]
  BY DEF Stored
<1>4. Count(t, g) \in Nat /\ n + 1 \in 1 .. Count(t, g) /\ n + 1 \in 0 .. Count(t, g)
      /\ n \in Nat /\ (n + 1) - 1 = n
  BY <1>1, CodeFacts
<1>5. y = Made(t, g, n + 1)
  BY <1>1, <1>4, WayStep DEF Through
<1>6. \A j \in 1 .. n : LET e == FieldAt(t, g, j) IN e.label = "req" => e.name \in top.got
  BY <1>1 DEF Through
<1> HIDE DEF y, q, k
<1>7. calls' = [calls EXCEPT ![k] = c]
  BY <1>2, <1>3
<1>8. /\ c.m = y /\ c.got = q /\ c.iNdEx = i /\ c.type = t /\ c.base = top.base
      /\ c.l = top.l /\ c.at = top.at
  BY <1>1 DEF IsCall, IsFrame, Parts, Numbers
<1>9. w.g = g /\ w.n = n + 1
  OBVIOUS
<1> HIDE DEF c, w
<1>10. Through(c, w)
  <2>1. ASSUME NEW j \in 1 .. n + 1, FieldAt(t, g, j).label = "req"
        PROVE  FieldAt(t, g, j).name \in q
    <3>1. CASE j = n + 1
      BY <3>1 DEF q
    <3>2. CASE j # n + 1
      <4>1. j \in 1 .. n
        BY <1>4, <3>2
      <4> QED
        BY <1>6, <2>1, <4>1 DEF q
    <3> QED
      BY <3>1, <3>2
  <2> HIDE DEF t
  <2> QED
    BY <1>4, <1>5, <1>8, <1>9, <2>1 DEF Through
<1>11. Placed(c, w, now')
  <2>1. Idle(c, w, now')
    BY <1>8, <1>9 DEF Idle, now, Loop, Read
  <2> QED
    BY <2>1 DEF Placed
<1>12. dAtA' = dAtA /\ verdict' = "run"
  BY DEF Loop
<1> QED
  BY <1>7, <1>8, <1>9, <1>10, <1>11, <1>12, GoesOn DEF k, t

-----------------------------------------------------------------------------
(* The steps that store a value.                                           *)

\* A varint that was read is stored as the value it was written of.
LEMMA ValueTracks ==
  ASSUME SInv, TInv, NEW m \in Samples, NEW lim \in Nat, NEW h,
         Tracked(m, lim, h), Value
  PROVE  Exact(m, lim)'
<1> DEFINE w == h[Len(calls)]
           t == top.type
           f == FieldAt(t, w.g, w.n + 1)
           v == ValueAt(t, w.g, w.n + 1)
           p == Ends(t, w.g, w.n)
           x == Wire(f.kind, v)
<1>1. /\ pc = "use" /\ what = "value" /\ verdict = "run"
      /\ calls' = Stored(field, Converted(field.kind), top.iNdEx) /\ Loop(top.iNdEx)
  BY DEF Value, Running
<1>2. Due(what, f, v) = x /\ Offset(what, f) = sov(Tag(f))
  BY <1>1 DEF Due, Offset
<1>3. /\ w.n \in 0 .. Count(t, w.g) - 1 /\ t \in Written /\ w.g \in Messages(t)
      /\ f \in Fields[t] /\ v \in Values(f.kind) /\ Switches(now, f)
      /\ p \in Nat /\ acc = x /\ top.iNdEx = (p + sov(Tag(f))) + sov(x)
  BY <1>1, <1>2, UseFacts
<1>4. field = f /\ f.kind \in Varied
  BY <1>1, <1>3 DEF Switches, now
<1>5. Ends(t, w.g, w.n + 1) = p + Len(Item(f, v))
  BY <1>3, EndsStep
<1>6. /\ Len(Item(f, v)) = sov(Tag(f)) + sov(x) /\ sov(Tag(f)) \in 1 .. 2
      /\ x \in Words
  BY <1>3, <1>4, VariedShape, TagIs, WireBack
<1>7. Converted(field.kind) = v
  <2>1. Converted(f.kind) = ReadBack(f.kind, acc)
    BY DEF Converted, ReadBack
  <2>2. ReadBack(f.kind, x) = v
    BY <1>3, <1>4, WireBack
  <2> QED
    BY <1>3, <1>4, <2>1, <2>2
<1> HIDE DEF w, t, f, v, p, x
<1>8. top.iNdEx = Ends(t, w.g, w.n + 1)
  <2>1. sov(x) \in Nat
    BY <1>6, VarintTyped
  <2> QED
    BY <1>3, <1>5, <1>6, <2>1
<1>9. calls' = Stored(f, v, Ends(t, w.g, w.n + 1)) /\ Loop(Ends(t, w.g, w.n + 1))
  BY <1>1, <1>4, <1>7, <1>8
<1> QED
  BY <1>1, <1>3, <1>9, StoreTracks DEF w, t, f, v

\* Four bytes are read as the value they were written of, if they are there.
LEMMA FixedTracks ==
  ASSUME SInv, TInv, NEW m \in Samples, NEW lim \in Nat, NEW h,
         Tracked(m, lim, h), Fixed32Field,
         top.iNdEx + 4 <= top.l => top.base + top.iNdEx + 4 <= lim
  PROVE  Exact(m, lim)'
<1> DEFINE w == h[Len(calls)]
           t == top.type
           f == FieldAt(t, w.g, w.n + 1)
           v == ValueAt(t, w.g, w.n + 1)
           p == Ends(t, w.g, w.n)
           q == Ends(t, w.g, w.n + 1)
           i == top.iNdEx
           e == Code(t, w.g)
<1>1. /\ pc = "use" /\ what = "tag" /\ verdict = "run" /\ FieldOf.kind = "fixed32"
      /\ IF i + 4 > top.l THEN Fail
         ELSE calls' = Stored(FieldOf, Fixed32, i + 4) /\ Loop(i + 4)
  BY DEF Fixed32Field, Running
<1>2. /\ w.n \in 0 .. Count(t, w.g) - 1 /\ t \in Written /\ w.g \in Messages(t)
      /\ f \in Fields[t] /\ v \in Values(f.kind) /\ p \in Nat
  BY <1>1, UseFacts
<1>3. FieldOf = f /\ i = p + sov(Tag(f))
  BY <1>1, TagRead
<1>4. f.kind = "fixed32"
  BY <1>1, <1>3
<1>5. /\ q = p + Len(Item(f, v)) /\ q <= Len(e)
      /\ \A j \in 1 .. Len(Item(f, v)) : e[p + j] = Item(f, v)[j]
  <2> DEFINE k == w.n
             g == w.g
  <2>1. k \in 0 .. Count(t, g) - 1 /\ t \in Written /\ g \in Messages(t)
    BY <1>2
  <2> HIDE DEF t, k, g
  <2>2. LET y == Item(FieldAt(t, g, k + 1), ValueAt(t, g, k + 1)) IN
        /\ Ends(t, g, k + 1) = Ends(t, g, k) + Len(y)
        /\ Ends(t, g, k + 1) <= Len(Code(t, g))
        /\ \A j \in 1 .. Len(y) : Code(t, g)[Ends(t, g, k) + j] = y[j]
    BY <2>1, EndsStep
  <2> QED
    BY <2>2 DEF k, g
<1>6. /\ Len(Item(f, v)) = sov(Tag(f)) + 4
      /\ \A j \in 1 .. 4 : Item(f, v)[sov(Tag(f)) + j] = Quarters(v)[j]
      /\ sov(Tag(f)) \in 1 .. 2
  BY <1>2, <1>4, FixedShape, TagIs
<1>7. v \in Halves
  BY <1>2, <1>4, KindValues
<1>8. Len(e) \in Nat /\ top.l \in Nat /\ top.l <= Len(e) /\ top.base \in Nat
  BY TopBounds
<1> DEFINE s == sov(Tag(f))
           x == Item(f, v)
           b == Quarters(v)
<1>9. Len(b) = 4
  BY <1>7, FixedBack
<1> HIDE DEF w, t, f, v, p, q, i, e, s, x, b
<1>10. /\ s \in 1 .. 2 /\ i = p + s /\ Len(x) = s + 4 /\ q = p + Len(x)
       /\ \A j \in 1 .. 4 : x[s + j] = b[j]
       /\ \A j \in 1 .. Len(x) : e[p + j] = x[j]
  BY <1>3, <1>5, <1>6 DEF s, x, b
<1>11. q = i + 4 /\ i \in Nat
  BY <1>2, <1>10
<1>12. CASE i + 4 > top.l
  <2>1. top.l < Len(e)
    BY <1>5, <1>8, <1>11, <1>12
  <2> QED
    BY <1>1, <1>12, <2>1, Fails DEF e, t, w
<1>13. CASE ~(i + 4 > top.l)
  <2>1. \A j \in 1 .. Len(b) : e[i + j] = b[j]
    <3>1. ASSUME NEW j \in 1 .. 4
          PROVE  e[i + j] = b[j]
      <4>1. s + j \in 1 .. Len(x) /\ i + j = p + (s + j)
        BY <1>2, <1>10
      <4> QED
        BY <1>10, <4>1
    <3> QED
      BY <1>9, <3>1
  <2>2. \A j \in 1 .. Len(b) : dAtA[(top.base + i) + j] = b[j]
    <3> DEFINE a == top.base
               l == top.l
    <3>1. a \in Nat /\ l \in Nat /\ i + 4 <= l
      BY <1>8, <1>11, <1>13
    <3>2. \A j \in 1 .. l : a + j <= lim => dAtA[a + j] = e[j]
      BY TopBounds DEF e, t, w
    <3>4. a + i + 4 <= lim
      BY <3>1 DEF i
    <3> HIDE DEF a, l
    <3>3. ASSUME NEW j \in 1 .. Len(b)
          PROVE  dAtA[(a + i) + j] = b[j]
      <4>1. i + j \in 1 .. l /\ (a + i) + j = a + (i + j) /\ a + (i + j) <= lim
        BY <1>9, <1>11, <3>1, <3>4
      <4>2. e[i + j] = b[j]
        BY <2>1
      <4> QED
        BY <3>2, <4>1, <4>2
    <3> QED
      BY <3>3 DEF a
  <2>3. /\ dAtA[top.base + i + 1 + 0] = b[1] /\ dAtA[top.base + i + 1 + 1] = b[2]
        /\ dAtA[top.base + i + 1 + 2] = b[3] /\ dAtA[top.base + i + 1 + 3] = b[4]
    <3> DEFINE a == top.base
    <3>1. /\ a + i + 1 + 0 = (a + i) + 1 /\ a + i + 1 + 1 = (a + i) + 2
          /\ a + i + 1 + 2 = (a + i) + 3 /\ a + i + 1 + 3 = (a + i) + 4
      <4>1. a \in Nat
        BY <1>8
      <4> HIDE DEF a
      <4> QED
        BY <1>11, <4>1
    <3>2. 1 \in 1 .. Len(b) /\ 2 \in 1 .. Len(b) /\ 3 \in 1 .. Len(b) /\ 4 \in 1 .. Len(b)
      BY <1>9
    <3>3. \A j \in 1 .. Len(b) : dAtA[(a + i) + j] = b[j]
      BY <2>2
    <3> HIDE DEF a
    <3>4. /\ dAtA[a + i + 1 + 0] = b[1] /\ dAtA[a + i + 1 + 1] = b[2]
          /\ dAtA[a + i + 1 + 2] = b[3] /\ dAtA[a + i + 1 + 3] = b[4]
      BY <3>1, <3>2, <3>3
    <3> QED
      BY <3>4 DEF a
  <2> DEFINE y == (2 * Base) % Half
  <2>4. (b[1] + y * (b[2] + y * ((b[3] + y * b[4]) % Half))) % Half = v
    BY <1>7, FixedBack DEF b
  <2> HIDE DEF y
  <2>5. Fixed32 = (b[1] + y * (b[2] + y * ((b[3] + y * b[4]) % Half))) % Half
    BY <2>3, Zenon DEF Fixed32, y, i
  <2>6. Fixed32 = v
    BY <2>4, <2>5
  <2>7. calls' = Stored(f, v, q) /\ Loop(q)
    BY <1>1, <1>3, <1>11, <1>13, <2>6
  <2> QED
    BY <1>1, <1>2, <2>7, StoreTracks DEF w, t, f, v, q
<1> QED
  BY <1>12, <1>13

\* A sum that is small enough does not wrap.
LEMMA PlusSmall ==
  ASSUME NEW a \in Nat, NEW n \in Nat, a + n < Word \div 2
  PROVE  Plus(a, n) = a + n
<1> DEFINE h == Word \div 2
<1>1. h \in Nat \ {0} /\ 2 * h = Word /\ a + n < h /\ Word \in Nat \ {0}
  BY WordFacts
<1> HIDE DEF h
<1>2. (a + n) % Word = a + n /\ ~(a + n >= h)
  <2>1. a + n \in Nat /\ a + n < Word
    BY <1>1
  <2> QED
    BY <1>1, <2>1
<1> QED
  BY <1>2 DEF Plus, Signed, h

\* The length that was read is that of the value's bytes.
LEMMA LengthRead ==
  ASSUME SInv, TInv, NEW m \in Samples, NEW lim \in Nat, NEW h,
         Tracked(m, lim, h), pc = "use", what = "length"
  PROVE  LET w == h[Len(calls)]
             t == top.type
             f == FieldAt(t, w.g, w.n + 1)
             v == ValueAt(t, w.g, w.n + 1)
             b == Body(f.kind, v)
         IN  /\ field = f /\ f.kind \notin Flat
             /\ length = Len(b) /\ postIndex = Ends(t, w.g, w.n + 1)
             /\ top.iNdEx + Len(b) = postIndex
             /\ postIndex \in Nat /\ postIndex <= Len(Code(t, w.g))
             /\ \A j \in 1 .. Len(b) : Code(t, w.g)[top.iNdEx + j] = b[j]
<1> DEFINE w == h[Len(calls)]
           t == top.type
           f == FieldAt(t, w.g, w.n + 1)
           v == ValueAt(t, w.g, w.n + 1)
           b == Body(f.kind, v)
           p == Ends(t, w.g, w.n)
           q == Ends(t, w.g, w.n + 1)
           x == uint64(Len(b))
           s == sov(Tag(f))
           y == Item(f, v)
           e == Code(t, w.g)
           i == top.iNdEx
<1>1. Due(what, f, v) = x /\ Offset(what, f) = s
  BY DEF Due, Offset
<1>2. /\ w.n \in 0 .. Count(t, w.g) - 1 /\ t \in Written /\ w.g \in Messages(t)
      /\ f \in Fields[t] /\ v \in Values(f.kind) /\ Switches(now, f)
      /\ p \in Nat /\ acc = x /\ i = (p + s) + sov(x) /\ x \in Words
  BY <1>1, UseFacts
<1>3. field = f /\ f.kind \notin Flat
  BY <1>2 DEF Switches, now
<1>4. /\ q = p + Len(y) /\ q <= Len(e) /\ \A j \in 1 .. Len(y) : e[p + j] = y[j]
  <2> DEFINE n == w.n
             g == w.g
  <2>1. n \in 0 .. Count(t, g) - 1 /\ t \in Written /\ g \in Messages(t)
    BY <1>2
  <2> HIDE DEF n, g, t
  <2>2. /\ Ends(t, g, n + 1) = Ends(t, g, n)
                                + Len(Item(FieldAt(t, g, n + 1), ValueAt(t, g, n + 1)))
        /\ Ends(t, g, n + 1) <= Len(Code(t, g))
        /\ \A j \in 1 .. Len(Item(FieldAt(t, g, n + 1), ValueAt(t, g, n + 1))) :
             Code(t, g)[Ends(t, g, n) + j]
               = Item(FieldAt(t, g, n + 1), ValueAt(t, g, n + 1))[j]
    BY <2>1, EndsStep
  <2> QED
    BY <2>2 DEF n, g, t
<1>5. /\ Len(y) = s + sov(x) + Len(b) /\ s \in 1 .. 2
      /\ \A j \in 1 .. Len(b) : y[(s + sov(x)) + j] = b[j]
  <2>1. t \in Written /\ f \in Fields[t] /\ v \in Values(f.kind) /\ f.kind \notin Flat
    BY <1>2, <1>3
  <2> HIDE DEF w, t, f, v
  <2>2. /\ Len(y) = s + sov(x) + Len(b)
        /\ \A j \in 1 .. Len(b) : y[(s + sov(x)) + j] = b[j]
    BY <2>1, BodyShape
  <2>3. s \in 1 .. 2
    BY <2>1, TagIs
  <2> QED
    BY <2>2, <2>3
<1>6. b \in Strings /\ Len(b) \in Nat
  <2>1. t \in Written /\ f \in Fields[t] /\ v \in Values(f.kind) /\ f.kind \notin Flat
    BY <1>2, <1>3
  <2> HIDE DEF w, t, f, v
  <2>2. b \in Seq(Bytes)
    BY <2>1, BodyTyped
  <2> HIDE DEF b
  <2> QED
    BY <2>2 DEF Strings
<1>7. Len(e) \in Nat /\ Len(e) < Word \div 2
  BY TopBounds
<1> DEFINE r == sov(x)
<1>8. r \in 1 .. MaxDigits /\ MaxDigits \in Nat
  BY <1>2, VarintTyped, Sizes
<1> HIDE DEF w, t, f, v, p, q, x, s, y, e, i, b, r
<1>9. r \in Nat /\ s \in Nat
  BY <1>5, <1>8
<1>10. /\ i = (p + s) + r /\ Len(y) = s + r + Len(b)
       /\ \A j \in 1 .. Len(b) : y[(s + r) + j] = b[j]
  BY <1>2, <1>5 DEF r
<1>11. i \in Nat /\ i + Len(b) = q /\ q \in Nat
  <2> DEFINE u == Len(b)
             z == Len(y)
  <2>1. /\ p \in Nat /\ s \in Nat /\ r \in Nat /\ u \in Nat
        /\ i = (p + s) + r /\ z = s + r + u /\ q = p + z
    BY <1>2, <1>4, <1>6, <1>9, <1>10
  <2> HIDE DEF u, z
  <2>2. i \in Nat /\ i + u = q /\ q \in Nat
    BY <2>1
  <2> QED
    BY <2>2 DEF u
<1>12. Len(b) < Word \div 2 /\ i + Len(b) < Word \div 2
  <2> DEFINE a == Word \div 2
  <2>1. a \in Nat /\ Len(e) < a
    BY <1>7, WordFacts
  <2> HIDE DEF a
  <2>2. Len(b) < a /\ i + Len(b) < a
    BY <1>4, <1>6, <1>7, <1>11, <2>1
  <2> QED
    BY <2>2 DEF a
<1>13. length = Len(b)
  <2>1. x = Len(b)
    <3>1. Len(b) < Word
      BY <1>6, <1>12, WordFacts
    <3> QED
      BY <1>6, <3>1, LengthWord DEF x
  <2>2. ~(Len(b) >= Word \div 2)
    BY <1>6, <1>12, WordFacts
  <2> QED
    BY <1>2, <2>1, <2>2 DEF length, Signed
<1>14. postIndex = q
  <2>1. Plus(i, Len(b)) = i + Len(b)
    BY <1>6, <1>11, <1>12, PlusSmall
  <2> QED
    BY <1>11, <1>13, <2>1 DEF postIndex, i
<1>15. ASSUME NEW j \in 1 .. Len(b)
       PROVE  e[i + j] = b[j]
  <2>1. p \in Nat /\ i = (p + s) + r /\ Len(y) = s + r + Len(b)
    BY <1>2, <1>10
  <2>2. (s + r) + j \in 1 .. Len(y)
    BY <1>6, <1>9, <2>1
  <2>3. i + j = p + ((s + r) + j)
    BY <1>6, <1>9, <2>1
  <2> QED
    BY <1>4, <1>10, <2>2, <2>3
<1> QED
  BY <1>3, <1>4, <1>11, <1>13, <1>14, <1>15 DEF w, t, f, v, q, e, b, i

\* No length is bad, unless the bytes end before those it counts.
LEMMA BadLengthTracks ==
  ASSUME SInv, TInv, NEW m \in Samples, NEW lim \in Nat, NEW h,
         Tracked(m, lim, h), BadLength
  PROVE  Exact(m, lim)'
<1> DEFINE w == h[Len(calls)]
           t == top.type
           f == FieldAt(t, w.g, w.n + 1)
           b == Body(f.kind, ValueAt(t, w.g, w.n + 1))
           e == Code(t, w.g)
<1>1. /\ pc = "use" /\ what = "length" /\ Fail
      /\ length < 0 \/ postIndex < 0 \/ postIndex > top.l
  BY DEF BadLength, Running
<1>2. length = Len(b) /\ postIndex \in Nat /\ postIndex <= Len(e)
  BY <1>1, LengthRead
<1>3. Len(b) \in Nat
  <2>1. length \in Int
    BY LengthIsInt
  <2>2. /\ t \in Written /\ f \in Fields[t]
        /\ ValueAt(t, w.g, w.n + 1) \in Values(f.kind) /\ f.kind \notin Flat
    BY <1>1, UseFacts, LengthRead
  <2>3. b \in Seq(Bytes)
    BY <2>2, BodyTyped
  <2> QED
    BY <2>3
<1>4. top.l \in Nat /\ Len(e) \in Nat
  BY TopBounds
<1> HIDE DEF b, e
<1>5. top.l < Len(e)
  BY <1>1, <1>2, <1>3, <1>4
<1> QED
  BY <1>1, <1>5, Fails DEF e, t, w

\* The bytes of a value, with the slice's end behind them.
LEMMA BodyThere ==
  ASSUME SInv, TInv, NEW m \in Samples, NEW lim \in Nat, NEW h,
         Tracked(m, lim, h), pc = "use", what = "length",
         GoodLength
  PROVE  LET w == h[Len(calls)]
             b == Body(field.kind, ValueAt(top.type, w.g, w.n + 1))
         IN  /\ b \in Seq(Bytes) /\ Len(b) \in Nat /\ top.base + top.iNdEx \in Nat
             /\ top.base + postIndex = (top.base + top.iNdEx) + Len(b)
             /\ top.base + postIndex <= Len(dAtA)
             /\ \A j \in 1 .. Len(b) : (top.base + top.iNdEx) + j <= lim =>
                  dAtA[(top.base + top.iNdEx) + j] = b[j]
<1> DEFINE w == h[Len(calls)]
           t == top.type
           f == FieldAt(t, w.g, w.n + 1)
           b == Body(f.kind, ValueAt(t, w.g, w.n + 1))
           e == Code(t, w.g)
           i == top.iNdEx
           a == top.base
           l == top.l
<1>1. /\ field = f /\ f.kind \notin Flat /\ i + Len(b) = postIndex
      /\ postIndex \in Nat /\ \A j \in 1 .. Len(b) : e[i + j] = b[j]
  BY LengthRead
<1>2. b \in Seq(Bytes) /\ Len(b) \in Nat
  <2> DEFINE v == ValueAt(t, w.g, w.n + 1)
  <2>1. t \in Written /\ f \in Fields[t] /\ v \in Values(f.kind) /\ f.kind \notin Flat
    BY <1>1, UseFacts
  <2> HIDE DEF t, w, f, v
  <2>2. Body(f.kind, v) \in Seq(Bytes)
    BY <2>1, BodyTyped
  <2> QED
    BY <2>2 DEF v
<1>3. /\ l \in Nat /\ a \in Nat /\ i \in Nat /\ a + l <= Len(dAtA) /\ Len(dAtA) \in Nat
      /\ \A j \in 1 .. l : a + j <= lim => dAtA[a + j] = e[j]
  BY TopBounds
<1>4. postIndex <= l
  BY DEF GoodLength
<1> HIDE DEF w, t, f, b, e, i, a, l
<1>5. ASSUME NEW j \in 1 .. Len(b), (a + i) + j <= lim
      PROVE  dAtA[(a + i) + j] = b[j]
  <2>1. i + j \in 1 .. l /\ (a + i) + j = a + (i + j)
    BY <1>1, <1>2, <1>3, <1>4
  <2> QED
    BY <1>1, <1>3, <1>5, <2>1
<1>6. a + i \in Nat /\ a + postIndex = (a + i) + Len(b) /\ a + postIndex <= Len(dAtA)
  BY <1>1, <1>2, <1>3, <1>4
<1>7. b = Body(field.kind, ValueAt(t, w.g, w.n + 1))
  BY <1>1 DEF b
<1> QED
  BY <1>2, <1>5, <1>6, <1>7 DEF w, t, i, a

\* The bytes b behind the first x of D.
LEMMA PartIs ==
  ASSUME NEW T, NEW D \in Seq(T), NEW b \in Seq(T), NEW x \in Nat,
         x + Len(b) <= Len(D), \A j \in 1 .. Len(b) : D[x + j] = b[j]
  PROVE  SubSeq(D, x + 1, x + Len(b)) = b
<1> DEFINE n == Len(b)
<1>1. n \in Nat /\ b = [j \in 1 .. n |-> b[j]] /\ \A j \in 1 .. n : D[x + j] = b[j]
  OBVIOUS
<1> HIDE DEF n
<1>2. SubSeq(D, x + 1, x + n) = [j \in 1 .. n |-> D[x + j]]
  BY <1>1
<1> QED
  BY <1>1, <1>2 DEF n

\* A string is stored as it was.
LEMMA BytesTracks ==
  ASSUME SInv, TInv, NEW m \in Samples, NEW lim \in Nat, NEW h,
         Tracked(m, lim, h), BytesField, top.base + postIndex <= lim
  PROVE  Exact(m, lim)'
<1> DEFINE w == h[Len(calls)]
           t == top.type
           f == FieldAt(t, w.g, w.n + 1)
           v == ValueAt(t, w.g, w.n + 1)
           q == Ends(t, w.g, w.n + 1)
           b == Body(field.kind, v)
           x == top.base + top.iNdEx
           y == SubSeq(dAtA, top.base + top.iNdEx + 1, top.base + postIndex)
<1>1. /\ pc = "use" /\ what = "length" /\ verdict = "run" /\ GoodLength
      /\ field.kind = "bytes" /\ calls' = Stored(field, y, postIndex) /\ Loop(postIndex)
  BY DEF BytesField, Running
<1>2. w.n \in 0 .. Count(t, w.g) - 1
  BY <1>1, UseFacts
<1>3. field = f /\ postIndex = q
  BY <1>1, LengthRead
<1>4. /\ b \in Seq(Bytes) /\ Len(b) \in Nat /\ x \in Nat
      /\ top.base + postIndex = x + Len(b) /\ top.base + postIndex <= Len(dAtA)
      /\ \A j \in 1 .. Len(b) : x + j <= lim => dAtA[x + j] = b[j]
  BY <1>1, BodyThere
<1>5. b = v
  BY <1>1 DEF Body
<1>6. dAtA \in Seq(Bytes)
  BY DEF SInv, Varints, Strings
<1> HIDE DEF b, v, q, w, t, f
<1>7. y = b
  <2>1. x + Len(b) <= lim
    BY <1>4
  <2>2. \A j \in 1 .. Len(b) : dAtA[x + j] = b[j]
    BY <1>4, <2>1
  <2> QED
    BY <1>4, <1>6, <2>2, PartIs
<1> HIDE DEF x, y
<1>8. calls' = Stored(f, v, q) /\ Loop(q)
  BY <1>1, <1>3, <1>5, <1>7
<1> QED
  BY <1>1, <1>2, <1>8, StoreTracks DEF w, t, f, v, q

\* A call goes to the next message.
LEMMA Enters ==
  ASSUME SInv, TInv, NEW m \in Samples, NEW lim \in Nat, NEW h,
         Tracked(m, lim, h),
         NEW q, NEW d, NEW x, Carries(dAtA, lim, d, x), Through(d, x),
         Within([top EXCEPT !.iNdEx = q], h[Len(calls)], d, x),
         Placed(d, x, now'),
         dAtA' = dAtA, verdict' = "run", calls' = Append(Seek(q), d)
  PROVE  Exact(m, lim)'
<1> DEFINE n == Len(calls)
           c == [top EXCEPT !.iNdEx = q]
           w == h[n]
           s == [calls EXCEPT ![n] = c]
           g == [k \in 1 .. n |-> IF k = n THEN w ELSE h[k]]
           r == [k \in 1 .. Len(s) + 1 |-> IF k = Len(s) + 1 THEN x ELSE g[k]]
<1>1. PICK S : calls \in Seq(S)
  BY DEF SInv, IsStack
<1>2. /\ calls # <<>> /\ top = Last(calls) /\ n \in Nat \ {0} /\ DOMAIN calls = 1 .. n
      /\ top = calls[n] /\ Through(top, w) /\ IsCall(top) /\ IsFrame(top)
  BY TopTracked, TopCall
<1>3. Seek(q) = s
  BY <1>2 DEF Seek
<1>4. /\ c.type = top.type /\ c.base = top.base /\ c.l = top.l /\ c.at = top.at
      /\ c.m = top.m /\ c.got = top.got
  BY <1>2 DEF IsCall, IsFrame, Parts, Numbers
<1>5. Within(c, w, d, x)
  OBVIOUS
<1> HIDE DEF c, w
<1>6. Through(c, w)
  BY <1>2, <1>4 DEF Through
<1>7. Follows(dAtA, lim, s, g, m)
  <2>1. w.g = h[Len(calls)].g
    BY DEF w
  <2>2. Follows(dAtA, lim, calls, h, m) /\ top = Last(calls) /\ calls # <<>>
    BY <1>2 DEF Tracked
  <2>3. Last(calls).type = c.type /\ Last(calls).base = c.base
        /\ Last(calls).l = c.l /\ Last(calls).at = c.at
    BY <1>4, <2>2
  <2>4. /\ s = [calls EXCEPT ![Len(calls)] = c]
        /\ g = [k \in 1 .. Len(calls) |-> IF k = Len(calls) THEN w ELSE h[k]]
    OBVIOUS
  <2> HIDE DEF s, g, n
  <2> QED
    BY <1>1, <1>6, <2>1, <2>2, <2>3, <2>4, FollowsOn
<1>8. s \in Seq(S \union {c}) /\ Len(s) = n /\ s[n] = c
  <2>1. calls \in Seq(S \union {c}) /\ n \in DOMAIN calls
    BY <1>1, <1>2
  <2> HIDE DEF n
  <2> QED
    BY <2>1 DEF n
<1>9. s # <<>> /\ Last(s) = c /\ g[Len(s)] = w
  BY <1>2, <1>8 DEF Last
<1> HIDE DEF g, s
<1>10. Follows(dAtA, lim, Append(s, d), r, m)
  BY <1>5, <1>7, <1>8, <1>9, FollowsCall
<1>11. /\ Len(Append(s, d)) = n + 1 /\ Last(Append(s, d)) = d /\ r[n + 1] = x
  <2>1. s \in Seq(S \union {c} \union {d})
    BY <1>8
  <2>2. Append(s, d) \in Seq(S \union {c} \union {d}) /\ Len(Append(s, d)) = n + 1
        /\ Append(s, d)[n + 1] = d
    BY <1>8, <2>1
  <2>3. r[n + 1] = x
    BY <1>2, <1>8
  <2> QED
    BY <2>2, <2>3 DEF Last
<1> HIDE DEF r, n
<1>12. PICK i : i = r
  OBVIOUS
<1>13. calls' = Append(s, d)
  BY <1>3
<1>14. Tracked(m, lim, i)'
  BY <1>10, <1>11, <1>12, <1>13 DEF Tracked, top
<1> QED
  BY <1>14 DEF Exact

-----------------------------------------------------------------------------
(* The calls for the messages within a message, and their returns.         *)

\* A message is decoded by a call that has its bytes, and begins with nothing.
LEMMA CallTracks ==
  ASSUME SInv, TInv, NEW m \in Samples, NEW lim \in Nat, NEW h,
         Tracked(m, lim, h), MessageField
  PROVE  Exact(m, lim)'
<1> DEFINE w == h[Len(calls)]
           t == top.type
           f == FieldAt(t, w.g, w.n + 1)
           v == ValueAt(t, w.g, w.n + 1)
           q == Ends(t, w.g, w.n + 1)
           b == Body(field.kind, v)
           k == field.kind
           a == top.base + top.iNdEx
           l == postIndex - top.iNdEx
           c == [top EXCEPT !.iNdEx = postIndex]
           x == [g |-> v, n |-> 0]
           held == top.m[field.name]
           z == IF field.label = "ptr" /\ held # <<>> THEN held[1] ELSE New(k)
           d == Call(k, a, l, field, z)
<1>1. /\ pc = "use" /\ what = "length" /\ verdict = "run" /\ GoodLength
      /\ k # "bytes" /\ calls' = Append(Seek(postIndex), d) /\ Loop(0)
  BY DEF MessageField, Running
<1>2. /\ w.n \in 0 .. Count(t, w.g) - 1 /\ t \in Written /\ w.g \in Messages(t)
      /\ f \in Fields[t] /\ v \in Values(f.kind)
  BY <1>1, UseFacts
<1>3. /\ field = f /\ f.kind \notin Flat /\ postIndex = q
      /\ top.iNdEx + Len(Body(f.kind, v)) = postIndex /\ postIndex \in Nat
  BY <1>1, LengthRead
<1>4. /\ b \in Seq(Bytes) /\ Len(b) \in Nat /\ a \in Nat
      /\ \A j \in 1 .. Len(b) : a + j <= lim => dAtA[a + j] = b[j]
  BY <1>1, BodyThere
<1>5. k \in Written /\ v \in Messages(k) /\ b = Code(k, v)
  BY <1>1, <1>2, <1>3, BodyTyped
<1>6. /\ Through(top, w) /\ IsCall(top) /\ IsFrame(top)
  BY TopTracked
<1>7. Count(t, w.g) \in Nat /\ Count(k, v) \in Nat
  BY <1>2, <1>5, CodeFacts
<1>8. /\ c.type = t /\ c.iNdEx = postIndex
  BY <1>6 DEF IsCall, IsFrame, Parts, Numbers
<1>9. z = New(k)
  <2>1. /\ f.label = "ptr" => Made(t, w.g, (w.n + 1) - 1)[f.name] = <<>>
    <3>1. w.n + 1 \in 1 .. Count(t, w.g)
      BY <1>2, <1>7
    <3> QED
      BY <1>2, <3>1, WayStep
  <2>2. (w.n + 1) - 1 = w.n
    BY <1>2
  <2>3. top.m = Made(t, w.g, w.n)
    BY <1>6 DEF Through
  <2>4. field.label = "ptr" => held = <<>>
    BY <1>3, <2>1, <2>2, <2>3
  <2> QED
    BY <2>4
<1>10. l = Len(b)
  <2>1. top.iNdEx + Len(b) = postIndex /\ top.iNdEx \in Nat
    BY <1>3, TopBounds
  <2> HIDE DEF b
  <2> QED
    BY <1>4, <2>1
<1> HIDE DEF z, l, a
<1>11. /\ d.type = k /\ d.base = a /\ d.l = l /\ d.iNdEx = 0 /\ d.at = field
       /\ d.m = z /\ d.got = {} /\ x.g = v /\ x.n = 0
  BY DEF Call
<1> HIDE DEF d, x, k, b, w, t, f, v, q, c
<1>12. Carries(dAtA, lim, d, x)
  BY <1>4, <1>5, <1>10, <1>11 DEF Carries
<1>13. Through(d, x)
  <2>1. d.m = Made(k, v, 0)
    BY <1>5, <1>9, <1>11, Ways
  <2>2. 0 \in 0 .. Count(k, v) /\ 1 .. 0 = {}
    BY <1>7
  <2> QED
    BY <1>11, <2>1, <2>2 DEF Through
<1>14. Within(c, w, d, x)
  <2>1. w.n < Count(t, w.g)
    BY <1>2, <1>7
  <2>2. d.l = Len(Code(d.type, x.g))
    BY <1>5, <1>10, <1>11
  <2> QED
    BY <1>3, <1>8, <1>11, <2>1, <2>2 DEF Within, f, v, q
<1>15. Placed(d, x, now')
  <2>1. d.iNdEx = Ends(d.type, x.g, x.n)
    BY <1>5, <1>11, EndsFacts
  <2>2. Idle(d, x, now')
    BY <1>1, <2>1 DEF Idle, now, Loop, Read
  <2> QED
    BY <2>2 DEF Placed
<1>16. dAtA' = dAtA /\ verdict' = "run"
  BY <1>1 DEF Loop
<1>17. Within([top EXCEPT !.iNdEx = postIndex], h[Len(calls)], d, x)
  BY <1>14 DEF c, w
<1> QED
  BY <1>1, <1>12, <1>13, <1>15, <1>16, <1>17, Enters

\* Between two items, at the end of the slice.
LEMMA AtEndFacts ==
  ASSUME SInv, TInv, NEW m \in Samples, NEW lim \in Nat, NEW h,
         Tracked(m, lim, h), AtEnd
  PROVE  LET w == h[Len(calls)]
             e == Code(top.type, w.g)
         IN  /\ top.iNdEx = Ends(top.type, w.g, w.n) /\ top.iNdEx = top.l
             /\ top.l = Len(e) => w.n = Count(top.type, w.g)
<1> DEFINE w == h[Len(calls)]
           t == top.type
           e == Code(t, w.g)
<1>1. /\ t \in Written /\ w.g \in Messages(t) /\ w.n \in 0 .. Count(t, w.g)
      /\ Placed(top, w, now)
  BY TopTracked
<1>2. pc = "read" /\ what = "tag" /\ digits = 0 /\ top.iNdEx >= top.l
  BY DEF AtEnd, Running
<1>3. /\ Len(e) \in Nat /\ top.l \in Nat /\ top.iNdEx \in Nat
      /\ top.iNdEx <= top.l
  BY TopBounds
<1>4. top.iNdEx = top.l
  BY <1>2, <1>3
<1>5. top.iNdEx = Ends(t, w.g, w.n)
  <2>1. CASE Idle(top, w, now)
    BY <2>1 DEF Idle
  <2>2. CASE Busy(top, w, now)
    <3> DEFINE f == FieldAt(t, w.g, w.n + 1)
               v == ValueAt(t, w.g, w.n + 1)
               s == Ends(t, w.g, w.n) + Offset(what, f)
    <3>1. /\ Ends(t, w.g, w.n) \in Nat /\ Reading(top.iNdEx, s, Due(what, f, v), now)
      BY <2>2, BusyFacts
    <3>2. Offset(what, f) = 0
      BY <1>2 DEF Offset
    <3>3. now.pc = "read" /\ now.digits = 0
      BY <1>2 DEF now
    <3> HIDE DEF f, v
    <3>4. top.iNdEx = s + 0
      BY <3>1, <3>3 DEF Reading
    <3> QED
      BY <3>1, <3>2, <3>4
  <2> QED
    BY <1>1, <2>1, <2>2 DEF Placed
<1>6. ASSUME top.l = Len(e) PROVE w.n = Count(t, w.g)
  <2>1. ASSUME w.n < Count(t, w.g) PROVE FALSE
    <3> DEFINE y == Ends(t, w.g, w.n)
    <3>1. y < Len(e)
      BY <1>1, <2>1, EndsBefore
    <3>2. y = Len(e)
      BY <1>4, <1>5, <1>6
    <3> HIDE DEF y, e
    <3> QED
      BY <1>3, <3>1, <3>2
  <2>2. Count(t, w.g) \in Nat
    BY <1>1, CodeFacts
  <2> QED
    BY <1>1, <2>1, <2>2
<1> QED
  BY <1>4, <1>5, <1>6

\* No field that is required is missing, unless the bytes end before it.
LEMMA IncompleteTracks ==
  ASSUME SInv, TInv, NEW m \in Samples, NEW lim \in Nat, NEW h,
         Tracked(m, lim, h), Incomplete
  PROVE  Exact(m, lim)'
<1> DEFINE w == h[Len(calls)]
           t == top.type
           e == Code(t, w.g)
           C == Count(t, w.g)
<1>1. AtEnd /\ ~Complete /\ Fail
  BY DEF Incomplete
<1>2. top.iNdEx = top.l /\ (top.l = Len(e) => w.n = C)
  BY <1>1, AtEndFacts
<1>3. /\ t \in Written /\ w.g \in Messages(t) /\ Through(top, w) /\ IsTable(Fields[t])
  BY TopTracked
<1>4. top.l \in Nat /\ Len(e) \in Nat /\ top.l <= Len(e)
  BY TopBounds
<1>5. ~(Required(t) \subseteq top.got)
  BY <1>1, <1>2, <1>4 DEF Complete
<1>6. PICK r \in Required(t) : r \notin top.got
  BY <1>5
<1>7. w.n # C
  <2> SUFFICES ASSUME w.n = C PROVE FALSE
    OBVIOUS
  <2>1. PICK k \in 1 .. C : FieldAt(t, w.g, k).name = r
    BY <1>3, Ways
  <2>2. FieldAt(t, w.g, k) \in Fields[t]
    BY <1>3, WayStep
  <2>3. PICK g \in Fields[t] : g.label = "req" /\ g.name = r
    BY <1>6 DEF Required
  <2>4. FieldAt(t, w.g, k) = g
    BY <1>3, <2>1, <2>2, <2>3 DEF IsTable
  <2>5. FieldAt(t, w.g, k).label = "req"
    BY <2>3, <2>4
  <2>6. FieldAt(t, w.g, k).name \in top.got
    BY <1>3, <2>1, <2>5 DEF Through
  <2> QED
    BY <1>6, <2>1, <2>6
<1>8. top.l < Len(e)
  BY <1>2, <1>4, <1>7
<1> QED
  BY <1>1, <1>8, Fails

\* A message that is decoded is stored in its caller's.
LEMMA CallerTracks ==
  ASSUME SInv, TInv, NEW m \in Samples, NEW lim \in Nat, NEW h,
         Tracked(m, lim, h), ReturnToCaller
  PROVE  Exact(m, lim)'
<1> DEFINE n == Len(calls) - 1
           b == calls[n]
           t == b.type
           o == h[n]
           f == FieldAt(t, o.g, o.n + 1)
           v == ValueAt(t, o.g, o.n + 1)
           x == h[Len(calls)]
           y == Put(b.m, top.at, top.m)
           c == [b EXCEPT !.m = y]
           w == [g |-> o.g, n |-> o.n + 1]
           r == Front(calls)
<1>1. /\ AtEnd /\ Len(calls) > 1 /\ verdict = "run"
      /\ calls' = [r EXCEPT ![n].m = y] /\ Loop(b.iNdEx)
  BY DEF ReturnToCaller, AtEnd, Running
<1>2. PICK S : calls \in Seq(S)
  BY DEF SInv, IsStack
<1>3. /\ n \in Nat \ {0} /\ n + 1 = Len(calls) /\ n \in DOMAIN calls
      /\ Len(calls) \in DOMAIN calls /\ top = calls[Len(calls)] /\ Len(calls) - 1 = n
  <2>1. Len(calls) \in Nat /\ DOMAIN calls = 1 .. Len(calls) /\ top = calls[Len(calls)]
    BY TopCall
  <2>2. n \in Nat \ {0} /\ n + 1 = Len(calls) /\ n \in 1 .. Len(calls)
        /\ Len(calls) \in 1 .. Len(calls)
    BY <1>1, <2>1
  <2> QED
    BY <2>1, <2>2
<1>4. Follows(dAtA, lim, calls, h, m)
  BY DEF Tracked
<1>5. /\ Carries(dAtA, lim, b, o) /\ Through(b, o) /\ Within(b, o, top, x)
      /\ Carries(dAtA, lim, top, x) /\ Through(top, x)
  BY <1>1, <1>3, <1>4 DEF Follows
<1>6. /\ IsFrame(b) /\ IsCall(b) /\ top.at.kind = top.type
  <2>1. IsFrame(b) /\ top.at.kind = top.type
    BY <1>1, <1>3 DEF TInv, Framed
  <2>2. IsCall(b)
    BY <1>3 DEF SInv, Nested
  <2> QED
    BY <2>1, <2>2
<1>7. /\ c.type = t /\ c.base = b.base /\ c.l = b.l /\ c.at = b.at /\ c.iNdEx = b.iNdEx
      /\ c.m = y /\ c.got = b.got /\ w.g = o.g /\ w.n = o.n + 1
  BY <1>6 DEF IsCall, IsFrame, Parts, Numbers
<1>8. /\ r \in Seq(S) /\ r # <<>> /\ Len(r) = n /\ Last(r) = b /\ Follows(dAtA, lim, r, h, m)
  BY <1>1, <1>2, <1>4, FollowsFront
<1>9. calls' = [r EXCEPT ![n] = c]
  <2>1. n \in DOMAIN r /\ r[n] = b
    BY <1>3, <1>8 DEF Last
  <2> QED
    BY <1>1, <2>1
<1>10. /\ t \in Written /\ o.g \in Messages(t) /\ o.n \in 0 .. Count(t, o.g)
       /\ o.n < Count(t, o.g) /\ Count(t, o.g) \in Nat
       /\ top.at = f /\ x.g = v /\ b.iNdEx = Ends(t, o.g, o.n + 1)
       /\ top.l = Len(Code(top.type, v)) /\ top.type \in Written /\ v \in Messages(top.type)
  BY <1>5, CodeFacts DEF Carries, Through, Within
<1>11. o.n + 1 \in 1 .. Count(t, o.g) /\ (o.n + 1) - 1 = o.n /\ o.n \in Nat
  BY <1>10
<1>12. f \in Fields[t] /\ Made(t, o.g, o.n + 1) = Put(Made(t, o.g, o.n), f, v)
  BY <1>10, <1>11, WayStep
<1>13. f.label # "req"
  <2>1. IsTable(Fields[t])
    BY <1>6, MessagesTabled DEF IsFrame, Tabled
  <2>2. f.kind \in MessageTypes
    BY <1>6, <1>10, WrittenTypes
  <2> QED
    BY <1>12, <2>1, <2>2 DEF IsTable
<1>14. top.m = v
  <2>1. x.n = Count(top.type, x.g)
    BY <1>1, <1>10, AtEndFacts
  <2>2. top.m = Made(top.type, v, Count(top.type, v))
    BY <1>5, <1>10, <2>1 DEF Through
  <2> QED
    BY <1>10, <2>2, Ways
<1>15. y = Made(t, o.g, o.n + 1)
  <2>1. b.m = Made(t, o.g, o.n)
    BY <1>5 DEF Through
  <2> QED
    BY <1>10, <1>12, <1>14, <2>1
<1>16. \A j \in 1 .. o.n : LET e == FieldAt(t, o.g, j) IN
         e.label = "req" => e.name \in b.got
  BY <1>5 DEF Through
<1> HIDE DEF c, w, y
<1>17. Through(c, w)
  <2>1. ASSUME NEW j \in 1 .. o.n + 1, FieldAt(t, o.g, j).label = "req"
        PROVE  FieldAt(t, o.g, j).name \in b.got
    <3>1. j # o.n + 1
      BY <1>13, <2>1
    <3>2. j \in 1 .. o.n
      BY <1>11, <3>1
    <3> QED
      BY <1>16, <2>1, <3>2
  <2>2. o.n + 1 \in 0 .. Count(t, o.g)
    BY <1>10, <1>11
  <2> HIDE DEF t, b, o
  <2> QED
    BY <1>7, <1>15, <2>1, <2>2 DEF Through
<1>18. Placed(c, w, now')
  <2>1. c.iNdEx = Ends(c.type, w.g, w.n)
    BY <1>7, <1>10
  <2>2. Idle(c, w, now')
    BY <1>1, <2>1 DEF Idle, now, Loop, Read
  <2> QED
    BY <2>2 DEF Placed
<1> DEFINE g == [k \in 1 .. Len(r) |-> IF k = Len(r) THEN w ELSE h[k]]
<1>19. Follows(dAtA, lim, [r EXCEPT ![Len(r)] = c], g, m)
  <2>1. w.g = h[Len(r)].g
    BY <1>7, <1>8
  <2> DEFINE q == [r EXCEPT ![Len(r)] = c]
  <2>2. /\ q = [r EXCEPT ![Len(r)] = c]
        /\ g = [k \in 1 .. Len(r) |-> IF k = Len(r) THEN w ELSE h[k]]
    OBVIOUS
  <2> HIDE DEF r, b, q, g
  <2>3. Follows(dAtA, lim, q, g, m)
    BY <1>7, <1>8, <1>17, <2>1, <2>2, FollowsOn
  <2> QED
    BY <2>3 DEF q
<1>20. Len(calls') = n /\ Last(calls') = c
  <2>1. r \in Seq(S \union {c}) /\ n \in DOMAIN r
    BY <1>3, <1>8
  <2> HIDE DEF r, n
  <2>2. calls' \in Seq(S \union {c}) /\ Len(calls') = n /\ calls'[n] = c
    BY <1>8, <1>9, <2>1
  <2> QED
    BY <2>2 DEF Last
<1>21. g[n] = w
  BY <1>3, <1>8
<1> HIDE DEF g, n, r
<1>22. PICK i : i = g
  OBVIOUS
<1>23. dAtA' = dAtA /\ verdict' = "run"
  BY <1>1 DEF Loop
<1>24. calls' = [r EXCEPT ![Len(r)] = c]
  BY <1>8, <1>9
<1>25. Tracked(m, lim, i)'
  BY <1>18, <1>19, <1>20, <1>21, <1>22, <1>23, <1>24 DEF Tracked, top
<1> QED
  BY <1>23, <1>25 DEF Exact

\* The manifest is done.
LEMMA ReturnTracks ==
  ASSUME SInv, TInv, NEW m \in Samples, NEW lim \in Nat, NEW h,
         Tracked(m, lim, h), Return
  PROVE  Exact(m, lim)'
<1> DEFINE w == h[1]
           n == w.n
           C == Marshalled(Root, m)
           j0 == Joined(C, n)
<1>1. /\ AtEnd /\ Len(calls) = 1 /\ verdict' = "ok" /\ dAtA' = dAtA /\ calls' = calls
  BY DEF Return
<1>2. top = calls[1] /\ 1 \in DOMAIN calls
  BY <1>1, TopCall
<1>3. /\ top.type = Root /\ top.base = 0 /\ top.l = Len(dAtA) /\ w.g = m
      /\ Carries(dAtA, lim, top, w) /\ Through(top, w)
  BY <1>2 DEF Tracked, Follows, Root
<1>4. top.l = Ends(Root, m, n)
  BY <1>1, <1>3, AtEndFacts
<1>5. /\ n \in 0 .. Count(Root, m) /\ top.m = Made(Root, m, n)
      /\ \A j \in 1 .. top.l : 0 + j <= lim => dAtA[0 + j] = Code(Root, m)[j]
  BY <1>3 DEF Carries, Through
<1>6. C \in Seq(Seq(Bytes)) /\ Count(Root, m) = Len(C) /\ Len(C) \in Nat
      /\ Code(Root, m) = FlattenSeq(C)
  BY RootFacts, CodeFacts DEF Count, Code
<1> HIDE DEF C
<1>7. j0 \in Seq(Bytes) /\ Len(j0) = Len(dAtA) /\ dAtA \in Seq(Bytes)
  <2>1. j0 \in Seq(Bytes)
    BY <1>5, <1>6, FlatTyped
  <2>2. Len(j0) = Len(dAtA)
    BY <1>3, <1>4 DEF Ends, C
  <2> QED
    BY <2>1, <2>2 DEF SInv, Varints, Strings
<1>8. \A j \in 1 .. Len(j0) : FlattenSeq(C)[j] = j0[j]
  <2>1. Len(C) \in 0 .. Len(C) /\ n \in 0 .. Len(C)
    BY <1>5, <1>6
  <2>2. Begins(Joined(C, Len(C)), j0)
    BY <1>6, <2>1, FlatBegins
  <2>3. Joined(C, Len(C)) = FlattenSeq(C)
    BY <1>6, FlatEnds
  <2> QED
    BY <2>2, <2>3 DEF Begins
<1> HIDE DEF j0
<1>9. ASSUME Len(dAtA) <= lim PROVE dAtA = j0
  <2>1. ASSUME NEW j \in 1 .. Len(j0) PROVE dAtA[j] = j0[j]
    <3>0. 0 + j = j /\ j <= lim
      BY <1>7, <1>9
    <3>1. dAtA[0 + j] = FlattenSeq(C)[j] /\ 0 + j = j
      BY <1>3, <1>5, <1>6, <1>7, <3>0
    <3> QED
      BY <1>8, <3>1
  <2> QED
    BY <1>7, <2>1
<1>10. manifest = Made(Root, m, n)
  BY <1>2, <1>5 DEF manifest
<1>11. manifest' = manifest
  BY <1>1 DEF manifest
<1>12. Len(dAtA) = Ends(Root, m, n)
  BY <1>3, <1>4
<1> QED
  BY <1>1, <1>5, <1>9, <1>10, <1>11, <1>12 DEF Exact, j0, C

-----------------------------------------------------------------------------
(* The invariant.                                                          *)

\* The bytes to decode stay what they are, and a decoder that is done does
\* nothing more.
LEMMA DataStays ==
  ASSUME SInv, Next
  PROVE  dAtA' = dAtA /\ verdict = "run"
BY DEF Next, Digit, BadVarint, RejectTag, UnknownField, KnownField, Fixed32Field, Value,
       BadLength, BytesField, MessageField, Incomplete, ReturnToCaller, Return, SkipTag,
       SkipValue, SkipLength, Skipped, AtEnd, Running, Loop, Fail

\* The bytes that a step reads are among the first lim.
Near(lim) ==
  /\ Digit => top.base + top.iNdEx + 1 <= lim
  /\ Fixed32Field /\ top.iNdEx + 4 <= top.l => top.base + top.iNdEx + 4 <= lim
  /\ BytesField => top.base + postIndex <= lim

\* Every step keeps the decoder on its way through what was written.
LEMMA NextExact ==
  ASSUME SInv, TInv, NEW m \in Samples, NEW lim \in Nat, Exact(m, lim), [Next]_vars,
         Near(lim)
  PROVE  Exact(m, lim)'
<1>1. CASE UNCHANGED vars
  BY <1>1 DEF vars, Exact, Tracked, Placed, Idle, Busy, Switches, Reading, now, top, manifest
<1>2. CASE Next
  <2>1. PICK h : Tracked(m, lim, h)
    BY <1>2, DataStays DEF Exact
  <2>2. what \in {"tag", "value", "length"}
    BY <2>1, TopBounds
  <2>3. ~(SkipTag \/ SkipValue \/ SkipLength)
    BY <2>2 DEF SkipTag, SkipValue, SkipLength, Running
  <2>4. ~(RejectTag \/ UnknownField)
    BY <2>1, NoRejectTag
  <2>5. CASE Digit
    BY <2>1, <2>5, DigitTracks DEF Near
  <2>6. CASE BadVarint
    BY <2>1, <2>6, BadVarintTracks
  <2>7. CASE KnownField
    BY <2>1, <2>7, KnownTracks
  <2>8. CASE Fixed32Field
    BY <2>1, <2>8, FixedTracks DEF Near
  <2>9. CASE Value
    BY <2>1, <2>9, ValueTracks
  <2>10. CASE BadLength
    BY <2>1, <2>10, BadLengthTracks
  <2>11. CASE BytesField
    BY <2>1, <2>11, BytesTracks DEF Near
  <2>12. CASE MessageField
    BY <2>1, <2>12, CallTracks
  <2>13. CASE Incomplete
    BY <2>1, <2>13, IncompleteTracks
  <2>14. CASE ReturnToCaller
    BY <2>1, <2>14, CallerTracks
  <2>15. CASE Return
    BY <2>1, <2>15, ReturnTracks
  <2> QED
    BY <1>2, <2>3, <2>4, <2>5, <2>6, <2>7, <2>8, <2>9, <2>10, <2>11, <2>12, <2>13, <2>14,
       <2>15 DEF Next
<1> QED
  BY <1>1, <1>2

\* RInv is inductive, beside SInv and TInv.
LEMMA NextRInv == SInv /\ TInv /\ RInv /\ [Next]_vars => RInv'
<1> SUFFICES ASSUME SInv, TInv, RInv, [Next]_vars,
                    NEW m \in Samples, IsPrefix(dAtA', Encoded(m))
             PROVE  Exact(m, Len(dAtA))'
  BY DEF RInv
<1> DEFINE n == Len(dAtA)
<1>1. dAtA' = dAtA /\ n \in Nat
  BY DataStays DEF vars, SInv, Varints, Strings
<1>2. Exact(m, n)
  BY <1>1 DEF RInv
<1>3. Near(n)
  <2>1. /\ top.base \in Nat /\ top.l \in Nat /\ top.iNdEx \in Nat
        /\ top.base + top.l <= n
    BY TopCall DEF SInv, IsCall
  <2>2. ASSUME Digit PROVE top.base + top.iNdEx + 1 <= n
    BY <1>1, <2>1, <2>2 DEF Digit
  <2>3. ASSUME top.iNdEx + 4 <= top.l PROVE top.base + top.iNdEx + 4 <= n
    BY <1>1, <2>1, <2>3
  <2>4. ASSUME BytesField PROVE top.base + postIndex <= n
    <3>1. postIndex \in Nat /\ postIndex <= top.l
      <4>1. depth = 0 /\ GoodLength
        BY <2>4 DEF BytesField, Running, SInv, Indices
      <4> QED
        BY <4>1, LengthForward
    <3> QED
      BY <1>1, <2>1, <3>1
  <2> QED
    BY <2>2, <2>3, <2>4 DEF Near
<1> HIDE DEF n
<1>4. PICK lim : lim = n
  OBVIOUS
<1>5. Exact(m, lim)'
  BY <1>1, <1>2, <1>3, <1>4, NextExact
<1>6. lim = Len(dAtA)'
  BY <1>1, <1>4 DEF n
<1> QED
  BY <1>5, <1>6

\* What IsPrefix says of the elements.
LEMMA PrefixIs ==
  ASSUME NEW T, NEW s \in Seq(T), NEW e \in Seq(T)
  PROVE  /\ IsPrefix(s, e) => Len(s) <= Len(e) /\ \A j \in 1 .. Len(s) : s[j] = e[j]
         /\ IsPrefix(s, s)
<1>1. ASSUME IsPrefix(s, e)
      PROVE  Len(s) <= Len(e) /\ \A j \in 1 .. Len(s) : s[j] = e[j]
  <2>1. Len(s) \in 0 .. Len(s) /\ Len(s) \in 0 .. Len(e) /\ Len(s) <= Len(e)
    BY <1>1 DEF IsPrefix
  <2> DEFINE n == Len(s)
  <2>2. /\ \A j \in 1 .. n : SubSeq(s, 1, n)[j] = s[j]
        /\ \A j \in 1 .. n : SubSeq(e, 1, n)[j] = e[j]
    BY <2>1, SubSeqFirst
  <2>3. SubSeq(s, 1, n) = SubSeq(e, 1, n)
    BY <1>1 DEF IsPrefix
  <2> HIDE DEF n
  <2>4. \A j \in 1 .. n : s[j] = e[j]
    BY <2>2, <2>3
  <2> QED
    BY <2>1, <2>4 DEF n
<1>2. IsPrefix(s, s)
  BY DEF IsPrefix
<1> QED
  BY <1>1, <1>2

\* At the beginning nothing is read.
LEMMA InitRInv == Init => RInv
<1> SUFFICES ASSUME Init, NEW m \in Samples, IsPrefix(dAtA, Encoded(m))
             PROVE  Exact(m, Len(dAtA))
  BY DEF RInv
<1> DEFINE e == Encoded(m)
           c == Call(Root, 0, Len(dAtA), NoField, New(Root))
           w == [g |-> m, n |-> 0]
           h == << w >>
<1>1. /\ Root \in Written /\ m \in Messages(Root) /\ Code(Root, m) = e
  BY RootFacts
<1>2. e \in Seq(Bytes) /\ Count(Root, m) \in Nat
  BY <1>1, CodeFacts
<1>3. dAtA \in Seq(Bytes)
  BY BufferAssumption DEF Init, Strings
<1> HIDE DEF e
<1>4. Len(dAtA) <= Len(e) /\ \A j \in 1 .. Len(dAtA) : dAtA[j] = e[j]
  BY <1>2, <1>3, PrefixIs DEF e
<1>5. /\ calls = << c >> /\ pc = "read" /\ what = "tag" /\ digits = 0 /\ weight = 1
      /\ acc = 0 /\ verdict = "run"
  BY DEF Init, Root
<1>6. /\ c.type = Root /\ c.base = 0 /\ c.l = Len(dAtA) /\ c.iNdEx = 0 /\ c.m = New(Root)
      /\ w.g = m /\ w.n = 0
  BY DEF Call
<1> HIDE DEF c, w
<1>7. Carries(dAtA, Len(dAtA), c, w)
  <2>1. \A j \in 1 .. Len(dAtA) : dAtA[0 + j] = e[j]
    <3>1. \A j \in 1 .. Len(dAtA) : 0 + j = j
      BY <1>3
    <3> QED
      BY <1>4, <3>1
  <2> QED
    BY <1>1, <1>4, <1>6, <2>1 DEF Carries
<1>8. Through(c, w)
  <2>1. New(Root) = Made(Root, m, 0)
    BY <1>1, Ways
  <2>2. 0 \in 0 .. Count(Root, m) /\ 1 .. 0 = {}
    BY <1>2
  <2> QED
    BY <1>6, <2>1, <2>2 DEF Through
<1>9. Placed(c, w, now)
  <2>1. c.iNdEx = Ends(Root, m, 0)
    BY <1>1, <1>6, EndsFacts
  <2> QED
    BY <1>5, <1>6, <2>1 DEF Placed, Idle, now
<1>10. /\ DOMAIN calls = {1} /\ calls[1] = c /\ Len(calls) = 1 /\ top = c /\ h[1] = w
  BY <1>5 DEF top, Last
<1> HIDE DEF h
<1>11. Follows(dAtA, Len(dAtA), calls, h, m)
  BY <1>6, <1>7, <1>8, <1>10 DEF Follows, Root
<1>12. Tracked(m, Len(dAtA), h)
  BY <1>9, <1>10, <1>11 DEF Tracked
<1> QED
  BY <1>5, <1>12 DEF Exact

\* The decoder that ends has gone the whole way, or as far as the bytes did.
LEMMA ExactIsInverse == SInv /\ TInv /\ RInv => UnmarshalInvertsMarshal /\ CutsAreNoticed
<1> SUFFICES ASSUME SInv, TInv, RInv
             PROVE  UnmarshalInvertsMarshal /\ CutsAreNoticed
  OBVIOUS
<1>1. verdict \in {"run", "ok", "error"} /\ dAtA \in Seq(Bytes)
  BY DEF TInv, Counted, SInv, Varints, Strings
<1>2. ASSUME verdict # "run", NEW m \in Samples, dAtA = Encoded(m)
      PROVE  Decoded /\ manifest = m /\ Len(dAtA) = SizeManifest(m)
  <2>1. Exact(m, Len(dAtA))
    BY <1>1, <1>2, PrefixIs DEF RInv
  <2>2. /\ Root \in Written /\ m \in Messages(Root) /\ Code(Root, m) = Encoded(m)
        /\ Len(Encoded(m)) \in Nat /\ Len(Encoded(m)) = SizeManifest(m)
    BY RootFacts
  <2>3. verdict = "ok"
    BY <1>1, <1>2, <2>1, <2>2 DEF Exact
  <2>4. PICK n \in 0 .. Count(Root, m) :
          dAtA = Joined(Marshalled(Root, m), n) /\ manifest = Made(Root, m, n)
    <3>1. Len(dAtA) <= Len(dAtA)
      BY <1>1
    <3> QED
      BY <2>1, <2>3, <3>1 DEF Exact
  <2>5. Ends(Root, m, n) = Len(Code(Root, m))
    BY <1>2, <2>2, <2>4 DEF Ends
  <2>6. n = Count(Root, m)
    <3>1. ~(n < Count(Root, m))
      <4> DEFINE y == Ends(Root, m, n)
                 z == Len(Code(Root, m))
      <4>1. n < Count(Root, m) => y < z
        BY <2>2, EndsBefore
      <4>2. y = z /\ z \in Nat
        BY <2>2, <2>5
      <4> HIDE DEF y, z
      <4> QED
        BY <4>1, <4>2
    <3>2. Count(Root, m) \in Nat
      BY <2>2, CodeFacts
    <3> QED
      BY <3>1, <3>2
  <2>7. manifest = m
    BY <2>2, <2>4, <2>6, Ways
  <2> QED
    BY <1>2, <2>2, <2>3, <2>7 DEF Decoded
<1>3. ASSUME verdict = "ok", NEW m \in Samples,
             IsPrefix(dAtA, FlattenSeq(MarshalManifest(m)))
      PROVE  \E k \in 0 .. Len(MarshalManifest(m)) :
               dAtA = FlattenSeq(SubSeq(MarshalManifest(m), 1, k))
  <2>1. Exact(m, Len(dAtA))
    BY <1>3 DEF RInv, Encoded
  <2>2. PICK n \in 0 .. Count(Root, m) : dAtA = Joined(Marshalled(Root, m), n)
    <3>1. Len(dAtA) <= Len(dAtA)
      BY <1>1
    <3> QED
      BY <1>3, <2>1, <3>1 DEF Exact
  <2>3. Marshalled(Root, m) = MarshalManifest(m)
    BY RootFacts
  <2> QED
    BY <2>2, <2>3 DEF Joined, Count
<1>4. UnmarshalInvertsMarshal
  BY <1>2 DEF UnmarshalInvertsMarshal, Ended
<1>5. CutsAreNoticed
  BY <1>3 DEF CutsAreNoticed, Decoded
<1> QED
  BY <1>4, <1>5

\* Unmarshal undoes Marshal for every manifest whose encoding a slice can hold:
\* whatever the number of digits of its values and however its messages nest,
\* what the decoder ends with is the manifest, and Size counts the bytes that
\* Marshal writes, without which MarshalToSizedBuffer would index before its
\* buffer.
THEOREM UnmarshalUndoesMarshal == Spec => []UnmarshalInvertsMarshal
<1>1. SInv /\ TInv /\ RInv => UnmarshalInvertsMarshal
  BY ExactIsInverse
<1> QED
  BY <1>1, InitSInv, NextSInv, InitTInv, NextTInv, InitRInv, NextRInv, PTL DEF Spec

\* A manifest cut short within a field is rejected, wherever the cut is: what is
\* accepted ends between two values.
THEOREM CutsNoticed == Spec => []CutsAreNoticed
<1>1. SInv /\ TInv /\ RInv => CutsAreNoticed
  BY ExactIsInverse
<1> QED
  BY <1>1, InitSInv, NextSInv, InitTInv, NextTInv, InitRInv, NextRInv, PTL DEF Spec

-----------------------------------------------------------------------------
(* The order in which a manifest's fields are written.                     *)

\* The sequences in C begin with one of the bytes in S.
Headed(C, S) == C \in Seq(Strings) /\ \A k \in 1 .. Len(C) : C[k][1] \in S

LEMMA HeadedBoth ==
  ASSUME NEW C, NEW D, NEW S, NEW R, Headed(C, S), Headed(D, R)
  PROVE  Headed(C \o D, S \union R)
<1>1. /\ C \in Seq(Strings) /\ D \in Seq(Strings) /\ Len(C) \in Nat /\ Len(D) \in Nat
      /\ C \o D \in Seq(Strings) /\ Len(C \o D) = Len(C) + Len(D)
      /\ \A i \in 1 .. Len(C) : (C \o D)[i] = C[i]
      /\ \A i \in 1 .. Len(D) : (C \o D)[Len(C) + i] = D[i]
  BY ConcatLen DEF Headed
<1> DEFINE E == C \o D
<1> HIDE DEF E
<1>2. ASSUME NEW k \in 1 .. Len(E) PROVE E[k][1] \in S \union R
  <2>1. CASE k <= Len(C)
    BY <1>1, <2>1 DEF Headed, E
  <2>2. CASE ~(k <= Len(C))
    <3> DEFINE i == k - Len(C)
    <3>1. i \in 1 .. Len(D) /\ k = Len(C) + i
      BY <1>1, <2>2 DEF E
    <3> HIDE DEF i
    <3>2. E[k] = D[i]
      BY <1>1, <3>1 DEF E
    <3> QED
      BY <3>1, <3>2 DEF Headed
  <2> QED
    BY <2>1, <2>2
<1> QED
  BY <1>1, <1>2 DEF Headed, E

\* The first digit of a varint below 256 is the number itself.
LEMMA FirstDigit ==
  \A x \in 0 .. 255 : x \in Words /\ sov(x) \in Nat \ {0} /\ encodeVarint(x)[1] = x
<1> SUFFICES ASSUME NEW x \in 0 .. 255
             PROVE  x \in Words /\ sov(x) \in Nat \ {0} /\ encodeVarint(x)[1] = x
  OBVIOUS
<1>1. x \div 1 = x
  <2>1. \A q \in Nat : q \div 1 = q
    OBVIOUS
  <2> QED
    BY <2>1
<1>2. CASE x <= 127
  <2>1. x \in Words /\ sov(x) = 1
    BY <1>2, SmallVarint
  <2>2. encodeVarint(x)[1] = ((x \div Power[1 - 1]) % 128) + (IF 1 < sov(x) THEN 128 ELSE 0)
    BY <2>1, VarintTyped
  <2>3. encodeVarint(x)[1] = (x % 128) + 0
    BY <1>1, <2>1, <2>2, Powers
  <2> QED
    BY <1>2, <2>1, <2>3
<1>3. CASE ~(x <= 127)
  <2>1. x \in Words /\ sov(x) = 2
    BY <1>3, SmallVarint
  <2>2. encodeVarint(x)[1] = ((x \div Power[1 - 1]) % 128) + (IF 1 < sov(x) THEN 128 ELSE 0)
    BY <2>1, VarintTyped
  <2>3. encodeVarint(x)[1] = (x % 128) + 128
    BY <1>1, <2>1, <2>2, Powers
  <2>4. x % 128 = x - 128
    BY <1>3
  <2> QED
    BY <1>3, <2>1, <2>3, <2>4
<1> QED
  BY <1>2, <1>3

\* An item begins with the tag of its field.
LEMMA ItemHead ==
  ASSUME NEW t \in Written, NEW f \in Fields[t], NEW v \in Values(f.kind)
  PROVE  Item(f, v) \in Strings /\ Item(f, v)[1] = Tag(f) /\ Tag(f) \in 8 .. 157
<1>1. f.no \in FieldNos /\ WireOf(f) \in {0, 2, 5}
  BY TagIs
<1>2. Tag(f) \in 8 .. 157
  <2> DEFINE no == f.no
             w == WireOf(f)
  <2>1. no \in 1 .. 19 /\ w \in {0, 2, 5}
    BY <1>1 DEF FieldNos
  <2>2. Tag(f) = 8 * no + w
    BY DEF Tag
  <2> HIDE DEF no, w
  <2> QED
    BY <2>1, <2>2
<1>3. Holds(Item(f, v), 0, Tag(f)) /\ Item(f, v) \in Strings
  BY ItemShape DEF Strings
<1>4. /\ sov(Tag(f)) \in Nat \ {0} /\ encodeVarint(Tag(f))[1] = Tag(f)
  <2>1. Tag(f) \in 0 .. 255
    BY <1>2
  <2> QED
    BY <2>1, FirstDigit
<1>5. Item(f, v)[0 + 1] = encodeVarint(Tag(f))[1]
  <2>1. 1 \in 1 .. sov(Tag(f))
    BY <1>4
  <2> QED
    BY <1>3, <2>1 DEF Holds
<1> QED
  BY <1>2, <1>3, <1>4, <1>5

\* So does each value of a field.
LEMMA ItemsHead ==
  ASSUME NEW t \in Written, NEW f \in Fields[t], NEW x \in Slot(f.label, f.kind)
  PROVE  Headed(Items(f, x), {Tag(f)})
<1> DEFINE I == Items(f, x)
<1>1. f.label \in Labels
  BY MessagesTabled, WrittenTypes DEF Tabled, IsTable
<1>2. CASE f.label \in {"ptr", "rep"}
  <2>1. x \in Seq(Values(f.kind))
    BY <1>2, LabelSlots DEF Maybe
  <2>2. I = [i \in 1 .. Len(x) |-> Item(f, x[i])] /\ Len(x) \in Nat
    BY <1>2, <2>1 DEF Items
  <2>3. \A i \in 1 .. Len(x) : Item(f, x[i]) \in Strings /\ Item(f, x[i])[1] = Tag(f)
    BY <2>1, ItemHead
  <2> HIDE DEF I
  <2>4. I \in Seq(Strings) /\ Len(I) = Len(x) /\ \A i \in 1 .. Len(x) : I[i][1] = Tag(f)
    BY <2>2, <2>3
  <2> QED
    BY <2>4 DEF Headed, I
<1>3. CASE f.label \notin {"ptr", "rep"}
  <2>1. x \in Values(f.kind)
    BY <1>1, <1>3, LabelSlots DEF Labels
  <2>2. I = << Item(f, x) >>
    BY <1>3 DEF Items
  <2>3. Item(f, x) \in Strings /\ Item(f, x)[1] = Tag(f)
    BY <2>1, ItemHead
  <2> HIDE DEF I
  <2>4. I \in Seq(Strings) /\ Len(I) = 1 /\ I[1][1] = Tag(f)
    BY <2>2, <2>3
  <2> QED
    BY <2>4 DEF Headed, I
<1> QED
  BY <1>2, <1>3

LEMMA HasHead ==
  ASSUME NEW t \in Written, NEW g \in Messages(t), NEW name, NEW c, NEW z,
         Has(t, g, name, c, z),
         NEW S, \A f \in Fields[t] : f.name = name => Tag(f) \in S
  PROVE  Headed(c, S)
<1>1. PICK f \in Fields[t] : f.name = name /\ Items(f, g[name]) = c
  BY DEF Has
<1>2. g[f.name] \in Slot(f.label, f.kind)
  BY MessagesTabled, WrittenTypes DEF Tabled, AreRecords
<1>3. Headed(c, {Tag(f)})
  BY <1>1, <1>2, ItemsHead
<1> QED
  BY <1>1, <1>3 DEF Headed

\* The fields of a manifest.
LEMMA RootTable ==
  ASSUME NEW f \in Fields[Root]
  PROVE  /\ f.kind # "fixed32" /\ f.no \in 3 .. 18
         /\ f.no >= 17 <=> f.name \in {"ApexInfo", "SecurityPatchLevel"}
         /\ f.no = 18 <=> f.name = "SecurityPatchLevel"
         /\ f.no = 18 <=> f.kind = "bytes"
         /\ f.no = 16 => Tag(f) = 128
         /\ f.no = 17 => Tag(f) = 138
         /\ f.no = 18 => Tag(f) = 146
         /\ f.no <= 16 => Tag(f) \in 8 .. 133
<1>1. f \in DeltaArchiveManifestFields
  BY TableValues DEF Root
<1>2. /\ f.kind # "fixed32" /\ f.no \in 3 .. 18
      /\ f.no >= 17 <=> f.name \in {"ApexInfo", "SecurityPatchLevel"}
      /\ f.no = 18 <=> f.name = "SecurityPatchLevel"
      /\ f.no = 18 <=> f.kind = "bytes"
      /\ f.no = 16 => f.kind = "bool"
      /\ f.no = 17 => f.kind = "ApexInfo"
  BY <1>1 DEF DeltaArchiveManifestFields, Field, Opt, Rep, Ptr
<1>3. /\ f.no = 16 => WireOf(f) = 0
      /\ f.no = 17 => WireOf(f) = 2
      /\ f.no = 18 => WireOf(f) = 2
      /\ WireOf(f) \in {0, 2, 5}
  BY <1>2 DEF WireOf, WireType
<1>4. Tag(f) = 8 * f.no + WireOf(f)
  BY DEF Tag
<1>5. /\ f.no = 16 => Tag(f) = 128
      /\ f.no = 17 => Tag(f) = 138
      /\ f.no = 18 => Tag(f) = 146
  BY <1>3, <1>4
<1>6. ASSUME f.no <= 16 PROVE Tag(f) \in 8 .. 133
  <2> DEFINE no == f.no
             w == WireOf(f)
  <2>1. no \in 3 .. 18 /\ no <= 16 /\ w \in {0, 2, 5} /\ Tag(f) = 8 * no + w
    BY <1>2, <1>3, <1>4, <1>6
  <2> HIDE DEF no, w
  <2> QED
    BY <2>1
<1> QED
  BY <1>2, <1>5, <1>6

\* The apexes and the security patch level are written last, the latter always.
LEMMA RootHeads ==
  ASSUME NEW m \in Samples
  PROVE  /\ MarshalManifest(m) \in Seq(Strings)
         /\ \E a \in 0 .. Len(MarshalManifest(m)) - 1 :
              \A k \in 1 .. Len(MarshalManifest(m)) :
                LET b == MarshalManifest(m)[k][1] IN
                /\ k <= a => b \in 8 .. 133
                /\ k > a => b \in {138, 146}
                /\ k = Len(MarshalManifest(m)) => b = 146
<1> DEFINE H  == 8 .. 133
           C1 == PutWords(3, m.BlockSize)
           C2 == C1 \o PutWord(4, m.SignaturesOffset)
           C3 == C2 \o PutWord(5, m.SignaturesSize)
           C4 == C3 \o PutWords(12, m.MinorVersion)
           C5 == C4 \o PutAll("PartitionUpdate", 13, m.Partitions)
           C6 == C5 \o PutWord(14, m.MaxTimestamp)
           C7 == C6 \o PutAll("DynamicPartitionMetadata", 15, m.DynamicPartitionMetadata)
           C8 == C7 \o PutBool(16, m.PartialUpdate)
           D  == PutAll("ApexInfo", 17, m.ApexInfo)
           E  == PutBytes(18, m.SecurityPatchLevel)
           C  == MarshalManifest(m)
<1>1. Root \in Written /\ m \in Messages(Root) /\ m \in DeltaArchiveManifests
  BY RootFacts
<1>2. /\ \A f \in Fields[Root] :
           f.name \notin {"ApexInfo", "SecurityPatchLevel"} => Tag(f) \in H
      /\ \A f \in Fields[Root] : f.name = "ApexInfo" => Tag(f) \in {138}
      /\ \A f \in Fields[Root] : f.name = "SecurityPatchLevel" => Tag(f) \in {146}
  <2> SUFFICES ASSUME NEW f \in Fields[Root]
               PROVE  /\ f.name \notin {"ApexInfo", "SecurityPatchLevel"} => Tag(f) \in H
                      /\ f.name = "ApexInfo" => Tag(f) \in {138}
                      /\ f.name = "SecurityPatchLevel" => Tag(f) \in {146}
    OBVIOUS
  <2> DEFINE no == f.no
  <2>1. /\ no \in 3 .. 18
        /\ no >= 17 <=> f.name \in {"ApexInfo", "SecurityPatchLevel"}
        /\ no = 18 <=> f.name = "SecurityPatchLevel"
        /\ no = 17 => Tag(f) = 138
        /\ no = 18 => Tag(f) = 146
        /\ no <= 16 => Tag(f) \in H
    BY RootTable
  <2> HIDE DEF H, no
  <2> QED
    BY <2>1
<1>3. /\ Headed(PutWords(3, m.BlockSize), H)
      /\ Headed(PutWord(4, m.SignaturesOffset), H)
      /\ Headed(PutWord(5, m.SignaturesSize), H)
      /\ Headed(PutWords(12, m.MinorVersion), H)
      /\ Headed(PutAll("PartitionUpdate", 13, m.Partitions), H)
      /\ Headed(PutWord(14, m.MaxTimestamp), H)
      /\ Headed(PutAll("DynamicPartitionMetadata", 15, m.DynamicPartitionMetadata), H)
      /\ Headed(PutBool(16, m.PartialUpdate), H)
      /\ Headed(D, {138}) /\ Headed(E, {146})
  <2> HIDE DEF H
  <2>1. \A name, c, z : Has(Root, m, name, c, z) =>
          /\ name \notin {"ApexInfo", "SecurityPatchLevel"} => Headed(c, H)
          /\ name = "ApexInfo" => Headed(c, {138})
          /\ name = "SecurityPatchLevel" => Headed(c, {146})
    BY <1>1, <1>2, HasHead
  <2> DEFINE t == Root
  <2>2. /\ Has(t, m, "BlockSize", PutWords(3, m.BlockSize),
               SizeWords(TagLen(3), m.BlockSize))
        /\ Has(t, m, "SignaturesOffset", PutWord(4, m.SignaturesOffset),
               TagLen(4) + sov(m.SignaturesOffset))
        /\ Has(t, m, "SignaturesSize", PutWord(5, m.SignaturesSize),
               TagLen(5) + sov(m.SignaturesSize))
        /\ Has(t, m, "MinorVersion", PutWords(12, m.MinorVersion),
               SizeWords(TagLen(12), m.MinorVersion))
        /\ Has(t, m, "Partitions", PutAll("PartitionUpdate", 13, m.Partitions),
               SizeAll("PartitionUpdate", TagLen(13), m.Partitions))
        /\ Has(t, m, "MaxTimestamp", PutWord(14, m.MaxTimestamp),
               TagLen(14) + sov(m.MaxTimestamp))
        /\ Has(t, m, "DynamicPartitionMetadata",
               PutAll("DynamicPartitionMetadata", 15, m.DynamicPartitionMetadata),
               SizeAll("DynamicPartitionMetadata", TagLen(15), m.DynamicPartitionMetadata))
        /\ Has(t, m, "PartialUpdate", PutBool(16, m.PartialUpdate), TagLen(16) + 1)
        /\ Has(t, m, "ApexInfo", D, SizeAll("ApexInfo", TagLen(17), m.ApexInfo))
        /\ Has(t, m, "SecurityPatchLevel", E,
               SizeBytes(TagLen(18), Len(m.SecurityPatchLevel)))
    BY <1>1, DeltaArchiveManifestHas DEF Root
  <2> HIDE DEF t, D, E
  <2> QED
    BY <2>1, <2>2 DEF t
<1>4. C = (C8 \o D) \o E /\ Len(E) = 1
  BY DEF MarshalManifest, PutAll, PutEach, Marshalled, PutBytes
<1>5. Headed(C8, H)
  <2> HIDE DEF H
  <2>1. \A A, B : Headed(A, H) /\ Headed(B, H) => Headed(A \o B, H)
    <3>1. H \union H = H
      OBVIOUS
    <3> QED
      BY <3>1, HeadedBoth
  <2>2. Headed(C2, H)
    BY <1>3, <2>1
  <2> HIDE DEF C2
  <2>3. Headed(C3, H)
    BY <1>3, <2>1, <2>2
  <2> HIDE DEF C3
  <2>4. Headed(C4, H)
    BY <1>3, <2>1, <2>3
  <2> HIDE DEF C4
  <2>5. Headed(C5, H)
    BY <1>3, <2>1, <2>4
  <2> HIDE DEF C5
  <2>6. Headed(C6, H)
    BY <1>3, <2>1, <2>5
  <2> HIDE DEF C6
  <2>7. Headed(C7, H)
    BY <1>3, <2>1, <2>6
  <2> HIDE DEF C7
  <2> QED
    BY <1>3, <2>1, <2>7
<1> HIDE DEF C8, D, E, C
<1> DEFINE F == C8 \o D
<1>6. /\ C8 \in Seq(Strings) /\ D \in Seq(Strings) /\ E \in Seq(Strings)
      /\ F \in Seq(Strings) /\ Len(F) = Len(C8) + Len(D)
      /\ Len(C8) \in Nat /\ Len(D) \in Nat
      /\ \A i \in 1 .. Len(C8) : F[i] = C8[i]
      /\ \A i \in 1 .. Len(D) : F[Len(C8) + i] = D[i]
  <2>1. C8 \in Seq(Strings) /\ D \in Seq(Strings) /\ E \in Seq(Strings)
    BY <1>3, <1>5 DEF Headed
  <2>2. Len(C8) \in Nat /\ Len(D) \in Nat
    BY <2>1
  <2> QED
    BY <2>1, <2>2, ConcatLen
<1> HIDE DEF F
<1>7. /\ F \o E \in Seq(Strings) /\ Len(F \o E) = Len(F) + 1
      /\ \A i \in 1 .. Len(F) : (F \o E)[i] = F[i]
      /\ (F \o E)[Len(F) + 1] = E[1]
  <2>1. /\ F \o E \in Seq(Strings) /\ Len(F \o E) = Len(F) + Len(E)
        /\ \A i \in 1 .. Len(F) : (F \o E)[i] = F[i]
        /\ \A i \in 1 .. Len(E) : (F \o E)[Len(F) + i] = E[i]
    <3>1. F \in Seq(Strings) /\ E \in Seq(Strings)
      BY <1>6
    <3> QED
      BY <3>1, ConcatLen
  <2>2. Len(E) = 1 /\ 1 \in 1 .. Len(E)
    BY <1>4
  <2> DEFINE G == F \o E
  <2> HIDE DEF G
  <2>3. G[Len(F) + 1] = E[1]
    BY <2>1, <2>2 DEF G
  <2> QED
    BY <2>1, <2>2, <2>3 DEF G
<1>8. C = F \o E
  BY <1>4 DEF F
<1> DEFINE a == Len(C8)
           d == Len(D)
<1>9. /\ C \in Seq(Strings) /\ Len(C) = (a + d) + 1 /\ a \in Nat /\ d \in Nat
      /\ \A i \in 1 .. a : C[i] = C8[i]
      /\ \A i \in 1 .. d : C[a + i] = D[i]
      /\ C[(a + d) + 1] = E[1]
  <2>1. Len(F) = a + d /\ a \in Nat /\ d \in Nat
    BY <1>6
  <2>2. \A i \in 1 .. a : i \in 1 .. Len(F) /\ F[i] = C8[i]
    BY <1>6, <2>1
  <2>3. \A i \in 1 .. d : a + i \in 1 .. Len(F) /\ F[a + i] = D[i]
    BY <1>6, <2>1
  <2> HIDE DEF a, d
  <2> QED
    BY <1>7, <1>8, <2>1, <2>2, <2>3
<1>10. /\ \A i \in 1 .. a : C8[i][1] \in H
       /\ \A i \in 1 .. d : D[i][1] = 138
       /\ E[1][1] = 146
  <2>1. (\A i \in 1 .. a : C8[i][1] \in H) /\ \A i \in 1 .. d : D[i][1] \in {138}
    BY <1>3, <1>5 DEF Headed
  <2>2. 1 \in 1 .. Len(E)
    BY <1>4
  <2>3. E[1][1] \in {146}
    BY <1>3, <2>2 DEF Headed
  <2> QED
    BY <2>1, <2>3
<1> HIDE DEF a, d, H
<1>11. ASSUME NEW k \in 1 .. Len(C)
       PROVE  /\ k <= a => C[k][1] \in H
              /\ k > a => C[k][1] \in {138, 146}
              /\ k = Len(C) => C[k][1] = 146
  <2>1. CASE k <= a
    <3>1. k \in 1 .. a /\ k # Len(C) /\ ~(k > a)
      BY <1>9, <2>1
    <3> QED
      BY <1>9, <1>10, <3>1
  <2>2. CASE k > a /\ k <= a + d
    <3> DEFINE i == k - a
    <3>1. i \in 1 .. d /\ k = a + i /\ k # Len(C) /\ ~(k <= a)
      BY <1>9, <2>2
    <3> HIDE DEF i
    <3>2. C[k] = D[i]
      BY <1>9, <3>1
    <3> QED
      BY <1>10, <3>1, <3>2
  <2>3. CASE k > a + d
    <3>1. k = (a + d) + 1 /\ ~(k <= a)
      BY <1>9, <2>3
    <3> QED
      BY <1>9, <1>10, <3>1
  <2> QED
    BY <1>9, <2>1, <2>2, <2>3
<1>12. a \in 0 .. Len(C) - 1
  BY <1>9
<1>13. \E z \in 0 .. Len(C) - 1 :
         \A k \in 1 .. Len(C) :
           /\ k <= z => C[k][1] \in H
           /\ k > z => C[k][1] \in {138, 146}
           /\ k = Len(C) => C[k][1] = 146
  BY <1>11, <1>12
<1> QED
  BY <1>9, <1>13 DEF C, H

\* What the extraction uses of a manifest.
Kept(x, m) ==
  /\ x.BlockSize = m.BlockSize /\ x.MinorVersion = m.MinorVersion
  /\ x.Partitions = m.Partitions

\* Storing one of the last two fields leaves it as it is.
LEMMA KeptPut ==
  ASSUME NEW x, NEW f, NEW v, f.name \in {"ApexInfo", "SecurityPatchLevel"}
  PROVE  /\ Put(x, f, v).BlockSize = x.BlockSize
         /\ Put(x, f, v).MinorVersion = x.MinorVersion
         /\ Put(x, f, v).Partitions = x.Partitions
<1> DEFINE z == CASE f.label = "rep" -> Append(x[f.name], v)
                  [] f.label = "ptr" -> <<v>>
                  [] OTHER           -> v
           e == f.name
<1>1. Put(x, f, v) = [x EXCEPT ![e] = z]
  BY DEF Put
<1>2. e \notin {"BlockSize", "MinorVersion", "Partitions"}
  OBVIOUS
<1> HIDE DEF z, e
<1> QED
  BY <1>1, <1>2

\* It is read before the apexes and the security patch level are, and a field
\* other than the latter is not the last.
LEMMA RootOrder ==
  ASSUME NEW m \in Samples, NEW n \in 0 .. Count(Root, m) - 1
  PROVE  LET f == FieldAt(Root, m, n + 1) IN
         /\ f \in Fields[Root] /\ n + 1 \in 1 .. Count(Root, m)
         /\ f.no # 18 => n + 1 < Count(Root, m)
         /\ f.no >= 17 => Kept(Made(Root, m, n), m)
<1> DEFINE c == Count(Root, m)
           C == MarshalManifest(m)
           K(j) == {i \in j .. c : ~Kept(Made(Root, m, i), m)}
<1>1. /\ Root \in Written /\ m \in Messages(Root) /\ Root \in MessageTypes
      /\ Marshalled(Root, m) = C /\ c = Len(C) /\ c \in Nat
  BY RootFacts, CodeFacts, WrittenTypes DEF Count
<1>2. PICK a \in 0 .. c - 1 :
        \A k \in 1 .. c : /\ k <= a => C[k][1] \in 8 .. 133
                          /\ k > a => C[k][1] \in {138, 146}
                          /\ k = c => C[k][1] = 146
  BY <1>1, RootHeads
<1>3. ASSUME NEW k \in 1 .. c
      PROVE  LET f == FieldAt(Root, m, k) IN
             /\ f \in Fields[Root] /\ (f.no >= 17 <=> k > a) /\ (k = c => f.no = 18)
  <2> DEFINE f == FieldAt(Root, m, k)
             v == ValueAt(Root, m, k)
  <2>1. f \in Fields[Root] /\ v \in Values(f.kind) /\ C[k] = Item(f, v)
    BY <1>1, WayStep
  <2>2. C[k][1] = Tag(f)
    BY <1>1, <2>1, ItemHead
  <2> DEFINE no == f.no
             b == Tag(f)
  <2>3. /\ no \in 3 .. 18 /\ (no = 17 => b = 138) /\ (no = 18 => b = 146)
        /\ (no <= 16 => b \in 8 .. 133)
    BY <2>1, RootTable
  <2>4. /\ k <= a => b \in 8 .. 133
        /\ k > a => b \in {138, 146}
        /\ k = c => b = 146
    BY <1>2, <2>2
  <2>6. a \in Nat /\ k \in Nat
    BY <1>1
  <2> HIDE DEF no, b, c
  <2>5. (no >= 17 <=> k > a) /\ (k = c => no = 18)
    BY <2>3, <2>4, <2>6
  <2> QED
    BY <2>1, <2>5 DEF no
<1>4. ASSUME NEW k \in 1 .. c, k > a, Kept(Made(Root, m, k), m)
      PROVE  Kept(Made(Root, m, k - 1), m)
  <2> DEFINE f == FieldAt(Root, m, k)
             v == ValueAt(Root, m, k)
             x == Made(Root, m, k - 1)
             y == Made(Root, m, k)
  <2>1. f \in Fields[Root] /\ v \in Values(f.kind) /\ y = Put(x, f, v)
    BY <1>1, WayStep
  <2>2. f.name \in {"ApexInfo", "SecurityPatchLevel"}
    BY <1>3, <1>4, <2>1, RootTable
  <2> HIDE DEF f, v, x, y
  <2>3. /\ y.BlockSize = x.BlockSize /\ y.MinorVersion = x.MinorVersion
        /\ y.Partitions = x.Partitions
    BY <2>1, <2>2, KeptPut
  <2> QED
    BY <1>4, <2>3 DEF Kept, x, y
<1>5. K(a) = {}
  <2> SUFFICES ASSUME K(a) # {} PROVE FALSE
    OBVIOUS
  <2>1. K(a) \in SUBSET (0 .. c)
    BY <1>1
  <2>2. PICK i \in K(a) : \A j \in K(a) : j <= i
    BY <1>1, <2>1, SomeBelow
  <2>3. i \in a .. c /\ ~Kept(Made(Root, m, i), m) /\ a \in Nat
    BY <1>1, <2>2
  <2>4. i # c
    <3>1. Made(Root, m, c) = m
      BY <1>1, Ways
    <3> QED
      BY <2>3, <3>1 DEF Kept
  <2>5. i + 1 \in a .. c /\ i + 1 \in 1 .. c /\ i + 1 > a /\ (i + 1) - 1 = i
        /\ ~(i + 1 <= i)
    BY <1>1, <2>3, <2>4
  <2>6. i + 1 \notin K(a)
    BY <2>2, <2>5
  <2>7. Kept(Made(Root, m, i + 1), m)
    BY <2>5, <2>6
  <2> QED
    BY <1>4, <2>3, <2>5, <2>7
<1>6. n + 1 \in 1 .. c /\ n \in 0 .. c - 1 /\ a \in Nat
  BY <1>1
<1> DEFINE f == FieldAt(Root, m, n + 1)
           no == f.no
<1>7. f \in Fields[Root] /\ (no >= 17 <=> n + 1 > a) /\ (n + 1 = c => no = 18)
  BY <1>3, <1>6
<1>8. no # 18 => n + 1 < c
  <2> HIDE DEF no, f, c
  <2> QED
    BY <1>1, <1>6, <1>7
<1>9. ASSUME no >= 17 PROVE Kept(Made(Root, m, n), m)
  <2>1. n \in a .. c
    <3> HIDE DEF no, f, c
    <3> QED
      BY <1>1, <1>6, <1>7, <1>9
  <2> QED
    BY <1>5, <2>1
<1> QED
  BY <1>6, <1>7, <1>8, <1>9

-----------------------------------------------------------------------------
(* A manifest that is read in part.                                        *)

\* Of what was written of m, lim bytes are read, and zeros behind them.
Cut(m, lim) ==
  /\ Len(dAtA) = Len(Encoded(m)) /\ lim \in 1 .. Len(dAtA)
  /\ \A i \in 1 .. Len(dAtA) : dAtA[i] = IF i <= lim THEN Encoded(m)[i] ELSE 0

\* The first call has all bytes for its slice.
Rooted == calls[1].type = Root /\ calls[1].base = 0 /\ calls[1].l = Len(dAtA)

\* A field begins where the first digit of its tag is.
Preceded == what = "tag" => preIndex + digits = top.iNdEx

PInv == Rooted /\ Preceded

\* The top call becomes c, the others stay.
OnlyTop(s, c) ==
  /\ Len(s) = Len(calls) /\ s[Len(calls)] = c /\ Last(s) = c
  /\ \A k \in 1 .. Len(calls) : k # Len(calls) => s[k] = calls[k]
  /\ \A d : /\ Len(Append(s, d)) = Len(calls) + 1 /\ Last(Append(s, d)) = d
            /\ \A k \in 1 .. Len(calls) : Append(s, d)[k] = s[k]

LEMMA TopOnly ==
  ASSUME SInv, NEW c, NEW s, s = [calls EXCEPT ![Len(calls)] = c]
  PROVE  OnlyTop(s, c)
<1> DEFINE n == Len(calls)
           r == [calls EXCEPT ![n] = c]
<1>1. PICK S : calls \in Seq(S)
  BY DEF SInv, IsStack
<1>2. n \in Nat \ {0} /\ DOMAIN calls = 1 .. n
  BY TopCall
<1>3. r \in Seq(S \union {c}) /\ Len(r) = n
  <2>1. r \in [1 .. n -> S \union {c}]
    BY <1>1, <1>2
  <2> HIDE DEF r
  <2> QED
    BY <1>2, <2>1
<1>4. r[n] = c /\ \A k \in 1 .. n : k # n => r[k] = calls[k]
  <2> HIDE DEF n
  <2> QED
    BY <1>2
<1>5. s = r
  OBVIOUS
<1> HIDE DEF r
<1>6. Last(r) = c
  BY <1>3, <1>4 DEF Last
<1>7. ASSUME NEW d
      PROVE  /\ Len(Append(r, d)) = n + 1 /\ Last(Append(r, d)) = d
             /\ \A k \in 1 .. n : Append(r, d)[k] = r[k]
  <2>1. r \in Seq(S \union {c, d})
    BY <1>3
  <2>2. /\ Len(Append(r, d)) = n + 1 /\ Append(r, d)[n + 1] = d
        /\ \A k \in 1 .. n : Append(r, d)[k] = r[k]
    BY <1>2, <1>3, <2>1
  <2> QED
    BY <2>2 DEF Last
<1> QED
  BY <1>3, <1>4, <1>5, <1>6, <1>7 DEF n, OnlyTop

\* What becomes of the top call: its index moves, or it stores a value.
LEMMA TopGoes ==
  ASSUME SInv, TInv
  PROVE  /\ \A i : \E c : /\ Seek(i) = [calls EXCEPT ![Len(calls)] = c]
                          /\ c.type = top.type /\ c.base = top.base /\ c.l = top.l
                          /\ c.iNdEx = i /\ c.m = top.m
         /\ \A f, v, i : \E c : /\ Stored(f, v, i) = [calls EXCEPT ![Len(calls)] = c]
                                /\ c.type = top.type /\ c.base = top.base
                                /\ c.l = top.l /\ c.iNdEx = i
                                /\ c.m = Put(top.m, f, v)
<1> DEFINE n == Len(calls)
<1>1. /\ n \in Nat \ {0} /\ DOMAIN calls = 1 .. n /\ top = calls[n] /\ n \in DOMAIN calls
      /\ IsCall(top) /\ IsFrame(top)
  BY TopCall, TopFrame DEF TInv
<1> HIDE DEF n
<1>2. {"type", "m", "got", "base", "l", "iNdEx"} \subseteq DOMAIN top
  BY <1>1 DEF IsCall, IsFrame, Parts, Numbers
<1>3. ASSUME NEW i
      PROVE  \E c : /\ Seek(i) = [calls EXCEPT ![n] = c]
                    /\ c.type = top.type /\ c.base = top.base /\ c.l = top.l
                    /\ c.iNdEx = i /\ c.m = top.m
  <2> DEFINE c == [top EXCEPT !.iNdEx = i]
  <2>1. Seek(i) = [calls EXCEPT ![n] = c]
    BY <1>1 DEF Seek, n
  <2>2. /\ c.type = top.type /\ c.base = top.base /\ c.l = top.l
        /\ c.iNdEx = i /\ c.m = top.m
    BY <1>2
  <2> HIDE DEF c
  <2> QED
    BY <2>1, <2>2
<1>4. ASSUME NEW f, NEW v, NEW i
      PROVE  \E c : /\ Stored(f, v, i) = [calls EXCEPT ![n] = c]
                    /\ c.type = top.type /\ c.base = top.base
                    /\ c.l = top.l /\ c.iNdEx = i
                    /\ c.m = Put(top.m, f, v)
  <2> DEFINE y == Put(top.m, f, v)
             q == top.got \union {f.name}
             c == [[[top EXCEPT !.m = y] EXCEPT !.got = q] EXCEPT !.iNdEx = i]
  <2>1. Stored(f, v, i) = [calls EXCEPT ![n].m = y, ![n].got = q, ![n].iNdEx = i]
    BY DEF Stored, n
  <2> HIDE DEF y, q
  <2>2. Stored(f, v, i) = [calls EXCEPT ![n] = c]
    BY <1>1, <2>1
  <2>3. /\ c.type = top.type /\ c.base = top.base /\ c.l = top.l
        /\ c.iNdEx = i /\ c.m = y
    BY <1>2
  <2> HIDE DEF c
  <2> QED
    BY <2>2, <2>3 DEF y
<1> QED
  BY <1>3, <1>4 DEF n

\* A step moves the top call, or stores in it, or makes one more, or returns.
LEMMA StepShape ==
  ASSUME SInv, TInv, Next
  PROVE  \/ calls' = calls \/ ReturnToCaller
         \/ \E c : /\ c.type = top.type /\ c.base = top.base /\ c.l = top.l
                   /\ \/ calls' = [calls EXCEPT ![Len(calls)] = c]
                      \/ \E d : calls' = Append([calls EXCEPT ![Len(calls)] = c], d)
<1>1. CASE /\ ~ReturnToCaller
           /\ \/ BadVarint \/ RejectTag \/ KnownField \/ BadLength \/ Incomplete \/ Return
  BY <1>1 DEF BadVarint, RejectTag, KnownField, BadLength, Incomplete, Return, Fail
<1>2. CASE Digit \/ UnknownField
  <2>1. PICK i : calls' = Seek(i)
    BY <1>2 DEF Digit, UnknownField
  <2> QED
    BY <2>1, TopGoes
<1>3. CASE Fixed32Field \/ Value \/ BytesField
  <2>1. calls' = calls \/ \E f, v, i : calls' = Stored(f, v, i)
    BY <1>3 DEF Fixed32Field, Value, BytesField, Fail
  <2>2. CASE calls' = calls
    BY <2>2
  <2>3. CASE calls' # calls
    <3>1. PICK f, v, i : calls' = Stored(f, v, i)
      BY <2>1, <2>3
    <3> QED
      BY <3>1, TopGoes
  <2> QED
    BY <2>2, <2>3
<1>4. CASE MessageField
  <2>1. PICK d : calls' = Append(Seek(postIndex), d)
    BY <1>4 DEF MessageField
  <2>2. PICK c : /\ Seek(postIndex) = [calls EXCEPT ![Len(calls)] = c]
                 /\ c.type = top.type /\ c.base = top.base /\ c.l = top.l
    BY TopGoes
  <2> QED
    BY <2>1, <2>2
<1>5. CASE SkipTag \/ SkipValue \/ SkipLength
  <2>1. calls' = calls \/ \E i : calls' = Seek(i)
    BY <1>5 DEF SkipTag, SkipValue, SkipLength, Skipped, Fail
  <2>2. CASE calls' = calls
    BY <2>2
  <2>3. CASE calls' # calls
    <3>1. PICK i : calls' = Seek(i)
      BY <2>1, <2>3
    <3> QED
      BY <3>1, TopGoes
  <2> QED
    BY <2>2, <2>3
<1> QED
  BY <1>1, <1>2, <1>3, <1>4, <1>5 DEF Next

\* What the first call's slice is does not change, nor where the call is as long
\* as there are others.
LEMMA FirstStays ==
  ASSUME SInv, TInv, Next
  PROVE  /\ calls'[1].type = calls[1].type /\ calls'[1].base = calls[1].base
         /\ calls'[1].l = calls[1].l
         /\ Len(calls) > 1 => /\ calls'[1].iNdEx = calls[1].iNdEx
                              /\ ReturnToCaller => Len(calls') = Len(calls) - 1
         /\ ~ReturnToCaller => Len(calls') \in {Len(calls), Len(calls) + 1}
<1> DEFINE n == Len(calls)
<1>1. n \in Nat \ {0} /\ DOMAIN calls = 1 .. n /\ top = calls[n]
  BY TopCall
<1>2. CASE calls' = calls /\ ~ReturnToCaller
  BY <1>1, <1>2
<1>3. CASE ReturnToCaller
  <2>1. PICK S : calls \in Seq(S)
    BY DEF SInv, IsStack
  <2> DEFINE k == n - 1
             F == Front(calls)
             y == Put(calls[k].m, top.at, top.m)
  <2>2. k \in Nat \ {0} /\ calls' = [F EXCEPT ![k].m = y]
    BY <1>1, <1>3 DEF ReturnToCaller
  <2>3. F \in Seq(S) /\ Len(F) = k /\ \A j \in 1 .. k : F[j] = calls[j]
    <3>1. F = SubSeq(calls, 1, k)
      BY DEF Front
    <3>2. k \in 0 .. Len(calls)
      BY <1>1, <2>2
    <3> HIDE DEF k
    <3> QED
      BY <2>1, <2>2, <3>1, <3>2
  <2> DEFINE c == [F[k] EXCEPT !.m = y]
  <2>4. F[k] = calls[k] /\ k \in DOMAIN calls /\ 1 \in DOMAIN calls
    BY <1>1, <2>2, <2>3
  <2>5. IsCall(calls[k]) /\ IsFrame(calls[k])
    BY <2>4 DEF SInv, TInv, Nested, Framed
  <2>6. c.type = F[k].type /\ c.base = F[k].base /\ c.l = F[k].l /\ c.iNdEx = F[k].iNdEx
    BY <2>4, <2>5 DEF IsCall, IsFrame, Numbers, Parts
  <2> HIDE DEF k, F, y
  <2>7. DOMAIN F = 1 .. k /\ calls' = [F EXCEPT ![k] = c]
    BY <2>2, <2>3
  <2> HIDE DEF c
  <2>8. calls' \in Seq(S \union {c}) /\ Len(calls') = k
    <3>1. calls' \in [1 .. k -> S \union {c}]
      BY <2>2, <2>3, <2>7
    <3>2. k \in Nat
      BY <2>2
    <3> QED
      BY <3>1, <3>2
  <2>9. calls'[1] = IF k = 1 THEN c ELSE F[1]
    BY <2>2, <2>7
  <2>10. F[1] = calls[1]
    BY <2>2, <2>3
  <2>11. Len(calls') = Len(calls) - 1
    BY <2>8 DEF k
  <2>12. /\ calls'[1].type = calls[1].type /\ calls'[1].base = calls[1].base
         /\ calls'[1].l = calls[1].l /\ calls'[1].iNdEx = calls[1].iNdEx
    <3>1. CASE k = 1
      BY <2>6, <2>9, <2>10, <3>1
    <3>2. CASE k # 1
      BY <2>9, <2>10, <3>2
    <3> QED
      BY <3>1, <3>2
  <2> QED
    BY <1>3, <2>11, <2>12
<1>4. CASE /\ ~ReturnToCaller
           /\ \E c : /\ c.type = top.type /\ c.base = top.base /\ c.l = top.l
                     /\ \/ calls' = [calls EXCEPT ![Len(calls)] = c]
                        \/ \E d : calls' = Append([calls EXCEPT ![Len(calls)] = c], d)
  <2>1. PICK c : /\ c.type = top.type /\ c.base = top.base /\ c.l = top.l
                 /\ \/ calls' = [calls EXCEPT ![Len(calls)] = c]
                    \/ \E d : calls' = Append([calls EXCEPT ![Len(calls)] = c], d)
    BY <1>4
  <2>2. PICK s : s = [calls EXCEPT ![Len(calls)] = c]
    OBVIOUS
  <2>3. /\ Len(s) = n /\ s[n] = c /\ Last(s) = c
        /\ \A k \in 1 .. n : k # n => s[k] = calls[k]
        /\ \A d : /\ Len(Append(s, d)) = n + 1 /\ Last(Append(s, d)) = d
                  /\ \A k \in 1 .. n : Append(s, d)[k] = s[k]
    <3>1. OnlyTop(s, c)
      BY <2>2, TopOnly
    <3> QED
      BY <3>1 DEF OnlyTop
  <2>6. calls' = s \/ \E d : calls' = Append(s, d)
    BY <2>1, <2>2
  <2> HIDE DEF n
  <2>4. calls'[1] = s[1] /\ Len(calls') \in {n, n + 1}
    <3>1. 1 \in 1 .. n /\ n \in Nat
      BY <1>1 DEF n
    <3>2. CASE calls' = s
      BY <2>3, <3>1, <3>2
    <3>3. CASE \E d : calls' = Append(s, d)
      <4>1. PICK d : calls' = Append(s, d)
        BY <3>3
      <4>2. Len(calls') = n + 1 /\ calls'[1] = s[1]
        BY <2>3, <3>1, <4>1
      <4> QED
        BY <3>1, <4>2
    <3> QED
      BY <2>6, <3>2, <3>3
  <2>5. /\ s[1].type = calls[1].type /\ s[1].base = calls[1].base /\ s[1].l = calls[1].l
        /\ n > 1 => s[1] = calls[1]
    <3>1. CASE n = 1
      BY <1>1, <2>1, <2>3, <3>1
    <3>2. CASE n # 1
      <4>1. 1 \in 1 .. n
        BY <1>1
      <4> QED
        BY <2>3, <3>2, <4>1
    <3> QED
      BY <3>1, <3>2
  <2> QED
    BY <1>4, <2>4, <2>5 DEF n
<1> QED
  BY <1>2, <1>3, <1>4, StepShape

\* The calls with the top one at i, or with a value stored.
LEMMA SeekIs ==
  ASSUME SInv, TInv, NEW i
  PROVE  /\ Last(Seek(i)).iNdEx = i /\ Len(Seek(i)) = Len(calls)
         /\ Len(calls) = 1 => Seek(i)[1].iNdEx = i /\ Seek(i)[1].m = calls[1].m
         /\ \A d : /\ Last(Append(Seek(i), d)) = d
                   /\ Len(calls) = 1 => /\ Append(Seek(i), d)[1].iNdEx = i
                                        /\ Len(Append(Seek(i), d)) = 2
<1>1. PICK c : Seek(i) = [calls EXCEPT ![Len(calls)] = c] /\ c.iNdEx = i /\ c.m = top.m
  BY TopGoes
<1>2. OnlyTop(Seek(i), c)
  BY <1>1, TopOnly
<1>3. Len(calls) \in Nat \ {0} /\ top = calls[Len(calls)]
  BY TopCall
<1> DEFINE s == Seek(i)
           n == Len(calls)
<1> HIDE DEF s, n
<1>4. Last(s).iNdEx = i /\ Len(s) = n /\ n \in Nat \ {0}
  BY <1>1, <1>2, <1>3 DEF OnlyTop, s, n
<1>5. n = 1 => s[1].iNdEx = i /\ s[1].m = calls[1].m
  BY <1>1, <1>2, <1>3 DEF OnlyTop, s, n
<1>6. ASSUME NEW d
      PROVE  /\ Last(Append(s, d)) = d
             /\ n = 1 => Append(s, d)[1].iNdEx = i /\ Len(Append(s, d)) = 2
  <2>1. /\ Last(Append(s, d)) = d /\ Len(Append(s, d)) = n + 1
        /\ \A k \in 1 .. n : Append(s, d)[k] = s[k]
    BY <1>2 DEF OnlyTop, s, n
  <2>2. n = 1 => 1 \in 1 .. n
    OBVIOUS
  <2> QED
    BY <1>5, <2>1, <2>2
<1> QED
  BY <1>4, <1>5, <1>6 DEF s, n

LEMMA StoredIs ==
  ASSUME SInv, TInv, NEW f, NEW v, NEW i
  PROVE  LET s == Stored(f, v, i) IN
         /\ Last(s).iNdEx = i /\ Len(s) = Len(calls)
         /\ Len(calls) = 1 => s[1].iNdEx = i /\ s[1].m = Put(calls[1].m, f, v)
<1> DEFINE s == Stored(f, v, i)
           n == Len(calls)
<1>1. PICK c : s = [calls EXCEPT ![n] = c] /\ c.iNdEx = i /\ c.m = Put(top.m, f, v)
  BY TopGoes
<1>2. OnlyTop(s, c)
  BY <1>1, TopOnly
<1>3. n \in Nat \ {0} /\ top = calls[n]
  BY TopCall
<1> HIDE DEF s, n
<1>4. Last(s).iNdEx = i /\ Len(s) = n
  BY <1>1, <1>2 DEF OnlyTop, n
<1>5. n = 1 => s[1].iNdEx = i /\ s[1].m = Put(calls[1].m, f, v)
  BY <1>1, <1>2, <1>3 DEF OnlyTop, n
<1> QED
  BY <1>4, <1>5 DEF s, n

LEMMA InitPInv == Init => PInv
<1> SUFFICES ASSUME Init PROVE PInv
  OBVIOUS
<1> DEFINE c == Call(Root, 0, Len(dAtA), NoField, New(Root))
<1>1. calls = << c >> /\ what = "tag" /\ digits = 0 /\ preIndex = 0
  BY DEF Init, Root
<1>2. c.type = Root /\ c.base = 0 /\ c.l = Len(dAtA) /\ c.iNdEx = 0
  BY DEF Call
<1> HIDE DEF c
<1>3. calls[1] = c /\ top = c
  BY <1>1 DEF top, Last
<1> QED
  BY <1>1, <1>2, <1>3 DEF PInv, Rooted, Preceded

LEMMA NextPreceded ==
  ASSUME SInv, TInv, PInv, Next
  PROVE  Preceded'
<1>1. /\ top.iNdEx \in Int /\ postIndex \in Int /\ depth \in Nat /\ digits \in Nat
      /\ preIndex \in Nat
      /\ Plus(top.iNdEx, 8) \in Int /\ Plus(top.iNdEx, 4) \in Int
  <2>1. /\ top.iNdEx \in Int /\ postIndex \in Int /\ depth \in Nat /\ digits \in Nat
        /\ preIndex \in Nat
    BY PostIndexTyped, Sizes DEF SInv, Varints, TInv, Counted
  <2>2. 8 \in Int /\ 4 \in Int
    OBVIOUS
  <2>3. Plus(top.iNdEx, 8) \in Int /\ Plus(top.iNdEx, 4) \in Int
    BY <2>1, <2>2, PlusTyped, Zenon
  <2> QED
    BY <2>1, <2>3
<1>2. CASE Fail \/ Return
  BY <1>2 DEF Fail, Return, PInv, Preceded, top
<1>3. CASE Digit
  <2>1. /\ calls' = Seek(top.iNdEx + 1) /\ digits' = digits + 1 /\ what' = what
        /\ preIndex' = preIndex
    BY <1>3 DEF Digit
  <2>2. top'.iNdEx = top.iNdEx + 1
    BY <2>1, SeekIs DEF top
  <2> QED
    BY <1>1, <2>1, <2>2 DEF PInv, Preceded
<1>4. CASE UnknownField \/ KnownField
  BY <1>4 DEF UnknownField, KnownField, Read, Preceded
<1>5. ASSUME NEW i \in Int, Loop(i), NEW f, NEW v, calls' = Stored(f, v, i)
      PROVE  Preceded'
  <2>1. top'.iNdEx = i
    BY <1>5, StoredIs DEF top
  <2> QED
    BY <1>5, <2>1 DEF Preceded, Loop, Read
<1>6. CASE Fixed32Field
  <2>1. CASE Fail
    BY <1>2, <2>1
  <2>2. CASE ~Fail
    <3>1. calls' = Stored(FieldOf, Fixed32, top.iNdEx + 4) /\ Loop(top.iNdEx + 4)
      BY <1>6, <2>2 DEF Fixed32Field
    <3>2. top.iNdEx + 4 \in Int
      BY <1>1
    <3> QED
      BY <1>5, <3>1, <3>2
  <2> QED
    BY <2>1, <2>2
<1>7. CASE Value
  BY <1>1, <1>5, <1>7 DEF Value
<1>8. CASE BytesField
  BY <1>1, <1>5, <1>8 DEF BytesField
<1>9. CASE MessageField
  <2>1. /\ Loop(0)
        /\ \E d : d.iNdEx = 0 /\ calls' = Append(Seek(postIndex), d)
    BY <1>9 DEF MessageField, Call
  <2>2. top'.iNdEx = 0
    BY <2>1, SeekIs DEF top
  <2> QED
    BY <2>1, <2>2 DEF Preceded, Loop, Read
<1>10. CASE ReturnToCaller
  <2> DEFINE n == Len(calls) - 1
             v == Put(calls[n].m, top.at, top.m)
  <2>1. /\ Len(calls) > 1 /\ calls' = [Front(calls) EXCEPT ![n].m = v]
        /\ Loop(calls[n].iNdEx)
    BY <1>10 DEF ReturnToCaller
  <2> HIDE DEF v
  <2>2. Last(calls').iNdEx = calls[n].iNdEx /\ calls[n].iNdEx \in Nat
    BY <2>1, ReturnNests
  <2> HIDE DEF n
  <2> QED
    BY <2>1, <2>2 DEF Preceded, Loop, Read, top
<1>11. ASSUME NEW i \in Int, NEW d, Skipped(i, d)
       PROVE  Preceded'
  <2>1. CASE Fail
    BY <1>2, <2>1
  <2>2. CASE ~Fail
    <3>1. calls' = Seek(i) /\ ((Read("tag") /\ preIndex' = i) \/ Read("skipTag"))
      BY <1>11, <2>2 DEF Skipped
    <3>2. top'.iNdEx = i
      BY <3>1, SeekIs DEF top
    <3> QED
      BY <3>1, <3>2 DEF Preceded, Read
  <2> QED
    BY <2>1, <2>2
<1>12. CASE SkipTag \/ SkipValue \/ SkipLength
  <2>1. \/ Fail \/ Read("skipValue") \/ Read("skipLength")
        \/ \E i \in Int : \E d : Skipped(i, d)
    BY <1>1, <1>12 DEF SkipTag, SkipValue, SkipLength
  <2> QED
    BY <1>2, <1>11, <2>1 DEF Read, Preceded
<1> QED
  BY <1>2, <1>3, <1>4, <1>6, <1>7, <1>8, <1>9, <1>10, <1>12
     DEF Next, BadVarint, RejectTag, BadLength, Incomplete

LEMMA NextPInv == SInv /\ TInv /\ PInv /\ [Next]_vars => PInv'
<1> SUFFICES ASSUME SInv, TInv, PInv, [Next]_vars PROVE PInv'
  OBVIOUS
<1>1. CASE UNCHANGED vars
  BY <1>1 DEF vars, PInv, Rooted, Preceded, top
<1>2. CASE Next
  BY <1>2, NextPreceded, FirstStays, DataStays DEF PInv, Rooted
<1> QED
  BY <1>1, <1>2

\* A call's slice ends no later than where the first call goes on.
LEMMA Inner ==
  ASSUME SInv, PInv, Len(calls) > 1
  PROVE  top.base + top.l <= calls[1].iNdEx
<1> DEFINE n == Len(calls)
           p == calls[1].iNdEx
           End(k) == calls[k].base + calls[k].l
           K == {k \in 2 .. n : ~(End(k) <= p)}
<1>1. /\ n \in Nat /\ n > 1 /\ DOMAIN calls = 1 .. n /\ top = calls[n]
      /\ calls[1].base = 0 /\ Len(dAtA) \in Nat
  BY TopCall DEF PInv, Rooted, SInv, Varints, Strings
<1>2. \A k \in 1 .. n : /\ calls[k].base \in Nat /\ calls[k].l \in Nat
                        /\ calls[k].iNdEx \in Nat
                        /\ k > 1 => End(k) = calls[k-1].base + calls[k-1].iNdEx
                        /\ k < n => calls[k].iNdEx <= calls[k].l
  BY <1>1 DEF SInv, Nested, IsCall
<1> HIDE DEF n
<1>3. K = {}
  <2> SUFFICES ASSUME K # {} PROVE FALSE
    OBVIOUS
  <2>1. K \in SUBSET (0 .. n)
    BY <1>1
  <2>2. PICK k \in K : \A j \in K : k <= j
    BY <1>1, <2>1, SomeBelow
  <2>3. k \in 2 .. n /\ ~(End(k) <= p)
    BY <2>2
  <2>4. k \in 1 .. n /\ k > 1 /\ k - 1 \in 1 .. n /\ k - 1 < n
    BY <1>1, <2>3
  <2>5. CASE k = 2
    <3>1. End(2) = calls[1].base + p
      BY <1>2, <2>4, <2>5
    <3>2. p \in Nat
      BY <1>1, <1>2
    <3> QED
      BY <1>1, <2>3, <2>5, <3>1, <3>2
  <2>6. CASE k # 2
    <3>1. k - 1 \in 2 .. n /\ ~(k <= k - 1)
      BY <1>1, <2>3, <2>6
    <3>2. End(k - 1) <= p
      BY <2>2, <3>1
    <3> DEFINE j == k - 1
    <3>3. /\ End(k) = calls[j].base + calls[j].iNdEx /\ calls[j].iNdEx <= calls[j].l
          /\ calls[j].base \in Nat /\ calls[j].l \in Nat /\ calls[j].iNdEx \in Nat
          /\ calls[j].base + calls[j].l <= p /\ p \in Nat
      BY <1>1, <1>2, <2>4, <3>2
    <3> HIDE DEF j
    <3>4. End(k) <= p
      <4> DEFINE b == calls[j].base
                 i == calls[j].iNdEx
                 u == calls[j].l
      <4>1. End(k) = b + i /\ i <= u /\ b + u <= p
            /\ b \in Nat /\ i \in Nat /\ u \in Nat /\ p \in Nat
        BY <3>3
      <4> HIDE DEF End, b, i, u, p
      <4> QED
        BY <4>1
    <3> QED
      BY <2>3, <3>4
  <2> QED
    BY <2>5, <2>6
<1>4. n \in 2 .. n
  BY <1>1
<1> QED
  BY <1>1, <1>3, <1>4

\* Where the first call is.
place == calls[1].iNdEx

\* It is the only one, and does this with that varint.
Alone(w, u) == Len(calls) = 1 /\ what = w /\ pc = u

\* What reading zeros comes to: they are read within a message inside of the
\* manifest, or between two fields, after the partitions unless more are to come;
InMessage(lim)  == Len(calls) > 1 /\ lim <= place /\ place < Len(dAtA)
Between(m, lim) == /\ Alone("tag", "read") /\ digits = 0 /\ acc = 0 /\ lim <= place
                   /\ place < Len(dAtA) \/ Kept(manifest, m)

\* as the tag of the next field, which it is rejected for, or as the last digits
\* of a value, of a length,
ZeroTag           == Alone("tag", "use") /\ acc = 0
CutValue(lim)     == Alone("value", "use") /\ lim <= place /\ place < Len(dAtA)
CutLength(m, lim) == /\ Alone("length", "use") /\ lim <= place
                     /\ IF field.kind = "bytes" THEN Kept(manifest, m)
                                                ELSE place + acc < Len(dAtA)

\* or of the tag of one of the last fields, which is taken for that of an unknown
\* one: it is skipped, with a length of zero.
IsTail(lim)    == dAtA[lim] \in {138, 146}
CutTag(m, lim) == /\ Alone("tag", "use") /\ acc \in {10, 18} /\ lim = preIndex + 1
                  /\ IsTail(lim) /\ Kept(manifest, m)
SkipsTag(m, lim) ==
  /\ depth = 0 /\ Kept(manifest, m)
  /\ \/ /\ Alone("skipTag", "read") /\ digits = 0 /\ weight = 1 /\ acc = 0
        /\ lim = place + 1 /\ IsTail(lim)
     \/ Alone("skipTag", "read") /\ digits = 1 /\ acc \in {10, 18} /\ lim = place
     \/ Alone("skipTag", "use") /\ acc \in {10, 18} /\ lim <= place
SkipsLength(m, lim) ==
  /\ depth = 0 /\ Kept(manifest, m) /\ acc = 0 /\ lim <= place
  /\ Alone("skipLength", "use") \/ (Alone("skipLength", "read") /\ digits = 0)

Past(m, lim) ==
  \/ InMessage(lim) \/ Between(m, lim) \/ ZeroTag \/ CutValue(lim)
  \/ CutLength(m, lim) \/ CutTag(m, lim) \/ SkipsTag(m, lim) \/ SkipsLength(m, lim)

\* The decoder reads on in the zeros, or ends with what the extraction uses.
Onward(m, lim) ==
  /\ verdict' = "run" => Past(m, lim)'
  /\ verdict' = "ok" => Kept(manifest, m)'

LEMMA StepKinds ==
  ASSUME Next
  PROVE  /\ verdict = "run"
         /\ pc = "read" => Digit \/ Fail \/ ReturnToCaller \/ Return
         /\ pc = "use" =>
              /\ what = "tag" => Fail \/ UnknownField \/ KnownField \/ Fixed32Field
              /\ what = "value" => Value
              /\ what = "length" => Fail \/ BytesField \/ MessageField
              /\ what = "skipTag" => SkipTag
              /\ what = "skipLength" => SkipLength
BY DEF Next, Digit, BadVarint, RejectTag, UnknownField, KnownField, Fixed32Field, Value,
       BadLength, BytesField, MessageField, Incomplete, ReturnToCaller, Return, SkipTag,
       SkipValue, SkipLength, AtEnd, Running

LEMMA FailsOnward ==
  ASSUME NEW m, NEW lim, Fail
  PROVE  Onward(m, lim)
BY DEF Fail, Onward

\* The first call alone.
LEMMA AloneFacts ==
  ASSUME SInv, TInv, PInv, Len(calls) = 1
  PROVE  /\ top = calls[1] /\ top.base = 0 /\ top.l = Len(dAtA) /\ top.type = Root
         /\ place = top.iNdEx /\ place \in Nat /\ Len(dAtA) \in Nat
         /\ Len(dAtA) < Word \div 2 /\ manifest = top.m /\ acc \in Nat
         /\ preIndex \in Nat
         /\ what \in {"tag", "value", "length"} => depth = 0 /\ place <= Len(dAtA)
<1>1. /\ top = calls[1] /\ IsCall(top) /\ acc \in Nat /\ preIndex \in Nat
      /\ Len(dAtA) \in Nat /\ Len(dAtA) <= Word \div 2 - 1
  BY TopCall, WordFacts DEF SInv, Varints, Strings
<1>2. top.base = 0 /\ top.l = Len(dAtA) /\ top.type = Root
  BY <1>1 DEF PInv, Rooted
<1>3. what \in {"tag", "value", "length"} => depth = 0 /\ top.iNdEx <= top.l
  BY DEF SInv, Indices
<1>4. Len(dAtA) < Word \div 2
  <2> DEFINE a == Word \div 2
             d == Len(dAtA)
  <2>1. a \in Nat /\ d \in Nat /\ d <= a - 1
    BY <1>1, WordFacts
  <2> HIDE DEF a, d
  <2>2. d < a
    BY <2>1
  <2> QED
    BY <2>2 DEF a, d
<1> QED
  BY <1>1, <1>2, <1>3, <1>4 DEF place, manifest, IsCall

\* A zero is the last digit of a varint, and adds nothing to it.
LEMMA ZeroDigit ==
  ASSUME SInv, TInv, PInv, NEW m \in Samples, NEW lim \in Nat, Cut(m, lim),
         Len(calls) = 1, Digit, lim <= place
  PROVE  /\ acc' = acc /\ pc' = "use" /\ Len(calls)' = 1 /\ place' = place + 1
         /\ manifest' = manifest /\ verdict' = "run"
         /\ UNCHANGED <<dAtA, what, preIndex, field, depth>>
<1>1. /\ top.base = 0 /\ top.l = Len(dAtA) /\ place = top.iNdEx /\ place \in Nat
      /\ Len(dAtA) \in Nat
  BY AloneFacts
<1> DEFINE b == dAtA[top.base + top.iNdEx + 1]
<1>2. /\ verdict = "run" /\ top.iNdEx < top.l
      /\ acc' = (acc + (b % Base) * weight) % Word
      /\ pc' = IF b < Base THEN "use" ELSE "read"
      /\ calls' = Seek(place + 1)
      /\ UNCHANGED <<dAtA, what, preIndex, field, depth, verdict>>
  BY <1>1 DEF Digit
<1>3. b = 0
  <2>1. top.base + top.iNdEx + 1 = place + 1 /\ place + 1 \in 1 .. Len(dAtA)
        /\ ~(place + 1 <= lim)
    BY <1>1, <1>2
  <2> QED
    BY <2>1 DEF Cut
<1> HIDE DEF b
<1>4. acc' = acc /\ pc' = "use"
  <2>1. acc \in 0 .. Word - 1 /\ weight \in Nat /\ Base = 128 /\ Word \in Nat
    BY Sizes DEF SInv, Varints
  <2>2. (0 % 128) * weight = 0 /\ acc + 0 = acc /\ acc % Word = acc
    BY <2>1
  <2> QED
    BY <1>2, <1>3, <2>1, <2>2
<1>5. Len(calls)' = 1 /\ calls'[1].iNdEx = place + 1 /\ calls'[1].m = calls[1].m
  BY <1>2, SeekIs
<1> QED
  BY <1>2, <1>4, <1>5 DEF place, manifest

LEMMA OkReturns ==
  ASSUME Next, verdict' = "ok"
  PROVE  Return
BY DEF Next, Digit, BadVarint, RejectTag, UnknownField, KnownField, Fixed32Field, Value,
       BadLength, BytesField, MessageField, Incomplete, ReturnToCaller, SkipTag,
       SkipValue, SkipLength, Skipped, AtEnd, Running, Loop, Fail

\* A message that begins or ends in the zeros is left between two fields.
LEMMA FromMessage ==
  ASSUME SInv, TInv, PInv, NEW m \in Samples, NEW lim \in Nat, Next, InMessage(lim)
  PROVE  Onward(m, lim)
<1>1. /\ Len(calls) > 1 /\ lim <= place /\ place < Len(dAtA) /\ Len(calls) \in Nat
  BY TopCall DEF InMessage
<1>2. verdict' # "ok"
  <2>1. Len(calls) # 1
    <3> DEFINE n == Len(calls)
    <3>1. n \in Nat /\ n > 1
      BY <1>1
    <3> HIDE DEF n
    <3>2. n # 1
      BY <3>1
    <3> QED
      BY <3>2 DEF n
  <2>2. Return => Len(calls) = 1
    BY DEF Return
  <2> QED
    BY <2>1, <2>2, OkReturns
<1>3. /\ place' = place /\ dAtA' = dAtA
      /\ ReturnToCaller => Len(calls') = Len(calls) - 1
      /\ ~ReturnToCaller => Len(calls') \in {Len(calls), Len(calls) + 1}
  BY <1>1, FirstStays, DataStays DEF place
<1>4. CASE Len(calls') > 1
  BY <1>1, <1>2, <1>3, <1>4 DEF Onward, Past, InMessage
<1>5. CASE ~(Len(calls') > 1)
  <2>1. ReturnToCaller /\ Len(calls') = 1
    <3> DEFINE n == Len(calls)
               k == Len(calls')
    <3>1. /\ n \in Nat /\ n > 1 /\ ~(k > 1)
          /\ ReturnToCaller => k = n - 1
          /\ ~ReturnToCaller => k \in {n, n + 1}
      BY <1>1, <1>3, <1>5
    <3> HIDE DEF n, k
    <3>2. ReturnToCaller /\ k = 1
      BY <3>1
    <3> QED
      BY <3>2 DEF k
  <2>2. what' = "tag" /\ pc' = "read" /\ digits' = 0 /\ acc' = 0
    BY <2>1 DEF ReturnToCaller, Loop, Read
  <2> QED
    BY <1>1, <1>2, <1>3, <2>1, <2>2 DEF Onward, Past, Between, Alone
<1> QED
  BY <1>4, <1>5

\* Between two fields a zero is a tag, and at the end the manifest is done.
LEMMA FromBetween ==
  ASSUME SInv, TInv, PInv, NEW m \in Samples, NEW lim \in Nat, Cut(m, lim), Next,
         Between(m, lim)
  PROVE  Onward(m, lim)
<1>1. /\ Len(calls) = 1 /\ what = "tag" /\ pc = "read" /\ acc = 0 /\ lim <= place
      /\ place < Len(dAtA) \/ Kept(manifest, m)
  BY DEF Between, Alone
<1>2. /\ top.l = Len(dAtA) /\ place = top.iNdEx /\ place \in Nat /\ Len(dAtA) \in Nat
  BY <1>1, AloneFacts
<1>3. Digit \/ Fail \/ ReturnToCaller \/ Return
  BY <1>1, StepKinds
<1>4. CASE Digit
  <2>1. acc' = 0 /\ pc' = "use" /\ Len(calls)' = 1 /\ what' = "tag" /\ verdict' = "run"
    BY <1>1, <1>4, ZeroDigit
  <2> QED
    BY <2>1 DEF Onward, Past, ZeroTag, Alone
<1>5. CASE ReturnToCaller
  BY <1>1, <1>5 DEF ReturnToCaller
<1>6. CASE Return
  <2>1. ~(place < Len(dAtA)) /\ calls' = calls /\ verdict' = "ok"
    BY <1>2, <1>6 DEF Return, AtEnd
  <2> QED
    BY <1>1, <2>1 DEF Onward, manifest
<1> QED
  BY <1>3, <1>4, <1>5, <1>6, FailsOnward

\* It is rejected: there is no field 0.
LEMMA FromZeroTag ==
  ASSUME Next, ZeroTag, NEW m, NEW lim
  PROVE  Onward(m, lim)
<1>1. what = "tag" /\ pc = "use" /\ acc = 0
  BY DEF ZeroTag, Alone
<1>2. Half \in Nat \ {0} /\ Half > 64
  BY Sizes
<1>3. wireType = 0 /\ fieldNum = 0
  <2>1. 0 % 8 = 0 /\ 0 \div 8 = 0 /\ 0 % Half = 0 /\ ~(2 * 0 >= Half)
    BY <1>2
  <2> QED
    BY <1>1, <2>1 DEF wireType, fieldNum
<1>4. Fail
  BY <1>1, <1>3, StepKinds DEF UnknownField, KnownField, Fixed32Field
<1> QED
  BY <1>4, FailsOnward

\* A value that ends in the zeros is stored.
LEMMA FromCutValue ==
  ASSUME SInv, TInv, PInv, NEW m \in Samples, NEW lim \in Nat, Next, CutValue(lim)
  PROVE  Onward(m, lim)
<1>1. /\ Len(calls) = 1 /\ what = "value" /\ pc = "use" /\ lim <= place
      /\ place < Len(dAtA)
  BY DEF CutValue, Alone
<1>2. place = top.iNdEx
  BY <1>1, AloneFacts
<1>3. verdict = "run" /\ Value
  BY <1>1, StepKinds
<1>4. /\ calls' = Stored(field, Converted(field.kind), place) /\ Loop(place)
  BY <1>2, <1>3 DEF Value
<1>5. Len(calls)' = 1 /\ place' = place
  BY <1>1, <1>4, StoredIs DEF place
<1>6. /\ what' = "tag" /\ pc' = "read" /\ digits' = 0 /\ acc' = 0 /\ dAtA' = dAtA
      /\ verdict' = "run"
  BY <1>3, <1>4 DEF Loop, Read
<1> QED
  BY <1>1, <1>5, <1>6 DEF Onward, Past, Between, Alone

\* A length that ends in the zeros is the one of the last field, or leads to bytes
\* before the end.
LEMMA FromCutLength ==
  ASSUME SInv, TInv, PInv, NEW m \in Samples, NEW lim \in Nat, Next, CutLength(m, lim)
  PROVE  Onward(m, lim)
<1>1. /\ Len(calls) = 1 /\ what = "length" /\ pc = "use" /\ lim <= place
      /\ IF field.kind = "bytes" THEN Kept(manifest, m) ELSE place + acc < Len(dAtA)
  BY DEF CutLength, Alone
<1>2. /\ top.l = Len(dAtA) /\ place = top.iNdEx /\ place \in Nat /\ Len(dAtA) \in Nat
      /\ depth = 0 /\ top.type = Root /\ acc \in Nat /\ Len(dAtA) < Word \div 2
      /\ manifest = calls[1].m
  BY <1>1, AloneFacts
<1>3. verdict = "run" /\ (Fail \/ BytesField \/ MessageField)
  BY <1>1, StepKinds
<1>4. CASE BytesField
  <2>1. GoodLength /\ field.kind = "bytes" /\ Loop(postIndex)
        /\ \E v : calls' = Stored(field, v, postIndex)
    BY <1>4 DEF BytesField
  <2>2. postIndex \in Nat /\ place <= postIndex
    BY <1>2, <2>1, LengthForward
  <2>3. PICK v : calls' = Stored(field, v, postIndex)
    BY <2>1
  <2>4. Len(calls)' = 1 /\ place' = postIndex /\ manifest' = Put(manifest, field, v)
    BY <1>1, <2>3, StoredIs DEF place, manifest
  <2>5. field.name = "SecurityPatchLevel"
    <3>1. field \in Fields[Root]
      BY <1>1, <1>2 DEF TInv, Switched
    <3> QED
      BY <2>1, <3>1, RootTable
  <2>6. Kept(manifest, m)'
    BY <1>1, <2>1, <2>4, <2>5, KeptPut DEF Kept
  <2>7. /\ what' = "tag" /\ pc' = "read" /\ digits' = 0 /\ acc' = 0 /\ verdict' = "run"
    BY <1>3, <2>1 DEF Loop, Read
  <2>8. lim <= postIndex
    BY <1>1, <1>2, <2>2
  <2> QED
    BY <2>4, <2>6, <2>7, <2>8 DEF Onward, Past, Between, Alone
<1>5. CASE MessageField
  <2>1. /\ field.kind # "bytes" /\ Loop(0) /\ \E d : calls' = Append(Seek(postIndex), d)
    BY <1>5 DEF MessageField
  <2>2. Len(calls)' = 2 /\ place' = postIndex
    BY <1>1, <2>1, SeekIs DEF place
  <2>3. postIndex = place + acc
    <3>1. place + acc < Word \div 2 /\ acc < Word \div 2
      <4> DEFINE a == Word \div 2
                 d == Len(dAtA)
      <4>1. a \in Nat /\ d \in Nat /\ place \in Nat /\ acc \in Nat /\ place + acc < d
            /\ d < a
        BY <1>1, <1>2, <2>1, WordFacts
      <4> HIDE DEF a, d
      <4>2. place + acc < a /\ acc < a
        BY <4>1
      <4> QED
        BY <4>2 DEF a
    <3>2. length = acc
      <4>1. ~(acc >= Word \div 2)
        BY <1>2, <3>1, WordFacts
      <4> QED
        BY <4>1 DEF length, Signed
    <3>3. Plus(place, acc) = place + acc
      BY <1>2, <3>1, PlusSmall
    <3> QED
      BY <1>2, <3>2, <3>3 DEF postIndex
  <2>4. dAtA' = dAtA /\ verdict' = "run"
    BY <1>3, <2>1 DEF Loop
  <2>5. lim <= place + acc /\ place + acc < Len(dAtA)
    BY <1>1, <1>2, <2>1
  <2> QED
    BY <2>2, <2>3, <2>4, <2>5 DEF Onward, Past, InMessage
<1> QED
  BY <1>3, <1>4, <1>5, FailsOnward

\* The low digit of a late tag is the tag of a field that a manifest does not have.
LEMMA FromCutTag ==
  ASSUME SInv, TInv, PInv, NEW m \in Samples, NEW lim \in Nat, Next, CutTag(m, lim)
  PROVE  Onward(m, lim)
<1>1. /\ Len(calls) = 1 /\ what = "tag" /\ pc = "use" /\ acc \in {10, 18}
      /\ lim = preIndex + 1 /\ IsTail(lim) /\ Kept(manifest, m)
  BY DEF CutTag, Alone
<1>2. top.type = Root /\ verdict = "run" /\ dAtA' = dAtA
  BY <1>1, AloneFacts, StepKinds, DataStays
<1>3. wireType = 2 /\ fieldNum \in {1, 2}
  <2>1. Half \in Nat \ {0} /\ Half > 64
    BY Sizes
  <2>2. /\ 10 % 8 = 2 /\ 10 \div 8 = 1 /\ 18 % 8 = 2 /\ 18 \div 8 = 2
        /\ 1 % Half = 1 /\ 2 % Half = 2 /\ ~(2 * 1 >= Half) /\ ~(2 * 2 >= Half)
    BY <2>1
  <2>3. CASE acc = 10
    BY <2>2, <2>3 DEF wireType, fieldNum
  <2>4. CASE acc = 18
    BY <2>2, <2>4 DEF wireType, fieldNum
  <2> QED
    BY <1>1, <2>3, <2>4
<1>4. ~Known
  <2>1. \A f \in Fields[Root] : f.no \in 3 .. 18
    BY RootTable
  <2>2. \A x \in 3 .. 18 : x # 1 /\ x # 2
    OBVIOUS
  <2> QED
    BY <1>2, <1>3, <2>1, <2>2 DEF Known
<1>5. Fail \/ UnknownField
  BY <1>1, <1>4, StepKinds DEF KnownField, Fixed32Field
<1>6. CASE UnknownField
  <2>1. /\ calls' = Seek(preIndex) /\ depth' = 0 /\ what' = "skipTag" /\ pc' = "read"
        /\ digits' = 0 /\ weight' = 1 /\ acc' = 0 /\ verdict' = "run"
    BY <1>2, <1>6 DEF UnknownField, Read
  <2>2. Len(calls)' = 1 /\ place' = preIndex /\ manifest' = manifest
    BY <1>1, <2>1, SeekIs DEF place, manifest
  <2>3. SkipsTag(m, lim)'
    BY <1>1, <1>2, <2>1, <2>2 DEF SkipsTag, Alone, IsTail, Kept
  <2> QED
    BY <2>1, <2>3 DEF Onward, Past
<1> QED
  BY <1>5, <1>6, FailsOnward

\* skipUpdateMetadata reads it again,
LEMMA FromSkipsTag ==
  ASSUME SInv, TInv, PInv, NEW m \in Samples, NEW lim \in Nat, Cut(m, lim), Next,
         SkipsTag(m, lim)
  PROVE  Onward(m, lim)
<1>1. /\ Len(calls) = 1 /\ what = "skipTag" /\ depth = 0 /\ Kept(manifest, m)
  BY DEF SkipsTag, Alone
<1>2. /\ top.base = 0 /\ place = top.iNdEx /\ place \in Nat
      /\ verdict = "run" /\ dAtA' = dAtA
  BY <1>1, AloneFacts, StepKinds, DataStays
<1>3. CASE pc = "read"
  <2>1. Digit \/ Fail
    BY <1>1, <1>3, StepKinds DEF ReturnToCaller, Return, AtEnd, Running
  <2>2. CASE Digit /\ digits = 0
    <3> DEFINE b == dAtA[top.base + top.iNdEx + 1]
    <3>1. weight = 1 /\ acc = 0 /\ lim = place + 1 /\ dAtA[lim] \in {138, 146}
      BY <1>3, <2>2 DEF SkipsTag, Alone, IsTail
    <3>2. /\ acc' = (acc + (b % Base) * weight) % Word
          /\ pc' = IF b < Base THEN "use" ELSE "read"
          /\ calls' = Seek(place + 1) /\ digits' = digits + 1
          /\ what' = what /\ depth' = depth /\ verdict' = verdict
      BY <1>2, <2>2 DEF Digit
    <3>3. b \in {138, 146}
      <4>1. top.base + top.iNdEx + 1 = lim
        BY <1>2, <3>1
      <4> QED
        BY <3>1, <4>1
    <3> HIDE DEF b
    <3>4. acc' \in {10, 18} /\ pc' = "read"
      <4>1. Base = 128 /\ Word \in Nat /\ Word > 256
        BY Sizes
      <4>2. /\ 138 % 128 = 10 /\ 146 % 128 = 18
            /\ (0 + 10 * 1) % Word = 10 /\ (0 + 18 * 1) % Word = 18
        BY <4>1
      <4>3. CASE b = 138
        BY <3>1, <3>2, <4>1, <4>2, <4>3
      <4>4. CASE b = 146
        BY <3>1, <3>2, <4>1, <4>2, <4>4
      <4> QED
        BY <3>3, <4>3, <4>4
    <3>5. Len(calls)' = 1 /\ place' = place + 1 /\ manifest' = manifest
      BY <1>1, <3>2, SeekIs DEF place, manifest
    <3>6. SkipsTag(m, lim)'
      BY <1>1, <2>2, <3>1, <3>2, <3>4, <3>5 DEF SkipsTag, Alone, Kept
    <3> QED
      BY <1>2, <3>2, <3>6 DEF Onward, Past
  <2>3. CASE Digit /\ digits # 0
    <3>1. acc \in {10, 18} /\ lim = place /\ lim <= place /\ lim <= place + 1
      BY <1>2, <1>3, <2>3 DEF SkipsTag, Alone
    <3>2. /\ acc' = acc /\ pc' = "use" /\ Len(calls)' = 1 /\ place' = place + 1
          /\ manifest' = manifest /\ verdict' = "run" /\ what' = what /\ depth' = depth
      BY <1>1, <2>3, <3>1, ZeroDigit
    <3>3. SkipsTag(m, lim)'
      BY <1>1, <3>1, <3>2 DEF SkipsTag, Alone, Kept
    <3> QED
      BY <3>2, <3>3 DEF Onward, Past
  <2> QED
    BY <2>1, <2>2, <2>3, FailsOnward
<1>4. CASE pc # "read"
  <2>1. pc = "use" /\ acc \in {10, 18} /\ lim <= place
    BY <1>4 DEF SkipsTag, Alone
  <2>2. wireType = 2
    <3>1. 10 % 8 = 2 /\ 18 % 8 = 2
      OBVIOUS
    <3> QED
      BY <2>1, <3>1 DEF wireType
  <2>3. Read("skipLength") /\ UNCHANGED <<dAtA, calls, preIndex, field, depth, verdict>>
    BY <1>1, <2>1, <2>2, StepKinds DEF SkipTag
  <2>4. /\ Len(calls)' = 1 /\ place' = place /\ manifest' = manifest /\ depth' = 0
        /\ what' = "skipLength" /\ pc' = "read" /\ acc' = 0 /\ digits' = 0
    BY <1>1, <2>3 DEF place, manifest, Read
  <2>5. SkipsLength(m, lim)'
    BY <1>1, <2>1, <2>4 DEF SkipsLength, Alone, Kept
  <2> QED
    BY <1>2, <2>3, <2>5 DEF Onward, Past
<1> QED
  BY <1>3, <1>4

\* and a length of zero.
LEMMA FromSkipsLength ==
  ASSUME SInv, TInv, PInv, NEW m \in Samples, NEW lim \in Nat, Cut(m, lim), Next,
         SkipsLength(m, lim)
  PROVE  Onward(m, lim)
<1>1. /\ Len(calls) = 1 /\ what = "skipLength" /\ depth = 0 /\ Kept(manifest, m)
      /\ acc = 0 /\ lim <= place
  BY DEF SkipsLength, Alone
<1>2. /\ place = top.iNdEx /\ place \in Nat /\ top.l = Len(dAtA) /\ Len(dAtA) \in Nat
      /\ Len(dAtA) < Word \div 2
  BY <1>1, AloneFacts
<1>3. verdict = "run" /\ dAtA' = dAtA
  BY StepKinds, DataStays
<1>4. CASE pc = "read"
  <2>1. Digit \/ Fail
    BY <1>1, <1>4, StepKinds DEF ReturnToCaller, Return, AtEnd, Running
  <2>2. CASE Digit
    <3>1. /\ acc' = acc /\ pc' = "use" /\ Len(calls)' = 1 /\ place' = place + 1
          /\ manifest' = manifest /\ verdict' = "run" /\ what' = what /\ depth' = depth
      BY <1>1, <2>2, ZeroDigit
    <3>2. lim <= place + 1
      BY <1>1, <1>2
    <3>3. SkipsLength(m, lim)'
      BY <1>1, <3>1, <3>2 DEF SkipsLength, Alone, Kept
    <3> QED
      BY <3>1, <3>3 DEF Onward, Past
  <2> QED
    BY <2>1, <2>2, FailsOnward
<1>5. CASE pc # "read"
  <2>1. pc = "use"
    BY <1>5 DEF SkipsLength, Alone
  <2>2. length = 0 /\ postIndex = place
    <3>1. length = 0
      <4>1. Word \div 2 \in Nat \ {0}
        BY WordFacts
      <4>2. ~(0 >= Word \div 2)
        BY <4>1
      <4> QED
        BY <1>1, <4>2 DEF length, Signed
    <3>2. place + 0 < Word \div 2 /\ place + 0 = place
      <4> DEFINE a == Word \div 2
                 d == Len(dAtA)
      <4>1. a \in Nat /\ d \in Nat /\ place \in Nat /\ place <= d /\ d < a
        BY <1>1, <1>2, WordFacts DEF SInv, Indices
      <4> HIDE DEF a, d
      <4>2. place + 0 < a /\ place + 0 = place
        BY <4>1
      <4> QED
        BY <4>2 DEF a
    <3>3. Plus(place, 0) = place
      BY <1>2, <3>2, PlusSmall
    <3> QED
      BY <1>2, <3>1, <3>3 DEF postIndex
  <2>3. SkipLength
    BY <1>1, <2>1, StepKinds
  <2>4. Fail \/ Skipped(place, 0)
    BY <1>1, <2>2, <2>3 DEF SkipLength
  <2>5. CASE Skipped(place, 0) /\ ~Fail
    <3>1. /\ calls' = Seek(place) /\ Read("tag") /\ verdict' = verdict
      BY <2>5 DEF Skipped
    <3>2. Len(calls)' = 1 /\ place' = place /\ manifest' = manifest
      BY <1>1, <3>1, SeekIs DEF place, manifest
    <3>3. Between(m, lim)'
      BY <1>1, <1>3, <3>1, <3>2 DEF Between, Alone, Kept, Read
    <3> QED
      BY <1>3, <3>1, <3>3 DEF Onward, Past
  <2> QED
    BY <2>4, <2>5, FailsOnward
<1> QED
  BY <1>4, <1>5

\* Once it reads zeros, the decoder goes on with that.
LEMMA PastOnward ==
  ASSUME SInv, TInv, PInv, NEW m \in Samples, NEW lim \in Nat, Cut(m, lim), Next,
         Past(m, lim)
  PROVE  Onward(m, lim)
BY FromMessage, FromBetween, FromZeroTag, FromCutValue, FromCutLength, FromCutTag,
   FromSkipsTag, FromSkipsLength DEF Past

-----------------------------------------------------------------------------
(* Where the zeros begin.                                                  *)

\* The first call reads a varint of an item.
LEMMA RootBusy ==
  ASSUME SInv, TInv, PInv, NEW m \in Samples, NEW lim \in Nat, Cut(m, lim),
         NEW h, Tracked(m, lim, h), Len(calls) = 1, Digit
  PROVE  LET n == h[1].n
             f == FieldAt(Root, m, n + 1)
             v == ValueAt(Root, m, n + 1)
             s == Ends(Root, m, n) + Offset(what, f)
             x == Due(what, f, v)
         IN  /\ n \in 0 .. Count(Root, m) - 1 /\ f \in Fields[Root] /\ v \in Values(f.kind)
             /\ Switches(now, f) /\ Ends(Root, m, n) \in Nat
             /\ Holds(Encoded(m), s, x) /\ x \in Words /\ sov(x) \in Nat /\ s \in Nat
             /\ digits \in 0 .. sov(x) - 1 /\ digits \in 0 .. MaxDigits - 1
             /\ place = s + digits /\ acc = x % Power[digits]
             /\ Ends(Root, m, n) + Offset(what, f) + sov(x) <= Ends(Root, m, n + 1)
             /\ Ends(Root, m, n + 1) \in Nat
             /\ f.no # 18 => Ends(Root, m, n + 1) < Len(dAtA)
             /\ f.no >= 17 => Kept(manifest, m)
<1> DEFINE n == h[1].n
           f == FieldAt(Root, m, n + 1)
           v == ValueAt(Root, m, n + 1)
           p == Ends(Root, m, n)
           q == Ends(Root, m, n + 1)
           o == Offset(what, f)
           s == p + o
           x == Due(what, f, v)
           e == Item(f, v)
<1>1. /\ top = calls[1] /\ top.type = Root /\ top.l = Len(dAtA) /\ place = top.iNdEx
      /\ manifest = top.m /\ Len(dAtA) \in Nat
  BY AloneFacts
<1>2. /\ Root \in Written /\ m \in Messages(Root) /\ Code(Root, m) = Encoded(m)
      /\ Len(dAtA) = Len(Encoded(m)) /\ Count(Root, m) \in Nat
  BY RootFacts, CodeFacts DEF Cut
<1>3. h[1].g = m /\ h[Len(calls)] = h[1]
  BY DEF Tracked, Follows
<1>4. now.pc = "read" /\ now.what = what /\ now.digits = digits /\ now.acc = acc
      /\ pc = "read" /\ top.iNdEx < top.l
  BY DEF now, Digit
<1>5. Through(top, h[1]) /\ Placed(top, h[1], now) /\ n \in 0 .. Count(Root, m)
  BY <1>1, <1>3, TopTracked
<1>6. Busy(top, h[1], now)
  BY <1>1, <1>2, <1>3, <1>4, <1>5, IdleBegins DEF Placed
<1>7. /\ n \in 0 .. Count(Root, m) - 1 /\ f \in Fields[Root] /\ v \in Values(f.kind)
      /\ p \in Nat /\ Holds(Encoded(m), s, x) /\ Reading(place, s, x, now)
  <2>1. Busy(top, h[Len(calls)], now)
    BY <1>3, <1>6
  <2> QED
    BY <1>1, <1>2, <1>3, <2>1, BusyFacts
<1>8. Switches(now, f) /\ now.what = what
  BY <1>1, <1>3, <1>4, <1>6 DEF Busy
<1>9. Holds(e, o, x)
  BY <1>2, <1>7, <1>8, DueHeld
<1>10. q = p + Len(e) /\ Len(e) \in Nat /\ q \in Nat
  BY <1>2, <1>7, EndsStep
<1>11. f.no >= 17 => Kept(manifest, m)
  <2>1. manifest = Made(Root, m, n)
    BY <1>1, <1>3, <1>5 DEF Through
  <2> QED
    BY <1>7, <2>1, RootOrder
<1>12. f.no # 18 => q < Len(dAtA)
  <2>1. n + 1 \in 0 .. Count(Root, m) /\ (f.no # 18 => n + 1 < Count(Root, m))
    BY <1>2, <1>7, RootOrder
  <2> QED
    BY <1>2, <2>1, EndsBefore
<1> HIDE DEF e, o, p, q, x, f, v, n
<1>13. x \in Words /\ o \in Nat /\ o + sov(x) <= Len(e)
  BY <1>9 DEF Holds
<1>14. sov(x) \in Nat
  BY <1>13, VarintTyped, Sizes
<1>15. /\ digits \in 0 .. sov(x) - 1 /\ digits \in 0 .. MaxDigits - 1
       /\ place = s + digits
  BY <1>4, <1>7, ReadingPlace
<1>16. acc = x % Power[digits]
  BY <1>4, <1>7 DEF Reading
<1>17. s \in Nat /\ s + sov(x) <= q
  BY <1>7, <1>10, <1>13, <1>14
<1> QED
  BY <1>7, <1>8, <1>10, <1>11, <1>12, <1>13, <1>14, <1>15, <1>16, <1>17
     DEF e, o, p, q, x, f, v, n

\* The digit that is cut off is the last one, a zero.
LEMMA DigitCrosses ==
  ASSUME SInv, TInv, PInv, NEW m \in Samples, NEW lim \in Nat, Cut(m, lim),
         NEW h, Tracked(m, lim, h), Len(calls) = 1, Digit, place = lim
  PROVE  Onward(m, lim)
<1> DEFINE n == h[1].n
           f == FieldAt(Root, m, n + 1)
           v == ValueAt(Root, m, n + 1)
           p == Ends(Root, m, n)
           q == Ends(Root, m, n + 1)
           o == Offset(what, f)
           s == p + o
           x == Due(what, f, v)
           y == sov(x)
           L == Len(dAtA)
           no == f.no
<1>1. /\ n \in 0 .. Count(Root, m) - 1 /\ f \in Fields[Root] /\ v \in Values(f.kind)
      /\ Switches(now, f) /\ p \in Nat /\ Holds(Encoded(m), s, x) /\ x \in Words
      /\ y \in Nat /\ s \in Nat /\ digits \in 0 .. y - 1 /\ digits \in 0 .. MaxDigits - 1
      /\ place = s + digits /\ acc = x % Power[digits] /\ p + o + y <= q /\ q \in Nat
      /\ no # 18 => q < L
      /\ no >= 17 => Kept(manifest, m)
  BY RootBusy
<1>2. /\ acc' = acc /\ pc' = "use" /\ Len(calls)' = 1 /\ place' = place + 1
      /\ manifest' = manifest /\ verdict' = "run"
      /\ UNCHANGED <<dAtA, what, preIndex, field, depth>>
  <2>1. lim <= place
    OBVIOUS
  <2> QED
    BY <2>1, ZeroDigit
<1>3. /\ Len(dAtA) \in Nat /\ place \in Nat /\ acc \in Nat /\ preIndex \in Nat
      /\ top.iNdEx = place
  BY AloneFacts
<1>4. place + 1 <= q /\ s + y <= q /\ lim <= place + 1
  <2> HIDE DEF s, y, q
  <2>1. s + y <= q
    BY <1>1 DEF s
  <2> QED
    BY <1>1, <1>3, <2>1
<1>5. /\ f.kind = "bytes" <=> no = 18
      /\ no = 16 => Tag(f) = 128
      /\ no = 17 => Tag(f) = 138
      /\ no = 18 => Tag(f) = 146
      /\ no <= 16 => Tag(f) \in 8 .. 133
      /\ no \in 3 .. 18 /\ f.kind # "fixed32"
  BY <1>1, RootTable
<1>6. CASE what = "tag"
  <2>1. x = Tag(f) /\ o = 0 /\ s = p
    <3>1. x = Tag(f) /\ o = 0
      BY <1>6 DEF Due, Offset
    <3> HIDE DEF p, o
    <3> QED
      BY <1>1, <3>1
  <2>2. CASE digits = 0
    <3>1. acc = 0
      <4>1. x \in Nat /\ Power[0] = 1 /\ \A z \in Nat : z % 1 = 0
        <5>1. x \in Nat /\ Power[0] = 1
          BY <1>1, Powers, WordFacts
        <5>2. \A z \in Nat : z % 1 = 0
          OBVIOUS
        <5> QED
          BY <5>1, <5>2
      <4>2. acc = x % Power[0]
        BY <1>1, <2>2
      <4> HIDE DEF x
      <4> QED
        BY <4>1, <4>2
    <3>2. ZeroTag'
      BY <1>2, <1>6, <3>1 DEF ZeroTag, Alone
    <3> QED
      BY <1>2, <3>2 DEF Onward, Past
  <2>3. CASE digits # 0
    <3>1. digits = 1 /\ Tag(f) \in {128, 138, 146} /\ (Tag(f) # 128 => no >= 17)
      <4> DEFINE b == Tag(f)
      <4>1. y \in 1 .. 2 /\ Root \in Written
        BY <1>1, <2>1, TagIs, WrittenTypes DEF Root
      <4>2. digits = 1 /\ y = 2
        <5> HIDE DEF y
        <5> QED
          BY <1>1, <2>3, <4>1
      <4>3. ~(b \in 0 .. 127)
        BY <2>1, <4>2, SmallVarint
      <4>4. no <= 15 => b \in 8 .. 127
        <5>1. f.kind \in Flat \union {"bytes"} \union Written /\ WireOf(f) \in {0, 2, 5}
          BY <1>1, <4>1, TagIs
        <5> DEFINE k == WireOf(f)
        <5>2. b = 8 * no + k /\ k \in {0, 2, 5}
          BY <5>1 DEF Tag
        <5> HIDE DEF b, no, k
        <5> QED
          BY <1>5, <5>2
      <4>5. /\ no = 16 => b = 128
            /\ no = 17 => b = 138
            /\ no = 18 => b = 146
            /\ no \in 3 .. 18
        BY <1>5
      <4>6. no \in {16, 17, 18}
        <5>1. ~(no <= 15)
          <6>1. no <= 15 => b \in 0 .. 127
            <7> HIDE DEF b, no
            <7> QED
              BY <4>4
          <6> QED
            BY <4>3, <6>1
        <5> HIDE DEF b, no
        <5> QED
          BY <4>5, <5>1
      <4> HIDE DEF b, no
      <4>7. b \in {128, 138, 146} /\ (b # 128 => no >= 17)
        BY <4>5, <4>6
      <4> QED
        BY <4>2, <4>7 DEF b
    <3>2. acc = Tag(f) % 128
      <4>1. Power[1] = 128
        BY Powers, Sizes
      <4> QED
        BY <1>1, <2>1, <3>1, <4>1
    <3>3. CASE Tag(f) = 128
      <4>1. acc = 0
        BY <3>2, <3>3
      <4>2. ZeroTag'
        BY <1>2, <1>6, <4>1 DEF ZeroTag, Alone
      <4> QED
        BY <1>2, <4>2 DEF Onward, Past
    <3>4. CASE Tag(f) # 128
      <4>1. acc \in {10, 18} /\ Tag(f) \in {138, 146}
        <5>1. 138 % 128 = 10 /\ 146 % 128 = 18
          OBVIOUS
        <5> QED
          BY <3>1, <3>2, <3>4, <5>1
      <4>2. lim = preIndex + 1
        BY <1>3, <1>6, <3>1 DEF PInv, Preceded
      <4>3. IsTail(lim)
        <5> DEFINE b == Tag(f)
        <5>1. dAtA[lim] = Encoded(m)[lim]
          <6>1. lim \in 1 .. Len(dAtA) /\ lim <= lim
            BY DEF Cut
          <6> QED
            BY <6>1 DEF Cut
        <5>2. lim = s + 1 /\ 1 \in 1 .. y
          <6> HIDE DEF s, y
          <6> QED
            BY <1>1, <3>1
        <5>3. Encoded(m)[s + 1] = encodeVarint(x)[1]
          BY <1>1, <5>2 DEF Holds
        <5>4. encodeVarint(b)[1] = b
          <6>1. b \in 0 .. 255
            <7> HIDE DEF b
            <7> QED
              BY <4>1 DEF b
          <6> QED
            BY <6>1, FirstDigit
        <5> QED
          BY <2>1, <4>1, <5>1, <5>2, <5>3, <5>4 DEF IsTail
      <4>4. Kept(manifest, m)
        BY <1>1, <3>1, <3>4
      <4>5. CutTag(m, lim)'
        BY <1>2, <1>6, <4>1, <4>2, <4>3, <4>4 DEF CutTag, Alone, IsTail, Kept
      <4> QED
        BY <1>2, <4>5 DEF Onward, Past
    <3> QED
      BY <3>3, <3>4
  <2> QED
    BY <2>2, <2>3
<1>7. CASE what = "value"
  <2>1. f.kind # "bytes"
    <3>1. f.kind \in Varied
      BY <1>1, <1>7 DEF Switches, now
    <3> QED
      BY <3>1 DEF Varied
  <2>2. place + 1 < Len(dAtA)
    <3>1. q < L
      BY <1>1, <1>5, <2>1
    <3> HIDE DEF q
    <3> QED
      BY <1>1, <1>3, <1>4, <3>1
  <2>3. CutValue(lim)'
    BY <1>2, <1>4, <1>7, <2>2 DEF CutValue, Alone
  <2> QED
    BY <1>2, <2>3 DEF Onward, Past
<1>8. CASE what = "length"
  <2>1. field = f /\ f.kind \notin Flat
    BY <1>1, <1>8 DEF Switches, now
  <2>2. CASE f.kind = "bytes"
    <3>1. Kept(manifest, m)
      <4>1. no >= 17
        <5>1. no = 18
          BY <1>5, <2>2
        <5> HIDE DEF no
        <5> QED
          BY <5>1
      <4> QED
        BY <1>1, <4>1
    <3>2. CutLength(m, lim)'
      BY <1>2, <1>4, <1>8, <2>1, <2>2, <3>1 DEF CutLength, Alone, Kept
    <3> QED
      BY <1>2, <3>2 DEF Onward, Past
  <2>3. CASE f.kind # "bytes"
    <3> DEFINE b == Body(f.kind, v)
               e == Item(f, v)
               t == sov(Tag(f))
    <3>1. x = uint64(Len(b)) /\ o = t
      BY <1>8 DEF Due, Offset
    <3>2. Root \in Written
      BY WrittenTypes DEF Root
    <3>3. /\ Len(e) = t + sov(x) + Len(b) /\ t \in 1 .. 2 /\ Len(b) \in Nat
      <4> HIDE DEF f, v, x, b, e
      <4>1. Len(e) = t + sov(uint64(Len(b))) + Len(b)
        BY <1>1, <2>1, <3>2, BodyShape DEF b, e
      <4>2. t \in 1 .. 2
        BY <1>1, <3>2, TagIs
      <4>3. b \in Seq(Bytes)
        BY <1>1, <2>1, <3>2, BodyTyped DEF b
      <4> QED
        BY <3>1, <4>1, <4>2, <4>3
    <3>4. q = p + Len(e)
      <4>1. m \in Messages(Root)
        BY RootFacts
      <4> QED
        BY <1>1, <3>2, <4>1, EndsStep
    <3>5. x \in Nat /\ x <= Len(b)
      <4> DEFINE z == Len(b)
      <4>1. x = z % Word /\ z \in Nat /\ Word \in Nat \ {0}
        BY <3>1, <3>3, Sizes, WordFacts DEF uint64
      <4> HIDE DEF x, z
      <4>2. x \in Nat /\ x <= z
        BY <4>1
      <4> QED
        BY <4>2 DEF z
    <3>6. acc <= x
      <4>1. Power[digits] \in Nat \ {0}
        <5>1. digits \in 0 .. MaxDigits
          BY <1>1, Sizes
        <5> QED
          BY <5>1, Powers
      <4> DEFINE z == Power[digits]
      <4> HIDE DEF x, z
      <4>2. acc = x % z /\ z \in Nat \ {0} /\ x \in Nat
        BY <1>1, <3>5, <4>1 DEF z
      <4>3. x % z <= x
        <5>1. x < z => x % z = x
          BY <4>2
        <5>2. x % z \in 0 .. z - 1
          BY <4>2
        <5> DEFINE r == x % z
        <5>3. x \in Nat /\ z \in Nat /\ r \in 0 .. z - 1 /\ (x < z => r = x)
          BY <4>2, <5>1, <5>2
        <5> HIDE DEF r
        <5>4. r <= x
          BY <5>3
        <5> QED
          BY <5>4 DEF r
      <4> QED
        BY <4>2, <4>3
    <3>7. q < L
      BY <1>1, <1>5, <2>3
    <3>8. (place + 1) + acc < Len(dAtA)
      <4> DEFINE z == Len(b)
      <4>1. /\ q = p + (t + y + z) /\ s = p + t /\ place = s + digits
            /\ acc <= x /\ x <= z /\ x \in Nat /\ z \in Nat /\ t \in Nat /\ y \in Nat
            /\ digits \in 0 .. y - 1 /\ p \in Nat /\ q < L /\ L \in Nat /\ acc \in Nat
        <5> HIDE DEF q, p, t, y, s, x
        <5>1. s = p + t
          BY <3>1 DEF s
        <5>2. y \in Nat /\ t \in Nat /\ sov(x) = y
          BY <1>1, <3>3 DEF y
        <5>3. q = p + (t + y + z)
          BY <3>3, <3>4, <5>2
        <5> QED
          BY <1>1, <1>3, <3>3, <3>5, <3>6, <3>7, <5>1, <5>2, <5>3
      <4> HIDE DEF q, p, t, y, z, s, x, L
      <4>2. (place + 1) + acc < L
        BY <4>1
      <4> QED
        BY <4>2 DEF L
    <3>9. CutLength(m, lim)'
      BY <1>2, <1>4, <1>8, <2>1, <2>3, <3>8 DEF CutLength, Alone
    <3> QED
      BY <1>2, <3>9 DEF Onward, Past
  <2> QED
    BY <2>2, <2>3
<1> QED
  BY <1>1, <1>6, <1>7, <1>8 DEF Switches, now

\* What a length leads over, in the first call.
LEMMA RootLength ==
  ASSUME SInv, TInv, PInv, NEW m \in Samples, NEW lim \in Nat, Cut(m, lim),
         NEW h, Tracked(m, lim, h), Len(calls) = 1, pc = "use", what = "length"
  PROVE  /\ postIndex \in Nat /\ field \in Fields[Root]
         /\ field.kind # "bytes" => postIndex < Len(dAtA)
         /\ field.kind = "bytes" => Kept(manifest, m)
<1> DEFINE n == h[1].n
           f == FieldAt(Root, m, n + 1)
           q == Ends(Root, m, n + 1)
<1>1. top = calls[1] /\ top.type = Root /\ manifest = top.m
  BY AloneFacts
<1>2. /\ Root \in Written /\ m \in Messages(Root) /\ Code(Root, m) = Encoded(m)
      /\ Len(dAtA) = Len(Encoded(m)) /\ Count(Root, m) \in Nat
  BY RootFacts, CodeFacts DEF Cut
<1>3. h[1].g = m /\ h[Len(calls)] = h[1]
  BY DEF Tracked, Follows
<1>4. n \in 0 .. Count(Root, m) - 1 /\ f \in Fields[Root]
  BY <1>1, <1>3, UseFacts
<1>5. field = f /\ postIndex = q /\ postIndex \in Nat
  BY <1>1, <1>3, LengthRead
<1>6. /\ n + 1 \in 0 .. Count(Root, m)
      /\ f.no # 18 => n + 1 < Count(Root, m)
      /\ f.no >= 17 => Kept(Made(Root, m, n), m)
  BY <1>2, <1>4, RootOrder
<1>7. f.kind = "bytes" <=> f.no = 18
  BY <1>4, RootTable
<1>8. f.no # 18 => q < Len(dAtA)
  BY <1>2, <1>6, EndsBefore
<1>9. manifest = Made(Root, m, n)
  BY <1>1, <1>3, TopTracked DEF Through
<1>10. f.no = 18 => f.no >= 17
  OBVIOUS
<1> QED
  BY <1>4, <1>5, <1>6, <1>7, <1>8, <1>9, <1>10

\* The bytes that are cut off are those of the last field.
LEMMA BytesCross ==
  ASSUME SInv, TInv, PInv, NEW m \in Samples, NEW lim \in Nat, Cut(m, lim),
         NEW h, Tracked(m, lim, h), Len(calls) = 1, BytesField, lim <= postIndex
  PROVE  Onward(m, lim)
<1>1. /\ pc = "use" /\ what = "length" /\ verdict = "run" /\ field.kind = "bytes"
      /\ Loop(postIndex) /\ \E v : calls' = Stored(field, v, postIndex)
  BY DEF BytesField, Running
<1>2. field \in Fields[Root] /\ Kept(manifest, m)
  BY <1>1, RootLength
<1>3. field.name = "SecurityPatchLevel"
  BY <1>1, <1>2, RootTable
<1>4. PICK v : calls' = Stored(field, v, postIndex)
  BY <1>1
<1>5. Len(calls)' = 1 /\ place' = postIndex /\ manifest' = Put(manifest, field, v)
  BY <1>4, StoredIs DEF place, manifest
<1>6. Kept(manifest, m)'
  BY <1>2, <1>3, <1>5, KeptPut DEF Kept
<1>7. /\ what' = "tag" /\ pc' = "read" /\ digits' = 0 /\ acc' = 0 /\ verdict' = "run"
  BY <1>1 DEF Loop, Read
<1> QED
  BY <1>5, <1>6, <1>7 DEF Onward, Past, Between, Alone

\* A message that is cut off is not at the end.
LEMMA MessageCross ==
  ASSUME SInv, TInv, PInv, NEW m \in Samples, NEW lim \in Nat, Cut(m, lim),
         NEW h, Tracked(m, lim, h), Len(calls) = 1, MessageField, lim <= postIndex
  PROVE  Onward(m, lim)
<1>1. /\ pc = "use" /\ what = "length" /\ verdict = "run" /\ field.kind # "bytes"
      /\ Loop(0) /\ \E d : calls' = Append(Seek(postIndex), d)
  BY DEF MessageField, Running
<1>2. postIndex < Len(dAtA) /\ dAtA' = dAtA /\ verdict' = "run"
  BY <1>1, RootLength DEF Loop
<1>3. Len(calls)' = 2 /\ place' = postIndex
  BY <1>1, SeekIs DEF place
<1> QED
  BY <1>2, <1>3 DEF Onward, Past, InMessage

-----------------------------------------------------------------------------
(* Up to the zeros the decoder follows what was written.                   *)

Short(m, lim) ==
  /\ verdict = "run" =>
       Past(m, lim) \/ (place <= lim /\ \E h : Tracked(m, lim, h))
  /\ verdict = "ok" => Kept(manifest, m)

QInv == \A m \in Samples : \A lim \in Nat : Cut(m, lim) => Short(m, lim)

\* Where the first call goes on.
LEMMA FirstGoes ==
  ASSUME SInv, TInv, PInv, NEW m \in Samples, NEW lim \in Nat, Cut(m, lim),
         NEW h, Tracked(m, lim, h), Next, Len(calls) = 1
  PROVE  /\ ~Fixed32Field
         /\ place' \in {place} \/ Digit \/ BytesField \/ MessageField
         /\ Digit => place' = place + 1
         /\ BytesField \/ MessageField => place' = postIndex
<1>1. /\ top = calls[1] /\ top.type = Root /\ place = top.iNdEx /\ place \in Nat
      /\ what \in {"tag", "value", "length"}
  BY AloneFacts, TopBounds
<1>2. ~(SkipTag \/ SkipValue \/ SkipLength \/ RejectTag \/ UnknownField)
  BY <1>1, NoRejectTag DEF SkipTag, SkipValue, SkipLength, Running
<1>3. ~Fixed32Field
  <2> SUFFICES ASSUME Fixed32Field PROVE FALSE
    OBVIOUS
  <2>1. FieldOf.kind = "fixed32" /\ Known
    BY DEF Fixed32Field
  <2>2. FieldOf \in Fields[Root]
    BY <1>1, <2>1 DEF Known, FieldOf
  <2> QED
    BY <2>1, <2>2, RootTable
<1>4. CASE Digit
  <2>1. calls' = Seek(place + 1)
    BY <1>1, <1>4 DEF Digit
  <2>2. place' = place + 1
    BY <2>1, SeekIs DEF place
  <2>3. ~BytesField /\ ~MessageField
    BY <1>4 DEF Digit, BytesField, MessageField, Running
  <2> QED
    BY <1>3, <1>4, <2>2, <2>3
<1>5. CASE BytesField
  <2>1. \E v : calls' = Stored(field, v, postIndex)
    BY <1>5 DEF BytesField
  <2>2. place' = postIndex
    BY <2>1, StoredIs DEF place
  <2>3. ~Digit
    BY <1>5 DEF Digit, BytesField, Running
  <2> QED
    BY <1>3, <1>5, <2>2, <2>3
<1>6. CASE MessageField
  <2>1. \E d : calls' = Append(Seek(postIndex), d)
    BY <1>6 DEF MessageField
  <2>2. place' = postIndex
    BY <2>1, SeekIs DEF place
  <2>3. ~Digit
    BY <1>6 DEF Digit, MessageField, Running
  <2> QED
    BY <1>3, <1>6, <2>2, <2>3
<1>7. CASE Value
  <2>1. calls' = Stored(field, Converted(field.kind), place)
    BY <1>1, <1>7 DEF Value
  <2>2. place' = place
    BY <2>1, StoredIs DEF place
  <2>3. ~Digit /\ ~BytesField /\ ~MessageField
    BY <1>7 DEF Digit, Value, BytesField, MessageField, Running
  <2> QED
    BY <1>3, <2>2, <2>3
<1>8. CASE /\ ~Digit /\ ~BytesField /\ ~MessageField
           /\ BadVarint \/ KnownField \/ BadLength \/ Incomplete \/ Return
  <2>1. calls' = calls
    BY <1>8 DEF BadVarint, KnownField, BadLength, Incomplete, Return, Fail
  <2> QED
    BY <1>3, <1>8, <2>1 DEF place
<1>9. ~ReturnToCaller
  BY DEF ReturnToCaller
<1> QED
  BY <1>2, <1>3, <1>4, <1>5, <1>6, <1>7, <1>8, <1>9 DEF Next

\* A manifest that is read to the end is the one that was written.
LEMMA WholeKept ==
  ASSUME NEW m \in Samples, NEW n \in 0 .. Count(Root, m),
         Len(Encoded(m)) = Ends(Root, m, n)
  PROVE  Kept(Made(Root, m, n), m)
<1>1. /\ Root \in Written /\ m \in Messages(Root) /\ Code(Root, m) = Encoded(m)
      /\ Count(Root, m) \in Nat /\ Len(Encoded(m)) \in Nat
  BY RootFacts, CodeFacts
<1>2. n = Count(Root, m)
  <2> DEFINE y == Ends(Root, m, n)
             z == Len(Code(Root, m))
             c == Count(Root, m)
  <2>1. (n < c <=> y < z) /\ y = z /\ z \in Nat
    BY <1>1, EndsBefore
  <2>2. c \in Nat /\ n \in 0 .. c
    BY <1>1
  <2> HIDE DEF y, z, c
  <2>3. n = c
    BY <2>1, <2>2
  <2> QED
    BY <2>3 DEF c
<1>3. Made(Root, m, n) = m
  BY <1>1, <1>2, Ways
<1> QED
  BY <1>3 DEF Kept

\* A step that reads what was written goes on with it.
LEMMA NearShort ==
  ASSUME SInv, TInv, NEW m \in Samples, NEW lim \in Nat, Cut(m, lim),
         NEW h, Tracked(m, lim, h), Next, Near(lim), place' <= lim
  PROVE  Short(m, lim)'
<1>1. verdict = "run" /\ dAtA' = dAtA
  BY DataStays
<1>2. Exact(m, lim)
  BY <1>1 DEF Exact
<1>3. Exact(m, lim)'
  BY <1>2, NextExact
<1>4. ASSUME verdict' = "ok" PROVE Kept(manifest, m)'
  <2>1. PICK n \in 0 .. Count(Root, m) :
          Len(dAtA') = Ends(Root, m, n) /\ manifest' = Made(Root, m, n)
    BY <1>3, <1>4 DEF Exact
  <2>2. Kept(Made(Root, m, n), m)
    BY <1>1, <2>1, WholeKept DEF Cut
  <2> QED
    BY <2>1, <2>2 DEF Kept
<1>5. verdict' = "run" => \E i : Tracked(m, lim, i)'
  BY <1>3 DEF Exact
<1> QED
  BY <1>4, <1>5 DEF Short

\* Within a message that was read as a whole.
LEMMA InnerShort ==
  ASSUME SInv, TInv, PInv, NEW m \in Samples, NEW lim \in Nat, Cut(m, lim),
         NEW h, Tracked(m, lim, h), Next, place <= lim, Len(calls) > 1
  PROVE  Short(m, lim)'
<1>1. /\ top.base \in Nat /\ top.l \in Nat /\ top.iNdEx \in Nat
      /\ top.base + top.l <= place
  BY TopBounds, Inner DEF place
<1>2. place \in Nat
  <2>1. Len(calls) \in Nat \ {0} /\ DOMAIN calls = 1 .. Len(calls)
    BY TopCall
  <2>2. 1 \in DOMAIN calls
    BY <2>1
  <2> QED
    BY <2>2 DEF SInv, Nested, IsCall, place
<1>3. ASSUME Digit PROVE top.base + top.iNdEx + 1 <= lim
  <2>1. top.iNdEx < top.l
    BY <1>3 DEF Digit
  <2> QED
    BY <1>1, <1>2, <2>1
<1>4. ASSUME top.iNdEx + 4 <= top.l PROVE top.base + top.iNdEx + 4 <= lim
  BY <1>1, <1>2, <1>4
<1>5. ASSUME BytesField PROVE top.base + postIndex <= lim
  <2>1. pc = "use" /\ what = "length" /\ postIndex <= top.l
    BY <1>5 DEF BytesField, Running, GoodLength
  <2>2. postIndex \in Nat
    BY <2>1, LengthRead
  <2> QED
    BY <1>1, <1>2, <2>1, <2>2
<1>6. Near(lim)
  BY <1>3, <1>4, <1>5 DEF Near
<1>7. place' = place
  BY FirstStays DEF place
<1>8. place' <= lim
  BY <1>7
<1> QED
  BY <1>6, <1>8, NearShort

\* Between two fields, or in one.
LEMMA OuterShort ==
  ASSUME SInv, TInv, PInv, NEW m \in Samples, NEW lim \in Nat, Cut(m, lim),
         NEW h, Tracked(m, lim, h), Next, place <= lim, Len(calls) = 1
  PROVE  Short(m, lim)'
<1>1. Onward(m, lim) => Short(m, lim)'
  BY DEF Onward, Short
<1>2. top.base = 0 /\ place = top.iNdEx /\ place \in Nat
  BY AloneFacts
<1>3. /\ ~Fixed32Field
      /\ place' \in {place} \/ Digit \/ BytesField \/ MessageField
      /\ Digit => place' = place + 1
      /\ BytesField \/ MessageField => place' = postIndex
  BY FirstGoes
<1>4. CASE Digit /\ place = lim
  BY <1>1, <1>4, DigitCrosses
<1>5. BytesField \/ MessageField => postIndex \in Nat
  BY RootLength DEF BytesField, MessageField, Running
<1>6. CASE BytesField /\ lim <= postIndex
  BY <1>1, <1>6, BytesCross
<1>7. CASE MessageField /\ lim <= postIndex
  BY <1>1, <1>7, MessageCross
<1>8. CASE /\ Digit => place # lim
           /\ BytesField \/ MessageField => ~(lim <= postIndex)
  <2>1. Digit => place + 1 <= lim
    BY <1>2, <1>8
  <2>2. BytesField \/ MessageField => postIndex <= lim
    BY <1>5, <1>8
  <2>3. place' <= lim
    BY <1>3, <2>1, <2>2
  <2>4. Digit => top.base + top.iNdEx + 1 <= lim
    BY <1>2, <2>1
  <2>5. BytesField => top.base + postIndex <= lim
    BY <1>2, <1>5, <2>2
  <2>6. Near(lim)
    BY <1>3, <2>4, <2>5 DEF Near
  <2> QED
    BY <2>3, <2>6, NearShort
<1> QED
  BY <1>4, <1>6, <1>7, <1>8

LEMMA NextShort ==
  ASSUME SInv, TInv, PInv, NEW m \in Samples, NEW lim \in Nat, Cut(m, lim),
         Short(m, lim), [Next]_vars
  PROVE  Short(m, lim)'
<1>1. CASE UNCHANGED vars
  BY <1>1 DEF vars, Short, Past, InMessage, Between, ZeroTag, CutValue, CutLength, CutTag,
       SkipsTag, SkipsLength, Alone, IsTail, Kept, manifest, place, Tracked, Placed, Idle,
       Busy, Switches, Reading, now, top
<1>2. CASE Next
  <2>1. verdict = "run"
    BY <1>2, DataStays
  <2>2. CASE Past(m, lim)
    <3>1. Onward(m, lim)
      BY <1>2, <2>2, PastOnward
    <3> QED
      BY <3>1 DEF Onward, Short
  <2>3. CASE ~Past(m, lim)
    <3>1. place <= lim /\ \E h : Tracked(m, lim, h)
      BY <2>1, <2>3 DEF Short
    <3>2. PICK h : Tracked(m, lim, h)
      BY <3>1
    <3>3. CASE Len(calls) > 1
      BY <1>2, <3>1, <3>2, <3>3, InnerShort
    <3>4. CASE ~(Len(calls) > 1)
      <4>1. Len(calls) = 1
        <5> DEFINE n == Len(calls)
        <5>1. n \in Nat \ {0} /\ ~(n > 1)
          BY <3>4, TopCall
        <5> HIDE DEF n
        <5>2. n = 1
          BY <5>1
        <5> QED
          BY <5>2 DEF n
      <4> QED
        BY <1>2, <3>1, <3>2, <4>1, OuterShort
    <3> QED
      BY <3>3, <3>4
  <2> QED
    BY <2>2, <2>3
<1> QED
  BY <1>1, <1>2

LEMMA NextQInv == SInv /\ TInv /\ PInv /\ QInv /\ [Next]_vars => QInv'
<1> SUFFICES ASSUME SInv, TInv, PInv, QInv, [Next]_vars,
                    NEW m \in Samples, NEW lim \in Nat, Cut(m, lim)'
             PROVE  Short(m, lim)'
  BY DEF QInv
<1>1. dAtA' = dAtA
  BY DataStays DEF vars
<1>2. Cut(m, lim)
  BY <1>1 DEF Cut
<1> QED
  BY <1>2, NextShort DEF QInv

\* At the beginning nothing is read.
LEMMA InitQInv == Init => QInv
<1> SUFFICES ASSUME Init, NEW m \in Samples, NEW lim \in Nat, Cut(m, lim)
             PROVE  Short(m, lim)
  BY DEF QInv
<1> DEFINE e == Encoded(m)
           c == Call(Root, 0, Len(dAtA), NoField, New(Root))
           w == [g |-> m, n |-> 0]
           h == << w >>
<1>1. /\ Root \in Written /\ m \in Messages(Root) /\ Code(Root, m) = e
  BY RootFacts
<1>2. Len(e) \in Nat /\ Count(Root, m) \in Nat
  BY <1>1, CodeFacts
<1> HIDE DEF e
<1>3. Len(dAtA) = Len(e) /\ \A j \in 1 .. Len(dAtA) : j <= lim => dAtA[j] = e[j]
  BY DEF Cut, e
<1>5. /\ calls = << c >> /\ pc = "read" /\ what = "tag" /\ digits = 0 /\ weight = 1
      /\ acc = 0 /\ verdict = "run"
  BY DEF Init, Root
<1>6. /\ c.type = Root /\ c.base = 0 /\ c.l = Len(dAtA) /\ c.iNdEx = 0 /\ c.m = New(Root)
      /\ w.g = m /\ w.n = 0
  BY DEF Call
<1> HIDE DEF c, w
<1>7. Carries(dAtA, lim, c, w)
  <2>1. \A j \in 1 .. Len(dAtA) : 0 + j <= lim => dAtA[0 + j] = e[j]
    <3>1. \A j \in 1 .. Len(dAtA) : 0 + j = j
      BY <1>2, <1>3
    <3> QED
      BY <1>3, <3>1
  <2>2. Len(dAtA) <= Len(e)
    BY <1>2, <1>3
  <2> QED
    BY <1>1, <1>6, <2>1, <2>2 DEF Carries
<1>8. Through(c, w)
  <2>1. New(Root) = Made(Root, m, 0)
    BY <1>1, Ways
  <2>2. 0 \in 0 .. Count(Root, m) /\ 1 .. 0 = {}
    BY <1>2
  <2> QED
    BY <1>6, <2>1, <2>2 DEF Through
<1>9. Placed(c, w, now)
  <2>1. c.iNdEx = Ends(Root, m, 0)
    BY <1>1, <1>6, EndsFacts
  <2> QED
    BY <1>5, <1>6, <2>1 DEF Placed, Idle, now
<1>10. /\ DOMAIN calls = {1} /\ calls[1] = c /\ Len(calls) = 1 /\ top = c /\ h[1] = w
  BY <1>5 DEF top, Last
<1> HIDE DEF h
<1>11. Follows(dAtA, lim, calls, h, m)
  BY <1>6, <1>7, <1>8, <1>10 DEF Follows, Root
<1>12. Tracked(m, lim, h)
  BY <1>9, <1>10, <1>11 DEF Tracked
<1>13. place <= lim
  BY <1>6, <1>10 DEF place
<1> QED
  BY <1>5, <1>12, <1>13 DEF Short

\* A manifest that Read has read in part, zeros in the place of the rest, is
\* rejected, or what ExtractBootFromPayload uses of it is there, wherever the
\* reading stopped: it does not look at the count that Read returns.
THEOREM ShortReadsAccounted == Spec => []ShortReadsAreHarmless
<1>1. QInv => ShortReadsAreHarmless
  <2> SUFFICES ASSUME QInv, verdict = "ok", NEW m \in Samples,
                      Len(dAtA) = Len(Encoded(m)),
                      NEW k \in DOMAIN Encoded(m),
                      \A i \in DOMAIN Encoded(m) :
                        dAtA[i] = IF i <= k THEN Encoded(m)[i] ELSE 0
               PROVE  Kept(manifest, m)
    BY DEF ShortReadsAreHarmless, Decoded, Kept
  <2>1. DOMAIN Encoded(m) = 1 .. Len(Encoded(m)) /\ Len(Encoded(m)) \in Nat
    BY RootFacts, CodeFacts
  <2>2. Cut(m, k) /\ k \in Nat
    BY <2>1 DEF Cut
  <2> QED
    BY <2>2 DEF QInv, Short
<1> QED
  BY <1>1, InitSInv, NextSInv, InitTInv, NextTInv, InitPInv, NextPInv, InitQInv, NextQInv,
     PTL DEF Spec
=============================================================================
