--------------------------- MODULE ManifestProofs ---------------------------
(***************************************************************************)
(* What the decoder does with every sequence of bytes.  It never indexes   *)
(* outside of the slice it is in: here the message that a call makes plays *)
(* no part, the invariant is about the call's index and its limits.  And   *)
(* it makes only messages of the declared types: the values that the calls *)
(* store and return have the types that the tables of fields declare.      *)
(***************************************************************************)
EXTENDS Manifest, TLAPS

\* The parts of a call that are numbers.
Numbers == {"base", "l", "iNdEx"}

IsCall(c) ==
  /\ Numbers \subseteq DOMAIN c
  /\ c.base \in Nat /\ c.l \in Nat /\ c.iNdEx \in Nat

IsStack(s) == s # <<>> /\ \E S : s \in Seq(S)

\* A call's slice lies in its caller's, and ends where its caller goes on.
Nested(s, n) ==
  \A k \in DOMAIN s :
    /\ IsCall(s[k]) /\ s[k].base + s[k].l <= n
    /\ k > 1 => s[k].base + s[k].l = s[k-1].base + s[k-1].iNdEx
    /\ k < Len(s) => s[k].iNdEx <= s[k].l

Varints ==
  /\ dAtA \in Strings /\ Len(dAtA) <= Word \div 2 - 1
  /\ acc \in Words /\ weight \in Nat /\ depth \in Nat /\ preIndex \in Nat

Indices ==
  /\ what \notin {"skipTag", "skipValue", "skipLength"} => depth = 0
  /\ depth = 0 => top.iNdEx <= top.l
  /\ preIndex <= top.l

SInv == Varints /\ IsStack(calls) /\ Nested(calls, Len(dAtA)) /\ Indices

-----------------------------------------------------------------------------
\* Numbers of a word.
LEMMA WordFacts ==
  /\ Word \in Nat \ {0} /\ Word \div 2 \in Nat \ {0}
  /\ 2 * (Word \div 2) = Word /\ 8 < Word \div 2 /\ Base \in Nat \ {0}
  /\ Words \subseteq Nat /\ 0 \in Words /\ \A x \in Nat : x % Word \in Words
BY WidthAssumption DEF Words

LEMMA SignedTyped ==
  \A x \in Int : Signed(x) \in Int /\ Signed(x % Word) \in Int
<1>1. \A x \in Int : x % Word \in Int
  BY WordFacts
<1> QED
  BY <1>1, WordFacts DEF Signed

LEMMA PlusTyped ==
  \A x, y \in Int : Plus(x, y) \in Int
BY SignedTyped DEF Plus

\* The sum of two ints that are not negative is below both if it wraps, and
\* negative.
LEMMA PlusForward ==
  ASSUME NEW a \in Nat, NEW n \in Nat, a < Word \div 2, n < Word \div 2, Plus(a, n) >= 0
  PROVE  Plus(a, n) = a + n /\ Plus(a, n) < Word \div 2
<1> DEFINE h == Word \div 2
<1>1. /\ h \in Nat \ {0} /\ 2 * h = Word /\ a < h /\ n < h
  BY WordFacts
<1> HIDE DEF h
<1>2. (a + n) % Word = a + n
  <2>1. a + n \in Nat /\ a + n < Word /\ Word \in Nat \ {0}
    BY <1>1, WordFacts
  <2> QED
    BY <2>1
<1>3. Plus(a, n) = IF a + n >= h THEN a + n - Word ELSE a + n
  <2>1. Plus(a, n) = Signed(a + n)
    BY <1>2 DEF Plus
  <2> QED
    BY <2>1, WidthAssumption DEF Signed, h
<1>4. Plus(a, n) = a + n /\ Plus(a, n) < h
  BY <1>1, <1>3
<1> QED
  BY <1>4 DEF h

LEMMA PostIndexTyped ==
  ASSUME SInv PROVE length \in Int /\ postIndex \in Int /\ top.iNdEx \in Nat
<1>1. top.iNdEx \in Nat
  <2>1. Len(calls) \in DOMAIN calls
    BY DEF SInv, IsStack
  <2> QED
    BY <2>1 DEF SInv, Nested, IsCall, top, Last
<1>2. length \in Int
  BY SignedTyped, WordFacts DEF SInv, Varints, length
<1>3. postIndex \in Int
  <2>1. top.iNdEx \in Int
    BY <1>1
  <2>2. Plus(top.iNdEx, length) \in Int
    BY <1>2, <2>1, PlusTyped, Zenon
  <2> QED
    BY <2>2 DEF postIndex
<1> QED
  BY <1>1, <1>2, <1>3

\* The top call is one.
LEMMA TopCall ==
  ASSUME SInv
  PROVE  /\ Len(calls) \in Nat \ {0} /\ DOMAIN calls = 1 .. Len(calls)
         /\ top = calls[Len(calls)] /\ IsCall(top)
         /\ top.base + top.l <= Len(dAtA)
<1>1. Len(calls) \in Nat \ {0} /\ DOMAIN calls = 1 .. Len(calls)
  BY DEF SInv, IsStack
<1> QED
  BY <1>1 DEF SInv, Nested, top, Last

\* The top call goes on with another index in its slice.
LEMMA TopMoves ==
  ASSUME SInv, NEW c, IsCall(c), c.base = top.base, c.l = top.l
  PROVE  LET s == [calls EXCEPT ![Len(calls)] = c] IN
         /\ IsStack(s) /\ Nested(s, Len(dAtA))
         /\ Len(s) = Len(calls) /\ Last(s) = c
<1> DEFINE s == [calls EXCEPT ![Len(calls)] = c]
<1>1. PICK S : calls \in Seq(S)
  BY DEF SInv, IsStack
<1>2. Len(calls) \in Nat \ {0} /\ DOMAIN calls = 1 .. Len(calls)
      /\ top = calls[Len(calls)]
  BY TopCall
<1>3. s \in Seq(S \union {c}) /\ Len(s) = Len(calls) /\ DOMAIN s = DOMAIN calls
  <2>1. s \in [1 .. Len(calls) -> S \union {c}]
    BY <1>1, <1>2
  <2> HIDE DEF s
  <2> QED
    BY <1>2, <2>1
<1>4. s[Len(calls)] = c /\ \A k \in 1 .. Len(calls) - 1 : s[k] = calls[k]
  <2>1. Len(calls) \in DOMAIN calls
    BY <1>2
  <2>2. s[Len(calls)] = c
    BY <2>1
  <2>3. \A k \in 1 .. Len(calls) - 1 : k \in DOMAIN calls /\ k # Len(calls)
    <3> DEFINE n == Len(calls)
    <3>1. n \in Nat \ {0} /\ DOMAIN calls = 1 .. n
      BY <1>2
    <3> HIDE DEF n
    <3>2. \A k \in 1 .. n - 1 : k \in DOMAIN calls /\ k # n
      BY <3>1
    <3> QED
      BY <3>2 DEF n
  <2> QED
    BY <2>2, <2>3
<1> HIDE DEF s
<1>5. IsStack(s)
  BY <1>2, <1>3 DEF IsStack
<1>6. ASSUME NEW k \in DOMAIN s
      PROVE  /\ IsCall(s[k]) /\ s[k].base + s[k].l <= Len(dAtA)
             /\ k > 1 => s[k].base + s[k].l = s[k-1].base + s[k-1].iNdEx
             /\ k < Len(s) => s[k].iNdEx <= s[k].l
  <2>1. /\ IsCall(calls[k]) /\ calls[k].base + calls[k].l <= Len(dAtA)
        /\ k > 1 => calls[k].base + calls[k].l = calls[k-1].base + calls[k-1].iNdEx
        /\ k < Len(calls) => calls[k].iNdEx <= calls[k].l
    BY <1>2, <1>3, <1>6 DEF SInv, Nested
  <2>2. k > 1 => s[k-1] = calls[k-1]
    BY <1>2, <1>3, <1>4, <1>6
  <2>3. CASE k = Len(calls)
    BY <1>2, <1>3, <1>4, <2>1, <2>2, <2>3
  <2>4. CASE k # Len(calls)
    <3>1. s[k] = calls[k]
      BY <1>2, <1>3, <1>4, <2>4
    <3> QED
      BY <1>3, <2>1, <2>2, <3>1
  <2> QED
    BY <2>3, <2>4
<1>7. Nested(s, Len(dAtA))
  BY <1>6 DEF Nested
<1> QED
  BY <1>3, <1>4, <1>5, <1>7 DEF s, Last

LEMMA SeekMoves ==
  ASSUME SInv, NEW i \in Nat
  PROVE  /\ IsStack(Seek(i)) /\ Nested(Seek(i), Len(dAtA))
         /\ Last(Seek(i)).iNdEx = i /\ Last(Seek(i)).l = top.l
         /\ Last(Seek(i)).base = top.base /\ Len(Seek(i)) = Len(calls)
<1> DEFINE c == [top EXCEPT !.iNdEx = i]
<1>1. IsCall(top) /\ top = calls[Len(calls)]
  BY TopCall
<1>2. IsCall(c) /\ c.base = top.base /\ c.l = top.l /\ c.iNdEx = i
  BY <1>1 DEF IsCall, Numbers
<1>3. Seek(i) = [calls EXCEPT ![Len(calls)] = c]
  BY <1>1 DEF Seek
<1> HIDE DEF c
<1> QED
  BY <1>2, <1>3, TopMoves

\* A field is stored and the call is at i.
LEMMA StoredMoves ==
  ASSUME SInv, NEW f, NEW v, NEW i \in Nat
  PROVE  LET s == Stored(f, v, i) IN
         /\ IsStack(s) /\ Nested(s, Len(dAtA))
         /\ Last(s).iNdEx = i /\ Last(s).l = top.l /\ Last(s).base = top.base
<1>1. IsCall(top) /\ top = calls[Len(calls)]
      /\ Len(calls) \in Nat \ {0} /\ DOMAIN calls = 1 .. Len(calls)
  BY TopCall
<1> DEFINE c == [[[top EXCEPT !.m = Put(top.m, f, v)]
                       EXCEPT !.got = top.got \union {f.name}]
                       EXCEPT !.iNdEx = i]
<1>2. IsCall(c) /\ c.base = top.base /\ c.l = top.l /\ c.iNdEx = i
  <2> DEFINE m == Put(top.m, f, v)
             g == top.got \union {f.name}
  <2> HIDE DEF m, g
  <2> QED
    BY <1>1 DEF IsCall, Numbers
<1>3. Stored(f, v, i) = [calls EXCEPT ![Len(calls)] = c]
  <2> DEFINE m == Put(top.m, f, v)
             g == top.got \union {f.name}
             n == Len(calls)
  <2>1. Stored(f, v, i) = [calls EXCEPT ![n].m = m, ![n].got = g, ![n].iNdEx = i]
    BY DEF Stored
  <2>2. n \in DOMAIN calls /\ top = calls[n]
    BY <1>1
  <2> HIDE DEF m, g, n
  <2>3. [calls EXCEPT ![n].m = m, ![n].got = g, ![n].iNdEx = i]
          = [calls EXCEPT ![n] = [[[calls[n] EXCEPT !.m = m] EXCEPT !.got = g]
                                             EXCEPT !.iNdEx = i]]
    BY <2>2
  <2> QED
    BY <2>1, <2>2, <2>3 DEF m, g, n
<1> HIDE DEF c
<1> QED
  BY <1>2, <1>3, TopMoves

\* A call for a message of n bytes at the index of the top call, which goes on
\* behind it.
LEMMA CallNests ==
  ASSUME SInv, NEW c, NEW i \in Nat, i >= top.iNdEx, i <= top.l,
         IsCall(c), c.base = top.base + top.iNdEx, c.l = i - top.iNdEx, c.iNdEx = 0
  PROVE  LET s == Append(Seek(i), c) IN
         /\ IsStack(s) /\ Nested(s, Len(dAtA)) /\ Last(s) = c
<1> DEFINE t == Seek(i)
           s == Append(t, c)
<1>1. /\ IsStack(t) /\ Nested(t, Len(dAtA)) /\ Last(t).iNdEx = i
      /\ Last(t).l = top.l /\ Last(t).base = top.base
  BY SeekMoves
<1>2. IsCall(top) /\ top.base + top.l <= Len(dAtA)
  BY TopCall
<1> HIDE DEF t
<1>3. PICK S : t \in Seq(S)
  BY <1>1 DEF IsStack
<1>4. /\ s \in Seq(S \union {c}) /\ Len(s) = Len(t) + 1 /\ Len(t) \in Nat \ {0}
      /\ DOMAIN s = 1 .. Len(t) + 1 /\ DOMAIN t = 1 .. Len(t)
      /\ s[Len(t) + 1] = c /\ \A k \in 1 .. Len(t) : s[k] = t[k]
  <2>1. t \in Seq(S \union {c}) /\ Len(t) \in Nat \ {0}
    BY <1>1, <1>3 DEF IsStack
  <2> QED
    BY <2>1
<1> HIDE DEF s
<1>5. ASSUME NEW k \in DOMAIN s
      PROVE  /\ IsCall(s[k]) /\ s[k].base + s[k].l <= Len(dAtA)
             /\ k > 1 => s[k].base + s[k].l = s[k-1].base + s[k-1].iNdEx
             /\ k < Len(s) => s[k].iNdEx <= s[k].l
  <2>1. CASE k = Len(t) + 1
    <3>1. s[k] = c /\ s[k-1] = Last(t)
      BY <1>4, <2>1 DEF Last
    <3>2. c.base + c.l = top.base + i
      BY <1>2 DEF IsCall
    <3>3. c.base + c.l <= Len(dAtA)
      BY <1>2, <3>2 DEF IsCall, SInv, Varints, Strings
    <3> QED
      BY <1>1, <1>4, <2>1, <3>1, <3>2, <3>3
  <2>2. CASE k \in DOMAIN t
    <3>1. /\ IsCall(t[k]) /\ t[k].base + t[k].l <= Len(dAtA)
          /\ k > 1 => t[k].base + t[k].l = t[k-1].base + t[k-1].iNdEx
          /\ k < Len(t) => t[k].iNdEx <= t[k].l
      BY <1>1, <2>2 DEF Nested
    <3>2. s[k] = t[k] /\ (k > 1 => s[k-1] = t[k-1])
      BY <1>4, <2>2
    <3>3. k = Len(t) => t[k].iNdEx <= t[k].l
      BY <1>1 DEF Last
    <3> QED
      BY <1>4, <2>2, <3>1, <3>2, <3>3
  <2> QED
    BY <1>4, <1>5, <2>1, <2>2
<1>6. s # <<>> /\ Last(s) = c
  BY <1>4 DEF Last
<1> QED
  BY <1>4, <1>5, <1>6 DEF s, t, IsStack, Nested

\* The top call returns; its caller's message changes.
LEMMA ReturnNests ==
  ASSUME SInv, Len(calls) > 1, NEW v
  PROVE  LET n == Len(calls) - 1
             s == [Front(calls) EXCEPT ![n].m = v]
         IN  /\ IsStack(s) /\ Nested(s, Len(dAtA))
             /\ Last(s).iNdEx = calls[n].iNdEx /\ Last(s).l = calls[n].l
             /\ Last(s).base = calls[n].base /\ Len(s) = n
             /\ calls[n].iNdEx \in Nat /\ calls[n].iNdEx <= calls[n].l
<1> DEFINE n == Len(calls) - 1
           c == [calls[n] EXCEPT !.m = v]
           s == [Front(calls) EXCEPT ![n].m = v]
<1>1. PICK S : calls \in Seq(S)
  BY DEF SInv, IsStack
<1>2. n \in Nat \ {0} /\ Len(calls) = n + 1 /\ DOMAIN calls = 1 .. n + 1
  BY TopCall
<1>3. Front(calls) \in Seq(S) /\ Len(Front(calls)) = n
      /\ \A k \in 1 .. n : Front(calls)[k] = calls[k]
  BY <1>1, <1>2 DEF Front
<1>4. s = [Front(calls) EXCEPT ![n] = c]
  <2>1. n \in DOMAIN Front(calls) /\ Front(calls)[n] = calls[n]
    BY <1>2, <1>3
  <2> HIDE DEF n
  <2> QED
    BY <2>1
<1>5. /\ s \in Seq(S \union {c}) /\ Len(s) = n /\ DOMAIN s = 1 .. n
      /\ s[n] = c /\ \A k \in 1 .. n - 1 : s[k] = calls[k]
  <2>1. Front(calls) \in Seq(S \union {c}) /\ DOMAIN Front(calls) = 1 .. n
    BY <1>3
  <2> HIDE DEF c, s, n
  <2>2. s \in Seq(S \union {c}) /\ Len(s) = n
    BY <1>2, <1>3, <1>4, <2>1
  <2> QED
    BY <1>2, <1>3, <1>4, <2>1, <2>2
<1>6. \A k \in 1 .. n : /\ IsCall(calls[k]) /\ calls[k].base + calls[k].l <= Len(dAtA)
                        /\ k > 1 => calls[k].base + calls[k].l
                                       = calls[k-1].base + calls[k-1].iNdEx
                        /\ calls[k].iNdEx <= calls[k].l
  BY <1>2 DEF SInv, Nested
<1>7. IsCall(calls[n])
  BY <1>2, <1>6
<1>8. IsCall(c) /\ c.base = calls[n].base /\ c.l = calls[n].l /\ c.iNdEx = calls[n].iNdEx
  BY <1>7 DEF IsCall, Numbers
<1> HIDE DEF s, c
<1>9. ASSUME NEW k \in DOMAIN s
      PROVE  /\ IsCall(s[k]) /\ s[k].base + s[k].l <= Len(dAtA)
             /\ k > 1 => s[k].base + s[k].l = s[k-1].base + s[k-1].iNdEx
             /\ k < Len(s) => s[k].iNdEx <= s[k].l
  <2>1. k > 1 => s[k-1] = calls[k-1]
    BY <1>2, <1>5, <1>9
  <2>2. CASE k = n
    BY <1>2, <1>5, <1>6, <1>8, <2>1, <2>2
  <2>3. CASE k # n
    <3>1. s[k] = calls[k]
      BY <1>2, <1>5, <2>3
    <3> QED
      BY <1>5, <1>6, <2>1, <3>1
  <2> QED
    BY <2>2, <2>3
<1>10. s # <<>>
  BY <1>2, <1>5
<1>11. Last(s) = c
  BY <1>5 DEF Last
<1>12. calls[n].iNdEx \in Nat /\ calls[n].iNdEx <= calls[n].l
  BY <1>2, <1>6 DEF IsCall
<1> QED
  BY <1>5, <1>8, <1>9, <1>10, <1>11, <1>12 DEF s, n, IsStack, Nested

-----------------------------------------------------------------------------
(* The steps of the decoder.                                               *)

\* The conjuncts of SInv after a step that moves the top call to i, which is in
\* its slice, and goes on with the fields.
LEMMA FieldKeeps ==
  ASSUME SInv, NEW i \in Nat, i <= top.l, depth' = 0 \/ (depth' = depth /\ depth = 0),
         IsStack(calls'), Nested(calls', Len(dAtA)),
         Last(calls').iNdEx = i, Last(calls').l = top.l,
         dAtA' = dAtA, Read("tag"), preIndex' = i
  PROVE  SInv'
<1>1. Varints'
  BY WordFacts DEF SInv, Varints, Read
<1>2. Indices'
  BY DEF Indices, Read, top, SInv
<1> QED
  BY <1>1, <1>2 DEF SInv

\* A step that leaves the calls and the place as they are.
LEMMA StayKeeps ==
  ASSUME SInv, UNCHANGED <<dAtA, calls, preIndex, depth>>,
         acc' \in Words, weight' \in Nat,
         what' \notin {"skipTag", "skipValue", "skipLength"} => depth = 0
  PROVE  SInv'
BY DEF SInv, Varints, Indices, IsStack, Nested, IsCall, top

\* skipUpdateMetadata is at i, inside of d groups.
LEMMA SkippedKeeps ==
  ASSUME SInv, NEW i \in Int, NEW d \in Nat, Skipped(i, d)
  PROVE  SInv'
<1>1. CASE i < 0 \/ (d = 0 /\ i > top.l)
  <2>1. UNCHANGED <<dAtA, calls, preIndex, depth, acc, weight, what>>
    BY <1>1 DEF Skipped, Fail
  <2> QED
    BY <2>1, StayKeeps DEF SInv, Varints, Indices
<1>2. CASE ~(i < 0 \/ (d = 0 /\ i > top.l))
  <2>1. /\ calls' = Seek(i) /\ i \in Nat /\ depth' = d /\ dAtA' = dAtA
        /\ IF d = 0 THEN Read("tag") /\ preIndex' = i
                    ELSE Read("skipTag") /\ UNCHANGED preIndex
    BY <1>2 DEF Skipped
  <2>2. /\ IsStack(calls') /\ Nested(calls', Len(dAtA))
        /\ Last(calls').iNdEx = i /\ Last(calls').l = top.l
    BY <2>1, SeekMoves
  <2>3. IsCall(top)
    BY TopCall
  <2>4. CASE d = 0
    BY <1>2, <2>1, <2>2, <2>3, <2>4, FieldKeeps DEF IsCall
  <2>5. CASE d # 0
    <3>1. Varints'
      BY <2>1, <2>5, WordFacts DEF SInv, Varints, Read
    <3>2. Indices'
      BY <2>1, <2>2, <2>5 DEF SInv, Indices, Read, top
    <3> QED
      BY <2>1, <2>2, <3>1, <3>2 DEF SInv
  <2> QED
    BY <2>4, <2>5
<1> QED
  BY <1>1, <1>2

\* A digit is read from inside of the slice.
LEMMA DigitKeeps ==
  ASSUME SInv, Digit
  PROVE  SInv'
<1> DEFINE b == dAtA[top.base + top.iNdEx + 1]
<1>1. IsCall(top) /\ top.iNdEx < top.l /\ top.base + top.l <= Len(dAtA)
  BY TopCall DEF Digit
<1>2. b \in Nat
  <2>1. top.base + top.iNdEx + 1 \in 1 .. Len(dAtA)
    BY <1>1 DEF IsCall, SInv, Varints, Strings
  <2>2. b \in Bytes
    BY <2>1 DEF SInv, Varints, Strings
  <2> QED
    BY <2>2, WordFacts DEF Bytes
<1>3. acc' \in Words /\ weight' \in Nat
  <2> HIDE DEF b
  <2>1. \A x \in Nat : x % Word \in Nat /\ x % Base \in Nat
    BY WordFacts
  <2>2. \A x, y \in Nat : x * y \in Nat /\ x + y \in Nat
    OBVIOUS
  <2>3. acc \in Nat /\ weight \in Nat /\ Base \in Nat
    BY WordFacts DEF SInv, Varints
  <2>4. acc' = (acc + (b % Base) * weight) % Word /\ weight' = (weight * Base) % Word
    BY DEF Digit, b
  <2> QED
    BY <1>2, <2>1, <2>2, <2>3, <2>4, WordFacts
<1>4. /\ calls' = Seek(top.iNdEx + 1)
      /\ UNCHANGED <<dAtA, what, preIndex, depth>>
  BY DEF Digit
<1>5. top.iNdEx + 1 \in Nat
  BY <1>1 DEF IsCall
<1>6. /\ IsStack(calls') /\ Nested(calls', Len(dAtA))
      /\ Last(calls').iNdEx = top.iNdEx + 1 /\ Last(calls').l = top.l
  BY <1>4, <1>5, SeekMoves
<1>7. Varints'
  BY <1>3, <1>4 DEF SInv, Varints
<1>8. Indices'
  <2>1. top.iNdEx + 1 <= top.l
    BY <1>1 DEF IsCall
  <2> QED
    BY <1>4, <1>6, <2>1 DEF SInv, Indices, top
<1> QED
  BY <1>4, <1>6, <1>7, <1>8 DEF SInv

\* A step that rejects the manifest, or one that ends.
LEMMA RestKeeps ==
  ASSUME SInv, UNCHANGED <<dAtA, calls, acc, weight, what, depth, preIndex>>
  PROVE  SInv'
BY StayKeeps DEF SInv, Varints, Indices

\* The fields of the message: at "tag", "value" and "length" no group is open,
\* so that the call is in its slice.
LEMMA FieldsKeep ==
  ASSUME SInv, UnknownField \/ KnownField \/ Fixed32Field \/ Value \/ BytesField
  PROVE  SInv'
<1>1. /\ IsCall(top) /\ depth = 0 /\ top.iNdEx \in Nat /\ top.iNdEx <= top.l
      /\ postIndex \in Int
  BY TopCall, PostIndexTyped
  DEF SInv, Indices, IsCall, UnknownField, KnownField, Fixed32Field, Value, BytesField,
      Running
<1>2. CASE UnknownField
  <2>1. /\ calls' = Seek(preIndex) /\ depth' = 0 /\ Read("skipTag")
        /\ UNCHANGED <<dAtA, preIndex>>
    BY <1>2 DEF UnknownField
  <2>2. preIndex \in Nat /\ preIndex <= top.l
    BY DEF SInv, Varints, Indices
  <2>3. /\ IsStack(calls') /\ Nested(calls', Len(dAtA))
        /\ Last(calls').iNdEx = preIndex /\ Last(calls').l = top.l
    BY <2>1, <2>2, SeekMoves
  <2>4. Varints'
    BY <2>1, WordFacts DEF SInv, Varints, Read
  <2>5. Indices'
    BY <2>1, <2>2, <2>3 DEF Indices, Read, top
  <2> QED
    BY <2>1, <2>3, <2>4, <2>5 DEF SInv
<1>3. CASE KnownField
  BY <1>1, <1>3, StayKeeps, WordFacts DEF KnownField, Read
<1>4. CASE Fixed32Field
  <2>1. CASE top.iNdEx + 4 > top.l
    BY <1>4, <2>1, RestKeeps DEF Fixed32Field, Fail
  <2>2. CASE ~(top.iNdEx + 4 > top.l)
    <3>1. /\ calls' = Stored(FieldOf, Fixed32, top.iNdEx + 4) /\ Loop(top.iNdEx + 4)
      BY <1>4, <2>2 DEF Fixed32Field
    <3>2. top.iNdEx + 4 \in Nat /\ top.iNdEx + 4 <= top.l
      BY <1>1, <2>2 DEF IsCall
    <3> QED
      BY <1>1, <3>1, <3>2, StoredMoves, FieldKeeps DEF Loop
  <2> QED
    BY <2>1, <2>2
<1>5. CASE Value
  <2>1. calls' = Stored(field, Converted(field.kind), top.iNdEx) /\ Loop(top.iNdEx)
    BY <1>5 DEF Value
  <2> QED
    BY <1>1, <2>1, StoredMoves, FieldKeeps DEF Loop
<1>6. CASE BytesField
  <2>1. PICK v : calls' = Stored(field, v, postIndex) /\ Loop(postIndex) /\ GoodLength
    BY <1>6 DEF BytesField
  <2>2. postIndex \in Nat /\ postIndex <= top.l
    BY <1>1, <2>1 DEF GoodLength
  <2> QED
    BY <1>1, <2>1, <2>2, StoredMoves, FieldKeeps DEF Loop
<1> QED
  BY <1>2, <1>3, <1>4, <1>5, <1>6

LEMMA LengthIsInt ==
  ASSUME SInv
  PROVE  length \in Int /\ length < Word \div 2
<1> DEFINE h == Word \div 2
<1>1. acc \in 0 .. Word - 1 /\ 2 * h = Word /\ h \in Nat \ {0} /\ Word \in Nat
  BY WordFacts DEF SInv, Varints, Words
<1>2. length = IF acc >= h THEN acc - Word ELSE acc
  BY DEF length, Signed
<1> HIDE DEF h
<1>3. length \in Int /\ length < h
  BY <1>1, <1>2
<1> QED
  BY <1>3 DEF h

\* A length that does not lead behind the slice does not lead back: the sum of
\* two ints would have to wrap, and be negative.
LEMMA LengthForward ==
  ASSUME SInv, depth = 0, GoodLength
  PROVE  postIndex \in Nat /\ top.iNdEx <= postIndex /\ postIndex <= top.l
<1>1. /\ IsCall(top) /\ top.iNdEx <= top.l /\ top.base + top.l <= Len(dAtA)
      /\ postIndex \in Int /\ length \in Int
  BY TopCall, PostIndexTyped DEF SInv, Indices
<1>2. top.iNdEx \in Nat /\ top.iNdEx <= Word \div 2 - 1
  <2> DEFINE h == Word \div 2
  <2>1. Len(dAtA) \in Nat /\ Len(dAtA) <= h - 1 /\ h \in Nat
    BY WordFacts DEF SInv, Varints, Strings
  <2>2. top.iNdEx \in Nat /\ top.l \in Nat /\ top.base \in Nat
    BY <1>1 DEF IsCall
  <2> HIDE DEF h
  <2>3. top.iNdEx <= h - 1
    BY <1>1, <2>1, <2>2
  <2> QED
    BY <2>2, <2>3 DEF h
<1>3. length \in Nat /\ length < Word \div 2
  BY LengthIsInt DEF GoodLength
<1>4. top.iNdEx < Word \div 2
  BY <1>2, WordFacts
<1>5. postIndex = top.iNdEx + length
  BY <1>2, <1>3, <1>4, PlusForward DEF GoodLength, postIndex
<1> QED
  BY <1>2, <1>3, <1>5 DEF GoodLength

\* A message is decoded by a call of its own, in its bytes.
LEMMA MessageKeeps ==
  ASSUME SInv, MessageField
  PROVE  SInv'
<1>1. depth = 0 /\ GoodLength
  BY DEF MessageField, SInv, Indices, Running
<1>2. /\ postIndex \in Nat /\ top.iNdEx <= postIndex /\ postIndex <= top.l
      /\ IsCall(top)
  BY <1>1, LengthForward, TopCall
<1>3. PICK m : /\ calls' = Append(Seek(postIndex),
                                 Call(field.kind, top.base + top.iNdEx,
                                      postIndex - top.iNdEx, field, m))
               /\ Loop(0)
  BY DEF MessageField
<1> DEFINE c == Call(field.kind, top.base + top.iNdEx, postIndex - top.iNdEx, field, m)
<1>4. IsCall(c) /\ c.base = top.base + top.iNdEx /\ c.l = postIndex - top.iNdEx
      /\ c.iNdEx = 0
  BY <1>2 DEF Call, IsCall, Numbers
<1> HIDE DEF c
<1>5. IsStack(calls') /\ Nested(calls', Len(dAtA)) /\ Last(calls') = c
  BY <1>2, <1>3, <1>4, CallNests DEF c
<1>6. Varints' /\ dAtA' = dAtA
  BY <1>3, WordFacts DEF SInv, Varints, Loop, Read
<1>7. Indices'
  BY <1>1, <1>3, <1>4, <1>5 DEF Indices, Loop, Read, top, IsCall
<1> QED
  BY <1>5, <1>6, <1>7 DEF SInv

\* A call that returns goes on behind the message.
LEMMA ReturnKeeps ==
  ASSUME SInv, ReturnToCaller
  PROVE  SInv'
<1> DEFINE n == Len(calls) - 1
           v == Put(calls[n].m, top.at, top.m)
<1>1. /\ Len(calls) > 1 /\ depth = 0
      /\ calls' = [Front(calls) EXCEPT ![n].m = v] /\ Loop(calls[n].iNdEx)
  BY DEF ReturnToCaller, AtEnd, Running, SInv, Indices
<1> HIDE DEF v
<1>2. /\ IsStack(calls') /\ Nested(calls', Len(dAtA))
      /\ Last(calls').iNdEx = calls[n].iNdEx /\ Last(calls').l = calls[n].l
      /\ calls[n].iNdEx \in Nat /\ calls[n].iNdEx <= calls[n].l
  BY <1>1, ReturnNests
<1> HIDE DEF n
<1>3. Varints' /\ dAtA' = dAtA
  BY <1>1, <1>2, WordFacts DEF SInv, Varints, Loop, Read
<1>4. Indices'
  BY <1>1, <1>2 DEF Indices, Loop, Read, top
<1> QED
  BY <1>2, <1>3, <1>4 DEF SInv

\* The parts of an unknown field.
LEMMA SkipKeeps ==
  ASSUME SInv, SkipTag \/ SkipValue \/ SkipLength
  PROVE  SInv'
<1>1. /\ top.iNdEx \in Int /\ postIndex \in Int /\ depth \in Nat
      /\ Plus(top.iNdEx, 8) \in Int /\ Plus(top.iNdEx, 4) \in Int
  <2>1. top.iNdEx \in Int /\ postIndex \in Int /\ depth \in Nat
    BY PostIndexTyped DEF SInv, Varints
  <2>2. 8 \in Int /\ 4 \in Int
    OBVIOUS
  <2>3. Plus(top.iNdEx, 8) \in Int /\ Plus(top.iNdEx, 4) \in Int
    BY <2>1, <2>2, PlusTyped, Zenon
  <2> QED
    BY <2>1, <2>3
<1>2. CASE SkipTag
  <2>1. CASE /\ Read("skipValue") \/ Read("skipLength")
             /\ UNCHANGED <<dAtA, calls, preIndex, field, depth, verdict>>
    BY <2>1, StayKeeps, WordFacts DEF Read
  <2>2. CASE Fail
    BY <2>2, RestKeeps DEF Fail
  <2>3. CASE \E i \in Int, d \in Nat : Skipped(i, d)
    BY <2>3, SkippedKeeps
  <2>4. depth = 0 \/ depth - 1 \in Nat
    BY <1>1
  <2> QED
    BY <1>1, <1>2, <2>1, <2>2, <2>3, <2>4 DEF SkipTag
<1>3. CASE SkipValue
  BY <1>1, <1>3, SkippedKeeps DEF SkipValue
<1>4. CASE SkipLength
  BY <1>1, <1>4, SkippedKeeps, RestKeeps DEF SkipLength, Fail
<1> QED
  BY <1>2, <1>3, <1>4

LEMMA InitSInv == Init => SInv
<1> SUFFICES ASSUME Init
             PROVE  SInv
  OBVIOUS
<1> DEFINE c == Call("DeltaArchiveManifest", 0, Len(dAtA), NoField,
                     New("DeltaArchiveManifest"))
<1>1. /\ dAtA \in Strings /\ Len(dAtA) < Word \div 2 /\ Len(dAtA) \in Nat
  BY BufferAssumption DEF Init, Strings
<1>2. calls = <<c>>
  BY DEF Init
<1>3. IsCall(c) /\ c.base = 0 /\ c.l = Len(dAtA) /\ c.iNdEx = 0
  BY <1>1 DEF Call, IsCall, Numbers
<1> HIDE DEF c
<1>4. calls \in Seq({c}) /\ Len(calls) = 1 /\ DOMAIN calls = {1} /\ calls[1] = c
  BY <1>2
<1>5. IsStack(calls)
  BY <1>4 DEF IsStack
<1>6. Nested(calls, Len(dAtA))
  BY <1>1, <1>3, <1>4 DEF Nested
<1>7. Varints
  BY <1>1, WordFacts DEF Init, Varints
<1>8. Indices
  BY <1>1, <1>3, <1>4 DEF Init, Indices, top, Last
<1> QED
  BY <1>5, <1>6, <1>7, <1>8 DEF SInv

LEMMA NextSInv == SInv /\ [Next]_vars => SInv'
<1> SUFFICES ASSUME SInv, [Next]_vars
             PROVE  SInv'
  OBVIOUS
<1>1. CASE Digit
  BY <1>1, DigitKeeps
<1>2. CASE BadVarint \/ RejectTag \/ BadLength \/ Incomplete
  BY <1>2, RestKeeps DEF BadVarint, RejectTag, BadLength, Incomplete, Fail
<1>3. CASE UnknownField \/ KnownField \/ Fixed32Field \/ Value \/ BytesField
  BY <1>3, FieldsKeep
<1>4. CASE MessageField
  BY <1>4, MessageKeeps
<1>5. CASE ReturnToCaller
  BY <1>5, ReturnKeeps
<1>6. CASE Return
  BY <1>6, RestKeeps DEF Return
<1>7. CASE SkipTag \/ SkipValue \/ SkipLength
  BY <1>7, SkipKeeps
<1>8. CASE UNCHANGED vars
  BY <1>8, RestKeeps DEF vars
<1> QED
  BY <1>1, <1>2, <1>3, <1>4, <1>5, <1>6, <1>7, <1>8 DEF Next

\* Whatever bytes the manifest is made of, the decoder reads none outside of
\* the slice it was given, and none of a message outside of that message.
THEOREM StaysWithinSlices == Spec => []WithinSlices
<1>1. SInv => WithinSlices
  <2> SUFFICES ASSUME SInv, NEW k \in DOMAIN calls
               PROVE  /\ calls[k].base + calls[k].l <= Len(dAtA)
                      /\ 0 <= calls[k].iNdEx
                      /\ \/ calls[k].iNdEx <= calls[k].l
                         \/ k = Len(calls) /\ depth > 0
                      /\ k > 1 => calls[k].base + calls[k].l
                                     = calls[k-1].base + calls[k-1].iNdEx
    BY DEF WithinSlices
  <2>1. /\ IsCall(calls[k]) /\ calls[k].base + calls[k].l <= Len(dAtA)
        /\ k > 1 => calls[k].base + calls[k].l = calls[k-1].base + calls[k-1].iNdEx
        /\ k < Len(calls) => calls[k].iNdEx <= calls[k].l
    BY DEF SInv, Nested
  <2>2. k = Len(calls) => calls[k].iNdEx <= calls[k].l \/ depth > 0
    BY DEF SInv, Indices, Varints, top, Last
  <2>3. k \in 1 .. Len(calls) /\ Len(calls) \in Nat
    BY TopCall
  <2>4. k < Len(calls) \/ k = Len(calls)
    BY <2>3
  <2> QED
    BY <2>1, <2>2, <2>4 DEF IsCall
<1> QED
  BY <1>1, InitSInv, NextSInv, PTL DEF Spec

-----------------------------------------------------------------------------
(* The tables of fields, and the messages they are of.                     *)

\* What is read for a field of a kind.
Values(kind) ==
  CASE kind \in {"uint64", "int64"} -> Words
    [] kind \in {"uint32", "int32", "fixed32"} -> Halves
    [] kind = "bool" -> BOOLEAN
    [] kind = "bytes" -> Strings
    [] OTHER -> Messages(kind)

\* What a field holds.
Slot(label, kind) ==
  CASE label = "ptr" -> Maybe(Values(kind))
    [] label = "rep" -> Seq(Values(kind))
    [] OTHER -> Values(kind)

Names(F) == {f.name : f \in F}

Varied  == {"uint64", "int64", "uint32", "int32", "bool"}
Flat    == Varied \union {"fixed32"}
Labels  == {"opt", "req", "ptr", "rep"}

\* No two fields have one name, and no message is a field's value but behind a
\* pointer or in a slice.
IsTable(F) ==
  /\ \A f, g \in F : f.name = g.name => f = g
  /\ \A f \in F : /\ f.label \in Labels
                  /\ f.kind \in Flat \union {"bytes"} \union MessageTypes
                  /\ f.kind \in MessageTypes => f.label \in {"ptr", "rep"}

\* The records of a struct R are those with the fields of its table F.
AreRecords(R, F) ==
  \A m : m \in R <=> /\ m = [n \in Names(F) |-> m[n]]
                    /\ \A f \in F : m[f.name] \in Slot(f.label, f.kind)

Tabled(R, F) == IsTable(F) /\ AreRecords(R, F)

LEMMA AllMessageTypes ==
  MessageTypes =
    {"Extent", "Signatures", "Signature",
     "PartitionInfo", "InstallOperation", "CowMergeOperation",
     "PartitionUpdate", "DynamicPartitionGroup", "VABCFeatureSet",
     "DynamicPartitionMetadata", "ApexInfo", "ApexMetadata",
     "DeltaArchiveManifest"}
BY DEF MessageTypes, Fields

LEMMA KindValues ==
  /\ Values("uint64") = Words /\ Values("int64") = Words
  /\ Values("uint32") = Halves /\ Values("int32") = Halves
  /\ Values("fixed32") = Halves /\ Values("bool") = BOOLEAN
  /\ Values("bytes") = Strings
BY DEF Values

LEMMA MessageValues ==
  /\ Messages("Extent") = Extents
  /\ Messages("Signatures") = Signatures_s
  /\ Messages("Signature") = Signature_s
  /\ Messages("PartitionInfo") = PartitionInfos
  /\ Messages("InstallOperation") = InstallOperations
  /\ Messages("CowMergeOperation") = CowMergeOperations
  /\ Messages("PartitionUpdate") = PartitionUpdates
  /\ Messages("DynamicPartitionGroup") = DynamicPartitionGroups
  /\ Messages("VABCFeatureSet") = VABCFeatureSets
  /\ Messages("DynamicPartitionMetadata") = DynamicPartitionMetadatas
  /\ Messages("ApexInfo") = ApexInfos
  /\ Messages("ApexMetadata") = ApexMetadatas
  /\ Messages("DeltaArchiveManifest") = DeltaArchiveManifests
BY DEF Messages

LEMMA TableValues ==
  /\ Fields["Extent"] = ExtentFields
  /\ Fields["Signatures"] = SignaturesFields
  /\ Fields["Signature"] = SignatureFields
  /\ Fields["PartitionInfo"] = PartitionInfoFields
  /\ Fields["InstallOperation"] = InstallOperationFields
  /\ Fields["CowMergeOperation"] = CowMergeOperationFields
  /\ Fields["PartitionUpdate"] = PartitionUpdateFields
  /\ Fields["DynamicPartitionGroup"] = DynamicPartitionGroupFields
  /\ Fields["VABCFeatureSet"] = VABCFeatureSetFields
  /\ Fields["DynamicPartitionMetadata"] = DynamicPartitionMetadataFields
  /\ Fields["ApexInfo"] = ApexInfoFields
  /\ Fields["ApexMetadata"] = ApexMetadataFields
  /\ Fields["DeltaArchiveManifest"] = DeltaArchiveManifestFields
BY DEF Fields

LEMMA KindIsMessage ==
  \A t \in MessageTypes : t \notin Flat /\ t # "bytes" /\ Values(t) = Messages(t)
BY AllMessageTypes DEF Values, Flat, Varied

\* What the messages are made of.
LEMMA PartValues ==
  /\ Values("Extent") = Extents
  /\ Values("Signatures") = Signatures_s
  /\ Values("Signature") = Signature_s
  /\ Values("PartitionInfo") = PartitionInfos
  /\ Values("InstallOperation") = InstallOperations
  /\ Values("CowMergeOperation") = CowMergeOperations
  /\ Values("PartitionUpdate") = PartitionUpdates
  /\ Values("DynamicPartitionGroup") = DynamicPartitionGroups
  /\ Values("VABCFeatureSet") = VABCFeatureSets
  /\ Values("DynamicPartitionMetadata") = DynamicPartitionMetadatas
  /\ Values("ApexInfo") = ApexInfos
  /\ Values("ApexMetadata") = ApexMetadatas
  /\ Values("DeltaArchiveManifest") = DeltaArchiveManifests
BY AllMessageTypes, MessageValues, KindIsMessage

LEMMA LabelSlots ==
  \A k : /\ Slot("opt", k) = Values(k) /\ Slot("req", k) = Values(k)
         /\ Slot("ptr", k) = Maybe(Values(k)) /\ Slot("rep", k) = Seq(Values(k))
BY DEF Slot

LEMMA ExtentTabled == Tabled(Extents, ExtentFields)
<1>1. IsTable(ExtentFields)
  BY KindIsMessage, AllMessageTypes
  DEF IsTable, ExtentFields, Opt, Field, Labels, Flat, Varied
<1>2. ASSUME NEW m \in Extents
      PROVE  m = [n \in Names(ExtentFields) |-> m[n]]
  BY DEF ExtentFields, Extents, Opt, Field, Names
<1>3. ASSUME NEW m \in Extents, NEW f \in ExtentFields
      PROVE  m[f.name] \in Slot(f.label, f.kind)
  BY KindValues, PartValues, LabelSlots
  DEF ExtentFields, Extents, Opt, Field
<1>4. ASSUME NEW m, m = [n \in Names(ExtentFields) |-> m[n]],
             \A f \in ExtentFields : m[f.name] \in Slot(f.label, f.kind)
      PROVE  m \in Extents
  BY <1>4, KindValues, PartValues, LabelSlots
  DEF ExtentFields, Extents, Opt, Field, Names
<1> QED
  BY <1>1, <1>2, <1>3, <1>4 DEF Tabled, AreRecords

LEMMA SignaturesTabled == Tabled(Signatures_s, SignaturesFields)
<1>1. IsTable(SignaturesFields)
  BY KindIsMessage, AllMessageTypes
  DEF IsTable, SignaturesFields, Rep, Field, Labels, Flat, Varied
<1>2. ASSUME NEW m \in Signatures_s
      PROVE  m = [n \in Names(SignaturesFields) |-> m[n]]
  BY DEF SignaturesFields, Signatures_s, Rep, Field, Names
<1>3. ASSUME NEW m \in Signatures_s, NEW f \in SignaturesFields
      PROVE  m[f.name] \in Slot(f.label, f.kind)
  BY KindValues, PartValues, LabelSlots
  DEF SignaturesFields, Signatures_s, Rep, Field
<1>4. ASSUME NEW m, m = [n \in Names(SignaturesFields) |-> m[n]],
             \A f \in SignaturesFields : m[f.name] \in Slot(f.label, f.kind)
      PROVE  m \in Signatures_s
  BY <1>4, KindValues, PartValues, LabelSlots
  DEF SignaturesFields, Signatures_s, Rep, Field, Names
<1> QED
  BY <1>1, <1>2, <1>3, <1>4 DEF Tabled, AreRecords

LEMMA SignatureTabled == Tabled(Signature_s, SignatureFields)
<1>1. IsTable(SignatureFields)
  BY KindIsMessage, AllMessageTypes
  DEF IsTable, SignatureFields, Opt, Ptr, Field, Labels, Flat, Varied
<1>2. ASSUME NEW m \in Signature_s
      PROVE  m = [n \in Names(SignatureFields) |-> m[n]]
  BY DEF SignatureFields, Signature_s, Opt, Ptr, Field, Names
<1>3. ASSUME NEW m \in Signature_s, NEW f \in SignatureFields
      PROVE  m[f.name] \in Slot(f.label, f.kind)
  BY KindValues, PartValues, LabelSlots
  DEF SignatureFields, Signature_s, Opt, Ptr, Field
<1>4. ASSUME NEW m, m = [n \in Names(SignatureFields) |-> m[n]],
             \A f \in SignatureFields : m[f.name] \in Slot(f.label, f.kind)
      PROVE  m \in Signature_s
  BY <1>4, KindValues, PartValues, LabelSlots
  DEF SignatureFields, Signature_s, Opt, Ptr, Field, Names
<1> QED
  BY <1>1, <1>2, <1>3, <1>4 DEF Tabled, AreRecords

LEMMA PartitionInfoTabled == Tabled(PartitionInfos, PartitionInfoFields)
<1>1. IsTable(PartitionInfoFields)
  BY KindIsMessage, AllMessageTypes
  DEF IsTable, PartitionInfoFields, Opt, Ptr, Field, Labels, Flat, Varied
<1>2. ASSUME NEW m \in PartitionInfos
      PROVE  m = [n \in Names(PartitionInfoFields) |-> m[n]]
  BY DEF PartitionInfoFields, PartitionInfos, Opt, Ptr, Field, Names
<1>3. ASSUME NEW m \in PartitionInfos, NEW f \in PartitionInfoFields
      PROVE  m[f.name] \in Slot(f.label, f.kind)
  BY KindValues, PartValues, LabelSlots
  DEF PartitionInfoFields, PartitionInfos, Opt, Ptr, Field
<1>4. ASSUME NEW m, m = [n \in Names(PartitionInfoFields) |-> m[n]],
             \A f \in PartitionInfoFields : m[f.name] \in Slot(f.label, f.kind)
      PROVE  m \in PartitionInfos
  BY <1>4, KindValues, PartValues, LabelSlots
  DEF PartitionInfoFields, PartitionInfos, Opt, Ptr, Field, Names
<1> QED
  BY <1>1, <1>2, <1>3, <1>4 DEF Tabled, AreRecords

LEMMA InstallOperationTabled == Tabled(InstallOperations, InstallOperationFields)
<1>1. IsTable(InstallOperationFields)
  BY KindIsMessage, AllMessageTypes
  DEF IsTable, InstallOperationFields, Opt, Req, Ptr, Rep, Field, Labels, Flat,
      Varied
<1>2. ASSUME NEW m \in InstallOperations
      PROVE  m = [n \in Names(InstallOperationFields) |-> m[n]]
  BY DEF InstallOperationFields, InstallOperations, Opt, Req, Ptr, Rep, Field, Names
<1>3. ASSUME NEW m \in InstallOperations, NEW f \in InstallOperationFields
      PROVE  m[f.name] \in Slot(f.label, f.kind)
  BY KindValues, PartValues, LabelSlots
  DEF InstallOperationFields, InstallOperations, Opt, Req, Ptr, Rep, Field
<1>4. ASSUME NEW m, m = [n \in Names(InstallOperationFields) |-> m[n]],
             \A f \in InstallOperationFields : m[f.name] \in Slot(f.label, f.kind)
      PROVE  m \in InstallOperations
  BY <1>4, KindValues, PartValues, LabelSlots
  DEF InstallOperationFields, InstallOperations, Opt, Req, Ptr, Rep, Field, Names
<1> QED
  BY <1>1, <1>2, <1>3, <1>4 DEF Tabled, AreRecords

LEMMA CowMergeOperationTabled == Tabled(CowMergeOperations, CowMergeOperationFields)
<1>1. IsTable(CowMergeOperationFields)
  BY KindIsMessage, AllMessageTypes
  DEF IsTable, CowMergeOperationFields, Opt, Ptr, Field, Labels, Flat, Varied
<1>2. ASSUME NEW m \in CowMergeOperations
      PROVE  m = [n \in Names(CowMergeOperationFields) |-> m[n]]
  BY DEF CowMergeOperationFields, CowMergeOperations, Opt, Ptr, Field, Names
<1>3. ASSUME NEW m \in CowMergeOperations, NEW f \in CowMergeOperationFields
      PROVE  m[f.name] \in Slot(f.label, f.kind)
  BY KindValues, PartValues, LabelSlots
  DEF CowMergeOperationFields, CowMergeOperations, Opt, Ptr, Field
<1>4. ASSUME NEW m, m = [n \in Names(CowMergeOperationFields) |-> m[n]],
             \A f \in CowMergeOperationFields : m[f.name] \in Slot(f.label, f.kind)
      PROVE  m \in CowMergeOperations
  BY <1>4, KindValues, PartValues, LabelSlots
  DEF CowMergeOperationFields, CowMergeOperations, Opt, Ptr, Field, Names
<1> QED
  BY <1>1, <1>2, <1>3, <1>4 DEF Tabled, AreRecords

LEMMA PartitionUpdateTabled == Tabled(PartitionUpdates, PartitionUpdateFields)
<1>1. IsTable(PartitionUpdateFields)
  BY KindIsMessage, AllMessageTypes
  DEF IsTable, PartitionUpdateFields, Opt, Req, Ptr, Rep, Field, Labels, Flat,
      Varied
<1>2. ASSUME NEW m \in PartitionUpdates
      PROVE  m = [n \in Names(PartitionUpdateFields) |-> m[n]]
  BY DEF PartitionUpdateFields, PartitionUpdates, Opt, Req, Ptr, Rep, Field, Names
<1>3. ASSUME NEW m \in PartitionUpdates, NEW f \in PartitionUpdateFields
      PROVE  m[f.name] \in Slot(f.label, f.kind)
  BY KindValues, PartValues, LabelSlots
  DEF PartitionUpdateFields, PartitionUpdates, Opt, Req, Ptr, Rep, Field
<1>4. ASSUME NEW m, m = [n \in Names(PartitionUpdateFields) |-> m[n]],
             \A f \in PartitionUpdateFields : m[f.name] \in Slot(f.label, f.kind)
      PROVE  m \in PartitionUpdates
  BY <1>4, KindValues, PartValues, LabelSlots
  DEF PartitionUpdateFields, PartitionUpdates, Opt, Req, Ptr, Rep, Field, Names
<1> QED
  BY <1>1, <1>2, <1>3, <1>4 DEF Tabled, AreRecords

LEMMA DynamicPartitionGroupTabled ==
  Tabled(DynamicPartitionGroups, DynamicPartitionGroupFields)
<1>1. IsTable(DynamicPartitionGroupFields)
  BY KindIsMessage, AllMessageTypes
  DEF IsTable, DynamicPartitionGroupFields, Opt, Req, Rep, Field, Labels, Flat,
      Varied
<1>2. ASSUME NEW m \in DynamicPartitionGroups
      PROVE  m = [n \in Names(DynamicPartitionGroupFields) |-> m[n]]
  BY DEF DynamicPartitionGroupFields, DynamicPartitionGroups, Opt, Req, Rep, Field,
         Names
<1>3. ASSUME NEW m \in DynamicPartitionGroups, NEW f \in DynamicPartitionGroupFields
      PROVE  m[f.name] \in Slot(f.label, f.kind)
  BY KindValues, PartValues, LabelSlots
  DEF DynamicPartitionGroupFields, DynamicPartitionGroups, Opt, Req, Rep, Field
<1>4. ASSUME NEW m, m = [n \in Names(DynamicPartitionGroupFields) |-> m[n]],
             \A f \in DynamicPartitionGroupFields :
               m[f.name] \in Slot(f.label, f.kind)
      PROVE  m \in DynamicPartitionGroups
  BY <1>4, KindValues, PartValues, LabelSlots
  DEF DynamicPartitionGroupFields, DynamicPartitionGroups, Opt, Req, Rep, Field,
      Names
<1> QED
  BY <1>1, <1>2, <1>3, <1>4 DEF Tabled, AreRecords

LEMMA VABCFeatureSetTabled == Tabled(VABCFeatureSets, VABCFeatureSetFields)
<1>1. IsTable(VABCFeatureSetFields)
  BY KindIsMessage, AllMessageTypes
  DEF IsTable, VABCFeatureSetFields, Opt, Field, Labels, Flat, Varied
<1>2. ASSUME NEW m \in VABCFeatureSets
      PROVE  m = [n \in Names(VABCFeatureSetFields) |-> m[n]]
  BY DEF VABCFeatureSetFields, VABCFeatureSets, Opt, Field, Names
<1>3. ASSUME NEW m \in VABCFeatureSets, NEW f \in VABCFeatureSetFields
      PROVE  m[f.name] \in Slot(f.label, f.kind)
  BY KindValues, PartValues, LabelSlots
  DEF VABCFeatureSetFields, VABCFeatureSets, Opt, Field
<1>4. ASSUME NEW m, m = [n \in Names(VABCFeatureSetFields) |-> m[n]],
             \A f \in VABCFeatureSetFields : m[f.name] \in Slot(f.label, f.kind)
      PROVE  m \in VABCFeatureSets
  BY <1>4, KindValues, PartValues, LabelSlots
  DEF VABCFeatureSetFields, VABCFeatureSets, Opt, Field, Names
<1> QED
  BY <1>1, <1>2, <1>3, <1>4 DEF Tabled, AreRecords

LEMMA DynamicPartitionMetadataTabled ==
  Tabled(DynamicPartitionMetadatas, DynamicPartitionMetadataFields)
<1>1. IsTable(DynamicPartitionMetadataFields)
  BY KindIsMessage, AllMessageTypes
  DEF IsTable, DynamicPartitionMetadataFields, Opt, Ptr, Rep, Field, Labels, Flat,
      Varied
<1>2. ASSUME NEW m \in DynamicPartitionMetadatas
      PROVE  m = [n \in Names(DynamicPartitionMetadataFields) |-> m[n]]
  BY DEF DynamicPartitionMetadataFields, DynamicPartitionMetadatas, Opt, Ptr, Rep,
         Field, Names
<1>3. ASSUME NEW m \in DynamicPartitionMetadatas,
             NEW f \in DynamicPartitionMetadataFields
      PROVE  m[f.name] \in Slot(f.label, f.kind)
  BY KindValues, PartValues, LabelSlots
  DEF DynamicPartitionMetadataFields, DynamicPartitionMetadatas, Opt, Ptr, Rep,
      Field
<1>4. ASSUME NEW m, m = [n \in Names(DynamicPartitionMetadataFields) |-> m[n]],
             \A f \in DynamicPartitionMetadataFields :
               m[f.name] \in Slot(f.label, f.kind)
      PROVE  m \in DynamicPartitionMetadatas
  BY <1>4, KindValues, PartValues, LabelSlots
  DEF DynamicPartitionMetadataFields, DynamicPartitionMetadatas, Opt, Ptr, Rep,
      Field, Names
<1> QED
  BY <1>1, <1>2, <1>3, <1>4 DEF Tabled, AreRecords

LEMMA ApexInfoTabled == Tabled(ApexInfos, ApexInfoFields)
<1>1. IsTable(ApexInfoFields)
  BY KindIsMessage, AllMessageTypes
  DEF IsTable, ApexInfoFields, Opt, Field, Labels, Flat, Varied
<1>2. ASSUME NEW m \in ApexInfos
      PROVE  m = [n \in Names(ApexInfoFields) |-> m[n]]
  BY DEF ApexInfoFields, ApexInfos, Opt, Field, Names
<1>3. ASSUME NEW m \in ApexInfos, NEW f \in ApexInfoFields
      PROVE  m[f.name] \in Slot(f.label, f.kind)
  BY KindValues, PartValues, LabelSlots
  DEF ApexInfoFields, ApexInfos, Opt, Field
<1>4. ASSUME NEW m, m = [n \in Names(ApexInfoFields) |-> m[n]],
             \A f \in ApexInfoFields : m[f.name] \in Slot(f.label, f.kind)
      PROVE  m \in ApexInfos
  BY <1>4, KindValues, PartValues, LabelSlots
  DEF ApexInfoFields, ApexInfos, Opt, Field, Names
<1> QED
  BY <1>1, <1>2, <1>3, <1>4 DEF Tabled, AreRecords

LEMMA ApexMetadataTabled == Tabled(ApexMetadatas, ApexMetadataFields)
<1>1. IsTable(ApexMetadataFields)
  BY KindIsMessage, AllMessageTypes
  DEF IsTable, ApexMetadataFields, Rep, Field, Labels, Flat, Varied
<1>2. ASSUME NEW m \in ApexMetadatas
      PROVE  m = [n \in Names(ApexMetadataFields) |-> m[n]]
  BY DEF ApexMetadataFields, ApexMetadatas, Rep, Field, Names
<1>3. ASSUME NEW m \in ApexMetadatas, NEW f \in ApexMetadataFields
      PROVE  m[f.name] \in Slot(f.label, f.kind)
  BY KindValues, PartValues, LabelSlots
  DEF ApexMetadataFields, ApexMetadatas, Rep, Field
<1>4. ASSUME NEW m, m = [n \in Names(ApexMetadataFields) |-> m[n]],
             \A f \in ApexMetadataFields : m[f.name] \in Slot(f.label, f.kind)
      PROVE  m \in ApexMetadatas
  BY <1>4, KindValues, PartValues, LabelSlots
  DEF ApexMetadataFields, ApexMetadatas, Rep, Field, Names
<1> QED
  BY <1>1, <1>2, <1>3, <1>4 DEF Tabled, AreRecords

LEMMA DeltaArchiveManifestTabled ==
  Tabled(DeltaArchiveManifests, DeltaArchiveManifestFields)
<1>1. IsTable(DeltaArchiveManifestFields)
  BY KindIsMessage, AllMessageTypes
  DEF IsTable, DeltaArchiveManifestFields, Opt, Ptr, Rep, Field, Labels, Flat,
      Varied
<1>2. ASSUME NEW m \in DeltaArchiveManifests
      PROVE  m = [n \in Names(DeltaArchiveManifestFields) |-> m[n]]
  BY DEF DeltaArchiveManifestFields, DeltaArchiveManifests, Opt, Ptr, Rep, Field,
         Names
<1>3. ASSUME NEW m \in DeltaArchiveManifests, NEW f \in DeltaArchiveManifestFields
      PROVE  m[f.name] \in Slot(f.label, f.kind)
  BY KindValues, PartValues, LabelSlots
  DEF DeltaArchiveManifestFields, DeltaArchiveManifests, Opt, Ptr, Rep, Field
<1>4. ASSUME NEW m, m = [n \in Names(DeltaArchiveManifestFields) |-> m[n]],
             \A f \in DeltaArchiveManifestFields :
               m[f.name] \in Slot(f.label, f.kind)
      PROVE  m \in DeltaArchiveManifests
  BY <1>4, KindValues, PartValues, LabelSlots
  DEF DeltaArchiveManifestFields, DeltaArchiveManifests, Opt, Ptr, Rep, Field, Names
<1> QED
  BY <1>1, <1>2, <1>3, <1>4 DEF Tabled, AreRecords

LEMMA MessagesTabled == \A t \in MessageTypes : Tabled(Messages(t), Fields[t])
BY AllMessageTypes, MessageValues, TableValues,
   ExtentTabled, SignaturesTabled, SignatureTabled,
   PartitionInfoTabled, InstallOperationTabled, CowMergeOperationTabled,
   PartitionUpdateTabled, DynamicPartitionGroupTabled, VABCFeatureSetTabled,
   DynamicPartitionMetadataTabled, ApexInfoTabled, ApexMetadataTabled,
   DeltaArchiveManifestTabled

\* Put stores a value of the field's kind; what the other fields hold stays.
LEMMA PutTyped ==
  ASSUME NEW t \in MessageTypes, NEW f \in Fields[t], NEW m \in Messages(t),
         NEW v \in Values(f.kind)
  PROVE  Put(m, f, v) \in Messages(t)
<1> DEFINE F == Fields[t]
           x == CASE f.label = "rep" -> Append(m[f.name], v)
                  [] f.label = "ptr" -> <<v>>
                  [] OTHER           -> v
           p == [m EXCEPT ![f.name] = x]
<1>1. IsTable(F) /\ AreRecords(Messages(t), F)
  BY MessagesTabled DEF Tabled
<1>2. Put(m, f, v) = p
  BY DEF Put
<1>3. /\ m = [n \in Names(F) |-> m[n]]
      /\ \A g \in F : m[g.name] \in Slot(g.label, g.kind)
  BY <1>1 DEF AreRecords
<1>4. x \in Slot(f.label, f.kind)
  <2>1. f.label \in Labels /\ m[f.name] \in Slot(f.label, f.kind)
    BY <1>1, <1>3 DEF IsTable
  <2>2. CASE f.label = "rep"
    <3>1. m[f.name] \in Seq(Values(f.kind))
      BY <2>1, <2>2, LabelSlots
    <3>2. Append(m[f.name], v) \in Seq(Values(f.kind))
      BY <3>1
    <3> QED
      BY <2>2, <3>2, LabelSlots
  <2>3. CASE f.label = "ptr"
    <3>1. <<v>> \in Maybe(Values(f.kind))
      BY DEF Maybe
    <3> QED
      BY <2>3, <3>1, LabelSlots
  <2>4. CASE f.label \in {"opt", "req"}
    BY <2>4, LabelSlots
  <2> QED
    BY <2>1, <2>2, <2>3, <2>4 DEF Labels
<1> HIDE DEF x
<1>5. f.name \in Names(F) /\ DOMAIN m = Names(F)
  BY <1>3 DEF Names
<1>6. p[f.name] = x /\ \A n \in Names(F) : n # f.name => p[n] = m[n]
  BY <1>5
<1>7. p = [n \in Names(F) |-> p[n]]
  BY <1>5
<1>8. ASSUME NEW g \in F
      PROVE  p[g.name] \in Slot(g.label, g.kind)
  <2>1. CASE g = f
    BY <1>4, <1>6, <2>1
  <2>2. CASE g # f
    <3>1. g.name # f.name /\ g.name \in Names(F)
      BY <1>1, <2>2 DEF IsTable, Names
    <3> QED
      BY <1>3, <1>6, <3>1
  <2> QED
    BY <2>1, <2>2
<1> HIDE DEF p
<1> QED
  BY <1>1, <1>2, <1>7, <1>8 DEF AreRecords

\* A new message has no messages in it.
LEMMA NewTyped ==
  ASSUME NEW t \in MessageTypes
  PROVE  New(t) \in Messages(t)
<1> DEFINE F    == Fields[t]
           Z(f) == CASE f.label \in {"ptr", "rep"} \/ f.kind = "bytes" -> <<>>
                     [] f.label \in {"opt", "req"} /\ f.kind = "bool" -> FALSE
                     [] OTHER -> 0
           At(n) == CHOOSE g \in F : g.name = n
<1>1. IsTable(F) /\ AreRecords(Messages(t), F)
  BY MessagesTabled DEF Tabled
<1>2. New(t) = [n \in Names(F) |-> Z(At(n))]
  BY DEF New, Names
<1>3. ASSUME NEW f \in F
      PROVE  At(f.name) = f
  <2>1. \A g \in F : g.name = f.name => g = f
    BY <1>1 DEF IsTable
  <2> QED
    BY <2>1
<1>4. ASSUME NEW f \in F
      PROVE  Z(f) \in Slot(f.label, f.kind)
  <2>1. /\ f.label \in Labels /\ f.kind \in Flat \union {"bytes"} \union MessageTypes
        /\ f.kind \in MessageTypes => f.label \in {"ptr", "rep"}
    BY <1>1 DEF IsTable
  <2>2. CASE f.label \in {"ptr", "rep"}
    <3>1. Z(f) = <<>>
      BY <2>2
    <3>2. <<>> \in Maybe(Values(f.kind)) /\ <<>> \in Seq(Values(f.kind))
      BY DEF Maybe
    <3> QED
      BY <2>2, <3>1, <3>2, LabelSlots
  <2>3. CASE f.label \notin {"ptr", "rep"} /\ f.kind = "bytes"
    <3>1. Z(f) = <<>> /\ <<>> \in Strings
      BY <2>3 DEF Strings
    <3> QED
      BY <2>1, <2>3, <3>1, LabelSlots, KindValues DEF Labels
  <2>4. CASE f.label \notin {"ptr", "rep"} /\ f.kind = "bool"
    <3>1. Z(f) = FALSE /\ f.label \in {"opt", "req"}
      BY <2>1, <2>4 DEF Labels
    <3>2. Slot(f.label, f.kind) = BOOLEAN
      BY <2>4, <3>1, LabelSlots, KindValues
    <3> QED
      BY <3>1, <3>2
  <2>5. CASE /\ f.label \notin {"ptr", "rep"}
             /\ f.kind \in {"uint64", "int64", "uint32", "int32", "fixed32"}
    <3>1. Z(f) = 0 /\ f.label \in {"opt", "req"}
      BY <2>1, <2>5 DEF Labels
    <3>2. 0 \in Words /\ 0 \in Halves
      BY WidthAssumption DEF Words, Halves
    <3>3. 0 \in Values(f.kind)
      BY <2>5, <3>2, KindValues
    <3> QED
      BY <3>1, <3>3, LabelSlots
  <2> QED
    BY <2>1, <2>2, <2>3, <2>4, <2>5 DEF Flat, Varied
<1> HIDE DEF Z, At
<1>5. New(t) = [n \in Names(F) |-> New(t)[n]]
  BY <1>2
<1>6. ASSUME NEW f \in F
      PROVE  New(t)[f.name] \in Slot(f.label, f.kind)
  <2>1. f.name \in Names(F)
    BY DEF Names
  <2>2. New(t)[f.name] = Z(At(f.name))
    BY <1>2, <2>1
  <2> QED
    BY <1>3, <1>4, <2>2
<1> QED
  BY <1>1, <1>5, <1>6 DEF AreRecords

-----------------------------------------------------------------------------
(* Types.                                                                  *)

\* The parts of a call that are not.
Parts == {"type", "at", "m", "got"}

IsFrame(c) ==
  /\ Parts \subseteq DOMAIN c /\ c.type \in MessageTypes
  /\ c.m \in Messages(c.type) /\ c.got \subseteq Names(Fields[c.type])

\* What a call makes is what its caller has a field for.
Framed(s) ==
  \A k \in DOMAIN s :
    /\ IsFrame(s[k])
    /\ k > 1 => s[k].at \in Fields[s[k-1].type] /\ s[k].at.kind = s[k].type

\* The field whose value is read is one of the top call's message, and what is
\* read is how its kind is encoded.
Switched ==
  /\ what = "value" => field \in Fields[top.type] /\ field.kind \in Varied
  /\ what = "length" => /\ field \in Fields[top.type]
                        /\ field.kind \in {"bytes"} \union MessageTypes

Counted ==
  /\ pc \in {"read", "use"}
  /\ what \in {"tag", "value", "length", "skipTag", "skipValue", "skipLength"}
  /\ digits \in 0 .. MaxDigits /\ weight \in Words
  /\ verdict \in {"run", "ok", "error"}

TInv == Framed(calls) /\ Switched /\ Counted

LEMMA TopFrame ==
  ASSUME SInv, Framed(calls)
  PROVE  IsFrame(top) /\ IsTable(Fields[top.type])
<1>1. IsFrame(top)
  BY TopCall DEF Framed
<1> QED
  BY <1>1, MessagesTabled DEF IsFrame, Tabled

\* The top call goes on with another message of its type.
LEMMA FrameMoves ==
  ASSUME SInv, Framed(calls), NEW c, IsFrame(c), c.type = top.type, c.at = top.at,
         IsCall(c), c.base = top.base, c.l = top.l
  PROVE  LET s == [calls EXCEPT ![Len(calls)] = c] IN
         Framed(s) /\ Last(s).type = top.type
<1> DEFINE n == Len(calls)
           s == [calls EXCEPT ![n] = c]
<1>1. n \in Nat \ {0} /\ DOMAIN calls = 1 .. n /\ top = calls[n]
  BY TopCall
<1>2. Last(s) = c
  BY TopMoves
<1>3. DOMAIN s = 1 .. n /\ s[n] = c /\ \A k \in 1 .. n : k # n => s[k] = calls[k]
  <2> HIDE DEF n
  <2> QED
    BY <1>1
<1> HIDE DEF s, n
<1>4. ASSUME NEW k \in DOMAIN s
      PROVE  /\ IsFrame(s[k])
             /\ k > 1 => s[k].at \in Fields[s[k-1].type] /\ s[k].at.kind = s[k].type
  <2>1. /\ IsFrame(calls[k])
        /\ k > 1 => /\ calls[k].at \in Fields[calls[k-1].type]
                    /\ calls[k].at.kind = calls[k].type
    BY <1>1, <1>3 DEF Framed
  <2>2. k > 1 => s[k-1] = calls[k-1]
    BY <1>1, <1>3
  <2>3. CASE k = n
    BY <1>1, <1>3, <2>1, <2>2, <2>3
  <2>4. CASE k # n
    BY <1>3, <2>1, <2>2, <2>4
  <2> QED
    BY <2>3, <2>4
<1> QED
  BY <1>2, <1>4 DEF Framed, s, n

LEMMA SeekFrames ==
  ASSUME SInv, Framed(calls), NEW i \in Nat
  PROVE  Framed(Seek(i)) /\ Last(Seek(i)).type = top.type
<1> DEFINE c == [top EXCEPT !.iNdEx = i]
<1>1. IsCall(top) /\ IsFrame(top) /\ top = calls[Len(calls)]
  BY TopCall, TopFrame
<1>2. IsCall(c) /\ c.base = top.base /\ c.l = top.l
  BY <1>1 DEF IsCall, Numbers
<1>3. IsFrame(c) /\ c.type = top.type /\ c.at = top.at
  BY <1>1 DEF IsFrame, Parts
<1>4. Seek(i) = [calls EXCEPT ![Len(calls)] = c]
  BY <1>1 DEF Seek
<1> HIDE DEF c
<1> QED
  BY <1>2, <1>3, <1>4, FrameMoves

LEMMA StoredFrames ==
  ASSUME SInv, Framed(calls), NEW f \in Fields[top.type], NEW v \in Values(f.kind),
         NEW i \in Nat
  PROVE  Framed(Stored(f, v, i)) /\ Last(Stored(f, v, i)).type = top.type
<1> DEFINE m == Put(top.m, f, v)
           g == top.got \union {f.name}
           n == Len(calls)
           c == [[[top EXCEPT !.m = m] EXCEPT !.got = g] EXCEPT !.iNdEx = i]
<1>1. /\ IsCall(top) /\ IsFrame(top) /\ top = calls[n] /\ n \in DOMAIN calls
  BY TopCall, TopFrame
<1>2. m \in Messages(top.type) /\ g \subseteq Names(Fields[top.type])
  BY <1>1, PutTyped DEF IsFrame, Names
<1>3. Stored(f, v, i) = [calls EXCEPT ![n].m = m, ![n].got = g, ![n].iNdEx = i]
  BY DEF Stored
<1> HIDE DEF m, g, n
<1>4. Stored(f, v, i) = [calls EXCEPT ![n] = c]
  BY <1>1, <1>3
<1>5. IsCall(c) /\ c.base = top.base /\ c.l = top.l
  BY <1>1 DEF IsCall, Numbers
<1>6. IsFrame(c) /\ c.type = top.type /\ c.at = top.at
  BY <1>1, <1>2 DEF IsFrame, Parts
<1> HIDE DEF c
<1> QED
  BY <1>4, <1>5, <1>6, FrameMoves DEF n

\* A call for a field of the top call's message.
LEMMA CallFrames ==
  ASSUME SInv, Framed(calls), NEW i \in Nat, NEW c, IsFrame(c),
         c.at \in Fields[top.type], c.at.kind = c.type
  PROVE  Framed(Append(Seek(i), c))
<1> DEFINE t == Seek(i)
           s == Append(t, c)
<1>1. Framed(t) /\ Last(t).type = top.type /\ IsStack(t)
  BY SeekFrames, SeekMoves
<1> HIDE DEF t
<1>2. PICK S : t \in Seq(S)
  BY <1>1 DEF IsStack
<1>3. /\ Len(t) \in Nat \ {0} /\ DOMAIN t = 1 .. Len(t)
      /\ DOMAIN s = 1 .. Len(t) + 1
      /\ s[Len(t) + 1] = c /\ \A k \in 1 .. Len(t) : s[k] = t[k]
  <2>1. t \in Seq(S \union {c}) /\ Len(t) \in Nat \ {0}
    BY <1>1, <1>2 DEF IsStack
  <2> QED
    BY <2>1
<1> HIDE DEF s
<1>4. ASSUME NEW k \in DOMAIN s
      PROVE  /\ IsFrame(s[k])
             /\ k > 1 => s[k].at \in Fields[s[k-1].type] /\ s[k].at.kind = s[k].type
  <2>1. CASE k = Len(t) + 1
    <3>1. s[k] = c /\ s[k-1] = Last(t)
      BY <1>3, <2>1 DEF Last
    <3> QED
      BY <1>1, <3>1
  <2>2. CASE k \in DOMAIN t
    <3>1. s[k] = t[k] /\ (k > 1 => s[k-1] = t[k-1])
      BY <1>3, <2>2
    <3> QED
      BY <1>1, <2>2, <3>1 DEF Framed
  <2> QED
    BY <1>3, <1>4, <2>1, <2>2
<1> QED
  BY <1>4 DEF s, t, Framed

\* The caller has a field for the message that is returned.
LEMMA ReturnFrames ==
  ASSUME SInv, Framed(calls), Len(calls) > 1
  PROVE  LET n == Len(calls) - 1 IN
         Framed([Front(calls) EXCEPT ![n].m = Put(calls[n].m, top.at, top.m)])
<1> DEFINE n == Len(calls) - 1
           v == Put(calls[n].m, top.at, top.m)
           c == [calls[n] EXCEPT !.m = v]
           s == [Front(calls) EXCEPT ![n].m = v]
<1>1. PICK S : calls \in Seq(S)
  BY DEF SInv, IsStack
<1>2. n \in Nat \ {0} /\ Len(calls) = n + 1 /\ DOMAIN calls = 1 .. n + 1
      /\ top = calls[n + 1]
  BY TopCall
<1>3. /\ Len(Front(calls)) = n /\ DOMAIN Front(calls) = 1 .. n
      /\ \A k \in 1 .. n : Front(calls)[k] = calls[k]
  BY <1>1, <1>2 DEF Front
<1>4. /\ IsFrame(calls[n]) /\ IsFrame(top)
      /\ top.at \in Fields[calls[n].type] /\ top.at.kind = top.type
  BY <1>2 DEF Framed
<1>5. v \in Messages(calls[n].type)
  <2>1. top.m \in Values(top.at.kind)
    BY <1>4, KindIsMessage DEF IsFrame
  <2> QED
    BY <1>4, <2>1, PutTyped DEF IsFrame
<1> HIDE DEF v, n
<1>6. s = [Front(calls) EXCEPT ![n] = c]
  BY <1>2, <1>3
<1>7. DOMAIN s = 1 .. n /\ s[n] = c /\ \A k \in 1 .. n : k # n => s[k] = calls[k]
  BY <1>2, <1>3, <1>6
<1>8. IsFrame(c) /\ c.type = calls[n].type /\ c.at = calls[n].at
  BY <1>4, <1>5 DEF IsFrame, Parts
<1> HIDE DEF s, c
<1>9. ASSUME NEW k \in DOMAIN s
      PROVE  /\ IsFrame(s[k])
             /\ k > 1 => s[k].at \in Fields[s[k-1].type] /\ s[k].at.kind = s[k].type
  <2>1. /\ IsFrame(calls[k])
        /\ k > 1 => /\ calls[k].at \in Fields[calls[k-1].type]
                    /\ calls[k].at.kind = calls[k].type
    BY <1>2, <1>7 DEF Framed
  <2>2. k > 1 => s[k-1] = calls[k-1]
    BY <1>2, <1>7
  <2>3. CASE k = n
    BY <1>7, <1>8, <2>1, <2>2, <2>3
  <2>4. CASE k # n
    BY <1>7, <2>1, <2>2, <2>4
  <2> QED
    BY <2>3, <2>4
<1> QED
  BY <1>9 DEF Framed, s, v, n

\* A step to the next varint, none of a field's value.
LEMMA OnTyped ==
  ASSUME TInv, Framed(calls'), NEW w \in {"tag", "skipTag", "skipValue", "skipLength"},
         Read(w), verdict' = verdict
  PROVE  TInv'
<1>1. 1 \in Words
  BY WidthAssumption DEF Words
<1>2. 0 \in 0 .. MaxDigits
  BY WidthAssumption
<1> QED
  BY <1>1, <1>2 DEF TInv, Switched, Counted, Read

\* The decoder ends.
LEMMA EndTyped ==
  ASSUME TInv, verdict' \in {"ok", "error"},
         UNCHANGED <<calls, pc, what, digits, weight, field>>
  PROVE  TInv'
BY DEF TInv, Framed, Switched, Counted, top

LEMMA FailTyped ==
  ASSUME TInv, Fail
  PROVE  TInv'
BY EndTyped DEF Fail

LEMMA SkippedTyped ==
  ASSUME SInv, TInv, NEW i \in Int, NEW d \in Nat, Skipped(i, d)
  PROVE  TInv'
<1>1. CASE i < 0 \/ (d = 0 /\ i > top.l)
  BY <1>1, FailTyped DEF Skipped
<1>2. CASE ~(i < 0 \/ (d = 0 /\ i > top.l))
  <2>1. /\ calls' = Seek(i) /\ i \in Nat /\ verdict' = verdict
        /\ Read("tag") \/ Read("skipTag")
    BY <1>2 DEF Skipped
  <2>2. Framed(calls')
    BY <2>1, SeekFrames DEF TInv
  <2> QED
    BY <2>1, <2>2, OnTyped
<1> QED
  BY <1>1, <1>2

LEMMA SkipTyped ==
  ASSUME SInv, TInv, SkipTag \/ SkipValue \/ SkipLength
  PROVE  TInv'
<1>1. /\ top.iNdEx \in Int /\ postIndex \in Int /\ depth \in Nat
      /\ Plus(top.iNdEx, 8) \in Int /\ Plus(top.iNdEx, 4) \in Int
  <2>1. top.iNdEx \in Int /\ postIndex \in Int /\ depth \in Nat
    BY PostIndexTyped DEF SInv, Varints
  <2>2. 8 \in Int /\ 4 \in Int
    OBVIOUS
  <2>3. Plus(top.iNdEx, 8) \in Int /\ Plus(top.iNdEx, 4) \in Int
    BY <2>1, <2>2, PlusTyped, Zenon
  <2> QED
    BY <2>1, <2>3
<1>2. CASE SkipTag
  <2>1. CASE /\ Read("skipValue") \/ Read("skipLength")
             /\ UNCHANGED <<dAtA, calls, preIndex, field, depth, verdict>>
    <3>1. Framed(calls')
      BY <2>1 DEF TInv, Framed
    <3> QED
      BY <2>1, <3>1, OnTyped
  <2>2. CASE Fail
    BY <2>2, FailTyped
  <2>3. CASE \E i \in Int, d \in Nat : Skipped(i, d)
    BY <2>3, SkippedTyped
  <2>4. depth = 0 \/ depth - 1 \in Nat
    BY <1>1
  <2> QED
    BY <1>1, <1>2, <2>1, <2>2, <2>3, <2>4 DEF SkipTag
<1>3. CASE SkipValue
  BY <1>1, <1>3, SkippedTyped DEF SkipValue
<1>4. CASE SkipLength
  BY <1>1, <1>4, SkippedTyped, FailTyped DEF SkipLength
<1> QED
  BY <1>2, <1>3, <1>4

LEMMA DigitTyped ==
  ASSUME SInv, TInv, Digit
  PROVE  TInv'
<1>1. /\ calls' = Seek(top.iNdEx + 1) /\ UNCHANGED <<what, field, verdict>>
      /\ digits < MaxDigits /\ digits' = digits + 1
      /\ weight' = (weight * Base) % Word
      /\ pc' \in {"read", "use"}
  BY DEF Digit
<1>2. top.iNdEx + 1 \in Nat
  BY PostIndexTyped
<1>3. Framed(calls') /\ top'.type = top.type
  BY <1>1, <1>2, SeekFrames DEF TInv, top
<1>4. weight' \in Words
  <2>1. weight \in Nat /\ Base \in Nat
    BY WordFacts DEF TInv, Counted
  <2>2. weight * Base \in Nat
    BY <2>1
  <2> QED
    BY <1>1, <2>2, WordFacts
<1>5. digits' \in 0 .. MaxDigits
  BY <1>1, WidthAssumption DEF TInv, Counted
<1> QED
  BY <1>1, <1>3, <1>4, <1>5 DEF TInv, Switched, Counted

\* A field of the table: how its value is encoded is what its kind says.
LEMMA KnownTyped ==
  ASSUME SInv, TInv, KnownField
  PROVE  TInv'
<1>1. FieldOf \in Fields[top.type]
  BY DEF KnownField, Known, FieldOf
<1>2. FieldOf.kind \in Flat \union {"bytes"} \union MessageTypes
  BY <1>1, TopFrame DEF TInv, IsTable
<1>3. /\ field' = FieldOf /\ calls' = calls /\ verdict' = verdict
      /\ wireType = WireType(FieldOf.kind) /\ FieldOf.kind # "fixed32"
      /\ Read(IF wireType = 0 THEN "value" ELSE "length")
  BY DEF KnownField
<1>4. IF wireType = 0 THEN FieldOf.kind \in Varied
                      ELSE FieldOf.kind \in {"bytes"} \union MessageTypes
  BY <1>2, <1>3 DEF WireType, Flat, Varied
<1>5. top' = top /\ Framed(calls')
  BY <1>3 DEF top, TInv, Framed
<1>6. Switched'
  BY <1>1, <1>3, <1>4, <1>5 DEF Switched, Read
<1>7. Counted'
  <2>1. 1 \in Words
    BY WidthAssumption DEF Words
  <2>2. 0 \in 0 .. MaxDigits
    BY WidthAssumption
  <2> QED
    BY <1>3, <2>1, <2>2 DEF TInv, Counted, Read
<1> QED
  BY <1>5, <1>6, <1>7 DEF TInv

\* What a scalar field gets from a varint is of its kind.
LEMMA ConvertedTyped ==
  ASSUME SInv, NEW kind \in Varied
  PROVE  Converted(kind) \in Values(kind)
<1>1. acc \in Words /\ acc % Half \in Halves
  <2>1. acc \in Words /\ acc \in Int /\ Half \in Nat \ {0}
    BY WordFacts, WidthAssumption DEF SInv, Varints
  <2> QED
    BY <2>1 DEF Halves
<1>2. CASE kind = "bool"
  <2>1. Converted(kind) = (acc # 0)
    BY <1>2 DEF Converted
  <2>2. Converted(kind) \in BOOLEAN
    BY <2>1
  <2> QED
    BY <1>2, <2>2, KindValues
<1>3. CASE kind \in {"uint32", "int32"}
  BY <1>1, <1>3, KindValues DEF Converted
<1>4. CASE kind \in {"uint64", "int64"}
  BY <1>1, <1>4, KindValues DEF Converted
<1> QED
  BY <1>2, <1>3, <1>4 DEF Varied

\* Four bytes make a number of 32 bits.
LEMMA Fixed32Typed ==
  ASSUME SInv, top.iNdEx + 4 <= top.l
  PROVE  Fixed32 \in Halves
<1> DEFINE b(k) == dAtA[top.base + top.iNdEx + 1 + k]
           w    == (2 * Base) % Half
<1>1. \A k \in 0 .. 3 : b(k) \in Nat
  <2> SUFFICES ASSUME NEW k \in 0 .. 3
               PROVE  b(k) \in Nat
    OBVIOUS
  <2>1. IsCall(top) /\ top.base + top.l <= Len(dAtA)
    BY TopCall
  <2>2. top.base + top.iNdEx + 1 + k \in 1 .. Len(dAtA)
    <3> DEFINE o == top.base
               i == top.iNdEx
               l == top.l
               n == Len(dAtA)
    <3>1. o \in Nat /\ i \in Nat /\ l \in Nat /\ n \in Nat
      BY <2>1 DEF IsCall, SInv, Varints, Strings
    <3>2. o + l <= n /\ i + 4 <= l
      BY <2>1
    <3> HIDE DEF o, i, l, n
    <3>3. o + i + 1 + k \in 1 .. n
      BY <3>1, <3>2
    <3> QED
      BY <3>3 DEF o, i, n
  <2>3. b(k) \in Bytes
    BY <2>2 DEF SInv, Varints, Strings
  <2> QED
    BY <2>3, WidthAssumption DEF Bytes
<1>2. Half \in Nat \ {0} /\ w \in Nat
  BY WidthAssumption
<1> HIDE DEF b, w
<1>3. b(0) \in Nat /\ b(1) \in Nat /\ b(2) \in Nat /\ b(3) \in Nat
  BY <1>1
<1>4. \A x, y \in Nat : x * y \in Nat /\ x + y \in Nat /\ x % Half \in Nat
  BY <1>2
<1>5. (b(2) + w * b(3)) % Half \in Nat
  BY <1>2, <1>3, <1>4
<1>6. b(1) + w * ((b(2) + w * b(3)) % Half) \in Nat
  BY <1>2, <1>3, <1>4, <1>5
<1>7. b(0) + w * (b(1) + w * ((b(2) + w * b(3)) % Half)) \in Nat
  BY <1>2, <1>3, <1>4, <1>6
<1>8. \A x \in Nat : x % Half \in Halves
  BY <1>2 DEF Halves
<1> QED
  BY <1>7, <1>8 DEF Fixed32, b, w

LEMMA StoreTyped ==
  ASSUME SInv, TInv, Fixed32Field \/ Value \/ BytesField
  PROVE  TInv'
<1>1. CASE Fixed32Field
  <2>1. CASE Fail
    BY <2>1, FailTyped
  <2>2. CASE ~Fail
    <3>1. /\ top.iNdEx + 4 <= top.l /\ Known /\ FieldOf.kind = "fixed32"
          /\ calls' = Stored(FieldOf, Fixed32, top.iNdEx + 4)
          /\ Loop(top.iNdEx + 4)
      <4>1. IsCall(top)
        BY TopCall
      <4> QED
        BY <1>1, <2>2, <4>1 DEF Fixed32Field, IsCall
    <3>2. FieldOf \in Fields[top.type] /\ Fixed32 \in Values(FieldOf.kind)
      BY <3>1, Fixed32Typed, KindValues DEF Known, FieldOf
    <3>3. top.iNdEx + 4 \in Nat
      BY PostIndexTyped
    <3>4. Framed(calls')
      BY <3>1, <3>2, <3>3, StoredFrames DEF TInv
    <3> QED
      BY <3>1, <3>4, OnTyped DEF Loop
  <2> QED
    BY <2>1, <2>2
<1>2. CASE Value
  <2>1. field \in Fields[top.type] /\ field.kind \in Varied
    BY <1>2 DEF Value, Running, TInv, Switched
  <2>2. Converted(field.kind) \in Values(field.kind) /\ top.iNdEx \in Nat
    BY <2>1, ConvertedTyped, PostIndexTyped
  <2>3. Framed(calls') /\ Loop(top.iNdEx)
    BY <1>2, <2>1, <2>2, StoredFrames DEF Value, TInv
  <2> QED
    BY <2>3, OnTyped DEF Loop
<1>3. CASE BytesField
  <2> DEFINE bytes == SubSeq(dAtA, top.base + top.iNdEx + 1, top.base + postIndex)
  <2>1. /\ field \in Fields[top.type] /\ field.kind = "bytes" /\ GoodLength
        /\ calls' = Stored(field, bytes, postIndex) /\ Loop(postIndex)
    BY <1>3 DEF BytesField, Running, TInv, Switched
  <2>2. postIndex \in Nat /\ top.iNdEx \in Nat
    BY <2>1, PostIndexTyped DEF GoodLength
  <2>3. bytes \in Strings
    <3>1. /\ top.base \in Nat /\ top.base + top.l <= Len(dAtA) /\ postIndex <= top.l
          /\ top.l \in Nat
      BY <2>1, TopCall DEF IsCall, GoodLength
    <3>2. dAtA \in Seq(Bytes) /\ Len(dAtA) \in Nat
      BY DEF SInv, Varints, Strings
    <3>3. \A j \in (top.base + top.iNdEx + 1) .. (top.base + postIndex) :
            j \in 1 .. Len(dAtA)
      BY <2>2, <3>1, <3>2
    <3> QED
      BY <2>2, <3>1, <3>2, <3>3 DEF Strings
  <2> HIDE DEF bytes
  <2>4. Framed(calls')
    BY <2>1, <2>2, <2>3, KindValues, StoredFrames DEF TInv
  <2> QED
    BY <2>1, <2>4, OnTyped DEF Loop
<1> QED
  BY <1>1, <1>2, <1>3

\* A message is made, or is the one behind the pointer already.
LEMMA MessageTyped ==
  ASSUME SInv, TInv, MessageField
  PROVE  TInv'
<1> DEFINE held == top.m[field.name]
           m    == IF field.label = "ptr" /\ held # <<>> THEN held[1]
                   ELSE New(field.kind)
           c    == Call(field.kind, top.base + top.iNdEx, postIndex - top.iNdEx, field, m)
<1>1. /\ GoodLength /\ field.kind # "bytes"
      /\ calls' = Append(Seek(postIndex), c) /\ Loop(0)
  BY DEF MessageField
<1>2. field \in Fields[top.type] /\ field.kind \in MessageTypes
  BY <1>1 DEF MessageField, Running, TInv, Switched
<1>3. postIndex \in Nat
  BY <1>1, PostIndexTyped DEF GoodLength
<1>4. m \in Messages(field.kind)
  <2>1. CASE field.label = "ptr" /\ held # <<>>
    <3>1. top.type \in MessageTypes /\ top.m \in Messages(top.type)
      BY TopFrame DEF TInv, IsFrame
    <3>2. held \in Slot(field.label, field.kind)
      BY <1>2, <3>1, MessagesTabled DEF Tabled, AreRecords
    <3> HIDE DEF held
    <3>3. held \in Seq(Messages(field.kind))
      BY <1>2, <2>1, <3>2, LabelSlots, KindIsMessage DEF Maybe
    <3>4. held[1] \in Messages(field.kind)
      BY <2>1, <3>3
    <3> QED
      BY <2>1, <3>4
  <2>2. CASE ~(field.label = "ptr" /\ held # <<>>)
    BY <1>2, <2>2, NewTyped
  <2> QED
    BY <2>1, <2>2
<1> HIDE DEF m
<1>5. IsFrame(c) /\ c.at = field /\ c.type = field.kind
  BY <1>2, <1>4 DEF Call, IsFrame, Parts
<1> HIDE DEF c
<1>6. Framed(calls')
  BY <1>1, <1>2, <1>3, <1>5, CallFrames DEF TInv
<1> QED
  BY <1>1, <1>6, OnTyped DEF Loop

LEMMA InitTInv == Init => TInv
<1> SUFFICES ASSUME Init
             PROVE  TInv
  OBVIOUS
<1> DEFINE t == "DeltaArchiveManifest"
           c == Call(t, 0, Len(dAtA), NoField, New(t))
<1>1. t \in MessageTypes
  BY AllMessageTypes
<1>2. New(t) \in Messages(t)
  BY <1>1, NewTyped
<1>3. IsFrame(c)
  BY <1>1, <1>2 DEF Call, IsFrame, Parts
<1>4. calls = <<c>>
  BY DEF Init
<1> HIDE DEF c
<1>5. Framed(calls)
  BY <1>3, <1>4 DEF Framed
<1>6. 1 \in Words /\ 0 \in 0 .. MaxDigits
  BY WidthAssumption DEF Words
<1> QED
  BY <1>5, <1>6 DEF Init, TInv, Switched, Counted

LEMMA NextTInv == SInv /\ TInv /\ [Next]_vars => TInv'
<1> SUFFICES ASSUME SInv, TInv, [Next]_vars
             PROVE  TInv'
  OBVIOUS
<1>1. CASE Digit
  BY <1>1, DigitTyped
<1>2. CASE BadVarint \/ RejectTag \/ BadLength \/ Incomplete
  BY <1>2, FailTyped DEF BadVarint, RejectTag, BadLength, Incomplete
<1>3. CASE UnknownField
  <2>1. calls' = Seek(preIndex) /\ Read("skipTag") /\ verdict' = verdict
    BY <1>3 DEF UnknownField
  <2>2. Framed(calls')
    BY <2>1, SeekFrames DEF SInv, Varints, TInv
  <2> QED
    BY <2>1, <2>2, OnTyped
<1>4. CASE KnownField
  BY <1>4, KnownTyped
<1>5. CASE Fixed32Field \/ Value \/ BytesField
  BY <1>5, StoreTyped
<1>6. CASE MessageField
  BY <1>6, MessageTyped
<1>7. CASE ReturnToCaller
  <2>1. /\ Len(calls) > 1
        /\ \E i : Loop(i)
        /\ LET n == Len(calls) - 1 IN
           calls' = [Front(calls) EXCEPT ![n].m = Put(calls[n].m, top.at, top.m)]
    BY <1>7 DEF ReturnToCaller
  <2>2. Framed(calls')
    BY <2>1, ReturnFrames DEF TInv
  <2> QED
    BY <2>1, <2>2, OnTyped DEF Loop
<1>8. CASE Return
  BY <1>8, EndTyped DEF Return
<1>9. CASE SkipTag \/ SkipValue \/ SkipLength
  BY <1>9, SkipTyped
<1>10. CASE UNCHANGED vars
  BY <1>10 DEF vars, TInv, Framed, Switched, Counted, top
<1> QED
  BY <1>1, <1>2, <1>3, <1>4, <1>5, <1>6, <1>7, <1>8, <1>9, <1>10 DEF Next

\* Whatever the bytes, each call makes a message of its own type, of values
\* that the fields of its struct hold: no value is stored in a field of another
\* kind, no message handed to a caller that has no field for it.
THEOREM DecodesTypedMessages == Spec => []TypeOK
<1>1. SInv /\ TInv => TypeOK
  <2> SUFFICES ASSUME SInv, TInv
               PROVE  TypeOK
    OBVIOUS
  <2>1. ASSUME NEW k \in DOMAIN calls
        PROVE  /\ calls[k].type \in MessageTypes
               /\ calls[k].m \in Messages(calls[k].type)
               /\ {calls[k].base, calls[k].l} \subseteq Nat
               /\ calls[k].iNdEx \in Int
               /\ calls[k].got \subseteq {f.name : f \in Fields[calls[k].type]}
    <3>1. IsFrame(calls[k])
      BY DEF TInv, Framed
    <3>2. IsCall(calls[k])
      BY DEF SInv, Nested
    <3> QED
      BY <3>1, <3>2 DEF IsFrame, IsCall, Names
  <2>2. dAtA \in Strings /\ calls # <<>> /\ acc \in Words
        /\ preIndex \in Nat /\ depth \in Nat
    BY DEF SInv, Varints, IsStack
  <2> QED
    BY <2>1, <2>2 DEF TypeOK, TInv, Counted
<1> QED
  BY <1>1, InitSInv, NextSInv, InitTInv, NextTInv, PTL DEF Spec

-----------------------------------------------------------------------------
(* The decoder gets on.                                                    *)

\* The index is an int, and behind the beginning of the field as soon as a
\* digit of its tag has been read.
AInv ==
  /\ top.iNdEx < Word \div 2
  /\ preIndex <= top.iNdEx
  /\ pc = "use" \/ what \notin {"tag", "skipTag"} => preIndex < top.iNdEx

\* The first and the last part of Left.
Rest == Len(dAtA) - (top.base + preIndex)
Room == 4 * (Word - top.iNdEx) + Turn

\* A step gets on with less left to do.
Lower ==
  \/ Rest' < Rest
  \/ Rest' = Rest /\ Len(calls') < Len(calls)
  \/ Rest' = Rest /\ Len(calls') = Len(calls) /\ Stage' < Stage
  \/ Rest' = Rest /\ Len(calls') = Len(calls) /\ Stage' = Stage /\ Room' < Room

Advanced == AInv' /\ (verdict' = "run" => Lower)

\* The numbers that Left is made of.
LEMMA Places ==
  ASSUME SInv
  PROVE  /\ top.base \in Nat /\ top.l \in Nat /\ top.iNdEx \in Nat /\ preIndex \in Nat
         /\ Len(dAtA) \in Nat /\ Len(calls) \in Nat /\ top.l < Word \div 2
         /\ top.base + preIndex <= Len(dAtA) /\ Word \in Nat
         /\ Word \div 2 \in Nat /\ Word \div 2 <= Word
<1>1. /\ IsCall(top) /\ top.base + top.l <= Len(dAtA) /\ Len(calls) \in Nat
      /\ preIndex \in Nat /\ preIndex <= top.l
      /\ Len(dAtA) \in Nat /\ Len(dAtA) <= Word \div 2 - 1
  BY TopCall DEF SInv, Varints, Strings, Indices
<1>2. Word \in Nat /\ Word \div 2 \in Nat /\ 2 * (Word \div 2) = Word
  BY WordFacts
<1> QED
  BY <1>1, <1>2 DEF IsCall

LEMMA LeftTyped ==
  SInv /\ AInv => /\ Rest \in Nat /\ Len(calls) \in Nat /\ Stage \in Nat /\ Room \in Nat
                  /\ Left = <<Rest, Len(calls), Stage, Room>>
<1> SUFFICES ASSUME SInv, AInv
             PROVE  /\ Rest \in Nat /\ Len(calls) \in Nat /\ Stage \in Nat /\ Room \in Nat
                    /\ Left = <<Rest, Len(calls), Stage, Room>>
  OBVIOUS
<1>1. Rest \in Nat /\ Len(calls) \in Nat
  BY Places DEF Rest
<1>2. Stage \in Nat /\ Turn \in Nat
  BY DEF Stage, Turn
<1>3. Room \in Nat
  <2>1. Word - top.iNdEx \in Nat
    BY Places DEF AInv
  <2> QED
    BY <1>2, <2>1 DEF Room
<1> QED
  BY <1>1, <1>2, <1>3 DEF Left, Rest, Room

\* Four numbers in order of the first difference.
LEMMA FourBefore ==
  ASSUME NEW a1 \in Nat, NEW a2 \in Nat, NEW a3 \in Nat, NEW a4 \in Nat,
         NEW b1 \in Nat, NEW b2 \in Nat, NEW b3 \in Nat, NEW b4 \in Nat,
         \/ a1 < b1
         \/ a1 = b1 /\ a2 < b2
         \/ a1 = b1 /\ a2 = b2 /\ a3 < b3
         \/ a1 = b1 /\ a2 = b2 /\ a3 = b3 /\ a4 < b4
  PROVE  /\ <<a1, a2, a3, a4>> \in Seq(Nat)
         /\ Before(<<a1, a2, a3, a4>>, <<b1, b2, b3, b4>>)
<1> DEFINE s == <<a1, a2, a3, a4>>
           t == <<b1, b2, b3, b4>>
<1>1. s \in Seq(Nat) /\ DOMAIN t = 1 .. 4
  OBVIOUS
<1>2. /\ s[1] = a1 /\ s[2] = a2 /\ s[3] = a3 /\ s[4] = a4
      /\ t[1] = b1 /\ t[2] = b2 /\ t[3] = b3 /\ t[4] = b4
  OBVIOUS
<1> HIDE DEF s, t
<1>3. PICK k \in 1 .. 4 : s[k] < t[k] /\ \A j \in 1 .. (k - 1) : s[j] = t[j]
  <2>1. CASE a1 < b1
    BY <1>2, <2>1
  <2>2. CASE a1 = b1 /\ a2 < b2
    <3>1. \A j \in 1 .. 1 : j = 1
      OBVIOUS
    <3> QED
      BY <1>2, <2>2, <3>1
  <2>3. CASE a1 = b1 /\ a2 = b2 /\ a3 < b3
    <3>1. \A j \in 1 .. 2 : j = 1 \/ j = 2
      OBVIOUS
    <3> QED
      BY <1>2, <2>3, <3>1
  <2>4. CASE a1 = b1 /\ a2 = b2 /\ a3 = b3 /\ a4 < b4
    <3>1. \A j \in 1 .. 3 : j = 1 \/ j = 2 \/ j = 3
      OBVIOUS
    <3> QED
      BY <1>2, <2>4, <3>1
  <2> QED
    BY <2>1, <2>2, <2>3, <2>4
<1>4. Before(s, t)
  BY <1>1, <1>3 DEF Before
<1> QED
  BY <1>1, <1>4 DEF s, t

\* A field that the call read up to i.
LEMMA FieldAdvances ==
  ASSUME SInv, AInv, NEW i \in Nat, preIndex < i, i < Word \div 2,
         Last(calls').iNdEx = i, Last(calls').base = top.base,
         dAtA' = dAtA, Read("tag"), preIndex' = i
  PROVE  Advanced
<1>1. AInv'
  BY DEF AInv, Read, top
<1>2. Rest' < Rest
  BY Places DEF Rest, top
<1> QED
  BY <1>1, <1>2 DEF Advanced, Lower

\* Within a field, the call goes on at its index or behind it.
LEMMA PartAdvances ==
  ASSUME SInv, AInv, NEW i \in Nat, top.iNdEx <= i, i < Word \div 2,
         Last(calls').iNdEx = i, Last(calls').base = top.base,
         Len(calls') = Len(calls), UNCHANGED <<dAtA, preIndex>>,
         Stage' = Stage, Turn' \in Nat,
         Turn' < Turn \/ (top.iNdEx < i /\ Turn' <= Turn + 3),
         pc' = "use" \/ what' \notin {"tag", "skipTag"} => preIndex < i
  PROVE  Advanced
<1>1. AInv'
  BY Places DEF AInv, top
<1>2. Rest' = Rest
  BY DEF Rest, top
<1>3. Room' < Room
  <2>1. Turn \in Nat
    BY DEF Turn
  <2>2. Room' = 4 * (Word - i) + Turn'
    BY DEF Room, top
  <2>3. /\ Word \in Nat /\ top.iNdEx \in Nat
    BY Places
  <2>4. 4 * (Word - i) + Turn' < 4 * (Word - top.iNdEx) + Turn
    BY <2>1, <2>3
  <2> QED
    BY <2>2, <2>4 DEF Room
<1> QED
  BY <1>1, <1>2, <1>3 DEF Advanced, Lower

LEMMA RestAdvances ==
  ASSUME AInv, verdict' # "run", UNCHANGED <<calls, pc, what, preIndex>>
  PROVE  Advanced
BY DEF AInv, Advanced, top

LEMMA DigitAdvances ==
  ASSUME SInv, AInv, Digit
  PROVE  Advanced
<1>1. /\ calls' = Seek(top.iNdEx + 1) /\ UNCHANGED <<dAtA, what, preIndex>>
      /\ top.iNdEx < top.l /\ pc = "read" /\ pc' \in {"read", "use"}
  BY DEF Digit
<1>2. /\ top.iNdEx + 1 \in Nat /\ top.iNdEx < top.iNdEx + 1
      /\ top.iNdEx <= top.iNdEx + 1 /\ top.iNdEx + 1 < Word \div 2
  BY <1>1, Places
<1>3. /\ Last(calls').iNdEx = top.iNdEx + 1 /\ Last(calls').base = top.base
      /\ Len(calls') = Len(calls)
  BY <1>1, <1>2, SeekMoves
<1>4. Stage' = Stage /\ Turn' \in Nat /\ Turn' <= Turn + 3
  BY <1>1 DEF Stage, Turn
<1>5. preIndex < top.iNdEx + 1
  BY Places DEF AInv
<1> QED
  BY <1>1, <1>2, <1>3, <1>4, <1>5, PartAdvances

\* A part of a field that is skipped does not end before it begins.
LEMMA SkippedAdvances ==
  ASSUME SInv, AInv, NEW i \in Int, NEW d \in Nat, Skipped(i, d),
         i < 0 \/ (top.iNdEx <= i /\ i < Word \div 2),
         pc = "use", what \in {"skipTag", "skipValue", "skipLength"}
  PROVE  Advanced
<1>1. CASE i < 0 \/ (d = 0 /\ i > top.l)
  BY <1>1, RestAdvances DEF Skipped, Fail
<1>2. CASE ~(i < 0 \/ (d = 0 /\ i > top.l))
  <2>1. /\ calls' = Seek(i) /\ dAtA' = dAtA
        /\ IF d = 0 THEN Read("tag") /\ preIndex' = i
                    ELSE Read("skipTag") /\ UNCHANGED preIndex
    BY <1>2 DEF Skipped
  <2>2. i \in Nat /\ top.iNdEx <= i /\ i < Word \div 2
    BY <1>2
  <2>3. /\ Last(calls').iNdEx = i /\ Last(calls').base = top.base
        /\ Len(calls') = Len(calls)
    BY <2>1, <2>2, SeekMoves
  <2>4. preIndex < i
    BY <2>2, Places DEF AInv
  <2>5. CASE d = 0
    BY <2>1, <2>2, <2>3, <2>4, <2>5, FieldAdvances
  <2>6. CASE d # 0
    <3>1. Read("skipTag") /\ UNCHANGED preIndex
      BY <2>1, <2>6
    <3>2. Stage' = Stage /\ Turn' = 0 /\ Turn' < Turn
      BY <3>1 DEF Read, Stage, Turn
    <3>3. Turn' \in Nat
      BY <3>2
    <3> QED
      BY <2>1, <2>2, <2>3, <2>4, <3>1, <3>2, <3>3, PartAdvances DEF Read
  <2> QED
    BY <2>5, <2>6
<1> QED
  BY <1>1, <1>2

\* The numbers of bytes that skipUpdateMetadata adds to its index.
LEMMA SkipsForward ==
  ASSUME SInv, AInv, NEW n \in Nat, n < Word \div 2
  PROVE  LET i == Plus(top.iNdEx, n) IN
         /\ i \in Int
         /\ i < 0 \/ (top.iNdEx <= i /\ i < Word \div 2)
<1> DEFINE i == Plus(top.iNdEx, n)
<1>1. top.iNdEx \in Nat /\ top.iNdEx < Word \div 2
  BY Places DEF AInv
<1>2. i \in Int
  <2>1. top.iNdEx \in Int /\ n \in Int
    BY <1>1
  <2> QED
    BY <2>1, PlusTyped, Zenon
<1>3. i >= 0 => i = top.iNdEx + n /\ i < Word \div 2
  BY <1>1, PlusForward
<1> HIDE DEF i
<1>4. i < 0 \/ (top.iNdEx <= i /\ i < Word \div 2)
  BY <1>1, <1>2, <1>3
<1> QED
  BY <1>2, <1>4 DEF i

LEMMA SkipAdvances ==
  ASSUME SInv, AInv, SkipTag \/ SkipValue \/ SkipLength
  PROVE  Advanced
<1>1. /\ pc = "use" /\ what \in {"skipTag", "skipValue", "skipLength"}
      /\ top.iNdEx \in Nat /\ top.iNdEx \in Int /\ top.iNdEx < Word \div 2
      /\ preIndex < top.iNdEx /\ depth \in Nat
  BY Places DEF SkipTag, SkipValue, SkipLength, Running, AInv, SInv, Varints
<1>2. CASE SkipTag
  <2>1. CASE /\ Read("skipValue") \/ Read("skipLength")
             /\ UNCHANGED <<dAtA, calls, preIndex, field, depth, verdict>>
    <3>1. Stage' = Stage /\ Turn' = 2 /\ Turn = 3
      BY <1>1, <1>2, <2>1 DEF Read, Stage, Turn, SkipTag, Running
    <3>2. Turn' \in Nat /\ Turn' < Turn
      BY <3>1
    <3>3. /\ Last(calls').iNdEx = top.iNdEx /\ Last(calls').base = top.base
          /\ Len(calls') = Len(calls)
      BY <2>1 DEF top
    <3> QED
      BY <1>1, <2>1, <3>1, <3>2, <3>3, PartAdvances
  <2>2. CASE Fail
    BY <2>2, RestAdvances DEF Fail
  <2>3. CASE \/ Skipped(Plus(top.iNdEx, 8), depth)
             \/ Skipped(Plus(top.iNdEx, 4), depth)
    <3>1. 8 \in Nat /\ 8 < Word \div 2 /\ 4 \in Nat /\ 4 < Word \div 2
      BY WordFacts
    <3> QED
      BY <1>1, <2>3, <3>1, SkipsForward, SkippedAdvances
  <2>4. CASE \E d \in Nat : Skipped(top.iNdEx, d)
    BY <1>1, <2>4, SkippedAdvances
  <2>5. depth = 0 \/ depth - 1 \in Nat
    BY <1>1
  <2> QED
    BY <1>1, <1>2, <2>1, <2>2, <2>3, <2>4, <2>5 DEF SkipTag
<1>3. CASE SkipValue
  BY <1>1, <1>3, SkippedAdvances DEF SkipValue
<1>4. CASE SkipLength
  <2>1. CASE length < 0
    BY <1>4, <2>1, RestAdvances DEF SkipLength, Fail
  <2>2. CASE ~(length < 0)
    <3>1. length \in Nat /\ length < Word \div 2
      BY <2>2, LengthIsInt
    <3>2. Skipped(Plus(top.iNdEx, length), depth)
      BY <1>4, <2>2 DEF SkipLength, postIndex
    <3> QED
      BY <1>1, <3>1, <3>2, SkipsForward, SkippedAdvances
  <2> QED
    BY <2>1, <2>2
<1> QED
  BY <1>2, <1>3, <1>4

\* The parts of a field: its tag is behind, and its value or what is in it is
\* not read from bytes before it.
LEMMA FieldsAdvance ==
  ASSUME SInv, AInv,
         \/ UnknownField \/ KnownField \/ Fixed32Field \/ Value \/ BytesField
  PROVE  Advanced
<1>1. /\ pc = "use" /\ what \in {"tag", "value", "length"} /\ depth = 0
      /\ top.iNdEx \in Nat /\ top.l \in Nat /\ preIndex \in Nat
      /\ top.l < Word \div 2 /\ top.iNdEx < Word \div 2 /\ preIndex < top.iNdEx
  BY Places
  DEF UnknownField, KnownField, Fixed32Field, Value, BytesField, Running, AInv,
      SInv, Indices
<1>2. CASE UnknownField
  <2>1. /\ calls' = Seek(preIndex) /\ Read("skipTag") /\ what = "tag"
        /\ UNCHANGED <<dAtA, preIndex>>
    BY <1>2 DEF UnknownField, Running
  <2>2. /\ Last(calls').iNdEx = preIndex /\ Last(calls').base = top.base
        /\ Len(calls') = Len(calls)
    BY <1>1, <2>1, SeekMoves
  <2>3. AInv'
    BY <1>1, <2>1, <2>2, Places DEF AInv, Read, top
  <2>4. Rest' = Rest /\ Stage' < Stage
    BY <2>1, <2>2 DEF Rest, Stage, Read, top
  <2> QED
    BY <2>2, <2>3, <2>4 DEF Advanced, Lower
<1>3. CASE KnownField
  <2>1. /\ UNCHANGED <<dAtA, calls, preIndex>> /\ what = "tag"
        /\ Read("value") \/ Read("length")
    BY <1>3 DEF KnownField, Running
  <2>2. AInv'
    BY <1>1, <2>1 DEF AInv, Read, top
  <2>3. Rest' = Rest /\ Stage' < Stage
    BY <2>1 DEF Rest, Stage, Read, top
  <2> QED
    BY <2>1, <2>2, <2>3 DEF Advanced, Lower
<1>4. CASE Fixed32Field
  <2>1. CASE top.iNdEx + 4 > top.l
    BY <1>4, <2>1, RestAdvances DEF Fixed32Field, Fail
  <2>2. CASE ~(top.iNdEx + 4 > top.l)
    <3>1. /\ calls' = Stored(FieldOf, Fixed32, top.iNdEx + 4) /\ Loop(top.iNdEx + 4)
      BY <1>4, <2>2 DEF Fixed32Field
    <3>2. /\ top.iNdEx + 4 \in Nat /\ preIndex < top.iNdEx + 4
          /\ top.iNdEx + 4 < Word \div 2
      BY <1>1, <2>2, Places
    <3> QED
      BY <3>1, <3>2, StoredMoves, FieldAdvances DEF Loop
  <2> QED
    BY <2>1, <2>2
<1>5. CASE Value
  <2>1. calls' = Stored(field, Converted(field.kind), top.iNdEx) /\ Loop(top.iNdEx)
    BY <1>5 DEF Value
  <2> QED
    BY <1>1, <2>1, StoredMoves, FieldAdvances DEF Loop
<1>6. CASE BytesField
  <2>1. PICK v : calls' = Stored(field, v, postIndex) /\ Loop(postIndex) /\ GoodLength
    BY <1>6 DEF BytesField
  <2>2. postIndex \in Nat /\ preIndex < postIndex /\ postIndex < Word \div 2
    BY <1>1, <2>1, LengthForward, Places
  <2> QED
    BY <2>1, <2>2, StoredMoves, FieldAdvances DEF Loop
<1> QED
  BY <1>2, <1>3, <1>4, <1>5, <1>6

\* A message begins behind the tag and the length of its field.
LEMMA MessageAdvances ==
  ASSUME SInv, AInv, MessageField
  PROVE  Advanced
<1>1. depth = 0 /\ GoodLength /\ pc = "use" /\ what = "length"
  BY DEF MessageField, SInv, Indices, Running
<1>2. /\ postIndex \in Nat /\ top.iNdEx <= postIndex /\ postIndex <= top.l
      /\ preIndex < top.iNdEx
  BY <1>1, LengthForward DEF AInv
<1>3. PICK m : /\ calls' = Append(Seek(postIndex),
                                 Call(field.kind, top.base + top.iNdEx,
                                      postIndex - top.iNdEx, field, m))
               /\ Loop(0)
  BY DEF MessageField
<1> DEFINE c == Call(field.kind, top.base + top.iNdEx, postIndex - top.iNdEx, field, m)
<1>4. IsCall(c) /\ c.base = top.base + top.iNdEx /\ c.l = postIndex - top.iNdEx
      /\ c.iNdEx = 0
  <2> DEFINE b == top.base + top.iNdEx
             l == postIndex - top.iNdEx
  <2>1. b \in Nat /\ l \in Nat
    <3>1. top.base \in Nat /\ top.iNdEx \in Nat
      BY Places
    <3> QED
      BY <1>2, <3>1
  <2> HIDE DEF b, l
  <2>2. c = Call(field.kind, b, l, field, m)
    BY DEF b, l
  <2>3. IsCall(c) /\ c.base = b /\ c.l = l /\ c.iNdEx = 0
    BY <2>1, <2>2 DEF Call, IsCall, Numbers
  <2> QED
    BY <2>3 DEF b, l
<1> HIDE DEF c
<1>5. Last(calls') = c
  BY <1>2, <1>3, <1>4, CallNests DEF c
<1>6. top' = c /\ preIndex' = 0 /\ dAtA' = dAtA /\ pc' = "read" /\ what' = "tag"
  BY <1>3, <1>5 DEF Loop, Read, top
<1>7. AInv'
  BY <1>4, <1>6, WordFacts DEF AInv
<1>8. Rest' < Rest
  BY <1>2, <1>4, <1>6, Places DEF Rest
<1> QED
  BY <1>7, <1>8 DEF Advanced, Lower

\* The caller goes on where the message ends, with one call less to return from.
LEMMA ReturnAdvances ==
  ASSUME SInv, AInv, ReturnToCaller
  PROVE  Advanced
<1> DEFINE n == Len(calls) - 1
           v == Put(calls[n].m, top.at, top.m)
<1>1. /\ Len(calls) > 1 /\ calls' = [Front(calls) EXCEPT ![n].m = v]
      /\ Loop(calls[n].iNdEx)
  BY DEF ReturnToCaller
<1> HIDE DEF v
<1>2. /\ Last(calls').iNdEx = calls[n].iNdEx /\ Last(calls').base = calls[n].base
      /\ Len(calls') = n /\ calls[n].iNdEx \in Nat /\ calls[n].iNdEx <= calls[n].l
  BY <1>1, ReturnNests
<1>3. /\ top.base + top.l = calls[n].base + calls[n].iNdEx
      /\ calls[n].base \in Nat /\ calls[n].l \in Nat
      /\ calls[n].base + calls[n].l <= Len(dAtA) /\ n \in Nat \ {0}
  <2>1. n \in Nat \ {0} /\ n \in DOMAIN calls /\ n + 1 \in DOMAIN calls
        /\ n + 1 = Len(calls) /\ top = calls[n + 1]
    BY <1>1, TopCall
  <2>2. IsCall(calls[n]) /\ calls[n].base + calls[n].l <= Len(dAtA)
    BY <2>1 DEF SInv, Nested
  <2> DEFINE k == n + 1
  <2>3. k \in DOMAIN calls /\ k > 1 /\ k - 1 = n /\ top = calls[k]
    BY <2>1
  <2> HIDE DEF k
  <2>4. calls[k].base + calls[k].l = calls[k-1].base + calls[k-1].iNdEx
    BY <2>3 DEF SInv, Nested
  <2> QED
    BY <2>1, <2>2, <2>3, <2>4 DEF IsCall
<1> HIDE DEF n
<1>4. /\ preIndex' = calls[n].iNdEx /\ dAtA' = dAtA /\ pc' = "read" /\ what' = "tag"
  BY <1>1 DEF Loop, Read
<1>5. AInv'
  <2>1. calls[n].l < Word \div 2
    <3>1. Len(dAtA) < Word \div 2
      BY Places, WordFacts DEF SInv, Varints
    <3> QED
      BY <1>3, <3>1, Places
  <2> QED
    <3>1. calls[n].iNdEx < Word \div 2
      <4> DEFINE h == Word \div 2
      <4>1. h \in Nat /\ calls[n].l < h
        BY <2>1, Places
      <4> HIDE DEF h
      <4>2. calls[n].iNdEx < h
        BY <1>2, <1>3, <4>1
      <4> QED
        BY <4>2 DEF h
    <3>2. top'.iNdEx = calls[n].iNdEx /\ preIndex' <= top'.iNdEx
      BY <1>2, <1>4 DEF top
    <3> QED
      BY <1>4, <3>1, <3>2 DEF AInv
<1>6. Rest' <= Rest /\ Rest' \in Int /\ Rest \in Int
  <2>1. preIndex <= top.l
    BY DEF SInv, Indices
  <2> QED
    <3>1. Rest' = Len(dAtA) - (top.base + top.l)
      BY <1>2, <1>3, <1>4 DEF Rest, top
    <3>2. /\ top.base \in Nat /\ top.l \in Nat /\ preIndex \in Nat
          /\ Len(dAtA) \in Nat
      BY Places
    <3> QED
      BY <2>1, <3>1, <3>2 DEF Rest
<1>7. Len(calls') < Len(calls)
  BY <1>1, <1>2, Places DEF n
<1> QED
  BY <1>5, <1>6, <1>7 DEF Advanced, Lower

LEMMA InitAInv == Init => AInv
<1> SUFFICES ASSUME Init
             PROVE  AInv
  OBVIOUS
<1> DEFINE c == Call("DeltaArchiveManifest", 0, Len(dAtA), NoField,
                     New("DeltaArchiveManifest"))
<1>1. calls = <<c>> /\ preIndex = 0 /\ pc = "read" /\ what = "tag"
  BY DEF Init
<1>2. c.iNdEx = 0
  BY DEF Call
<1> HIDE DEF c
<1>3. top = c
  BY <1>1 DEF top, Last
<1> QED
  BY <1>1, <1>2, <1>3, WordFacts DEF AInv

LEMMA NextAdvances == SInv /\ AInv /\ Next => Advanced
<1> SUFFICES ASSUME SInv, AInv, Next
             PROVE  Advanced
  OBVIOUS
<1>1. CASE Digit
  BY <1>1, DigitAdvances
<1>2. CASE BadVarint \/ RejectTag \/ BadLength \/ Incomplete
  BY <1>2, RestAdvances DEF BadVarint, RejectTag, BadLength, Incomplete, Fail
<1>3. CASE UnknownField \/ KnownField \/ Fixed32Field \/ Value \/ BytesField
  BY <1>3, FieldsAdvance
<1>4. CASE MessageField
  BY <1>4, MessageAdvances
<1>5. CASE ReturnToCaller
  BY <1>5, ReturnAdvances
<1>6. CASE Return
  BY <1>6, RestAdvances DEF Return
<1>7. CASE SkipTag \/ SkipValue \/ SkipLength
  BY <1>7, SkipAdvances
<1> QED
  BY <1>1, <1>2, <1>3, <1>4, <1>5, <1>6, <1>7 DEF Next

\* Whatever the bytes, and however large the lengths in them, no step takes the
\* decoder back: the bytes from the beginning of the field on, then the calls to
\* return from, then what is to come of the field, get less with each step, and
\* none of them can go on getting less for ever.
THEOREM DecodingAdvances == Spec => DecoderAdvances
<1>1. SInv /\ AInv /\ [Next]_vars => AInv'
  <2> SUFFICES ASSUME SInv, AInv, [Next]_vars
               PROVE  AInv'
    OBVIOUS
  <2>1. CASE Next
    BY <2>1, NextAdvances DEF Advanced
  <2>2. CASE UNCHANGED vars
    BY <2>2 DEF vars, AInv, top
  <2> QED
    BY <2>1, <2>2
<1>2. SInv' /\ AInv'
        => (/\ Rest \in Nat /\ Len(calls) \in Nat /\ Stage \in Nat /\ Room \in Nat
            /\ Left = <<Rest, Len(calls), Stage, Room>>)'
  BY LeftTyped, PTL
<1>3. SInv /\ SInv' /\ AInv /\ AInv' /\ [Next]_vars
        => [verdict' = "run" => Left' \in Seq(Nat) /\ Before(Left', Left)]_vars
  <2> SUFFICES ASSUME SInv, SInv', AInv, AInv', Next, verdict' = "run"
               PROVE  Left' \in Seq(Nat) /\ Before(Left', Left)
    OBVIOUS
  <2>1. /\ Rest \in Nat /\ Len(calls) \in Nat /\ Stage \in Nat /\ Room \in Nat
        /\ Left = <<Rest, Len(calls), Stage, Room>>
    BY LeftTyped
  <2>2. /\ Rest' \in Nat /\ Len(calls') \in Nat /\ Stage' \in Nat /\ Room' \in Nat
        /\ Left' = <<Rest', Len(calls'), Stage', Room'>>
    BY <1>2
  <2>3. Lower
    BY NextAdvances DEF Advanced
  <2> QED
    BY <2>1, <2>2, <2>3, FourBefore DEF Lower
<1> QED
  BY <1>1, <1>3, InitSInv, NextSInv, InitAInv, PTL DEF Spec, DecoderAdvances
=============================================================================
