------------------------------ MODULE Manifest ------------------------------
(***************************************************************************)
(* The decoder of a payload's manifest: DeltaArchiveManifest.Unmarshal,    *)
(* the Unmarshal methods it calls for the messages inside, and             *)
(* skipUpdateMetadata for the fields it does not know.  The methods are    *)
(* one loop over one table of fields each; the loop is modelled once, a    *)
(* step for every byte a varint is read from and one for what is done      *)
(* with it, over the tables of ManifestTypes.                              *)
(***************************************************************************)
EXTENDS ManifestTypes, SequencesExt

CONSTANT Buffers   \* the byte sequences to decode

\* A slice has an int for its length.
ASSUME BufferAssumption ==
  Buffers \subseteq Strings /\ \A b \in Buffers : Len(b) < Word \div 2

-----------------------------------------------------------------------------
VARIABLES
  dAtA,      \* the bytes Unmarshal was given
  calls,     \* the Unmarshal calls under way, the innermost one last
  pc,        \* "read": a varint is being read; "use": it has been read
  what,      \* what the varint is
  digits,    \* its digits read so far
  weight,    \* 1 << shift
  acc,       \* its value so far
  preIndex,  \* where the field began
  field,     \* the case of the switch that was entered
  depth,     \* the groups skipUpdateMetadata is inside of
  verdict    \* "run", "ok" or "error"

vars == <<dAtA, calls, pc, what, digits, weight, acc, preIndex, field, depth,
          verdict>>

NoField == Opt(0, "", "uint64")

\* A call: its slice of dAtA is the l bytes after the first base ones; its
\* caller puts m where the field `at` says; got are the names hasFields holds.
Call(t, base, l, at, m) ==
  [type |-> t, base |-> base, l |-> l, iNdEx |-> 0, at |-> at, m |-> m,
   got |-> {}]

top     == Last(calls)
Seek(i) == [calls EXCEPT ![Len(calls)].iNdEx = i]

Init ==
  /\ dAtA \in Buffers
  /\ calls = << Call("DeltaArchiveManifest", 0, Len(dAtA), NoField,
                     New("DeltaArchiveManifest")) >>
  /\ pc = "read" /\ what = "tag" /\ digits = 0 /\ weight = 1 /\ acc = 0
  /\ preIndex = 0 /\ field = NoField /\ depth = 0 /\ verdict = "run"

\* `for shift := uint(0); ; shift += 7` is entered for a varint w.
Read(w) ==
  /\ pc' = "read" /\ what' = w
  /\ digits' = 0 /\ weight' = 1 /\ acc' = 0

\* The loop over the fields goes on at i.
Loop(i) == Read("tag") /\ preIndex' = i /\ UNCHANGED <<field, depth, dAtA, verdict>>

Fail ==
  /\ verdict' = "error"
  /\ UNCHANGED <<dAtA, calls, pc, what, digits, weight, acc, preIndex, field, depth>>

Running(p, w) == verdict = "run" /\ pc = p /\ what = w

\* Mutant: a varint that the slice cuts off is taken for a whole one.
DigitStopsAtEnd ==
  /\ verdict = "run" /\ pc = "read"
  /\ digits < MaxDigits /\ top.iNdEx < top.l
  /\ LET b == dAtA[top.base + top.iNdEx + 1] IN
       /\ acc' = (acc + (b % Base) * weight) % Word
       /\ pc' = IF b < Base \/ top.iNdEx + 1 = top.l THEN "use" ELSE "read"
  /\ calls' = Seek(top.iNdEx + 1)
  /\ digits' = digits + 1 /\ weight' = (weight * Base) % Word
  /\ UNCHANGED <<dAtA, what, preIndex, field, depth, verdict>>

\* One round of the loop of a varint.
Digit ==
  /\ verdict = "run" /\ pc = "read"
  /\ digits < MaxDigits /\ top.iNdEx < top.l
  /\ LET b == dAtA[top.base + top.iNdEx + 1] IN
       /\ acc' = (acc + (b % Base) * weight) % Word
       /\ pc' = IF b < Base THEN "use" ELSE "read"
  /\ calls' = Seek(top.iNdEx + 1)
  /\ digits' = digits + 1 /\ weight' = (weight * Base) % Word
  /\ UNCHANGED <<dAtA, what, preIndex, field, depth, verdict>>

\* shift >= 64, or the slice ends.
BadVarint ==
  /\ verdict = "run" /\ pc = "read"
  /\ \/ digits = MaxDigits
     \/ (top.iNdEx >= top.l /\ (digits > 0 \/ what # "tag"))
  /\ Fail

WireType(kind) ==
  CASE kind \in {"uint64", "int64", "uint32", "int32", "bool"} -> 0
    [] kind = "fixed32" -> 5
    [] OTHER -> 2

\* fieldNum := int32(wire >> 3); wireType := int(wire & 0x7)
fieldNum == LET n == (acc \div 8) % Half IN IF 2 * n >= Half THEN n - Half ELSE n
wireType == acc % 8

Known   == \E f \in Fields[top.type] : f.no = fieldNum
FieldOf == CHOOSE f \in Fields[top.type] : f.no = fieldNum

RejectTag ==
  /\ Running("use", "tag")
  /\ \/ wireType = 4 \/ fieldNum <= 0
     \/ (Known /\ wireType # WireType(FieldOf.kind))
  /\ Fail

\* Mutant: `if fieldNum <= 0` is `if fieldNum < 0`.
UnknownFieldZero ==
  /\ Running("use", "tag")
  /\ wireType # 4 /\ fieldNum >= 0 /\ ~Known
  /\ calls' = Seek(preIndex) /\ depth' = 0
  /\ Read("skipTag")
  /\ UNCHANGED <<dAtA, preIndex, field, verdict>>

UnknownField ==
  /\ Running("use", "tag")
  /\ wireType # 4 /\ fieldNum > 0 /\ ~Known
  /\ calls' = Seek(preIndex) /\ depth' = 0
  /\ Read("skipTag")
  /\ UNCHANGED <<dAtA, preIndex, field, verdict>>

KnownField ==
  /\ Running("use", "tag")
  /\ wireType # 4 /\ fieldNum > 0 /\ Known
  /\ wireType = WireType(FieldOf.kind) /\ FieldOf.kind # "fixed32"
  /\ field' = FieldOf
  /\ Read(IF wireType = 0 THEN "value" ELSE "length")
  /\ UNCHANGED <<dAtA, calls, preIndex, depth, verdict>>

\* m with v put where field f goes.
Put(m, f, v) ==
  [m EXCEPT ![f.name] =
     CASE f.label = "rep" -> Append(m[f.name], v)
       [] f.label = "ptr" -> <<v>>
       [] OTHER           -> v]

\* The top call has read v for f and is at i.
Stored(f, v, i) ==
  [calls EXCEPT ![Len(calls)].m = Put(top.m, f, v),
                ![Len(calls)].got = top.got \union {f.name},
                ![Len(calls)].iNdEx = i]

\* The 4 bytes at the top call's index, little-endian.
Fixed32 ==
  LET b(k) == dAtA[top.base + top.iNdEx + 1 + k]
      w == (2 * Base) % Half
  IN  (b(0) + w * (b(1) + w * ((b(2) + w * b(3)) % Half))) % Half

Fixed32Field ==
  /\ Running("use", "tag")
  /\ wireType = 5 /\ fieldNum > 0 /\ Known /\ FieldOf.kind = "fixed32"
  /\ IF top.iNdEx + 4 > top.l THEN Fail
     ELSE /\ calls' = Stored(FieldOf, Fixed32, top.iNdEx + 4)
          /\ Loop(top.iNdEx + 4)

\* The value a scalar field gets from a varint.
Converted(kind) ==
  CASE kind = "bool" -> acc # 0
    [] kind \in {"uint32", "int32"} -> acc % Half
    [] OTHER -> acc

Value ==
  /\ Running("use", "value")
  /\ calls' = Stored(field, Converted(field.kind), top.iNdEx)
  /\ Loop(top.iNdEx)

\* The length just read, and the index it leads to.
length    == Signed(acc)
postIndex == Plus(top.iNdEx, length)

BadLength ==
  /\ Running("use", "length")
  /\ length < 0 \/ postIndex < 0 \/ postIndex > top.l
  /\ Fail

GoodLength == length >= 0 /\ postIndex >= 0 /\ postIndex <= top.l

BytesField ==
  /\ Running("use", "length") /\ GoodLength
  /\ field.kind = "bytes"
  /\ calls' = Stored(field,
                     SubSeq(dAtA, top.base + top.iNdEx + 1, top.base + postIndex),
                     postIndex)
  /\ Loop(postIndex)

\* Mutant: Unmarshal(dAtA[iNdEx:]).
MessageFieldToEnd ==
  /\ Running("use", "length") /\ GoodLength
  /\ field.kind # "bytes"
  /\ LET held == top.m[field.name]
         m == IF field.label = "ptr" /\ held # <<>> THEN held[1] ELSE New(field.kind)
     IN  calls' = Append(Seek(postIndex),
                         Call(field.kind, top.base + top.iNdEx, top.l - top.iNdEx,
                              field, m))
  /\ Loop(0)

\* Mutant: without `if m.X == nil` before the message is made.
MessageFieldAnew ==
  /\ Running("use", "length") /\ GoodLength
  /\ field.kind # "bytes"
  /\ calls' = Append(Seek(postIndex),
                     Call(field.kind, top.base + top.iNdEx,
                          postIndex - top.iNdEx, field, New(field.kind)))
  /\ Loop(0)

\* A message: a new one, or the one a pointer already holds.
MessageField ==
  /\ Running("use", "length") /\ GoodLength
  /\ field.kind # "bytes"
  /\ LET held == top.m[field.name]
         m == IF field.label = "ptr" /\ held # <<>> THEN held[1] ELSE New(field.kind)
     IN  calls' = Append(Seek(postIndex),
                         Call(field.kind, top.base + top.iNdEx,
                              postIndex - top.iNdEx, field, m))
  /\ Loop(0)

Required(t) == {f.name : f \in {g \in Fields[t] : g.label = "req"}}

\* The loop over the fields ends.
AtEnd == Running("read", "tag") /\ digits = 0 /\ top.iNdEx >= top.l

Complete == Required(top.type) \subseteq top.got /\ top.iNdEx <= top.l

Incomplete == AtEnd /\ ~Complete /\ Fail

ReturnToCaller ==
  /\ AtEnd /\ Complete /\ Len(calls) > 1
  /\ LET n == Len(calls) - 1 IN
       /\ calls' = [Front(calls) EXCEPT ![n].m = Put(calls[n].m, top.at, top.m)]
       /\ Loop(calls[n].iNdEx)

Return ==
  /\ AtEnd /\ Complete /\ Len(calls) = 1
  /\ verdict' = "ok"
  /\ UNCHANGED <<dAtA, calls, pc, what, digits, weight, acc, preIndex, field, depth>>

-----------------------------------------------------------------------------
(***************************************************************************)
(* skipUpdateMetadata: one field, with the groups inside of it.  Its index *)
(* is kept as the one of the call, from preIndex on.                       *)
(***************************************************************************)

\* Mutant: without the checks that the index is not negative.
SkippedUnchecked(i, d) ==
  IF d = 0 /\ i > top.l THEN Fail
  ELSE /\ calls' = Seek(i)
       /\ IF d = 0 THEN Read("tag") /\ preIndex' = i
                   ELSE Read("skipTag") /\ UNCHANGED preIndex
       /\ depth' = d
       /\ UNCHANGED <<dAtA, field, verdict>>

\* Mutant: returns after one part, whatever the depth.
SkippedShallow(i, d) ==
  IF i < 0 \/ i > top.l THEN Fail
  ELSE /\ calls' = Seek(i) /\ Read("tag") /\ preIndex' = i /\ depth' = 0
       /\ UNCHANGED <<dAtA, field, verdict>>

\* Mutant: without `iNdEx += skippy`.
SkippedStays(i, d) ==
  IF i < 0 \/ (d = 0 /\ i > top.l) THEN Fail
  ELSE /\ calls' = Seek(IF d = 0 THEN preIndex ELSE i)
       /\ IF d = 0 THEN Read("tag") /\ UNCHANGED preIndex
                   ELSE Read("skipTag") /\ UNCHANGED preIndex
       /\ depth' = d
       /\ UNCHANGED <<dAtA, field, verdict>>

\* After a part of the field that ends at i, inside of d groups.
Skipped(i, d) ==
  IF i < 0 \/ (d = 0 /\ i > top.l) THEN Fail
  ELSE /\ calls' = Seek(i)
       /\ IF d = 0 THEN Read("tag") /\ preIndex' = i
                   ELSE Read("skipTag") /\ UNCHANGED preIndex
       /\ depth' = d
       /\ UNCHANGED <<dAtA, field, verdict>>

SkipTag ==
  /\ Running("use", "skipTag")
  /\ \/ wireType = 0 /\ Read("skipValue")
        /\ UNCHANGED <<dAtA, calls, preIndex, field, depth, verdict>>
     \/ wireType = 1 /\ Skipped(Plus(top.iNdEx, 8), depth)
     \/ wireType = 2 /\ Read("skipLength")
        /\ UNCHANGED <<dAtA, calls, preIndex, field, depth, verdict>>
     \/ wireType = 3 /\ Skipped(top.iNdEx, depth + 1)
     \/ wireType = 4 /\ IF depth = 0 THEN Fail ELSE Skipped(top.iNdEx, depth - 1)
     \/ wireType = 5 /\ Skipped(Plus(top.iNdEx, 4), depth)
     \/ wireType \in {6, 7} /\ Fail

SkipValue == Running("use", "skipValue") /\ Skipped(top.iNdEx, depth)

SkipLength ==
  /\ Running("use", "skipLength")
  /\ IF length < 0 THEN Fail ELSE Skipped(postIndex, depth)

Next ==
  \/ Digit \/ BadVarint
  \/ RejectTag \/ UnknownField \/ KnownField
  \/ Fixed32Field \/ Value \/ BadLength \/ BytesField \/ MessageField
  \/ Incomplete \/ ReturnToCaller \/ Return
  \/ SkipTag \/ SkipValue \/ SkipLength

Spec     == Init /\ [][Next]_vars
FairSpec == Spec /\ WF_vars(Next)   \* the decoder is not stopped half-way

\* What Unmarshal made of the manifest.
manifest == calls[1].m

-----------------------------------------------------------------------------
(***************************************************************************)
(* Properties.                                                             *)
(***************************************************************************)

\* The variables have their types: each call decodes a message of its type.
TypeOK ==
  /\ dAtA \in Strings
  /\ calls # <<>>
  /\ \A k \in DOMAIN calls :
       /\ calls[k].type \in MessageTypes
       /\ calls[k].m \in Messages(calls[k].type)
       /\ {calls[k].base, calls[k].l} \subseteq Nat
       /\ calls[k].iNdEx \in Int
       /\ calls[k].got \subseteq {f.name : f \in Fields[calls[k].type]}
  /\ pc \in {"read", "use"}
  /\ what \in {"tag", "value", "length", "skipTag", "skipValue", "skipLength"}
  /\ digits \in 0 .. MaxDigits /\ weight \in Words /\ acc \in Words
  /\ preIndex \in Nat /\ depth \in Nat
  /\ verdict \in {"run", "ok", "error"}

\* No length, however large, takes an index out of its slice, where indexing
\* dAtA would panic: the slices of the calls lie inside one another, each
\* call's index in its slice, but for skipUpdateMetadata between two parts of
\* a group, which looks before it reads on.
WithinSlices ==
  \A k \in DOMAIN calls :
    /\ calls[k].base + calls[k].l <= Len(dAtA)
    /\ 0 <= calls[k].iNdEx
    /\ calls[k].iNdEx <= calls[k].l \/ (k = Len(calls) /\ depth > 0)
    /\ k > 1 => calls[k].base + calls[k].l = calls[k-1].base + calls[k-1].iNdEx

\* What is left to do: the bytes from the beginning of the field under way, the
\* calls to return from, what is to come of the field, and in the part that is
\* read now the bytes and turns up to the greatest index there is.
Stage ==
  CASE what = "tag" -> 2 [] what \in {"value", "length"} -> 1 [] OTHER -> 0

Turn ==
  CASE what = "skipTag" -> IF pc = "use" THEN 3 ELSE 0
    [] OTHER -> IF pc = "read" THEN 2 ELSE 1

Left == << Len(dAtA) - (top.base + preIndex), Len(calls), Stage,
           4 * (Word - top.iNdEx) + Turn >>

\* The first difference decides.
Before(s, t) == \E k \in DOMAIN t : s[k] < t[k] /\ \A j \in 1 .. (k - 1) : s[j] = t[j]

\* Every step leaves less to do: no field that is skipped, no group, no message
\* within a message and no index that wraps takes Unmarshal back to bytes that
\* it is through with.
DecoderAdvances ==
  [][verdict' = "run" => Left' \in Seq(Nat) /\ Before(Left', Left)]_vars

\* The loops end: a length of zero, a group without its end or an index that
\* wraps does not keep Unmarshal on the same bytes for ever.
DecodingEnds == <>(verdict # "run")
=============================================================================
