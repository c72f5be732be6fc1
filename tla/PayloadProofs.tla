--------------------------- MODULE PayloadProofs ----------------------------
(***************************************************************************)
(* Proofs about Payload for every payload: where the reader is, what OUT   *)
(* holds, and when it is touched.                                          *)
(***************************************************************************)
EXTENDS Payload, SetLemmas

-----------------------------------------------------------------------------
(* Numbers, sequences and sets.                                            *)

\* A number below the modulus is its own remainder; one below zero wraps.
LEMMA Remainders ==
  ASSUME NEW n \in Nat \ {0}, NEW x \in Int
  PROVE  /\ 0 <= x /\ x < n => x % n = x
         /\ 0 - n <= x /\ x < 0 => x % n = x + n
OBVIOUS

\* A word has two halves.
LEMMA WordHalves ==
  /\ Word \in Nat \ {0} /\ MaxInt \in Nat
  /\ 2 * MaxInt + 2 = Word /\ Word \div 2 = MaxInt + 1
<1>1. Word \in Nat \ {0} /\ Word % 2 = 0
  BY WidthAssumption
<1>2. Word \div 2 \in Nat /\ 2 * (Word \div 2) = Word /\ Word \div 2 > 0
  BY <1>1
<1> QED
  BY <1>2, <1>1 DEF MaxInt

\* A number that an int64 holds is its own bit pattern.
LEMMA SignedWraps ==
  ASSUME NEW x \in Int, 0 - MaxInt <= x, x <= MaxInt
  PROVE  Signed(x % Word) = x
<1>1. Word \in Nat \ {0} /\ MaxInt \in Nat /\ Word = 2 * MaxInt + 2
  BY WordHalves
<1>2. CASE x >= 0
  <2>1. x % Word = x
    BY <1>1, <1>2, Remainders
  <2> QED
    BY <1>1, <2>1, WordHalves DEF Signed
<1>3. CASE x < 0
  <2>1. x % Word = x + Word
    BY <1>1, <1>3, Remainders
  <2> QED
    BY <1>1, <1>3, <2>1, WordHalves DEF Signed
<1> QED
  BY <1>2, <1>3

\* The sum of two small lengths does not wrap.
LEMMA PlusAdds ==
  ASSUME NEW x \in Nat, NEW y \in Nat, x + y <= MaxInt
  PROVE  Plus(Signed(x), Signed(y)) = x + y
<1>1. MaxInt \in Nat /\ Word \div 2 = MaxInt + 1
  BY WordHalves
<1>2. Signed(x) = x /\ Signed(y) = y
  BY <1>1 DEF Signed
<1> QED
  BY <1>1, <1>2, SignedWraps DEF Plus

\* The concatenation of one sequence.
LEMMA FlattenOne ==
  ASSUME NEW x, NEW s, s = [k \in 1 .. 1 |-> x]
  PROVE  FlattenSeq(s) = x
<1>1. Len(s) = 1 /\ s[1] = x
  OBVIOUS
<1> DEFINE D(f) == [i \in 1 .. 1 |-> IF i = 1 THEN s[i] ELSE f[i - 1] \o s[i]]
<1>2. D([i \in 1 .. 1 |-> x]) = [i \in 1 .. 1 |-> x]
  BY <1>1
<1>3. \E f : f = D(f)
  BY <1>2
<1> DEFINE flatten == CHOOSE f : f = D(f)
<1>4. flatten = D(flatten)
  BY <1>3
<1>5. flatten[1] = x
  BY <1>4, <1>1
<1>6. FlattenSeq(s) = flatten[1]
  BY <1>1 DEF FlattenSeq
<1> QED
  BY <1>5, <1>6

-----------------------------------------------------------------------------
(* Payloads.                                                               *)

\* The parts of a manifest, down to the fields of an operation.
LEMMA PayloadTyped ==
  ASSUME payload \in Payloads
  PROVE  /\ payload.manifestLen \in Nat /\ payload.sigLen \in Nat
         /\ payload.data \in Seq(Cells)
         /\ payload.manifest \in DeltaArchiveManifests
         /\ payload.manifest.Partitions \in Seq(PartitionUpdates)
         /\ DataStart \in Nat /\ DataStart >= HeaderLen
         /\ DataStart = HeaderLen + payload.manifestLen + payload.sigLen
         /\ PayloadEnd = DataStart + Len(payload.data)
         /\ PayloadEnd <= MaxInt /\ Len(payload.data) \in Nat
         /\ BlockSize \in Nat
<1>1. payload \in PayloadType
  BY PayloadAssumption
<1>2. /\ payload.manifestLen \in Nat /\ payload.sigLen \in Nat
      /\ payload.data \in Seq(Cells)
      /\ payload.manifest \in DeltaArchiveManifests
  BY <1>1 DEF PayloadType
<1>3. /\ payload.manifest.Partitions \in Seq(PartitionUpdates)
      /\ payload.manifest.BlockSize \in Seq(Halves)
  BY <1>2 DEF DeltaArchiveManifests, Maybe
<1>4. Len(payload.data) \in Nat
  BY <1>2
<1>5. HeaderLen + payload.manifestLen + payload.sigLen + Len(payload.data) <= MaxInt
  BY PayloadAssumption
<1>6. BlockSize \in Nat
  <2>1. payload.manifest.BlockSize # <<>> => payload.manifest.BlockSize[1] \in Halves
    BY <1>3
  <2>2. Halves \subseteq Nat
    BY WidthAssumption DEF Halves
  <2> QED
    BY <2>1, <2>2, PayloadAssumption DEF BlockSize, GetBlockSize
<1> QED
  BY <1>2, <1>3, <1>4, <1>5, <1>6 DEF DataStart, PayloadEnd, HeaderLen

\* The partition chosen is one of the manifest.
LEMMA ChoiceTyped ==
  ASSUME payload \in Payloads
  PROVE  Choice # 0 => Choice \in DOMAIN payload.manifest.Partitions
<1>1. payload.manifest.Partitions \in Seq(PartitionUpdates)
  BY PayloadTyped
<1>2. \A name : Named(name) # {} => /\ First_(Named(name)) \in Named(name)
                                    /\ Last_(Named(name)) \in Named(name)
  <2> SUFFICES ASSUME NEW name, Named(name) # {}
               PROVE  /\ First_(Named(name)) \in Named(name)
                      /\ Last_(Named(name)) \in Named(name)
    OBVIOUS
  <2>1. Named(name) \subseteq 1 .. Len(payload.manifest.Partitions)
        /\ Len(payload.manifest.Partitions) \in Nat
    BY <1>1 DEF Named
  <2>2. Named(name) \in SUBSET (0 .. Len(payload.manifest.Partitions))
    BY <2>1
  <2> QED
    BY <2>1, <2>2, SomeBelow DEF First_, Last_
<1>3. \A name : Named(name) \subseteq DOMAIN payload.manifest.Partitions
  BY DEF Named
<1> QED
  BY <1>2, <1>3 DEF Choice

\* The operations of the partition chosen.
LEMMA OperationsTyped ==
  ASSUME payload \in Payloads, chosen \in DOMAIN payload.manifest.Partitions
  PROVE  /\ Operations \in Seq(InstallOperations)
         /\ \A i \in DOMAIN Operations :
              /\ Operations[i].DataOffset \in Nat
              /\ Operations[i].DataLength \in Nat
              /\ Operations[i].DstExtents \in Seq(Extents)
<1>1. payload.manifest.Partitions[chosen] \in PartitionUpdates
  BY PayloadTyped
<1>2. Operations \in Seq(InstallOperations)
  BY <1>1 DEF Operations, PartitionUpdates
<1>3. \A i \in DOMAIN Operations : Operations[i] \in InstallOperations
  BY <1>2
<1>4. Words \subseteq Nat
  BY WidthAssumption DEF Words
<1> QED
  BY <1>2, <1>3, <1>4 DEF InstallOperations

-----------------------------------------------------------------------------
(* Where a run is.                                                         *)

\* What is known of a payload before OUT is created.
Passed == /\ GoodHeader(payload) /\ GetMinorVersion(payload.manifest) = 0
          /\ payload.good /\ Choice # 0

Control ==
  /\ payload \in Payloads /\ isPipe \in BOOLEAN
  /\ pc \in {"header", "manifest", "choose", "operations", "end"}
  /\ verdict = "run" <=> pc # "end"
  /\ pc \in {"manifest", "choose"} => GoodHeader(payload)
  /\ pc = "choose" => payload.good /\ GetMinorVersion(payload.manifest) = 0
  /\ pc = "operations" => created
  /\ pc \in {"header", "manifest", "choose"} => ~created
  /\ created => Passed /\ chosen = Choice /\ todo \subseteq DOMAIN Operations

\* How far the reader is, as long as nothing failed unseen.
Position ==
  ~isPipe /\ "input" \notin unnoticed =>
    /\ pc = "header" => pos = 0
    /\ pc = "manifest" => pos = HeaderLen
    /\ pc = "choose" => pos = HeaderLen + payload.manifestLen
    /\ At("operations") /\ WholeData =>
         curr \in 0 .. Len(payload.data) /\ pos = DataStart + curr

RInv == Control /\ Position

LEMMA InitRInv == Init => RInv
BY DEF Init, RInv, Control, Position, At

LEMMA LeaveKeeps ==
  ASSUME RInv, NEW v \in {"exit0", "exit1", "panic"}, Leave(v)
  PROVE  RInv'
BY DEF Leave, input, RInv, Control, Position, At, Passed, Choice, Named, Operations

LEMMA EndKeeps ==
  ASSUME RInv, NEW v \in {"exit0", "exit1", "panic"}, End(v)
  PROVE  RInv'
BY LeaveKeeps DEF End

\* The seek of an operation leads to its blob, forwards or backwards.
LEMMA SeekFinds ==
  ASSUME RInv, ~isPipe, "input" \notin unnoticed, At("operations"), WholeData,
         NEW i \in DOMAIN Operations
  PROVE  LET op == Operations[i] IN
         /\ ReaderAfterSkip(op.DataOffset) = DataStart + op.DataOffset
         /\ Available(ReaderAfterSkip(op.DataOffset), op.DataLength) = op.DataLength
         /\ Plus(Signed(op.DataOffset), Signed(op.DataLength))
              = op.DataOffset + op.DataLength
         /\ op.DataOffset + op.DataLength <= Len(payload.data)
<1> DEFINE op == Operations[i]
<1>1. payload \in Payloads /\ chosen \in DOMAIN payload.manifest.Partitions
  BY ChoiceTyped DEF RInv, Control, At, Passed
<1>2. op.DataOffset \in Nat /\ op.DataLength \in Nat
  BY <1>1, OperationsTyped
<1>3. op.DataOffset + op.DataLength <= Len(payload.data)
  BY DEF WholeData
<1>4. /\ DataStart \in Nat /\ Len(payload.data) \in Nat /\ MaxInt \in Nat
      /\ PayloadEnd = DataStart + Len(payload.data) /\ PayloadEnd <= MaxInt
  BY <1>1, PayloadTyped, WordHalves
<1>5. curr \in 0 .. Len(payload.data) /\ pos = DataStart + curr
  BY DEF RInv, Position
<1> HIDE DEF op
<1>6. Signed((op.DataOffset - curr) % Word) = op.DataOffset - curr
  <2>1. op.DataOffset - curr \in Int /\ op.DataOffset - curr <= MaxInt
        /\ 0 - MaxInt <= op.DataOffset - curr
    BY <1>2, <1>3, <1>4, <1>5
  <2> QED
    BY <2>1, SignedWraps
<1>7. ReaderAfterSkip(op.DataOffset) = DataStart + op.DataOffset
  BY <1>2, <1>3, <1>4, <1>5, <1>6 DEF ReaderAfterSkip
<1>8. Available(DataStart + op.DataOffset, op.DataLength) = op.DataLength
  <2>1. DataStart + op.DataOffset <= PayloadEnd
        /\ op.DataLength <= PayloadEnd - (DataStart + op.DataOffset)
    BY <1>2, <1>3, <1>4
  <2>2. CASE op.DataLength < PayloadEnd - (DataStart + op.DataOffset)
    BY <1>2, <1>4, <2>1, <2>2 DEF Available
  <2>3. CASE op.DataLength = PayloadEnd - (DataStart + op.DataOffset)
    BY <1>2, <1>4, <2>1, <2>3 DEF Available
  <2> QED
    BY <1>2, <1>4, <2>1, <2>2, <2>3
<1>9. Plus(Signed(op.DataOffset), Signed(op.DataLength)) = op.DataOffset + op.DataLength
  BY <1>2, <1>3, <1>4, PlusAdds
<1> QED
  BY <1>3, <1>7, <1>8, <1>9 DEF op

\* The loop goes on after an operation that read got bytes at p.
LEMMA ContinueKeeps ==
  ASSUME RInv, At("operations"), NEW i \in DOMAIN Operations, NEW p, NEW got,
         Continue(i, p + got),
         "input" \notin unnoticed' =>
           /\ "input" \notin unnoticed
           /\ p = ReaderAfterSkip(Operations[i].DataOffset)
           /\ got = Available(p, Operations[i].DataLength)
  PROVE  RInv'
<1> DEFINE op == Operations[i]
<1>1. /\ todo' = todo \ {i} /\ pos' = p + got
      /\ curr' = Plus(Signed(op.DataOffset), Signed(op.DataLength))
      /\ UNCHANGED <<payload, isPipe, partition, pc, chosen, created, verdict>>
  BY DEF Continue, input
<1> HIDE DEF op
<1>2. Control'
  BY <1>1 DEF RInv, Control, At, Passed, Choice, Named, Operations
<1>3. ASSUME ~isPipe, WholeData, "input" \notin unnoticed'
      PROVE  curr' \in 0 .. Len(payload.data) /\ pos' = DataStart + curr'
  <2>1. /\ p = DataStart + op.DataOffset
        /\ got = op.DataLength
        /\ Plus(Signed(op.DataOffset), Signed(op.DataLength)) = op.DataOffset + op.DataLength
        /\ op.DataOffset + op.DataLength <= Len(payload.data)
    BY <1>3, SeekFinds DEF op
  <2>3. payload \in Payloads /\ chosen \in DOMAIN payload.manifest.Partitions
    BY ChoiceTyped DEF RInv, Control, At, Passed
  <2>4. op.DataOffset \in Nat /\ op.DataLength \in Nat /\ DataStart \in Nat
    BY <2>3, OperationsTyped, PayloadTyped DEF op
  <2> QED
    BY <1>1, <2>1, <2>4
<1>4. DataStart' = DataStart /\ WholeData' = WholeData
  BY <1>1 DEF DataStart, WholeData, Operations
<1>5. Position'
  BY <1>1, <1>3, <1>4 DEF Position, At, RInv
<1> QED
  BY <1>2, <1>5 DEF RInv

\* OUT is created when the payload has been accepted, and the reader is then
\* behind the signature.
LEMMA ChoosePartitionKeeps ==
  ASSUME RInv, ChoosePartition
  PROVE  RInv'
<1>1. CASE Choice = 0
  BY <1>1, EndKeeps DEF ChoosePartition
<1>2. CASE Choice # 0
  <2>1. /\ pc = "choose" /\ verdict = "run"
        /\ pc' = "operations" /\ chosen' = Choice /\ curr' = 0 /\ created' = TRUE
        /\ todo' = DOMAIN payload.manifest.Partitions[Choice].Operations
        /\ SkipSignature
        /\ UNCHANGED <<payload, isPipe, partition, verdict>>
    BY <1>2 DEF ChoosePartition, At, input
  <2>2. Control'
    BY <1>2, <2>1 DEF RInv, Control, Passed, Choice, Named, Operations
  <2>3. ~isPipe /\ "input" \notin unnoticed' => pos' = DataStart
    <3> SUFFICES ASSUME ~isPipe, "input" \notin unnoticed'
                 PROVE  pos' = DataStart
      OBVIOUS
    <3>1. pos' = pos + payload.sigLen /\ "input" \notin unnoticed
      BY <2>1 DEF SkipSignature, Noticing
    <3>2. pos = HeaderLen + payload.manifestLen
      BY <2>1, <3>1 DEF RInv, Position
    <3> QED
      BY <3>1, <3>2, PayloadTyped DEF RInv, Control, DataStart
  <2>4. DataStart \in Nat /\ Len(payload.data) \in Nat
    BY PayloadTyped DEF RInv, Control
  <2>5. Position'
    BY <2>1, <2>3, <2>4 DEF Position, At, DataStart
  <2> QED
    BY <2>2, <2>5 DEF RInv
<1> QED
  BY <1>1, <1>2

\* What comes of one round of the loop for the reader and the verdict.
LEMMA OperationRound ==
  ASSUME RInv, Operation
  PROVE  \E i \in DOMAIN Operations : \E p, got :
           LET op == Operations[i] IN
           /\ \/ Leave("panic") \/ Leave("exit1") \/ Continue(i, p + got)
           /\ "input" \notin unnoticed' =>
                /\ "input" \notin unnoticed
                /\ p = ReaderAfterSkip(op.DataOffset)
                /\ got = Available(p, op.DataLength)
<1>1. PICK i \in NextOperations :
        LET op    == Operations[i]
            there == ReaderAfterSkip(op.DataOffset)
        IN  \E p \in Or(there, {pos}) : \E got \in Lengths(p, op.DataLength) :
              Apply(i, op, p, got, p # there \/ got # Available(p, op.DataLength))
  BY DEF Operation
<1> DEFINE op    == Operations[i]
           there == ReaderAfterSkip(op.DataOffset)
<1>2. PICK p \in Or(there, {pos}) : \E got \in Lengths(p, op.DataLength) :
        Apply(i, op, p, got, p # there \/ got # Available(p, op.DataLength))
  BY <1>1
<1>3. PICK got \in Lengths(p, op.DataLength) :
        Apply(i, op, p, got, p # there \/ got # Available(p, op.DataLength))
  BY <1>2
<1> DEFINE missed == p # there \/ got # Available(p, op.DataLength)
<1>4. /\ \/ Leave("panic") \/ Leave("exit1") \/ Continue(i, p + got)
      /\ \E m : Noticing(missed, m)
  <2> HIDE DEF op, there, missed
  <2>1. Apply(i, op, p, got, missed)
    BY <1>3 DEF missed
  <2> QED
    BY <2>1 DEF Apply, End
<1>5. "input" \notin unnoticed' => "input" \notin unnoticed /\ ~missed
  <2> HIDE DEF missed
  <2> QED
    BY <1>4 DEF Noticing
<1>6. i \in DOMAIN Operations
  BY DEF Operation, NextOperations, RInv, Control, At
<1> QED
  BY <1>4, <1>5, <1>6

LEMMA NextRInv == RInv /\ [Next]_vars => RInv'
<1> SUFFICES ASSUME RInv, [Next]_vars
             PROVE  RInv'
  OBVIOUS
<1>1. CASE ReadHeader
  <2>1. CASE End("exit1")
    BY <2>1, EndKeeps
  <2>2. CASE ~End("exit1")
    BY <1>1, <2>2 DEF ReadHeader, At, input, RInv, Control, Position, Passed,
                      Choice, Named, Operations
  <2> QED
    BY <2>1, <2>2
<1>2. CASE ReadManifest
  <2>1. PICK n \in (IF isPipe \/ Faults THEN 1 .. payload.manifestLen
                   ELSE {payload.manifestLen}),
             accepted \in BOOLEAN :
          /\ n = payload.manifestLen => accepted = payload.good
          /\ n < payload.manifestLen => (accepted => payload.good)
          /\ IF ~accepted \/ GetMinorVersion(payload.manifest) # 0 THEN End("exit1")
             ELSE /\ pc' = "choose" /\ pos' = pos + n
                  /\ UNCHANGED <<input, chosen, todo, curr, created, image, outPos,
                                 verdict>>
          /\ Noticing(n < payload.manifestLen, FALSE)
    BY <1>2 DEF ReadManifest
  <2>2. CASE ~accepted \/ GetMinorVersion(payload.manifest) # 0
    BY <2>1, <2>2, EndKeeps
  <2>3. CASE accepted /\ GetMinorVersion(payload.manifest) = 0
    <3>1. payload.manifestLen \in Nat
      BY PayloadTyped DEF RInv, Control
    <3>2. n \in Nat /\ n <= payload.manifestLen
      BY <2>1, <3>1
    <3>3. payload.good
      <4>1. n < payload.manifestLen \/ n = payload.manifestLen
        BY <3>1, <3>2
      <4>2. accepted => payload.good
        BY <2>1, <4>1, Zenon
      <4> QED
        BY <2>3, <4>2
    <3>4. "input" \notin unnoticed'
            => "input" \notin unnoticed /\ n = payload.manifestLen
      <4>1. "input" \notin unnoticed'
              => "input" \notin unnoticed /\ ~(n < payload.manifestLen)
        BY <2>1 DEF Noticing
      <4> QED
        BY <3>1, <3>2, <4>1
    <3> QED
      BY <1>2, <2>1, <2>3, <3>3, <3>4
      DEF ReadManifest, At, input, RInv, Control, Position, Passed, Choice, Named,
          Operations
  <2> QED
    BY <2>2, <2>3
<1>3. CASE ChoosePartition
  BY <1>3, ChoosePartitionKeeps
<1>4. CASE RejectOperation
  BY <1>4, EndKeeps DEF RejectOperation
<1>5. CASE Operation
  <2>1. At("operations")
    BY <1>5 DEF Operation
  <2> QED
    BY <1>5, <2>1, OperationRound, ContinueKeeps, LeaveKeeps
<1>6. CASE Finish
  BY <1>6, EndKeeps DEF Finish
<1>7. CASE HostFails
  BY <1>7, EndKeeps DEF HostFails
<1>8. CASE UNCHANGED vars
  BY <1>8 DEF vars, RInv, Control, Position, At, Passed, Choice, Named, Operations,
              DataStart, WholeData
<1> QED
  BY <1>1, <1>2, <1>3, <1>4, <1>5, <1>6, <1>7, <1>8 DEF Next

LEMMA AlwaysRInv == Spec => []RInv
BY InitRInv, NextRInv, PTL DEF Spec

\* Relative seeks and curr_data_offset part only by a seek or a read of the
\* payload that failed unseen: for every payload whose operations stay within
\* its data, in whatever order its manifest lists them, the reader is where the
\* code thinks before each operation, whatever else the host does.
THEOREM ReaderPosition == Spec => []ReaderKeepsUp
<1>1. RInv => ReaderKeepsUp
  BY DEF RInv, Position, ReaderKeepsUp
<1> QED
  BY <1>1, AlwaysRInv, PTL

\* A payload refused by its header, its manifest or its partitions leaves OUT
\* untouched.
THEOREM RefusalKeepsOut == Spec => []RefusedPayloadKeepsOut
<1>1. RInv => RefusedPayloadKeepsOut
  BY DEF RInv, Control, Passed, RefusedPayloadKeepsOut
<1> QED
  BY <1>1, AlwaysRInv, PTL

-----------------------------------------------------------------------------
(* What OUT holds.                                                         *)

\* A write into a file puts its bytes, keeps the others, and fills what lies
\* between with zeros.
LEMMA WrittenWrites ==
  ASSUME NEW f \in Seq(Cells), NEW at \in Nat, NEW buf \in Seq(Cells), Len(buf) > 0
  PROVE  LET g == Written(f, at, buf) IN
         /\ g \in Seq(Cells)
         /\ Len(g) = Len(f) \/ Len(g) = at + Len(buf)
         /\ Len(g) >= Len(f) /\ Len(g) >= at + Len(buf)
         /\ \A j \in 1 .. Len(buf) : g[at + j] = buf[j]
         /\ \A q \in 1 .. Len(f) : ~(at < q /\ q <= at + Len(buf)) => g[q] = f[q]
         /\ \A q \in (Len(f) + 1) .. Len(g) : ~(at < q /\ q <= at + Len(buf)) => g[q] = 0
<1> DEFINE size == IF at + Len(buf) > Len(f) THEN at + Len(buf) ELSE Len(f)
           g    == [q \in 1 .. size |-> IF at < q /\ q <= at + Len(buf) THEN buf[q - at]
                                        ELSE IF q <= Len(f) THEN f[q] ELSE 0]
<1>1. Written(f, at, buf) = g
  <2>1. buf # <<>>
    OBVIOUS
  <2> QED
    BY <2>1 DEF Written
<1>2. Len(f) \in Nat /\ Len(buf) \in Nat /\ size \in Nat
  OBVIOUS
<1>3. \A q \in 1 .. size : g[q] \in Cells
  <2> SUFFICES ASSUME NEW q \in 1 .. size
               PROVE  g[q] \in Cells
    OBVIOUS
  <2>1. CASE at < q /\ q <= at + Len(buf)
    <3>1. q - at \in 1 .. Len(buf)
      BY <1>2, <2>1
    <3> QED
      BY <2>1, <3>1
  <2>2. CASE ~(at < q /\ q <= at + Len(buf)) /\ q <= Len(f)
    BY <1>2, <2>2
  <2>3. CASE ~(at < q /\ q <= at + Len(buf)) /\ ~(q <= Len(f))
    BY <2>3, PayloadAssumption
  <2> QED
    BY <2>1, <2>2, <2>3
<1>4. g \in Seq(Cells) /\ Len(g) = size
  <2>1. g \in [1 .. size -> Cells]
    BY <1>3
  <2> HIDE DEF g, size
  <2> QED
    BY <1>2, <2>1
<1>5. \A j \in 1 .. Len(buf) : g[at + j] = buf[j]
  BY <1>2
<1>6. /\ \A q \in 1 .. Len(f) : ~(at < q /\ q <= at + Len(buf)) => g[q] = f[q]
      /\ \A q \in (Len(f) + 1) .. size : ~(at < q /\ q <= at + Len(buf)) => g[q] = 0
  BY <1>2
<1>7. /\ size = Len(f) \/ size = at + Len(buf)
      /\ size >= Len(f) /\ size >= at + Len(buf)
  BY <1>2
<1> HIDE DEF g, size
<1> QED
  BY <1>1, <1>4, <1>5, <1>6, <1>7

\* Where the content of an operation goes: its only extent.
Target(op) == op.DstExtents[1].StartBlock * BlockSize

LEMMA LegalOperation ==
  ASSUME payload \in Payloads, LegalPayload, Supported,
         NEW i \in DOMAIN Update.Operations
  PROVE  LET op == Update.Operations[i] IN
         /\ op.DataOffset \in Nat \ {0} /\ op.DataLength \in Nat \ {0}
         /\ op.DataOffset + op.DataLength <= Len(payload.data)
         /\ op.DstExtents # <<>>
         /\ Blob(op) \in Seq(Cells)
         /\ \/ op.Type = REPLACE /\ Content(op) = Blob(op)
            \/ /\ op.Type \in {REPLACE_BZ, REPLACE_XZ} /\ Blob(op) \in DOMAIN Streams
               /\ Content(op) = Streams[Blob(op)]
         /\ Content(op) \in Seq(Cells) /\ Len(Content(op)) > 0
         /\ Target(op) \in Nat
         /\ Targets(op) = [k \in 1 .. Len(Content(op)) |-> Target(op) + k]
         /\ \A at : OutAt(op.DstExtents[1].StartBlock, at) = Target(op)
<1> DEFINE op == Update.Operations[i]
<1>1. Choice \in DOMAIN payload.manifest.Partitions
  BY ChoiceTyped DEF LegalPayload
<1>2. op \in InstallOperations
  <2>1. payload.manifest.Partitions[Choice] \in PartitionUpdates
    BY <1>1, PayloadTyped
  <2>2. Update.Operations \in Seq(InstallOperations)
    BY <2>1 DEF Update, PartitionUpdates
  <2> QED
    BY <2>2
<1>3. Legal(op)
  BY DEF LegalPayload
<1>4. op.Type # ZERO /\ op.DataOffset > 0 /\ Len(op.DstExtents) = 1
  BY DEF Supported
<1> HIDE DEF op
<1>5. Words \subseteq Nat
  BY WidthAssumption DEF Words
<1>6. op.DataOffset \in Nat /\ op.DataLength \in Nat /\ op.DstExtents \in Seq(Extents)
  BY <1>2, <1>5 DEF InstallOperations
<1>7. /\ op.DstExtents[1].StartBlock \in Nat /\ op.DstExtents[1].NumBlocks \in Nat
      /\ DOMAIN op.DstExtents = 1 .. 1
  <2>1. op.DstExtents[1] \in Extents /\ DOMAIN op.DstExtents = 1 .. 1
    BY <1>4, <1>6
  <2> QED
    BY <2>1, <1>5 DEF Extents
<1>8. BlockSize \in Nat /\ payload.data \in Seq(Cells)
  BY PayloadTyped
<1> DEFINE base == op.DstExtents[1].StartBlock * BlockSize
           size == op.DstExtents[1].NumBlocks * BlockSize
           T    == [k \in 1 .. size |-> base + k]
<1>9. base \in Nat /\ size \in Nat
  <2>1. \A x, y \in Nat : x * y \in Nat
    OBVIOUS
  <2> QED
    BY <1>7, <1>8, <2>1
<1>10. Targets(op) = T
  <2> DEFINE seqs == [e \in DOMAIN op.DstExtents |->
                        [k \in 1 .. op.DstExtents[e].NumBlocks * BlockSize |->
                           op.DstExtents[e].StartBlock * BlockSize + k]]
  <2>1. seqs = [e \in 1 .. 1 |-> T]
    BY <1>7
  <2>2. Targets(op) = FlattenSeq(seqs)
    BY DEF Targets
  <2> HIDE DEF seqs, T
  <2> QED
    BY <2>1, <2>2, FlattenOne
<1> HIDE DEF base, size
<1>11. Len(T) = size /\ DOMAIN T = 1 .. size /\ \A k \in 1 .. size : T[k] = base + k
  BY <1>9
<1> HIDE DEF T
<1>12. Len(Content(op)) = size /\ size > 0
  BY <1>3, <1>10, <1>11 DEF Legal
<1>13. base + size <= MaxInt
  <2>1. T[size] \in ToSet(Targets(op))
    BY <1>9, <1>10, <1>11, <1>12 DEF ToSet
  <2> QED
    BY <1>3, <1>9, <1>11, <1>12, <2>1 DEF Legal
<1>14. Signed(base % Word) = base
  BY <1>9, <1>13, WordHalves, SignedWraps
<1>15. \A at : OutAt(op.DstExtents[1].StartBlock, at) = base
  BY <1>9, <1>14 DEF OutAt, base
<1>16. HasBlob(op) /\ op.Type \in {REPLACE, REPLACE_BZ, REPLACE_XZ}
  BY <1>3, <1>4 DEF Legal
<1>17. Blob(op) \in Seq(Cells)
  BY <1>6, <1>8, <1>16 DEF Blob, HasBlob
<1>18. \/ op.Type = REPLACE /\ Content(op) = Blob(op)
       \/ /\ op.Type \in {REPLACE_BZ, REPLACE_XZ} /\ Blob(op) \in DOMAIN Streams
          /\ Content(op) = Streams[Blob(op)]
  BY <1>3, <1>16 DEF Legal, Content, REPLACE, REPLACE_BZ, REPLACE_XZ, ZERO
<1>19. Content(op) \in Seq(Cells)
  BY <1>17, <1>18, PayloadAssumption
<1>20. op.DstExtents # <<>>
  <2>1. Len(op.DstExtents) # Len(<<>>)
    BY <1>4
  <2> QED
    BY <2>1
<1>21. Target(op) = base
  BY DEF Target, base
<1> QED
  BY <1>4, <1>6, <1>9, <1>10, <1>12, <1>15, <1>16, <1>17, <1>18, <1>19, <1>20, <1>21
  DEF HasBlob, op, T

\* The n elements of a sequence behind the first k.
LEMMA CutOut ==
  ASSUME NEW T, NEW s \in Seq(T), NEW k \in Nat, NEW n \in Nat, k + n <= Len(s)
  PROVE  /\ SubSeq(s, k + 1, k + n) \in Seq(T) /\ Len(SubSeq(s, k + 1, k + n)) = n
         /\ \A j \in 1 .. n : SubSeq(s, k + 1, k + n)[j] = s[k + j]
<1>1. SubSeq(s, k + 1, k + n) = [j \in 1 .. n |-> s[k + j]]
  OBVIOUS
<1>2. \A j \in 1 .. n : k + j \in 1 .. Len(s)
  OBVIOUS
<1>3. [j \in 1 .. n |-> s[k + j]] \in [1 .. n -> T]
  BY <1>2
<1> QED
  BY <1>1, <1>3

\* The first k bytes of an operation's content, whichever operation it is,
\* disturb the content of no other one and go nowhere else.
LEMMA WriteKeeps ==
  ASSUME payload \in Payloads, LegalPayload, Supported, NEW f \in Seq(Cells),
         NEW S \in SUBSET DOMAIN Update.Operations,
         NEW i \in DOMAIN Update.Operations, i \notin S,
         Carries(f, S), Confined(f, S),
         NEW k \in 0 .. Len(Content(Update.Operations[i]))
  PROVE  LET op == Update.Operations[i]
             g  == Written(f, Target(op), SubSeq(Content(op), 1, k))
         IN  g \in Seq(Cells) /\ Carries(g, S) /\ Confined(g, S \union {i})
<1> DEFINE ops  == Update.Operations
           op   == ops[i]
           t    == Target(op)
           n    == Len(Content(op))
           buf  == SubSeq(Content(op), 1, k)
           g    == Written(f, t, buf)
           R(j) == ToSet(Targets(ops[j]))
<1>1. /\ Content(op) \in Seq(Cells) /\ n \in Nat /\ n > 0 /\ t \in Nat
      /\ Targets(op) = [d \in 1 .. n |-> t + d]
  <2>1. /\ Content(op) \in Seq(Cells) /\ n > 0 /\ t \in Nat
        /\ Targets(op) = [d \in 1 .. n |-> t + d]
    BY LegalOperation
  <2>2. n \in Nat
    BY <2>1
  <2> QED
    BY <2>1, <2>2
<1> HIDE DEF op, t, n
<1>2. k \in Nat /\ k <= n /\ buf \in Seq(Cells) /\ Len(buf) = k
  <2>1. k \in Nat /\ k <= n
    BY <1>1 DEF n, op
  <2>2. 0 + k <= Len(Content(op))
    BY <2>1 DEF n
  <2>3. SubSeq(Content(op), 0 + 1, 0 + k) \in Seq(Cells)
        /\ Len(SubSeq(Content(op), 0 + 1, 0 + k)) = k
    BY <1>1, <2>1, <2>2, CutOut
  <2>4. 0 + 1 = 1 /\ 0 + k = k
    BY <2>1
  <2> QED
    BY <2>1, <2>3, <2>4
<1>3. CASE k = 0
  <2>1. buf = <<>>
    <3>1. Len(buf) = 0 /\ buf \in Seq(Cells)
      BY <1>2, <1>3
    <3> HIDE DEF buf
    <3> QED
      BY <3>1
  <2>2. g = f
    BY <2>1 DEF Written
  <2>3. Confined(f, S \union {i})
    <3>1. CellsOf(S) \subseteq CellsOf(S \union {i})
      BY DEF CellsOf
    <3> QED
      BY <3>1 DEF Confined
  <2> QED
    BY <2>2, <2>3 DEF op, t
<1>4. CASE k # 0
  <2>1. k > 0
    BY <1>2, <1>4
  <2> HIDE DEF buf
  <2>2. /\ g \in Seq(Cells)
        /\ Len(g) >= Len(f)
        /\ \A q \in 1 .. Len(f) : ~(t < q /\ q <= t + k) => g[q] = f[q]
        /\ \A q \in (Len(f) + 1) .. Len(g) : ~(t < q /\ q <= t + k) => g[q] = 0
    <3>1. Len(buf) > 0 /\ buf \in Seq(Cells) /\ t \in Nat
      BY <1>1, <1>2, <2>1
    <3>2. /\ g \in Seq(Cells)
          /\ Len(g) = Len(f) \/ Len(g) = t + Len(buf)
          /\ Len(g) >= Len(f) /\ Len(g) >= t + Len(buf)
          /\ \A j \in 1 .. Len(buf) : g[t + j] = buf[j]
          /\ \A q \in 1 .. Len(f) : ~(t < q /\ q <= t + Len(buf)) => g[q] = f[q]
          /\ \A q \in (Len(f) + 1) .. Len(g) : ~(t < q /\ q <= t + Len(buf)) => g[q] = 0
      BY <3>1, WrittenWrites, Zenon
    <3> QED
      BY <1>2, <3>2
  <2>3. \A q \in Int : t < q /\ q <= t + k => q \in R(i)
    <3>1. R(i) = {t + d : d \in 1 .. n}
      BY <1>1 DEF ToSet, op
    <3>2. \A q \in Int : t < q /\ q <= t + k => q - t \in 1 .. n /\ q = t + (q - t)
      BY <1>1, <1>2
    <3> QED
      BY <1>1, <3>1, <3>2
  <2>4. /\ Len(f) \in Nat /\ DOMAIN f = 1 .. Len(f)
        /\ Len(g) \in Nat /\ DOMAIN g = 1 .. Len(g)
    BY <2>2
  <2>5. \A j \in S : R(j) \intersect R(i) = {}
    BY DEF LegalPayload
  <2>6. \A j \in S : \A d \in DOMAIN Content(ops[j]) : Targets(ops[j])[d] \in R(j)
    <3> SUFFICES ASSUME NEW j \in S, NEW d \in DOMAIN Content(ops[j])
                 PROVE  Targets(ops[j])[d] \in R(j)
      OBVIOUS
    <3>1. /\ Content(ops[j]) \in Seq(Cells)
          /\ Targets(ops[j]) = [e \in 1 .. Len(Content(ops[j])) |-> Target(ops[j]) + e]
      BY LegalOperation
    <3>2. d \in DOMAIN Targets(ops[j])
      BY <3>1
    <3> QED
      BY <3>2 DEF ToSet
  <2>7. CellsOf(S \union {i}) = CellsOf(S) \union R(i)
    BY DEF CellsOf
  <2> HIDE DEF g, R
  <2>8. \A j \in S : \A d \in DOMAIN Content(ops[j]) :
          /\ Targets(ops[j])[d] \in DOMAIN g
          /\ g[Targets(ops[j])[d]] = Content(ops[j])[d]
    <3> SUFFICES ASSUME NEW j \in S, NEW d \in DOMAIN Content(ops[j])
                 PROVE  /\ Targets(ops[j])[d] \in DOMAIN g
                        /\ g[Targets(ops[j])[d]] = Content(ops[j])[d]
      OBVIOUS
    <3> DEFINE q == Targets(ops[j])[d]
    <3>1. q \in 1 .. Len(f) /\ f[q] = Content(ops[j])[d]
      BY <2>4 DEF Carries
    <3>2. q \notin R(i)
      BY <2>5, <2>6
    <3> HIDE DEF q
    <3>3. ~(t < q /\ q <= t + k)
      BY <2>3, <3>1, <3>2
    <3>4. q \in 1 .. Len(g)
      BY <2>2, <2>4, <3>1
    <3> QED
      BY <2>2, <2>4, <3>1, <3>3, <3>4 DEF q
  <2>9. \A q \in DOMAIN g \ CellsOf(S \union {i}) : g[q] = 0
    <3> SUFFICES ASSUME NEW q \in 1 .. Len(g), q \notin CellsOf(S), q \notin R(i)
                 PROVE  g[q] = 0
      BY <2>4, <2>7
    <3>1. ~(t < q /\ q <= t + k)
      BY <2>3
    <3>2. CASE q <= Len(f)
      <4>1. q \in 1 .. Len(f)
        BY <2>4, <3>2
      <4>2. g[q] = f[q]
        BY <2>2, <3>1, <4>1
      <4>3. f[q] = 0
        BY <2>4, <4>1 DEF Confined
      <4> QED
        BY <4>2, <4>3
    <3>3. CASE q > Len(f)
      <4>1. q \in (Len(f) + 1) .. Len(g)
        BY <2>4, <3>3
      <4> QED
        BY <2>2, <3>1, <4>1
    <3> QED
      BY <2>4, <3>2, <3>3
  <2> QED
    BY <2>2, <2>8, <2>9 DEF Carries, Confined, g, buf, t, op
<1> QED
  BY <1>3, <1>4

\* The whole content of one more operation is added to what OUT holds.
LEMMA WriteExtends ==
  ASSUME payload \in Payloads, LegalPayload, Supported, NEW f \in Seq(Cells),
         NEW S \in SUBSET DOMAIN Update.Operations,
         NEW i \in DOMAIN Update.Operations, i \notin S, ImageOf(f, S)
  PROVE  LET op == Update.Operations[i]
             g  == Written(f, Target(op), Content(op))
         IN  g \in Seq(Cells) /\ ImageOf(g, S \union {i})
<1> DEFINE ops  == Update.Operations
           op   == ops[i]
           t    == Target(op)
           n    == Len(Content(op))
           g    == Written(f, t, Content(op))
           R(j) == ToSet(Targets(ops[j]))
<1>1. /\ Content(op) \in Seq(Cells) /\ n \in Nat /\ n > 0 /\ t \in Nat
      /\ Targets(op) = [k \in 1 .. n |-> t + k]
  <2>1. /\ Content(op) \in Seq(Cells) /\ n > 0 /\ t \in Nat
        /\ Targets(op) = [k \in 1 .. n |-> t + k]
    BY LegalOperation
  <2>2. n \in Nat
    BY <2>1
  <2> QED
    BY <2>1, <2>2
<1>2. /\ g \in Seq(Cells)
      /\ Len(g) = Len(f) \/ Len(g) = t + n
      /\ Len(g) >= Len(f) /\ Len(g) >= t + n
      /\ \A j \in 1 .. n : g[t + j] = Content(op)[j]
  BY <1>1, WrittenWrites
<1>3. \A q \in Int : q \in R(i) <=> t < q /\ q <= t + n
  <2>1. R(i) = {t + k : k \in 1 .. n}
    BY <1>1 DEF ToSet
  <2>2. \A q \in Int : t < q /\ q <= t + n => q - t \in 1 .. n /\ q = t + (q - t)
    BY <1>1
  <2> QED
    BY <1>1, <2>1, <2>2
<1>4. /\ Len(f) \in Nat /\ DOMAIN f = 1 .. Len(f)
      /\ Len(g) \in Nat /\ DOMAIN g = 1 .. Len(g)
  BY <1>2
<1>5. CellsOf(S \union {i}) = CellsOf(S) \union R(i)
  BY DEF CellsOf
<1>6. \A d \in DOMAIN Content(op) :
        Targets(op)[d] \in DOMAIN g /\ g[Targets(op)[d]] = Content(op)[d]
  <2> SUFFICES ASSUME NEW d \in 1 .. n
               PROVE  t + d \in DOMAIN g /\ g[t + d] = Content(op)[d]
    BY <1>1
  <2> QED
    BY <1>1, <1>2, <1>4
<1>7. SubSeq(Content(op), 1, n) = Content(op) /\ n \in 0 .. n
  BY <1>1
<1>8. Carries(g, S) /\ Confined(g, S \union {i})
  BY <1>7, WriteKeeps DEF ImageOf
<1> HIDE DEF g, R, t, n
<1>9. t + n \in R(i)
  BY <1>1, <1>3 DEF t, n
<1>10. Len(g) \in CellsOf(S \union {i})
  <2>1. CASE Len(g) = t + n
    BY <1>5, <1>9, <2>1
  <2>2. CASE Len(g) = Len(f)
    <3>1. Len(f) # 0
      BY <1>1, <1>2, <1>4, <2>2 DEF t, n
    <3>2. f # <<>>
      BY <3>1
    <3> QED
      BY <1>5, <2>2, <3>2 DEF ImageOf, Ends
  <2> QED
    BY <1>2, <2>1, <2>2
<1>11. Carries(g, S \union {i})
  <2>1. \A j \in S \union {i} : \A d \in DOMAIN Content(ops[j]) :
          /\ Targets(ops[j])[d] \in DOMAIN g
          /\ g[Targets(ops[j])[d]] = Content(ops[j])[d]
    BY <1>6, <1>8 DEF Carries
  <2> QED
    BY <2>1 DEF Carries
<1>12. Ends(g, S \union {i})
  BY <1>10 DEF Ends
<1> QED
  BY <1>2, <1>8, <1>11, <1>12 DEF ImageOf, g, t

\* What an operation reads is its blob.
LEMMA BufferIsBlob ==
  ASSUME payload \in Payloads, NEW op, op.DataOffset \in Nat, op.DataLength \in Nat,
         op.DataOffset + op.DataLength <= Len(payload.data)
  PROVE  Buffer(DataStart + op.DataOffset, op.DataLength, op.DataLength) = Blob(op)
<1> DEFINE off == op.DataOffset
           n   == op.DataLength
<1>1. /\ payload.data \in Seq(Cells) /\ Len(payload.data) \in Nat /\ DataStart \in Nat
  BY PayloadTyped
<1>2. /\ Len(Blob(op)) = n /\ Blob(op) \in Seq(Cells)
      /\ \A j \in 1 .. n : Blob(op)[j] = payload.data[off + j]
  <2>1. off \in Nat /\ n \in Nat /\ off + n <= Len(payload.data)
    OBVIOUS
  <2>2. Blob(op) = SubSeq(payload.data, off + 1, off + n)
    BY DEF Blob
  <2> HIDE DEF off, n
  <2>3. /\ SubSeq(payload.data, off + 1, off + n) \in Seq(Cells)
        /\ Len(SubSeq(payload.data, off + 1, off + n)) = n
        /\ \A j \in 1 .. n : SubSeq(payload.data, off + 1, off + n)[j] = payload.data[off + j]
    BY <1>1, <2>1, CutOut
  <2> QED
    BY <2>2, <2>3
<1>3. \A j \in 1 .. n : CellAt(DataStart + off + j - 1) = payload.data[off + j]
  <2> SUFFICES ASSUME NEW j \in 1 .. n
               PROVE  CellAt(DataStart + off + j - 1) = payload.data[off + j]
    OBVIOUS
  <2>1. /\ ~(DataStart + off + j - 1 < DataStart)
        /\ DataStart + off + j - 1 - DataStart + 1 = off + j
    BY <1>1
  <2> QED
    BY <1>1, <2>1 DEF CellAt
<1>4. Blob(op) = [j \in 1 .. n |-> payload.data[off + j]]
  BY <1>2
<1>5. Buffer(DataStart + off, n, n) = [j \in 1 .. n |-> CellAt(DataStart + off + j - 1)]
  BY DEF Buffer
<1> QED
  BY <1>3, <1>4, <1>5

-----------------------------------------------------------------------------
(* OUT, operation by operation.                                            *)

Exact ==
  ~isPipe /\ created /\ unnoticed = {} /\ LegalPayload /\ Supported =>
    LET done == DOMAIN Update.Operations \ todo IN
    /\ image \in Seq(Cells)
    /\ verdict # "exit1" => ImageOf(image, done)
    /\ verdict = "exit0" => todo = {}
    /\ verdict = "exit1" =>
         /\ Faults
         /\ \E i \in todo : Carries(image, done) /\ Confined(image, done \union {i})
    /\ verdict # "panic"

EInv == RInv /\ Exact

\* The payload and the name given do not change, and what depends on nothing
\* else does not.
LEMMA SamePayload ==
  ASSUME payload' = payload, partition' = partition
  PROVE  /\ Choice' = Choice /\ Update' = Update
         /\ LegalPayload' = LegalPayload /\ Supported' = Supported
         /\ \A f, S : Carries(f, S)' = Carries(f, S)
         /\ \A f, S : Confined(f, S)' = Confined(f, S)
         /\ \A f, S : ImageOf(f, S)' = ImageOf(f, S)
BY DEF Choice, Named, Update, LegalPayload, Legal, Targets, BlockSize, Content, Blob,
       HasBlob, Supported, ImageOf, CellsOf, Carries, Confined, Ends

\* Nothing is done yet: OUT is empty.
LEMMA NothingDone ==
  ImageOf(<<>>, {})
BY DEF ImageOf, CellsOf, Carries, Confined, Ends

LEMMA InitExact == Init => Exact
BY DEF Init, Exact

\* A run that comes to its end keeps OUT.
LEMMA FinishExact ==
  ASSUME EInv, Finish
  PROVE  Exact'
<1>1. /\ payload' = payload /\ partition' = partition /\ isPipe' = isPipe
      /\ verdict' = "exit0" /\ verdict = "run" /\ todo = {}
      /\ UNCHANGED <<todo, created, image, unnoticed>>
  BY DEF Finish, At, End, Leave, input
<1>2. /\ LegalPayload' = LegalPayload /\ Supported' = Supported /\ Update' = Update
      /\ \A f, S : ImageOf(f, S)' = ImageOf(f, S)
  BY <1>1, SamePayload
<1>3. ImageOf(image, DOMAIN Update.Operations \ todo)
        => ImageOf(image, DOMAIN Update.Operations \ todo)'
  BY <1>1, <1>2
<1> QED
  BY <1>1, <1>2, <1>3 DEF EInv, Exact

\* Before an operation of a payload that Exact is about.
LEMMA AtOperation ==
  ASSUME EInv, At("operations"), ~isPipe, LegalPayload, Supported,
         NEW i \in NextOperations
  PROVE  /\ i \in DOMAIN Update.Operations /\ i \in todo
         /\ Operations = Update.Operations /\ payload \in Payloads /\ created
         /\ todo \subseteq DOMAIN Update.Operations
         /\ WholeData
         /\ ~RejectedBeforeReading(Operations[i])
<1>1. /\ payload \in Payloads /\ created /\ chosen = Choice
      /\ todo \subseteq DOMAIN Operations
  BY DEF EInv, RInv, Control, At
<1>2. Operations = Update.Operations
  BY <1>1 DEF Operations, Update
<1>3. i \in todo /\ i \in DOMAIN Update.Operations
  BY <1>1, <1>2 DEF NextOperations
<1>4. WholeData
  BY <1>1, <1>2, LegalOperation DEF WholeData
<1>5. ~RejectedBeforeReading(Operations[i])
  BY <1>1, <1>2, <1>3, LegalOperation DEF RejectedBeforeReading
<1> QED
  BY <1>1, <1>2, <1>3, <1>4, <1>5

\* o is out after the first k bytes of buf have been written at at.
Wrote(out, block, buf, checked, o, at, k) ==
  /\ o.f = Written(out.f, at, SubSeq(buf, 1, k)) /\ o.at = at + k
  /\ ~o.missed => ~out.missed /\ at = OutAt(block, out.at)
  /\ o.failed <=> k < Len(buf) /\ checked

\* What a write may make of OUT: some first bytes of buf, at the block or, when
\* the seek fails, where out_file was.
LEMMA WritesAre ==
  ASSUME NEW out, NEW block, NEW buf, NEW checked \in BOOLEAN,
         NEW o \in Writes(out, block, buf, checked)
  PROVE  \E at \in Or(OutAt(block, out.at), {out.at}),
            k \in Or(Len(buf), 0 .. Len(buf)) : Wrote(out, block, buf, checked, o, at, k)
<1> DEFINE A == Or(OutAt(block, out.at), {out.at})
           K == Or(Len(buf), 0 .. Len(buf))
           w(at, k) == [f |-> Written(out.f, at, SubSeq(buf, 1, k)), at |-> at + k,
                        missed |-> out.missed \/ at # OutAt(block, out.at)
                                     \/ (k < Len(buf) /\ ~checked),
                        failed |-> k < Len(buf) /\ checked]
<1>1. Writes(out, block, buf, checked) = {w(at, k) : at \in A, k \in K}
  BY DEF Writes
<1>2. PICK at \in A, k \in K : o = w(at, k)
  <2> HIDE DEF w, A, K
  <2> QED
    BY <1>1
<1>3. /\ o.f = Written(out.f, at, SubSeq(buf, 1, k)) /\ o.at = at + k
  BY <1>2
<1>4. /\ o.missed = (out.missed \/ at # OutAt(block, out.at) \/ (k < Len(buf) /\ ~checked))
      /\ o.failed = (k < Len(buf) /\ checked)
  BY <1>2
<1>5. /\ ~o.missed => ~out.missed /\ at = OutAt(block, out.at)
      /\ o.failed <=> k < Len(buf) /\ checked
  BY <1>4, Zenon
<1> QED
  BY <1>2, <1>3, <1>5 DEF Wrote

\* An operation writes its content to its extent, or, when a write fails, the
\* first bytes of it.
LEMMA OperationExact ==
  ASSUME EInv, Operation
  PROVE  Exact'
<1>1. At("operations")
  BY DEF Operation
<1>2. CASE ~(~isPipe /\ unnoticed' = {} /\ LegalPayload /\ Supported)
  <2>1. payload' = payload /\ partition' = partition /\ isPipe' = isPipe
    BY OperationRound DEF EInv, Leave, Continue, input
  <2> QED
    BY <1>2, <2>1, SamePayload DEF Exact
<1>3. CASE ~isPipe /\ unnoticed' = {} /\ LegalPayload /\ Supported
  <2>1. PICK i \in NextOperations :
          LET op    == Operations[i]
              there == ReaderAfterSkip(op.DataOffset)
          IN  \E p \in Or(there, {pos}) : \E got \in Lengths(p, op.DataLength) :
                Apply(i, op, p, got, p # there \/ got # Available(p, op.DataLength))
    BY DEF Operation
  <2> DEFINE op  == Operations[i]
             buf == Blob(op)
             c   == Content(op)
             t   == Target(op)
  <2>2. /\ i \in DOMAIN Update.Operations /\ i \in todo
        /\ Operations = Update.Operations /\ payload \in Payloads /\ created
        /\ todo \subseteq DOMAIN Update.Operations /\ WholeData
    BY <1>1, <1>3, AtOperation
  <2>3. /\ op.DataOffset \in Nat \ {0} /\ op.DataLength \in Nat \ {0}
        /\ op.DataOffset + op.DataLength <= Len(payload.data)
        /\ op.DstExtents # <<>>
        /\ \/ op.Type = REPLACE /\ c = buf
           \/ op.Type \in {REPLACE_BZ, REPLACE_XZ} /\ buf \in DOMAIN Streams /\ c = Streams[buf]
        /\ c \in Seq(Cells)
        /\ \A at : OutAt(op.DstExtents[1].StartBlock, at) = t
    BY <1>3, <2>2, LegalOperation
  <2>4. PICK p, got, missed :
          /\ Apply(i, op, p, got, missed)
          /\ ~missed => /\ p = ReaderAfterSkip(op.DataOffset)
                        /\ got = Available(p, op.DataLength)
    BY <2>1
  <2> HIDE DEF op, buf, c, t
  <2>5. ~missed /\ unnoticed = {}
    <3>1. \E m : Noticing(missed, m)
      BY <2>4 DEF Apply
    <3> QED
      BY <1>3, <3>1 DEF Noticing
  <2>6. p = DataStart + op.DataOffset /\ got = op.DataLength
    BY <1>1, <1>3, <2>2, <2>4, <2>5, SeekFinds DEF EInv, op
  <2>7. Buffer(p, op.DataLength, got) = buf
    BY <2>2, <2>3, <2>6, BufferIsBlob DEF buf
  <2>8. op.Type \in {REPLACE_BZ, REPLACE_XZ} => Recognised(buf) /\ ~(Len(buf) < FirstMagic)
    <3>1. op.Type \in {REPLACE_BZ, REPLACE_XZ} => buf \in DOMAIN Streams
      BY <2>3 DEF REPLACE, REPLACE_BZ, REPLACE_XZ
    <3>2. buf \in DOMAIN Streams => Len(buf) >= FirstMagic /\ Len(buf) \in Nat
      BY PayloadAssumption
    <3> QED
      BY <3>1, <3>2, PayloadAssumption DEF Recognised
  <2>9. ~Panics(op, buf) /\ ~Refused(op, buf)
    BY <2>3, <2>8 DEF Panics, Refused, REPLACE, REPLACE_BZ, REPLACE_XZ, ZERO
  <2>10. PICK out \in Outcomes(op, buf) :
           /\ image' = out.f
           /\ Noticing(missed, out.missed)
           /\ IF out.failed THEN Leave("exit1") ELSE Continue(i, p + got)
    <3> DEFINE b == Buffer(p, op.DataLength, got)
    <3>1. \/ Panics(op, b) \/ Refused(op, b)
          \/ \E out \in Outcomes(op, b) :
               /\ image' = out.f
               /\ Noticing(missed, out.missed)
               /\ IF out.failed THEN Leave("exit1") ELSE Continue(i, p + got)
      BY <2>4 DEF Apply
    <3>2. b = buf
      BY <2>7
    <3> HIDE DEF b
    <3> QED
      BY <2>9, <3>1, <3>2
  <2>11. Outcomes(op, buf) = Writes(Out, op.DstExtents[1].StartBlock, c, TRUE)
    <3>1. op.Type # ZERO /\ Output(op, buf) = c
      BY <2>3 DEF Output, REPLACE, REPLACE_BZ, REPLACE_XZ, ZERO
    <3> QED
      BY <3>1 DEF Outcomes
  <2>12. PICK at \in Or(OutAt(op.DstExtents[1].StartBlock, Out.at), {Out.at}),
             k \in Or(Len(c), 0 .. Len(c)) :
           /\ out.f = Written(Out.f, at, SubSeq(c, 1, k))
           /\ ~out.missed => at = OutAt(op.DstExtents[1].StartBlock, Out.at)
           /\ out.failed <=> k < Len(c)
    <3> DEFINE block == op.DstExtents[1].StartBlock
    <3>1. PICK yes \in BOOLEAN : yes = TRUE
      OBVIOUS
    <3>2. out \in Writes(Out, block, c, yes)
      BY <2>10, <2>11, <3>1
    <3> HIDE DEF block
    <3>3. \E at \in Or(OutAt(block, Out.at), {Out.at}),
             k \in Or(Len(c), 0 .. Len(c)) : Wrote(Out, block, c, yes, out, at, k)
      BY <3>2, WritesAre
    <3> QED
      BY <3>1, <3>3, Zenon DEF block, Wrote
  <2>13. at = t
    <3>1. ~out.missed
      BY <1>3, <2>10 DEF Noticing
    <3> QED
      BY <2>3, <2>12, <3>1
  <2>14. /\ Len(c) \in Nat /\ k \in 0 .. Len(c) /\ (k # Len(c) => Faults)
    BY <2>3, <2>12 DEF Or
  <2>15. /\ image' = Written(image, t, SubSeq(c, 1, k))
         /\ k < Len(c) => Leave("exit1")
         /\ ~(k < Len(c)) => Continue(i, p + got)
    BY <2>10, <2>12, <2>13 DEF Out
  <2> DEFINE S == DOMAIN Update.Operations \ todo
  <2>16. image \in Seq(Cells) /\ ImageOf(image, S)
    BY <1>1, <1>3, <2>2, <2>5 DEF EInv, Exact, At
  <2>17. S \in SUBSET DOMAIN Update.Operations /\ i \notin S
    BY <2>2
  <2>18. CASE k < Len(c)
    <3>1. /\ verdict' = "exit1" /\ todo' = todo
          /\ UNCHANGED <<payload, isPipe, partition, created>>
      BY <2>10, <2>15, <2>18 DEF Leave, input
    <3>2. image' \in Seq(Cells) /\ Carries(image', S) /\ Confined(image', S \union {i})
      <4> HIDE DEF S
      <4> QED
        BY <1>3, <2>2, <2>14, <2>15, <2>16, <2>17, WriteKeeps DEF ImageOf, op, c, t
    <3>3. /\ Update' = Update /\ \A f, T : Carries(f, T)' = Carries(f, T)
          /\ \A f, T : Confined(f, T)' = Confined(f, T)
      BY <3>1, SamePayload
    <3>4. Carries(image, S)' /\ Confined(image, S \union {i})'
      BY <3>1, <3>2, <3>3
    <3>5. Faults /\ i \in todo'
      BY <2>2, <2>14, <2>18, <3>1
    <3> QED
      BY <3>1, <3>2, <3>4, <3>5 DEF Exact
  <2>19. CASE ~(k < Len(c))
    <3>1. /\ todo' = todo \ {i} /\ verdict' = "run"
          /\ UNCHANGED <<payload, isPipe, partition, created>>
      BY <1>1, <2>10, <2>15, <2>19 DEF Continue, input, At
    <3>2. image' = Written(image, t, c)
      <4>1. k = Len(c)
        BY <2>14, <2>19
      <4>2. SubSeq(c, 1, Len(c)) = c
        BY <2>3
      <4> QED
        BY <2>15, <4>1, <4>2
    <3>3. image' \in Seq(Cells) /\ ImageOf(image', S \union {i})
      <4> HIDE DEF S
      <4> QED
        BY <1>3, <2>2, <2>16, <2>17, <3>2, WriteExtends DEF op, c, t
    <3>4. DOMAIN Update.Operations \ todo' = S \union {i}
      BY <2>2, <3>1
    <3>5. Update' = Update /\ \A f, T : ImageOf(f, T)' = ImageOf(f, T)
      BY <3>1, SamePayload
    <3>6. ImageOf(image, DOMAIN Update.Operations \ todo)'
      BY <3>3, <3>4, <3>5
    <3> QED
      BY <3>1, <3>3, <3>6 DEF Exact
  <2> QED
    BY <2>18, <2>19
<1> QED
  BY <1>2, <1>3

\* OUT is empty when it has been created.
LEMMA ChooseExact ==
  ASSUME EInv, ChoosePartition
  PROVE  Exact'
<1>1. /\ payload' = payload /\ partition' = partition
  BY DEF ChoosePartition, End, Leave, input
<1>2. CASE Choice = 0
  <2>1. ~created'
    BY <1>2 DEF ChoosePartition, End, Leave, EInv, RInv, Control, At
  <2> QED
    BY <2>1 DEF Exact
<1>3. CASE Choice # 0
  <2>1. /\ todo' = DOMAIN Update.Operations /\ image' = <<>> /\ verdict' = "run"
    BY <1>3 DEF ChoosePartition, At, Update
  <2>2. Update' = Update /\ \A f, T : ImageOf(f, T)' = ImageOf(f, T)
    BY <1>1, SamePayload
  <2>3. DOMAIN Update'.Operations \ todo' = {}
    BY <2>1, <2>2
  <2>4. ImageOf(image, DOMAIN Update.Operations \ todo)'
    BY <2>1, <2>2, <2>3, NothingDone
  <2>5. image' \in Seq(Cells)
    BY <2>1
  <2> QED
    BY <2>1, <2>4, <2>5 DEF Exact
<1> QED
  BY <1>2, <1>3

LEMMA NextEInv == EInv /\ [Next]_vars => EInv'
<1> SUFFICES ASSUME EInv, [Next]_vars
             PROVE  Exact'
  BY NextRInv DEF EInv
<1>1. CASE ReadHeader \/ ReadManifest \/ HostFails
  <2>1. ~created'
    BY <1>1 DEF ReadHeader, ReadManifest, HostFails, End, Leave, EInv, RInv, Control, At
  <2> QED
    BY <2>1 DEF Exact
<1>2. CASE ChoosePartition
  BY <1>2, ChooseExact
<1>3. CASE RejectOperation
  <2>1. ~(~isPipe /\ created /\ LegalPayload /\ Supported)
    BY <1>3, AtOperation DEF RejectOperation
  <2>2. UNCHANGED <<payload, partition, isPipe, created>>
    BY <1>3 DEF RejectOperation, End, Leave, input
  <2> QED
    BY <2>1, <2>2, SamePayload DEF Exact
<1>4. CASE Operation
  BY <1>4, OperationExact
<1>5. CASE Finish
  BY <1>5, FinishExact
<1>6. CASE UNCHANGED vars
  <2>1. payload' = payload /\ partition' = partition
    BY <1>6 DEF vars
  <2>2. /\ LegalPayload' = LegalPayload /\ Supported' = Supported /\ Update' = Update
        /\ \A f, S : Carries(f, S)' = Carries(f, S)
        /\ \A f, S : Confined(f, S)' = Confined(f, S)
        /\ \A f, S : ImageOf(f, S)' = ImageOf(f, S)
    BY <2>1, SamePayload
  <2> QED
    BY <1>6, <2>2 DEF vars, EInv, Exact
<1> QED
  BY <1>1, <1>2, <1>3, <1>4, <1>5, <1>6 DEF Next

\* For every legal payload that the code supports, as long as no call of the
\* host has failed unseen: after each operation OUT is what those done make of
\* it, in whatever order, and there is no success but when all are; a write that
\* fails and is seen spoils nothing that was done, and nothing else refuses it.
THEOREM ImageCorrect == Spec => []ImageIsExact
<1>1. Init => EInv
  BY InitRInv, InitExact DEF EInv
<1>2. EInv => ImageIsExact
  BY DEF EInv, Exact, ImageIsExact
<1> QED
  BY <1>1, <1>2, NextEInv, PTL DEF Spec

-----------------------------------------------------------------------------
(* Types.                                                                  *)

\* What OUT may become: a file, and an offset in it.
Files(outs) == \A o \in outs : o.f \in Seq(Cells \union {Junk}) /\ o.at \in Nat

\* One round of the loop of ZeroExtents.
ZeroAt(outs, e) ==
  UNION {Writes(out, e.StartBlock, Zeros(e.NumBlocks), FALSE) : out \in outs}

\* What a write leaves is a file, whatever it writes.
LEMMA WrittenTyped ==
  ASSUME NEW C, 0 \in C, NEW f \in Seq(C), NEW at \in Nat, NEW buf \in Seq(C)
  PROVE  Written(f, at, buf) \in Seq(C)
<1> DEFINE size == IF at + Len(buf) > Len(f) THEN at + Len(buf) ELSE Len(f)
           g    == [q \in 1 .. size |-> IF at < q /\ q <= at + Len(buf) THEN buf[q - at]
                                        ELSE IF q <= Len(f) THEN f[q] ELSE 0]
<1>1. Written(f, at, buf) = IF buf = <<>> THEN f ELSE g
  BY DEF Written
<1>2. Len(f) \in Nat /\ Len(buf) \in Nat /\ size \in Nat
  OBVIOUS
<1>3. \A q \in 1 .. size : g[q] \in C
  <2> SUFFICES ASSUME NEW q \in 1 .. size
               PROVE  g[q] \in C
    OBVIOUS
  <2>1. CASE at < q /\ q <= at + Len(buf)
    <3>1. q - at \in 1 .. Len(buf)
      BY <1>2, <2>1
    <3> QED
      BY <2>1, <3>1
  <2>2. CASE ~(at < q /\ q <= at + Len(buf)) /\ q <= Len(f)
    BY <1>2, <2>2
  <2>3. CASE ~(at < q /\ q <= at + Len(buf)) /\ ~(q <= Len(f))
    BY <2>3
  <2> QED
    BY <2>1, <2>2, <2>3
<1>4. g \in [1 .. size -> C]
  BY <1>3
<1> HIDE DEF g, size
<1> QED
  BY <1>1, <1>2, <1>4

\* An offset in OUT that the code seeks to is not negative.
LEMMA OutAtTyped ==
  ASSUME payload \in Payloads, NEW block \in Nat, NEW at \in Nat
  PROVE  OutAt(block, at) \in Nat
<1>1. BlockSize \in Nat /\ Word \in Nat \ {0}
  BY PayloadTyped, WidthAssumption
<1>2. block * BlockSize \in Nat
  BY <1>1
<1> DEFINE b == block * BlockSize
<1> HIDE DEF b
<1>3. b % Word \in Int
  BY <1>1, <1>2 DEF b
<1>4. Signed(b % Word) \in Int
  BY <1>1, <1>3 DEF Signed
<1> QED
  BY <1>4 DEF OutAt, b

LEMMA WritesTyped ==
  ASSUME payload \in Payloads, NEW out, out.f \in Seq(Cells \union {Junk}), out.at \in Nat,
         NEW block \in Nat, NEW buf \in Seq(Cells \union {Junk}), NEW checked \in BOOLEAN
  PROVE  Files(Writes(out, block, buf, checked))
<1> SUFFICES ASSUME NEW o \in Writes(out, block, buf, checked)
             PROVE  o.f \in Seq(Cells \union {Junk}) /\ o.at \in Nat
  BY DEF Files
<1>1. PICK at \in Or(OutAt(block, out.at), {out.at}),
           k \in Or(Len(buf), 0 .. Len(buf)) : Wrote(out, block, buf, checked, o, at, k)
  BY WritesAre
<1>2. at \in Nat
  BY <1>1, OutAtTyped DEF Or
<1>3. Len(buf) \in Nat /\ k \in 0 .. Len(buf)
  BY <1>1 DEF Or
<1>4. SubSeq(buf, 1, k) \in Seq(Cells \union {Junk})
  <2>1. k \in Nat /\ 0 + k <= Len(buf)
    BY <1>3
  <2>2. SubSeq(buf, 0 + 1, 0 + k) \in Seq(Cells \union {Junk})
    BY <2>1, CutOut
  <2>3. 0 + 1 = 1 /\ 0 + k = k
    BY <2>1
  <2> QED
    BY <2>2, <2>3
<1> DEFINE part == SubSeq(buf, 1, k)
<1>5. o.f = Written(out.f, at, part) /\ o.at = at + k
  BY <1>1 DEF Wrote
<1> HIDE DEF part
<1>6. Written(out.f, at, part) \in Seq(Cells \union {Junk})
  BY <1>2, <1>4, WrittenTyped, PayloadAssumption DEF part
<1> QED
  BY <1>2, <1>3, <1>5, <1>6

LEMMA ZeroAtTyped ==
  ASSUME payload \in Payloads, NEW outs, Files(outs), NEW e \in Extents
  PROVE  Files(ZeroAt(outs, e))
<1>1. e.StartBlock \in Nat /\ e.NumBlocks \in Nat
  BY WidthAssumption DEF Extents, Words
<1> DEFINE z == Zeros(e.NumBlocks)
<1>2. z \in Seq(Cells \union {Junk})
  BY <1>1, PayloadAssumption DEF Zeros
<1> HIDE DEF z
<1>3. PICK no \in BOOLEAN : no = FALSE
  OBVIOUS
<1>4. \A out \in outs : Files(Writes(out, e.StartBlock, z, no))
  BY <1>1, <1>2, WritesTyped DEF Files
<1>5. ZeroAt(outs, e) = UNION {Writes(out, e.StartBlock, z, no) : out \in outs}
  BY <1>3 DEF ZeroAt, z
<1> QED
  BY <1>4, <1>5 DEF Files

\* The loop goes through files: by induction over the number of extents, for
\* the function that FoldLeft stands for and for what it yields.
LEMMA ZeroExtentsTyped ==
  ASSUME payload \in Payloads, image \in Seq(Cells \union {Junk}), outPos \in Nat,
         NEW extents \in Seq(Extents)
  PROVE  Files(ZeroExtents(extents))
<1> DEFINE n    == Len(extents)
           base == {Out}
           Body(g, s) == IF s = {} THEN base
                         ELSE ZeroAt(g[s \ {Max(s)}], extents[Max(s)])
           iter == CHOOSE g : g = [s \in SUBSET (DOMAIN extents) |-> Body(g, s)]
<1>1. ZeroExtents(extents) = iter[DOMAIN extents]
  BY DEF ZeroExtents, FoldLeft, MapThenFoldSet, ZeroAt
<1>2. n \in Nat /\ DOMAIN extents = 1 .. n
  OBVIOUS
<1> HIDE DEF n
<1>3. \A s \in SUBSET (1 .. n) : s # {} => Max(s) \in s /\ \A y \in s : y <= Max(s)
  <2> SUFFICES ASSUME NEW s \in SUBSET (1 .. n), s # {}
               PROVE  Max(s) \in s /\ \A y \in s : y <= Max(s)
    OBVIOUS
  <2>0. s \in SUBSET (0 .. n)
    BY <1>2
  <2>1. \E x \in s : \A y \in s : y <= x
    BY <1>2, <2>0, SomeBelow
  <2>2. \A x, y \in s : x >= y <=> y <= x
    BY <1>2
  <2> QED
    BY <2>1, <2>2 DEF Max
<1>4. \A k \in 1 .. n : \A s \in SUBSET (1 .. k) :
        s # {} => s \ {Max(s)} \in SUBSET (1 .. (k - 1)) /\ Max(s) \in 1 .. n
  <2> SUFFICES ASSUME NEW k \in 1 .. n, NEW s \in SUBSET (1 .. k), s # {}
               PROVE  s \ {Max(s)} \in SUBSET (1 .. (k - 1)) /\ Max(s) \in 1 .. n
    OBVIOUS
  <2>1. s \in SUBSET (1 .. n)
    BY <1>2
  <2>2. Max(s) \in 1 .. k /\ \A y \in s : y <= Max(s)
    BY <1>3, <2>1
  <2>3. \A y \in s \ {Max(s)} : y \in 1 .. (k - 1)
    BY <1>2, <2>2
  <2>4. s \ {Max(s)} \in SUBSET (1 .. (k - 1))
    BY <2>3
  <2>5. Max(s) \in 1 .. n
    BY <1>2, <2>2
  <2> QED
    BY <2>4, <2>5
<1>5. \E g : g = [s \in SUBSET (1 .. n) |-> Body(g, s)]
  <2> DEFINE Some(k) == \E g : g = [s \in SUBSET (1 .. k) |-> Body(g, s)]
             None    == {k \in 0 .. n : ~Some(k)}
  <2> HIDE DEF Some
  <2> SUFFICES ASSUME ~Some(n)
               PROVE  FALSE
    BY DEF Some
  <2>0. n \in None
    BY <1>2
  <2>1. PICK k \in None : \A l \in None : k <= l
    BY <1>2, <2>0, SomeBelow
  <2>2. CASE k = 0
    <3> DEFINE g == [s \in SUBSET (1 .. 0) |-> base]
    <3>1. \A s \in SUBSET (1 .. 0) : s = {}
      OBVIOUS
    <3>2. \A s \in SUBSET (1 .. 0) : Body(g, s) = base
      BY <3>1
    <3>4. g = [s \in SUBSET (1 .. 0) |-> Body(g, s)]
      <4> HIDE DEF Body, base
      <4> QED
        BY <3>2
    <3> HIDE DEF Body, g
    <3>3. Some(0)
      BY <3>4 DEF Some
    <3> QED
      BY <2>2, <3>3
  <2>3. CASE k # 0
    <3>1. k \in 1 .. n /\ k - 1 \in 0 .. n
      BY <1>2, <2>3
    <3>2. Some(k - 1)
      BY <1>2, <2>1, <3>1
    <3>3. PICK g : g = [s \in SUBSET (1 .. (k - 1)) |-> Body(g, s)]
      BY <3>2 DEF Some
    <3> DEFINE h == [s \in SUBSET (1 .. k) |->
                       IF s \in SUBSET (1 .. (k - 1)) THEN g[s] ELSE Body(g, s)]
    <3>4. \A s \in SUBSET (1 .. (k - 1)) : s \in SUBSET (1 .. k)
      BY <3>1
    <3>5. \A s \in SUBSET (1 .. (k - 1)) : h[s] = g[s]
      BY <3>4
    <3>6. \A s \in SUBSET (1 .. k) : h[s] = Body(g, s)
      BY <3>3
    <3>7. \A s \in SUBSET (1 .. k) : Body(h, s) = Body(g, s)
      <4> HIDE DEF h
      <4> QED
        BY <1>4, <3>1, <3>5
    <3>8. h = [s \in SUBSET (1 .. k) |-> Body(h, s)]
      <4>1. \A s \in SUBSET (1 .. k) : h[s] = Body(h, s)
        BY <3>6, <3>7
      <4>2. h = [s \in SUBSET (1 .. k) |-> h[s]]
        OBVIOUS
      <4> HIDE DEF h, Body
      <4> QED
        BY <4>1, <4>2
    <3> HIDE DEF h, Body
    <3>9. Some(k)
      BY <3>8 DEF Some
    <3> QED
      BY <3>9
  <2> QED
    BY <2>2, <2>3
<1>6. iter = [s \in SUBSET (1 .. n) |-> Body(iter, s)]
  <2> HIDE DEF Body
  <2> QED
    BY <1>2, <1>5
<1> HIDE DEF iter
<1>7. \A s \in SUBSET (1 .. n) : iter[s] = Body(iter, s)
  <2> HIDE DEF Body
  <2> QED
    BY <1>6
<1>8. Files(iter[1 .. n])
  <2> DEFINE None == {k \in 0 .. n : \E s \in SUBSET (1 .. k) : ~Files(iter[s])}
  <2> SUFFICES ASSUME ~Files(iter[1 .. n])
               PROVE  FALSE
    OBVIOUS
  <2>0. n \in None
    BY <1>2
  <2>1. PICK k \in None : \A l \in None : k <= l
    BY <1>2, <2>0, SomeBelow
  <2>2. PICK s \in SUBSET (1 .. k) : ~Files(iter[s])
    BY <2>1
  <2>3. s \in SUBSET (1 .. n)
    BY <1>2
  <2>4. Files(base)
    BY DEF Files, Out
  <2>5. s # {} /\ k \in 1 .. n
    <3>1. s # {}
      BY <1>7, <2>2, <2>3, <2>4
    <3>2. PICK x \in s : x \in 1 .. k
      BY <3>1
    <3> QED
      BY <1>2, <3>1, <3>2
  <2>6. s \ {Max(s)} \in SUBSET (1 .. (k - 1)) /\ Max(s) \in 1 .. n
    BY <1>4, <2>5
  <2>7. k - 1 \in 0 .. n /\ k - 1 \notin None
    <3> HIDE DEF None
    <3>1. k \in Nat /\ n \in Nat /\ k \in 1 .. n
      BY <1>2, <2>5
    <3> QED
      BY <2>1, <3>1
  <2>8. Files(iter[s \ {Max(s)}])
    BY <2>6, <2>7
  <2>9. extents[Max(s)] \in Extents
    BY <1>2, <2>6
  <2>10. iter[s] = ZeroAt(iter[s \ {Max(s)}], extents[Max(s)])
    BY <1>7, <2>3, <2>5
  <2> QED
    BY <2>2, <2>8, <2>9, <2>10, ZeroAtTyped
<1> QED
  BY <1>1, <1>2, <1>8

\* The reader is somewhere in the payload or behind it, and reads what is there.
LEMMA ReaderTyped ==
  ASSUME payload \in Payloads, pos \in Nat, curr \in Int, NEW off \in Nat
  PROVE  ReaderAfterSkip(off) \in Nat
<1>1. Word \in Nat \ {0}
  BY WidthAssumption
<1> DEFINE r == (off - curr) % Word
<1>2. r \in Int
  BY <1>1
<1> HIDE DEF r
<1>3. Signed(r) \in Int
  BY <1>1, <1>2 DEF Signed
<1> QED
  BY <1>3, WordHalves DEF ReaderAfterSkip, r

LEMMA BufferTyped ==
  ASSUME payload \in Payloads, NEW p \in Nat, NEW n \in Nat, NEW got \in Lengths(p, n)
  PROVE  got \in Nat /\ Buffer(p, n, got) \in Seq(Cells \union {Junk})
<1> DEFINE C == Cells \union {Junk}
<1>1. /\ DataStart \in Nat /\ PayloadEnd = DataStart + Len(payload.data)
      /\ payload.data \in Seq(Cells) /\ Len(payload.data) \in Nat
  BY PayloadTyped
<1>2. got \in Nat /\ (got > 0 => p + got <= PayloadEnd)
  <2> DEFINE there == IF p >= PayloadEnd THEN 0 ELSE PayloadEnd - p
             most  == IF n < there THEN n ELSE there
  <2>1. most \in Nat /\ (most > 0 => p + most <= PayloadEnd)
    BY <1>1
  <2>2. Available(p, n) = most
    BY DEF Available
  <2> HIDE DEF most
  <2>3. got \in 0 .. most
    BY <2>1, <2>2 DEF Lengths
  <2> QED
    BY <1>1, <2>1, <2>3
<1>3. \A j \in 1 .. n : (IF j <= got THEN CellAt(p + j - 1) ELSE 0) \in C
  <2> SUFFICES ASSUME NEW j \in 1 .. n
               PROVE  (IF j <= got THEN CellAt(p + j - 1) ELSE 0) \in C
    OBVIOUS
  <2>1. CASE ~(j <= got)
    BY <2>1, PayloadAssumption
  <2>2. CASE j <= got /\ p + j - 1 < DataStart
    BY <2>2 DEF CellAt
  <2>3. CASE j <= got /\ ~(p + j - 1 < DataStart)
    <3>1. p + j - 1 - DataStart + 1 \in 1 .. Len(payload.data)
      BY <1>1, <1>2, <2>3
    <3>2. payload.data[p + j - 1 - DataStart + 1] \in Cells
      BY <1>1, <3>1
    <3>3. CellAt(p + j - 1) = payload.data[p + j - 1 - DataStart + 1]
      BY <1>1, <2>3 DEF CellAt
    <3> QED
      BY <2>3, <3>2, <3>3
  <2> QED
    BY <2>1, <2>2, <2>3
<1>4. Buffer(p, n, got) \in [1 .. n -> C]
  BY <1>3 DEF Buffer
<1> QED
  BY <1>2, <1>4

\* Whatever has been done, the variables are of their types.
TInv ==
  /\ pos \in Nat /\ curr \in Int /\ outPos \in Nat
  /\ partition \in Partitions
  /\ created \in BOOLEAN /\ image \in Seq(Cells \union {Junk})
  /\ ~created => todo = {} /\ chosen = 0
  /\ unnoticed \subseteq {"input", "output"}
  /\ verdict \in {"run", "exit0", "exit1", "panic"}

\* What is done about OUT and what is not noticed, whatever else a step does.
LEMMA LeaveTyped ==
  ASSUME TInv, NEW v \in {"exit0", "exit1", "panic"}, Leave(v),
         image' \in Seq(Cells \union {Junk}), outPos' \in Nat,
         unnoticed' \subseteq {"input", "output"}
  PROVE  TInv'
<1>1. partition' = partition /\ pos' = pos /\ chosen' = chosen /\ todo' = todo
      /\ curr' = curr /\ created' = created /\ verdict' = v
  BY DEF Leave, input
<1> QED
  BY <1>1 DEF TInv

LEMMA EndTyped ==
  ASSUME TInv, NEW v \in {"exit0", "exit1", "panic"}, End(v),
         unnoticed' \subseteq {"input", "output"}
  PROVE  TInv'
<1>1. image' \in Seq(Cells \union {Junk}) /\ outPos' \in Nat
  BY DEF End, TInv
<1> QED
  BY <1>1, LeaveTyped DEF End

LEMMA NoticingTyped ==
  ASSUME TInv, NEW a, NEW b, Noticing(a, b)
  PROVE  unnoticed' \subseteq {"input", "output"}
BY DEF Noticing, TInv

LEMMA ContinueTyped ==
  ASSUME RInv, TInv, At("operations"), NEW i \in NextOperations, NEW p \in Nat,
         Continue(i, p), image' \in Seq(Cells \union {Junk}), outPos' \in Nat,
         unnoticed' \subseteq {"input", "output"}
  PROVE  TInv'
<1>1. created = TRUE
  BY DEF RInv, Control, At, TInv
<1>2. /\ pos' = p /\ partition' = partition /\ created' = created
      /\ verdict' = verdict
      /\ curr' = Plus(Signed(Operations[i].DataOffset), Signed(Operations[i].DataLength))
  BY DEF Continue, input
<1>3. Operations[i].DataOffset \in Nat /\ Operations[i].DataLength \in Nat
  <2>1. payload \in Payloads /\ chosen \in DOMAIN payload.manifest.Partitions
        /\ i \in DOMAIN Operations
    BY <1>1, ChoiceTyped DEF RInv, Control, Passed, NextOperations
  <2> QED
    BY <2>1, OperationsTyped
<1>4. curr' \in Int
  <2>1. \A x \in Int : Signed(x) \in Int
    BY WidthAssumption DEF Signed
  <2>2. \A x \in Int : x % Word \in Int
    BY WidthAssumption
  <2> DEFINE x == Signed(Operations[i].DataOffset)
             y == Signed(Operations[i].DataLength)
  <2>3. x \in Int /\ y \in Int
    <3>1. Operations[i].DataOffset \in Int /\ Operations[i].DataLength \in Int
      BY <1>3
    <3> QED
      BY <3>1, <2>1
  <2> HIDE DEF x, y
  <2>4. Plus(x, y) \in Int
    BY <2>1, <2>2, <2>3 DEF Plus
  <2> QED
    BY <1>2, <2>4 DEF x, y
<1> QED
  BY <1>1, <1>2, <1>4 DEF TInv

LEMMA OperationTyped ==
  ASSUME RInv, TInv, Operation
  PROVE  TInv'
<1> DEFINE C == Cells \union {Junk}
<1>1. PICK i \in NextOperations :
        LET op    == Operations[i]
            there == ReaderAfterSkip(op.DataOffset)
        IN  \E p \in Or(there, {pos}) : \E got \in Lengths(p, op.DataLength) :
              Apply(i, op, p, got, p # there \/ got # Available(p, op.DataLength))
  BY DEF Operation
<1> DEFINE op    == Operations[i]
           there == ReaderAfterSkip(op.DataOffset)
<1>2. PICK p \in Or(there, {pos}) : \E got \in Lengths(p, op.DataLength) :
        Apply(i, op, p, got, p # there \/ got # Available(p, op.DataLength))
  BY <1>1
<1>3. PICK got \in Lengths(p, op.DataLength) : \E missed : Apply(i, op, p, got, missed)
  BY <1>2
<1>4. PICK missed : Apply(i, op, p, got, missed)
  BY <1>3
<1> DEFINE buf == Buffer(p, op.DataLength, got)
<1>5. At("operations") /\ payload \in Payloads /\ image \in Seq(C) /\ outPos \in Nat
      /\ pos \in Nat /\ curr \in Int
  BY DEF Operation, RInv, Control, TInv
<1>6. /\ op.DataOffset \in Nat /\ op.DataLength \in Nat
      /\ op.DstExtents \in Seq(Extents)
  <2>1. created
    BY <1>5 DEF RInv, Control, At
  <2>2. chosen \in DOMAIN payload.manifest.Partitions /\ i \in DOMAIN Operations
    BY <1>5, <2>1, ChoiceTyped DEF RInv, Control, Passed, NextOperations
  <2> QED
    BY <1>5, <2>2, OperationsTyped
<1>7. p \in Nat
  <2>1. there \in Nat
    BY <1>5, <1>6, ReaderTyped
  <2> QED
    BY <1>5, <2>1 DEF Or
<1>8. got \in Nat /\ buf \in Seq(C) /\ p + got \in Nat
  <2>1. got \in Nat /\ buf \in Seq(C)
    BY <1>3, <1>5, <1>6, <1>7, BufferTyped
  <2> QED
    BY <1>7, <2>1
<1> HIDE DEF op, buf, there
<1>9. \/ \E v \in {"exit1", "panic"} : End(v)
      \/ /\ ~Panics(op, buf) /\ ~Refused(op, buf)
         /\ \E out \in Outcomes(op, buf) :
              /\ image' = out.f /\ outPos' = out.at
              /\ IF out.failed THEN Leave("exit1") ELSE Continue(i, p + got)
  BY <1>4 DEF Apply, buf
<1>10. unnoticed' \subseteq {"input", "output"}
  <2>1. \E m : Noticing(missed, m)
    BY <1>4 DEF Apply
  <2> QED
    BY <2>1, NoticingTyped
<1>11. CASE \E v \in {"exit1", "panic"} : End(v)
  BY <1>10, <1>11, EndTyped
<1>12. CASE /\ ~Panics(op, buf) /\ ~Refused(op, buf)
            /\ \E out \in Outcomes(op, buf) :
                 /\ image' = out.f /\ outPos' = out.at
                 /\ IF out.failed THEN Leave("exit1") ELSE Continue(i, p + got)
  <2>1. PICK out \in Outcomes(op, buf) :
          /\ image' = out.f /\ outPos' = out.at
          /\ IF out.failed THEN Leave("exit1") ELSE Continue(i, p + got)
    BY <1>12
  <2>2. Files(Outcomes(op, buf))
    <3>1. CASE op.Type = ZERO
      BY <1>5, <1>6, <3>1, ZeroExtentsTyped DEF Outcomes
    <3>2. CASE op.Type # ZERO
      <4>1. op.DstExtents[1].StartBlock \in Nat
        <5>1. op.DstExtents # <<>> /\ op.DstExtents[1] \in Extents
          BY <1>6, <1>12 DEF Panics
        <5> QED
          BY <5>1, WidthAssumption DEF Extents, Words
      <4>2. Output(op, buf) \in Seq(C)
        <5>1. op.Type = REPLACE \/ buf \in DOMAIN Streams
          BY <1>12, <3>2 DEF Refused
        <5>2. buf \in DOMAIN Streams => Streams[buf] \in Seq(C)
          BY PayloadAssumption
        <5> QED
          BY <1>8, <5>1, <5>2 DEF Output
      <4>3. Out.f \in Seq(C) /\ Out.at \in Nat
        BY <1>5 DEF Out
      <4>4. PICK yes \in BOOLEAN : yes = TRUE
        OBVIOUS
      <4> DEFINE block == op.DstExtents[1].StartBlock
                 o     == Output(op, buf)
      <4>5. Outcomes(op, buf) = Writes(Out, block, o, yes)
        BY <3>2, <4>4 DEF Outcomes
      <4> HIDE DEF block, o
      <4>6. Files(Writes(Out, block, o, yes))
        BY <1>5, <4>1, <4>2, <4>3, WritesTyped DEF block, o
      <4> QED
        BY <4>5, <4>6
    <3> QED
      BY <3>1, <3>2
  <2>3. image' \in Seq(C) /\ outPos' \in Nat
    BY <2>1, <2>2 DEF Files
  <2>4. CASE out.failed
    BY <1>10, <2>1, <2>3, <2>4, LeaveTyped
  <2>5. CASE ~out.failed
    BY <1>5, <1>8, <1>10, <2>1, <2>3, <2>5, ContinueTyped
  <2> QED
    BY <2>4, <2>5
<1> QED
  BY <1>9, <1>11, <1>12

LEMMA NextTInv == RInv /\ TInv /\ [Next]_vars => TInv'
<1> SUFFICES ASSUME RInv, TInv, [Next]_vars
             PROVE  TInv'
  OBVIOUS
<1>0. /\ payload \in Payloads /\ payload.manifestLen \in Nat /\ payload.sigLen \in Nat
      /\ unnoticed \subseteq {"input", "output"}
  BY PayloadTyped DEF RInv, Control, TInv
<1>1. CASE ReadHeader
  <2>0. unnoticed' = unnoticed
    BY <1>1 DEF ReadHeader
  <2>1. CASE End("exit1")
    BY <1>0, <2>0, <2>1, EndTyped
  <2>2. CASE ~End("exit1")
    <3>1. pos' = HeaderLen /\ partition' = partition /\ chosen' = chosen /\ todo' = todo
          /\ curr' = curr /\ created' = created /\ image' = image /\ outPos' = outPos
          /\ verdict' = verdict
      BY <1>1, <2>2 DEF ReadHeader, input
    <3>2. pos' \in Nat
      BY <3>1 DEF HeaderLen
    <3> QED
      BY <2>0, <3>1, <3>2 DEF TInv
  <2> QED
    BY <2>1, <2>2
<1>2. CASE ReadManifest
  <2>1. PICK n \in (IF isPipe \/ Faults THEN 1 .. payload.manifestLen
                   ELSE {payload.manifestLen}) :
          /\ \/ End("exit1")
             \/ /\ pos' = pos + n
                /\ UNCHANGED <<input, chosen, todo, curr, created, image, outPos, verdict>>
          /\ \E m : Noticing(m, FALSE)
    BY <1>2 DEF ReadManifest
  <2>2. unnoticed' \subseteq {"input", "output"}
    BY <2>1, NoticingTyped
  <2>3. n \in Nat
    BY <1>0, <2>1
  <2>4. CASE End("exit1")
    BY <2>2, <2>4, EndTyped
  <2>5. CASE ~End("exit1")
    <3>1. pos' \in Nat
      BY <2>1, <2>3, <2>5 DEF TInv
    <3> QED
      BY <2>1, <2>2, <2>5, <3>1 DEF TInv, input
  <2> QED
    BY <2>4, <2>5
<1>3. CASE ChoosePartition
  <2>1. CASE Choice = 0
    BY <1>0, <1>3, <2>1, EndTyped DEF ChoosePartition
  <2>2. CASE Choice # 0
    <3>1. /\ SkipSignature
          /\ curr' = 0 /\ image' = <<>> /\ outPos' = 0
          /\ partition' = partition /\ verdict' = verdict
      BY <1>3, <2>2 DEF ChoosePartition, input
    <3>2. created' = TRUE
      BY <1>3, <2>2 DEF ChoosePartition
    <3>3. pos' \in Nat
      BY <1>0, <3>1 DEF TInv, SkipSignature, Or
    <3>4. unnoticed' \subseteq {"input", "output"}
      BY <1>0, <3>1 DEF SkipSignature, Noticing
    <3>5. created' \in BOOLEAN
      BY <3>2
    <3> QED
      BY <3>1, <3>2, <3>3, <3>4, <3>5 DEF TInv
  <2> QED
    BY <2>1, <2>2
<1>4. CASE RejectOperation
  BY <1>0, <1>4, EndTyped DEF RejectOperation
<1>5. CASE Operation
  BY <1>5, OperationTyped
<1>6. CASE Finish
  BY <1>0, <1>6, EndTyped DEF Finish
<1>7. CASE HostFails
  BY <1>0, <1>7, EndTyped DEF HostFails
<1>8. CASE UNCHANGED vars
  BY <1>8 DEF vars, TInv
<1> QED
  BY <1>1, <1>2, <1>3, <1>4, <1>5, <1>6, <1>7, <1>8 DEF Next

\* The variables have their types, whatever the payload says: no seek leads
\* before the start of a file, no read past the end of the payload, and what
\* is left to be done are operations of the partition chosen.
THEOREM PayloadTypes == Spec => []TypeOK
<1>1. Init => TInv
  <2> SUFFICES ASSUME Init
               PROVE  TInv
    OBVIOUS
  <2>1. image \in Seq(Cells \union {Junk})
    BY DEF Init
  <2>2. created \in BOOLEAN /\ (~created => todo = {} /\ chosen = 0)
    BY DEF Init
  <2>3. pos \in Nat /\ curr \in Int /\ outPos \in Nat /\ unnoticed = {}
    BY DEF Init
  <2> QED
    BY <2>1, <2>2, <2>3 DEF Init, TInv
<1>2. RInv /\ TInv => TypeOK
  <2> SUFFICES ASSUME RInv, TInv
               PROVE  TypeOK
    OBVIOUS
  <2>1. chosen \in 0 .. Len(payload.manifest.Partitions)
    <3>1. payload.manifest.Partitions \in Seq(PartitionUpdates)
      BY PayloadTyped DEF RInv, Control
    <3>2. CASE created
      <4>1. chosen \in DOMAIN payload.manifest.Partitions
        BY <3>2, ChoiceTyped DEF RInv, Control, Passed
      <4> QED
        BY <3>1, <4>1
    <3>3. CASE ~created
      BY <3>1, <3>3 DEF TInv
    <3> QED
      BY <3>2, <3>3
  <2>2. todo # {} => chosen # 0 /\ todo \subseteq DOMAIN Operations
    BY DEF RInv, Control, TInv, Passed
  <2>3. isPipe \in BOOLEAN /\ payload \in Payloads
        /\ pc \in {"header", "manifest", "choose", "operations", "end"}
    BY DEF RInv, Control
  <2> QED
    BY <2>1, <2>2, <2>3 DEF TInv, TypeOK
<1> QED
  BY <1>1, <1>2, InitRInv, NextRInv, NextTInv, PTL DEF Spec
=============================================================================
