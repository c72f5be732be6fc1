------------------------------ MODULE Payload -------------------------------
(***************************************************************************)
(* `magiskboot extract <payload.bin> [partition] [outfile]` (payload.go):  *)
(* the header and the manifest are read, a partition is chosen, OUT is     *)
(* created, and the operations of the partition are carried out one by     *)
(* one, in the order of their data.  The reader only moves forwards by     *)
(* relative seeks; where it is in the data is kept by hand.                *)
(*                                                                         *)
(* A payload is its header fields, its manifest and the cells of its data: *)
(* a cell is a byte, 0 the zero byte.  What Unmarshal makes of the         *)
(* manifest's bytes is the subject of module Manifest; here it accepts     *)
(* them or not.  OUT is not the payload itself.                            *)
(*                                                                         *)
(* Any call of the host may fail when Faults is TRUE: where the code looks *)
(* at the error the run ends (HostFails, a failed out in Operation), where *)
(* it does not the call does less than it was asked and the run goes on;   *)
(* the history variable unnoticed says that one has.                       *)
(***************************************************************************)
EXTENDS ManifestTypes, FiniteSets, SequencesExt

CONSTANTS
  Cells,             \* the bytes data is made of, 0 among them
  Junk,              \* a byte of the header, the manifest or the signature
  Payloads,          \* the payloads a run may be given
  Partitions,        \* the names a run may be given
  BootName, InitBootName,  \* "boot" and "init_boot"
  Streams,           \* compressed data, to what it decodes to (the codecs are libraries)
  FirstMagic,        \* 8: as many bytes CheckFmt compares first with a format's magic
  LongestMagic,      \* 20: and as many before it gives up
  DefaultBlockSize,  \* 4096
  Faults             \* whether the host's file operations may fail, or do less

NoPartition == <<>>
HeaderLen   == 24     \* magic, version, manifest_len, manifest_sig_len
MaxInt      == Word \div 2 - 1

PayloadType ==
  [magic : BOOLEAN, version : Words, manifestLen : Nat, sigLen : Nat,
   good : BOOLEAN, manifest : DeltaArchiveManifests, data : Seq(Cells)]

ASSUME PayloadAssumption ==
  /\ 0 \in Cells
  /\ Payloads \subseteq PayloadType
  /\ \A p \in Payloads :
       HeaderLen + p.manifestLen + p.sigLen + Len(p.data) <= MaxInt
  /\ Partitions \subseteq Strings /\ NoPartition \in Partitions
  /\ {BootName, InitBootName} \subseteq Strings
  /\ \A s \in DOMAIN Streams : s \in Seq(Cells) /\ Streams[s] \in Seq(Cells)
  /\ \A s \in DOMAIN Streams : Len(s) >= FirstMagic
  /\ FirstMagic \in Nat \ {0} /\ LongestMagic \in Nat /\ FirstMagic <= LongestMagic
  /\ DefaultBlockSize \in Nat
  /\ Faults \in BOOLEAN

\* InstallOperation_Type
REPLACE    == 0
REPLACE_BZ == 1
ZERO       == 6
REPLACE_XZ == 8

GetBlockSize(m)    == IF m.BlockSize = <<>> THEN DefaultBlockSize ELSE m.BlockSize[1]
GetMinorVersion(m) == IF m.MinorVersion = <<>> THEN 0 ELSE m.MinorVersion[1]

VARIABLES
  payload,    \* the payload
  isPipe,     \* it is read from a pipe
  partition,  \* the name given, or NoPartition
  pc,         \* "header", "manifest", "choose", "operations" or "end"
  pos,        \* bytes of the payload that are behind the reader
  chosen,     \* the partition chosen, an index; 0 before
  todo,       \* the operations not carried out, as indices
  curr,       \* curr_data_offset
  created,    \* OUT has been created or truncated
  image,      \* its cells
  outPos,     \* the offset of out_file
  unnoticed,  \* "input", "output": calls of the host that did less, unseen;
              \* that a pipe cannot be sought is not among them
  verdict     \* "run", "exit0", "exit1" or "panic"

vars == <<payload, isPipe, partition, pc, pos, chosen, todo, curr, created,
          image, outPos, unnoticed, verdict>>
input == <<payload, isPipe, partition>>

Init ==
  /\ payload \in Payloads /\ partition \in Partitions
  /\ isPipe \in BOOLEAN
  /\ pc = "header" /\ pos = 0 /\ chosen = 0 /\ todo = {} /\ curr = 0
  /\ created = FALSE /\ image = <<>> /\ outPos = 0
  /\ unnoticed = {} /\ verdict = "run"

At(p) == pc = p /\ verdict = "run"

\* What a call of the host does, or where it fails what it may do instead.
Or(does, failing) == {does} \union (IF Faults THEN failing ELSE {})

\* Whether the payload was read, and OUT written, as the code believes.
Noticing(inputMissed, outputMissed) ==
  unnoticed' = unnoticed \union (IF inputMissed THEN {"input"} ELSE {})
                         \union (IF outputMissed THEN {"output"} ELSE {})

\* The run ends.
Leave(v) ==
  /\ pc' = "end" /\ verdict' = v
  /\ UNCHANGED <<input, pos, chosen, todo, curr, created>>

\* It ends, and OUT stays as it is.
End(v) == Leave(v) /\ UNCHANGED <<image, outPos>>

-----------------------------------------------------------------------------
GoodHeader(p) == p.magic /\ p.version = 2 /\ p.manifestLen # 0 /\ p.sigLen # 0

\* The first Read of a pipe may give less than the magic.
ReadHeader ==
  /\ At("header")
  /\ \/ (~GoodHeader(payload) \/ isPipe) /\ End("exit1")
     \/ /\ GoodHeader(payload)
        /\ pc' = "manifest" /\ pos' = HeaderLen
        /\ UNCHANGED <<input, chosen, todo, curr, created, image, outPos, verdict>>
  /\ UNCHANGED unnoticed

\* One Read: from a pipe, or a failing device, it may give less than the
\* manifest, and leave zeros in the rest of the buffer.  Unmarshal rejects
\* them, or misses nothing that is used here (ManifestMarshal!ShortReadsAreHarmless).
ReadManifest ==
  /\ At("manifest")
  /\ \E n \in (IF isPipe \/ Faults THEN 1 .. payload.manifestLen
               ELSE {payload.manifestLen}),
        accepted \in BOOLEAN :
       /\ n = payload.manifestLen => accepted = payload.good
       /\ n < payload.manifestLen => (accepted => payload.good)
       /\ IF ~accepted \/ GetMinorVersion(payload.manifest) # 0 THEN End("exit1")
          ELSE /\ pc' = "choose" /\ pos' = pos + n
               /\ UNCHANGED <<input, chosen, todo, curr, created, image, outPos, verdict>>
       /\ Noticing(n < payload.manifestLen, FALSE)

Named(name) ==
  {i \in DOMAIN payload.manifest.Partitions :
     payload.manifest.Partitions[i].PartitionName = name}

Last_(S)  == CHOOSE i \in S : \A j \in S : j <= i
First_(S) == CHOOSE i \in S : \A j \in S : i <= j

\* The partition a run is about, 0 if there is none.
Choice ==
  IF partition = NoPartition
  THEN IF Named(InitBootName) # {} THEN Last_(Named(InitBootName))
       ELSE IF Named(BootName) # {} THEN Last_(Named(BootName)) ELSE 0
  ELSE IF Named(partition) # {} THEN First_(Named(partition)) ELSE 0

\* reader.Seek over the signature of the manifest, its error not looked at.
SkipSignature ==
  LET there == IF isPipe THEN pos ELSE pos + payload.sigLen
  IN  pos' \in Or(there, {pos}) /\ Noticing(pos' # there, FALSE)

\* Mutant: os.Create comes before the partition is looked for.
ChoosePartitionLate ==
  /\ At("choose")
  /\ created' = TRUE /\ image' = <<>> /\ outPos' = 0 /\ curr' = 0 /\ chosen' = Choice
  /\ IF Choice = 0
     THEN /\ pc' = "end" /\ verdict' = "exit1"
          /\ UNCHANGED <<input, pos, todo, unnoticed>>
     ELSE /\ pc' = "operations"
          /\ todo' = DOMAIN payload.manifest.Partitions[Choice].Operations
          /\ SkipSignature
          /\ UNCHANGED <<input, verdict>>

\* Mutant: the operations are cloned from the first partition.
ChoosePartitionFirst ==
  /\ At("choose")
  /\ IF Choice = 0 THEN End("exit1") /\ UNCHANGED unnoticed
     ELSE /\ pc' = "operations"
          /\ chosen' = Choice
          /\ todo' = DOMAIN payload.manifest.Partitions[1].Operations
          /\ SkipSignature
          /\ curr' = 0 /\ created' = TRUE /\ image' = <<>> /\ outPos' = 0
          /\ UNCHANGED <<input, verdict>>

\* OUT is created, and the signature of the manifest skipped.
ChoosePartition ==
  /\ At("choose")
  /\ IF Choice = 0 THEN End("exit1") /\ UNCHANGED unnoticed
     ELSE /\ pc' = "operations"
          /\ chosen' = Choice
          /\ todo' = DOMAIN payload.manifest.Partitions[Choice].Operations
          /\ SkipSignature
          /\ curr' = 0 /\ created' = TRUE /\ image' = <<>> /\ outPos' = 0
          /\ UNCHANGED <<input, verdict>>

-----------------------------------------------------------------------------
Operations == payload.manifest.Partitions[chosen].Operations
BlockSize  == GetBlockSize(payload.manifest)

\* Where the data begins, and where the payload ends.
DataStart  == HeaderLen + payload.manifestLen + payload.sigLen
PayloadEnd == DataStart + Len(payload.data)

CellAt(q) == IF q < DataStart THEN Junk ELSE payload.data[q - DataStart + 1]

\* reader.Seek(int64(skip), io.SeekCurrent), its error not looked at.
ReaderAfterSkip(off) ==
  LET target == pos + Signed((off - curr) % Word)
  IN  IF ~isPipe /\ 0 <= target /\ target <= MaxInt THEN target ELSE pos

\* What there is of n bytes at p, and what Read may put into a buffer of them.
Available(p, n) ==
  LET there == IF p >= PayloadEnd THEN 0 ELSE PayloadEnd - p
  IN  IF n < there THEN n ELSE there
Lengths(p, n) ==
  IF Faults THEN 0 .. Available(p, n)
  ELSE IF isPipe /\ Available(p, n) > 0 THEN 1 .. Available(p, n)
  ELSE {Available(p, n)}
Buffer(p, n, got) == [j \in 1 .. n |-> IF j <= got THEN CellAt(p + j - 1) ELSE 0]

\* Mutant: out_file.Seek(int64(StartBlock), io.SeekStart).
OutAtBlock(block, at) ==
  LET o == Signed(block % Word) IN IF o < 0 THEN at ELSE o

\* out_file.Seek(int64(..), io.SeekStart), its error not looked at.
OutAt(block, at) ==
  LET o == Signed((block * BlockSize) % Word) IN IF o < 0 THEN at ELSE o

\* buf at an offset of f, behind its end with a gap of zeros.
Written(f, at, buf) ==
  LET size == IF at + Len(buf) > Len(f) THEN at + Len(buf) ELSE Len(f) IN
  IF buf = <<>> THEN f
  ELSE [q \in 1 .. size |-> IF at < q /\ q <= at + Len(buf) THEN buf[q - at]
                            ELSE IF q <= Len(f) THEN f[q] ELSE 0]

Zeros(n) == [j \in 1 .. n |-> 0]

\* OUT and the offset in it; missed: a call did less and was not looked at;
\* failed: one did and was.
Out == [f |-> image, at |-> outPos, missed |-> FALSE, failed |-> FALSE]

\* What the seek to a block and the write of buf may make of out.
Writes(out, block, buf, checked) ==
  {[f |-> Written(out.f, at, SubSeq(buf, 1, k)), at |-> at + k,
    missed |-> out.missed \/ at # OutAt(block, out.at) \/ (k < Len(buf) /\ ~checked),
    failed |-> k < Len(buf) /\ checked] :
     at \in Or(OutAt(block, out.at), {out.at}), k \in Or(Len(buf), 0 .. Len(buf))}

\* Num_blocks bytes, not blocks, of zeros at each extent, no error looked at.
ZeroExtents(extents) ==
  FoldLeft(LAMBDA outs, e :
             UNION {Writes(out, e.StartBlock, Zeros(e.NumBlocks), FALSE) : out \in outs},
           {Out}, extents)

\* CheckFmt sees a compression format; decompression.
Recognised(buf) == \E s \in DOMAIN Streams : s[1] = buf[1]

\* Mutant: curr_data_offset = int64(data_offset).
ContinueForgetsLength(i, p) ==
  /\ todo' = todo \ {i} /\ pos' = p
  /\ curr' = Signed(Operations[i].DataOffset)
  /\ UNCHANGED <<input, pc, chosen, created, verdict>>

\* Mutant: the loop does not go on to the next operation.
ContinueRepeats(i, p) ==
  /\ UNCHANGED todo /\ pos' = p
  /\ curr' = Plus(Signed(Operations[i].DataOffset), Signed(Operations[i].DataLength))
  /\ UNCHANGED <<input, pc, chosen, created, verdict>>

\* The loop goes on after op.
Continue(i, p) ==
  /\ todo' = todo \ {i} /\ pos' = p
  /\ curr' = Plus(Signed(Operations[i].DataOffset), Signed(Operations[i].DataLength))
  /\ UNCHANGED <<input, pc, chosen, created, verdict>>

\* sort.Slice by data_offset; it is not stable.
NextOperations ==
  {i \in todo : \A j \in todo : Operations[i].DataOffset <= Operations[j].DataOffset}

RejectedBeforeReading(op) == op.DataLength = 0 \/ op.DataOffset = 0

RejectOperation ==
  /\ At("operations")
  /\ \E i \in NextOperations : RejectedBeforeReading(Operations[i])
  /\ End("exit1") /\ UNCHANGED unnoticed

\* DecompressToFd recognises no compression format, or decompression fails.
Refused(op, buf) ==
  \/ op.Type \notin {REPLACE, ZERO, REPLACE_BZ, REPLACE_XZ}
  \/ op.Type \in {REPLACE_BZ, REPLACE_XZ} /\ buf \notin DOMAIN Streams

\* No extent; or CheckFmt compares more bytes than there are.
Panics(op, buf) ==
  \/ op.DstExtents = <<>>
  \/ /\ op.Type \in {REPLACE_BZ, REPLACE_XZ}
     /\ Len(buf) < IF Recognised(buf) THEN FirstMagic ELSE LongestMagic

\* What the operation writes of the buffer it has read, and what becomes of OUT.
Output(op, buf) == IF op.Type = REPLACE THEN buf ELSE Streams[buf]

Outcomes(op, buf) ==
  IF op.Type = ZERO THEN ZeroExtents(op.DstExtents)
  ELSE Writes(Out, op.DstExtents[1].StartBlock, Output(op, buf), TRUE)

\* What is done with the buffer, read at p.
Apply(i, op, p, got, inputMissed) ==
  LET buf == Buffer(p, op.DataLength, got) IN
  \/ Panics(op, buf) /\ End("panic") /\ Noticing(inputMissed, FALSE)
  \/ /\ ~Panics(op, buf) /\ Refused(op, buf)
     /\ End("exit1") /\ Noticing(inputMissed, FALSE)
  \/ /\ ~Panics(op, buf) /\ ~Refused(op, buf)
     /\ \E out \in Outcomes(op, buf) :
          /\ image' = out.f /\ outPos' = out.at
          /\ Noticing(inputMissed, out.missed)
          /\ IF out.failed THEN Leave("exit1") ELSE Continue(i, p + got)

\* One round of the loop over the operations, from the seek on.  Neither the
\* seek nor the read is looked at: what was not read is zero.
Operation ==
  /\ At("operations")
  /\ \E i \in NextOperations :
       LET op    == Operations[i]
           there == ReaderAfterSkip(op.DataOffset)
       IN  /\ ~RejectedBeforeReading(op)
           /\ \E p \in Or(there, {pos}) : \E got \in Lengths(p, op.DataLength) :
                Apply(i, op, p, got, p # there \/ got # Available(p, op.DataLength))

\* A failure before the loop that the code looks at: the payload cannot be
\* opened or read at all, or OUT not be created.
HostFails ==
  /\ Faults /\ pc \in {"header", "manifest", "choose"}
  /\ End("exit1") /\ UNCHANGED unnoticed

Finish == At("operations") /\ todo = {} /\ End("exit0") /\ UNCHANGED unnoticed

Next ==
  \/ ReadHeader \/ ReadManifest \/ ChoosePartition
  \/ RejectOperation \/ Operation \/ Finish \/ HostFails

Spec     == Init /\ [][Next]_vars
FairSpec == Spec /\ WF_vars(Next)   \* the run is not stopped half-way

-----------------------------------------------------------------------------
(***************************************************************************)
(* What the manifest says of the partition: where the content of each of   *)
(* its operations goes, extent after extent, block after block.            *)
(***************************************************************************)
Update == payload.manifest.Partitions[Choice]

Blob(op) == SubSeq(payload.data, op.DataOffset + 1, op.DataOffset + op.DataLength)
HasBlob(op) ==
  op.DataLength > 0 /\ op.DataOffset + op.DataLength <= Len(payload.data)

\* The cells of OUT an operation writes, in the order it writes them.
Targets(op) ==
  FlattenSeq([e \in DOMAIN op.DstExtents |->
                [k \in 1 .. op.DstExtents[e].NumBlocks * BlockSize |->
                   op.DstExtents[e].StartBlock * BlockSize + k]])

Content(op) ==
  CASE op.Type = REPLACE -> Blob(op)
    [] op.Type = ZERO -> Zeros(Len(Targets(op)))
    [] OTHER -> Streams[Blob(op)]

\* An operation of a full payload, as the comments on InstallOperation have it;
\* a file is shorter than 2^63 bytes.
Legal(op) ==
  /\ \/ op.Type = REPLACE /\ HasBlob(op)
     \/ op.Type = ZERO /\ op.DataLength = 0
     \/ op.Type \in {REPLACE_BZ, REPLACE_XZ} /\ HasBlob(op) /\ Blob(op) \in DOMAIN Streams
  /\ Len(Content(op)) = Len(Targets(op)) /\ Len(Targets(op)) > 0
  /\ \A q \in ToSet(Targets(op)) : q <= MaxInt

LegalPayload ==
  /\ GoodHeader(payload) /\ payload.good /\ GetMinorVersion(payload.manifest) = 0
  /\ Choice # 0
  /\ \A i \in DOMAIN Update.Operations : Legal(Update.Operations[i])
  /\ \A i, j \in DOMAIN Update.Operations :
       i # j => ToSet(Targets(Update.Operations[i]))
                  \intersect ToSet(Targets(Update.Operations[j])) = {}

\* What the code can carry out of it: the data of an operation is not the
\* first of the payload, goes to one extent, and there is some.
Supported ==
  \A i \in DOMAIN Update.Operations :
    LET op == Update.Operations[i] IN
    op.Type # ZERO /\ op.DataOffset > 0 /\ Len(op.DstExtents) = 1

\* f holds what the operations in S write, is zero elsewhere, and ends with it.
CellsOf(S)     == UNION {ToSet(Targets(Update.Operations[i])) : i \in S}
Carries(f, S)  ==
  \A i \in S : LET op == Update.Operations[i] IN
    \A j \in DOMAIN Content(op) :
      Targets(op)[j] \in DOMAIN f /\ f[Targets(op)[j]] = Content(op)[j]
Confined(f, S) == \A q \in DOMAIN f \ CellsOf(S) : f[q] = 0
Ends(f, S)     == IF CellsOf(S) = {} THEN f = <<>> ELSE Len(f) \in CellsOf(S)

\* OUT is what the operations in S make of it.
ImageOf(f, S) == Carries(f, S) /\ Confined(f, S) /\ Ends(f, S)

-----------------------------------------------------------------------------
(***************************************************************************)
(* Properties.                                                             *)
(***************************************************************************)

\* The variables have their types.
TypeOK ==
  /\ payload \in Payloads /\ partition \in Partitions /\ isPipe \in BOOLEAN
  /\ pc \in {"header", "manifest", "choose", "operations", "end"}
  /\ pos \in Nat /\ curr \in Int /\ outPos \in Nat
  /\ chosen \in 0 .. Len(payload.manifest.Partitions)
  /\ todo # {} => chosen # 0 /\ todo \subseteq DOMAIN Operations
  /\ created \in BOOLEAN /\ image \in Seq(Cells \union {Junk})
  /\ unnoticed \subseteq {"input", "output"}
  /\ verdict \in {"run", "exit0", "exit1", "panic"}

\* The blob of every operation of the chosen partition is in the payload.
WholeData ==
  \A i \in DOMAIN Operations :
    Operations[i].DataOffset + Operations[i].DataLength <= Len(payload.data)

\* Relative seeks and the offset kept by hand agree as long as no seek and no
\* read of the payload has failed unseen: before each operation the reader is
\* curr_data_offset into the data, whatever the order of the operations in the
\* manifest, and where blobs share bytes or leave gaps.
ReaderKeepsUp ==
  ~isPipe /\ "input" \notin unnoticed /\ At("operations") /\ WholeData =>
    pos = DataStart + curr

\* Of a supported payload in a file, as long as no call of the host has done
\* less unseen, OUT is what the operations that are done make of it, in whatever
\* order they were, and a run that succeeds has done all.  A write that fails
\* and is seen ends the run: what was done before is intact, and nothing is
\* written outside of the operation it was for.  Nothing else ends it.
ImageIsExact ==
  ~isPipe /\ created /\ unnoticed = {} /\ LegalPayload /\ Supported =>
    LET done == DOMAIN Update.Operations \ todo IN
    /\ verdict # "exit1" => ImageOf(image, done)
    /\ verdict = "exit0" => todo = {}
    /\ verdict = "exit1" =>
         /\ Faults
         /\ \E i \in todo : Carries(image, done) /\ Confined(image, done \union {i})
    /\ verdict # "panic"

\* A payload that is refused as a whole - its header, its manifest, a delta
\* payload, no such partition - leaves an OUT from before as it was.
RefusedPayloadKeepsOut ==
  created => /\ GoodHeader(payload) /\ GetMinorVersion(payload.manifest) = 0
             /\ payload.good /\ Choice # 0

\* The run ends.
ExtractEnds == <>(verdict # "run")

\* The usage: "Extract [partition] from <payload.bin> to [outfile]".  A legal
\* payload in a file is extracted, and OUT is what its operations say.
LegalPayloadIsExtracted ==
  verdict # "run" /\ ~isPipe /\ LegalPayload =>
    verdict = "exit0" /\ ImageOf(image, DOMAIN Update.Operations)
=============================================================================
