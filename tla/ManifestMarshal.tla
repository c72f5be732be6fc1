-------------------------- MODULE ManifestMarshal --------------------------
(***************************************************************************)
(* The encoder of a payload's manifest (Marshal and Size of update_        *)
(* metadata.pb.go), and what the decoder makes of its output: the output   *)
(* itself, two outputs one after the other, cut short, or with fields in   *)
(* it that this version of the messages does not have.  MarshalToSized-    *)
(* Buffer fills a buffer of Size() bytes from its end; here the fields are *)
(* put together from the front.                                            *)
(***************************************************************************)
EXTENDS Manifest

CONSTANTS
  Samples,       \* manifests
  UnknownFields  \* encodings of fields that no message has

\* What n digits can tell apart.
Power[n \in 0 .. MaxDigits] == IF n = 0 THEN 1 ELSE Base * Power[n - 1]

\* The tags are constants of the code, of one digit up to field 15 and of two
\* from there on: they are written for digits of 7 bits.
ASSUME EncodingAssumption ==
  /\ Base = 128 /\ Word <= Power[MaxDigits] /\ Word > 2 * Base
  /\ Word % Half = 0 /\ Half > 64
  /\ (Half - 1) \div ((2 * Base) * (2 * Base) * (2 * Base)) < 2 * Base

sov(x) ==
  CHOOSE n \in 1 .. MaxDigits : x < Power[n] /\ (n = 1 \/ x >= Power[n - 1])

encodeVarint(x) ==
  [i \in 1 .. sov(x) |->
     ((x \div Power[i - 1]) % Base) + (IF i < sov(x) THEN Base ELSE 0)]

uint64(l) == l % Word   \* of an int

\* uint64(m.Type) of an enum, an int32.
FromEnum(x) == IF 2 * x >= Half THEN x + Word - Half ELSE x

\* A field with its tag.
EncodeWord(no, x)  == encodeVarint(8 * no) \o encodeVarint(x)
EncodeBytes(no, s) == encodeVarint(8 * no + 2) \o encodeVarint(uint64(Len(s))) \o s
EncodeFixed32(no, x) ==
  encodeVarint(8 * no + 5)
    \o << x % (2 * Base), (x \div (2 * Base)) % (2 * Base),
          (x \div ((2 * Base) * (2 * Base))) % (2 * Base),
          (x \div ((2 * Base) * (2 * Base) * (2 * Base))) % (2 * Base) >>

\* What Marshal writes of a field: the encodings of its values, in order.
PutWord(no, x)    == << EncodeWord(no, x) >>
PutBool(no, b)    == PutWord(no, IF b THEN 1 ELSE 0)
PutFixed32(no, x) == << EncodeFixed32(no, x) >>
PutBytes(no, s)   == << EncodeBytes(no, s) >>
PutWords(no, s)   == [i \in DOMAIN s |-> EncodeWord(no, s[i])]
PutStrings(no, s) == [i \in DOMAIN s |-> EncodeBytes(no, s[i])]
PutEach(no, s, Marshal(_)) ==
  [i \in DOMAIN s |-> EncodeBytes(no, FlattenSeq(Marshal(s[i])))]

\* What Marshal writes of a message, field by field.
MarshalExtent(m) == PutWord(1, m.StartBlock) \o PutWord(2, m.NumBlocks)

MarshalSignature(m) ==
  PutWord(1, m.Version) \o PutStrings(2, m.Data)
    \o PutFixed32(3, m.UnpaddedSignatureSize)

MarshalPartitionInfo(m) == PutWord(1, m.Size_) \o PutStrings(2, m.Hash)

MarshalInstallOperation(m) ==
  PutWord(1, FromEnum(m.Type)) \o PutWord(2, m.DataOffset)
    \o PutWord(3, m.DataLength) \o PutEach(4, m.SrcExtents, MarshalExtent)
    \o PutWord(5, m.SrcLength) \o PutEach(6, m.DstExtents, MarshalExtent)
    \o PutWord(7, m.DstLength) \o PutStrings(8, m.DataSha256Hash)
    \o PutStrings(9, m.SrcSha256Hash)

MarshalCowMergeOperation(m) ==
  PutWord(1, FromEnum(m.Type)) \o PutEach(2, m.SrcExtent, MarshalExtent)
    \o PutEach(3, m.DstExtent, MarshalExtent) \o PutWord(4, m.SrcOffset)

MarshalPartitionUpdate(m) ==
  PutBytes(1, m.PartitionName) \o PutBool(2, m.RunPostinstall)
    \o PutBytes(3, m.PostinstallPath) \o PutBytes(4, m.FilesystemType)
    \o PutEach(5, m.NewPartitionSignature, MarshalSignature)
    \o PutEach(6, m.OldPartitionInfo, MarshalPartitionInfo)
    \o PutEach(7, m.NewPartitionInfo, MarshalPartitionInfo)
    \o PutEach(8, m.Operations, MarshalInstallOperation)
    \o PutBool(9, m.PostinstallOptional)
    \o PutEach(10, m.HashTreeDataExtent, MarshalExtent)
    \o PutEach(11, m.HashTreeExtent, MarshalExtent)
    \o PutBytes(12, m.HashTreeAlgorithm) \o PutStrings(13, m.HashTreeSalt)
    \o PutEach(14, m.FecDataExtent, MarshalExtent)
    \o PutEach(15, m.FecExtent, MarshalExtent) \o PutWords(16, m.FecRoots)
    \o PutBytes(17, m.Version)
    \o PutEach(18, m.MergeOperations, MarshalCowMergeOperation)
    \o PutWord(19, m.EstimateCowSize)

MarshalDynamicPartitionGroup(m) ==
  PutBytes(1, m.Name) \o PutWord(2, m.Size_) \o PutStrings(3, m.PartitionNames)

MarshalVABCFeatureSet(m) == PutBool(1, m.Threaded) \o PutBool(2, m.BatchWrites)

MarshalDynamicPartitionMetadata(m) ==
  PutEach(1, m.Groups, MarshalDynamicPartitionGroup)
    \o PutBool(2, m.SnapshotEnabled) \o PutBool(3, m.VabcEnabled)
    \o PutBytes(4, m.VabcCompressionParam) \o PutWord(5, m.CowVersion)
    \o PutEach(6, m.VabcFeatureSet, MarshalVABCFeatureSet)

MarshalApexInfo(m) ==
  PutBytes(1, m.PackageName) \o PutWord(2, m.Version)
    \o PutBool(3, m.IsCompressed) \o PutWord(4, m.DecompressedSize)

MarshalManifest(m) ==
  PutWords(3, m.BlockSize) \o PutWord(4, m.SignaturesOffset)
    \o PutWord(5, m.SignaturesSize) \o PutWords(12, m.MinorVersion)
    \o PutEach(13, m.Partitions, MarshalPartitionUpdate)
    \o PutWord(14, m.MaxTimestamp)
    \o PutEach(15, m.DynamicPartitionMetadata, MarshalDynamicPartitionMetadata)
    \o PutBool(16, m.PartialUpdate) \o PutEach(17, m.ApexInfo, MarshalApexInfo)
    \o PutBytes(18, m.SecurityPatchLevel)

Encoded(m) == FlattenSeq(MarshalManifest(m))

\* The buffer a manifest is marshalled to is a slice.
ASSUME SampleAssumption ==
  /\ Samples \subseteq DeltaArchiveManifests /\ UnknownFields \subseteq Strings
  /\ \A m \in Samples : Len(Encoded(m)) < Word \div 2

-----------------------------------------------------------------------------
(***************************************************************************)
(* Size, computed apart from the encoding: what the buffer is made with.   *)
(***************************************************************************)
Total(s) ==
  LET sum[i \in 0 .. Len(s)] == IF i = 0 THEN 0 ELSE sum[i - 1] + s[i] IN sum[Len(s)]

\* A field with t bytes of tag and a value of l bytes.
SizeBytes(t, l)   == t + l + sov(uint64(l))
SizeWords(t, s)   == Total([i \in DOMAIN s |-> t + sov(s[i])])
SizeStrings(t, s) == Total([i \in DOMAIN s |-> SizeBytes(t, Len(s[i]))])
SizeEach(t, s, Size(_)) == Total([i \in DOMAIN s |-> SizeBytes(t, Size(s[i]))])

SizeExtent(m) == (1 + sov(m.StartBlock)) + (1 + sov(m.NumBlocks))

SizeSignature(m) ==
  (1 + sov(m.Version)) + SizeStrings(1, m.Data) + 5

SizePartitionInfo(m) == (1 + sov(m.Size_)) + SizeStrings(1, m.Hash)

SizeInstallOperation(m) ==
  (1 + sov(FromEnum(m.Type))) + (1 + sov(m.DataOffset)) + (1 + sov(m.DataLength))
    + SizeEach(1, m.SrcExtents, SizeExtent) + (1 + sov(m.SrcLength))
    + SizeEach(1, m.DstExtents, SizeExtent) + (1 + sov(m.DstLength))
    + SizeStrings(1, m.DataSha256Hash) + SizeStrings(1, m.SrcSha256Hash)

SizeCowMergeOperation(m) ==
  (1 + sov(FromEnum(m.Type))) + SizeEach(1, m.SrcExtent, SizeExtent)
    + SizeEach(1, m.DstExtent, SizeExtent) + (1 + sov(m.SrcOffset))

\* Mutant: `n += 1 + l + sov(l)` for field 17, whose tag takes two bytes.
SizePartitionUpdateOneByteTag(m) ==
  SizeBytes(1, Len(m.PartitionName)) + 2 + SizeBytes(1, Len(m.PostinstallPath))
    + SizeBytes(1, Len(m.FilesystemType))
    + SizeEach(1, m.NewPartitionSignature, SizeSignature)
    + SizeEach(1, m.OldPartitionInfo, SizePartitionInfo)
    + SizeEach(1, m.NewPartitionInfo, SizePartitionInfo)
    + SizeEach(1, m.Operations, SizeInstallOperation) + 2
    + SizeEach(1, m.HashTreeDataExtent, SizeExtent)
    + SizeEach(1, m.HashTreeExtent, SizeExtent)
    + SizeBytes(1, Len(m.HashTreeAlgorithm)) + SizeStrings(1, m.HashTreeSalt)
    + SizeEach(1, m.FecDataExtent, SizeExtent)
    + SizeEach(1, m.FecExtent, SizeExtent)
    + SizeWords(2, m.FecRoots) + SizeBytes(1, Len(m.Version))
    + SizeEach(2, m.MergeOperations, SizeCowMergeOperation)
    + (2 + sov(m.EstimateCowSize))

SizePartitionUpdate(m) ==
  SizeBytes(1, Len(m.PartitionName)) + 2 + SizeBytes(1, Len(m.PostinstallPath))
    + SizeBytes(1, Len(m.FilesystemType))
    + SizeEach(1, m.NewPartitionSignature, SizeSignature)
    + SizeEach(1, m.OldPartitionInfo, SizePartitionInfo)
    + SizeEach(1, m.NewPartitionInfo, SizePartitionInfo)
    + SizeEach(1, m.Operations, SizeInstallOperation) + 2
    + SizeEach(1, m.HashTreeDataExtent, SizeExtent)
    + SizeEach(1, m.HashTreeExtent, SizeExtent)
    + SizeBytes(1, Len(m.HashTreeAlgorithm)) + SizeStrings(1, m.HashTreeSalt)
    + SizeEach(1, m.FecDataExtent, SizeExtent)
    + SizeEach(1, m.FecExtent, SizeExtent)
    + SizeWords(2, m.FecRoots) + SizeBytes(2, Len(m.Version))
    + SizeEach(2, m.MergeOperations, SizeCowMergeOperation)
    + (2 + sov(m.EstimateCowSize))

SizeDynamicPartitionGroup(m) ==
  SizeBytes(1, Len(m.Name)) + (1 + sov(m.Size_)) + SizeStrings(1, m.PartitionNames)

SizeVABCFeatureSet(m) == 2 + 2

SizeDynamicPartitionMetadata(m) ==
  SizeEach(1, m.Groups, SizeDynamicPartitionGroup) + 2 + 2
    + SizeBytes(1, Len(m.VabcCompressionParam)) + (1 + sov(m.CowVersion))
    + SizeEach(1, m.VabcFeatureSet, SizeVABCFeatureSet)

SizeApexInfo(m) ==
  SizeBytes(1, Len(m.PackageName)) + (1 + sov(m.Version)) + 2
    + (1 + sov(m.DecompressedSize))

SizeManifest(m) ==
  SizeWords(1, m.BlockSize) + (1 + sov(m.SignaturesOffset))
    + (1 + sov(m.SignaturesSize)) + SizeWords(1, m.MinorVersion)
    + SizeEach(1, m.Partitions, SizePartitionUpdate) + (1 + sov(m.MaxTimestamp))
    + SizeEach(1, m.DynamicPartitionMetadata, SizeDynamicPartitionMetadata) + 3
    + SizeEach(2, m.ApexInfo, SizeApexInfo) + SizeBytes(2, Len(m.SecurityPatchLevel))

-----------------------------------------------------------------------------
(***************************************************************************)
(* Properties.                                                             *)
(***************************************************************************)
Ended   == verdict # "run"
Decoded == verdict = "ok"

\* Unmarshal undoes Marshal, whatever number of digits the values take, and
\* the buffer that Marshal fills from its end has the size of what it writes:
\* one byte less, and it would index before the buffer.
UnmarshalInvertsMarshal ==
  Ended => \A m \in Samples : dAtA = Encoded(m) =>
    Decoded /\ manifest = m /\ Len(dAtA) = SizeManifest(m)

\* Fields that no message has, groups among them, are skipped whole: what is
\* before and after them decodes as if they were not there.
UnknownFieldsAreSkipped ==
  Ended => \A m \in Samples, u \in UnknownFields :
    dAtA \in {u \o Encoded(m), Encoded(m) \o u} =>
      Decoded /\ manifest = m

\* A manifest cut short is rejected, unless the cut falls between two fields,
\* or two values of a repeated one: the code does not require any of them.
CutsAreNoticed ==
  Decoded => \A m \in Samples :
    LET whole == MarshalManifest(m) IN
    IsPrefix(dAtA, FlattenSeq(whole)) =>
      \E k \in 0 .. Len(whole) : dAtA = FlattenSeq(SubSeq(whole, 1, k))

\* ExtractBootFromPayload does not look at how much Read has read: a manifest
\* read in part ends in zeros.  It is rejected, or what the extraction uses of
\* it is there.
ShortReadsAreHarmless ==
  Decoded => \A m \in Samples :
    LET whole == Encoded(m) IN
    /\ Len(dAtA) = Len(whole)
    /\ \E k \in DOMAIN whole :
         \A i \in DOMAIN whole : dAtA[i] = IF i <= k THEN whole[i] ELSE 0
    => /\ manifest.BlockSize = m.BlockSize
       /\ manifest.MinorVersion = m.MinorVersion
       /\ manifest.Partitions = m.Partitions
=============================================================================
