--------------------------- MODULE ManifestTypes ---------------------------
(***************************************************************************)
(* The messages of a payload's manifest (chromeos_update_engine/           *)
(* update_metadata.pb.go) as sets of records, one record type for each     *)
(* struct, and as the tables of fields that their Unmarshal methods go by. *)
(* A pointer and a nilable []byte are sequences of at most one value, the  *)
(* empty one for nil; a string is the sequence of its bytes.               *)
(***************************************************************************)
EXTENDS Integers, Sequences

CONSTANTS
  Base,       \* 2^7: a byte is below 2 * Base, one from Base on continues
  MaxDigits,  \* 10: the digits that shift < 64 lets a varint have
  Word,       \* 2^64
  Half        \* 2^32

\* The 8 bytes that a fixed64 is skipped by are a number of the int they are
\* added to.
ASSUME WidthAssumption ==
  /\ Base \in Nat \ {0} /\ MaxDigits \in Nat \ {0}
  /\ Half \in Nat \ {0} /\ Word \in Nat \ {0} /\ Word % 2 = 0 /\ Word > 16

Bytes   == 0 .. 2 * Base - 1
Words   == 0 .. Word - 1      \* uint64, and the bit pattern of an int64
Halves  == 0 .. Half - 1      \* uint32, and the bit pattern of an enum
Strings == Seq(Bytes)

Maybe(S) == {s \in Seq(S) : Len(s) <= 1}

Extents == [StartBlock : Words, NumBlocks : Words]

Signature_s ==
  [Version : Halves, Data : Maybe(Strings), UnpaddedSignatureSize : Halves]

Signatures_s == [Signatures : Seq(Signature_s)]

PartitionInfos == [Size_ : Words, Hash : Maybe(Strings)]

InstallOperations ==
  [Type : Halves, DataOffset : Words, DataLength : Words,
   SrcExtents : Seq(Extents), SrcLength : Words,
   DstExtents : Seq(Extents), DstLength : Words,
   DataSha256Hash : Maybe(Strings), SrcSha256Hash : Maybe(Strings)]

CowMergeOperations ==
  [Type : Halves, SrcExtent : Maybe(Extents), DstExtent : Maybe(Extents),
   SrcOffset : Halves]

PartitionUpdates ==
  [PartitionName : Strings, RunPostinstall : BOOLEAN,
   PostinstallPath : Strings, FilesystemType : Strings,
   NewPartitionSignature : Seq(Signature_s),
   OldPartitionInfo : Maybe(PartitionInfos),
   NewPartitionInfo : Maybe(PartitionInfos),
   Operations : Seq(InstallOperations), PostinstallOptional : BOOLEAN,
   HashTreeDataExtent : Maybe(Extents), HashTreeExtent : Maybe(Extents),
   HashTreeAlgorithm : Strings, HashTreeSalt : Maybe(Strings),
   FecDataExtent : Maybe(Extents), FecExtent : Maybe(Extents),
   FecRoots : Maybe(Halves), Version : Strings,
   MergeOperations : Seq(CowMergeOperations), EstimateCowSize : Words]

DynamicPartitionGroups ==
  [Name : Strings, Size_ : Words, PartitionNames : Seq(Strings)]

VABCFeatureSets == [Threaded : BOOLEAN, BatchWrites : BOOLEAN]

DynamicPartitionMetadatas ==
  [Groups : Seq(DynamicPartitionGroups), SnapshotEnabled : BOOLEAN,
   VabcEnabled : BOOLEAN, VabcCompressionParam : Strings,
   CowVersion : Halves, VabcFeatureSet : Maybe(VABCFeatureSets)]

ApexInfos ==
  [PackageName : Strings, Version : Words, IsCompressed : BOOLEAN,
   DecompressedSize : Words]

ApexMetadatas == [ApexInfo : Seq(ApexInfos)]

DeltaArchiveManifests ==
  [BlockSize : Maybe(Halves), SignaturesOffset : Words, SignaturesSize : Words,
   MinorVersion : Maybe(Halves), Partitions : Seq(PartitionUpdates),
   MaxTimestamp : Words,
   DynamicPartitionMetadata : Maybe(DynamicPartitionMetadatas),
   PartialUpdate : BOOLEAN, ApexInfo : Seq(ApexInfos),
   SecurityPatchLevel : Strings]

\* int(x) and int64(x) of a uint64, and the sum of two ints, which wraps.
Signed(x) == IF x >= Word \div 2 THEN x - Word ELSE x
Plus(x, y) == Signed((x + y) % Word)

-----------------------------------------------------------------------------
(***************************************************************************)
(* The tables: the cases of `switch fieldNum`.  A kind is how the value is *)
(* read: the name of a message for the field of that message.  A label is  *)
(* where it goes: "opt" and "req" replace the value, "ptr" makes it non-   *)
(* nil, "rep" appends.                                                     *)
(***************************************************************************)
Field(label, no, name, kind) ==
  [no |-> no, name |-> name, kind |-> kind, label |-> label]

Opt(no, name, kind) == Field("opt", no, name, kind)
Req(no, name, kind) == Field("req", no, name, kind)
Ptr(no, name, kind) == Field("ptr", no, name, kind)
Rep(no, name, kind) == Field("rep", no, name, kind)

ExtentFields == {Opt(1, "StartBlock", "uint64"), Opt(2, "NumBlocks", "uint64")}

SignaturesFields == {Rep(1, "Signatures", "Signature")}

SignatureFields ==
  {Opt(1, "Version", "uint32"), Ptr(2, "Data", "bytes"),
   Opt(3, "UnpaddedSignatureSize", "fixed32")}

PartitionInfoFields == {Opt(1, "Size_", "uint64"), Ptr(2, "Hash", "bytes")}

InstallOperationFields ==
  {Req(1, "Type", "int32"), Opt(2, "DataOffset", "uint64"),
   Opt(3, "DataLength", "uint64"), Rep(4, "SrcExtents", "Extent"),
   Opt(5, "SrcLength", "uint64"), Rep(6, "DstExtents", "Extent"),
   Opt(7, "DstLength", "uint64"), Ptr(8, "DataSha256Hash", "bytes"),
   Ptr(9, "SrcSha256Hash", "bytes")}

CowMergeOperationFields ==
  {Opt(1, "Type", "int32"), Ptr(2, "SrcExtent", "Extent"),
   Ptr(3, "DstExtent", "Extent"), Opt(4, "SrcOffset", "uint32")}

PartitionUpdateFields ==
  {Req(1, "PartitionName", "bytes"), Opt(2, "RunPostinstall", "bool"),
   Opt(3, "PostinstallPath", "bytes"), Opt(4, "FilesystemType", "bytes"),
   Rep(5, "NewPartitionSignature", "Signature"),
   Ptr(6, "OldPartitionInfo", "PartitionInfo"),
   Ptr(7, "NewPartitionInfo", "PartitionInfo"),
   Rep(8, "Operations", "InstallOperation"),
   Opt(9, "PostinstallOptional", "bool"),
   Ptr(10, "HashTreeDataExtent", "Extent"), Ptr(11, "HashTreeExtent", "Extent"),
   Opt(12, "HashTreeAlgorithm", "bytes"), Ptr(13, "HashTreeSalt", "bytes"),
   Ptr(14, "FecDataExtent", "Extent"), Ptr(15, "FecExtent", "Extent"),
   Ptr(16, "FecRoots", "uint32"), Opt(17, "Version", "bytes"),
   Rep(18, "MergeOperations", "CowMergeOperation"),
   Opt(19, "EstimateCowSize", "uint64")}

DynamicPartitionGroupFields ==
  {Req(1, "Name", "bytes"), Opt(2, "Size_", "uint64"),
   Rep(3, "PartitionNames", "bytes")}

VABCFeatureSetFields == {Opt(1, "Threaded", "bool"), Opt(2, "BatchWrites", "bool")}

DynamicPartitionMetadataFields ==
  {Rep(1, "Groups", "DynamicPartitionGroup"), Opt(2, "SnapshotEnabled", "bool"),
   Opt(3, "VabcEnabled", "bool"), Opt(4, "VabcCompressionParam", "bytes"),
   Opt(5, "CowVersion", "uint32"), Ptr(6, "VabcFeatureSet", "VABCFeatureSet")}

ApexInfoFields ==
  {Opt(1, "PackageName", "bytes"), Opt(2, "Version", "int64"),
   Opt(3, "IsCompressed", "bool"), Opt(4, "DecompressedSize", "int64")}

ApexMetadataFields == {Rep(1, "ApexInfo", "ApexInfo")}

DeltaArchiveManifestFields ==
  {Ptr(3, "BlockSize", "uint32"), Opt(4, "SignaturesOffset", "uint64"),
   Opt(5, "SignaturesSize", "uint64"), Ptr(12, "MinorVersion", "uint32"),
   Rep(13, "Partitions", "PartitionUpdate"), Opt(14, "MaxTimestamp", "int64"),
   Ptr(15, "DynamicPartitionMetadata", "DynamicPartitionMetadata"),
   Opt(16, "PartialUpdate", "bool"), Rep(17, "ApexInfo", "ApexInfo"),
   Opt(18, "SecurityPatchLevel", "bytes")}

Fields ==
  [Extent |-> ExtentFields, Signatures |-> SignaturesFields,
   Signature |-> SignatureFields, PartitionInfo |-> PartitionInfoFields,
   InstallOperation |-> InstallOperationFields,
   CowMergeOperation |-> CowMergeOperationFields,
   PartitionUpdate |-> PartitionUpdateFields,
   DynamicPartitionGroup |-> DynamicPartitionGroupFields,
   VABCFeatureSet |-> VABCFeatureSetFields,
   DynamicPartitionMetadata |-> DynamicPartitionMetadataFields,
   ApexInfo |-> ApexInfoFields, ApexMetadata |-> ApexMetadataFields,
   DeltaArchiveManifest |-> DeltaArchiveManifestFields]

MessageTypes == DOMAIN Fields

\* The values of a message type.
Messages(t) ==
  CASE t = "Extent" -> Extents
    [] t = "Signatures" -> Signatures_s
    [] t = "Signature" -> Signature_s
    [] t = "PartitionInfo" -> PartitionInfos
    [] t = "InstallOperation" -> InstallOperations
    [] t = "CowMergeOperation" -> CowMergeOperations
    [] t = "PartitionUpdate" -> PartitionUpdates
    [] t = "DynamicPartitionGroup" -> DynamicPartitionGroups
    [] t = "VABCFeatureSet" -> VABCFeatureSets
    [] t = "DynamicPartitionMetadata" -> DynamicPartitionMetadatas
    [] t = "ApexInfo" -> ApexInfos
    [] t = "ApexMetadata" -> ApexMetadatas
    [] t = "DeltaArchiveManifest" -> DeltaArchiveManifests

\* new(T): every field zero, nil or empty.
New(t) ==
  [n \in {f.name : f \in Fields[t]} |->
     LET f == CHOOSE g \in Fields[t] : g.name = n IN
     CASE f.label \in {"ptr", "rep"} \/ f.kind = "bytes" -> <<>>
       [] f.label \in {"opt", "req"} /\ f.kind = "bool" -> FALSE
       [] OTHER -> 0]
=============================================================================
