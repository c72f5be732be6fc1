---------------------------- MODULE MCManifest -----------------------------
(***************************************************************************)
(* Instances of Manifest for TLC: manifests with every field of every      *)
(* message and values of every number of digits, and what may reach the    *)
(* decoder instead of them: two at a time, cut, cut and filled with zeros, *)
(* with a byte replaced, and with fields of a later version.               *)
(***************************************************************************)
EXTENDS ManifestMerge

Ext(s, n) == [StartBlock |-> s, NumBlocks |-> n]
Sig(v, d) == [Version |-> v, Data |-> d, UnpaddedSignatureSize |-> 2 * v + 256]

Op(type, off, len, dst) ==
  [Type |-> type, DataOffset |-> off, DataLength |-> len,
   SrcExtents |-> <<>>, SrcLength |-> 0, DstExtents |-> dst, DstLength |-> 0,
   DataSha256Hash |-> <<>>, SrcSha256Hash |-> <<>>]

RichOp ==
  [Op(Half - 1, 127, 128, <<Ext(16383, 16384), Ext(2097151, 2097152)>>) EXCEPT
     !.SrcExtents = <<Ext(0, Word - 1)>>, !.SrcLength = 1, !.DstLength = 200,
     !.DataSha256Hash = << <<>> >>, !.SrcSha256Hash = << <<7, 255, 0>> >>]

Part(name, ops) ==
  [New("PartitionUpdate") EXCEPT !.PartitionName = name, !.Operations = ops]

RichPart ==
  [Part(<<66, 1>>, <<RichOp, Op(0, 4, 4, <<>>)>>) EXCEPT
     !.RunPostinstall = TRUE, !.PostinstallPath = <<1>>, !.FilesystemType = <<2>>,
     !.NewPartitionSignature = <<Sig(1, <<>>), Sig(2, << <<9>> >>)>>,
     !.OldPartitionInfo = <<[Size_ |-> 130, Hash |-> <<>>]>>,
     !.NewPartitionInfo = <<[Size_ |-> 0, Hash |-> << <<3>> >>]>>,
     !.PostinstallOptional = TRUE,
     !.HashTreeDataExtent = <<Ext(1, 2)>>, !.HashTreeExtent = <<Ext(3, 4)>>,
     !.HashTreeAlgorithm = <<5>>, !.HashTreeSalt = << <<6>> >>,
     !.FecDataExtent = <<Ext(5, 6)>>, !.FecExtent = <<Ext(7, 8)>>,
     !.FecRoots = <<Half - 1>>, !.Version = <<8>>,
     !.MergeOperations = <<[Type |-> 1, SrcExtent |-> <<Ext(1, 1)>>,
                            DstExtent |-> <<>>, SrcOffset |-> 9],
                           [Type |-> 0, SrcExtent |-> <<>>,
                            DstExtent |-> <<Ext(2, 1)>>, SrcOffset |-> 0]>>,
     !.EstimateCowSize = 300]

Apex == [PackageName |-> <<4>>, Version |-> Word - 1, IsCompressed |-> TRUE,
         DecompressedSize |-> 128]

Dynamic(groups, b) ==
  [Groups |-> groups, SnapshotEnabled |-> b, VabcEnabled |-> ~b,
   VabcCompressionParam |-> <<7>>, CowVersion |-> 2,
   VabcFeatureSet |-> IF b THEN <<[Threaded |-> TRUE, BatchWrites |-> FALSE]>>
                           ELSE <<>>]

Empty == New("DeltaArchiveManifest")

Small ==
  [Empty EXCEPT
     !.BlockSize = <<4>>, !.MinorVersion = <<0>>,
     !.Partitions = <<Part(<<66>>, <<Op(8, 1, 2, <<Ext(1, 1)>>)>>)>>,
     !.DynamicPartitionMetadata =
        <<Dynamic(<<[Name |-> <<1>>, Size_ |-> 5, PartitionNames |-> <<>>]>>, TRUE)>>]

Tiny == [Empty EXCEPT
           !.Partitions = <<[Part(<<66>>, <<>>) EXCEPT !.FecExtent = <<Ext(1, 300)>>]>>]

Rich ==
  [Empty EXCEPT
     !.BlockSize = <<2047>>, !.SignaturesOffset = Word \div 2,
     !.SignaturesSize = 16384, !.MinorVersion = <<9>>,
     !.Partitions = <<RichPart, Part(<<>>, <<>>)>>, !.MaxTimestamp = Word - 1,
     !.DynamicPartitionMetadata =
        <<Dynamic(<<[Name |-> <<>>, Size_ |-> 1, PartitionNames |-> <<<<>>, <<2>>>>]>>,
                  FALSE)>>,
     !.PartialUpdate = TRUE, !.ApexInfo = <<Apex, [Apex EXCEPT !.Version = 1]>>,
     !.SecurityPatchLevel = [i \in 1 .. 130 |-> i]]

MCSamples == {Empty, Tiny, Small, Rich}

\* Fields 20 to 27: a varint, 8 bytes, a string, 4 bytes, a group with a
\* group and a string in it, a string that ends like a group.
MCUnknownFields ==
  {<<160, 1, 255, 255, 255, 127>>, <<169, 1, 4, 4, 4, 4, 4, 4, 4, 4>>,
   <<178, 1, 2, 180, 1>>, <<189, 1, 255, 255, 255, 255>>,
   <<195, 1, 195, 1, 18, 2, 196, 1, 196, 1, 8, 128, 1, 13, 1, 2, 3, 4, 196, 1>>,
   <<226, 1, 1, 196>>}

EmptyBytes == Encoded(Empty)
SmallBytes == Encoded(Small)
TinyBytes  == Encoded(Tiny)
RichBytes  == Encoded(Rich)

Wholes == {EmptyBytes, TinyBytes, SmallBytes, RichBytes}
Pairs  == {a \o b : a, b \in {EmptyBytes, SmallBytes, RichBytes}}
Later  == UNION {{u \o SmallBytes, SmallBytes \o u} : u \in MCUnknownFields}
Cuts(s)  == {SubSeq(s, 1, n) : n \in 0 .. Len(s) - 1}
Short(s) == {[i \in DOMAIN s |-> IF i <= n THEN s[i] ELSE 0] : n \in DOMAIN s}
Damaged(s) ==
  {[s EXCEPT ![i] = b] : i \in DOMAIN s, b \in {0, 7, 127, 128, 255}}

\* Lengths at the limit of an int, in a known field, an unknown one and in a
\* group; a tag whose number wraps to a known field; groups that do not end.
Huge == <<255, 255, 255, 0>>
AtLimits ==
  {<<146, 1>> \o l \o <<1, 2>> : l \in {Huge, <<255, 255, 127>>, <<128, 128, 128, 1>>,
                                       <<255, 255, 255, 1>>}}
    \union {<<178, 1>> \o <<255, 255, 127, 1>>, <<195, 1, 18>> \o <<255, 255, 255, 0>>,
            <<195, 1, 18, 255, 255, 127>>, <<195, 1, 18, 2, 0>>, <<195, 1, 17, 196, 1>>,
            <<195, 1, 18, 9, 196, 1>>, <<195, 1>>, <<196, 1>>, <<160, 128, 129, 0, 1>>,
            <<255, 255, 255, 255, 1>>, <<0, 0>>}

MCBuffers ==
  UNION {Wholes, Pairs, Later, Cuts(SmallBytes), Short(SmallBytes),
         Cuts(RichBytes), Short(RichBytes), Damaged(SmallBytes), AtLimits}
=============================================================================
