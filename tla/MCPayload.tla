----------------------------- MODULE MCPayload ------------------------------
(***************************************************************************)
(* Instances of Payload for TLC: payloads with blobs out of order, shared, *)
(* with gaps between them, compressed and broken ones, and every way a     *)
(* payload may be refused.  Blocks are of two cells; CheckFmt compares two *)
(* cells and then three.                                                   *)
(***************************************************************************)
EXTENDS Payload

B == <<1>>   I == <<2>>   V == <<3>>    \* boot, init_boot, another one

MCData    == <<1, 2, 3, 4, 9, 6, 7, 8>>
MCCells   == 0 .. 9
\* The cells from 9 on are a compressed stream of four cells.
Packed    == <<9, 6>>
MCStreams == [s \in {Packed} |-> <<5, 6, 7, 8>>]

Ext(s, n) == [StartBlock |-> s, NumBlocks |-> n]

Op(type, off, len, dst) ==
  [New("InstallOperation") EXCEPT !.Type = type, !.DataOffset = off,
     !.DataLength = len, !.DstExtents = dst]

Part(name, ops) ==
  [New("PartitionUpdate") EXCEPT !.PartitionName = name, !.Operations = ops]

Of(parts, minor) ==
  [New("DeltaArchiveManifest") EXCEPT !.Partitions = parts,
     !.MinorVersion = minor]

Pl(m) == [magic |-> TRUE, version |-> 2, manifestLen |-> 3, sigLen |-> 2,
          good |-> TRUE, manifest |-> m, data |-> MCData]

R(off, len, s, n) == Op(REPLACE, off, len, <<Ext(s, n)>>)

OpLists ==
  { \* out of order, with a gap, and with a shared blob
    <<R(6, 2, 0, 1), R(2, 2, 2, 1), Op(REPLACE_XZ, 4, 2, <<Ext(3, 2)>>)>>,
    <<R(2, 2, 1, 1), R(2, 2, 0, 1), R(3, 2, 2, 1)>>,
    <<Op(REPLACE_BZ, 4, 2, <<Ext(1, 2)>>), R(1, 2, 0, 1), R(1, 6, 3, 3)>>,
    <<>>,
    \* the first blob of the data, two extents, zeros
    <<R(0, 2, 0, 1), R(2, 2, 1, 1)>>,
    <<Op(REPLACE, 1, 4, <<Ext(0, 1), Ext(2, 1)>>)>>,
    <<R(2, 2, 0, 1), Op(ZERO, 0, 0, <<Ext(1, 2)>>)>>,
    <<R(2, 2, 3, 1), R(6, 2, 2, 1), Op(ZERO, 4, 2, <<Ext(2, 1), Ext(0, 2)>>)>>,
    \* not legal
    <<R(2, 2, 1, 1), Op(4, 4, 2, <<Ext(0, 1)>>)>>,
    <<Op(REPLACE_XZ, 2, 2, <<Ext(0, 1)>>)>>, <<Op(REPLACE_XZ, 1, 3, <<Ext(0, 1)>>)>>,
    <<Op(REPLACE_XZ, 4, 1, <<Ext(0, 1)>>)>>,
    <<Op(REPLACE_BZ, 4, 3, <<Ext(0, 1)>>)>>, <<R(2, 2, 1, 1), Op(REPLACE, 4, 2, <<>>)>>,
    <<R(6, 4, 0, 2), R(5, 2, 2, 1)>>, <<R(12, 2, 0, 1), R(7, 1, 1, 1)>>,
    <<R(2, 1, Word \div 4, 1)>> }

Boots == {Part(B, ops) : ops \in OpLists}

MCPayloads ==
  {Pl(Of(<<p>>, <<>>)) : p \in Boots}
    \union {[Pl(Of(<<Part(B, <<R(2, 2, 0, 1)>>), Part(V, <<>>), Part(I, <<R(4, 2, 0, 1)>>),
                     Part(I, <<R(6, 2, 0, 1), R(1, 2, 1, 1)>>)>>, <<0>>)) EXCEPT
               !.good = g, !.sigLen = s] : g \in BOOLEAN, s \in {0, 1}}
    \union {[Pl(Of(<<Part(B, <<R(2, 2, 0, 1)>>)>>, m)) EXCEPT !.version = v, !.magic = g] :
              m \in {<<0>>, <<1>>}, v \in {0, 2}, g \in BOOLEAN}

MCPartitions == {NoPartition, V, I, <<4>>}

\* For the runs in which the code and its usage disagree.
FirstBlob  == {Pl(Of(<<Part(B, <<R(0, 2, 0, 1)>>)>>, <<>>))}
SecondBlob == {[Pl(Of(<<Part(B, <<R(2, 2, 0, 1)>>)>>, <<>>)) EXCEPT !.manifestLen = 1]}
=============================================================================
