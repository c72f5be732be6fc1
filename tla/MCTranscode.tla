---------------------------- MODULE MCTranscode -----------------------------
(***************************************************************************)
(* Instances of Transcode for TLC: a directory with a plain file, two      *)
(* archives and standard input, and the jobs that meet each other's files. *)
(***************************************************************************)
EXTENDS Transcode

A     == <<"a">>
AGz   == <<"a", ".", "g", "z">>
ALz   == <<"a", ".", "l", "z", "4">>
ImgGz == <<"im", "g", ".", "g", "z">>   \* TrimRight leaves "im"
GGz   == <<"g", ".", "g", "z">>         \* TrimRight leaves nothing
DGz   == <<"-", ".", "g", "z">>         \* TrimRight leaves "-"
C     == <<"c">>                        \* an archive without an extension

MCPieces == {"-", ".", "a", "b", "c", "g", "im", "l", "m", "x", "z", "2", "4"}

MCTexts == {"t1", "t2", "t3"}

Plain(t)   == << [of |-> t, whole |-> TRUE] >>
Gz(c)      == Encoded(c, "gzip")

Directory ==
  [n \in {A, ImgGz, C, GGz, DGz, Std} |->
     CASE n = A     -> Plain("t1")
       [] n = ImgGz -> Gz(Plain("t2"))
       [] n = C     -> Encoded(Plain("t3"), "lz4")
       [] n = GGz   -> Gz(<<>>)
       [] n = DGz   -> Gz(Plain("t3"))
       [] n = Std   -> Gz(Plain("t2"))]

MCDirectories == {Directory}

compress(m, i, o) == [verb |-> "compress", method |-> m, in |-> i, out |-> o]
decompress(i, o)  == [verb |-> "decompress", method |-> "gzip", in |-> i, out |-> o]

MCJobs ==
  {compress("gzip", A, NoName), compress("lz4_legacy", A, NoName),
   compress("xz", ImgGz, A), compress("zopfli", A, NoName),
   compress("rar", A, NoName), compress("gzip", Std, C),
   decompress(AGz, NoName), decompress(ALz, NoName), decompress(ImgGz, NoName),
   decompress(C, NoName), decompress(GGz, NoName), decompress(DGz, NoName),
   decompress(Std, NoName),
   decompress(ImgGz, Std), decompress(A, C)}

FullJobs == {compress("gzip", A, NoName)}
=============================================================================
