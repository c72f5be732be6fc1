----------------------------- MODULE MCWorkdir ------------------------------
(***************************************************************************)
(* Instances of Workdir for TLC: directories with one image each, beside   *)
(* parts of an earlier run, and the command lines that work on them.       *)
(***************************************************************************)
EXTENDS Workdir

MCFormatOf == [w \in {31, 32, 33, 34} |->
  CASE w = 31 -> "gzip" [] w = 32 -> "lz4_legacy" [] w = 33 -> "bzip2"
    [] w = 34 -> "lzma"]

Dtb(total, struct) == <<99, total, struct, 0, 0, 0, 0, 0, 0, 0, 1, 5>>
GoodDtb == Dtb(12, 10)
Filler(n) == [k \in 1 .. n |-> 3]

Images ==
  {<<5, 6>> \o GoodDtb,                \* a plain kernel
   <<31, 6>> \o GoodDtb,               \* compressed ones
   <<33, 6>> \o GoodDtb, <<34, 6>> \o GoodDtb,
   <<32, 1, 8>> \o GoodDtb,            \* blocks that run over the end
   <<32, 1, 8, 11>> \o Filler(4) \o GoodDtb,
   <<5>> \o Dtb(12, 10) \o GoodDtb,    \* two device trees
   <<5>> \o Dtb(12, 11),               \* no node where the header says
   <<5, 6, 99, 1>>,                    \* a header cut short
   GoodDtb, <<5, 6, 5>>, <<>>,
   <<5, 6, 5, 5, 6, 5, 1>>,
   Filler(14) \o GoodDtb \o Filler(8)} \* of 8 words, modulo SizeLimit

Endless ==
  {<<5>> \o Dtb(200, 10) \o GoodDtb,   \* a magic that is not a device tree's
   <<32, 14>> \o GoodDtb \o Filler(2)} \* blocks that end with the file

In(c) ==
  {[n \in {"image", "kernel_dtb", "header"} |->
      CASE n = "image" -> c [] n = "kernel_dtb" -> <<99, 5>> [] n = "header" -> <<1>>]}

\* Images that have the names of the parts.
Misnamed ==
  {[n \in {"kernel", "kernel_dtb"} |->
      <<IF n = "kernel" THEN k ELSE 5, 6>> \o GoodDtb] : k \in {5, 33}}

MCDirs == UNION {In(c) : c \in Images \union Endless} \union Misnamed

L(action, operands) == [action |-> action, operands |-> operands]

MCJobs ==
  {L("split", <<"image">>), L("split", <<"-n", "image">>), L("split", <<"-n">>),
   L("split", <<"kernel">>), L("split", <<"-n", "kernel_dtb">>),
   L("cleanup", <<>>), L("sha1", <<"image">>), L("sign", <<"image", "a", "b">>),
   L("unpack", <<"image">>), L("hexpatch", <<"kernel">>),
   L("hexpatch", <<"kernel", <<5, 6>>, <<6, 5>>>>),
   L("hexpatch", <<"kernel", <<6, 5>>, <<7, 7>>>>),
   L("hexpatch", <<"image", <<5, 6>>, <<7, 8>>>>),
   L("hexpatch", <<"image", <<5, 6, 5>>, <<7, 5, 6>>>>),
   L("hexpatch", <<"image", <<3, 3>>, <<4, 3, 3>>>>),
   L("hexpatch", <<"image", <<>>, <<>>>>)}
=============================================================================
