----------------------------- MODULE MCExtract ------------------------------
(***************************************************************************)
(* Instances of CpioExtract for TLC.                                       *)
(***************************************************************************)
EXTENDS CpioExtract

A  == <<"a">>
AB == <<"a", "b">>
C  == <<"c">>
CD == <<"c", "d">>
Z  == <<"z">>

MCPathOrder ==
  << <<".">>, BackupDir, RmListName, A, AB, C, CD, Z >>

MCTexts  == {"t1", "t2"}
MCXzStem == [c \in {} |-> c]

Text(t)   == Raw([form |-> "text", text |-> t])
File(t)   == RegEntry(Text(t))
Device(k) == [kind |-> k, data |-> Nothing]

End        == EntryItem(Trailer, Zero)

Ordered == << EntryItem(A, DirEntry), EntryItem(AB, File("t1")), EntryItem(CD, File("t1")),
              EntryItem(Z, SymLink("t1")), End >>

\* As another tool may pack it: a directory after what is in it.
Late == << EntryItem(AB, File("t2")), EntryItem(A, DirEntry), EntryItem(Z, File("t2")), End >>

\* Files and devices only, one of them twice.
Flat == << EntryItem(C, File("t1")), EntryItem(Z, Device("blk")), EntryItem(C, File("t2")), End >>

\* A file where another archive has a directory, and a character device.
Other == << EntryItem(A, File("t2")), EntryItem(C, Device("chr")), EntryItem(Z, File("t1")), End >>

Loaded == {LoadFromData(image) : image \in {Ordered, Late, Flat, Other}}

\* A key whose entry is gone, as rm leaves it of a name that is listed twice;
\* an entry ".", as mkdir makes it.
MCArchives ==
  Loaded \union {Rm(LoadFromData(Flat), C, FALSE),
                 addEntry(LoadFromData(Ordered), <<".">>, DirEntry)}

MCTrees ==
  {EmptyMap, [p \in {A} |-> DirEntry], [p \in {C} |-> DirEntry],
   [p \in {C} |-> File("t2")]}

MCOperands == {<<>>, <<Z>>, <<AB, Z>>, <<CD, C>>, <<Z, AB>>, <<C, CD>>}

=============================================================================
