------------------------------- MODULE MCCpio -------------------------------
(***************************************************************************)
(* Instances of Cpio for TLC.  A file image is written with At; "a" and    *)
(* "a/b" are the directory and the file of the small archives below.       *)
(***************************************************************************)
EXTENDS CpioRestore

A   == <<"a">>
AB  == <<"a", "b">>
A0  == <<"a-">>     \* sorts between "a" and "a/b", and is not below "a"
Z   == <<"z">>
BA  == <<".backup", "a">>
BZ  == <<".backup", "z">>
BZx == <<".backup", "z.xz">>

MCPathOrder ==
  << <<".">>, BackupDir, MagiskName, RmListName, BA, BZ, BZx, A, A0, AB,
     <<"fstab">>, VerityKey, Z, <<"z.xz">> >>

MCTexts      == {"t1", "t2"}
MCXzStem     == [c \in {"z.xz"} |-> "z"]
MCFstabNames == {<<"fstab">>}

Text(t)  == Raw([form |-> "text", text |-> t])
File(t)  == RegEntry(Text(t))
FstabOf(short) ==
  RegEntry(Raw([form |-> "fstab", verity |-> TRUE, crypt |-> TRUE,
                short |-> short]))
End      == EntryItem(Trailer, Zero)

InFile(kind, t) == [kind |-> kind, data |-> IF kind = "reg" THEN Text(t) ELSE Nothing]

rm(p, r)    == [verb |-> "rm", path |-> p, recursive |-> r]
mkdir(p)    == [verb |-> "mkdir", path |-> p]
ln(t, p)    == [verb |-> "ln", path |-> p, target |-> t]
mv(p, q)    == [verb |-> "mv", path |-> p, to |-> q]
add(p, f)   == [verb |-> "add", path |-> p, infile |-> f]
extract(p, o) == [verb |-> "extract", path |-> p, out |-> o]
backup(o, n) == [verb |-> "backup", orig |-> o, skip |-> n]
patch(v, e) == [verb |-> "patch", keepVerity |-> v, keepEncrypt |-> e]
exists(p)   == [verb |-> "exists", path |-> p]
word(w)     == [verb |-> w]
malformed(s) == [verb |-> "malformed", exit |-> s]

-----------------------------------------------------------------------------
(* A session of ordinary edits, overwrites and early exits.                *)

Sorted == << EntryItem(A, DirEntry), EntryItem(AB, File("t1")), End >>

\* As other tools pack it: "." first, two names twice, a second archive after
\* the first trailer, and padding in between.
Packed ==
  << EntryItem(<<".">>, DirEntry), EntryItem(Z, File("t1")),
     EntryItem(A, DirEntry), End, Junk, EntryItem(Z, File("t2")),
     EntryItem(A, DirEntry), End >>

SessionImages ==
  {NoFile, <<>>, Sorted, Packed, <<EntryItem(Z, File("t1")), Torn>>,
   <<EntryItem(Z, File("t1")), Junk, EntryItem(A, DirEntry), End>>}

SessionCommands ==
  {rm(A, TRUE), rm(Z, FALSE), mkdir(A), mkdir(<<".">>), ln("t1", AB), mv(A, Z),
   mv(A0, AB), add(Z, InFile("reg", "t2")), add(A0, InFile("chr", "t1")),
   add(A, InFile("missing", "t1")), add(<<".">>, InFile("reg", "t1")),
   extract(A, FALSE), extract(A0, TRUE), word("test"), word("ls"), exists(Z),
   word("ignored"), malformed("usage"), malformed("fatal"), malformed("panic")}

\* The same with a device that may fill up, and fewer commands.
FaultCommands ==
  {rm(A, TRUE), mv(A, Z), add(A, InFile("reg", "t1")),
   add(<<".">>, InFile("reg", "t2"))}

-----------------------------------------------------------------------------
(* backup, restore and patch.                                              *)

Origin == << EntryItem(A, DirEntry), EntryItem(A0, File("t1")),
             EntryItem(AB, File("t1")), EntryItem(Z, File("t1")), End >>

\* In an order another tool may have packed it.
Unsorted ==
  << EntryItem(Z, File("t1")), EntryItem(A, DirEntry), End >>

Stock == << EntryItem(A, DirEntry), EntryItem(AB, File("t1")),
            EntryItem(<<"fstab">>, FstabOf(FALSE)),
            EntryItem(VerityKey, File("t1")), End >>

Magisk ==
  << EntryItem(BackupDir, DirEntry),
     EntryItem(RmListName, RegEntry(NameList(<<A0>>))),
     EntryItem(A0, File("t2")), EntryItem(AB, File("t2")), End >>

Short == << EntryItem(<<"fstab">>, FstabOf(TRUE)), End >>

BackupImages == {Stock, Magisk, Short}

BackupCommands ==
  {backup(Origin, FALSE), backup(Stock, TRUE), backup(NoFile, FALSE),
   backup(Unsorted, TRUE), backup(<<Torn>>, FALSE), word("restore"), patch(FALSE, FALSE),
   patch(TRUE, TRUE), rm(AB, FALSE), add(Z, InFile("reg", "t2"))}

-----------------------------------------------------------------------------
(* Small instances for the disagreements of code and usage text.           *)

StockOnly      == {Stock}
PatchCommands  == {patch(FALSE, FALSE)}
MergeCommands  == {backup(Origin, FALSE)}

-----------------------------------------------------------------------------
(* Restore of well-formed backups, and all of the above in one instance.   *)

MCRamdisks ==
  {EmptyMap, [p \in {A} |-> DirEntry], [p \in {Z} |-> File("t1")],
   [p \in {A, Z} |-> IF p = A THEN DirEntry ELSE File("t2")]}

ImageOf(c) ==
  [i \in DOMAIN c.keys |-> EntryItem(c.keys[i], Lookup(c, c.keys[i]))]
    \o <<End>>

RestoreImages ==
  {ImageOf(Backed(pair[1], pair[2], xz, m)) :
     pair \in Pairs, xz \in BOOLEAN, m \in BOOLEAN}
  \union {<<EntryItem(BackupDir, DirEntry), EntryItem(BZx, e), End>> :
           e \in {File("t1"), DirEntry, RegEntry(Nothing)}}

MCImages   == UNION {SessionImages, BackupImages, RestoreImages}
MCCommands == SessionCommands \union BackupCommands
=============================================================================
