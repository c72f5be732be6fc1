----------------------------- MODULE MCRamdisk ------------------------------
(***************************************************************************)
(* An instance of CpioRamdisk with plain sessions: A0 and Z may come to be *)
(* listed twice and are never removed, A, AB and VerityKey may be removed. *)
(***************************************************************************)
EXTENDS MCCpio, CpioRamdisk

RefinesPathOrder == << BackupDir, RmListName, A, A0, AB, VerityKey, Z >>

RefinesImages ==
  {NoFile, Sorted, <<EntryItem(Z, File("t1")), EntryItem(Z, File("t2")), Torn>>,
   << EntryItem(VerityKey, File("t1")), EntryItem(Z, File("t1")),
      EntryItem(Z, File("t2")), EntryItem(AB, File("t1")), End, Junk, Junk>>,
   <<EntryItem(Z, File("t1")), Junk, EntryItem(A, DirEntry), End>>}

RefinesCommands ==
  {rm(A, TRUE), rm(AB, FALSE), mv(AB, Z), mv(A, A0), mkdir(A0), ln("t1", Z),
   add(Z, InFile("reg", "t2")), add(A0, InFile("blk", "t1")),
   patch(FALSE, TRUE), extract(A, FALSE), word("test"), malformed("fatal")}

\* The refinement is claimed of sessions like these.
ASSUME PlainInstance == PlainSessions
=============================================================================
