---------------------------- MODULE CpioRestore -----------------------------
(***************************************************************************)
(* What the command restore promises: it brings a ramdisk back from a      *)
(* well-formed backup of it in another one.  BackedUp (CpioArchive) is     *)
(* such a backup, as the names and suffixes that Restore looks for tell;   *)
(* its compressed members are whole streams, as another tool makes them.   *)
(***************************************************************************)
EXTENDS Cpio

CONSTANT Ramdisks   \* the ramdisks that are backed up in one another

Hidden == {BackupDir} \union Below(BackupDir)

\* What can be said in a backup: no name is below .backup or ends in ".xz",
\* which Restore takes for a compressed member, and there are names for the
\* members.
Restorable(o) ==
  /\ IsEntryMap(o) /\ DOMAIN o \intersect Hidden = {}
  /\ \A p \in DOMAIN o :
       /\ ~EndsInXz(p) /\ BackupDir \o p \in Members
       /\ o[p].kind = "reg" => \E q \in Members : EndsInXz(q) /\ Tail(Stem(q)) = p

\* A backup compares data only (cpio.go:788).
ASSUME RestoreAssumption ==
  /\ Ramdisks # {} => MagiskName \in Paths
  /\ \A o \in Ramdisks : Restorable(o)
  /\ \A o, r \in Ramdisks : \A p \in DOMAIN o \intersect DOMAIN r :
       o[p].data = r[p].data => o[p] = r[p]

Pairs == {pair \in Ramdisks \X Ramdisks : pair[1] # pair[2]}

\* xz: the members are compressed; magisk: with the marker of an installation.
Backed(o, r, xz, magisk) ==
  LET c == BackedUp(o, r, xz)
  IN  IF magisk THEN addEntry(c, MagiskName, RegEntry(Nothing)) ELSE c

\* Restore brings a backed up ramdisk back: after it, the names and entries
\* outside .backup are those of the ramdisk the backup was made from.
RestoreUndoesBackup ==
  [][pc = "run" /\ pc' = "run" =>
       \A cmd \in Commands, pair \in Pairs, xz \in BOOLEAN, m \in BOOLEAN :
         CmdRestore(cmd) /\ cpio = Backed(pair[1], pair[2], xz, m) =>
           Without(cpio.entries', Hidden) = pair[1]
    ]_vars
=============================================================================
