-------------------------------- MODULE Cpio --------------------------------
(***************************************************************************)
(* `magiskboot cpio <incpio> [commands...]`: one action per command of     *)
(* CpioCommands (cpio.go:847), the merge loop of Backup and the write loop *)
(* of Dump taken one iteration at a time, and the file <incpio> that       *)
(* outlives every run of the tool.  Operators whose comment says "Mutant"  *)
(* are not used by the specification: each is a mistake that one property  *)
(* finds when it takes the place of the definition below it.               *)
(*                                                                         *)
(* A run loads the file, executes its command arguments in order, and      *)
(* rewrites the file in place; many of its paths leave through os.Exit,    *)
(* log.Fatal or a panic instead.  The process may be killed at any step,   *)
(* and with Faults the device may fill up while Dump writes.               *)
(***************************************************************************)
EXTENDS CpioArchive

CONSTANTS
  NoFile,       \* <incpio> does not exist
  Images,       \* what <incpio> may hold before the first run
  Commands,     \* the command arguments a user may give
  MaxCommands,  \* bound on the command arguments of one run
  MaxRuns,      \* bound on the number of runs
  Faults        \* whether the device may fill up, and Create may fail

VARIABLES
  disk,    \* <incpio>: NoFile or a file image
  pc,      \* "idle", "run" (next argument), "merge" (in Backup), "dump"
  argc,    \* arguments of this run that are still to be executed
  cpio,    \* the Cpio struct of the running process
  merge,   \* the local variables of Backup
  cursor,  \* Dump: the next position of c.Keys
  full,    \* the device is full
  status,  \* how the last run ended
  runs     \* runs started so far

vars == <<disk, pc, argc, cpio, merge, cursor, full, status, runs>>

\* os.Stat and os.Open of an INFILE or an ORIG, and what reading it gives.
InFiles == [kind : {"reg", "blk", "chr", "fifo", "missing"}, data : Payloads]

Cmds ==
  [verb : {"rm"}, path : Paths, recursive : BOOLEAN]
    \union [verb : {"mkdir"}, path : Paths]
    \union [verb : {"ln"}, path : Paths, target : Texts]
    \union [verb : {"mv"}, path : Paths, to : Paths]
    \union [verb : {"add"}, path : Paths, infile : InFiles]
    \union [verb : {"extract"}, path : Paths, out : BOOLEAN]
    \union [verb : {"backup"}, orig : Seq(Items) \union {NoFile},
            skip : BOOLEAN]
    \union [verb : {"patch"}, keepVerity : BOOLEAN, keepEncrypt : BOOLEAN]
    \union [verb : {"restore", "test", "ls", "ignored"}]
    \union [verb : {"exists"}, path : Paths]
    \union [verb : {"malformed"}, exit : {"usage", "fatal", "panic"}]

Statuses ==
  {"none", "dumped", "0", "1", "2", "usage", "fatal", "panic", "killed"}

ASSUME CpioAssumption ==
  /\ NoFile \notin Seq(Items)
  /\ Images \subseteq Seq(Items) \union {NoFile}
  /\ Commands \subseteq Cmds
  /\ MaxCommands \in Nat
  /\ MaxRuns \in Nat
  /\ Faults \in BOOLEAN

NoMerge ==
  [orig |-> NewCpio, l |-> 1, r |-> 1, saved |-> EmptyMap, rmlist |-> <<>>,
   skip |-> FALSE]

-----------------------------------------------------------------------------
Init ==
  /\ disk \in Images
  /\ pc = "idle" /\ argc = 0 /\ cursor = 0
  /\ cpio = NewCpio /\ merge = NoMerge
  /\ full = FALSE /\ status = "none" /\ runs = 0

\* The process ends with the given status and loses its memory.
Exit(how) ==
  /\ pc' = "idle" /\ argc' = 0 /\ cursor' = 0
  /\ cpio' = NewCpio /\ merge' = NoMerge
  /\ full' = FALSE /\ status' = how
  /\ UNCHANGED runs

\* LoadFromFile maps the file, which an empty file does not allow.
Loads(image) == image \notin {NoFile, <<>>} /\ ~LoadPanics(image)

\* The error of LoadFromData is dropped: the entries read are the archive.
Start ==
  /\ pc = "idle" /\ runs < MaxRuns
  /\ runs' = runs + 1
  /\ UNCHANGED <<disk, merge, cursor, full>>
  /\ \/ /\ disk = <<>> /\ status' = "fatal"
        /\ UNCHANGED <<pc, argc, cpio>>
     \/ /\ disk \notin {NoFile, <<>>} /\ ~Loads(disk) /\ status' = "panic"
        /\ UNCHANGED <<pc, argc, cpio>>
     \/ /\ disk = NoFile \/ Loads(disk)
        /\ pc' = "run" /\ argc' \in 0..MaxCommands /\ status' = "none"
        /\ cpio' = IF disk = NoFile THEN NewCpio ELSE LoadFromData(disk)

-----------------------------------------------------------------------------
(* The commands.                                                           *)

Continue(c) ==
  /\ cpio' = c
  /\ argc' = argc - 1
  /\ UNCHANGED <<disk, pc, merge, cursor, full, status, runs>>

Abort(how) == Exit(how) /\ UNCHANGED disk

CmdRm(cmd) ==
  cmd.verb = "rm" /\ Continue(Rm(cpio, cmd.path, cmd.recursive))

CmdMkdir(cmd) ==
  cmd.verb = "mkdir" /\ Continue(addEntry(cpio, cmd.path, DirEntry))

CmdLn(cmd) ==
  /\ cmd.verb = "ln"
  /\ Continue(addEntry(cpio, cmd.path, SymLink(cmd.target)))

CmdMv(cmd) ==
  cmd.verb = "mv" /\ Continue(Mv(cpio, cmd.path, cmd.to))

CmdAdd(cmd) ==
  /\ cmd.verb = "add"
  /\ \/ /\ cmd.infile.kind \in {"missing", "fifo"}
        /\ Abort("fatal")
     \/ /\ cmd.infile.kind \notin {"missing", "fifo"}
        /\ Continue(addEntry(cpio, cmd.path,
                             Added(cmd.infile.kind, cmd.infile.data)))

\* Writing to the host's file system may fail for reasons of its own.
CmdExtract(cmd) ==
  /\ cmd.verb = "extract"
  /\ LET names == Extracted(cpio, cmd.path, cmd.out)
     IN  \/ (\A p \in names : Extractable(cpio, p)) /\ Continue(cpio)
         \/ names # {} /\ Abort("fatal")

CmdPatch(cmd) ==
  /\ cmd.verb = "patch"
  /\ \/ /\ PatchPanics(cpio, cmd.keepVerity, cmd.keepEncrypt)
        /\ Abort("panic")
     \/ /\ ~PatchPanics(cpio, cmd.keepVerity, cmd.keepEncrypt)
        /\ Continue(Patch(cpio, cmd.keepVerity))

CmdRestore(cmd) ==
  /\ cmd.verb = "restore"
  /\ \/ ~RestoreMustPanic(cpio) /\ Continue(Restore(cpio))
     \/ RestoreMayPanic(cpio) /\ Abort("panic")

CmdTest(cmd) == cmd.verb = "test" /\ Abort(Test(cpio))

CmdExists(cmd) ==
  /\ cmd.verb = "exists"
  /\ Abort(IF cmd.path \in Range(cpio.keys) THEN "0" ELSE "1")

CmdLs(cmd) == cmd.verb = "ls" /\ Abort("0")

\* A comment, an unknown word, or `rm` and `extract` without arguments.
CmdIgnored(cmd) == cmd.verb = "ignored" /\ Continue(cpio)

\* Too few arguments, a mode that is not octal, an ENTRY that ends in '/'.
CmdMalformed(cmd) == cmd.verb = "malformed" /\ Abort(cmd.exit)

\* Backup up to its loops; o.Close() dereferences the mapping that a missing
\* or empty ORIG does not have.
CmdBackup(cmd) ==
  /\ cmd.verb = "backup"
  /\ \/ ~Loads(cmd.orig) /\ Abort("panic")
     \/ /\ Loads(cmd.orig)
        /\ pc' = "merge"
        /\ cpio' = Rm(cpio, BackupDir, TRUE)
        /\ merge' = [NoMerge EXCEPT
                       !.orig  = Rm(LoadFromData(cmd.orig), BackupDir, TRUE),
                       !.saved = [p \in {BackupDir} |-> DirEntry],
                       !.skip  = cmd.skip]
        /\ UNCHANGED <<disk, argc, cursor, full, status, runs>>

Command ==
  /\ pc = "run" /\ argc > 0
  /\ \E cmd \in Commands :
       \/ CmdRm(cmd) \/ CmdMkdir(cmd) \/ CmdLn(cmd) \/ CmdMv(cmd)
       \/ CmdAdd(cmd) \/ CmdExtract(cmd) \/ CmdPatch(cmd)
       \/ CmdRestore(cmd) \/ CmdTest(cmd) \/ CmdExists(cmd) \/ CmdLs(cmd)
       \/ CmdIgnored(cmd) \/ CmdMalformed(cmd) \/ CmdBackup(cmd)

-----------------------------------------------------------------------------
(* The loops of Backup.                                                    *)

LeftKeys  == merge.orig.keys
RightKeys == cpio.keys

\* Mutant: the entry is taken from the wrong archive.
SavedFromRight(p) ==
  LET e == Lookup(cpio, p)
  IN  Overlay([q \in {p} |-> IF merge.skip THEN e ELSE Compress(e)],
              merge.saved)

\* backupFunc: the entry is kept under its own name, without .backup/.
Saved(p) ==
  LET e == Lookup(merge.orig, p)
  IN  Overlay([q \in {p} |-> IF merge.skip THEN e ELSE Compress(e)],
              merge.saved)

\* One iteration of the two-way loop, or of the loops over what remains.
MergeLeft ==
  /\ merge.l <= Len(LeftKeys)
  /\ merge.r <= Len(RightKeys)
       => Rank[LeftKeys[merge.l]] < Rank[RightKeys[merge.r]]
  /\ merge' = [merge EXCEPT !.saved = Saved(LeftKeys[merge.l]), !.l = @ + 1]

MergeRight ==
  /\ merge.r <= Len(RightKeys)
  /\ merge.l <= Len(LeftKeys)
       => Rank[LeftKeys[merge.l]] > Rank[RightKeys[merge.r]]
  /\ merge' = [merge EXCEPT !.rmlist = Append(@, RightKeys[merge.r]),
                            !.r = @ + 1]

\* Mutant: the left index advances twice, nothing is compared.
MergeBothSkips ==
  /\ merge.l <= Len(LeftKeys) /\ merge.r <= Len(RightKeys)
  /\ LeftKeys[merge.l] = RightKeys[merge.r]
  /\ merge' = [merge EXCEPT !.l = @ + 2, !.r = @ + 1]

\* Mutant: the data are not compared.
MergeBothSaves ==
  /\ merge.l <= Len(LeftKeys) /\ merge.r <= Len(RightKeys)
  /\ LeftKeys[merge.l] = RightKeys[merge.r]
  /\ merge' = [merge EXCEPT !.saved = Saved(LeftKeys[merge.l]),
                            !.l = @ + 1, !.r = @ + 1]

MergeBoth ==
  /\ merge.l <= Len(LeftKeys) /\ merge.r <= Len(RightKeys)
  /\ LET p == LeftKeys[merge.l]
     IN  /\ p = RightKeys[merge.r]
         /\ merge' = [merge EXCEPT
              !.l = @ + 1, !.r = @ + 1,
              !.saved = IF Lookup(cpio, p).data = Lookup(merge.orig, p).data
                        THEN @ ELSE Saved(p)]

MergeStep ==
  /\ pc = "merge"
  /\ MergeLeft \/ MergeRight \/ MergeBoth
  /\ UNCHANGED <<disk, pc, argc, cpio, cursor, full, status, runs>>

\* Mutant: the map grows without the list.
MergeEndForgetsKeys ==
  /\ pc = "merge"
  /\ merge.l > Len(LeftKeys) /\ merge.r > Len(RightKeys)
  /\ pc' = "run" /\ argc' = argc - 1 /\ merge' = NoMerge
  /\ cpio' = [cpio EXCEPT !.entries = Overlay(merge.saved, @)]
  /\ UNCHANGED <<disk, cursor, full, status, runs>>

\* The rest of Backup.
MergeEnd ==
  /\ pc = "merge"
  /\ merge.l > Len(LeftKeys) /\ merge.r > Len(RightKeys)
  /\ pc' = "run" /\ argc' = argc - 1 /\ merge' = NoMerge
  /\ cpio' = Insert(cpio,
               IF merge.rmlist = <<>> THEN merge.saved
               ELSE Overlay([q \in {RmListName} |->
                               RegEntry(NameList(merge.rmlist))],
                            merge.saved))
  /\ UNCHANGED <<disk, cursor, full, status, runs>>

-----------------------------------------------------------------------------
(* Dump.                                                                   *)

\* Mutant: the file is opened without O_TRUNC.
BeginDumpKeepsFile ==
  /\ pc = "run" /\ argc = 0
  /\ pc' = "dump" /\ disk' = (IF disk = NoFile THEN <<>> ELSE disk)
  /\ cursor' = 1
  /\ UNCHANGED <<argc, cpio, merge, full, status, runs>>

\* os.Create truncates the only copy of the archive.
BeginDump ==
  /\ pc = "run" /\ argc = 0
  /\ \/ /\ pc' = "dump" /\ disk' = <<>> /\ cursor' = 1
        /\ UNCHANGED <<argc, cpio, merge, full, status, runs>>
     \/ Faults /\ Abort("fatal")

Dumping == pc = "dump" /\ cursor <= Len(cpio.keys)

\* Mutant: the entry of another key is written.
DumpEntryStale ==
  /\ Dumping /\ ~full
  /\ disk' = Append(disk, EntryItem(cpio.keys[cursor],
                                    Lookup(cpio, cpio.keys[1])))
  /\ cursor' = cursor + 1
  /\ UNCHANGED <<pc, argc, cpio, merge, full, status, runs>>

DumpEntry ==
  /\ Dumping /\ ~full
  /\ disk' = Append(disk, EntryItem(cpio.keys[cursor],
                                    Lookup(cpio, cpio.keys[cursor])))
  /\ cursor' = cursor + 1
  /\ UNCHANGED <<pc, argc, cpio, merge, full, status, runs>>

\* Mutant: the header is tried again instead of giving up.
DumpHeaderRetries == Dumping /\ Faults /\ UNCHANGED vars

\* The header is the one write whose error Dump returns, removing the file.
DumpHeaderFails ==
  /\ Dumping /\ Faults
  /\ disk' = NoFile
  /\ Exit("fatal")

\* The device fills up after the header.  The errors of the name and of the
\* data are dropped; writeZeros is fatal if there is padding left to write.
DumpBodyFails ==
  /\ Dumping /\ Faults /\ ~full
  /\ disk' = Append(disk, Torn)
  /\ \/ /\ cursor' = cursor + 1 /\ full' = TRUE
        /\ UNCHANGED <<pc, argc, cpio, merge, status, runs>>
     \/ Exit("fatal")

DumpDone == pc = "dump" /\ cursor > Len(cpio.keys)

DumpTrailer ==
  /\ DumpDone /\ ~full
  /\ disk' = Append(disk, EntryItem(Trailer, Zero))
  /\ Exit("dumped")

\* All errors of the trailer are dropped but that of its padding.
DumpTrailerFails ==
  /\ DumpDone /\ Faults
  /\ disk' \in {disk, IF full THEN disk ELSE Append(disk, Torn)}
  /\ Exit("dumped") \/ Exit("fatal")

\* The process is killed; in Dump, perhaps in the middle of an entry.
Crash ==
  /\ pc # "idle"
  /\ disk' \in {disk} \union
               (IF pc = "dump" /\ ~full THEN {Append(disk, Torn)} ELSE {})
  /\ Exit("killed")

Dump == BeginDump \/ DumpEntry \/ DumpHeaderFails \/ DumpBodyFails
          \/ DumpTrailer \/ DumpTrailerFails

Process == Command \/ MergeStep \/ MergeEnd \/ Dump

Next == Start \/ Process \/ Crash

Spec     == Init /\ [][Next]_vars
FairSpec == Spec /\ WF_vars(Process)

-----------------------------------------------------------------------------
TypeOK ==
  /\ disk \in Seq(Items) \union {NoFile}
  /\ pc \in {"idle", "run", "merge", "dump"}
  /\ argc \in 0..MaxCommands
  /\ IsArchive(cpio)
  /\ IsArchive(merge.orig)
  /\ merge = [orig |-> merge.orig, l |-> merge.l, r |-> merge.r,
              saved |-> merge.saved, rmlist |-> merge.rmlist,
              skip |-> merge.skip]
  /\ merge.l \in 1..(Len(LeftKeys) + 1)
  /\ merge.r \in 1..(Len(RightKeys) + 1)
  /\ IsEntryMap(merge.saved)
  /\ merge.rmlist \in Seq(Paths)
  /\ merge.skip \in BOOLEAN
  /\ cursor \in 0..(Len(cpio.keys) + 1)
  /\ full \in BOOLEAN
  /\ status \in Statuses
  /\ runs \in 0..MaxRuns

-----------------------------------------------------------------------------
(* Safety.                                                                 *)

\* Entries and Keys are kept side by side by a dozen assignments; an entry
\* that no key names would be skipped by Dump, Extract, Patch and Backup.
EntriesIndexed == Indexed(cpio) /\ Indexed(merge.orig)

\* LoadFromData makes of the file the first n keys of the archive c and their
\* entries, but for the names it skips.  A key without an entry comes back with
\* Go's zero entry.
Reloads(items, c, n) ==
  LET kept == Pick(c.keys, {i \in 1..n : c.keys[i] \notin DotNames \union {Trailer}})
  IN  LoadFromData(items) =
        [entries |-> [p \in Range(kept) |-> Lookup(c, p)], keys |-> kept]

\* The loader takes the data of a dot entry for the next header.
DotsEmpty(c) ==
  \A p \in DotNames \intersect Range(c.keys) : Lookup(c, p).data = Nothing

\* A run that exits 0 after Dump left a file from which the next run loads
\* what this one had in memory: Dump and LoadFromData agree on the format.
DumpRoundTrip ==
  [][status' = "dumped" /\ pc = "dump" /\ DotsEmpty(cpio) =>
       /\ ~LoadPanics(disk') /\ ~LoadFails(disk')
       /\ Reloads(disk', cpio, Len(cpio.keys))]_vars

\* However Dump is cut short, by a full device or a kill, the file never
\* holds a wrong entry: what a loader reads of it until it stops are the first
\* keys of the archive with the entries they had in memory.
PartialDumpAgrees ==
  [][pc = "dump" /\ disk' # NoFile =>
       \E n \in 0..Len(cpio.keys) : Reloads(disk', cpio, n)]_vars

InOrder(keys) ==
  \A i, j \in DOMAIN keys : i < j => Rank[keys[i]] <= Rank[keys[j]]

\* Backup walks two key lists in step and needs both sorted: once the keys
\* of an archive are in order, no command takes them out of it.
KeysStaySorted ==
  [][InOrder(cpio.keys) => InOrder(cpio.keys') \/ pc = "idle"]_vars

\* No name in N is listed twice.
Once(keys, N) ==
  \A i, j \in DOMAIN keys : keys[i] = keys[j] /\ keys[i] \in N => i = j

Exact(c) == IsInjective(c.keys) /\ Range(c.keys) = DOMAIN c.entries

\* A key without an entry (which Dump writes as an entry of mode 0) arises
\* only from an archive that lists some key twice, and from a restore that finds
\* no backup: that one empties the map, and not the list.
GhostsNeedDuplicates ==
  [][pc = "run" /\ Exact(cpio)
       => \/ Range(cpio.keys') \subseteq DOMAIN cpio.entries'
          \/ /\ RmListEmpty(cpio) /\ DOMAIN Backups(cpio) = {}
             /\ cpio.entries' = EmptyMap]_vars

Uncoated(d) == [d EXCEPT !.coats = <<>>]

\* .rmlist and the saved entries are enough to get ORIG back: drop what
\* .rmlist names and put the saved entries over the rest.
Recovers ==
  LET back == Overlay(Without(merge.saved, {BackupDir}),
                      Without(cpio.entries, Range(merge.rmlist)))
  IN  /\ DOMAIN back = DOMAIN merge.orig.entries
      /\ \A p \in DOMAIN back :
           Uncoated(back[p].data) = Uncoated(merge.orig.entries[p].data)

Merged == pc = "merge" /\ merge.l > Len(LeftKeys) /\ merge.r > Len(RightKeys)

\* After the loops of Backup the names and the data of ORIG can be recovered,
\* in whatever order the two archives list their entries.
BackupRecovers == Merged /\ Exact(merge.orig) /\ Exact(cpio) => Recovers

\* No more is backed up than needed: .rmlist names no entry of ORIG, and no
\* entry is saved that the archive still has with the same data.
Minimal ==
  /\ Range(merge.rmlist) \intersect Range(LeftKeys) = {}
  /\ \A p \in DOMAIN merge.saved \intersect DOMAIN cpio.entries :
       cpio.entries[p].data # merge.orig.entries[p].data

\* The two-way loop finds the difference of two archives with sorted keys.
BackupMinimal ==
  /\ Merged
  /\ InOrder(LeftKeys)  /\ Exact(merge.orig)
  /\ InOrder(RightKeys) /\ Exact(cpio)
  => Minimal

(* Liveness.                                                               *)

\* Every run of the tool ends: no command, merge or dump loop goes on for
\* ever, provided the process keeps running.
Terminates == pc # "idle" ~> pc = "idle"

-----------------------------------------------------------------------------
(* What the usage text and the comments say, and the code does not do.     *)

\* cpio.go:860 "Load cpio failed: %v": a file that is not an archive from its
\* first byte to its last is reported and not edited.
LoadErrorsReported ==
  [][pc = "idle" /\ pc' = "run" /\ disk # NoFile => ~LoadFails(disk)]_vars

\* cpio.go:86 "Apply ramdisk patches": without KEEPVERITY no fstab entry has
\* its verity flags afterwards.
PatchRemovesVerity ==
  [][\A cmd \in Commands :
       CmdPatch(cmd) /\ ~cmd.keepVerity /\ pc' = "run" =>
         \A p \in DOMAIN cpio.entries' \intersect FstabNames :
           LET d == cpio.entries'[p].data
           IN  d.coats = <<>> /\ d.base.form = "fstab" => ~d.base.verity]_vars

\* cpio.go:765 "Backup [%s] -> [%s]" (to ".backup/" + name): what Backup adds
\* to the archive is below .backup.
BackupStaysBelow ==
  [][pc = "merge" /\ pc' = "run" =>
       \A p \in DOMAIN cpio.entries' \ DOMAIN cpio.entries :
         p = BackupDir \/ p \in Below(BackupDir)]_vars
=============================================================================
