---------------------------- MODULE CpioExtract -----------------------------
(***************************************************************************)
(* `cpio <incpio> "extract [ENTRY [OUT]]"` (cpio.go: Extract,              *)
(* extractEntry, and their case of CpioCommands): what becomes of the      *)
(* directory that the entries are written to.  A run is one such command;  *)
(* module Cpio has the rest of a session, and of extract only whether the  *)
(* session goes on.                                                        *)
(*                                                                         *)
(* The directory is a tree: a map from paths to nodes.  A link that is     *)
(* there leads out of the tree: what is written through it, or to a device,*)
(* is not in the model, and no name is below one.  Modes are left out.     *)
(***************************************************************************)
EXTENDS CpioArchive

CONSTANTS
  Archives,   \* the archives that sessions come to
  Trees,      \* the directories before the first run
  Operands,   \* the words after `extract`
  MaxRuns     \* bound: runs of the tool

\* The directories above a path, without the current one, and the one it is in.
Ancestors(p) == {SubSeq(p, 1, n) : n \in 1 .. Len(p) - 1}
Parent(p)    == SubSeq(p, 1, Len(p) - 1)

ASSUME ExtractAssumption ==
  /\ \A c \in Archives : IsArchive(c)
  /\ \A t \in Trees :
       /\ IsEntryMap(t)
       /\ \A p \in DOMAIN t :
            Parent(p) = <<>> \/ (Parent(p) \in DOMAIN t /\ t[Parent(p)].kind = "dir")
  /\ \A w \in Operands : w \in Seq(Paths)
  /\ MaxRuns \in Nat
  /\ \A p \in Paths : p # <<>> /\ Ancestors(p) \subseteq Paths
  /\ \A m \in Trees \union {c.entries : c \in Archives} : \A p \in DOMAIN m :
       m[p].kind = "lnk" => \A q \in Paths : p \notin Ancestors(q)

VARIABLES
  tree,      \* the directory
  cpio,      \* the archive of the run
  operands,  \* its words
  pos,       \* where Extract is in c.Keys
  pc,        \* where extractEntry is; "idle" between two runs
  status,    \* how the last run ended
  runs,      \* runs so far
  before,    \* the directory before the run (a history variable)
  refused    \* the host refused something of its own accord (likewise)

run  == <<cpio, operands, runs, before>>
vars == <<tree, cpio, operands, pos, pc, status, runs, before, refused>>

\* Extract: two operands name an entry and a file, one means all entries.
All   == Len(operands) = 1
Count == IF All THEN Len(cpio.keys) ELSE 1

NameAt(i) == IF All THEN cpio.keys[i] ELSE operands[1]
OutAt(i)  == IF All THEN cpio.keys[i] ELSE operands[2]

Name  == NameAt(pos)
Out   == OutAt(pos)
Entry == Lookup(cpio, Name)

IsDir(p) == p = <<>> \/ (p \in DOMAIN tree /\ tree[p].kind = "dir")

\* What os.Stat of a path says is missing: its first part that is not there,
\* if it is in a directory.
Missing(p) == {a \in Ancestors(p) \ DOMAIN tree : IsDir(Parent(a))}

With(p, e) == Overlay([q \in {p} |-> e], tree)

\* It may refuse any operation, or a write: the disk is full.
Refused  == refused' = TRUE
NoFault  == UNCHANGED refused

Goto(p) == pc' = p /\ UNCHANGED <<status, pos>>
Exit(s) == pc' = "idle" /\ status' = s /\ UNCHANGED pos

\* What extractEntry makes of an entry.  The mode that mknod gets has no type
\* bits, and without them Linux makes an empty file, not a device.
NodeOf(e) ==
  CASE e.kind \in {"reg", "lnk"} -> e
    [] e.kind = "dir"            -> DirEntry
    [] OTHER                     -> RegEntry(Nothing)

Init ==
  /\ tree \in Trees /\ before = tree /\ refused = FALSE
  /\ cpio = NewCpio /\ operands = <<>>
  /\ pos = 1 /\ pc = "idle" /\ status = "none" /\ runs = 0

\* The case "extract": without operands it does nothing.
Start ==
  /\ pc = "idle" /\ runs < MaxRuns /\ runs' = runs + 1
  /\ cpio' \in Archives /\ operands' \in Operands
  /\ UNCHANGED tree /\ pos' = 1 /\ before' = tree /\ refused' = FALSE
  /\ IF operands' = <<>> THEN UNCHANGED pc /\ status' = "done"
     ELSE pc' = "next" /\ UNCHANGED status

\* Mutant: an entry that cannot be made is passed over.
DoneOrFailed(ok) == pc' = "next" /\ pos' = pos + 1 /\ UNCHANGED status

\* Mutant: the loop passes over the entry after the one it has done.
ReturnAndSkip(ok) ==
  IF ok THEN pc' = "next" /\ pos' = pos + 2 /\ UNCHANGED status
  ELSE Exit("fatal")

\* extractEntry returns; Extract goes on, or the error is fatal.
Return(ok) ==
  IF ok THEN pc' = "next" /\ pos' = pos + 1 /\ UNCHANGED status
  ELSE Exit("fatal")

\* Extract's loop, and the beginning of extractEntry.
NextEntry ==
  /\ pc = "next" /\ UNCHANGED <<tree, run, refused>>
  /\ IF pos > Count THEN Exit("done")
     ELSE IF All /\ Name \in DotNames THEN Return(TRUE)
     ELSE IF Name \notin Range(cpio.keys) THEN Exit("fatal")
     ELSE Goto("parents")

\* Mutant: no directories are made.
MkdirNothing == pc = "parents" /\ UNCHANGED <<tree, run, refused>> /\ Goto("make")

\* os.MkdirAll, one directory a step; it is the entry's directory, also where
\* OUT is another one.  Its error is dropped.
MkdirAll ==
  /\ pc = "parents" /\ UNCHANGED run
  /\ \/ \E a \in Missing(Name) : tree' = With(a, DirEntry) /\ Goto("parents") /\ NoFault
     \/ Missing(Name) = {} /\ UNCHANGED tree /\ Goto("make") /\ NoFault
     \/ Missing(Name) # {} /\ UNCHANGED tree /\ Goto("make") /\ Refused

\* Mutant: what is there is removed.
MakeOver ==
  /\ pc = "make" /\ UNCHANGED run
  /\ Entry.kind \in {"dir", "lnk", "blk"}
  /\ IF IsDir(Parent(Out)) THEN tree' = With(Out, NodeOf(Entry)) /\ Return(TRUE)
     ELSE UNCHANGED tree /\ Return(FALSE)
  /\ NoFault

\* os.Mkdir, os.Symlink and unix.Mknod: the name must be free.
Make ==
  /\ pc = "make" /\ UNCHANGED run
  /\ Entry.kind \in {"dir", "lnk", "blk"}
  /\ \/ /\ IsDir(Parent(Out)) /\ Out \notin DOMAIN tree
        /\ tree' = With(Out, NodeOf(Entry)) /\ Return(TRUE) /\ NoFault
     \/ /\ ~IsDir(Parent(Out)) \/ Out \in DOMAIN tree
        /\ UNCHANGED tree /\ Return(FALSE) /\ NoFault
     \/ UNCHANGED tree /\ Return(FALSE) /\ Refused

\* What os.Create opens is a file of the tree.
InTree == Out \in DOMAIN tree => tree[Out].kind = "reg"

\* os.Create: a file that is there is cut.
Create ==
  /\ pc = "make" /\ UNCHANGED run
  /\ Entry.kind = "reg"
  /\ \/ /\ IsDir(Parent(Out)) /\ ~IsDir(Out)
        /\ tree' = (IF InTree THEN With(Out, RegEntry(Nothing)) ELSE tree)
        /\ Goto("write") /\ NoFault
     \/ /\ ~IsDir(Parent(Out)) \/ IsDir(Out)
        /\ UNCHANGED tree /\ Return(FALSE) /\ NoFault
     \/ UNCHANGED tree /\ Return(FALSE) /\ Refused

\* One call of file.Write, which may write a part.
Write ==
  /\ pc = "write" /\ UNCHANGED run
  /\ \/ /\ tree' = (IF InTree THEN With(Out, Entry) ELSE tree)
        /\ Return(TRUE) /\ NoFault
     \/ UNCHANGED tree /\ Return(FALSE) /\ Refused

\* A key without an entry, a character device: "unknow entry type".
Unknown ==
  /\ pc = "make" /\ UNCHANGED <<tree, run, refused>>
  /\ Entry.kind \notin {"dir", "lnk", "blk", "reg"} /\ Return(FALSE)

Killed == pc # "idle" /\ Exit("killed") /\ UNCHANGED <<tree, run, refused>>

Step == NextEntry \/ MkdirAll \/ Make \/ Create \/ Write \/ Unknown

Next == Start \/ Step \/ Killed

Spec == Init /\ [][Next]_vars

-----------------------------------------------------------------------------
(***************************************************************************)
(* Properties.                                                             *)
(***************************************************************************)

\* The variables have their types, and every node is in a directory.
TypeOK ==
  /\ IsEntryMap(tree) /\ \A p \in DOMAIN tree : IsDir(Parent(p))
  /\ IsArchive(cpio) /\ operands \in Seq(Paths)
  /\ pc \in {"idle", "next", "parents", "make", "write"}
  /\ pos \in 1 .. Count + 1
  /\ status \in {"none", "done", "fatal", "killed"} /\ runs \in 0 .. MaxRuns
  /\ refused \in BOOLEAN

\* What is at `out` is what the archive has of p; data that were written
\* through a link or to a device are not in the tree.
There(p, out) ==
  /\ out \in DOMAIN tree
  /\ \/ tree[out] = NodeOf(Lookup(cpio, p))
     \/ Lookup(cpio, p).kind = "reg" /\ tree[out].kind \notin {"reg", "dir"}

\* At every moment, and where a run has ended or was killed, the entries before
\* the one in hand are there as they are in the archive: no error is passed
\* over, and no later entry changes an earlier one.  (The one in hand may be a
\* second key of its name.)  And a run ends well only where module Cpio says
\* that the session may go on.
PassedAreThere ==
  /\ \A i \in 1 .. pos - 1 :
       \/ All /\ NameAt(i) \in DotNames
       \/ There(NameAt(i), OutAt(i))
       \/ pos <= Count /\ OutAt(i) = Out
  /\ pc = "idle" /\ status = "done" /\ operands # <<>> =>
       \A p \in Extracted(cpio, operands[1], ~All) : Extractable(cpio, p)

\* Nothing stands in the way of the entries: the list names each once, after
\* its directory if that is an entry, and the old tree has none of them.
Fresh ==
  /\ IsInjective(cpio.keys) /\ Range(cpio.keys) = DOMAIN cpio.entries
  /\ \A i \in DOMAIN cpio.keys :
       LET p == cpio.keys[i] IN
       /\ Extractable(cpio, p) /\ p \notin DOMAIN before \union DotNames
       /\ \A a \in Ancestors(p) :
            /\ a \in DOMAIN before => before[a].kind = "dir"
            /\ \A j \in DOMAIN cpio.keys :
                 cpio.keys[j] = a => j < i /\ Lookup(cpio, a).kind = "dir"

\* Then extract does not fail, and the tree has, besides what it had, the
\* entries and the directories above them.
FreshIsExact ==
  All /\ Fresh /\ ~refused =>
    /\ pc = "idle" => status \in {"done", "killed"}
    /\ pc = "idle" /\ status = "done" =>
         LET keys   == Range(cpio.keys)
             above  == UNION {Ancestors(p) : p \in keys}
         IN  /\ DOMAIN tree = UNION {DOMAIN before, keys, above}
             /\ \A p \in keys : tree[p] = NodeOf(cpio.entries[p])
             /\ \A p \in above \ (keys \union DOMAIN before) : tree[p] = DirEntry
             /\ \A p \in DOMAIN before : tree[p] = before[p]

\* What a run may change: the file that is written, if it is one, and names
\* that are free.  (Besides OUT they are the directories above ENTRY.)
OnlyFilesAreReplaced ==
  [][/\ \A p \in DOMAIN tree :
          /\ p \in DOMAIN tree'
          /\ tree'[p] # tree[p] => p = Out /\ tree[p].kind = "reg"
     /\ \A p \in DOMAIN tree' \ DOMAIN tree : p = Out \/ p \in Ancestors(Name)]_vars
=============================================================================
