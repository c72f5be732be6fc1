---------------------------- MODULE CpioRamdisk -----------------------------
(***************************************************************************)
(* Cpio implements Ramdisk: the stored map is what LoadFromData reads from *)
(* the file, the working copy is the map Entries of the process.           *)
(*                                                                         *)
(* PlainSessions says for which images and commands it does.               *)
(***************************************************************************)
EXTENDS Cpio

\* The names that rm and patch take off the list, one key for one entry.
Removable ==
  {p \in Paths \union {VerityKey} : \E cmd \in Commands :
     \/ cmd.verb = "rm" /\ p = cmd.path
     \/ cmd.verb = "rm" /\ cmd.recursive /\ p \in Below(cmd.path)
     \/ cmd.verb = "patch" /\ ~cmd.keepVerity /\ p = VerityKey}

\* The names under which commands put an entry, on the list once more.
Targets ==
  {cmd.path : cmd \in {c \in Commands : c.verb \in {"mkdir", "ln", "add"}}}
    \union {cmd.to : cmd \in {c \in Commands : c.verb = "mv"}}

\* The sessions in which the list of keys is of no account: the device does not
\* fill up, backup and restore (edits of several entries at once) are not given,
\* no name that may be removed is ever listed twice (a second key survives its
\* entry), and none is put that a loader skips.
PlainSessions ==
  /\ ~Faults
  /\ \A cmd \in Commands : cmd.verb \notin {"backup", "restore"}
  /\ Targets \intersect (Removable \union DotNames \union {Trailer}) = {}
  /\ \A image \in Images \ {NoFile} : Once(LoadFromData(image).keys, Removable)

\* The entries that the images and the commands of an instance bring in.
Brought ==
  {Zero, DirEntry}
    \union {SymLink(t) : t \in Texts}
    \union {item.entry : item \in
              {i \in UNION {Range(image) : image \in Images \ {NoFile}} :
                 i.tag = "entry"}}
    \union {Added(cmd.infile.kind, cmd.infile.data) :
              cmd \in {c \in Commands : c.verb = "add"}}

Contents(image) ==
  IF image = NoFile THEN EmptyMap ELSE LoadFromData(image).entries

R == INSTANCE Ramdisk WITH
  Names   <- Paths,
  Values  <- Brought,
  Default <- Zero,
  Initial <- {Contents(image) : image \in Images},
  stored  <- Contents(disk),
  work    <- cpio.entries,
  phase   <- IF pc = "idle" THEN "closed"
             ELSE IF pc = "dump" THEN "saving" ELSE "open",
  success <- status = "dumped"

\* A run of the tool is a session on the ramdisk: what its commands do to the
\* two parallel structures of the Cpio struct and what Dump and LoadFromData
\* do to the file are edits, saves and losses of one map.
RefinesRamdisk == R!RSpec
=============================================================================
