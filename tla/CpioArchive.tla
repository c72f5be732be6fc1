---------------------------- MODULE CpioArchive ----------------------------
(***************************************************************************)
(* The cpio archive of cpio.go as data: the file image that LoadFromData   *)
(* parses and Dump writes, the Cpio struct (a map Entries and a list Keys  *)
(* that the code keeps side by side), and the operations on it.            *)
(*                                                                         *)
(* A path is the sequence of its components, so "has prefix p/" is the     *)
(* strict-prefix relation.  The order of Go strings is given by the        *)
(* constant PathOrder, which lists every name of an instance in byte order.*)
(* The paths an instance enumerates are clean, without a leading '/', so   *)
(* that norm_path (cpio.go:154) leaves them as they are.                   *)
(*                                                                         *)
(* Permission bits, owners and device numbers are left out.  A payload is  *)
(* a base (its bytes before compression) under xz coats, a coat being      *)
(* "whole" (a complete xz stream) or "cut" (a stream without its end).     *)
(*                                                                         *)
(* Operators whose comment says "Mutant" are not used by the model: each   *)
(* is a mistake that a property finds when it takes the place of the       *)
(* definition after it.                                                    *)
(***************************************************************************)
EXTENDS Integers, FiniteSets, Sequences, SequencesExt

CONSTANTS
  PathOrder,   \* the names of the instance, in byte order
  Texts,       \* plain contents of files and symlinks
  XzStem,      \* [component ending in ".xz" |-> the component without it]
  FstabNames   \* the names that start with "fstab"

BackupDir  == <<".backup">>
RmListName == <<".backup", ".rmlist">>
MagiskName == <<".backup", ".magisk">>
VerityKey  == <<"verity_key">>
Trailer    == <<"TRAILER!!!">>
DotNames   == {<<".">>, <<"..">>}

Paths == Range(PathOrder)
Rank  == AntiFunction(PathOrder)

\* The paths below p: those with the prefix p + "/".
Below(p) == {q \in Paths : IsStrictPrefix(p, q)}

EndsInXz(p) == p # <<>> /\ p[Len(p)] \in DOMAIN XzStem
Stem(p)     == [p EXCEPT ![Len(p)] = XzStem[@]]

\* The members of a backup: what Restore moves back out of .backup/.
Members == Below(BackupDir) \ {RmListName, MagiskName}

ASSUME PathsAssumption ==
  /\ PathOrder \in Seq(Seq(STRING))
  /\ IsInjective(PathOrder)
  /\ {BackupDir, RmListName} \subseteq Paths
  /\ FstabNames \subseteq Paths
  /\ \A p \in Members :
       /\ Tail(p) \in Paths
       /\ EndsInXz(p) => Tail(Stem(p)) \in Paths

-----------------------------------------------------------------------------
(* Entries and payloads. *)

Kinds == {"reg", "dir", "lnk", "blk", "chr", "none"}

Bases ==
  [form : {"empty"}]
    \union [form : {"text"}, text : Texts]
    \union [form : {"names"}, names : Seq(Paths) \ {<<>>}]
    \union [form : {"fstab"}, verity : BOOLEAN, crypt : BOOLEAN,
            short : BOOLEAN]    \* short: some line has exactly four fields

Payloads == [base : Bases, coats : Seq({"whole", "cut"})]
Entries  == [kind : Kinds, data : Payloads]

Raw(base) == [base |-> base, coats |-> <<>>]
Nothing   == Raw([form |-> "empty"])
NameList(names) == Raw([form |-> "names", names |-> names])

\* Go's zero CpioEntry, what indexing the map yields for a missing key.
Zero == [kind |-> "none", data |-> Nothing]

DirEntry    == [kind |-> "dir", data |-> Nothing]
SymLink(t)  == [kind |-> "lnk", data |-> Raw([form |-> "text", text |-> t])]
RegEntry(d) == [kind |-> "reg", data |-> d]

\* What Add stores of a host file.  Go sets os.ModeDevice on character
\* devices too, so both kinds become block devices.
Added(kind, data) ==
  IF kind = "reg" THEN RegEntry(data) ELSE [kind |-> "blk", data |-> Nothing]

\* Xz reads the buffer before the deferred Close has completed the stream.
Compress(e) ==
  IF e.kind = "reg" THEN [e EXCEPT !.data.coats = Append(@, "cut")] ELSE e

Decompresses(e) ==
  /\ e.kind = "reg"
  /\ e.data.coats # <<>>
  /\ e.data.coats[Len(e.data.coats)] = "whole"

Decompress(e) ==
  IF Decompresses(e)
  THEN [e EXCEPT !.data.coats = SubSeq(@, 1, Len(@) - 1)]
  ELSE e

-----------------------------------------------------------------------------
(* Ordering.  Enumerate lists a finite set by a key; the two list          *)
(* operations below are defined from it.                                   *)

Enumerate(S, key) ==
  [k \in 1..Cardinality(S) |->
     CHOOSE i \in S : Cardinality({j \in S : key[j] <= key[i]}) = k]

\* The elements of s at the positions in I, in order.
Pick(s, I) ==
  LET e == Enumerate(I, [i \in I |-> i])
  IN  [k \in 1..Cardinality(I) |-> s[e[k]]]

\* sort.Strings.
SortKeys(s) ==
  LET e == Enumerate(DOMAIN s,
                     [i \in DOMAIN s |-> Rank[s[i]] * (Len(s) + 1) + i])
  IN  [k \in 1..Cardinality(DOMAIN s) |-> s[e[k]]]

\* The keys of a Go map, in one order; the code sorts them afterwards.
KeysOf(m) == Enumerate(DOMAIN m, Rank)

Overlay(m, n) ==
  [p \in DOMAIN m \union DOMAIN n |-> IF p \in DOMAIN m THEN m[p] ELSE n[p]]

Without(m, S) == Restrict(m, DOMAIN m \ S)

EmptyMap == [p \in {} |-> Zero]

-----------------------------------------------------------------------------
(* The Cpio struct. *)

NewCpio == [entries |-> EmptyMap, keys |-> <<>>]

\* c.Entries[p]
Lookup(c, p) == IF p \in DOMAIN c.entries THEN c.entries[p] ELSE Zero

IsEntryMap(m) == m \in [DOMAIN m -> Entries] /\ DOMAIN m \subseteq Paths

IsArchive(c) ==
  /\ c = [entries |-> c.entries, keys |-> c.keys]
  /\ IsEntryMap(c.entries)
  /\ c.keys \in Seq(Paths)

\* Every entry of the map is on the list that Dump and Extract go through.
Indexed(c) == DOMAIN c.entries \subseteq Range(c.keys)

\* Mutant: the list is not sorted again.
InsertUnsorted(c, m) ==
  [entries |-> Overlay(m, c.entries), keys |-> c.keys \o KeysOf(m)]

\* Adding a batch of entries to the map and their names to the sorted list.
Insert(c, m) ==
  [entries |-> Overlay(m, c.entries),
   keys    |-> SortKeys(c.keys \o KeysOf(m))]

addEntry(c, p, e) == Insert(c, [q \in {p} |-> e])

\* Mutant: the entry stays in the map.
removeEntriesKeepsEntry(c, S) ==
  [c EXCEPT !.keys = SelectSeq(@, LAMBDA p : p \notin S)]

\* Mutant: the key stays in the list.
removeEntriesKeepsKey(c, S) == [c EXCEPT !.entries = Without(@, S)]

\* Each entry of S that exists leaves the map, and the first key that
\* spells it leaves the list.
removeEntries(c, S) ==
  LET gone   == S \intersect DOMAIN c.entries
      firsts == {i \in DOMAIN c.keys :
                   /\ c.keys[i] \in gone
                   /\ \A j \in 1..(i - 1) : c.keys[j] # c.keys[i]}
  IN  [entries |-> Without(c.entries, gone),
       keys    |-> Pick(c.keys, DOMAIN c.keys \ firsts)]

Rm(c, p, recursive) ==
  removeEntries(c, {p} \union (IF recursive THEN Below(p) ELSE {}))

Mv(c, from, to) ==
  addEntry([entries |-> Without(c.entries, {from}),
            keys    |-> Pick(c.keys, {i \in DOMAIN c.keys : c.keys[i] # from})],
           to, Lookup(c, from))

\* `extract ENTRY OUT` names one entry; `extract ENTRY` means all of them.
Extracted(c, p, out) ==
  IF out THEN {p} ELSE Range(c.keys) \ DotNames

\* extractEntry knows no type for a key whose entry is gone, and its case
\* S_IFBLK|S_IFCHR is S_IFBLK.
Extractable(c, p) ==
  p \in Range(c.keys) /\ Lookup(c, p).kind \in {"dir", "reg", "lnk", "blk"}

-----------------------------------------------------------------------------
(* The file image: a sequence of items.  An "entry" item is a header with  *)
(* its name and data, "junk" a stretch of bytes that does not start with   *)
(* the newc magic, "torn" an item cut short by the end of the file.        *)

EntryItem(p, e) == [tag |-> "entry", name |-> p, entry |-> e]
Junk == [tag |-> "junk"]
Torn == [tag |-> "torn"]

Items ==
  [tag : {"entry"}, name : Paths \union {Trailer}, entry : Entries]
    \union [tag : {"junk", "torn"}]

IsTrailer(item) == item.tag = "entry" /\ item.name = Trailer

\* Where LoadFromData stops: at a slice beyond the end; at bytes without the
\* magic, unless a trailer made it search for the next magic; after the name
\* of a dot entry that has data, which it takes for the next header.
Stops(items) ==
  {i \in DOMAIN items :
     \/ items[i].tag = "torn"
     \/ /\ items[i].tag = "junk"
        /\ i > 1 => items[i - 1].tag = "entry" /\ ~IsTrailer(items[i - 1])
     \/ /\ items[i].tag = "entry" /\ items[i].name \in DotNames
        /\ items[i].entry.data # Nothing}

\* Mutant: the trailer is an entry as well.
AcceptedTrailer(items) ==
  {i \in DOMAIN items :
     /\ items[i].tag = "entry"
     /\ items[i].name \notin DotNames
     /\ \A s \in Stops(items) : i < s}

\* The items LoadFromData turns into entries.
Accepted(items) ==
  {i \in DOMAIN items :
     /\ items[i].tag = "entry"
     /\ items[i].name \notin DotNames \union {Trailer}
     /\ \A s \in Stops(items) : i < s}

\* A slice beyond the end panics, the other stops return an error.
LoadPanics(items) ==
  \E s \in Stops(items) :
    items[s].tag = "torn" /\ \A t \in Stops(items) : s <= t

LoadFails(items) == Stops(items) # {} /\ ~LoadPanics(items)

LoadFromData(items) ==
  LET named(p) == {i \in Accepted(items) : items[i].name = p}
      last(p)  == CHOOSE i \in named(p) : \A j \in named(p) : j <= i
      names    == {items[i].name : i \in Accepted(items)}
  IN  [entries |-> [p \in names |-> items[last(p)].entry],
       keys    |-> Pick([i \in DOMAIN items |->
                           IF i \in Accepted(items) THEN items[i].name ELSE <<>>],
                        Accepted(items))]

-----------------------------------------------------------------------------
(* patch, test and restore. *)

\* The list positions Patch visits.  It ranges over the old list while Rm
\* shifts that list in place, so the name after verity_key is passed over.
PatchVisits(c, keepVerity) ==
  {i \in DOMAIN c.keys :
     ~(/\ ~keepVerity /\ i > 1
       /\ c.keys[i - 1] = VerityKey /\ VerityKey \in DOMAIN c.entries
       /\ \A j \in 1..(i - 2) : c.keys[j] # VerityKey)}

\* patchFstab indexes a fifth field on a line that has four.
PatchPanics(c, keepVerity, keepEncrypt) ==
  /\ ~keepVerity \/ ~keepEncrypt
  /\ \E i \in PatchVisits(c, keepVerity) :
       LET e == Lookup(c, c.keys[i])
       IN  /\ c.keys[i] \in FstabNames
           /\ e.kind = "reg"
           /\ e.data.coats = <<>>
           /\ e.data.base.form = "fstab"
           /\ e.data.base.short

\* The patched fstab is assigned to a copy of the entry and lost.
Patch(c, keepVerity) ==
  IF ~keepVerity /\ VerityKey \in Range(c.keys)
  THEN Rm(c, VerityKey, FALSE)
  ELSE c

UnsupportedNames ==
  {<<"sbin", "launch_daemonsu.sh">>, <<"sbin", "su">>, <<"init.xposed.rc">>,
   <<"boot", "sbin", "launch_daemonsu.sh">>}

MagiskNames ==
  {MagiskName, <<"init.magisk.rc">>, <<"overlay", "init.magisk.rc">>}

Test(c) ==
  IF Range(c.keys) \intersect UnsupportedNames # {} THEN "2"
  ELSE IF Range(c.keys) \intersect MagiskNames # {} THEN "1"
  ELSE "0"

\* The names Restore reads from .backup/.rmlist, and whether it read any byte.
RmListed(c) ==
  LET d == Lookup(c, RmListName).data
  IN  IF d.base.form = "names" /\ d.coats = <<>> THEN Range(d.base.names) ELSE {}

RmListEmpty(c) ==
  \/ RmListName \notin Range(c.keys)
  \/ Lookup(c, RmListName).data = Nothing

\* Mutant: only the directory is cut off.
NewNameKeepsSuffix(c, p) == Tail(p)

NewName(c, p) ==
  IF EndsInXz(p) /\ Decompresses(Lookup(c, p)) THEN Tail(Stem(p)) ELSE Tail(p)

\* What Restore brings back; of two members with one new name the later wins.
Backups(c) ==
  LET members  == {i \in DOMAIN c.keys : c.keys[i] \in Members}
      named(n) == {i \in members : NewName(c, c.keys[i]) = n}
      last(n)  == c.keys[CHOOSE i \in named(n) : \A j \in named(n) : j <= i]
  IN  [n \in {NewName(c, c.keys[i]) : i \in members} |->
         IF EndsInXz(last(n)) THEN Decompress(Lookup(c, last(n)))
                              ELSE Lookup(c, last(n))]

Restore(c) ==
  LET kept == Rm(c, BackupDir, FALSE)
  IN  IF RmListEmpty(c) /\ DOMAIN Backups(c) = {}
      THEN [kept EXCEPT !.entries = EmptyMap]
      ELSE Insert(removeEntries(kept, RmListed(c)), Backups(c))

\* Decompress inspects the head of the data without checking its length.
RestoreMayPanic(c) ==
  \E p \in Range(c.keys) \intersect Members :
    EndsInXz(p) /\ Lookup(c, p).kind = "reg" /\ Lookup(c, p).data.coats = <<>>

RestoreMustPanic(c) ==
  \E p \in Range(c.keys) \intersect Members :
    EndsInXz(p) /\ Lookup(c, p).kind = "reg" /\ Lookup(c, p).data = Nothing

-----------------------------------------------------------------------------
(* The backup that Restore undoes, as its names and suffixes tell.         *)

Member(p, xz) ==
  CHOOSE q \in Members :
    IF xz THEN EndsInXz(q) /\ Tail(Stem(q)) = p ELSE q = BackupDir \o p

\* A ramdisk r with a backup of the ramdisk o: the names r has and o has not
\* are in .rmlist, the entries of o that r lacks or changed are members.
BackedUp(o, r, xz) ==
  LET new     == Restrict(Rank, DOMAIN r \ DOMAIN o)
      lost    == {p \in DOMAIN o : p \in DOMAIN r => r[p].data # o[p].data}
      coat(p) == xz /\ o[p].kind = "reg"
      members == [q \in {Member(p, coat(p)) : p \in lost} |->
                    LET p == CHOOSE p \in lost : q = Member(p, coat(p))
                    IN  IF coat(p)
                        THEN [o[p] EXCEPT !.data.coats = Append(@, "whole")]
                        ELSE o[p]]
      rmlist  == [q \in IF new = <<>> THEN {} ELSE {RmListName} |->
                    RegEntry(NameList(KeysOf(new)))]
  IN  Insert(NewCpio,
             Overlay(Overlay([q \in {BackupDir} |-> DirEntry], rmlist),
                     Overlay(members, r)))
=============================================================================
