# A verification development of magiskboot_go

magiskboot_go is a Go port of Magisk's `magiskboot`, the command line tool that takes Android boot
images apart. This directory holds TLA+ models of the parts of it that read and change files, the
TLC configurations that check them on small instances, and proofs, checked by TLAPS, of what matters
most. Line numbers refer to `src/`.

Run, in this directory:

    tlc -workers 2 -config cpio_session.cfg MCCpio.tla        # any run listed below
    tlapm CpioProofs.tla                                      # any module named *Proofs, SetLemmas

## 1. The system

One process per command line, no threads, no network. Whatever survives between two runs is in the
host's files. The difficulty is elsewhere: files are rewritten in place or removed after they were
replaced, most errors leave through `log.Fatal`, a panic or `os.Exit` in the middle of a function,
many errors are dropped, and several data structures and positions are kept side by side by hand.

| part | code | state | operations | modelled by |
|---|---|---|---|---|
| cpio archive | `cpio.go` 154-845 | map `Entries`, list `Keys`, the file | load, dump, rm, mkdir, ln, mv, add, patch, test, restore, backup, exists | `CpioArchive`, `Cpio` |
| cpio session | `cpio.go` 847-980 | arguments left, exit code | one per command word; exits without Dump | `Cpio`, abstractly `Ramdisk` |
| cpio extract onto the host | `cpio.go` 340-398 | place in `Keys`, the host's directory | mkdir, create, write, symlink, mknod | `CpioExtract` |
| cpio ls, formatting | `cpio.go` 400-, 540- | - | print | only that `ls` ends the session |
| compress, decompress | `compress.go` 192-372 | IN, OUT, position, encoder or decoder | open, create, copy, close, remove | `Transcode` |
| codecs | `compress.go` 26-190, libraries | buffered data | write, close, read | layers in `Transcode`, coats in `CpioArchive` |
| xz of cpio members | `compress.go` 395-432 | - | Xz, Unxz | coats in `CpioArchive` |
| format detection | `format.go` | - | CheckFmt, Fmt2Ext, Name2Fmt | operators of `Transcode`, `SplitDtb`, `Payload` |
| fstab patches | `patch.go` 1-100 | the lines of a file | drop flags | effect and panic, in `CpioArchive` |
| hexpatch | `patch.go` 100-141 | a writable mapping of a file | scan and replace | `HexPatch` |
| payload.bin | `payload.go` | reader position, offset kept by hand, OUT | check, choose a partition, apply operations | `Payload` |
| payload manifest | `chromeos_update_engine/` | slices and indices of nested calls | Unmarshal, skip unknown fields, Marshal, Size | `ManifestTypes`, `Manifest`, `ManifestMarshal`, `ManifestMerge` |
| kernel/DTB split | `bootimg.go` 800-914 | search positions, two files | find the DTB, write both | `SplitDtb` |
| dispatcher, cleanup, sha1 | `magiskboot.go` | which part comes next | compare words, remove fixed names, read | `Workdir` |
| boot image headers | `bootimg.go` 1-780 | raw headers | field views | not modelled; nothing calls them |
| stubs | `stub/` | - | system calls | what they do, where they are called |

**How the parts interact.** `Main` calls exactly one of them per process. Inside the cpio part,
`CpioCommands` keeps one `Cpio` struct and hands it to one method per argument; `Backup` loads a
second archive and walks both key lists in step; `Backup` and `Restore` call `Xz` and `Unxz`;
`Patch` calls the fstab functions. `ExtractBootFromPayload` has the generated decoder make the
manifest and trusts what it returns; it, the transcoder and split share the format detection and
the decoders. All of them share the host's file system, through which a run meets the leftovers of
earlier, perhaps killed, runs: what split makes is what hexpatch changes and cleanup removes.

**What is hard.** (a) `Entries` and `Keys` must list the same archive after every sequence of
commands, although `removeByValue` takes only one of several equal keys out (310) and loops range
over lists that the loop body shortens (651-656). (b) `Dump` truncates the only copy of the archive
before it writes (251) and looks at one of its four kinds of write errors (279-307). (c) `Dump` and
`LoadFromData` must agree on a format that other tools write too: concatenated archives, trailers,
dot entries, padding. (d) The merge of `Backup` is right only for sorted lists. (e) `compress`
removes its input. (f) `extract` of a payload only moves forwards, by relative seeks, and keeps its
position in a variable (payload.go 147-160). (g) The decoder of the manifest computes with lengths
it has just read, in integers that wrap. (h) A cpio `extract` stops at the first failure with
everything before it on the host. (i) hexpatch looks again at what it has written. (j) Several
search loops may not end. (k) Most calls of the host whose errors are dropped do less when they fail,
and the run goes on: `split` cuts a part (bootimg.go 803), `extract` of a payload writes zeros for
what it could not read (payload.go 159), `cleanup` leaves a part (magiskboot.go 170), and all three
exit 0. PROJECT.json lists every hazard at its line with the properties that
watch it.

**What makes each part correct.**

* *archive*: no command, load or merge loses an entry from the list; what `Dump` writes is what
  `LoadFromData` reads; a file that a failing or killed `Dump` leaves holds no wrong entry; keys
  stay sorted; a backup contains what is needed to get the original back, and no more;
  `restore` undoes `backup`.
* *session*: a run is a transaction on one map that is saved as a whole or (with luck) not at all;
  every run ends.
* *extract onto the host*: no failure is passed over; nothing that was there is lost but a file
  that is written; into a directory where nothing is in the way the archive comes out whole.
* *transcoding*: the input is removed only when the output holds its data; success means an exact
  result; every run ends.
* *payload*: as long as no failure goes unseen, the reader is where the position kept by hand says and
  OUT is what the operations make of it, in whatever order; a payload that is refused leaves an old
  OUT alone.
* *manifest*: no length takes an index out of its slice; Unmarshal undoes Marshal; unknown fields
  are skipped whole; a cut is noticed; each step leaves less to do, and decoding ends.
* *split*: the two files are the parts of one image, also when a run is killed; the search ends.
* *hexpatch*: exactly the matches are replaced; no other file is touched.
* *cleanup*: what split makes is gone, whatever happened before, unless the host does not remove it.

## 2. The modules

**`CpioArchive`** is the data of `cpio.go`: operators without state, each for one function.
`LoadFromData`, `Rm`, `Mv`, `addEntry`, `Patch`, `Restore`, `Test`, `RestoreMayPanic`, ... work on a
record of `entries` (a function from paths to entries) and `keys` (a sequence), like the Go struct.
A *file image* is a sequence of items: an entry, `Junk` (bytes without the magic), `Torn` (an item
cut off by the end of the file). Where the loader gives up is `Stops`; which items become entries is
`Accepted`. A payload is its base under xz *coats*; `Xz` returns its buffer before the deferred
`Close` has run (402-408), so the coats the tool makes are `"cut"`. Paths are sequences of
components, ordered by the constant `PathOrder` (Go compares strings bytewise, so `a-` sorts between
`a` and `a/b`; the instances contain such a name).

**`Cpio`** is one process after the other working on the file `disk`. `pc` is where the process is:
`idle` (none runs), `run` (the loop of `CpioCommands`, 869), `merge` (the loops of `Backup`,
776-812), `dump` (the loop of `Dump`, 253-289). One action per command word (`CmdRm` ... `CmdBackup`,
`CmdMalformed` for argument errors), `MergeLeft`/`MergeRight`/`MergeBoth`/`MergeEnd` for an iteration
of Backup's loops, `BeginDump`, `DumpEntry`, `DumpHeaderFails`, `DumpBodyFails`, `DumpTrailer`,
`DumpTrailerFails` for those of Dump, and `Crash`, which kills the process anywhere and in Dump
perhaps in the middle of an entry. A command that leaves through `os.Exit`, `log.Fatal` or a panic
is `Abort(how)`: the file is not written.

**`Ramdisk`** is the abstract specification: a stored map, a session's copy, edits, and a save that
succeeds as a whole or leaves the old map, nothing, or a part of the new one; never a wrong entry.
**`CpioRamdisk`** gives the refinement mapping: the stored map is what `LoadFromData` makes of the
file, the copy is `Entries`. `PlainSessions` says of which images and commands it holds: no name
that may be removed is ever listed twice, no command puts a name that a loader skips, there is
neither backup nor restore, and the device does not fill up; section 6 says why. It is a theorem
for all of these; the instance in `MCRamdisk` is one of them (`PlainInstance`).

**`CpioRestore`** says what `restore` promises: `RestoreUndoesBackup` is about every pair of the
constant `Ramdisks`, backed up in one another with plain or compressed members, with and without
the marker of a Magisk installation. `Restorable` says which ramdisks have such a backup.

**`CpioExtract`** is the command `extract` as a run of its own, over the archives a session may have
and a directory `tree`, a map from paths to nodes. `NextEntry` is the loop of `Extract` with the
head of `extractEntry`, `MkdirAll` makes the directories above ENTRY one a step (its error is
dropped, 350), `Make` is mkdir, symlink and mknod, which need a free name, `Create` and `Write` are
`os.Create` and the write, `Unknown` the default of the switch. Each may be refused by the host
(`refused` remembers it), and `Killed` may come between any two. A device entry becomes an empty
file (`NodeOf`): the mode that mknod gets has been cut to the permission bits (353, 372).

**`Transcode`** is `compress` and `decompress` on the files of one directory. A file is a sequence of
*layers*, its plain bytes and one layer per compression; a layer may lack its end. `Compress` and
`Decompress` open IN and create OUT; `CopyBlock` and `CopyFails` are the copy loops; `CompressEnd`
and `DecompressEnd` leave them and close; `Finish` removes IN; `Crash` kills. `Ext` and `TrimRight`
compute names as the code does (`img.gz` is decompressed to `im`, `-.gz` to standard output). An IN
that is also OUT has been truncated when it is read; what was read from a pipe to detect its format
is gone. How the codecs (libraries) react to a cut or empty stream is left open wherever it was not
certain from their use.

**`ManifestTypes`** has the thirteen messages of the manifest as sets of records and, as data, the
tables of fields that the generated methods go by: number, name, wire type, how a value is merged.
**`Manifest`** is `DeltaArchiveManifest.Unmarshal` with the Unmarshal methods it calls and
`skipUpdateMetadata`. The generated methods are one loop over one table each; the model has the loop
once, with a stack `calls` of the calls under way, a step for every byte of a varint (`Digit`)
and one for what is done with the value (a tag, a length, a varint field, a group). The integers
wrap: `Word` stands for 2^64, `Half` for 2^32, and the comparisons `< 0` of the code are made on the
wrapped values. **`ManifestMarshal`** has Marshal and Size of the messages and relates decoder and
encoder. Marshal gives the sequence of the encoded values of a message, so that a cut between two of
them can be told from one within; each message's operator calls those of the messages in it, like
the methods, and none is recursive, as no message type contains itself. **`ManifestMerge`** says
what two manifests marshalled one after the other stand for (`ConcatenationMerges`).

**`Payload`** is `ExtractBootFromPayload`: `pc` goes from `header` over `manifest` (Unmarshal
accepts it or not) and `choose` (the partition, and creating OUT) to `operations`: `Operation` is one
round of the loop (the relative seek and read, short reads from a pipe, the decompression, the seek
and write in OUT), `RejectOperation` one that fails its checks. `pos` is where the reader is, `curr`
where the code thinks it is in the data; they are different variables. With `Faults`, calls of the
host may fail. The errors of opening the payload, of the first Read, of the Read of the manifest and
of creating OUT are looked at, and end the run (`HostFails`), as does a failing write of a blob, which
may leave a part of it in OUT. The others are dropped (135, 158, 159, 165, 179, 180): a seek then
stays where it was, a Read leaves zeros in the rest of its buffer, a write of zeros is short, and the
run goes on. The history variable `unnoticed` says whether the payload was read, or OUT written,
with such a failure; what can be said then is only that refused payloads leave OUT alone: the run may
exit 0 with zeros in the place of the data (section 6).

**`HostFiles`** is what the actions on the current directory share: files as sequences of cells, one
run after another. **`SplitDtb`** is `SplitImageDtb`: `Search` is a round of `findDtbOffset` (from
the start of the file in every round, as in the code), `CheckFmtLg` one of `checkFmtLg`;
`DecompressKernel`, `DumpKernel`, `DumpDtb` make the parts. A cell is a 32-bit word. With `Faults`, a
part may not be created, which ends the run (`NotCreated`), or be cut, which `dump` does not look at
(803): the run goes on, and the history variable `dropped` has the name of the part. `KilledInDump` is
a kill in the middle of a part. `old` is the directory as the run has found it, `made` the names that
runs have created: the properties relate what is there to both. **`HexPatch`**
is the scan of the mapping, a byte a step. **`Workdir`** composes them with `Main` (an operator from
command lines to runs), `sha1` and `cleanup`, and kills. `Cleanup` may fail to remove a name, and goes
on (170, 172).

**`MC*`** define the instances, **`*Proofs`** hold the proofs, `SetLemmas` facts on finite sets of
numbers. Operators marked *Mutant* are typical mistakes; putting one in the place of the definition
after it breaks the property named in PROJECT.json.

## 3. The runs

| run | properties | shows |
|---|---|---|
| `cpio_session` | TypeOK, EntriesIndexed, BackupRecovers, BackupMinimal, DumpRoundTrip, KeysStaySorted, GhostsNeedDuplicates, RestoreUndoesBackup | one run of up to two of 29 commands on sorted, packed, torn and corrupted files, stock ramdisks and every backup of four ramdisks against each other: `Entries` and `Keys` stay together, backup records what is needed and no more, restore undoes it, a successful run leaves a file that loads as what it had |
| `cpio_faults` | PartialDumpAgrees, Terminates | three runs on a device that fills up, killed anywhere: what remains of the file holds no wrong entry; every run ends |
| `cpio_refines` | RefinesRamdisk | sessions implement `Ramdisk`: two runs of up to two commands on five files, among them a torn one, junk behind a trailer and a name listed twice |
| `extract` | TypeOK, PassedAreThere, FreshIsExact, OnlyFilesAreReplaced | two extracts in one directory, of six archives (ordered, with a directory after its content, with a name twice, with a key whose entry is gone), with ENTRY and OUT, refusals of the host and kills |
| `transcode` | TypeOK, OnlyCreateLoses, DoneIsExact, RunsEnd | four runs of 15 jobs in a directory, meeting each other's results and leftovers |
| `manifest` | TypeOK, WithinSlices, UnmarshalInvertsMarshal, ConcatenationMerges, UnknownFieldsAreSkipped, CutsAreNoticed, ShortReadsAreHarmless, DecoderAdvances, DecodingEnds | the decoder on encodings that use every field of every message, two in a row, cut, padded with zeros, with a byte replaced, with groups and fields of a later version, with lengths at the limit of an int |
| `payload` | TypeOK, ReaderKeepsUp, ImageIsExact, RefusedPayloadKeepsOut, ExtractEnds | operations out of order, with gaps, shared and compressed blobs, illegal ones, every way of being refused, from a file and from a pipe, on a host whose seeks, reads and writes may fail, seen or unseen: as long as every failure is seen, OUT is exact |
| `workdir` | TypeOK, PartsMakeTheImage, PatchReplaces, CleanupRemovesParts, OnlyPartsChange, SplitEndsAtFirstMagic, OtherRunsEnd | two runs of split, hexpatch, sha1, cleanup or a wrong command line, killed anywhere, in a directory with or without older parts, on a host that may fail to create, to write and to remove: the parts are those of one image, and what runs have made is removed unless the host does not |

Disagreements of the code with its own texts, each a run that finds a counterexample:

| run | property | the code |
|---|---|---|
| `dev_patch_fstab` | PatchRemovesVerity | the patched fstab is never stored (cpio.go 654) |
| `dev_backup_names` | BackupStaysBelow | backed up entries overwrite the new ones instead of going below `.backup` (cpio.go 767) |
| `dev_compress_full` | OnlyCreateLoses | on a full device `compress` removes IN although OUT is incomplete (compress.go 258, 269) |
| `dev_payload_first` | LegalPayloadIsExtracted | an operation whose blob is the first of the data is refused, with OUT truncated (payload.go 150) |

**Bounds.** `MaxRuns` and `MaxCommands` bound the history, `MaxReads` the blocks of a copy; they are
guards of the actions that begin something and ranges of counters, nothing else. `Cuts` has the
lengths at which the writing of a part may be cut: nothing, one word, and three, which is in the
middle of a device tree; the proofs have no such bound. Because of them, or
because the one run of `Payload` and `Manifest` has ended, the system stops, which is why the runs
do not check for deadlock (that a run of the tool cannot get stuck is what the liveness properties
say). Two commands are enough for every interaction of two operations on one key, two runs for an
extract, split or hexpatch that meets what another one left, three for a load of a file that a
failed Dump left; larger bounds tried while the models were written found nothing else. The commands
and images are chosen so that names are prefixes of each other in one sense and not in the other,
keys are listed twice, archives are concatenated, and lists are unsorted; so that directories come
before, after and without their content; that occurrences of a pattern overlap and are made by
replacing others; that magics of a device tree are rejected, at the end, and absent. Widths are
constants: a varint has at most `MaxDigits` = 4 digits instead of 10, `Word` is 2^22 or 2^12 instead of
2^64, `Half` 2^11 instead of 2^32, `SizeLimit` 26 words instead of 2^32 bytes, so that TLC meets
wrapping, and a size that does not fit, with small values. What holds for all widths and all data
is in section 4.

**Fairness.** Each `FairSpec` assumes weak fairness of the process's own steps: the operating system
keeps running a process that is not killed. In `Payload` and `Manifest`, which have no kills and
only one run, that is `WF_vars(Next)`. Nothing is assumed of new runs, kills or failures. Each loop
of the code has an index that advances in every round where the property says it ends, so the
properties do depend on the loops as modelled: a mutant that retries or does not leave breaks them.
Two loops of split need not end (section 6); `SplitEndsAtFirstMagic` says where they do.

## 4. What is proved

For every value of the constants: any set of names with any order, any images, commands,
directories, payloads and byte strings, any widths, any bound, with or without faults.

* `CpioProofs!TypeCorrect`, `AlwaysIndexed`, `SortedSteps`: `TypeOK`, `EntriesIndexed` and
  `KeysStaySorted`. The inductive invariant is `IInv == TypeOK /\ EntriesIndexed /\ Phases`. Types
  alone are not inductive: `Phases` says that the locals of Backup and Dump are at rest outside of
  their phase and that in Dump the file exists and the cursor points into the list. (Without it, a
  merge index could be out of range after an edit.) The proof has one lemma per action; below it are
  lemmas about the list operations: `EnumerateLists` (numbering the elements of a finite set by a
  key hits every place once), `SortKeysSorts` (the result is sorted and has the same elements),
  `PickPicks` (removing positions keeps the others in order), `LoadLoads`, `RemoveRemoves`, ...
* `CpioProofs!GhostsTraced`: `GhostsNeedDuplicates`. Taking one key off the list for each entry
  that goes leaves no key behind exactly because the names that go are listed once
  (`RemoveNoGhosts`, `MvNoGhosts`, `RestoreNoGhosts`). The property excepts a restore that finds no
  backup, which empties the map and not the list.
* `CpioProofs!BackupCorrect`: `BackupRecovers`. The invariant `MergeInv` says what the loops have
  accounted for: every left key passed is saved with its data or is in the archive with the same
  data; every right key passed is in `.rmlist` or is a left key; nothing else is recorded. At the
  end of both lists this is the property. Sorting is not needed for it. The property supposes that
  neither archive lists a name twice (`Exact`): with duplicates the code does lose entries.
* `CpioProofs!BackupLeast`: `BackupMinimal`. Here sorting is needed: `MinInv` adds that neither
  index passes a name that is still to come in the other list (`LeftAhead`, `RightAhead`), so a name
  that both have is met by both at once.
* `CpioProofs!PartialDumps`, `DumpsAreExact`: `PartialDumpAgrees` and `DumpRoundTrip`. `WriteInv`
  says that the file always begins with the items of the first keys and that only its last item may
  be torn (`DumpFile`); `DumpFileLoads` reads such a file back: the loader stops nowhere before, and
  of two keys of one name it keeps the entry that both were written with. The first theorem
  includes kills and full devices. The second is about a Dump that reports success, on a device that
  does not fill up (`~Faults`: a full one leaves a torn file and exit code 0), and the property
  excepts archives with data under a dot name (`DotsEmpty`), which the loader cannot read.
* `CpioProofs!SessionsRefine`: in plain sessions, whatever is killed, `Cpio` implements `Ramdisk`
  (`RefinesRamdisk`), step by step: one lemma per action says which edit, save or loss of the one
  map it is, or that it is a stutter. `PlainInv` adds to the invariants above that `Keys` lists the
  names of `Entries` and those that may be removed once (`Tidy`), in memory and in whatever a run
  finds in the file. Without it, `rm` could leave a key whose entry Dump then writes as an entry of
  mode 0, which is no edit of the map.
* `CpioProofs!RestoreUndoes`: `RestoreUndoesBackup`. `IsBackup` says what a backup of one ramdisk
  in another holds: its names outside of `.backup`, its members and `.rmlist`. `BackedUpIs` shows
  that the backups of the property are such; from it `BackupsGiveBack` reads the lost entries (of
  each name there is one member, and its suffix is cut off exactly if it was compressed) and
  `RmListRead` the new names. Two different ramdisks leave at least one of them (`DifferentSay`), so
  that restore does not take the archive for one without a backup and empty it.
* `CpioExtractProofs!ExtractTyped`, `OnlyFilesChange`, `NonePassedOver`, `FreshArchivesComeOut`: all
  four properties of the run `extract`. `Inv` says where a run is in the list and in the entry in
  hand; that the file being written is there and no directory (`InHand`) is what makes the types
  inductive. Every step puts one node or none (`StepPuts`), from which the first two follow.
  `Passed` adds what the entries before the one in hand have become; its only exception is an entry
  that the one in hand, a second key of its name, is about to write. `Exact` says that the
  directory is what was there, the entries passed and the directories above the keys up to the one
  in hand, and nothing else; `NoneMissing` shows that when `MkdirAll` has no more to do, the whole
  chain of directories is there, by looking at the first one that is not.
* `TranscodeProofs!TranscodeTyped`, `NothingLost`: `TypeOK`, and `OnlyCreateLoses` if the host's
  file operations succeed. `TInv` says that OUT is empty or cut while it is written, so that
  overwriting it takes no last copy, that IN is unchanged, and that OUT is exactly the result when
  IN is about to be removed. Kills are included. The hypothesis `~Faults` is needed:
  `dev_compress_full` is the counterexample.
* `TranscodeProofs!DoneExact`: `DoneIsExact`, with `~Faults` again. `ReadInv` says that IN still
  holds what the run reads unless it is OUT or a pipe, `EndInv` that a decoder that reported the end
  of a stream had reached it, or had nothing to read, or has a format that cannot tell.
* `ManifestProofs!StaysWithinSlices`: `WithinSlices`. `SInv` says that the calls are a stack of
  nested slices, and that outside of groups the innermost index is in its slice. The delicate step
  is a length: the code adds it to the index in wrapping arithmetic and compares twice
  (`< 0`, `> l`); the proof shows that no wrapped sum passes both.
* `ManifestProofs!DecodesTypedMessages`: the `TypeOK` of `Manifest`. The tables of fields are data,
  so first each message type is shown to be the records with a slot for each field of its table
  (`MessagesTabled`); then storing a value of a field's type keeps a message a message (`PutTyped`).
  The types of the messages on the stack are not enough: a call that returns stores its message in
  that of its caller. `Framed` says that the caller has a field of just this type for it, `Switched`
  that the field whose value is being read belongs to the message on top.
* `ManifestProofs!DecodingAdvances`: `DecoderAdvances`, that each step lowers `Left`: the bytes from
  the beginning of the field on, then the calls to return from, then the stage of the field, then
  the room for the index, compared in this order. The decoder does go back: skipUpdateMetadata
  starts at the tag again, a call that returns leaves a slice for a longer one, an index may move by
  the 64-bit length that the input gives. `AInv` says what makes up for it: a digit behind
  `preIndex` has been read before anything is stored or skipped, and an index is an int. A sum that
  wraps is negative and ends the loop (`PlusForward`), so no part of a group ends before it begins.
  As a descending sequence of such quadruples of naturals is finite, a decoder that is not stopped
  ends; this last step is `DecodingEnds`, for TLC.
* `MarshalProofs!UnmarshalUndoesMarshal`, `CutsNoticed`: `UnmarshalInvertsMarshal` and
  `CutsAreNoticed`, for every manifest whose encoding a slice can hold. The encoder first.
  `VarintDigit` says that the digits of a varint are those the decoder takes a word apart into, the
  remainder and the quotient by the power reached so far. `AllWritten` says that Marshal writes every
  field of every message, in the order of the table and in the bytes that Size counts; an operator
  per message is shown to do so, from the innermost outwards. So each message has a script, items
  that store its fields one by one (`Scripted`), which lie end to end in its code (`EndsStep`). Then
  the decoder: `RInv` says where it is when the bytes are the code of a manifest or the beginning of
  it. `Follows`: each call has a message of which its slice is the code, and has stored the items up
  to its index; its caller waits in the item that is this message. `Placed`: the innermost call is
  between two items, or so many digits into the varint that is due there. Every step of the decoder
  keeps this, with one exception: the bytes may end too early, and then they are fewer than the code
  (`TooFew`, along the whole stack: a slice that is cut is cut at the end of the payload). At the end
  nothing is left over, so what is accepted ends between two items of the outermost message. That
  the required fields are marked when they have been stored is part of `Through`; without it, the
  check behind the loop could refuse what Marshal wrote.
* `MarshalProofs!ShortReadsAccounted`: `ShortReadsAreHarmless`, for every manifest and every number
  of bytes that `Read` returned (ExtractBootFromPayload drops the count, and the rest of its buffer
  is zeros). As long as only bytes that were read are looked at (`Near`), the lemmas of `RInv` apply
  with `lim`, the number of those bytes, in the place of the end. `QInv` adds where the decoder can
  be afterwards: `Past` lists it, from within a message that the zeros end (`InMessage`), a value or
  a length whose last digit is a zero (`CutValue`, `CutLength`), to the low digit of a late tag,
  which is the tag of a field 1 or 2 that a manifest does not have and is skipped with a length of
  zero (`CutTag`, `SkipsTag`, `SkipsLength`). Between two fields a zero is a tag of field 0 and ends
  it with an error. The one way to the end without such a zero is a field that the zeros complete, up
  to the last byte: `RootOrder` shows, from the order in which Marshal writes, that this is the
  security patch level, and that all that the extraction uses comes before the fields 17 and 18.
  `NextPInv` and `Inner` say that the first call keeps the whole buffer for its slice, and that the
  calls within it end before the place where it goes on.
* `PayloadProofs!ReaderPosition`, `RefusalKeepsOut`, `ImageCorrect`: `ReaderKeepsUp`,
  `RefusedPayloadKeepsOut`, `ImageIsExact`. `Control` says what has been checked where, `Position`
  where the reader is in each phase; `SeekFinds` shows that the unsigned difference that the code
  seeks by, wrapped and read as signed, leads to the blob, forwards or backwards. `Exact` says that
  OUT is the image of the operations done; a step adds one, and because the targets of the
  operations of a legal payload are disjoint it takes nothing from the others. The host may fail at
  any call. The first theorem supposes that no seek or read of the payload has done less unseen, the
  third that no call has, and both are false otherwise (section 6); a failure that is seen
  is no exception: `WriteKeeps` shows that a write that stops anywhere in its buffer leaves what the
  operations before it wrote, and nothing outside of its extent.
* `PayloadProofs!PayloadTypes`: the `TypeOK` of `Payload`. It needs `Control`, because what is read
  and where it is written is only known of a manifest that has been checked that far; the loop over
  the extents of a ZERO operation is a fold, and `ZeroExtentsTyped` an induction over their number.
* `WorkdirProofs!FilesLeftAlone`, `CleanupComplete`, `PatchExact`, `SplitExact`: `OnlyPartsChange`,
  `CleanupRemovesParts`, `PatchReplaces`, `PartsMakeTheImage`. `Phase` says what is there while a
  run works; `Removed` that what runs have made are the two names of the parts, and that of the names
  that cleanup has passed none is there but where an error was dropped; `Scanned` that behind the index
  exactly the occurrences are replaced, which needs that replacing some of them makes no other one
  (`Separate`); `Cut` that the offset is the first magic, and of each part whether it is still as the
  run has found it or a beginning of this image's, all of it unless its name is in `dropped`
  (`WriteCut`, and `KilledCut` for kills in the middle of a part). Failures of the host are included;
  what they may spoil is stated in the properties, not excluded by a hypothesis.
* `WorkdirProofs!WorkdirTyped`: the `TypeOK` of `Workdir`. `Phase` and `Scanned` say most of it (the
  file that is mapped is there and keeps its length); `Rest` has what they leave.
* `SetLemmas`: a finite non-empty set of integers has a least and a greatest element, which the
  library does not state.

Assumptions, all checked by TLC on the instances: `PathsAssumption` (names are listed once, Backup's
own names and those that restore moves members to are among them), `CpioAssumption` (constants
have their types, `NoFile` is no file image), `RestoreAssumption` (the ramdisks are restorable: no
name is below `.backup` or ends in `.xz`, and there are names for the members; and entries with the
same data are the same, as Backup compares nothing else, cpio.go 788), `PlainInstance` (the instance
of the refinement has plain sessions), `TranscodeAssumption` (constants have their types; IN and OUT
of a compress job differ), `ExtractAssumption` (the directories above a name are names, every node
of a tree is in a directory, no name is below a link), `WidthAssumption` (`Word` is even and more than 16, as a fixed64 is
skipped by adding 8),
`BufferAssumption` (a slice has an int for its length), `EncodingAssumption` (the base of a varint is
128, `MaxDigits` digits hold a word, every tag fits a word, four bytes hold a fixed32), `SampleAssumption` (the
manifests of the properties are manifests, with encodings that a slice can hold; unknown fields are
strings of bytes), `PayloadAssumption` (a payload has an int for its length; a stream is at least as
long as what `CheckFmt` compares first), `HostAssumption`, `SplitAssumption`, `JobAssumption`
(constants have their types).
`SessionsRefine` has the hypothesis `PlainSessions`, `DumpsAreExact`, `NothingLost` and `DoneExact`
have `~Faults`.

Only model-checked:

* liveness (`Terminates`, `RunsEnd`, `DecodingEnds`, `ExtractEnds`, `SplitEndsAtFirstMagic`,
  `OtherRunsEnd`): the prover has neither fairness nor ENABLED. Of `DecodingEnds`, the part that
  needs neither is `DecodingAdvances`;
* of the manifest, what the decoder makes of bytes that are not one encoding: `ConcatenationMerges`
  and `UnknownFieldsAreSkipped`, which are about a second script, of merged or of skipped items;
* the disagreements of section 3, which are counterexamples.

## 5. What the models leave out

* Permission bits, owners, device and inode numbers, times: no property is about them.
* Paths that are not clean. Commands normalise their arguments with `norm_path` (154), which
  cleans the path and strips its leading slashes; the instances give clean paths, for which it is the identity.
* What `extract` writes through links and to devices; an OUT that is the archive itself.
* The environment variables that `patch` and `Xz` read are parameters of the command.
* Renaming onto, or adding, the names `TRAILER!!!`, `.` and `..`, except where an instance does
  (`mkdir .`): the loader skips such entries. An `add` of a file under such a name makes the archive
  unreadable behind it: `Stops` has this, `cpio_session` and `cpio_faults` add a file under `.`, and
  `DumpRoundTrip` excepts it.
* Compressed members whose streams are cut: `Unxz` fails on them, which the model has (`Decompress`);
  the instance of `cpio_session` also has members as another tool writes them, with whole streams.
* `compress` with an explicit OUT that is IN, where the encoder reads its own output; a payload that
  is its own OUT.
* Buffers too large to allocate: a length in a payload that `make` refuses ends the run with a panic
  at that place.
* The rewriting of fstab lines: `CpioArchive` has the flags of a file, when `patch` drops them, and
  the panic on a line of four fields; `Patch` drops the result anyhow.
* What lzma makes of a device tree it takes for a stream (`DecompressKernel` leaves it open).
* Failures of the host in `hexpatch` (opening and mapping its file) and in `sha1` (reading it). Of the
  others: errors of closing OUT and the parts, the place of the reader after a read that failed (it is
  taken to be behind what was read), a `RemoveAll` that removes a part of `vendor_ramdisk` (a directory;
  here a name like the others), and in `CpioExtract` what a write that is refused has written before.
* Bytes in cpio archives: lengths, padding and the fields of a header are not in the model, so that
  Dump and LoadFromData agree on them (cpio.go 274) is not checked. What `Dump` may leave of an entry
  whose body cannot be written is an item that is cut, wherever it is cut (`DumpBodyFails`), and
  the loader panics on every item that the end of the file cuts, wherever in it that is (`LoadPanics`).
* Operands of `hexpatch` that are not hexadecimal: patterns are sequences of bytes.
* Marshal of the two messages that are never inside a manifest, and the generated Equal, String,
  GoString and JSON methods: the program calls none of them. The protobuf runtime they use is a
  library.
* The boot image headers (`DynImg*`, bootimg.go 1-780): nothing calls them; unpack and repack are not
  implemented.
* Power failures: a kill does not lose what was written. Windows, where the stubs do nothing.

## 6. Known disagreements without a run

The models have the behaviour; a run for each would show what one step shows.

* `rm` of a name that is listed twice leaves a key (cpio.go 310), which `Dump` writes as an entry of
  mode 0. `GhostsNeedDuplicates` says that this is the only way to such a key.
* A load that stops in the middle of a file is not reported (cpio.go 225); the rest is lost at the
  Dump. A full device leaves a torn file and exit code 0 (289), which is why the refinement is
  claimed only of devices that do not fill up.
* `extract` alone, "or extract all entries" by the usage, does nothing (cpio.go 947), and
  `extract ENTRY` extracts all entries (387). `extract ENTRY OUT` makes the directories of ENTRY,
  not those of OUT (348). A block device comes out as an empty file, as mknod gets no type
  (353, 372), and a character device as an error (369: `S_IFBLK | S_IFCHR` is `S_IFBLK`).
* `split` gives the decoder the device tree instead of the kernel (bootimg.go 901), and drops the error
  that comes of it (791): the kernel part of a compressed kernel is empty, with exit code 0, or the
  run ends there. On a full device a part is cut, again with exit code 0 (803). `PartsMakeTheImage`
  asks for whole parts only where no error was dropped, and for a beginning of them elsewhere.
* A read of a payload that fails on the device leaves zeros in the buffer (payload.go 159), the offset
  moves on (160), the zeros are written, and the run exits 0; a seek that fails (135, 158) has the data
  read from a wrong place. `ReaderKeepsUp` and `ImageIsExact` suppose that there was no such failure.
* `findDtbOffset` finds a rejected magic again for ever (bootimg.go 829), and `checkFmtLg` stays at
  blocks that end with the file (865). `SplitEndsAtFirstMagic` is about the other images only.
* `hexpatch` looks past the end of the mapping where the end of the file is a beginning of the
  pattern (patch.go 123), possibly after it has patched; and it finds patterns in what it has
  written (130). `PatchReplaces` is about patterns of which neither is the case (`Separate`); what
  the code makes of the others is in the model, and no property says what it should be.
* A payload from a pipe: every seek fails and is not looked at, so that the signature of the manifest is
  taken for data (payload.go 135), reads are short, and a run may succeed with a wrong image, although
  "<payload.bin> can be '-'" (magiskboot.go 97).
* `cleanup` exits 0 when a part could not be removed (magiskboot.go 170, 172); `CleanupRemovesParts`
  excepts such parts, which is all that is promised of them.
* ZERO operations write as many bytes as they have blocks (payload.go), and an operation writes to
  its first extent only; `Supported` excludes both from `ImageIsExact`.

## 7. Plan

Done: everything in section 2. What is left, in order:

1. `Fstab`: `patchFstab` over bounded inputs against a reference definition, and the line of four
   fields (patch.go 54).
2. `BootImgHdr`: the field views, once something calls them.
