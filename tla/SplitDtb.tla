------------------------------ MODULE SplitDtb ------------------------------
(***************************************************************************)
(* `magiskboot split [-n] <file>` (bootimg.go: SplitImageDtb, findDtb-     *)
(* Offset, checkFmtLg, dump, decompress): a kernel with a device tree at   *)
(* its end is taken apart into the files kernel and kernel_dtb.            *)
(*                                                                         *)
(* A cell is a 32-bit word, and sizes are counted in words: a device tree  *)
(* begins at a word.  The file stays mapped while the parts are written.   *)
(***************************************************************************)
EXTENDS HostFiles

CONSTANTS
  Magic,       \* d0 0d fe ed
  FormatOf,    \* the formats CheckFmt tells by the first word of a file
  SizeLimit    \* 2^32: the size of the file is kept in 32 bits

KERNEL_FILE  == "kernel"
KER_DTB_FILE == "kernel_dtb"

HeaderWords == 10   \* an fdtHeader, 40 bytes
NodeTag     == 1    \* the word at the beginning of the structure block

\* CheckFmt and COMPRESSED; the formats whose readers look at the stream when
\* they are made.  lzma's may take a device tree for a stream; what it makes of
\* it is left out.
CheckFmt(f)   == IF f[1] \in DOMAIN FormatOf THEN FormatOf[f[1]] ELSE "unknown"
Compressed    == {"gzip", "xz", "lzma", "bzip2", "lz4", "lz4_legacy", "lz4_lg"}
Eager         == {"gzip", "xz"}

Formats ==
  Compressed \union {"unknown", "chromeos", "aosp", "aosp_vendor", "dhtb", "blob",
                     "lzop", "mtk", "dtb", "zimage"}

ASSUME SplitAssumption ==
  /\ Magic \in Nat /\ SizeLimit \in Nat \ {0}
  /\ \A w \in DOMAIN FormatOf : FormatOf[w] \in Formats

VARIABLES
  curr,    \* findDtbOffset's index, and the offset it has found
  off,     \* checkFmtLg's index
  format   \* what it made of the file

split == <<curr, off, format>>

File == dir[job.file]
sz   == Len(File) % SizeLimit   \* uint32(st.Size())

Word(k) == IF k < Len(File) THEN File[k + 1] ELSE 0

StartSplit(j) ==
  /\ j.verb = "split"
  /\ Begin(j)
  /\ \/ /\ ~Faults /\ Exists(j.file) => dir[j.file] = <<>>    \* not to be mapped
        /\ pc' = "idle" /\ status' = "exit1" /\ UNCHANGED split
     \/ /\ Exists(j.file) /\ dir[j.file] # <<>>
        /\ pc' = "search" /\ curr' = 0 /\ off' = 1 /\ format' = "unknown"
        /\ UNCHANGED status

\* bytes.Index(fmap, magic): from the beginning of the file, whatever curr.
Magics == {k \in 0 .. Len(File) - 1 : Word(k) = Magic}
Index  == CHOOSE k \in Magics : \A l \in Magics : k <= l

\* The header at k, zeros if the file ends before it does.
HeaderAt(k) ==
  IF k + HeaderWords <= Len(File)
  THEN [totalsize |-> Word(k + 1), off_dt_struct |-> Word(k + 2)]
  ELSE [totalsize |-> 0, off_dt_struct |-> 0]

Remaining(k) == (sz - k) % SizeLimit   \* uint32(end - curr)

\* (No offset that passes is behind the end of the file, of whatever size.)
Accepted(k) ==
  /\ HeaderAt(k).totalsize <= Remaining(k)
  /\ HeaderAt(k).off_dt_struct <= Remaining(k)
  /\ Word(k + HeaderAt(k).off_dt_struct) = NodeTag

\* Mutant: `continue` without `curr += 40`.
SearchStays ==
  /\ pc = "search"
  /\ UNCHANGED <<files, off, format>>
  /\ IF curr >= sz \/ Magics = {} THEN Exit("exit1") /\ UNCHANGED curr
     ELSE IF ~Accepted(Index) THEN UNCHANGED curr /\ Goto("search")
     ELSE curr' = Index /\ (IF Index > 0 THEN Goto("format") ELSE Exit("exit1"))

\* One round of the loop of findDtbOffset.
Search ==
  /\ pc = "search"
  /\ UNCHANGED <<files, off, format>>
  /\ IF curr >= sz \/ Magics = {} THEN Exit("exit1") /\ UNCHANGED curr
     ELSE IF ~Accepted(Index) THEN curr' = Index + HeaderWords /\ Goto("search")
     ELSE curr' = Index /\ (IF Index > 0 THEN Goto("format") ELSE Exit("exit1"))

\* checkFmtLg; for lz4_legacy, one round of its loop over the blocks.  A
\* round that has no block to look at changes nothing.
CheckFmtLg ==
  /\ pc = "format"
  /\ UNCHANGED <<files, curr>>
  /\ IF CheckFmt(File) # "lz4_legacy"
     THEN format' = CheckFmt(File) /\ UNCHANGED off /\ Goto("kernel")
     ELSE IF off + 1 < sz
          THEN IF off + 1 + Word(off) > sz
               THEN format' = "lz4_lg" /\ off' = off + 1 /\ Goto("kernel")
               ELSE off' = off + 1 + Word(off) /\ UNCHANGED format /\ Goto("format")
          ELSE UNCHANGED <<off, format>> /\ Goto("format")

\* os.Create fails, and the process ends.
NotCreated == Faults /\ Exit("exit1") /\ UNCHANGED files

\* Create cuts the file, and if it is the mapped one the next read of the
\* mapping faults.
Overwritten(name) ==
  name = job.file /\ Create(name, <<>>) /\ Exit("panic") /\ UNCHANGED dropped

\* dump; io.CopyN's error is dropped, and the run goes on behind a part that
\* is cut.
Dump(name, part, next) ==
  \/ NotCreated
  \/ Overwritten(name)
  \/ /\ name # job.file /\ next
     /\ \/ Create(name, part) /\ UNCHANGED dropped
        \/ /\ Faults /\ dropped' = dropped \union {name}
           /\ \E c \in CutOff(part) : Create(name, c)

Decompressing == ~job.skip /\ format \in Compressed

\* The decoder is given what begins at the device tree, which is not in its
\* format; a reader that notices when it is made ends the process, and what
\* another tells io.Copy is dropped.
DecompressKernel ==
  /\ pc = "kernel" /\ Decompressing
  /\ \/ NotCreated
     \/ Overwritten(KERNEL_FILE)
     \/ /\ KERNEL_FILE # job.file /\ Create(KERNEL_FILE, <<>>)
        /\ \/ format \in Eager \union {"lzma"} /\ Exit("exit1") /\ UNCHANGED dropped
           \/ /\ format \notin Eager /\ Goto("dtb")
              /\ dropped' = dropped \union {KERNEL_FILE}
  /\ UNCHANGED split

KernelPart == SubSeq(File, 1, curr)
DtbPart    == SubSeq(File, curr + 1, sz)

DumpKernel ==
  /\ pc = "kernel" /\ ~Decompressing
  /\ Dump(KERNEL_FILE, KernelPart, Goto("dtb"))
  /\ UNCHANGED split

\* Mutant: as much is dumped as the header says.
DumpDtbTotalsize ==
  /\ pc = "dtb"
  /\ IF sz = curr THEN Exit("exit0") /\ UNCHANGED files
     ELSE Dump(KER_DTB_FILE, SubSeq(File, curr + 1, curr + HeaderAt(curr).totalsize),
               Exit("exit0"))
  /\ UNCHANGED split

DumpDtb ==
  /\ pc = "dtb"
  /\ IF sz = curr THEN Exit("exit0") /\ UNCHANGED files
     ELSE Dump(KER_DTB_FILE, DtbPart, Exit("exit0"))
  /\ UNCHANGED split

\* What a process that is killed may have written of a part.
KilledInDump ==
  \/ /\ pc = "kernel" /\ KERNEL_FILE # job.file
     /\ \E c \in IF Decompressing THEN {<<>>} ELSE CutOff(KernelPart) :
          Create(KERNEL_FILE, c)
  \/ /\ pc = "dtb" /\ KER_DTB_FILE # job.file
     /\ \E c \in CutOff(DtbPart) : Create(KER_DTB_FILE, c)

SplitStep == Search \/ CheckFmtLg \/ DecompressKernel \/ DumpKernel \/ DumpDtb

-----------------------------------------------------------------------------
(***************************************************************************)
(* Properties.                                                             *)
(***************************************************************************)
SplitDone ==
  Idle /\ job.verb = "split" /\ status = "exit0"

\* The file of that name is as the run has found it, or is not there as then.
AsBefore(n) ==
  IF n \in DOMAIN old THEN n \in DOMAIN dir /\ dir[n] = old[n]
  ELSE n \notin DOMAIN dir

\* A beginning of c is in the file.
Beginning(n, c) == n \in DOMAIN dir /\ \E k \in 0 .. Len(c) : dir[n] = SubSeq(c, 1, k)

\* All of it, unless an error was dropped.
Part(n, c) == Beginning(n, c) /\ (n \notin dropped => dir[n] = c)

\* The run did not end well.
Begun(n, c) == Idle /\ status # "exit0" /\ Beginning(n, c)

\* An image that is not named like a part, with a size of 32 bits, and its
\* parts: everything from the first device tree on, and what is before it.
OfImage ==
  /\ job.verb = "split" /\ Exists(job.file) /\ Len(File) < SizeLimit
  /\ job.file \notin {KERNEL_FILE, KER_DTB_FILE}

ImageKernel == SubSeq(File, 1, Index)
ImageDtb    == SubSeq(File, Index + 1, Len(File))

\* The parts are those of one image.  Wherever a split is, or was killed, each
\* of the two is as the run has found it or is this image's; kernel_dtb is not
\* the new one beside the old kernel; and after a split that ends well both are,
\* whole unless the host failed to write - or a decoder to read - what it was
\* given, which split does not look at.
PartsMakeTheImage ==
  OfImage =>
    /\ \/ AsBefore(KERNEL_FILE)
       \/ Part(KERNEL_FILE, ImageKernel) \/ Begun(KERNEL_FILE, ImageKernel)
    /\ \/ AsBefore(KER_DTB_FILE)
       \/ /\ Part(KERNEL_FILE, ImageKernel)
          /\ Part(KER_DTB_FILE, ImageDtb) \/ Begun(KER_DTB_FILE, ImageDtb)
    /\ SplitDone =>
         /\ Magics # {} /\ Accepted(Index)
         /\ Part(KERNEL_FILE, ImageKernel) /\ Part(KER_DTB_FILE, ImageDtb)

\* The first magic is a device tree's, or there is none, or it is too near to
\* the end to go on behind it.
FirstMagicDecides ==
  \/ Magics = {} \/ Accepted(Index)
  \/ Index + HeaderWords >= sz

\* Then split ends.  (If it is rejected and the file goes on, the search finds
\* it again for ever; checkFmtLg stays at blocks that end with the file.)
SplitEndsAtFirstMagic ==
  (pc = "search" /\ FirstMagicDecides /\ CheckFmt(File) # "lz4_legacy") ~> Idle
=============================================================================
