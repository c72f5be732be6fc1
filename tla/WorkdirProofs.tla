--------------------------- MODULE WorkdirProofs ----------------------------
(***************************************************************************)
(* Proofs about Workdir for every directory and every command line: what   *)
(* hexpatch makes of its file, what split leaves, what cleanup removes,    *)
(* and that no run touches the other files.                                *)
(***************************************************************************)
EXTENDS Workdir, SetLemmas

-----------------------------------------------------------------------------
(* Where a run is.                                                         *)

SplitPhases == {"search", "format", "kernel", "dtb"}

Phase ==
  /\ \A n \in DOMAIN dir : dir[n] \in Contents
  /\ pc \in SplitPhases \union {"idle", "scan", "cleanup"}
  /\ curr \in Nat /\ i \in Nat
  /\ pc \in SplitPhases =>
       job.verb = "split" /\ Exists(job.file) /\ File # <<>>
  /\ pc \in SplitPhases \ {"search"} => curr < Len(File)
  /\ pc = "scan" => job.verb = "hexpatch" /\ Exists(job.file) /\ M # <<>>
  /\ pc = "cleanup" => job.verb = "cleanup" /\ next \in 1 .. Len(PartNames) + 1
  /\ job.verb = "hexpatch" => job.from \in Contents /\ job.to \in Contents

\* The actions of the three kinds of run.
LEMMA StepsOf ==
  /\ SplitStep => pc \in SplitPhases
  /\ HexPatchStep => pc = "scan"
  /\ Cleanup => pc = "cleanup"
BY DEF SplitStep, Search, CheckFmtLg, DecompressKernel, DumpKernel, DumpDtb, SplitPhases,
       HexPatchStep, Scan, EndScan, Cleanup

\* A file written, or removed.
LEMMA WithFile ==
  ASSUME NEW n, NEW c
  PROVE  /\ DOMAIN With(n, c) = DOMAIN dir \union {n} /\ With(n, c)[n] = c
         /\ \A m \in DOMAIN dir \ {n} : With(n, c)[m] = dir[m]
         /\ DOMAIN Without(n) = DOMAIN dir \ {n}
         /\ \A m \in DOMAIN dir \ {n} : Without(n)[m] = dir[m]
BY DEF With, Without

\* Files stay files when one is written; the others stay as they are.
LEMMA WithTyped ==
  ASSUME \A m \in DOMAIN dir : dir[m] \in Contents, NEW n, NEW c \in Contents
  PROVE  \A m \in DOMAIN With(n, c) : With(n, c)[m] \in Contents
BY DEF With

LEMMA OthersStay ==
  ASSUME NEW n, NEW c, dir' = With(n, c), job' = job, Exists(job.file), n # job.file
  PROVE  Exists(job.file)' /\ File' = File /\ M' = M
BY DEF With, Exists, File, M

\* What % keeps.
LEMMA Modulo ==
  ASSUME NEW a \in Nat, NEW n \in Nat \ {0}
  PROVE  a % n \in Nat /\ a % n <= a /\ (a < n => a % n = a)
<1>1. a < n => a % n = a
  OBVIOUS
<1>2. a % n \in 0 .. n - 1
  OBVIOUS
<1> QED
  BY <1>1, <1>2

\* A part of a file is one.
LEMMA PartTyped ==
  ASSUME NEW c \in Contents, NEW a \in Nat, NEW b \in Nat
  PROVE  b <= Len(c) => SubSeq(c, a + 1, b) \in Contents
BY DEF Contents

\* A patched file is one, of the same length.
LEMMA PatchedTyped ==
  ASSUME NEW m \in Contents, NEW k \in Nat, NEW to \in Contents
  PROVE  Patched(m, k, to) \in Contents /\ Len(Patched(m, k, to)) = Len(m)
<1> DEFINE f == [n \in 1 .. Len(m) |->
                   IF k < n /\ n <= k + Len(to) THEN to[n - k] ELSE m[n]]
<1>1. Len(m) \in Nat /\ Len(to) \in Nat
  BY DEF Contents
<1>2. \A n \in 1 .. Len(m) : f[n] \in Nat
  <2> SUFFICES ASSUME NEW n \in 1 .. Len(m)
               PROVE  f[n] \in Nat
    OBVIOUS
  <2>1. CASE k < n /\ n <= k + Len(to)
    <3>1. n - k \in 1 .. Len(to)
      BY <1>1, <2>1
    <3> QED
      BY <2>1, <3>1 DEF Contents
  <2>2. CASE ~(k < n /\ n <= k + Len(to))
    BY <2>2 DEF Contents
  <2> QED
    BY <2>1, <2>2
<1>3. Patched(m, k, to) = f
  BY DEF Patched, Contents
<1>4. f \in [1 .. Len(m) -> Nat]
  BY <1>2
<1> HIDE DEF f
<1>5. f \in Contents /\ Len(f) = Len(m)
  <2>1. f \in Seq(Nat)
    BY <1>1, <1>4
  <2> QED
    BY <1>1, <1>4, <2>1 DEF Contents
<1> QED
  BY <1>3, <1>5

\* Every run begins where its kind begins.
LEMMA StartPhase ==
  ASSUME Phase, Start
  PROVE  Phase' /\ dir' = dir /\ Idle
<1>1. PICK a \in Jobs :
        LET j == Main(a.action, a.operands) IN
        \/ StartSplit(j) /\ UNCHANGED <<hex, next>>
        \/ StartHexPatch(j) /\ UNCHANGED <<split, next>>
        \/ StartCleanup(j) /\ UNCHANGED <<split, hex>>
        \/ ReadOnly(j) /\ UNCHANGED <<split, hex, next>>
  BY DEF Start
<1> DEFINE j == Main(a.action, a.operands)
<1>2. j.verb = "hexpatch" => j.from \in Contents /\ j.to \in Contents
  BY JobAssumption
<1>9. curr' \in Nat /\ i' \in Nat
  BY <1>1 DEF StartSplit, StartHexPatch, Phase, split, hex
<1>3. dir' = dir /\ Idle /\ pc = "idle"
  BY <1>1 DEF Start, Begin, StartSplit, StartHexPatch, StartCleanup, ReadOnly, Idle
<1> HIDE DEF j
<1>4. CASE StartSplit(j)
  BY <1>2, <1>3, <1>9, <1>4 DEF StartSplit, Begin, Phase, SplitPhases, Exists, File
<1>5. CASE StartHexPatch(j)
  BY <1>2, <1>3, <1>9, <1>5 DEF StartHexPatch, Begin, Phase, SplitPhases, Exists, M
<1>6. CASE StartCleanup(j)
  BY <1>2, <1>3, <1>9, <1>6 DEF StartCleanup, Begin, Phase, SplitPhases, PartNames
<1>7. CASE ReadOnly(j)
  BY <1>2, <1>3, <1>9, <1>7 DEF ReadOnly, Begin, Phase, SplitPhases
<1> QED
  BY <1>1, <1>3, <1>4, <1>5, <1>6, <1>7 DEF j

\* A run that ends keeps the files as they are, or as its last step left them.
LEMMA ExitPhase ==
  ASSUME Phase, NEW s, Exit(s), curr' \in Nat, i' \in Nat,
         \A n \in DOMAIN dir' : dir'[n] \in Contents
  PROVE  Phase'
BY DEF Phase, Exit, SplitPhases

\* split goes on while its file stays as it is.
LEMMA SplitGoesOn ==
  ASSUME Phase, pc \in SplitPhases, NEW p \in SplitPhases, Goto(p),
         curr' \in Nat, p = "search" \/ curr' < Len(File), i' \in Nat, Exists(job.file)', File' = File,
         \A n \in DOMAIN dir' : dir'[n] \in Contents
  PROVE  Phase'
BY DEF Phase, Goto, SplitPhases

\* findDtbOffset finds the first magic.
LEMMA FirstMagic ==
  ASSUME File \in Contents, Magics # {}
  PROVE  Index \in Magics /\ Index \in Nat /\ Index < Len(File)
<1>1. Len(File) \in Nat
  BY DEF Contents
<1>2. Magics \in SUBSET (0 .. Len(File) - 1)
  BY DEF Magics
<1>3. Magics \in SUBSET (0 .. Len(File))
  BY <1>1, <1>2
<1>4. \E k \in Magics : \A l \in Magics : k <= l
  BY <1>1, <1>3, SomeBelow
<1>5. Index \in Magics
  BY <1>4 DEF Index
<1> QED
  BY <1>1, <1>2, <1>5

\* The size that split goes by is not more than that of the file.
LEMMA SizeTyped ==
  ASSUME File \in Contents
  PROVE  sz \in Nat /\ sz <= Len(File) /\ (Len(File) < SizeLimit => sz = Len(File))
BY Modulo, SplitAssumption DEF sz, Contents

\* What is written of a part that is cut is a beginning of it.
LEMMA CutOffTyped ==
  ASSUME NEW c \in Contents, NEW d \in CutOff(c)
  PROVE  d \in Contents /\ \E k \in 0 .. Len(c) : d = SubSeq(c, 1, k)
<1>1. PICK k \in {m \in Cuts : m < Len(c)} : d = SubSeq(c, 1, k)
  BY DEF CutOff
<1>2. k \in Nat /\ k < Len(c) /\ Len(c) \in Nat
  BY <1>1, HostAssumption DEF Contents
<1>3. k \in 0 .. Len(c) /\ 0 + 1 = 1
  BY <1>2
<1>4. SubSeq(c, 0 + 1, k) \in Contents
  BY <1>2, PartTyped
<1> QED
  BY <1>1, <1>3, <1>4

\* A file is a beginning of itself, and so is the empty one.
LEMMA WholeBegins ==
  ASSUME NEW c \in Contents
  PROVE  /\ \E k \in 0 .. Len(c) : c = SubSeq(c, 1, k)
         /\ \E k \in 0 .. Len(c) : <<>> = SubSeq(c, 1, k)
<1>1. Len(c) \in 0 .. Len(c) /\ 0 \in 0 .. Len(c)
  BY DEF Contents
<1>2. SubSeq(c, 1, Len(c)) = c /\ SubSeq(c, 1, 0) = <<>>
  BY DEF Contents
<1> QED
  BY <1>1, <1>2

\* The two parts of the file are files.
LEMMA PartsTyped ==
  ASSUME Phase, pc \in {"kernel", "dtb"}
  PROVE  /\ File \in Contents /\ curr \in Nat /\ curr < Len(File) /\ sz \in Nat
         /\ KernelPart \in Contents /\ DtbPart \in Contents
<1>1. File \in Contents /\ curr \in Nat /\ curr < Len(File)
  BY DEF Phase, SplitPhases, Exists, File
<1>2. sz \in Nat /\ sz <= Len(File) /\ Len(File) \in Nat /\ 0 \in Nat /\ 0 + 1 = 1
  BY <1>1, SizeTyped DEF Contents
<1>3. KernelPart \in Contents
  <2>1. curr <= Len(File)
    BY <1>1, <1>2
  <2>2. SubSeq(File, 0 + 1, curr) \in Contents
    BY <1>1, <1>2, <2>1, PartTyped
  <2> QED
    BY <1>2, <2>2 DEF KernelPart
<1>4. DtbPart \in Contents
  BY <1>1, <1>2, PartTyped DEF DtbPart
<1> QED
  BY <1>1, <1>2, <1>3, <1>4

\* A step that writes c, a beginning of the part, over the file n.
Wrote(n, part, c) ==
  /\ n # job.file /\ Create(n, c) /\ c \in Contents
  /\ \E k \in 0 .. Len(part) : c = SubSeq(part, 1, k)

\* What the writing of the kernel comes to ...
LEMMA KernelWrites ==
  ASSUME Phase, DecompressKernel \/ DumpKernel
  PROVE  /\ pc = "kernel" /\ UNCHANGED split
         /\ dropped' \in {dropped, dropped \union {KERNEL_FILE}}
         /\ \/ UNCHANGED files /\ Exit("exit1")
            \/ KERNEL_FILE = job.file /\ Create(KERNEL_FILE, <<>>) /\ Exit("panic")
            \/ \E c : /\ Wrote(KERNEL_FILE, KernelPart, c)
                      /\ \/ Exit("exit1")
                         \/ /\ Goto("dtb")
                            /\ KERNEL_FILE \in dropped' \/ c = KernelPart
<1>1. pc = "kernel" /\ UNCHANGED split /\ KernelPart \in Contents
  BY PartsTyped DEF DecompressKernel, DumpKernel
<1>2. CASE NotCreated
  BY <1>1, <1>2 DEF NotCreated, files
<1>3. CASE Overwritten(KERNEL_FILE)
  BY <1>1, <1>3 DEF Overwritten
<1>4. CASE DecompressKernel /\ ~NotCreated /\ ~Overwritten(KERNEL_FILE)
  <2>1. KERNEL_FILE # job.file /\ Create(KERNEL_FILE, <<>>)
    BY <1>4 DEF DecompressKernel
  <2>2. Wrote(KERNEL_FILE, KernelPart, <<>>)
    BY <1>1, <2>1, WholeBegins DEF Wrote, Contents
  <2> QED
    BY <1>1, <1>4, <2>2 DEF DecompressKernel
<1>5. CASE DumpKernel /\ ~NotCreated /\ ~Overwritten(KERNEL_FILE)
  <2>1. /\ KERNEL_FILE # job.file /\ Goto("dtb")
        /\ \/ Create(KERNEL_FILE, KernelPart) /\ dropped' = dropped
           \/ /\ dropped' = dropped \union {KERNEL_FILE}
              /\ \E c \in CutOff(KernelPart) : Create(KERNEL_FILE, c)
    BY <1>5 DEF DumpKernel, Dump
  <2>2. CASE Create(KERNEL_FILE, KernelPart) /\ dropped' = dropped
    <3>1. Wrote(KERNEL_FILE, KernelPart, KernelPart)
      BY <1>1, <2>1, <2>2, WholeBegins DEF Wrote
    <3> QED
      BY <1>1, <2>1, <2>2, <3>1
  <2>3. CASE /\ dropped' = dropped \union {KERNEL_FILE}
             /\ \E c \in CutOff(KernelPart) : Create(KERNEL_FILE, c)
    <3>1. PICK c \in CutOff(KernelPart) : Create(KERNEL_FILE, c)
      BY <2>3
    <3>2. Wrote(KERNEL_FILE, KernelPart, c)
      BY <1>1, <2>1, <3>1, CutOffTyped DEF Wrote
    <3> QED
      BY <1>1, <2>1, <2>3, <3>2
  <2> QED
    BY <2>1, <2>2, <2>3
<1> QED
  BY <1>2, <1>3, <1>4, <1>5

\* ... and that of the device tree.
LEMMA DtbWrites ==
  ASSUME Phase, DumpDtb
  PROVE  /\ pc = "dtb" /\ UNCHANGED split
         /\ dropped' \in {dropped, dropped \union {KER_DTB_FILE}}
         /\ \/ UNCHANGED files /\ (Exit("exit1") \/ (Exit("exit0") /\ sz = curr))
            \/ KER_DTB_FILE = job.file /\ Create(KER_DTB_FILE, <<>>) /\ Exit("panic")
            \/ \E c : /\ Wrote(KER_DTB_FILE, DtbPart, c) /\ Exit("exit0")
                      /\ KER_DTB_FILE \in dropped' \/ c = DtbPart
<1>1. pc = "dtb" /\ UNCHANGED split /\ DtbPart \in Contents
  BY PartsTyped DEF DumpDtb
<1>2. CASE NotCreated \/ sz = curr
  BY <1>1, <1>2 DEF DumpDtb, NotCreated, files
<1>3. CASE Overwritten(KER_DTB_FILE)
  BY <1>1, <1>3 DEF Overwritten
<1>4. CASE ~NotCreated /\ ~Overwritten(KER_DTB_FILE) /\ sz # curr
  <2>1. /\ KER_DTB_FILE # job.file /\ Exit("exit0")
        /\ \/ Create(KER_DTB_FILE, DtbPart) /\ dropped' = dropped
           \/ /\ dropped' = dropped \union {KER_DTB_FILE}
              /\ \E c \in CutOff(DtbPart) : Create(KER_DTB_FILE, c)
    BY <1>4 DEF DumpDtb, Dump
  <2>2. CASE Create(KER_DTB_FILE, DtbPart) /\ dropped' = dropped
    <3>1. Wrote(KER_DTB_FILE, DtbPart, DtbPart)
      BY <1>1, <2>1, <2>2, WholeBegins DEF Wrote
    <3> QED
      BY <1>1, <2>1, <2>2, <3>1
  <2>3. CASE /\ dropped' = dropped \union {KER_DTB_FILE}
             /\ \E c \in CutOff(DtbPart) : Create(KER_DTB_FILE, c)
    <3>1. PICK c \in CutOff(DtbPart) : Create(KER_DTB_FILE, c)
      BY <2>3
    <3>2. Wrote(KER_DTB_FILE, DtbPart, c)
      BY <1>1, <2>1, <3>1, CutOffTyped DEF Wrote
    <3> QED
      BY <1>1, <2>1, <2>3, <3>2
  <2> QED
    BY <2>1, <2>2, <2>3
<1> QED
  BY <1>2, <1>3, <1>4

\* What a process that is killed has written.
LEMMA KilledWrites ==
  ASSUME Phase, KilledInDump
  PROVE  \/ pc = "kernel" /\ \E c : Wrote(KERNEL_FILE, KernelPart, c)
         \/ pc = "dtb" /\ \E c : Wrote(KER_DTB_FILE, DtbPart, c)
<1>1. CASE pc = "kernel"
  <2>1. KernelPart \in Contents /\ <<>> \in Contents
    BY <1>1, PartsTyped DEF Contents
  <2>2. PICK c \in IF Decompressing THEN {<<>>} ELSE CutOff(KernelPart) :
          Create(KERNEL_FILE, c)
    BY <1>1 DEF KilledInDump
  <2>3. c \in Contents /\ \E k \in 0 .. Len(KernelPart) : c = SubSeq(KernelPart, 1, k)
    BY <2>1, WholeBegins, CutOffTyped
  <2>4. KERNEL_FILE # job.file
    BY <1>1 DEF KilledInDump
  <2> QED
    BY <1>1, <2>2, <2>3, <2>4 DEF Wrote
<1>2. CASE pc = "dtb"
  <2>1. DtbPart \in Contents
    BY <1>2, PartsTyped
  <2>2. KER_DTB_FILE # job.file /\ \E c \in CutOff(DtbPart) : Create(KER_DTB_FILE, c)
    BY <1>2 DEF KilledInDump
  <2>3. PICK c \in CutOff(DtbPart) : Create(KER_DTB_FILE, c)
    BY <2>2
  <2> QED
    BY <1>2, <2>1, <2>2, <2>3, CutOffTyped DEF Wrote
<1> QED
  BY <1>1, <1>2 DEF KilledInDump

\* A part that is written leaves the other files as they are, and the image.
LEMMA WroteFiles ==
  ASSUME Phase, NEW n, NEW part, NEW c, Wrote(n, part, c), job' = job, Exists(job.file)
  PROVE  /\ n \in DOMAIN dir' /\ dir'[n] = c /\ Beginning(n, part)'
         /\ \A m \in DOMAIN dir' : dir'[m] \in Contents
         /\ Exists(job.file)' /\ File' = File /\ M' = M
         /\ \A m : m # n => (m \in DOMAIN dir' <=> m \in DOMAIN dir)
         /\ \A m \in DOMAIN dir : m # n => dir'[m] = dir[m]
<1>1. dir' = With(n, c) /\ c \in Contents /\ n # job.file
  BY DEF Wrote, Create
<1> QED
  BY <1>1, WithTyped, OthersStay DEF Phase, Beginning, Wrote, With

LEMMA SplitPhase ==
  ASSUME Phase, SplitStep, UNCHANGED <<hex, next>>
  PROVE  Phase'
<1>1. pc \in SplitPhases /\ File \in Contents /\ curr \in Nat /\ i' \in Nat
  BY StepsOf DEF Phase, Exists, File, hex
<1>2. Exists(job.file)
  BY <1>1 DEF Phase
<1>3. CASE Search
  <2>1. dir' = dir
    BY <1>3 DEF Search, files
  <2>2. Magics # {} => Index \in Nat
    BY <1>1, FirstMagic
  <2>3. curr' \in Nat
    BY <1>1, <1>3, <2>2 DEF Search, HeaderWords
  <2>4. \/ \E s : Exit(s)
        \/ Goto("search")
        \/ Goto("format") /\ Magics # {} /\ curr' = Index
    BY <1>3 DEF Search
  <2>5. job' = job
    BY <2>4 DEF Exit, Goto
  <2>6. Exists(job.file)' /\ File' = File
    BY <1>2, <2>1, <2>5 DEF Exists, File
  <2>7. \A n \in DOMAIN dir' : dir'[n] \in Contents
    BY <2>1 DEF Phase
  <2>8. Magics # {} => Index < Len(File)
    BY <1>1, FirstMagic
  <2>9. CASE \E s : Exit(s)
    BY <1>1, <2>3, <2>7, <2>9, ExitPhase
  <2>10. CASE Goto("search")
    BY <1>1, <2>3, <2>6, <2>7, <2>10, SplitGoesOn DEF SplitPhases
  <2>11. CASE Goto("format") /\ Magics # {} /\ curr' = Index
    BY <1>1, <2>3, <2>6, <2>7, <2>8, <2>11, SplitGoesOn DEF SplitPhases
  <2> QED
    BY <2>4, <2>9, <2>10, <2>11
<1>4. CASE CheckFmtLg
  <2>1. dir' = dir /\ curr' = curr
    BY <1>4 DEF CheckFmtLg, files
  <2>2. \E p \in SplitPhases : Goto(p)
    BY <1>4 DEF CheckFmtLg, SplitPhases
  <2>3. job' = job
    BY <2>2 DEF Goto
  <2>4. Exists(job.file)' /\ File' = File
    BY <1>2, <2>1, <2>3 DEF Exists, File
  <2>5. \A n \in DOMAIN dir' : dir'[n] \in Contents
    BY <2>1 DEF Phase
  <2>6. curr < Len(File)
    BY <1>4 DEF CheckFmtLg, Phase, SplitPhases
  <2> QED
    BY <1>1, <2>6, <2>1, <2>2, <2>4, <2>5, SplitGoesOn
<1>5. CASE DecompressKernel \/ DumpKernel \/ DumpDtb
  <2>1. /\ pc \in {"kernel", "dtb"} /\ curr' = curr
        /\ \/ UNCHANGED files /\ \E s : Exit(s)
           \/ \E n : Create(n, <<>>) /\ \E s : Exit(s)
           \/ /\ \E n, part, c : Wrote(n, part, c)
              /\ (\E s : Exit(s)) \/ (\E p \in SplitPhases : Goto(p))
    <3>1. CASE DecompressKernel \/ DumpKernel
      BY <3>1, KernelWrites DEF split, SplitPhases
    <3>2. CASE DumpDtb
      BY <3>2, DtbWrites DEF split
    <3> QED
      BY <1>5, <3>1, <3>2
  <2>2. curr < Len(File)
    BY <2>1, PartsTyped
  <2>3. CASE UNCHANGED files /\ \E s : Exit(s)
    <3>1. \A n \in DOMAIN dir' : dir'[n] \in Contents
      BY <2>3 DEF files, Phase
    <3> QED
      BY <1>1, <2>1, <2>3, <3>1, ExitPhase
  <2>4. CASE \E n : Create(n, <<>>) /\ \E s : Exit(s)
    <3>1. <<>> \in Contents
      BY DEF Contents
    <3>2. \A m \in DOMAIN dir' : dir'[m] \in Contents
      BY <2>4, <3>1, WithTyped DEF Create, Phase
    <3> QED
      BY <1>1, <2>1, <2>4, <3>2, ExitPhase
  <2>5. CASE /\ \E n, part, c : Wrote(n, part, c)
             /\ (\E s : Exit(s)) \/ (\E p \in SplitPhases : Goto(p))
    <3>1. job' = job
      BY <2>5 DEF Exit, Goto
    <3>2. /\ \A m \in DOMAIN dir' : dir'[m] \in Contents
          /\ Exists(job.file)' /\ File' = File
      BY <1>2, <2>5, <3>1, WroteFiles
    <3>3. CASE \E s : Exit(s)
      BY <1>1, <2>1, <3>2, <3>3, ExitPhase
    <3>4. CASE \E p \in SplitPhases : Goto(p)
      BY <1>1, <2>1, <2>2, <3>2, <3>4, SplitGoesOn
    <3> QED
      BY <2>5, <3>3, <3>4
  <2> QED
    BY <2>1, <2>3, <2>4, <2>5
<1> QED
  BY <1>3, <1>4, <1>5 DEF SplitStep

\* hexpatch changes the bytes of its file, not their number.
LEMMA ScanKeeps ==
  ASSUME Phase, Scan
  PROVE  \/ Exit("panic") /\ UNCHANGED <<dir, i, patched, before>> /\ M' = M
         \/ /\ Goto("scan") /\ ~Overruns(i) /\ i' = i + 1 /\ before' = before
            /\ M' \in Contents /\ Len(M') = Len(M)
            /\ \/ /\ Matches(i) /\ M' = Patched(M, i, job.to) /\ patched'
                  /\ dir' = With(job.file, M')
               \/ ~Matches(i) /\ M' = M /\ patched' = patched /\ dir' = dir
<1>1. Exists(job.file) /\ M \in Contents /\ job.to \in Contents /\ i \in Nat
  BY DEF Scan, Phase, Exists, M
<1>2. CASE Overruns(i)
  BY <1>2 DEF Scan, Exit, M
<1>3. CASE ~Overruns(i) /\ Matches(i)
  <2>1. job' = job /\ dir' = With(job.file, Patched(M, i, job.to))
    BY <1>3 DEF Scan, Goto
  <2>2. M' = Patched(M, i, job.to)
    BY <2>1 DEF M, With
  <2>3. M' \in Contents /\ Len(M') = Len(M)
    BY <1>1, <2>2, PatchedTyped
  <2> QED
    BY <1>3, <2>1, <2>2, <2>3 DEF Scan
<1>4. CASE ~Overruns(i) /\ ~Matches(i)
  <2>1. job' = job /\ dir' = dir
    BY <1>4 DEF Scan, Goto
  <2>2. M' = M
    BY <2>1 DEF M
  <2> QED
    BY <1>1, <1>4, <2>1, <2>2 DEF Scan
<1> QED
  BY <1>2, <1>3, <1>4

LEMMA ScanPhase ==
  ASSUME Phase, Scan, UNCHANGED <<split, next>>
  PROVE  Phase'
<1>1. Exists(job.file) /\ M \in Contents /\ M # <<>> /\ curr' \in Nat /\ i' \in Nat
  BY DEF Scan, Phase, Exists, M, split
<1>2. CASE Exit("panic") /\ dir' = dir
  <2>1. \A n \in DOMAIN dir' : dir'[n] \in Contents
    BY <1>2 DEF Phase
  <2> QED
    BY <1>1, <1>2, <2>1, ExitPhase
<1>3. CASE /\ Goto("scan") /\ M' \in Contents /\ Len(M') = Len(M)
           /\ dir' = With(job.file, M') \/ dir' = dir
  <2>1. \A n \in DOMAIN dir' : dir'[n] \in Contents
    BY <1>3, WithTyped DEF Phase
  <2>2. Exists(job.file)'
    BY <1>1, <1>3 DEF Exists, Goto, With
  <2>3. M' # <<>>
    BY <1>1, <1>3 DEF Contents
  <2> QED
    BY <1>1, <1>3, <2>1, <2>2, <2>3 DEF Scan, Phase, Goto, SplitPhases
<1> QED
  BY <1>2, <1>3, ScanKeeps

LEMMA CleanupPhase ==
  ASSUME Phase, Cleanup
  PROVE  Phase'
<1>1. \A n \in DOMAIN dir' : dir'[n] \in Contents
  BY DEF Cleanup, Phase, Without
<1>2. curr' \in Nat /\ i' \in Nat /\ next \in 1 .. Len(PartNames) + 1
  BY DEF Cleanup, Phase, split, hex
<1>3. CASE next <= Len(PartNames)
  <2>1. next' \in 1 .. Len(PartNames) + 1
    BY <1>2, <1>3 DEF Cleanup, PartNames
  <2> QED
    BY <1>1, <1>2, <1>3, <2>1 DEF Cleanup, Phase, Goto, SplitPhases
<1>4. CASE ~(next <= Len(PartNames))
  BY <1>1, <1>2, <1>4, ExitPhase DEF Cleanup
<1> QED
  BY <1>3, <1>4

LEMMA NextPhase == Phase /\ [Next]_vars => Phase'
<1> SUFFICES ASSUME Phase, [Next]_vars
             PROVE  Phase'
  OBVIOUS
<1>1. CASE Start
  BY <1>1, StartPhase
<1>2. CASE Killed \/ (EndScan /\ UNCHANGED <<split, next>>)
  <2>1. /\ \E s : Exit(s)
        /\ curr' \in Nat /\ i' \in Nat
    BY <1>2 DEF Killed, EndScan, Phase, split, hex
  <2>2. \A n \in DOMAIN dir' : dir'[n] \in Contents
    <3>1. CASE dir' = dir
      BY <3>1 DEF Phase
    <3>2. CASE KilledInDump
      <4>1. /\ pc \in {"kernel", "dtb"} /\ \E n, part, c : Wrote(n, part, c)
        BY <3>2, KilledWrites
      <4>2. job' = job /\ Exists(job.file)
        BY <2>1, <4>1 DEF Exit, Phase, SplitPhases
      <4> QED
        BY <4>1, <4>2, WroteFiles
    <3> QED
      BY <1>2, <3>1, <3>2 DEF Killed, EndScan, files
  <2> QED
    BY <2>1, <2>2, ExitPhase
<1>3. CASE SplitStep /\ UNCHANGED <<hex, next>>
  BY <1>3, SplitPhase
<1>4. CASE Scan /\ UNCHANGED <<split, next>>
  BY <1>4, ScanPhase
<1>5. CASE Cleanup
  BY <1>5, CleanupPhase
<1>6. CASE UNCHANGED vars
  BY <1>6 DEF vars, host, files, split, hex, Phase, SplitPhases, Exists, File, M
<1> QED
  BY <1>1, <1>2, <1>3, <1>4, <1>5, <1>6 DEF Next, Step, HexPatchStep

LEMMA PhaseInvariant == Spec => []Phase
<1>1. Init => Phase
  BY HostAssumption DEF Init, Phase, SplitPhases, NoJob
<1> QED
  BY <1>1, NextPhase, PTL DEF Spec
-----------------------------------------------------------------------------
(* What a run leaves alone.                                                *)

LEMMA NextChanges ==
  ASSUME Phase, Next, NEW n, n \notin Parts,
         ~(job.verb = "hexpatch" /\ n = job.file),
         n \in DOMAIN dir \union DOMAIN dir'
  PROVE  n \in DOMAIN dir /\ n \in DOMAIN dir' /\ dir'[n] = dir[n]
<1>1. PartNames[2] = KERNEL_FILE /\ PartNames[5] = KER_DTB_FILE
      /\ DOMAIN PartNames = 1 .. Len(PartNames)
  BY DEF PartNames
<1>2. n # KERNEL_FILE /\ n # KER_DTB_FILE /\ \A k \in 1 .. Len(PartNames) : n # PartNames[k]
  BY <1>1 DEF Parts, PartNames
<1>3. CASE Start
  BY <1>3, StartPhase
<1>4. CASE EndScan
  BY <1>4 DEF EndScan, files
<1>5. CASE SplitStep
  BY <1>2, <1>5 DEF SplitStep, Search, CheckFmtLg, DecompressKernel, DumpKernel, DumpDtb,
     Dump, NotCreated, Overwritten, Create, With, files
<1>8. CASE Killed
  BY <1>2, <1>8 DEF Killed, KilledInDump, Create, With
<1>6. CASE Scan
  <2>1. n # job.file
    BY <1>6 DEF Scan, Phase
  <2> QED
    BY <1>6, <2>1 DEF Scan, With
<1>7. CASE Cleanup
  <2>1. next \in 1 .. Len(PartNames) + 1
    BY <1>7 DEF Cleanup, Phase
  <2>2. CASE dir' = dir
    BY <2>2
  <2>3. CASE next <= Len(PartNames) /\ dir' = Without(PartNames[next])
    <3>1. n # PartNames[next]
      BY <1>2, <2>1, <2>3 DEF PartNames
    <3> QED
      BY <2>3, <3>1 DEF Without
  <2> QED
    BY <1>7, <2>2, <2>3 DEF Cleanup
<1> QED
  BY <1>3, <1>4, <1>5, <1>6, <1>7, <1>8 DEF Next, Step, HexPatchStep

\* Whatever the directory and the command lines: of the files that are not the
\* parts, hexpatch changes the one it is given, and no other run any.
THEOREM FilesLeftAlone == Spec => OnlyPartsChange
<1> DEFINE Same == \A n \in (DOMAIN dir \union DOMAIN dir') \ Parts :
              ~(job.verb = "hexpatch" /\ n = job.file) =>
                n \in DOMAIN dir /\ n \in DOMAIN dir' /\ dir'[n] = dir[n]
<1>1. Phase /\ [Next]_vars => [Same]_vars
  BY NextChanges
<1> HIDE DEF Same
<1>2. Spec => [][Same]_vars
  BY <1>1, PhaseInvariant, PTL DEF Spec
<1> QED
  BY <1>2 DEF OnlyPartsChange, Same

-----------------------------------------------------------------------------
(* cleanup                                                                 *)

\* The names that cleanup has passed are not there, but those whose removal
\* has failed; and split makes no other files than two that are on the list.
Removed ==
  /\ made \subseteq {KERNEL_FILE, KER_DTB_FILE}
  /\ pc = "cleanup" =>
       \A k \in 1 .. next - 1 : PartNames[k] \in DOMAIN dir => PartNames[k] \in dropped
  /\ CleanupRemovesParts

LEMMA NextRemoved == Phase /\ Removed /\ [Next]_vars => Removed'
<1> SUFFICES ASSUME Phase, Removed, [Next]_vars
             PROVE  Removed'
  OBVIOUS
<1>1. PartNames[2] = KERNEL_FILE /\ PartNames[5] = KER_DTB_FILE /\ Len(PartNames) = 10
  BY DEF PartNames
<1>2. CASE Start
  <2>1. PICK a \in Jobs :
          LET j == Main(a.action, a.operands) IN
          \/ StartSplit(j) \/ StartHexPatch(j) \/ StartCleanup(j) \/ ReadOnly(j)
    BY <1>2 DEF Start
  <2>2. made' = made
    BY <2>1 DEF StartSplit, StartHexPatch, StartCleanup, ReadOnly, Begin
  <2>3. pc' = "cleanup" => next' = 1
    BY <1>2, <2>1 DEF Start, StartSplit, StartHexPatch, StartCleanup, ReadOnly, Idle
  <2>4. Idle' => job'.verb # "cleanup"
    BY <1>2, <2>1 DEF Start, StartSplit, StartHexPatch, StartCleanup, ReadOnly, Idle, Begin
  <2> QED
    BY <2>2, <2>3, <2>4 DEF Removed, CleanupRemovesParts
<1>3. CASE Killed
  <2>1. made' \subseteq {KERNEL_FILE, KER_DTB_FILE}
    BY <1>3 DEF Killed, KilledInDump, Create, Removed
  <2> QED
    BY <1>3, <2>1 DEF Killed, Exit, Removed, CleanupRemovesParts, Idle
<1>4. CASE SplitStep \/ HexPatchStep
  <2>1. pc \in SplitPhases \union {"scan"}
    BY <1>4, StepsOf
  <2>2. job' = job /\ job.verb # "cleanup" /\ pc' # "cleanup"
    BY <1>4, <2>1 DEF Phase, SplitPhases, SplitStep, Search, CheckFmtLg, DecompressKernel,
       DumpKernel, DumpDtb, Dump, NotCreated, Overwritten, HexPatchStep, Scan, EndScan,
       Goto, Exit
  <2>3. made' \subseteq {KERNEL_FILE, KER_DTB_FILE}
    <3>1. made' \subseteq made \union {KERNEL_FILE, KER_DTB_FILE}
      BY <1>4 DEF SplitStep, Search, CheckFmtLg, DecompressKernel, DumpKernel, DumpDtb,
         Dump, NotCreated, Overwritten, Create, HexPatchStep, Scan, EndScan, files
    <3> QED
      BY <3>1 DEF Removed
  <2> QED
    BY <2>2, <2>3 DEF Removed, CleanupRemovesParts
<1>5. CASE Cleanup
  <2>1. /\ next \in 1 .. Len(PartNames) + 1 /\ pc = "cleanup" /\ made' = made
        /\ \A k \in 1 .. next - 1 : PartNames[k] \in DOMAIN dir => PartNames[k] \in dropped
    BY <1>5 DEF Cleanup, Phase, Removed
  <2>2. CASE next <= Len(PartNames) /\ next' = next + 1 /\ Goto("cleanup")
    <3>1. \/ dir' = Without(PartNames[next]) /\ dropped' = dropped
          \/ dir' = dir /\ dropped' = dropped \union {PartNames[next]}
      BY <1>5, <2>2 DEF Cleanup
    <3>2. \A k \in 1 .. next' - 1 : k = next \/ k \in 1 .. next - 1
      BY <2>1, <2>2
    <3>3. \A k \in 1 .. next' - 1 : PartNames[k] \in DOMAIN dir' => PartNames[k] \in dropped'
      BY <2>1, <3>1, <3>2 DEF Without
    <3> QED
      BY <2>1, <2>2, <3>3 DEF Removed, CleanupRemovesParts, Idle, Goto
  <2>3. CASE next > Len(PartNames) /\ Exit("exit0") /\ UNCHANGED <<dir, dropped, next>>
    <3>1. next - 1 = 10 /\ pc' = "idle"
      BY <1>1, <2>1, <2>3 DEF Exit
    <3>2. \A n \in {KERNEL_FILE, KER_DTB_FILE} : n \in DOMAIN dir => n \in dropped
      BY <1>1, <2>1, <3>1
    <3> QED
      BY <2>1, <2>3, <3>1, <3>2 DEF Removed, CleanupRemovesParts
  <2> QED
    BY <1>5, <2>2, <2>3 DEF Cleanup
<1>6. CASE UNCHANGED vars
  BY <1>6 DEF vars, host, files, Removed, CleanupRemovesParts, Idle
<1> QED
  BY <1>2, <1>3, <1>4, <1>5, <1>6 DEF Next, Step

\* Every file that runs have created is gone after a cleanup, whatever they were,
\* wherever they were killed and whatever the host failed to do, but those that
\* the host has not removed.
THEOREM CleanupComplete == Spec => []CleanupRemovesParts
<1>1. Init => Removed
  BY DEF Init, Removed, CleanupRemovesParts, NoJob
<1>2. Spec => []Removed
  BY <1>1, NextRemoved, PhaseInvariant, PTL DEF Spec
<1> QED
  BY <1>2, PTL DEF Removed

-----------------------------------------------------------------------------
(* hexpatch                                                                *)

\* The occurrences that the scan has passed.
Behind == {k \in Occurrences(before) : k < i}

\* Where occurrences keep apart, those that the scan has passed are replaced,
\* and nothing else.
Scanned ==
  /\ pc = "scan" =>
       /\ before \in Contents /\ Len(M) = Len(before) /\ i <= Len(M)
       /\ i > 0 => job.from # <<>>
       /\ Separate => M = ReplacedAt(before, Behind) /\ (patched <=> Behind # {})
  /\ PatchReplaces

\* Nothing replaced.
LEMMA ReplaceNone ==
  ASSUME NEW c \in Contents
  PROVE  ReplacedAt(c, {}) = c
BY DEF ReplacedAt, Contents

\* A round matches where there is an occurrence.
LEMMA MatchOccurs ==
  ASSUME M \in Contents, job.from \in Contents, job.from # <<>>, i \in Nat
  PROVE  Matches(i) <=> i \in Occurrences(M)
<1>1. Len(job.from) \in 0 .. Len(job.from) /\ Len(M) \in Nat
      /\ SubSeq(job.from, 1, Len(job.from)) = job.from
  BY DEF Contents
<1>2. Matches(i) <=> i + Len(job.from) <= Len(M)
                     /\ SubSeq(M, i + 1, i + Len(job.from)) = SubSeq(job.from, 1, Len(job.from))
  BY <1>1 DEF Matches, Agreeing
<1>3. i \in 0 .. Len(M) - Len(job.from) <=> i + Len(job.from) <= Len(M)
  BY <1>1
<1> QED
  BY <1>1, <1>2, <1>3 DEF Occurrences, Occurs

\* One more occurrence replaced.
LEMMA ReplaceOneMore ==
  ASSUME before \in Contents, job.from \in Contents, job.to \in Contents, Separate,
         NEW S \in SUBSET Occurrences(before), NEW o \in Occurrences(before)
  PROVE  Patched(ReplacedAt(before, S), o, job.to) = ReplacedAt(before, S \union {o})
<1> DEFINE covers(k, n) == k < n /\ n <= k + Len(job.to)
           T == S \union {o}
<1>1. Len(job.to) = Len(job.from) /\ Len(job.to) \in Nat /\ Occurrences(before) \subseteq Int
  BY DEF Separate, Contents, Occurrences
<1>2. \A k, l \in Occurrences(before) : k < l => k + Len(job.to) <= l
  BY <1>1 DEF Separate
<1>3. DOMAIN before = 1 .. Len(before)
  BY DEF Contents
<1>4. ASSUME NEW n \in DOMAIN before, NEW k \in Occurrences(before),
             NEW l \in Occurrences(before), covers(k, n), covers(l, n)
      PROVE  k = l
  <2>1. k \in Int /\ l \in Int /\ n \in Int
    BY <1>1, <1>3
  <2>2. ~(k < l) /\ ~(l < k)
    BY <1>1, <1>2, <1>4, <2>1
  <2> QED
    BY <2>1, <2>2
<1>5. ASSUME NEW n \in DOMAIN before
      PROVE  Patched(ReplacedAt(before, S), o, job.to)[n] = ReplacedAt(before, T)[n]
  <2>1. Patched(ReplacedAt(before, S), o, job.to)[n] =
          IF covers(o, n) THEN job.to[n - o] ELSE ReplacedAt(before, S)[n]
    BY <1>5 DEF Patched, ReplacedAt
  <2>2. ReplacedAt(before, T)[n] =
          IF \E k \in T : covers(k, n)
          THEN job.to[n - (CHOOSE k \in T : covers(k, n))] ELSE before[n]
    BY <1>5 DEF ReplacedAt
  <2>3. ReplacedAt(before, S)[n] =
          IF \E k \in S : covers(k, n)
          THEN job.to[n - (CHOOSE k \in S : covers(k, n))] ELSE before[n]
    BY <1>5 DEF ReplacedAt
  <2>4. CASE covers(o, n)
    <3>1. (CHOOSE k \in T : covers(k, n)) \in T /\ covers(CHOOSE k \in T : covers(k, n), n)
      BY <2>4
    <3>2. (CHOOSE k \in T : covers(k, n)) = o
      BY <1>4, <2>4, <3>1
    <3> QED
      BY <2>1, <2>2, <2>4, <3>2
  <2>5. CASE ~covers(o, n) /\ \E k \in S : covers(k, n)
    <3>1. PICK k \in S : covers(k, n)
      BY <2>5
    <3>2. /\ (CHOOSE l \in T : covers(l, n)) \in T
          /\ covers(CHOOSE l \in T : covers(l, n), n)
          /\ (CHOOSE l \in S : covers(l, n)) \in S
          /\ covers(CHOOSE l \in S : covers(l, n), n)
      BY <3>1
    <3>3. (CHOOSE l \in T : covers(l, n)) = k /\ (CHOOSE l \in S : covers(l, n)) = k
      BY <1>4, <3>1, <3>2
    <3> QED
      BY <2>1, <2>2, <2>3, <2>5, <3>1, <3>3
  <2>6. CASE ~covers(o, n) /\ ~\E k \in S : covers(k, n)
    BY <2>1, <2>2, <2>3, <2>6
  <2> QED
    BY <2>4, <2>5, <2>6
<1> DEFINE p == Patched(ReplacedAt(before, S), o, job.to)
           r == ReplacedAt(before, T)
<1>6. /\ p = [n \in DOMAIN before |-> p[n]]
      /\ r = [n \in DOMAIN before |-> r[n]]
  BY DEF Patched, ReplacedAt
<1>7. \A n \in DOMAIN before : p[n] = r[n]
  BY <1>5
<1> HIDE DEF p, r
<1>8. p = r
  BY <1>6, <1>7
<1> QED
  BY <1>8 DEF p, r

LEMMA StartScanned ==
  ASSUME Phase, Scanned, Start
  PROVE  Scanned'
<1>1. PICK a \in Jobs :
        LET j == Main(a.action, a.operands) IN
        \/ StartSplit(j)
        \/ StartHexPatch(j)
        \/ StartCleanup(j)
        \/ ReadOnly(j)
  BY DEF Start
<1> DEFINE j == Main(a.action, a.operands)
<1> HIDE DEF j
<1>2. dir' = dir
  BY StartPhase
<1>3. CASE StartSplit(j)
  BY <1>3 DEF StartSplit, Begin, Scanned, PatchReplaces, HexDone, Idle
<1>4. CASE StartCleanup(j)
  BY <1>4 DEF StartCleanup, Begin, Scanned, PatchReplaces, HexDone, Idle
<1>5. CASE ReadOnly(j)
  BY <1>5 DEF ReadOnly, Begin, Start, Scanned, PatchReplaces, HexDone, Idle
<1>6. CASE StartHexPatch(j) /\ (~Exists(j.file) \/ dir[j.file] = <<>>)
  <2>1. job' = j /\ pc' = "idle"
    BY <1>6 DEF StartHexPatch, Begin
  <2> QED
    BY <1>2, <1>6, <2>1 DEF Scanned, PatchReplaces, HexDone, Exists, M
<1>7. CASE StartHexPatch(j) /\ ~(~Exists(j.file) \/ dir[j.file] = <<>>)
  <2>1. /\ job' = j /\ pc' = "scan" /\ i' = 0 /\ patched' = FALSE
        /\ before' = dir[j.file] /\ M' = before' /\ before' \in Contents
    BY <1>2, <1>7 DEF StartHexPatch, Begin, M, Exists, Phase
  <2>2. Behind' = {}
    <3>1. Behind' \subseteq 0 .. Len(before') - Len(job'.from)
      BY DEF Behind, Occurrences
    <3>2. \A k \in Behind' : k < i'
      BY DEF Behind
    <3> QED
      BY <2>1, <3>1, <3>2
  <2>3. ReplacedAt(before, Behind)' = before'
    BY <2>1, <2>2 DEF ReplacedAt, Contents
  <2>4. Len(before') \in Nat
    BY <2>1 DEF Contents
  <2> QED
    BY <2>1, <2>2, <2>3, <2>4 DEF Scanned, PatchReplaces, HexDone, Idle
<1> QED
  BY <1>1, <1>3, <1>4, <1>5, <1>6, <1>7 DEF j

LEMMA ScanScanned ==
  ASSUME Phase, Scanned, Scan
  PROVE  Scanned'
<1>1. /\ pc = "scan" /\ M \in Contents /\ i \in Nat /\ Len(M) \in Nat /\ i < Len(M)
      /\ job.from \in Contents /\ job.to \in Contents
      /\ before \in Contents /\ Len(M) = Len(before)
  BY DEF Scan, Scanned, Phase, Exists, M, Contents
<1>2. CASE Exit("panic")
  BY <1>2 DEF Exit, Scanned, PatchReplaces, HexDone
<1>3. CASE /\ Goto("scan") /\ ~Overruns(i) /\ i' = i + 1 /\ before' = before
           /\ M' \in Contents /\ Len(M') = Len(M)
           /\ \/ Matches(i) /\ M' = Patched(M, i, job.to) /\ patched'
              \/ ~Matches(i) /\ M' = M /\ patched' = patched
  <2>1. job.from # <<>> /\ job' = job /\ pc' = "scan"
    BY <1>3 DEF Overruns, Goto
  <2>2. (Separate' <=> Separate) /\ Occurrences(before)' = Occurrences(before)
    BY <1>3, <2>1 DEF Separate, Occurrences, Occurs, ReplacedAt
  <2>3. \A S : ReplacedAt(before, S)' = ReplacedAt(before, S)
    BY <1>3, <2>1 DEF ReplacedAt
  <2>4. ASSUME Separate
        PROVE  M' = ReplacedAt(before, Behind') /\ (patched' <=> Behind' # {})
    <3>1. M = ReplacedAt(before, Behind) /\ (patched <=> Behind # {})
          /\ Behind \in SUBSET Occurrences(before)
      BY <1>1, <2>4 DEF Scanned, Behind
    <3>2. Occurrences(M) = Occurrences(before) \ Behind
      BY <2>4, <3>1 DEF Separate
    <3>3. i \notin Behind
      BY <1>1 DEF Behind
    <3>4. Matches(i) <=> i \in Occurrences(before)
      BY <1>1, <2>1, <3>2, <3>3, MatchOccurs
    <3>5. Behind' = {k \in Occurrences(before) : k < i + 1}
      BY <1>3, <2>2 DEF Behind
    <3>6. Occurrences(before) \subseteq Int
      BY DEF Occurrences
    <3>7. CASE Matches(i)
      <4>1. Behind' = Behind \union {i}
        BY <1>1, <3>4, <3>5, <3>6, <3>7 DEF Behind
      <4>2. M' = ReplacedAt(before, Behind \union {i})
        BY <1>1, <1>3, <2>4, <3>1, <3>4, <3>7, ReplaceOneMore
      <4> QED
        BY <1>3, <3>7, <4>1, <4>2
    <3>8. CASE ~Matches(i)
      <4>1. Behind' = Behind
        BY <1>1, <3>4, <3>5, <3>6, <3>8 DEF Behind
      <4> QED
        BY <1>3, <3>1, <3>8, <4>1
    <3> QED
      BY <3>7, <3>8
  <2>5. Separate' => M' = ReplacedAt(before, Behind)' /\ (patched' <=> Behind' # {})
    <3>1. ReplacedAt(before, Behind)' = ReplacedAt(before, Behind')
      BY <1>3, <2>1 DEF ReplacedAt
    <3> QED
      BY <2>2, <2>4, <3>1
  <2> QED
    BY <1>1, <1>3, <2>1, <2>5 DEF Scanned, PatchReplaces, HexDone, Idle
<1> QED
  BY <1>2, <1>3, ScanKeeps

LEMMA EndScanned ==
  ASSUME Phase, Scanned, EndScan
  PROVE  Scanned'
<1>1. /\ pc = "scan" /\ M \in Contents /\ i = Len(M) /\ i \in Nat /\ i > 0
      /\ job.from \in Contents /\ job.from # <<>>
      /\ before \in Contents /\ Len(M) = Len(before)
  <2>1. M \in Contents /\ M # <<>> /\ pc = "scan" /\ i = Len(M)
    BY DEF EndScan, Phase, Exists, M
  <2>2. Len(M) \in Nat /\ Len(M) > 0
    BY <2>1 DEF Contents
  <2> QED
    BY <2>1, <2>2 DEF Scanned, Phase
<1>2. /\ UNCHANGED <<dir, i, patched, before, job>> /\ pc' = "idle"
      /\ status' = IF patched THEN "exit0" ELSE "exit1"
  BY DEF EndScan, Exit, files, hex
<1>3. M' = M /\ (Separate' <=> Separate) /\ Occurrences(before)' = Occurrences(before)
      /\ ReplacedAt(before, Occurrences(before))' = ReplacedAt(before, Occurrences(before))
  BY <1>2 DEF M, Separate, Occurrences, Occurs, ReplacedAt
<1>4. Behind = Occurrences(before)
  <2>1. Len(job.from) \in Nat /\ Len(job.from) > 0
    BY <1>1 DEF Contents
  <2>2. \A k \in Occurrences(before) : k \in Int /\ k <= Len(before) - Len(job.from)
    BY <1>1, <2>1 DEF Occurrences
  <2> QED
    BY <1>1, <2>1, <2>2 DEF Behind
<1>5. Separate => M = ReplacedAt(before, Occurrences(before))
                  /\ (patched <=> Occurrences(before) # {})
  BY <1>1, <1>4 DEF Scanned
<1>6. Separate /\ ~patched => M = before
  BY <1>1, <1>5, ReplaceNone
<1> QED
  BY <1>2, <1>3, <1>5, <1>6 DEF Scanned, PatchReplaces, HexDone

LEMMA NextScanned == Phase /\ Scanned /\ [Next]_vars => Scanned'
<1> SUFFICES ASSUME Phase, Scanned, [Next]_vars
             PROVE  Scanned'
  OBVIOUS
<1>1. CASE Killed
  BY <1>1 DEF Killed, Exit, Scanned, PatchReplaces, HexDone
<1>2. CASE SplitStep \/ Cleanup
  <2>1. job' = job /\ job.verb # "hexpatch" /\ pc' # "scan"
    BY <1>2, StepsOf DEF Phase, SplitPhases, SplitStep, Search, CheckFmtLg, DecompressKernel,
       DumpKernel, DumpDtb, Dump, NotCreated, Overwritten, Cleanup, Goto, Exit
  <2> QED
    BY <2>1 DEF Scanned, PatchReplaces, HexDone
<1>3. CASE UNCHANGED vars
  <2>1. UNCHANGED <<dir, job, pc, status, i, patched, before>>
    BY <1>3 DEF vars, host, files, hex
  <2>2. /\ M' = M /\ Exists(job.file)' = Exists(job.file)
        /\ Occurrences(before)' = Occurrences(before) /\ Behind' = Behind
    BY <2>1 DEF M, Exists, Occurrences, Occurs, Behind
  <2>3. \A S : ReplacedAt(before, S)' = ReplacedAt(before, S)
    BY <2>1 DEF ReplacedAt
  <2>4. ReplacedAt(before, Behind)' = ReplacedAt(before, Behind)
        /\ ReplacedAt(before, Occurrences(before))' = ReplacedAt(before, Occurrences(before))
    BY <2>1, <2>2 DEF ReplacedAt
  <2>5. Separate' <=> Separate
    BY <2>1 DEF Separate, Occurrences, Occurs, ReplacedAt
  <2> QED
    BY <2>1, <2>2, <2>4, <2>5 DEF Scanned, PatchReplaces, HexDone, Idle
<1> QED
  BY <1>1, <1>2, <1>3, StartScanned, ScanScanned, EndScanned DEF Next, Step, HexPatchStep

\* Whatever the file and the patterns: where the occurrences keep apart, a
\* hexpatch that ends leaves each of them replaced and every other byte as it
\* was, and its exit status tells whether there was one.
THEOREM PatchExact == Spec => []PatchReplaces
<1>1. Init => Scanned
  BY DEF Init, Scanned, PatchReplaces, HexDone, NoJob
<1>2. Spec => []Scanned
  BY <1>1, NextScanned, PhaseInvariant, PTL DEF Spec
<1> QED
  BY <1>2, PTL DEF Scanned

-----------------------------------------------------------------------------
(* split                                                                   *)

\* Where a split is, of an image whose size fits in 32 bits and whose name is
\* not a part's.
Cut ==
  /\ OfImage /\ pc \in SplitPhases =>
       /\ AsBefore(KER_DTB_FILE)
       /\ pc # "dtb" => AsBefore(KERNEL_FILE)
       /\ pc # "search" => Magics # {} /\ curr = Index /\ Accepted(Index)
       /\ pc = "dtb" => Part(KERNEL_FILE, ImageKernel)
  /\ PartsMakeTheImage

\* What split goes by depends on its file only.
LEMMA SameFile ==
  ASSUME File' = File, job' = job, Exists(job.file)' <=> Exists(job.file)
  PROVE  /\ Magics' = Magics /\ Index' = Index /\ Accepted(Index)' = Accepted(Index)
         /\ ImageKernel' = ImageKernel /\ ImageDtb' = ImageDtb
         /\ OfImage' <=> OfImage
<1>1. Magics' = Magics
  BY DEF Magics, Word
<1>2. Index' = Index
  BY <1>1 DEF Index
<1>3. Accepted(Index)' = Accepted(Index)
  BY <1>2 DEF Accepted, HeaderAt, Remaining, Word, sz
<1> QED
  BY <1>1, <1>2, <1>3 DEF ImageKernel, ImageDtb, OfImage

\* What is said of a file depends on that file only.
LEMMA SameParts ==
  ASSUME old' = old, NEW n,
         n \in DOMAIN dir' <=> n \in DOMAIN dir,
         n \in DOMAIN dir => dir'[n] = dir[n],
         n \in dropped' <=> n \in dropped
  PROVE  (AsBefore(n)' <=> AsBefore(n)) /\ \A c : Part(n, c) => Part(n, c)'
BY DEF AsBefore, Part, Beginning

\* The parts of the image, where split writes them.
LEMMA PartsOfImage ==
  ASSUME Phase, Cut, OfImage, pc \in {"kernel", "dtb"}
  PROVE  KernelPart = ImageKernel /\ DtbPart = ImageDtb /\ curr < sz
<1>1. File \in Contents /\ curr < Len(File) /\ curr = Index
  BY PartsTyped DEF Cut, SplitPhases
<1>2. sz = Len(File)
  BY <1>1, SizeTyped DEF OfImage
<1> QED
  BY <1>1, <1>2 DEF KernelPart, DtbPart, ImageKernel, ImageDtb

LEMMA StartCut ==
  ASSUME Phase, Cut, Start
  PROVE  Cut'
<1>1. PICK a \in Jobs :
        LET j == Main(a.action, a.operands) IN
        \/ StartSplit(j)
        \/ StartHexPatch(j)
        \/ StartCleanup(j)
        \/ ReadOnly(j)
  BY DEF Start
<1> DEFINE j == Main(a.action, a.operands)
<1> HIDE DEF j
<1>2. CASE StartSplit(j)
  <2>1. old' = dir /\ dir' = dir /\ (pc' = "search" \/ (pc' = "idle" /\ status' = "exit1"))
    BY <1>2 DEF StartSplit, Begin
  <2>2. \A n : AsBefore(n)'
    BY <2>1 DEF AsBefore
  <2> QED
    BY <2>1, <2>2 DEF Cut, PartsMakeTheImage, SplitDone, Idle, SplitPhases
<1>3. CASE StartHexPatch(j) \/ StartCleanup(j)
  <2>1. job'.verb # "split"
    BY <1>3 DEF StartHexPatch, StartCleanup, Begin
  <2> QED
    BY <2>1 DEF Cut, PartsMakeTheImage, OfImage
<1>4. CASE ReadOnly(j)
  <2>1. job'.verb # "split"
    BY <1>4 DEF ReadOnly, Begin
  <2> QED
    BY <2>1 DEF Cut, PartsMakeTheImage, OfImage
<1> QED
  BY <1>1, <1>2, <1>3, <1>4 DEF j

\* A step that writes nothing.
LEMMA QuietCut ==
  ASSUME Phase, Cut, UNCHANGED <<files, job, old>>, pc \in SplitPhases,
         \/ Idle' /\ status' # "exit0"
         \/ /\ pc \in {"search", "format"} /\ pc' \in {"search", "format", "kernel"}
            /\ OfImage /\ pc' # "search" => Magics # {} /\ curr' = Index /\ Accepted(Index)
  PROVE  Cut'
<1>1. dir' = dir /\ File' = File /\ (Exists(job.file)' <=> Exists(job.file))
  BY DEF files, File, Exists
<1>2. OfImage' <=> OfImage
  BY <1>1, SameFile
<1>3. \A n : AsBefore(n)' <=> AsBefore(n)
  BY <1>1 DEF AsBefore
<1>4. Magics' = Magics /\ Index' = Index /\ Accepted(Index)' = Accepted(Index)
      /\ ImageKernel' = ImageKernel
  BY <1>1, SameFile
<1>5. ASSUME OfImage, Idle' PROVE PartsMakeTheImage'
  <2>1. AsBefore(KER_DTB_FILE)' /\ (pc # "dtb" => AsBefore(KERNEL_FILE)') /\ status' # "exit0"
    BY <1>3, <1>5 DEF Cut, Idle
  <2>2. pc = "dtb" => Part(KERNEL_FILE, ImageKernel)'
    BY <1>1, <1>4, <1>5 DEF Cut, Part, Beginning, files
  <2> QED
    BY <2>1, <2>2 DEF PartsMakeTheImage, SplitDone
<1>6. ASSUME OfImage, ~Idle' PROVE Cut'
  <2>1. AsBefore(KER_DTB_FILE)' /\ AsBefore(KERNEL_FILE)'
    BY <1>3, <1>6 DEF Cut, SplitPhases
  <2>2. PartsMakeTheImage'
    BY <1>6, <2>1 DEF PartsMakeTheImage, SplitDone
  <2> QED
    BY <1>4, <1>6, <2>1, <2>2 DEF Cut
<1> QED
  BY <1>2, <1>5, <1>6 DEF Cut, PartsMakeTheImage, SplitPhases, Idle

LEMMA SearchCut ==
  ASSUME Phase, Cut, Search \/ CheckFmtLg
  PROVE  Cut'
<1>1. UNCHANGED <<files, job, old>> /\ pc \in {"search", "format"}
  BY DEF Search, CheckFmtLg, Goto, Exit
<1>2. \/ Idle' /\ status' # "exit0"
      \/ /\ pc' \in {"search", "format", "kernel"}
         /\ OfImage /\ pc' # "search" => Magics # {} /\ curr' = Index /\ Accepted(Index)
  BY DEF Search, CheckFmtLg, Goto, Exit, Idle, Cut, SplitPhases
<1> QED
  BY <1>1, <1>2, QuietCut DEF SplitPhases

\* The two names are two.
LEMMA TwoNames == KERNEL_FILE # KER_DTB_FILE
BY DEF KERNEL_FILE, KER_DTB_FILE

\* A step that writes the kernel, or a beginning of it.
LEMMA KernelCut ==
  ASSUME Phase, Cut, OfImage, pc = "kernel", UNCHANGED <<job, old>>,
         dropped' \in {dropped, dropped \union {KERNEL_FILE}},
         NEW part, part = KernelPart, NEW c, Wrote(KERNEL_FILE, part, c),
         \/ Idle' /\ status' # "exit0"
         \/ pc' = "dtb" /\ curr' = curr /\ (KERNEL_FILE \in dropped' \/ c = part)
  PROVE  Cut'
<1>1. Exists(job.file) /\ part = ImageKernel /\ AsBefore(KER_DTB_FILE)
  BY PartsOfImage DEF OfImage, Cut, SplitPhases
<1>2. /\ KERNEL_FILE \in DOMAIN dir' /\ dir'[KERNEL_FILE] = c /\ Beginning(KERNEL_FILE, part)'
      /\ Exists(job.file)' /\ File' = File
      /\ KER_DTB_FILE \in DOMAIN dir' <=> KER_DTB_FILE \in DOMAIN dir
      /\ KER_DTB_FILE \in DOMAIN dir => dir'[KER_DTB_FILE] = dir[KER_DTB_FILE]
  BY <1>1, WroteFiles, TwoNames
<1>3. /\ Magics' = Magics /\ Index' = Index /\ Accepted(Index)' = Accepted(Index)
      /\ ImageKernel' = ImageKernel /\ OfImage'
  BY <1>1, <1>2, SameFile
<1>4. KER_DTB_FILE \in dropped' <=> KER_DTB_FILE \in dropped
  BY TwoNames
<1>5. AsBefore(KER_DTB_FILE)'
  BY <1>1, <1>2, <1>4, SameParts
<1>7. Beginning(KERNEL_FILE, ImageKernel)'
  BY <1>1, <1>2, <1>3 DEF Beginning
<1>8. CASE Idle' /\ status' # "exit0"
  <2>1. Begun(KERNEL_FILE, ImageKernel)'
    BY <1>7, <1>8 DEF Begun
  <2> QED
    BY <1>5, <1>8, <2>1 DEF Cut, PartsMakeTheImage, SplitDone, Idle, SplitPhases
<1>9. CASE pc' = "dtb" /\ curr' = curr /\ (KERNEL_FILE \in dropped' \/ c = part)
  <2>1. Part(KERNEL_FILE, ImageKernel)'
    BY <1>1, <1>2, <1>3, <1>7, <1>9 DEF Part
  <2>2. Magics' # {} /\ curr' = Index' /\ Accepted(Index)'
    BY <1>3, <1>9 DEF Cut, SplitPhases
  <2> QED
    BY <1>5, <1>9, <2>1, <2>2 DEF Cut, PartsMakeTheImage, SplitDone, Idle
<1> QED
  BY <1>8, <1>9

\* A step that writes the device tree, or a beginning of it, and ends.
LEMMA DtbCut ==
  ASSUME Phase, Cut, OfImage, pc = "dtb", UNCHANGED <<job, old>>,
         dropped' \in {dropped, dropped \union {KER_DTB_FILE}},
         NEW part, part = DtbPart, NEW c, Wrote(KER_DTB_FILE, part, c),
         Idle', status' = "exit0" => KER_DTB_FILE \in dropped' \/ c = part
  PROVE  Cut'
<1>1. /\ Exists(job.file) /\ part = ImageDtb /\ Part(KERNEL_FILE, ImageKernel)
      /\ Magics # {} /\ Accepted(Index)
  BY PartsOfImage DEF OfImage, Cut, SplitPhases
<1>2. /\ KER_DTB_FILE \in DOMAIN dir' /\ dir'[KER_DTB_FILE] = c /\ Beginning(KER_DTB_FILE, part)'
      /\ Exists(job.file)' /\ File' = File
      /\ KERNEL_FILE \in DOMAIN dir' <=> KERNEL_FILE \in DOMAIN dir
      /\ KERNEL_FILE \in DOMAIN dir => dir'[KERNEL_FILE] = dir[KERNEL_FILE]
  BY <1>1, WroteFiles, TwoNames
<1>3. /\ Magics' = Magics /\ Accepted(Index)' = Accepted(Index)
      /\ ImageKernel' = ImageKernel /\ ImageDtb' = ImageDtb
  BY <1>1, <1>2, SameFile
<1>4. KERNEL_FILE \in dropped' <=> KERNEL_FILE \in dropped
  BY TwoNames
<1>5. Part(KERNEL_FILE, ImageKernel)'
  <2>1. \A d : Part(KERNEL_FILE, d) => Part(KERNEL_FILE, d)'
    BY <1>2, <1>4, SameParts
  <2> QED
    BY <1>1, <1>3, <2>1 DEF Part, Beginning
<1>6. Beginning(KER_DTB_FILE, ImageDtb)'
  BY <1>1, <1>2, <1>3 DEF Beginning
<1>7. status' = "exit0" => Part(KER_DTB_FILE, ImageDtb)'
  BY <1>1, <1>2, <1>3, <1>6 DEF Part
<1>8. status' # "exit0" => Begun(KER_DTB_FILE, ImageDtb)'
  BY <1>6 DEF Begun
<1>9. Magics' # {} /\ Accepted(Index)'
  BY <1>1, <1>3
<1> QED
  BY <1>5, <1>7, <1>8, <1>9 DEF Cut, PartsMakeTheImage, SplitDone, Idle, SplitPhases

\* Of another file nothing is said.
LEMMA NotOfImage ==
  ASSUME ~OfImage'
  PROVE  Cut'
BY DEF Cut, PartsMakeTheImage

\* The image stays one, and what is none does not become one.
LEMMA OfImageStays ==
  ASSUME Phase, pc \in SplitPhases, job' = job, NEW n, NEW part, NEW c, Wrote(n, part, c)
  PROVE  OfImage' <=> OfImage
<1>1. Exists(job.file)
  BY DEF Phase
<1>2. Exists(job.file)' /\ File' = File
  BY <1>1, WroteFiles
<1> QED
  BY <1>1, <1>2, SameFile

LEMMA WriteCut ==
  ASSUME Phase, Cut, DecompressKernel \/ DumpKernel \/ DumpDtb
  PROVE  Cut'
<1>1. CASE DecompressKernel \/ DumpKernel
  <2>1. /\ pc = "kernel" /\ UNCHANGED split
        /\ dropped' \in {dropped, dropped \union {KERNEL_FILE}}
        /\ \/ UNCHANGED files /\ Exit("exit1")
           \/ KERNEL_FILE = job.file /\ Create(KERNEL_FILE, <<>>) /\ Exit("panic")
           \/ \E c : /\ Wrote(KERNEL_FILE, KernelPart, c)
                     /\ \/ Exit("exit1")
                        \/ /\ Goto("dtb")
                           /\ KERNEL_FILE \in dropped' \/ c = KernelPart
    BY <1>1, KernelWrites
  <2>2. CASE UNCHANGED files /\ Exit("exit1")
    BY <2>1, <2>2, QuietCut DEF Exit, Idle, SplitPhases
  <2>3. CASE KERNEL_FILE = job.file /\ Create(KERNEL_FILE, <<>>) /\ Exit("panic")
    BY <2>3, NotOfImage DEF OfImage, Exit
  <2>4. CASE \E c : /\ Wrote(KERNEL_FILE, KernelPart, c)
                    /\ \/ Exit("exit1")
                       \/ /\ Goto("dtb")
                          /\ KERNEL_FILE \in dropped' \/ c = KernelPart
    <3>1. PICK c : /\ Wrote(KERNEL_FILE, KernelPart, c)
                   /\ \/ Exit("exit1")
                      \/ Goto("dtb") /\ (KERNEL_FILE \in dropped' \/ c = KernelPart)
      BY <2>4
    <3>2. /\ UNCHANGED <<job, old>> /\ curr' = curr
          /\ \/ Idle' /\ status' # "exit0"
             \/ pc' = "dtb" /\ (KERNEL_FILE \in dropped' \/ c = KernelPart)
      BY <2>1, <3>1 DEF Exit, Goto, Idle, split
    <3>3. PICK p : p = KernelPart
      OBVIOUS
    <3>4. Wrote(KERNEL_FILE, p, c) /\ (c = KernelPart => c = p)
      BY <3>1, <3>3
    <3>5. OfImage' <=> OfImage
      BY <2>1, <3>2, <3>4, OfImageStays DEF SplitPhases
    <3>6. CASE OfImage
      BY <2>1, <3>2, <3>6, <3>3, <3>4, KernelCut
    <3> QED
      BY <3>5, <3>6, NotOfImage
  <2> QED
    BY <2>1, <2>2, <2>3, <2>4
<1>2. CASE DumpDtb
  <2>1. /\ pc = "dtb" /\ dropped' \in {dropped, dropped \union {KER_DTB_FILE}}
        /\ \/ UNCHANGED files /\ (Exit("exit1") \/ (Exit("exit0") /\ sz = curr))
           \/ KER_DTB_FILE = job.file /\ Create(KER_DTB_FILE, <<>>) /\ Exit("panic")
           \/ \E c : /\ Wrote(KER_DTB_FILE, DtbPart, c) /\ Exit("exit0")
                     /\ KER_DTB_FILE \in dropped' \/ c = DtbPart
    BY <1>2, DtbWrites
  <2>2. CASE UNCHANGED files /\ Exit("exit1")
    BY <2>1, <2>2, QuietCut DEF Exit, Idle, SplitPhases
  <2>3. CASE UNCHANGED files /\ Exit("exit0") /\ sz = curr
    <3>1. ~OfImage
      <4>1. OfImage => curr < sz
        BY <2>1, PartsOfImage
      <4>2. curr \in Nat
        BY DEF Phase
      <4> QED
        BY <2>3, <4>1, <4>2
    <3>2. job' = job /\ File' = File /\ (Exists(job.file)' <=> Exists(job.file))
      BY <2>3 DEF Exit, File, Exists, files
    <3>3. OfImage' <=> OfImage
      BY <3>2, SameFile
    <3> QED
      BY <3>1, <3>3, NotOfImage
  <2>4. CASE KER_DTB_FILE = job.file /\ Create(KER_DTB_FILE, <<>>) /\ Exit("panic")
    BY <2>4, NotOfImage DEF OfImage, Exit
  <2>5. CASE \E c : /\ Wrote(KER_DTB_FILE, DtbPart, c) /\ Exit("exit0")
                    /\ KER_DTB_FILE \in dropped' \/ c = DtbPart
    <3>1. PICK c : /\ Wrote(KER_DTB_FILE, DtbPart, c) /\ Exit("exit0")
                   /\ KER_DTB_FILE \in dropped' \/ c = DtbPart
      BY <2>5
    <3>2. UNCHANGED <<job, old>> /\ Idle'
      BY <3>1 DEF Exit, Idle
    <3>3. PICK p : p = DtbPart
      OBVIOUS
    <3>4. Wrote(KER_DTB_FILE, p, c) /\ (c = DtbPart => c = p)
      BY <3>1, <3>3
    <3>5. OfImage' <=> OfImage
      BY <2>1, <3>2, <3>4, OfImageStays DEF SplitPhases
    <3>6. CASE OfImage
      BY <2>1, <3>1, <3>2, <3>6, <3>3, <3>4, DtbCut
    <3> QED
      BY <3>5, <3>6, NotOfImage
  <2> QED
    BY <2>1, <2>2, <2>3, <2>4, <2>5
<1> QED
  BY <1>1, <1>2

LEMMA KilledCut ==
  ASSUME Phase, Cut, Killed
  PROVE  Cut'
<1>1. Idle' /\ status' = "killed" /\ UNCHANGED <<job, old, dropped>> /\ pc # "idle"
  BY DEF Killed, Exit, Idle
<1>2. CASE KilledInDump
  <2>1. \E p, c :
          \/ pc = "kernel" /\ p = KernelPart /\ Wrote(KERNEL_FILE, p, c)
          \/ pc = "dtb" /\ p = DtbPart /\ Wrote(KER_DTB_FILE, p, c)
    BY <1>2, KilledWrites
  <2>2. OfImage' <=> OfImage
    BY <1>1, <2>1, OfImageStays DEF SplitPhases
  <2>3. OfImage => Cut'
    BY <1>1, <2>1, KernelCut, DtbCut
  <2> QED
    BY <2>2, <2>3, NotOfImage
<1>3. CASE UNCHANGED <<dir, made>>
  <2>1. CASE pc \in SplitPhases
    BY <1>1, <1>3, <2>1, QuietCut DEF files
  <2>2. CASE pc \notin SplitPhases
    BY <1>1, <2>2, NotOfImage DEF Phase, OfImage
  <2> QED
    BY <2>1, <2>2
<1> QED
  BY <1>2, <1>3 DEF Killed

LEMMA NextCut == Phase /\ Cut /\ [Next]_vars => Cut'
<1> SUFFICES ASSUME Phase, Cut, [Next]_vars
             PROVE  Cut'
  OBVIOUS
<1>1. CASE HexPatchStep \/ Cleanup
  <2>1. job' = job /\ job.verb # "split"
    BY <1>1, StepsOf DEF Phase, HexPatchStep, Scan, EndScan, Cleanup, Goto, Exit
  <2> QED
    BY <2>1, NotOfImage DEF OfImage
<1>2. CASE UNCHANGED vars
  <2>1. UNCHANGED <<dir, dropped, old, job, pc, status, curr>> /\ File' = File
    BY <1>2 DEF vars, host, files, split, File
  <2>2. /\ Magics' = Magics /\ Index' = Index /\ Accepted(Index)' = Accepted(Index)
        /\ ImageKernel' = ImageKernel /\ ImageDtb' = ImageDtb /\ (OfImage' <=> OfImage)
    BY <2>1, SameFile DEF Exists
  <2>3. \A n : AsBefore(n)' <=> AsBefore(n)
    BY <2>1 DEF AsBefore
  <2>4. \A n, c : (Part(n, c)' <=> Part(n, c)) /\ (Begun(n, c)' <=> Begun(n, c))
    BY <2>1 DEF Part, Begun, Beginning, Idle
  <2>5. /\ Part(KERNEL_FILE, ImageKernel)' <=> Part(KERNEL_FILE, ImageKernel)
        /\ Part(KER_DTB_FILE, ImageDtb)' <=> Part(KER_DTB_FILE, ImageDtb)
        /\ Begun(KERNEL_FILE, ImageKernel)' <=> Begun(KERNEL_FILE, ImageKernel)
        /\ Begun(KER_DTB_FILE, ImageDtb)' <=> Begun(KER_DTB_FILE, ImageDtb)
    BY <2>1, <2>2 DEF Part, Begun, Beginning, Idle
  <2> QED
    BY <2>1, <2>2, <2>3, <2>5 DEF Cut, PartsMakeTheImage, SplitDone, Idle
<1> QED
  BY <1>1, <1>2, StartCut, SearchCut, WriteCut, KilledCut DEF Next, Step, SplitStep

\* Whatever the image, whatever runs were before and whatever the host does: the
\* parts are those of one image.  Wherever a split is or was killed each is as
\* the run has found it or this image's, and after one that ends well both are,
\* cut at its first device tree - whole, unless an error was dropped.
THEOREM SplitExact == Spec => []PartsMakeTheImage
<1>1. Init => Cut
  BY DEF Init, Cut, PartsMakeTheImage, OfImage, NoJob
<1>2. Spec => []Cut
  BY <1>1, NextCut, PhaseInvariant, PTL DEF Spec
<1> QED
  BY <1>2, PTL DEF Cut

-----------------------------------------------------------------------------
(* Types.                                                                  *)

\* What Phase and Scanned do not say of the variables' types.
Rest ==
  /\ \A n \in DOMAIN old : old[n] \in Contents
  /\ made \subseteq Parts /\ dropped \subseteq Parts
  /\ job.verb = "split" => job.skip \in BOOLEAN
  /\ status \in {"none", "exit0", "exit1", "panic", "killed"}
  /\ runs \in 0 .. MaxRuns
  /\ off \in Nat /\ format \in Formats /\ patched \in BOOLEAN
  /\ before \in Contents /\ next \in 1 .. Len(PartNames) + 1

\* CheckFmt says one of the formats.
LEMMA CheckFmtTyped == \A f : CheckFmt(f) \in Formats
BY SplitAssumption DEF CheckFmt, Formats

\* Main takes `-n` for the option of split, and no other action has one.
LEMMA SkipTyped ==
  ASSUME NEW action, NEW operands, Main(action, operands).verb = "split"
  PROVE  Main(action, operands).skip \in BOOLEAN
BY DEF Main, Usage, Unimplemented

\* What split makes are parts.
LEMMA PartNamed == {KERNEL_FILE, KER_DTB_FILE} \subseteq Parts /\ DOMAIN PartNames = 1 .. 10
<1>1. DOMAIN PartNames = 1 .. 10 /\ PartNames[2] = KERNEL_FILE /\ PartNames[5] = KER_DTB_FILE
  BY DEF PartNames
<1> QED
  BY <1>1 DEF Parts

LEMMA StartRest ==
  ASSUME Phase, Rest, Start
  PROVE  Rest'
<1>1. PICK a \in Jobs :
        LET j == Main(a.action, a.operands) IN
        \/ StartSplit(j) /\ UNCHANGED <<hex, next>>
        \/ StartHexPatch(j) /\ UNCHANGED <<split, next>>
        \/ StartCleanup(j) /\ UNCHANGED <<split, hex>>
        \/ ReadOnly(j) /\ UNCHANGED <<split, hex, next>>
  BY DEF Start
<1> DEFINE j == Main(a.action, a.operands)
<1>2. j.verb = "split" => j.skip \in BOOLEAN
  BY SkipTyped
<1>3. runs < MaxRuns
  BY DEF Start
<1> HIDE DEF j
<1>4. /\ job' = j /\ runs' = runs + 1
      /\ status' \in {status, "exit0", "exit1", "panic"}
      /\ off' \in {off, 1} /\ format' \in {format, "unknown"}
      /\ patched' \in {patched, FALSE} /\ next' \in {next, 1}
      /\ before' = before \/ (Exists(j.file) /\ before' = dir[j.file])
      /\ old' = dir /\ made' = made /\ dropped' = {}
  BY <1>1 DEF StartSplit, StartHexPatch, StartCleanup, ReadOnly, Begin, split, hex, j
<1>5. runs' \in 0 .. MaxRuns
  BY <1>3, <1>4, HostAssumption DEF Rest
<1>6. before' \in Contents
  BY <1>4 DEF Rest, Phase, Exists
<1>7. next' \in 1 .. Len(PartNames) + 1
  BY <1>4 DEF Rest, PartNames
<1>8. off' \in Nat /\ format' \in Formats
  BY <1>4 DEF Rest, Formats
<1>9. patched' \in BOOLEAN
  BY <1>4, Zenon DEF Rest
<1>10. status' \in {"none", "exit0", "exit1", "panic", "killed"}
  BY <1>4 DEF Rest
<1>11. (job.verb = "split" => job.skip \in BOOLEAN)'
  BY <1>2, <1>4
<1>12. /\ \A n \in DOMAIN old' : old'[n] \in Contents
       /\ made' \subseteq Parts /\ dropped' \subseteq Parts
  BY <1>4 DEF Rest, Phase
<1> QED
  BY <1>5, <1>6, <1>7, <1>8, <1>9, <1>10, <1>11, <1>12 DEF Rest

LEMMA SplitRest ==
  ASSUME Phase, Rest, SplitStep, UNCHANGED <<hex, next>>
  PROVE  Rest'
<1>1. /\ UNCHANGED <<job, runs, old, patched, before, next>>
      /\ status' \in {status, "exit0", "exit1", "panic"}
  BY DEF SplitStep, Search, CheckFmtLg, DecompressKernel, DumpKernel, DumpDtb,
         Dump, NotCreated, Overwritten, Goto, Exit, hex
<1>4. made' \subseteq Parts /\ dropped' \subseteq Parts
  <2>1. /\ made' \subseteq made \union {KERNEL_FILE, KER_DTB_FILE}
        /\ dropped' \subseteq dropped \union {KERNEL_FILE, KER_DTB_FILE}
    BY DEF SplitStep, Search, CheckFmtLg, DecompressKernel, DumpKernel, DumpDtb,
       Dump, NotCreated, Overwritten, Create, files
  <2> QED
    BY <2>1, PartNamed DEF Rest
<1>2. off' \in Nat
  <2>1. pc \in SplitPhases /\ File \in Contents /\ off \in Nat
    BY StepsOf DEF Phase, Rest, Exists, File
  <2>2. Word(off) \in Nat
    BY <2>1 DEF Word, Contents
  <2>3. off' \in {off, off + 1, off + 1 + Word(off)}
    BY DEF SplitStep, Search, CheckFmtLg, DecompressKernel, DumpKernel, DumpDtb, split
  <2> QED
    BY <2>1, <2>2, <2>3
<1>3. format' \in Formats
  <2>1. format' \in {format, CheckFmt(File), "lz4_lg"}
    BY DEF SplitStep, Search, CheckFmtLg, DecompressKernel, DumpKernel, DumpDtb, split
  <2> QED
    BY <2>1, CheckFmtTyped DEF Rest, Formats, Compressed
<1> QED
  BY <1>1, <1>2, <1>3, <1>4 DEF Rest

LEMMA NextRest == Phase /\ Rest /\ [Next]_vars => Rest'
<1> SUFFICES ASSUME Phase, Rest, [Next]_vars
             PROVE  Rest'
  OBVIOUS
<1>1. CASE HexPatchStep /\ UNCHANGED <<split, next>>
  <2>1. /\ UNCHANGED <<job, runs, old, made, dropped, off, format, before, next>>
        /\ status' \in {status, "exit0", "exit1", "panic"}
        /\ patched' \in {patched, TRUE}
    BY <1>1 DEF HexPatchStep, Scan, EndScan, Goto, Exit, files, split, hex
  <2> QED
    BY <2>1 DEF Rest
<1>2. CASE Cleanup
  <2>1. /\ UNCHANGED <<job, runs, old, made, off, format, patched, before>>
        /\ status' \in {status, "exit0"}
        /\ next' = next \/ (next <= Len(PartNames) /\ next' = next + 1)
        /\ \/ dropped' = dropped
           \/ next <= Len(PartNames) /\ dropped' = dropped \union {PartNames[next]}
    BY <1>2 DEF Cleanup, Goto, Exit, split, hex
  <2>2. next' \in 1 .. Len(PartNames) + 1
    BY <2>1 DEF Rest, PartNames
  <2>3. next <= Len(PartNames) => PartNames[next] \in Parts
    BY DEF Rest, Parts, PartNames
  <2> QED
    BY <2>1, <2>2, <2>3 DEF Rest
<1>3. CASE Killed
  <2>1. made' \subseteq made \union {KERNEL_FILE, KER_DTB_FILE}
    BY <1>3 DEF Killed, KilledInDump, Create
  <2>2. made' \subseteq Parts
    BY <2>1, PartNamed DEF Rest
  <2> QED
    BY <1>3, <2>2 DEF Killed, Exit, Rest, split, hex
<1>4. CASE UNCHANGED vars
  BY <1>4 DEF vars, host, files, split, hex, Rest
<1> QED
  BY <1>1, <1>2, <1>3, <1>4, StartRest, SplitRest DEF Next, Step

\* Type correctness, for every directory, every table of magics and every list
\* of command lines: a split in progress has a file that is not empty, and a
\* scan, which changes bytes in the mapping, never the length of its file.
THEOREM WorkdirTyped == Spec => []TypeOK
<1>1. Phase /\ Scanned /\ Rest => TypeOK
  BY DEF Phase, Scanned, Rest, TypeOK, SplitPhases
<1>2. Init => Scanned
  BY DEF Init, Scanned, PatchReplaces, HexDone, NoJob
<1>3. Spec => []Scanned
  BY <1>2, NextScanned, PhaseInvariant, PTL DEF Spec
<1>4. ASSUME Init PROVE Rest
  <2>1. job.verb # "split" /\ <<>> \in Contents /\ Len(PartNames) = 10
    BY <1>4 DEF Init, NoJob, Contents, PartNames
  <2>2. runs \in 0 .. MaxRuns /\ off \in Nat /\ next \in 1 .. Len(PartNames) + 1
    BY <1>4, <2>1, HostAssumption DEF Init
  <2>3. format \in Formats /\ patched \in BOOLEAN /\ before \in Contents
    BY <1>4, <2>1 DEF Init, Formats
  <2>4. \A n \in DOMAIN old : old[n] \in Contents
    BY <1>4, HostAssumption DEF Init
  <2> QED
    BY <1>4, <2>1, <2>2, <2>3, <2>4 DEF Init, Rest
<1>5. Spec => []Rest
  BY <1>4, NextRest, PhaseInvariant, PTL DEF Spec
<1> QED
  BY <1>1, <1>3, <1>5, PhaseInvariant, PTL
=============================================================================
