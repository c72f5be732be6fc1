----------------------------- MODULE Transcode ------------------------------
(***************************************************************************)
(* `magiskboot compress[=format] IN [OUT]` and `magiskboot decompress IN   *)
(* [OUT]` (compress.go): what runs of the two, one after another, make of  *)
(* the files of a directory.  A run opens IN, creates OUT, copies block by *)
(* block through an encoder or a decoder, and removes IN if OUT was not    *)
(* named.  It may be killed between any two of these steps, and with       *)
(* Faults the host's reads and writes may fail.                            *)
(*                                                                         *)
(* A file is a sequence of layers: its plain bytes, and one layer for each *)
(* compression around them; the last one is what a reader sees.  A layer   *)
(* that is not whole lacks its end.  The empty file has no layers.         *)
(*                                                                         *)
(* A name is a sequence of pieces, single characters where strings.Trim-   *)
(* Right looks at them: the longer pieces must not end in a character of   *)
(* an extension.                                                           *)
(***************************************************************************)
EXTENDS Integers, FiniteSets, Sequences, SequencesExt

CONSTANTS
  Pieces,       \* what names are made of
  Texts,        \* the plain bytes of files
  Directories,  \* the directories a history may start from: names to files
  Jobs,         \* the command lines
  MaxReads,     \* bound: blocks that IN is read in
  MaxRuns,      \* bound: runs of the tool
  Faults        \* the host's file operations may fail

Std == <<"-">>  \* standard input or output; as a file, what is piped in

\* Fmt2Ext, and Name2Fmt by its domain.
Fmt2Ext ==
  [gzip |-> <<".","g","z">>,        zopfli     |-> <<".","g","z">>,
   xz   |-> <<".","x","z">>,        lzma       |-> <<".","l","z","m","a">>,
   bzip2 |-> <<".","b","z","2">>,   lz4        |-> <<".","l","z","4">>,
   lz4_legacy |-> <<".","l","z","4">>, lz4_lg  |-> <<".","l","z","4">>]

Formats == DOMAIN Fmt2Ext

\* The formats whose readers may take the end of a cut stream, and those that
\* may take an empty file, for the regular end (the codecs are libraries).
Unframed == {"lz4", "lz4_legacy", "lz4_lg"}
Lazy     == {"bzip2", "lz4", "lz4_legacy"}

Layers   == [of : Texts \union Formats, whole : BOOLEAN]
Contents == Seq(Layers)

Verbs   == {"compress", "decompress"}
NoName  == <<>>
JobType ==
  [verb : Verbs, method : STRING, in : Seq(Pieces), out : Seq(Pieces)]

ASSUME TranscodeAssumption ==
  /\ Std \in Seq(Pieces) /\ \A t \in Formats : Fmt2Ext[t] \in Seq(Pieces)
  /\ Texts \intersect Formats = {}
  /\ \A d \in Directories :
       /\ d \in [DOMAIN d -> Contents]
       /\ Std \in DOMAIN d /\ DOMAIN d \subseteq Seq(Pieces) \ {NoName}
  /\ Jobs \subseteq JobType
  /\ \A j \in Jobs :
       /\ j.in # NoName
       /\ j.verb = "compress" => j.out # j.in \/ j.in = Std
  /\ MaxReads \in Nat /\ MaxRuns \in Nat
  /\ Faults \in BOOLEAN

VARIABLES
  files,   \* the directory
  pc,      \* "idle", "copy" or "remove"
  job,     \* the files and the format of the run, what is left to read
  status,  \* how the last run ended
  runs     \* runs so far

vars == <<files, pc, job, status, runs>>

NoJob == [verb |-> "compress", in |-> Std, out |-> Std, format |-> "gzip",
          rm |-> FALSE, data |-> <<>>, left |-> 0]

Init ==
  /\ files \in Directories
  /\ pc = "idle" /\ job = NoJob /\ status = "none" /\ runs = 0

-----------------------------------------------------------------------------
(* Contents and names.                                                     *)

IsWhole(c) == c # <<>> /\ c[Len(c)].whole

Cut(c) == IF c = <<>> THEN c ELSE [c EXCEPT ![Len(c)].whole = FALSE]

Encoded(c, t) == Append(c, [of |-> t, whole |-> TRUE])
Decoded(c)    == Front(c)

\* What CheckFmt may say of a file: a cut stream may be cut within its magic.
CheckFmt(c) ==
  LET t == c[Len(c)].of
  IN  IF c = <<>> \/ t \notin Formats THEN {"unknown"}
      ELSE (IF IsWhole(c) THEN {} ELSE {"unknown"})
             \union {CASE t = "zopfli" -> "gzip"
                       [] t = "lz4_lg" -> "lz4_legacy"
                       [] OTHER        -> t}

\* filepath.Ext: from the last dot on.
Ext(name) ==
  LET before == {i \in DOMAIN name :
                   \E j \in DOMAIN name : i < j /\ name[j] = "."}
  IN  IF \E i \in DOMAIN name : name[i] = "."
      THEN SubSeq(name, Cardinality(before) + 1, Len(name))
      ELSE <<>>

\* strings.TrimRight takes its second argument as a set of characters.
TrimRight(name, chars) ==
  LET kept == {i \in DOMAIN name :
                 \E j \in i..Len(name) : name[j] \notin Range(chars)}
  IN  SubSeq(name, 1, Cardinality(kept))

\* IN gives way to OUT.
Replaces(j) ==
  /\ j.out = NoName /\ j.in # Std
  /\ j.verb = "decompress" => Ext(j.in) # <<>>

OutName(j) ==
  IF j.out # NoName THEN j.out
  ELSE IF ~Replaces(j) THEN j.in
  ELSE IF j.verb = "compress" THEN j.in \o Fmt2Ext[j.method]
  ELSE TrimRight(j.in, Ext(j.in))

-----------------------------------------------------------------------------
(* Starting a run.                                                         *)

Written(n, c) ==
  IF n = Std THEN files
  ELSE [m \in DOMAIN files \union {n} |-> IF m = n THEN c ELSE files[m]]

Removed(n) == [m \in DOMAIN files \ {n} |-> files[m]]

Refuse == status' = "fatal" /\ UNCHANGED <<files, pc, job>>

\* Mutant: IN is unlinked as soon as it is open.
OpenUnlinks(j, format, data) ==
  /\ files' = [m \in (DOMAIN files \ {j.in}) \union {OutName(j)} |->
                 IF m = OutName(j) THEN <<>> ELSE files[m]]
  /\ pc' = "copy" /\ status' = "none"
  /\ job' = [verb |-> j.verb, in |-> j.in, out |-> OutName(j),
             format |-> format, rm |-> FALSE, data |-> data, left |-> 1]

\* os.Create, then reading from the beginning; an IN that is also OUT has
\* just become empty.
Open(j, format, data) ==
  /\ files' = Written(OutName(j), <<>>)
  /\ pc' = "copy" /\ status' = "none"
  /\ \E left \in 0..MaxReads :
       job' = [verb |-> j.verb, in |-> j.in, out |-> OutName(j),
               format |-> format, rm |-> Replaces(j), data |-> data,
               left |-> left]

Compress(j) ==
  /\ j.verb = "compress"
  /\ \/ (j.method \notin Formats \/ j.in \notin DOMAIN files \/ Faults) /\ Refuse
     \/ /\ j.method \in Formats /\ j.in \in DOMAIN files
        /\ \/ /\ j.method = "zopfli"
              /\ files' = Written(OutName(j), <<>>) /\ status' = "panic"
              /\ UNCHANGED <<pc, job>>
           \/ j.method # "zopfli" /\ Open(j, j.method, files[j.in])

\* A name with an extension must have the one of the format.
Fits(j, t) ==
  /\ t # "unknown"
  /\ Replaces(j) => Ext(j.in) = Fmt2Ext[t] /\ OutName(j) # NoName

\* The head of IN is read twice: from a pipe, Seek does not bring it back.
Decompress(j) ==
  /\ j.verb = "decompress"
  /\ \/ (j.in \notin DOMAIN files \/ Faults) /\ Refuse
     \/ /\ j.in \in DOMAIN files
        /\ \E t \in CheckFmt(files[j.in]) :
             \/ ~Fits(j, t) /\ Refuse
             \/ Fits(j, t) /\ (OutName(j) # j.in \/ j.in = Std)
                  /\ Open(j, t, files[j.in])
             \/ Fits(j, t) /\ (OutName(j) = j.in \/ j.in = Std)
                  /\ Open(j, t, <<>>)

Start ==
  /\ pc = "idle" /\ runs < MaxRuns
  /\ runs' = runs + 1
  /\ \E j \in Jobs : Compress(j) \/ Decompress(j)

-----------------------------------------------------------------------------
(* Copying.                                                                *)

\* What OUT is to become.
Target ==
  IF job.verb = "compress" THEN Encoded(job.data, job.format)
                           ELSE Decoded(job.data)

Exit(how) ==
  /\ pc' = "idle" /\ job' = NoJob /\ status' = how
  /\ UNCHANGED runs

Step(next, left) ==
  /\ pc' = next /\ job' = [job EXCEPT !.left = left]
  /\ UNCHANGED <<status, runs>>

\* Encoders and decoders may hold back what they were given.
Partly == files' \in {files, Written(job.out, Cut(Target))}

CopyBlock ==
  /\ pc = "copy" /\ job.left > 0
  /\ Partly
  /\ Step("copy", job.left - 1)

Readable == job.verb = "compress" \/ IsWhole(job.data)

\* A failing read or write, or a stream that the decoder gives up on.
CopyFails ==
  /\ pc = "copy"
  /\ Faults \/ ~Readable
  /\ Partly
  /\ Exit("fatal")

EndOfInput == pc = "copy" /\ job.left = 0

\* Mutant: the encoder is not closed.
CompressEndUnclosed ==
  /\ EndOfInput /\ job.verb = "compress"
  /\ files' = Written(job.out, Cut(Target))
  /\ Step("remove", 0)

\* Closing the encoder writes the rest; its error is dropped.
CompressEnd ==
  /\ EndOfInput /\ job.verb = "compress"
  /\ files' = Written(job.out, Target) \/ (Faults /\ Partly)
  /\ Step("remove", 0)

\* Mutant: data that come with io.EOF are not written.
DecompressEndDropsLast ==
  /\ EndOfInput /\ job.verb = "decompress" /\ IsWhole(job.data)
  /\ Partly
  /\ Step("remove", 0)

\* The decoder reports the end of its stream.
DecompressEnd ==
  /\ EndOfInput /\ job.verb = "decompress"
  /\ \/ IsWhole(job.data) /\ files' = Written(job.out, Target)
     \/ job.data = <<>> /\ job.format \in Lazy /\ UNCHANGED files
     \/ /\ job.data # <<>> /\ ~IsWhole(job.data) /\ job.format \in Unframed
        /\ files' = Written(job.out, Cut(Target))
  /\ Step("remove", 0)

\* Mutant: the process stays after its work is done.
FinishStays == pc = "remove" /\ UNCHANGED vars

\* The error of os.Remove is dropped.
Finish ==
  /\ pc = "remove"
  /\ files' \in (IF job.rm THEN {Removed(job.in)} ELSE {files})
                  \union (IF Faults THEN {files} ELSE {})
  /\ Exit("ok")

\* The process is killed, perhaps just after it removed IN.
Crash ==
  /\ pc # "idle"
  /\ files' \in {files} \union
                (IF pc = "remove" /\ job.rm THEN {Removed(job.in)} ELSE {})
  /\ Exit("killed")

Process == CopyBlock \/ CopyFails \/ CompressEnd \/ DecompressEnd \/ Finish

Next == Start \/ Process \/ Crash

Spec     == Init /\ [][Next]_vars
FairSpec == Spec /\ WF_vars(Process)

-----------------------------------------------------------------------------
TypeOK ==
  /\ files \in [DOMAIN files -> Contents]
  /\ DOMAIN files \subseteq Seq(Pieces) \ {NoName}
  /\ pc \in {"idle", "copy", "remove"}
  /\ job \in [verb : Verbs, in : DOMAIN files, out : DOMAIN files,
              format : Formats, rm : BOOLEAN, data : Contents,
              left : 0..MaxReads]
  /\ status \in {"none", "ok", "fatal", "panic", "killed"}
  /\ runs \in 0..MaxRuns

-----------------------------------------------------------------------------
\* The plain bytes t can be got out of some file.
Kept(t) ==
  \E n \in DOMAIN files :
    /\ files[n] # <<>> /\ files[n][1].of = t
    /\ \A i \in DOMAIN files[n] : files[n][i].whole

\* Data are never lost by what a run does after it has created OUT, however
\* it ends and whatever leftovers of killed runs it meets: only os.Create on
\* an existing file can lose the last copy of a text, or an IN such as -.gz,
\* which is written to standard output and removed.
OnlyCreateLoses ==
  [][\A t \in Texts :
       Kept(t) /\ ~Kept(t)' => pc = "idle" \/ job.out = Std]_vars

\* A run that reports success left in OUT exactly IN with one layer more or
\* less, and did not take a cut stream for a whole one, unless its format
\* cannot tell.
DoneIsExact ==
  [][/\ pc = "remove" /\ status' = "ok"
     /\ job.out \notin {Std, job.in}
     /\ job.verb = "decompress"
          => job.in # Std /\ (job.format \in Unframed => IsWhole(files[job.in]))
     => files'[job.out] = IF job.verb = "compress"
                          THEN Encoded(files[job.in], job.format)
                          ELSE Decoded(files[job.in])]_vars

\* Every run ends: the copy loops leave at the end of IN and at any error.
RunsEnd == pc # "idle" ~> pc = "idle"
=============================================================================
