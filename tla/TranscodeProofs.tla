-------------------------- MODULE TranscodeProofs ---------------------------
(***************************************************************************)
(* Runs of compress and decompress never lose data after they have created *)
(* their output, for every directory, every list of jobs and any number of *)
(* runs, provided the host's file operations do not fail.                  *)
(*                                                                         *)
(* The invariant says what OUT holds while a run is in progress: nothing   *)
(* that could be the last copy of a text while it is written, and exactly  *)
(* the encoded or decoded IN once IN is about to be removed.               *)
(***************************************************************************)
EXTENDS Transcode, FiniteSetTheorems, SequenceTheorems, TLAPS

\* A decoder is only opened on what CheckFmt took for one of its formats.
Coded(c) == c = <<>> \/ c[Len(c)].of \in Formats

\* What OUT may hold while it is written.
Unfinished == files[job.out] \in {<<>>, Cut(Target)}

ReplacesOther ==
  job.rm => job.in \notin {Std, job.out} /\ files[job.in] = job.data

CopyInv == pc = "copy" /\ job.out # Std => Unfinished

RemoveInv ==
  pc = "remove" /\ job.out # Std /\ (job.verb = "compress" \/ IsWhole(job.data))
    => files[job.out] = Target

RunInv ==
  /\ job.verb = "decompress" => Coded(job.data)
  /\ ReplacesOther
  /\ CopyInv
  /\ ~Faults => RemoveInv

TInv == TypeOK /\ Std \in DOMAIN files /\ (pc # "idle" => RunInv)

-----------------------------------------------------------------------------
(* Contents and names.                                                     *)

\* Every extension has at least three characters.
LEMMA ExtensionsTyped ==
  /\ "gzip" \in Formats
  /\ \A t \in Formats : Fmt2Ext[t] \in Seq(Pieces) /\ Len(Fmt2Ext[t]) >= 3
<1>1. Formats = {"gzip", "zopfli", "xz", "lzma", "bzip2", "lz4", "lz4_legacy",
                 "lz4_lg"}
  BY DEF Formats, Fmt2Ext
<1>2. \A t \in Formats :
        Fmt2Ext[t] \in {<<".", "g", "z">>, <<".", "x", "z">>,
                       <<".", "l", "z", "m", "a">>, <<".", "b", "z", "2">>,
                       <<".", "l", "z", "4">>}
  BY <1>1 DEF Fmt2Ext
<1>3. \A t \in Formats : Len(Fmt2Ext[t]) >= 3
  BY <1>2
<1> QED
  BY <1>1, <1>3, TranscodeAssumption

\* A file whose end is missing is not whole, and has the layers it had.
LEMMA CutCuts ==
  ASSUME NEW c \in Contents
  PROVE  /\ Cut(c) \in Contents
         /\ Cut(c) # <<>> => ~Cut(c)[Len(Cut(c))].whole
<1>1. CASE c = <<>>
  BY <1>1 DEF Cut, Contents
<1>2. CASE c # <<>>
  <2> DEFINE n == Len(c)
             x == [c[n] EXCEPT !.whole = FALSE]
  <2>1. n \in 1..Len(c) /\ c[n] \in Layers
    BY <1>2 DEF Contents
  <2>2. x \in Layers /\ x.whole = FALSE
    BY <2>1 DEF Layers
  <2>3. Cut(c) = [c EXCEPT ![n] = x]
    BY <1>2 DEF Cut
  <2> HIDE DEF x
  <2>4. Cut(c) \in Contents /\ Len(Cut(c)) = n /\ Cut(c)[n] = x
    BY <2>1, <2>2, <2>3 DEF Contents
  <2> QED
    BY <2>2, <2>4
<1> QED
  BY <1>1, <1>2

\* Encoding puts a layer around a file, decoding takes one off.
LEMMA CodecsTyped ==
  ASSUME NEW c \in Contents
  PROVE  /\ \A t \in Formats :
              /\ Encoded(c, t) \in Contents
              /\ Len(Encoded(c, t)) = Len(c) + 1
              /\ \A i \in DOMAIN c : Encoded(c, t)[i] = c[i]
              /\ Encoded(c, t)[Len(c) + 1] = [of |-> t, whole |-> TRUE]
         /\ Decoded(c) \in Contents
         /\ c # <<>> => /\ Len(Decoded(c)) = Len(c) - 1
                        /\ \A i \in 1..(Len(c) - 1) : Decoded(c)[i] = c[i]
<1>1. \A t \in Formats : [of |-> t, whole |-> TRUE] \in Layers
  BY DEF Layers
<1>2. \A t \in Formats :
        /\ Encoded(c, t) \in Contents
        /\ Len(Encoded(c, t)) = Len(c) + 1
        /\ \A i \in DOMAIN c : Encoded(c, t)[i] = c[i]
        /\ Encoded(c, t)[Len(c) + 1] = [of |-> t, whole |-> TRUE]
  <2> SUFFICES ASSUME NEW t \in Formats
               PROVE  /\ Encoded(c, t) \in Contents
                      /\ Len(Encoded(c, t)) = Len(c) + 1
                      /\ \A i \in DOMAIN c : Encoded(c, t)[i] = c[i]
                      /\ Encoded(c, t)[Len(c) + 1] = [of |-> t, whole |-> TRUE]
    OBVIOUS
  <2> DEFINE x == [of |-> t, whole |-> TRUE]
  <2>1. x \in Layers /\ c \in Seq(Layers) /\ Encoded(c, t) = Append(c, x)
    BY <1>1 DEF Encoded, Contents
  <2> HIDE DEF x
  <2>2. /\ Append(c, x) \in Seq(Layers)
        /\ Len(Append(c, x)) = Len(c) + 1
        /\ \A i \in DOMAIN c : Append(c, x)[i] = c[i]
        /\ Append(c, x)[Len(c) + 1] = x
    BY <2>1
  <2> QED
    BY <2>1, <2>2 DEF Contents, x
<1>3. CASE c = <<>>
  <2>1. Decoded(c) = <<>>
    BY <1>3 DEF Decoded, Front
  <2> QED
    BY <1>2, <1>3, <2>1 DEF Contents
<1>4. CASE c # <<>>
  <2>1. Decoded(c) = SubSeq(c, 1, Len(c) - 1) /\ Len(c) \in Nat \ {0}
    BY <1>4 DEF Decoded, Front, Contents
  <2>2. \A i \in 1..(Len(c) - 1) : c[i] \in Layers
    BY <2>1 DEF Contents
  <2>3. /\ Decoded(c) \in Seq(Layers)
        /\ Len(Decoded(c)) = Len(c) - 1
        /\ \A i \in 1..(Len(c) - 1) : Decoded(c)[i] = c[i]
    <3> DEFINE m == Len(c) - 1
    <3>1. m \in Nat /\ Decoded(c) = SubSeq(c, 1, m) /\ m - 1 + 1 = m
      BY <2>1
    <3> HIDE DEF m
    <3>2. /\ SubSeq(c, 1, m) \in Seq(Layers)
          /\ Len(SubSeq(c, 1, m)) = IF 1 <= m THEN m - 1 + 1 ELSE 0
          /\ \A i \in 1..(m - 1 + 1) : SubSeq(c, 1, m)[i] = c[1 + i - 1]
      BY <2>2, <3>1, SubSeqProperties DEF m
    <3> QED
      BY <3>1, <3>2 DEF m
  <2> QED
    BY <1>2, <2>3 DEF Contents
<1> QED
  BY <1>3, <1>4

\* Positions of a name that all lie before its n-th are fewer than n.
LEMMA Before ==
  ASSUME NEW n \in Nat \ {0}, NEW S \in SUBSET (1..(n - 1))
  PROVE  Cardinality(S) \in 0..(n - 1)
<1>1. IsFiniteSet(1..(n - 1)) /\ Cardinality(1..(n - 1)) = n - 1
  BY FS_Interval
<1>2. Cardinality(S) \in Nat /\ Cardinality(S) <= n - 1
  BY <1>1, FS_Subset, FS_CardinalityType
<1> QED
  BY <1>2

\* The part of a name that TrimRight leaves is a name or nothing; it is
\* shorter than the name if that has an extension and loses its characters.
LEMMA TrimTyped ==
  ASSUME NEW name \in Seq(Pieces), NEW chars
  PROVE  /\ TrimRight(name, chars) \in Seq(Pieces)
         /\ name # <<>> /\ name[Len(name)] \in Range(chars)
              => TrimRight(name, chars) # name
<1> DEFINE kept == {i \in DOMAIN name :
                      \E j \in i..Len(name) : name[j] \notin Range(chars)}
           n    == Len(name)
<1>1. n \in Nat /\ DOMAIN name = 1..n
  OBVIOUS
<1>2. Cardinality(kept) \in 0..n
  <2>1. n + 1 \in Nat \ {0} /\ kept \in SUBSET (1..((n + 1) - 1))
    BY <1>1
  <2> HIDE DEF kept
  <2> QED
    BY <2>1, <1>1, Before
<1>3. TrimRight(name, chars) = SubSeq(name, 1, Cardinality(kept))
  BY DEF TrimRight
<1>4. name # <<>> /\ name[n] \in Range(chars) => Cardinality(kept) \in 0..(n - 1)
  <2> SUFFICES ASSUME name # <<>>, name[n] \in Range(chars)
               PROVE  Cardinality(kept) \in 0..(n - 1)
    OBVIOUS
  <2>1. n \notin kept
    BY <1>1
  <2>2. n \in Nat \ {0} /\ kept \in SUBSET (1..(n - 1))
    BY <1>1, <2>1
  <2> HIDE DEF kept
  <2> QED
    BY <2>2, Before
<1> HIDE DEF kept
<1>5. TrimRight(name, chars) \in Seq(Pieces)
      /\ Len(TrimRight(name, chars)) = Cardinality(kept)
  BY <1>1, <1>2, <1>3
<1> QED
  BY <1>1, <1>4, <1>5

\* An extension holds the last character of its name.
LEMMA ExtLast ==
  ASSUME NEW name \in Seq(Pieces), Ext(name) # <<>>
  PROVE  name # <<>> /\ name[Len(name)] \in Range(Ext(name))
<1> DEFINE before == {i \in DOMAIN name :
                        \E j \in DOMAIN name : i < j /\ name[j] = "."}
           n      == Len(name)
           k      == Cardinality(before) + 1
<1>1. \E i \in DOMAIN name : name[i] = "."
  BY DEF Ext
<1>2. n \in Nat \ {0} /\ DOMAIN name = 1..n
  BY <1>1
<1>3. before \in SUBSET (1..(n - 1))
  BY <1>2
<1>4. Ext(name) = SubSeq(name, k, n)
  BY <1>1 DEF Ext
<1> HIDE DEF before, n
<1>5. Cardinality(before) \in 0..(n - 1)
  BY <1>2, <1>3, Before
<1>6. k \in 1..n
  BY <1>2, <1>5
<1> HIDE DEF k
<1>7. n - k + 1 \in DOMAIN Ext(name) /\ Ext(name)[n - k + 1] = name[n]
  BY <1>2, <1>4, <1>6 DEF n
<1> QED
  BY <1>2, <1>7 DEF Range, n

\* The name that Compress makes of IN is a name, and not that of IN.
LEMMA CompressedNames ==
  ASSUME NEW j \in Jobs, j.verb = "compress", j.method \in Formats
  PROVE  /\ OutName(j) \in Seq(Pieces) \ {NoName}
         /\ Replaces(j) => OutName(j) # j.in
<1>1. j.in \in Seq(Pieces) /\ j.out \in Seq(Pieces) /\ j.in # NoName
  BY TranscodeAssumption DEF JobType
<1>2. CASE ~Replaces(j)
  BY <1>1, <1>2 DEF OutName
<1>3. CASE Replaces(j)
  <2>1. OutName(j) = j.in \o Fmt2Ext[j.method]
    BY <1>3 DEF OutName, Replaces
  <2> DEFINE e == Fmt2Ext[j.method]
  <2>2. e \in Seq(Pieces) /\ Len(e) >= 3
    BY ExtensionsTyped
  <2> HIDE DEF e
  <2>3. /\ j.in \o e \in Seq(Pieces)
        /\ Len(j.in \o e) = Len(j.in) + Len(e)
    BY <1>1, <2>2
  <2>4. Len(j.in) \in Nat /\ Len(e) \in Nat
    BY <1>1, <2>2
  <2>5. j.in \o e # NoName /\ j.in \o e # j.in
    BY <2>2, <2>3, <2>4 DEF NoName
  <2> QED
    BY <2>1, <2>3, <2>5 DEF e
<1> QED
  BY <1>2, <1>3

\* The same of Decompress, if the name fits the format of IN.
LEMMA DecompressedNames ==
  ASSUME NEW j \in Jobs, j.verb = "decompress", NEW t, Fits(j, t)
  PROVE  /\ OutName(j) \in Seq(Pieces) \ {NoName}
         /\ Replaces(j) => OutName(j) # j.in
<1>1. j.in \in Seq(Pieces) /\ j.out \in Seq(Pieces) /\ j.in # NoName
  BY TranscodeAssumption DEF JobType
<1>2. CASE ~Replaces(j)
  BY <1>1, <1>2 DEF OutName
<1>3. CASE Replaces(j)
  <2>1. OutName(j) = TrimRight(j.in, Ext(j.in)) /\ OutName(j) # NoName
    BY <1>3 DEF OutName, Replaces, Fits
  <2>2. Ext(j.in) # <<>>
    BY <1>3 DEF Replaces
  <2> QED
    BY <1>1, <2>1, <2>2, ExtLast, TrimTyped DEF NoName
<1> QED
  BY <1>2, <1>3

-----------------------------------------------------------------------------
(* The invariant.                                                          *)

\* Writing OUT gives it its content and leaves the other files alone.
LEMMA WrittenTyped ==
  ASSUME TypeOK, Std \in DOMAIN files,
         NEW n \in Seq(Pieces) \ {NoName}, NEW c \in Contents
  PROVE  /\ Written(n, c) \in [DOMAIN Written(n, c) -> Contents]
         /\ DOMAIN Written(n, c) = DOMAIN files \union {n}
         /\ DOMAIN Written(n, c) \subseteq Seq(Pieces) \ {NoName}
         /\ \A m \in DOMAIN files \ {n} : Written(n, c)[m] = files[m]
         /\ n # Std => Written(n, c)[n] = c
<1>1. /\ files \in [DOMAIN files -> Contents]
      /\ DOMAIN files \subseteq Seq(Pieces) \ {NoName}
  BY DEF TypeOK
<1> QED
  BY <1>1 DEF Written

\* OUT is to become a file.
LEMMA TargetTyped ==
  ASSUME TypeOK
  PROVE  /\ job.verb \in Verbs /\ job.data \in Contents
         /\ job.format \in Formats
         /\ job.out \in DOMAIN files /\ job.out \in Seq(Pieces) \ {NoName}
         /\ Target \in Contents /\ Cut(Target) \in Contents
<1>1. /\ job.verb \in Verbs /\ job.data \in Contents /\ job.format \in Formats
      /\ job.out \in DOMAIN files /\ job.out \in Seq(Pieces) \ {NoName}
  BY DEF TypeOK
<1>2. Target \in Contents
  BY <1>1, CodecsTyped DEF Target
<1> QED
  BY <1>1, <1>2, CutCuts

\* The invariant holds before the first run.
LEMMA InitTInv == Init => TInv
<1> SUFFICES ASSUME Init PROVE TInv
  OBVIOUS
<1>1. /\ files \in [DOMAIN files -> Contents] /\ Std \in DOMAIN files
      /\ DOMAIN files \subseteq Seq(Pieces) \ {NoName}
  BY TranscodeAssumption DEF Init
<1>2. job \in [verb : Verbs, in : DOMAIN files, out : DOMAIN files,
               format : Formats, rm : BOOLEAN, data : Contents,
               left : 0..MaxReads]
  <2>1. <<>> \in Contents /\ 0 \in 0..MaxReads /\ "compress" \in Verbs
    BY TranscodeAssumption DEF Contents, Verbs
  <2> QED
    BY <1>1, <2>1, ExtensionsTyped DEF Init, NoJob
<1>3. pc = "idle" /\ status = "none" /\ runs \in 0..MaxRuns
  BY TranscodeAssumption DEF Init
<1> QED
  BY <1>1, <1>2, <1>3 DEF TInv, TypeOK

\* However a run ends, the directory it leaves is one that a run may find.
LEMMA ExitKeepsTInv ==
  ASSUME TInv, NEW how \in {"ok", "fatal", "killed"}, Exit(how),
         files' \in [DOMAIN files' -> Contents], Std \in DOMAIN files',
         DOMAIN files' \subseteq Seq(Pieces) \ {NoName}
  PROVE  TInv'
<1>1. pc' = "idle" /\ job' = NoJob /\ status' = how /\ runs' = runs
  BY DEF Exit
<1>2. job' \in [verb : Verbs, in : DOMAIN files', out : DOMAIN files',
                format : Formats, rm : BOOLEAN, data : Contents,
                left : 0..MaxReads]
  <2>1. <<>> \in Contents /\ 0 \in 0..MaxReads /\ "compress" \in Verbs
    BY TranscodeAssumption DEF Contents, Verbs
  <2> QED
    BY <1>1, <2>1, ExtensionsTyped DEF NoJob
<1>3. runs \in 0..MaxRuns
  BY DEF TInv, TypeOK
<1> QED
  BY <1>1, <1>2, <1>3 DEF TInv, TypeOK

\* A step of the copy loops keeps the invariant if it leaves in OUT what the
\* invariant says of the place it goes to.
LEMMA StepKeepsTInv ==
  ASSUME TInv, pc = "copy", NEW next \in {"copy", "remove"},
         NEW left \in 0..MaxReads, Step(next, left),
         NEW c \in Contents, files' = files \/ files' = Written(job.out, c),
         next = "copy" => files' = files \/ c = Cut(Target),
         (/\ ~Faults /\ next = "remove" /\ job.out # Std
          /\ job.verb = "compress" \/ IsWhole(job.data))
           => files' = Written(job.out, c) /\ c = Target
  PROVE  TInv'
<1>1. /\ pc' = next /\ job' = [job EXCEPT !.left = left]
      /\ status' = status /\ runs' = runs
  BY DEF Step
<1>2. TypeOK /\ Std \in DOMAIN files /\ RunInv
  BY DEF TInv
<1>3. job \in [verb : Verbs, in : DOMAIN files, out : DOMAIN files,
               format : Formats, rm : BOOLEAN, data : Contents,
               left : 0..MaxReads]
  BY <1>2 DEF TypeOK
<1>4. /\ job'.verb = job.verb /\ job'.in = job.in /\ job'.out = job.out
      /\ job'.format = job.format /\ job'.rm = job.rm /\ job'.data = job.data
  BY <1>1, <1>3
<1>5. Target' = Target
  BY <1>4 DEF Target
<1>6. /\ files' \in [DOMAIN files' -> Contents] /\ DOMAIN files' = DOMAIN files
      /\ DOMAIN files' \subseteq Seq(Pieces) \ {NoName}
      /\ \A m \in DOMAIN files \ {job.out} : files'[m] = files[m]
      /\ job.out # Std => files'[job.out] = files[job.out] \/ files'[job.out] = c
      /\ job.out # Std /\ files' = Written(job.out, c) => files'[job.out] = c
  <2> DEFINE w == Written(job.out, c)
  <2>1. job.out \in DOMAIN files /\ job.out \in Seq(Pieces) \ {NoName}
    BY <1>2, TargetTyped
  <2>2. /\ w \in [DOMAIN w -> Contents]
        /\ DOMAIN w = DOMAIN files \union {job.out}
        /\ DOMAIN w \subseteq Seq(Pieces) \ {NoName}
        /\ \A m \in DOMAIN files \ {job.out} : w[m] = files[m]
        /\ job.out # Std => w[job.out] = c
    BY <1>2, <2>1, WrittenTyped
  <2> HIDE DEF w
  <2>3. /\ files \in [DOMAIN files -> Contents]
        /\ DOMAIN files \subseteq Seq(Pieces) \ {NoName}
    BY <1>2 DEF TypeOK
  <2>4. files' = files \/ files' = w
    BY DEF w
  <2> QED
    BY <2>1, <2>2, <2>3, <2>4 DEF w
<1>7. TypeOK'
  <2>1. job' \in [verb : Verbs, in : DOMAIN files', out : DOMAIN files',
                  format : Formats, rm : BOOLEAN, data : Contents,
                  left : 0..MaxReads]
    BY <1>1, <1>3, <1>6
  <2>2. status' \in {"none", "ok", "fatal", "panic", "killed"}
        /\ runs' \in 0..MaxRuns
    BY <1>1, <1>2 DEF TypeOK
  <2>3. pc' \in {"idle", "copy", "remove"}
    BY <1>1
  <2> QED
    BY <1>6, <2>1, <2>2, <2>3 DEF TypeOK
<1>8. RunInv'
  <2>1. (job.verb = "decompress" => Coded(job.data))'
    BY <1>2, <1>4 DEF RunInv, Coded
  <2>2. ReplacesOther'
    BY <1>2, <1>3, <1>4, <1>6 DEF RunInv, ReplacesOther
  <2>3. CopyInv'
    BY <1>1, <1>2, <1>4, <1>5, <1>6 DEF RunInv, CopyInv, Unfinished
  <2>4. ~Faults => RemoveInv'
    BY <1>1, <1>4, <1>5, <1>6 DEF RemoveInv, IsWhole
  <2> QED
    BY <2>1, <2>2, <2>3, <2>4 DEF RunInv
<1> QED
  BY <1>2, <1>6, <1>7, <1>8 DEF TInv

\* Creating OUT establishes the invariant of the copy loops.
LEMMA OpenKeepsTInv ==
  ASSUME TInv, NEW j \in Jobs, NEW t \in Formats, NEW data \in Contents,
         Open(j, t, data), runs' \in 0..MaxRuns,
         j.in \in DOMAIN files, OutName(j) \in Seq(Pieces) \ {NoName},
         Replaces(j) => OutName(j) # j.in /\ files[j.in] = data,
         j.verb = "decompress" => Coded(data)
  PROVE  TInv'
<1> DEFINE out == OutName(j)
<1>1. /\ files' = Written(out, <<>>)
      /\ pc' = "copy" /\ status' = "none"
  BY DEF Open
<1>2. PICK left \in 0..MaxReads :
        job' = [verb |-> j.verb, in |-> j.in, out |-> out,
                format |-> t, rm |-> Replaces(j), data |-> data,
                left |-> left]
  BY DEF Open
<1>3. /\ files' \in [DOMAIN files' -> Contents]
      /\ DOMAIN files' = DOMAIN files \union {out}
      /\ DOMAIN files' \subseteq Seq(Pieces) \ {NoName}
      /\ \A m \in DOMAIN files \ {out} : files'[m] = files[m]
      /\ out # Std => files'[out] = <<>>
  <2> DEFINE w == Written(out, <<>>)
  <2>1. <<>> \in Contents
    BY DEF Contents
  <2>2. /\ w \in [DOMAIN w -> Contents]
        /\ DOMAIN w = DOMAIN files \union {out}
        /\ DOMAIN w \subseteq Seq(Pieces) \ {NoName}
        /\ \A m \in DOMAIN files \ {out} : w[m] = files[m]
        /\ out # Std => w[out] = <<>>
    BY <2>1, WrittenTyped DEF TInv
  <2> HIDE DEF w, out
  <2>3. files' = w
    BY <1>1 DEF w
  <2> QED
    BY <2>2, <2>3
<1>4. /\ job'.verb = j.verb /\ job'.in = j.in /\ job'.out = out
      /\ job'.format = t /\ job'.rm = Replaces(j) /\ job'.data = data
  BY <1>2
<1>5. TypeOK'
  <2>1. j.verb \in Verbs
    BY TranscodeAssumption DEF JobType
  <2>2. Replaces(j) \in BOOLEAN
    BY DEF Replaces
  <2>3. job' \in [verb : Verbs, in : DOMAIN files', out : DOMAIN files',
                  format : Formats, rm : BOOLEAN, data : Contents,
                  left : 0..MaxReads]
    <3> HIDE DEF out
    <3> QED
      BY <1>2, <1>3, <2>1, <2>2
  <2> HIDE DEF out
  <2> QED
    BY <1>1, <1>3, <2>3 DEF TypeOK
<1>6. RunInv'
  <2>1. (job.verb = "decompress" => Coded(job.data))'
    BY <1>4 DEF Coded
  <2>2. ReplacesOther'
    <3>1. Replaces(j) => j.in # Std
      BY DEF Replaces
    <3> QED
      BY <1>3, <1>4, <3>1 DEF ReplacesOther
  <2>3. CopyInv'
    BY <1>3, <1>4 DEF CopyInv, Unfinished
  <2>4. RemoveInv'
    BY <1>1 DEF RemoveInv
  <2> QED
    BY <2>1, <2>2, <2>3, <2>4 DEF RunInv
<1> QED
  BY <1>3, <1>5, <1>6 DEF TInv

\* Every start of a run, also one that fails, keeps the invariant.
LEMMA StartKeepsTInv ==
  ASSUME TInv, Start
  PROVE  TInv'
<1>1. PICK j \in Jobs : Compress(j) \/ Decompress(j)
  BY DEF Start
<1>2. pc = "idle" /\ runs' \in 0..MaxRuns
  BY TranscodeAssumption DEF Start, TInv, TypeOK
<1>3. /\ TypeOK /\ Std \in DOMAIN files
      /\ files \in [DOMAIN files -> Contents]
  BY DEF TInv, TypeOK
<1>4. CASE Refuse
  <2>1. UNCHANGED <<files, pc, job>> /\ status' = "fatal"
    BY <1>4 DEF Refuse
  <2> QED
    BY <1>2, <1>3, <2>1 DEF TInv, TypeOK
<1>5. CASE Compress(j) /\ ~Refuse
  <2>1. /\ j.verb = "compress" /\ j.method \in Formats /\ j.in \in DOMAIN files
        /\ \/ /\ files' = Written(OutName(j), <<>>) /\ status' = "panic"
              /\ UNCHANGED <<pc, job>>
           \/ Open(j, j.method, files[j.in])
    BY <1>5 DEF Compress
  <2>2. /\ OutName(j) \in Seq(Pieces) \ {NoName}
        /\ Replaces(j) => OutName(j) # j.in
    BY <2>1, CompressedNames
  <2>3. CASE Open(j, j.method, files[j.in])
    <3>1. files[j.in] \in Contents
      BY <1>3, <2>1
    <3> QED
      BY <1>2, <2>1, <2>2, <2>3, <3>1, OpenKeepsTInv
  <2>4. CASE files' = Written(OutName(j), <<>>) /\ status' = "panic"
             /\ UNCHANGED <<pc, job>>
    <3> DEFINE w == Written(OutName(j), <<>>)
    <3>1. <<>> \in Contents
      BY DEF Contents
    <3>2. /\ w \in [DOMAIN w -> Contents]
          /\ DOMAIN w = DOMAIN files \union {OutName(j)}
          /\ DOMAIN w \subseteq Seq(Pieces) \ {NoName}
      BY <1>3, <2>2, <3>1, WrittenTyped
    <3> HIDE DEF w
    <3>3. files' = w
      BY <2>4 DEF w
    <3>4. job' \in [verb : Verbs, in : DOMAIN files', out : DOMAIN files',
                    format : Formats, rm : BOOLEAN, data : Contents,
                    left : 0..MaxReads]
      BY <1>3, <2>4, <3>2, <3>3 DEF TypeOK
    <3> QED
      BY <1>2, <1>3, <2>4, <3>2, <3>3, <3>4 DEF TInv, TypeOK
  <2> QED
    BY <2>1, <2>3, <2>4
<1>6. CASE Decompress(j) /\ ~Refuse
  <2>1. /\ j.verb = "decompress" /\ j.in \in DOMAIN files
        /\ \E t \in CheckFmt(files[j.in]) :
             \/ Fits(j, t) /\ Open(j, t, files[j.in])
             \/ /\ Fits(j, t) /\ (OutName(j) = j.in \/ j.in = Std)
                /\ Open(j, t, <<>>)
    BY <1>6 DEF Decompress
  <2>2. PICK t \in CheckFmt(files[j.in]) :
             \/ Fits(j, t) /\ Open(j, t, files[j.in])
             \/ /\ Fits(j, t) /\ (OutName(j) = j.in \/ j.in = Std)
                /\ Open(j, t, <<>>)
    BY <2>1
  <2>3. /\ OutName(j) \in Seq(Pieces) \ {NoName}
        /\ Replaces(j) => OutName(j) # j.in /\ j.in # Std
    BY <2>1, <2>2, DecompressedNames DEF Replaces
  <2>4. files[j.in] \in Contents /\ <<>> \in Contents
    BY <1>3, <2>1 DEF Contents
  <2>5. t \in Formats /\ Coded(files[j.in])
    <3>1. t # "unknown"
      BY <2>2 DEF Fits
    <3>2. {"gzip", "lz4_legacy"} \subseteq Formats
      BY DEF Formats, Fmt2Ext
    <3> QED
      BY <2>2, <3>1, <3>2 DEF CheckFmt, Coded
  <2>6. Coded(<<>>)
    BY DEF Coded
  <2>7. CASE Open(j, t, files[j.in])
    BY <1>2, <2>1, <2>3, <2>4, <2>5, <2>7, OpenKeepsTInv
  <2>8. CASE (OutName(j) = j.in \/ j.in = Std) /\ Open(j, t, <<>>)
    BY <1>2, <2>1, <2>3, <2>4, <2>5, <2>6, <2>8, OpenKeepsTInv
  <2> QED
    BY <2>2, <2>7, <2>8
<1> QED
  BY <1>1, <1>4, <1>5, <1>6

\* The file that OUT may become while it is written, and IN being removed,
\* leave a directory that a run may find.
LEMMA LeftTyped ==
  ASSUME TInv, pc # "idle",
         \/ files' = files
         \/ files' = Written(job.out, Cut(Target))
         \/ job.rm /\ files' = Removed(job.in)
  PROVE  /\ files' \in [DOMAIN files' -> Contents] /\ Std \in DOMAIN files'
         /\ DOMAIN files' \subseteq Seq(Pieces) \ {NoName}
<1>1. /\ TypeOK /\ Std \in DOMAIN files
      /\ files \in [DOMAIN files -> Contents]
      /\ DOMAIN files \subseteq Seq(Pieces) \ {NoName}
  BY DEF TInv, TypeOK
<1>2. CASE files' = Written(job.out, Cut(Target))
  <2> DEFINE w == Written(job.out, Cut(Target))
  <2>1. job.out \in Seq(Pieces) \ {NoName} /\ Cut(Target) \in Contents
    BY <1>1, TargetTyped
  <2>2. /\ w \in [DOMAIN w -> Contents]
        /\ DOMAIN w = DOMAIN files \union {job.out}
        /\ DOMAIN w \subseteq Seq(Pieces) \ {NoName}
    BY <1>1, <2>1, WrittenTyped
  <2> HIDE DEF w
  <2>3. files' = w
    BY <1>2 DEF w
  <2> QED
    BY <1>1, <2>2, <2>3
<1>3. CASE job.rm /\ files' = Removed(job.in)
  <2>1. job.in # Std
    BY <1>3 DEF TInv, RunInv, ReplacesOther
  <2> QED
    BY <1>1, <1>3, <2>1 DEF Removed
<1> QED
  BY <1>1, <1>2, <1>3

\* The copy loops, the end of a run and a kill keep the invariant.
LEMMA ProcessKeepsTInv ==
  ASSUME TInv, Process \/ Crash
  PROVE  TInv'
<1>1. /\ TypeOK /\ Std \in DOMAIN files
      /\ job.left \in 0..MaxReads
  BY DEF TInv, TypeOK
<1>2. /\ Target \in Contents /\ Cut(Target) \in Contents
      /\ 0 \in 0..MaxReads
  BY <1>1, TargetTyped, TranscodeAssumption
<1>3. CASE CopyBlock
  <2>1. /\ pc = "copy" /\ job.left - 1 \in 0..MaxReads
        /\ Step("copy", job.left - 1)
        /\ files' = files \/ files' = Written(job.out, Cut(Target))
    BY <1>1, <1>3, TranscodeAssumption DEF CopyBlock, Partly
  <2> QED
    BY <1>2, <2>1, StepKeepsTInv
<1>4. CASE CopyFails
  <2>1. /\ pc = "copy" /\ Exit("fatal")
        /\ files' = files \/ files' = Written(job.out, Cut(Target))
    BY <1>4 DEF CopyFails, Partly
  <2> QED
    BY <2>1, LeftTyped, ExitKeepsTInv
<1>5. CASE CompressEnd
  <2>1. pc = "copy" /\ Step("remove", 0) /\ job.verb = "compress"
    BY <1>5 DEF CompressEnd, EndOfInput
  <2>2. CASE files' = Written(job.out, Target)
    BY <1>2, <2>1, <2>2, StepKeepsTInv
  <2>3. CASE Faults /\ (files' = files \/ files' = Written(job.out, Cut(Target)))
    BY <1>2, <2>1, <2>3, StepKeepsTInv
  <2> QED
    BY <1>5, <2>2, <2>3 DEF CompressEnd, Partly
<1>6. CASE DecompressEnd
  <2>1. pc = "copy" /\ Step("remove", 0) /\ job.verb = "decompress"
    BY <1>6 DEF DecompressEnd, EndOfInput
  <2>2. CASE files' = Written(job.out, Target)
    BY <1>2, <2>1, <2>2, StepKeepsTInv
  <2>3. CASE ~IsWhole(job.data)
             /\ (files' = files \/ files' = Written(job.out, Cut(Target)))
    BY <1>2, <2>1, <2>3, StepKeepsTInv
  <2>4. job.data = <<>> => ~IsWhole(job.data)
    BY DEF IsWhole
  <2> QED
    BY <1>6, <2>2, <2>3, <2>4 DEF DecompressEnd
<1>7. CASE Finish
  <2>1. pc # "idle" /\ Exit("ok")
        /\ (files' = files \/ (job.rm /\ files' = Removed(job.in)))
    BY <1>7 DEF Finish
  <2> QED
    BY <2>1, LeftTyped, ExitKeepsTInv
<1>8. CASE Crash
  <2>1. pc # "idle" /\ Exit("killed")
        /\ (files' = files \/ (job.rm /\ files' = Removed(job.in)))
    BY <1>8 DEF Crash
  <2> QED
    BY <2>1, LeftTyped, ExitKeepsTInv
<1> QED
  BY <1>3, <1>4, <1>5, <1>6, <1>7, <1>8 DEF Process

\* The invariant is inductive.
LEMMA NextTInv == TInv /\ [Next]_vars => TInv'
<1>1. ASSUME TInv, UNCHANGED vars PROVE TInv'
  <2>1. UNCHANGED <<files, pc, job, status, runs>>
    BY <1>1 DEF vars
  <2>2. TypeOK' /\ (Std \in DOMAIN files)'
    BY <1>1, <2>1 DEF TInv, TypeOK
  <2>3. RunInv' = RunInv
    BY <2>1 DEF RunInv, Coded, ReplacesOther, CopyInv, Unfinished, RemoveInv,
                Target, Cut, Encoded, Decoded, IsWhole
  <2> QED
    BY <1>1, <2>1, <2>2, <2>3 DEF TInv
<1> QED
  BY <1>1, StartKeepsTInv, ProcessKeepsTInv DEF Next

\* Type correctness: the directory, the files of the run in progress and its
\* format keep their types; a run only works on files that exist.
THEOREM TranscodeTyped == Spec => []TypeOK
<1>1. TInv => TypeOK
  BY DEF TInv
<1> QED
  BY <1>1, InitTInv, NextTInv, PTL DEF Spec

-----------------------------------------------------------------------------
(* Nothing is lost.                                                        *)

\* A text that can be got out of a file lies in a whole, nonempty file.
LEMMA KeptWhole ==
  ASSUME NEW c \in Contents, NEW t \in Texts, c # <<>>, c[1].of = t,
         \A i \in DOMAIN c : c[i].whole
  PROVE  /\ IsWhole(c)
         /\ Coded(c) => Len(c) > 1
<1>1. Len(c) \in Nat \ {0} /\ Len(c) \in DOMAIN c
  BY DEF Contents
<1>2. c[1].of \notin Formats
  BY TranscodeAssumption
<1> QED
  BY <1>1, <1>2 DEF IsWhole, Coded

\* Writing OUT takes the last copy of no text: what OUT holds is empty or cut.
LEMMA WritingKeeps ==
  ASSUME TInv, pc = "copy", NEW c \in Contents,
         files' = files \/ files' = Written(job.out, c),
         NEW t \in Texts, Kept(t)
  PROVE  Kept(t)'
<1>1. CASE files' = files
  BY <1>1 DEF Kept
<1>2. CASE files' = Written(job.out, c)
  <2>1. TypeOK /\ Std \in DOMAIN files /\ files \in [DOMAIN files -> Contents]
    BY DEF TInv, TypeOK
  <2>2. CASE job.out = Std
    BY <1>1, <1>2, <2>2 DEF Written
  <2>3. CASE job.out # Std
    <3>1. PICK n \in DOMAIN files :
            /\ files[n] # <<>> /\ files[n][1].of = t
            /\ \A i \in DOMAIN files[n] : files[n][i].whole
      BY DEF Kept
    <3>2. IsWhole(files[n])
      BY <2>1, <3>1, KeptWhole
    <3>3. files[job.out] \in {<<>>, Cut(Target)}
      BY <2>3 DEF TInv, RunInv, CopyInv, Unfinished
    <3>4. ~IsWhole(files[job.out])
      BY <2>1, <3>3, TargetTyped, CutCuts DEF IsWhole
    <3>5. n \in DOMAIN files \ {job.out}
      BY <3>2, <3>4
    <3> DEFINE w == Written(job.out, c)
    <3>6. job.out \in Seq(Pieces) \ {NoName}
      BY <2>1, TargetTyped
    <3>8. /\ DOMAIN w = DOMAIN files \union {job.out}
          /\ \A m \in DOMAIN files \ {job.out} : w[m] = files[m]
      BY <2>1, <3>6, WrittenTyped
    <3> HIDE DEF w
    <3>7. files' = w
      BY <1>2 DEF w
    <3> QED
      BY <3>1, <3>5, <3>7, <3>8 DEF Kept
  <2> QED
    BY <2>2, <2>3
<1> QED
  BY <1>1, <1>2

\* When IN is removed its texts are in OUT.
LEMMA RemovingKeeps ==
  ASSUME TInv, ~Faults, pc = "remove", job.rm, job.out # Std,
         files' = Removed(job.in), NEW t \in Texts, Kept(t)
  PROVE  Kept(t)'
<1>1. /\ TypeOK /\ files \in [DOMAIN files -> Contents]
      /\ job.data \in Contents /\ job.format \in Formats
      /\ job.out \in DOMAIN files /\ job.verb \in Verbs
  BY TargetTyped DEF TInv, TypeOK
<1>2. /\ job.in # job.out /\ files[job.in] = job.data
      /\ job.verb = "decompress" => Coded(job.data)
  BY DEF TInv, RunInv, ReplacesOther
<1>3. PICK n \in DOMAIN files :
        /\ files[n] # <<>> /\ files[n][1].of = t
        /\ \A i \in DOMAIN files[n] : files[n][i].whole
  BY DEF Kept
<1>4. \A m \in DOMAIN files \ {job.in} : m \in DOMAIN files' /\ files'[m] = files[m]
  BY DEF Removed
<1>5. CASE n # job.in
  BY <1>3, <1>4, <1>5 DEF Kept
<1>6. CASE n = job.in
  <2> DEFINE d == job.data
  <2>1. /\ d # <<>> /\ d[1].of = t /\ \A i \in DOMAIN d : d[i].whole
    BY <1>2, <1>3, <1>6
  <2>2. IsWhole(d) /\ (Coded(d) => Len(d) > 1)
    BY <1>1, <2>1, KeptWhole
  <2>3. files[job.out] = Target
    BY <2>2 DEF TInv, RunInv, RemoveInv
  <2>4. Len(d) \in Nat \ {0} /\ DOMAIN d = 1..Len(d)
    BY <1>1, <2>1 DEF Contents
  <2>5. CASE job.verb = "compress"
    <3> DEFINE e == Encoded(d, job.format)
    <3>1. /\ e \in Contents /\ Len(e) = Len(d) + 1
          /\ \A i \in DOMAIN d : e[i] = d[i]
          /\ e[Len(d) + 1] = [of |-> job.format, whole |-> TRUE]
      BY <1>1, CodecsTyped
    <3>2. files[job.out] = e
      BY <2>3, <2>5 DEF Target
    <3> HIDE DEF e
    <3>3. DOMAIN e = 1..(Len(d) + 1)
      BY <3>1 DEF Contents
    <3>4. e # <<>> /\ e[1].of = t /\ \A i \in DOMAIN e : e[i].whole
      BY <2>1, <2>4, <3>1, <3>3
    <3> QED
      BY <1>1, <1>2, <1>4, <3>2, <3>4 DEF Kept
  <2>6. CASE job.verb = "decompress"
    <3> DEFINE e == Decoded(d)
    <3>1. /\ e \in Contents /\ Len(e) = Len(d) - 1
          /\ \A i \in 1..(Len(d) - 1) : e[i] = d[i]
      BY <1>1, <2>1, CodecsTyped
    <3>2. files[job.out] = e
      BY <2>3, <2>6 DEF Target
    <3> HIDE DEF e
    <3>3. Len(d) > 1
      BY <1>2, <2>2, <2>6
    <3>4. DOMAIN e = 1..(Len(d) - 1)
      BY <3>1 DEF Contents
    <3>5. e # <<>> /\ e[1].of = t /\ \A i \in DOMAIN e : e[i].whole
      BY <2>1, <2>4, <3>1, <3>3, <3>4
    <3> QED
      BY <1>1, <1>2, <1>4, <3>2, <3>5 DEF Kept
  <2> QED
    BY <1>1, <2>5, <2>6 DEF Verbs
<1> QED
  BY <1>5, <1>6

\* As long as the host's file operations succeed, no step of a run after the
\* creation of OUT loses data, in a directory of any size and in any sequence
\* of jobs and kills: when Compress and Decompress remove IN, its texts are in
\* OUT, and while they write OUT there is nothing in it to be lost.
THEOREM NothingLost == ~Faults => (Spec => OnlyCreateLoses)
<1> DEFINE A == \A t \in Texts : Kept(t) /\ ~Kept(t)' => pc = "idle" \/ job.out = Std
<1>1. ASSUME ~Faults, TInv, [Next]_vars PROVE A \/ UNCHANGED vars
  <2> SUFFICES ASSUME Next, NEW t \in Texts, Kept(t), pc # "idle", job.out # Std
               PROVE  Kept(t)'
    BY <1>1
  <2>1. Target \in Contents /\ Cut(Target) \in Contents
    BY <1>1, TargetTyped DEF TInv
  <2>2. CASE CopyBlock \/ CopyFails \/ CompressEnd \/ DecompressEnd
    <3>1. pc = "copy"
          /\ \/ files' = files
             \/ files' = Written(job.out, Target)
             \/ files' = Written(job.out, Cut(Target))
      BY <2>2 DEF CopyBlock, CopyFails, CompressEnd, DecompressEnd, Partly,
                  EndOfInput
    <3> QED
      BY <1>1, <2>1, <3>1, WritingKeeps
  <2>3. CASE Finish \/ Crash
    <3>1. \/ files' = files
          \/ pc = "remove" /\ job.rm /\ files' = Removed(job.in)
      BY <1>1, <2>3 DEF Finish, Crash
    <3>2. CASE files' = files
      BY <3>2 DEF Kept
    <3>3. CASE pc = "remove" /\ job.rm /\ files' = Removed(job.in)
      BY <1>1, <3>3, RemovingKeeps
    <3> QED
      BY <3>1, <3>2, <3>3
  <2>4. ~Start
    BY DEF Start
  <2> QED
    BY <2>2, <2>3, <2>4 DEF Next, Process
<1>2. ASSUME ~Faults PROVE TInv /\ [Next]_vars => A \/ UNCHANGED vars
  BY <1>1, <1>2
<1>3. ASSUME ~Faults PROVE Spec => OnlyCreateLoses
  <2>1. TInv /\ [Next]_vars => A \/ UNCHANGED vars
    BY <1>2, <1>3
  <2> QED
    BY <2>1, InitTInv, NextTInv, PTL DEF Spec, OnlyCreateLoses
<1> QED
  BY <1>3

-----------------------------------------------------------------------------
(* What a run that reports success has done.                               *)

\* IN holds what the run reads, unless it is written over or is a pipe; and a
\* decoder is only opened on a file that is not empty.
ReadInv ==
  job.out # job.in /\ (job.verb = "compress" \/ job.in # Std)
    => /\ files[job.in] = job.data
       /\ job.verb = "decompress" => job.data # <<>>

\* A decoder that reported the end of its stream had reached it, or was given
\* nothing, or has a format that cannot tell.
EndInv ==
  pc = "remove" /\ job.verb = "decompress"
    => IsWhole(job.data) \/ job.data = <<>> \/ job.format \in Unframed

ExactInv == pc # "idle" => ReadInv /\ EndInv

\* Opening IN establishes it: the file that is read is not the one created.
LEMMA OpenReads ==
  ASSUME TInv, NEW j \in Jobs, NEW t \in Formats, NEW data \in Contents,
         Open(j, t, data), OutName(j) \in Seq(Pieces) \ {NoName},
         j.in \in DOMAIN files,
         OutName(j) # j.in /\ (j.verb = "compress" \/ j.in # Std)
           => /\ files[j.in] = data
              /\ j.verb = "decompress" => data # <<>>
  PROVE  ExactInv'
<1> DEFINE out == OutName(j)
           w   == Written(out, <<>>)
<1>1. files' = w /\ pc' = "copy"
  BY DEF Open
<1>2. PICK left \in 0..MaxReads :
        job' = [verb |-> j.verb, in |-> j.in, out |-> out,
                format |-> t, rm |-> Replaces(j), data |-> data,
                left |-> left]
  BY DEF Open
<1>3. /\ job'.verb = j.verb /\ job'.in = j.in /\ job'.out = out
      /\ job'.data = data
  BY <1>2
<1>4. \A m \in DOMAIN files \ {out} : w[m] = files[m]
  <2>1. <<>> \in Contents
    BY DEF Contents
  <2> QED
    BY <2>1, WrittenTyped DEF TInv
<1> HIDE DEF out, w
<1>5. ReadInv'
  BY <1>1, <1>3, <1>4 DEF ReadInv, out
<1>6. EndInv'
  BY <1>1 DEF EndInv
<1> QED
  BY <1>5, <1>6 DEF ExactInv

\* Every start of a run establishes it.
LEMMA StartReads ==
  ASSUME TInv, Start
  PROVE  ExactInv'
<1>1. PICK j \in Jobs : Compress(j) \/ Decompress(j)
  BY DEF Start
<1>2. pc = "idle" /\ files \in [DOMAIN files -> Contents]
  BY DEF Start, TInv, TypeOK
<1>3. CASE pc' = "idle"
  BY <1>3 DEF ExactInv
<1>4. CASE Compress(j) /\ pc' # "idle"
  <2>1. /\ j.verb = "compress" /\ j.method \in Formats /\ j.in \in DOMAIN files
        /\ Open(j, j.method, files[j.in])
    BY <1>2, <1>4 DEF Compress, Refuse
  <2>2. OutName(j) \in Seq(Pieces) \ {NoName}
    BY <2>1, CompressedNames
  <2>3. files[j.in] \in Contents
    BY <1>2, <2>1
  <2> QED
    BY <2>1, <2>2, <2>3, OpenReads
<1>5. CASE Decompress(j) /\ pc' # "idle"
  <2>1. /\ j.verb = "decompress" /\ j.in \in DOMAIN files
        /\ \E t \in CheckFmt(files[j.in]) :
             \/ Fits(j, t) /\ Open(j, t, files[j.in])
             \/ /\ Fits(j, t) /\ (OutName(j) = j.in \/ j.in = Std)
                /\ Open(j, t, <<>>)
    BY <1>2, <1>5 DEF Decompress, Refuse
  <2>2. PICK t \in CheckFmt(files[j.in]) :
             \/ Fits(j, t) /\ Open(j, t, files[j.in])
             \/ /\ Fits(j, t) /\ (OutName(j) = j.in \/ j.in = Std)
                /\ Open(j, t, <<>>)
    BY <2>1
  <2>3. OutName(j) \in Seq(Pieces) \ {NoName}
    BY <2>1, <2>2, DecompressedNames
  <2>4. files[j.in] \in Contents /\ <<>> \in Contents
    BY <1>2, <2>1 DEF Contents
  <2>5. t \in Formats /\ files[j.in] # <<>>
    <3>1. t # "unknown"
      BY <2>2 DEF Fits
    <3>2. {"gzip", "lz4_legacy"} \subseteq Formats
      BY DEF Formats, Fmt2Ext
    <3> QED
      BY <2>2, <3>1, <3>2 DEF CheckFmt
  <2>6. CASE Open(j, t, files[j.in])
    BY <2>1, <2>3, <2>4, <2>5, <2>6, OpenReads
  <2>7. CASE (OutName(j) = j.in \/ j.in = Std) /\ Open(j, t, <<>>)
    BY <2>1, <2>3, <2>4, <2>5, <2>7, OpenReads
  <2> QED
    BY <2>2, <2>6, <2>7
<1> QED
  BY <1>1, <1>3, <1>4, <1>5

\* The copy loops write OUT only.
LEMMA StepReads ==
  ASSUME TInv, ExactInv, pc = "copy", NEW next, NEW left, Step(next, left),
         NEW c \in Contents, files' = files \/ files' = Written(job.out, c),
         next = "remove" /\ job.verb = "decompress"
           => IsWhole(job.data) \/ job.data = <<>> \/ job.format \in Unframed
  PROVE  ExactInv'
<1>1. pc' = next /\ job' = [job EXCEPT !.left = left]
  BY DEF Step
<1>2. job \in [verb : Verbs, in : DOMAIN files, out : DOMAIN files,
               format : Formats, rm : BOOLEAN, data : Contents,
               left : 0..MaxReads]
  BY DEF TInv, TypeOK
<1>3. /\ job'.verb = job.verb /\ job'.in = job.in /\ job'.out = job.out
      /\ job'.format = job.format /\ job'.data = job.data
  BY <1>1, <1>2
<1>4. job.out # job.in => files'[job.in] = files[job.in]
  <2> DEFINE w == Written(job.out, c)
  <2>1. job.in \in DOMAIN files /\ job.out \in Seq(Pieces) \ {NoName}
    BY <1>2, TargetTyped DEF TInv
  <2>2. \A m \in DOMAIN files \ {job.out} : w[m] = files[m]
    BY <2>1, WrittenTyped DEF TInv
  <2> HIDE DEF w
  <2>3. files' = files \/ files' = w
    BY DEF w
  <2> QED
    BY <2>1, <2>2, <2>3
<1>5. ReadInv'
  BY <1>3, <1>4 DEF ExactInv, ReadInv
<1>6. EndInv'
  BY <1>1, <1>3 DEF EndInv, IsWhole
<1> QED
  BY <1>5, <1>6 DEF ExactInv

\* The invariant is inductive, beside that of the copy loops.
LEMMA NextExactInv == TInv /\ ExactInv /\ [Next]_vars => ExactInv'
<1> SUFFICES ASSUME TInv, ExactInv, [Next]_vars
             PROVE  ExactInv'
  OBVIOUS
<1>1. CASE UNCHANGED vars
  BY <1>1 DEF vars, ExactInv, ReadInv, EndInv, IsWhole
<1>2. CASE Start
  BY <1>2, StartReads
<1>3. Target \in Contents /\ Cut(Target) \in Contents
  BY TargetTyped DEF TInv
<1>4. CASE CopyBlock
  <2>1. pc = "copy" /\ Step("copy", job.left - 1)
        /\ (files' = files \/ files' = Written(job.out, Cut(Target)))
    BY <1>4 DEF CopyBlock, Partly
  <2> QED
    BY <1>3, <2>1, StepReads
<1>5. CASE CompressEnd
  <2>1. pc = "copy" /\ Step("remove", 0) /\ job.verb # "decompress"
        /\ \/ files' = Written(job.out, Target)
           \/ files' = files \/ files' = Written(job.out, Cut(Target))
    BY <1>5 DEF CompressEnd, EndOfInput, Partly
  <2> QED
    BY <1>3, <2>1, StepReads
<1>6. CASE DecompressEnd
  <2>1. pc = "copy" /\ Step("remove", 0)
        /\ (IsWhole(job.data) \/ job.data = <<>> \/ job.format \in Unframed)
        /\ \/ files' = Written(job.out, Target)
           \/ files' = files \/ files' = Written(job.out, Cut(Target))
    BY <1>6 DEF DecompressEnd, EndOfInput
  <2> QED
    BY <1>3, <2>1, StepReads
<1>7. CASE CopyFails \/ Finish \/ Crash
  <2>1. pc' = "idle"
    BY <1>7 DEF CopyFails, Finish, Crash, Exit
  <2> QED
    BY <2>1 DEF ExactInv
<1> QED
  BY <1>1, <1>2, <1>4, <1>5, <1>6, <1>7 DEF Next, Process

\* As long as the host's file operations succeed, a run of Compress or
\* Decompress that reports success left in OUT exactly IN with one layer more
\* or less: no leftover of a killed run, no half of a file, no other file that
\* an earlier job left under the name.
THEOREM DoneExact == ~Faults => (Spec => DoneIsExact)
<1> DEFINE A ==
      /\ pc = "remove" /\ status' = "ok"
      /\ job.out \notin {Std, job.in}
      /\ job.verb = "decompress"
           => job.in # Std /\ (job.format \in Unframed => IsWhole(files[job.in]))
      => files'[job.out] = IF job.verb = "compress"
                           THEN Encoded(files[job.in], job.format)
                           ELSE Decoded(files[job.in])
<1>1. ASSUME ~Faults, TInv, ExactInv, [Next]_vars PROVE A \/ UNCHANGED vars
  <2> SUFFICES ASSUME Next, pc = "remove", status' = "ok",
                      job.out \notin {Std, job.in},
                      job.verb = "decompress"
                        => /\ job.in # Std
                           /\ job.format \in Unframed => IsWhole(files[job.in])
               PROVE  files'[job.out] = IF job.verb = "compress"
                                        THEN Encoded(files[job.in], job.format)
                                        ELSE Decoded(files[job.in])
    BY <1>1
  <2>1. Finish
    BY DEF Next, Process, Start, CopyBlock, CopyFails, CompressEnd,
           DecompressEnd, EndOfInput, Crash, Exit
  <2>2. job.out \in DOMAIN files /\ job.verb \in Verbs
    BY <1>1, TargetTyped DEF TInv
  <2>3. files'[job.out] = files[job.out]
    BY <1>1, <2>1, <2>2 DEF Finish, Removed
  <2>4. /\ files[job.in] = job.data
        /\ job.verb = "compress" \/ IsWhole(job.data)
    BY <1>1, <2>2 DEF ExactInv, ReadInv, EndInv, Verbs
  <2>5. files[job.out] = Target
    BY <1>1, <2>4 DEF TInv, RunInv, RemoveInv
  <2> QED
    BY <2>3, <2>4, <2>5 DEF Target
<1>2. ASSUME ~Faults PROVE TInv /\ ExactInv /\ [Next]_vars => A \/ UNCHANGED vars
  BY <1>1, <1>2
<1>3. Init => ExactInv
  BY DEF Init, ExactInv
<1>4. ASSUME ~Faults PROVE Spec => DoneIsExact
  <2>1. TInv /\ ExactInv /\ [Next]_vars => A \/ UNCHANGED vars
    BY <1>2, <1>4
  <2> QED
    BY <2>1, <1>3, InitTInv, NextTInv, NextExactInv, PTL DEF Spec, DoneIsExact
<1> QED
  BY <1>4
=============================================================================
