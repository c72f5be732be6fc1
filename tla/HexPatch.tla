------------------------------ MODULE HexPatch ------------------------------
(***************************************************************************)
(* `magiskboot hexpatch <file> <from> <to>` (patch.go: HexPatch): a shared *)
(* mapping of the file is gone through byte by byte, and changed in place. *)
(* A cell is a byte.                                                       *)
(***************************************************************************)
EXTENDS HostFiles

VARIABLES
  i,        \* the byte being looked at
  patched,  \* one was patched
  before    \* the file as it was (a history variable)

hex == <<i, patched, before>>

M == dir[job.file]

StartHexPatch(j) ==
  /\ j.verb = "hexpatch"
  /\ Begin(j)
  /\ IF ~Exists(j.file) \/ dir[j.file] = <<>>
     THEN pc' = "idle" /\ status' = "exit1" /\ UNCHANGED hex
     ELSE /\ pc' = "scan" /\ i' = 0 /\ patched' = FALSE /\ before' = dir[j.file]
          /\ UNCHANGED status

\* The bytes of the pattern that agree with the file from byte k on.
Agreeing(k) ==
  {n \in 0 .. Len(job.from) :
     k + n <= Len(M) /\ SubSeq(M, k + 1, k + n) = SubSeq(job.from, 1, n)}

\* Mutant: the last byte is not compared.
MatchesPrefix(k) == Len(job.from) - 1 \in Agreeing(k)

Matches(k) == Len(job.from) \in Agreeing(k)

\* The next byte of the pattern is compared with one behind the mapping.
Overruns(k) ==
  job.from = <<>> \/ (Len(M) - k < Len(job.from) /\ Len(M) - k \in Agreeing(k))

\* Mutant: m = append(m[:k], append(to, m[k+len(to):]...)...).
PatchedAppends(m, k, to) ==
  SubSeq(m, 1, k) \o to
    \o [n \in 1 .. IF k + Len(to) < Len(m) THEN Len(m) - k - Len(to) ELSE 0 |->
          m[k + Len(to) + n]]

\* copy(m[k:], to): as much of it as there is room for.
Patched(m, k, to) ==
  [n \in DOMAIN m |-> IF k < n /\ n <= k + Len(to) THEN to[n - k] ELSE m[n]]

\* Mutant: i++ only after a match.
ScanWaits ==
  /\ pc = "scan" /\ i < Len(M)
  /\ UNCHANGED <<made, dropped, before>>
  /\ IF Overruns(i) THEN Exit("panic") /\ UNCHANGED <<dir, i, patched>>
     ELSE /\ i' = (IF Matches(i) THEN i + 1 ELSE i) /\ Goto("scan")
          /\ IF Matches(i)
             THEN dir' = With(job.file, Patched(M, i, job.to)) /\ patched' = TRUE
             ELSE UNCHANGED <<dir, patched>>

\* One round of the loop; what a patch has written is looked at again.
Scan ==
  /\ pc = "scan" /\ i < Len(M)
  /\ UNCHANGED <<made, dropped, before>>
  /\ IF Overruns(i) THEN Exit("panic") /\ UNCHANGED <<dir, i, patched>>
     ELSE /\ i' = i + 1 /\ Goto("scan")
          /\ IF Matches(i)
             THEN dir' = With(job.file, Patched(M, i, job.to)) /\ patched' = TRUE
             ELSE UNCHANGED <<dir, patched>>

EndScan ==
  /\ pc = "scan" /\ i = Len(M)
  /\ Exit(IF patched THEN "exit0" ELSE "exit1")
  /\ UNCHANGED <<files, hex>>

HexPatchStep == Scan \/ EndScan

-----------------------------------------------------------------------------
(***************************************************************************)
(* Properties.                                                             *)
(***************************************************************************)
HexDone(s) == Idle /\ job.verb = "hexpatch" /\ status = s /\ Exists(job.file) /\ M # <<>>

Occurs(c, k) == SubSeq(c, k + 1, k + Len(job.from)) = job.from
Occurrences(c) == {k \in 0 .. Len(c) - Len(job.from) : Occurs(c, k)}

\* c with the occurrences in S replaced.
ReplacedAt(c, S) ==
  [n \in DOMAIN c |->
     IF \E k \in S : k < n /\ n <= k + Len(job.to)
     THEN job.to[n - (CHOOSE k \in S : k < n /\ n <= k + Len(job.to))]
     ELSE c[n]]

\* No occurrence touches another one, and replacing some of them makes no other
\* one.  (It does not suffice that replacing all of them leaves none.)
Separate ==
  /\ Len(job.to) = Len(job.from)
  /\ \A k, l \in Occurrences(before) : k < l => k + Len(job.from) <= l
  /\ \A S \in SUBSET Occurrences(before) :
       Occurrences(ReplacedAt(before, S)) = Occurrences(before) \ S

\* The usage: "Search <hexpattern1> in <file>, and replace it with
\* <hexpattern2>".  Where occurrences keep apart that is what is left of the
\* file, although the scan looks again at what it has written; and the exit
\* status tells whether there was one.
PatchReplaces ==
  /\ HexDone("exit0") /\ Separate =>
       M = ReplacedAt(before, Occurrences(before)) /\ Occurrences(before) # {}
  /\ HexDone("exit1") /\ Separate => M = before /\ Occurrences(before) = {}
=============================================================================
