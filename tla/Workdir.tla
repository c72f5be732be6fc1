------------------------------ MODULE Workdir -------------------------------
(***************************************************************************)
(* Runs of magiskboot in a working directory: Main (magiskboot.go) takes   *)
(* the command line to an action; `split` and `hexpatch` make and change   *)
(* files there, `sha1` reads one, `cleanup` removes the parts.  A run may  *)
(* be killed between any two of its steps, and while it writes a part; the *)
(* host may fail to open, to create, to write and to remove a file for     *)
(* split and cleanup, not for the others.  The actions with files of their *)
(* own - cpio, compress, decompress, extract - have their modules.         *)
(***************************************************************************)
EXTENDS SplitDtb, HexPatch

VARIABLE next   \* the name that cleanup comes to

vars == <<host, split, hex, next>>

\* Mutant: one file is not on the list.
PartNamesForgetDtb ==
  << "header", KERNEL_FILE, "ramdisk.cpio", "second", "extra",
     "recovery_dtbo", "dtb", "bootconfig", "vendor_ramdisk" >>

\* What cleanup removes, in this order.
PartNames ==
  << "header", KERNEL_FILE, "ramdisk.cpio", "second", KER_DTB_FILE, "extra",
     "recovery_dtbo", "dtb", "bootconfig", "vendor_ramdisk" >>

Parts == {PartNames[k] : k \in DOMAIN PartNames}

Usage == [verb |-> "usage", file |-> "none"]
Unimplemented == [verb |-> "panic", file |-> "none"]

\* Main, with args[1] after TrimLeft, and the operands behind it.
Main(action, operands) ==
  LET n == Len(operands) IN
  CASE action = "cleanup" -> [verb |-> "cleanup", file |-> "none"]
    [] action = "sha1" /\ n > 0 -> [verb |-> "sha1", file |-> operands[1]]
    [] action = "split" /\ n > 0 ->
         IF operands[1] # "-n"
         THEN [verb |-> "split", file |-> operands[1], skip |-> FALSE]
         ELSE IF n = 1 THEN Usage
              ELSE [verb |-> "split", file |-> operands[2], skip |-> TRUE]
    [] action \in {"unpack", "repack", "verify", "dtb"} /\ n > 0 -> Unimplemented
    [] action = "sign" /\ n > 0 -> IF n = 3 THEN Usage ELSE Unimplemented
    [] action \in {"cpio", "compress", "decompress", "extract"} /\ n > 0 ->
         [verb |-> "elsewhere", file |-> operands[1]]
    [] action = "hexpatch" /\ n > 2 ->
         [verb |-> "hexpatch", file |-> operands[1], from |-> operands[2],
          to |-> operands[3]]
    [] OTHER -> Usage

ASSUME JobAssumption ==
  \A j \in Jobs :
    LET r == Main(j.action, j.operands) IN
    /\ r.verb # "elsewhere"
    /\ r.verb = "hexpatch" => r.from \in Contents /\ r.to \in Contents

Init ==
  /\ dir \in Dirs /\ job = NoJob /\ pc = "idle" /\ status = "none" /\ runs = 0
  /\ old = dir /\ made = {} /\ dropped = {}
  /\ curr = 0 /\ off = 0 /\ format = "unknown"
  /\ i = 0 /\ patched = FALSE /\ before = <<>>
  /\ next = 1

StartCleanup(j) ==
  /\ j.verb = "cleanup"
  /\ Begin(j) /\ pc' = "cleanup" /\ next' = 1
  /\ UNCHANGED status

\* Mutant: sha1 opens its file with os.Create.
ReadOnlyCreates(j) ==
  /\ j.verb \in {"sha1", "usage", "panic"}
  /\ job' = j /\ runs' = runs + 1 /\ old' = dir /\ dropped' = {}
  /\ UNCHANGED <<made, pc>>
  /\ dir' = IF j.verb = "sha1" THEN With(j.file, <<>>) ELSE dir
  /\ status' = IF j.verb = "panic" THEN "panic"
               ELSE IF j.verb = "sha1" THEN "exit0" ELSE "exit1"

\* Runs that leave the files alone: sha1, and those that Main ends.
ReadOnly(j) ==
  /\ j.verb \in {"sha1", "usage", "panic"}
  /\ Begin(j) /\ UNCHANGED pc
  /\ status' = IF j.verb = "panic" THEN "panic"
               ELSE IF j.verb = "sha1" /\ Exists(j.file) THEN "exit0" ELSE "exit1"

Start ==
  /\ Idle /\ runs < MaxRuns
  /\ \E a \in Jobs :
       LET j == Main(a.action, a.operands) IN
       \/ StartSplit(j) /\ UNCHANGED <<hex, next>>
       \/ StartHexPatch(j) /\ UNCHANGED <<split, next>>
       \/ StartCleanup(j) /\ UNCHANGED <<split, hex>>
       \/ ReadOnly(j) /\ UNCHANGED <<split, hex, next>>

\* os.Remove, os.RemoveAll of the next name; their errors are dropped.
Cleanup ==
  /\ pc = "cleanup"
  /\ UNCHANGED <<made, split, hex>>
  /\ \/ /\ next <= Len(PartNames) /\ next' = next + 1 /\ Goto("cleanup")
        /\ \/ dir' = Without(PartNames[next]) /\ UNCHANGED dropped
           \/ /\ Faults /\ Exists(PartNames[next]) /\ UNCHANGED dir
              /\ dropped' = dropped \union {PartNames[next]}
     \/ /\ next > Len(PartNames) /\ Exit("exit0")
        /\ UNCHANGED <<dir, dropped, next>>

\* The process is killed, and takes what it had written of a part.
Killed ==
  /\ ~Idle /\ Exit("killed") /\ UNCHANGED <<dropped, split, hex, next>>
  /\ UNCHANGED <<dir, made>> \/ KilledInDump

Step ==
  \/ SplitStep /\ UNCHANGED <<hex, next>>
  \/ HexPatchStep /\ UNCHANGED <<split, next>>
  \/ Cleanup

Next == Start \/ Step \/ Killed

Spec     == Init /\ [][Next]_vars
FairSpec == Spec /\ WF_vars(Step)   \* a run that is not killed goes on

-----------------------------------------------------------------------------
(***************************************************************************)
(* Properties.                                                             *)
(***************************************************************************)

\* The variables have their types.
TypeOK ==
  /\ \A d \in {dir, old} : \A n \in DOMAIN d : d[n] \in Contents
  /\ made \subseteq Parts /\ dropped \subseteq Parts
  /\ pc \in {"idle", "search", "format", "kernel", "dtb", "scan", "cleanup"}
  /\ pc \in {"search", "format", "kernel", "dtb"} =>
       Exists(job.file) /\ File # <<>> /\ job.skip \in BOOLEAN
  /\ pc = "scan" => Exists(job.file) /\ Len(M) = Len(before) /\ i <= Len(M)
  /\ status \in {"none", "exit0", "exit1", "panic", "killed"}
  /\ runs \in 0 .. MaxRuns /\ curr \in Nat /\ off \in Nat /\ i \in Nat
  /\ format \in Formats /\ patched \in BOOLEAN
  /\ before \in Contents /\ next \in 1 .. Len(PartNames) + 1

\* What a run may change: of the files that are not the parts, hexpatch the
\* one it is given, and no other run any - killed ones included.
OnlyPartsChange ==
  [][\A n \in (DOMAIN dir \union DOMAIN dir') \ Parts :
       ~(job.verb = "hexpatch" /\ n = job.file) =>
         n \in DOMAIN dir /\ n \in DOMAIN dir' /\ dir'[n] = dir[n]]_vars

\* What split has made cleanup removes: after it none of the files that runs
\* have created is there, cut or whole, whatever the runs were and wherever they
\* were killed - but those that the host did not remove, which the exit status
\* does not tell.
CleanupRemovesParts ==
  Idle /\ job.verb = "cleanup" /\ status = "exit0" =>
    made \intersect DOMAIN dir \subseteq dropped

\* A hexpatch or a cleanup ends.
OtherRunsEnd == (pc \in {"scan", "cleanup"}) ~> Idle
=============================================================================
