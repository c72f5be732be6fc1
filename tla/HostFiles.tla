----------------------------- MODULE HostFiles ------------------------------
(***************************************************************************)
(* A directory, and the runs of magiskboot in it one after another: what   *)
(* the actions that work on the files of the current directory share.  A   *)
(* file is a sequence of cells, natural numbers; what a cell stands for, a *)
(* byte or a 32-bit word, is up to the action.                             *)
(*                                                                         *)
(* With Faults the calls of the host may fail.  An error that the code     *)
(* drops is kept in a history variable, beside the directory as the run    *)
(* has found it.                                                           *)
(***************************************************************************)
EXTENDS Integers, Sequences, FiniteSets

CONSTANTS
  Dirs,     \* the directories a history may start from: names to files
  Jobs,     \* the command lines: the action, and its operands
  Faults,   \* calls of the host may fail
  Cuts,     \* bound: the lengths at which the writing of a file may be cut
  MaxRuns   \* bound: runs of the tool

Contents == Seq(Nat)

ASSUME HostAssumption ==
  /\ \A d \in Dirs : \A n \in DOMAIN d : d[n] \in Contents
  /\ Faults \in BOOLEAN /\ Cuts \subseteq Nat /\ MaxRuns \in Nat

VARIABLES
  dir,     \* the directory
  job,     \* the command line of the run, of the last one between two
  pc,      \* where the run is; "idle" between two
  status,  \* how the last run ended
  runs,    \* runs so far
  old,     \* the directory as the run has found it
  made,    \* the names that runs have created
  dropped  \* the names for which the run has dropped an error

files == <<dir, made, dropped>>
host  == <<files, job, pc, status, runs, old>>

NoJob == [verb |-> "none", file |-> "none"]

Exists(n) == n \in DOMAIN dir

\* dir with content c for n: os.Create and what is written to it.
With(n, c) == [m \in DOMAIN dir \union {n} |-> IF m = n THEN c ELSE dir[m]]
Without(n) == [m \in DOMAIN dir \ {n} |-> dir[m]]

\* os.Create, and c written: all that is to be written, or where it was cut.
Create(n, c) == dir' = With(n, c) /\ made' = made \union {n}
CutOff(c)    == {SubSeq(c, 1, k) : k \in {m \in Cuts : m < Len(c)}}

\* The host does what is asked for, or fails in one of these ways.
Or(does, failing) == {does} \union (IF Faults THEN failing ELSE {})

\* A run begins.
Begin(j) ==
  /\ job' = j /\ runs' = runs + 1 /\ old' = dir /\ dropped' = {}
  /\ UNCHANGED <<dir, made>>

\* The run goes on at p.
Goto(p) == pc' = p /\ UNCHANGED <<job, status, runs, old>>

\* The process ends.
Exit(s) == pc' = "idle" /\ status' = s /\ UNCHANGED <<job, runs, old>>

Idle == pc = "idle"
=============================================================================
