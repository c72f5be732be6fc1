------------------------------ MODULE Ramdisk -------------------------------
(***************************************************************************)
(* What `magiskboot cpio` promises of the ramdisk it edits, without lists  *)
(* of keys, file images or commands: a stored map from names to entries    *)
(* that outlives the sessions, and a working copy that one session edits.  *)
(* A session either saves its copy completely and succeeds, or leaves the  *)
(* stored map as it was; a session lost while it saves leaves a part of    *)
(* the new map and never a wrong entry, or nothing.                        *)
(***************************************************************************)
CONSTANTS
  Names,    \* the names a ramdisk may hold
  Values,   \* the entries
  Default,  \* what a session reads under a name that has no entry
  Initial   \* the maps that may be stored in the beginning

VARIABLES
  stored,   \* the map that outlives the sessions
  work,     \* the copy of the open session
  phase,    \* "closed", "open", "saving"
  success   \* the last session saved its copy

rvars == <<stored, work, phase, success>>

None == [n \in {} |-> Default]

With(m, n, v) == [k \in DOMAIN m \union {n} |-> IF k = n THEN v ELSE m[k]]
Minus(m, S)   == [k \in DOMAIN m \ S |-> m[k]]

At(m, n) == IF n \in DOMAIN m THEN m[n] ELSE Default

RInit ==
  /\ stored \in Initial
  /\ work = None /\ phase = "closed" /\ success = FALSE

Open ==
  /\ phase = "closed"
  /\ phase' = "open" /\ work' = stored /\ success' = FALSE
  /\ UNCHANGED stored

Edit(m) ==
  /\ phase = "open"
  /\ work' = m
  /\ UNCHANGED <<stored, phase, success>>

Put       == \E n \in Names, v \in Values : Edit(With(work, n, v))
Remove    == \E S \in SUBSET DOMAIN work : Edit(Minus(work, S))
Rename    == \E m, n \in Names : Edit(With(Minus(work, {m}), n, At(work, m)))

Save ==
  /\ phase = "open"
  /\ phase' = "saving" /\ stored' = None
  /\ UNCHANGED <<work, success>>

Write ==
  /\ phase = "saving"
  /\ \E n \in DOMAIN work : stored' = With(stored, n, work[n])
  /\ UNCHANGED <<work, phase, success>>

Close(won) ==
  /\ phase' = "closed" /\ work' = None /\ success' = won

\* Success is only reported of a copy that is stored as a whole.
Finish == phase = "saving" /\ stored = work /\ UNCHANGED stored /\ Close(TRUE)

\* An early exit, a failure or a kill.
Lose ==
  /\ phase # "closed"
  /\ \/ UNCHANGED stored
     \/ phase = "saving" /\ stored' = None
  /\ Close(FALSE)

\* A session that could not read the stored map.
Reject == phase = "closed" /\ success' = FALSE /\ UNCHANGED <<stored, work, phase>>

RNext == Open \/ Reject \/ Save \/ Write \/ Finish \/ Lose
           \/ Put \/ Rename \/ Remove

RSpec == RInit /\ [][RNext]_rvars
=============================================================================
