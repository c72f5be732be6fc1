------------------------- MODULE CpioExtractProofs --------------------------
(***************************************************************************)
(* Proofs about CpioExtract for archives and directories of every size.    *)
(***************************************************************************)
EXTENDS CpioExtract, SetLemmas, SequenceTheorems

-----------------------------------------------------------------------------
(* The invariant: where a run is in the list, and in the entry in hand.    *)

Working == pc \in {"parents", "make", "write"}

Typed ==
  /\ IsEntryMap(tree) /\ IsArchive(cpio) /\ operands \in Seq(Paths)
  /\ pc \in {"idle", "next"} \/ Working
  /\ status \in {"none", "done", "fatal", "killed"}
  /\ runs \in 0 .. MaxRuns /\ refused \in BOOLEAN

Placed == \A p \in DOMAIN tree : IsDir(Parent(p))

InHand ==
  /\ pos \in 1 .. Count + 1
  /\ pc # "idle" => operands # <<>>
  /\ Working => pos <= Count /\ Name \in Range(cpio.keys)
  /\ pc = "write" =>
       Entry.kind = "reg" /\ Out \in DOMAIN tree /\ tree[Out].kind # "dir"

Inv == Typed /\ Placed /\ InHand

LEMMA CountType ==
  ASSUME Typed
  PROVE  Count \in Nat
BY DEF Typed, Count, All, IsArchive

\* Every place of the list has a name and a file of the instance.
LEMMA NamesArePaths ==
  ASSUME Typed, operands # <<>>, NEW k \in 1 .. Count
  PROVE  NameAt(k) \in Paths /\ OutAt(k) \in Paths
<1>1. CASE All
  BY <1>1 DEF Typed, IsArchive, Count, NameAt, OutAt
<1>2. CASE ~All
  <2>0. operands \in Seq(Paths)
    BY DEF Typed
  <2>1. Len(operands) \in Nat /\ Len(operands) # 1 /\ Len(operands) # 0
    BY <1>2, <2>0 DEF All
  <2>2. Len(operands) >= 2
    <3> DEFINE l == Len(operands)
    <3>1. l \in Nat /\ l # 1 /\ l # 0
      BY <2>1
    <3> HIDE DEF l
    <3>2. l >= 2
      BY <3>1
    <3> QED
      BY <3>2 DEF l
  <2>3. operands[1] \in Paths /\ operands[2] \in Paths
    BY <2>0, <2>2
  <2> QED
    BY <1>2, <2>3 DEF NameAt, OutAt
<1> QED
  BY <1>1, <1>2

LEMMA InHandType ==
  ASSUME Typed, InHand, Working
  PROVE  Name \in Paths /\ Out \in Paths /\ pos \in 1 .. Count
<1>1. pc # "idle" /\ pos \in 1 .. Count
  BY CountType DEF Working, InHand
<1> QED
  BY <1>1, NamesArePaths DEF InHand, Name, Out

\* The nodes that extractEntry makes are nodes.
LEMMA NodeTypes ==
  /\ Nothing \in Payloads /\ Zero \in Entries /\ DirEntry \in Entries
  /\ DirEntry.kind = "dir"
  /\ \A d \in Payloads : RegEntry(d) \in Entries /\ RegEntry(d).kind = "reg"
<1>1. Nothing.base \in Bases
  BY DEF Nothing, Raw, Bases
<1>2. Nothing \in Payloads
  BY <1>1 DEF Nothing, Raw, Payloads
<1> QED
  BY <1>2 DEF Zero, DirEntry, RegEntry, Entries, Kinds

LEMMA NodeOfType ==
  ASSUME NEW e \in Entries
  PROVE  NodeOf(e) \in Entries /\ (e.kind = "reg" => NodeOf(e) = e)
BY NodeTypes DEF NodeOf

LEMMA EntryType ==
  ASSUME Typed, NEW p
  PROVE  Lookup(cpio, p) \in Entries
BY NodeTypes DEF Typed, IsArchive, IsEntryMap, Lookup

-----------------------------------------------------------------------------
(* How a step changes the tree.                                            *)

LEMMA WithNode ==
  ASSUME NEW p, NEW e
  PROVE  /\ DOMAIN With(p, e) = DOMAIN tree \union {p} /\ With(p, e)[p] = e
         /\ \A q \in DOMAIN tree : q # p => With(p, e)[q] = tree[q]
BY DEF With, Overlay

\* One node that is not there, or a file in place of a file.
Puts(a, n) ==
  /\ a \in Paths /\ n \in Entries /\ IsDir(Parent(a)) /\ tree' = With(a, n)
  /\ \/ a \notin DOMAIN tree /\ (a = Out \/ a \in Ancestors(Name))
     \/ a \in DOMAIN tree /\ a = Out /\ tree[a].kind = "reg"

LEMMA DirsStay ==
  ASSUME NEW a, NEW n, Puts(a, n), NEW p, IsDir(p)
  PROVE  IsDir(p)'
<1>1. CASE p = <<>>
  BY <1>1 DEF IsDir
<1>2. CASE p # <<>>
  <2>1. p \in DOMAIN tree /\ tree[p].kind = "dir"
    BY <1>2 DEF IsDir
  <2>2. p # a /\ tree' = With(a, n)
    BY <2>1 DEF Puts
  <2>3. p \in DOMAIN With(a, n)
    BY <2>1, WithNode
  <2>4. With(a, n)[p] = tree[p]
    BY <2>1, <2>2 DEF With, Overlay
  <2> QED
    BY <2>1, <2>2, <2>3, <2>4 DEF IsDir
<1> QED
  BY <1>1, <1>2

LEMMA PutsKeeps ==
  ASSUME NEW a, NEW n, Puts(a, n), IsEntryMap(tree), Placed
  PROVE  IsEntryMap(tree)' /\ Placed'
<1>1. tree' = With(a, n) /\ a \in Paths /\ n \in Entries /\ IsDir(Parent(a))
  BY DEF Puts
<1>2. IsEntryMap(With(a, n))
  BY <1>1 DEF IsEntryMap, With, Overlay
<1>3. Placed'
  <2> SUFFICES ASSUME NEW p \in DOMAIN tree'
               PROVE  IsDir(Parent(p))'
    BY DEF Placed
  <2>0. DOMAIN With(a, n) = DOMAIN tree \union {a}
    BY WithNode
  <2>1. p = a \/ p \in DOMAIN tree
    BY <1>1, <2>0
  <2>2. IsDir(Parent(p))
    BY <1>1, <2>1 DEF Placed
  <2> QED
    BY <2>2, DirsStay DEF Parent
<1> QED
  BY <1>1, <1>2, <1>3

\* Every step of a run puts one node, or none.
LEMMA StepPuts ==
  ASSUME Inv, Step
  PROVE  UNCHANGED tree \/ \E a, n : Puts(a, n)
<1> USE DEF Inv
<1>1. CASE NextEntry \/ Unknown
  BY <1>1 DEF NextEntry, Unknown
<1>2. CASE MkdirAll
  <2> SUFFICES ASSUME NEW a \in Missing(Name), tree' = With(a, DirEntry)
               PROVE  Puts(a, DirEntry)
    BY <1>2 DEF MkdirAll
  <2>1. pc = "parents"
    BY <1>2 DEF MkdirAll
  <2>2. Name \in Paths
    BY <2>1, InHandType DEF Working
  <2>3. a \in Paths /\ a \in Ancestors(Name) /\ a \notin DOMAIN tree /\ IsDir(Parent(a))
    BY <2>2, ExtractAssumption DEF Missing
  <2> QED
    BY <2>3, NodeTypes DEF Puts
<1>3. CASE Make
  <2>1. Out \in Paths /\ NodeOf(Entry) \in Entries
    BY <1>3, InHandType, EntryType, NodeOfType DEF Make, Working, Entry
  <2> QED
    BY <1>3, <2>1 DEF Make, Puts
<1>4. CASE Create
  <2>1. Out \in Paths /\ RegEntry(Nothing) \in Entries
    BY <1>4, InHandType, NodeTypes DEF Create, Working
  <2>2. (Out \in DOMAIN tree => InTree /\ tree[Out].kind = "reg") \/ ~InTree
    BY DEF InTree
  <2>3. UNCHANGED tree \/ (InTree /\ IsDir(Parent(Out)) /\ tree' = With(Out, RegEntry(Nothing)))
    BY <1>4 DEF Create
  <2> QED
    BY <2>1, <2>2, <2>3 DEF Puts, InTree
<1>5. CASE Write
  <2>1. Out \in Paths /\ Entry \in Entries /\ Out \in DOMAIN tree
    BY <1>5, InHandType, EntryType DEF Write, Working, Entry, InHand
  <2>2. IsDir(Parent(Out))
    BY <2>1 DEF Placed
  <2>3. UNCHANGED tree \/ (InTree /\ tree' = With(Out, Entry))
    BY <1>5 DEF Write
  <2> QED
    BY <2>1, <2>2, <2>3 DEF Puts, InTree
<1> QED
  BY <1>1, <1>2, <1>3, <1>4, <1>5 DEF Step

-----------------------------------------------------------------------------
(* The invariant holds.                                                    *)

\* A step leaves the archive and the operands alone, so what they say stays.
LEMMA RunStays ==
  ASSUME Step \/ Killed
  PROVE  UNCHANGED run /\ Count' = Count /\ All' = All
<1>1. UNCHANGED run
  BY DEF Step, NextEntry, MkdirAll, Make, Create, Write, Unknown, Killed
<1> QED
  BY <1>1 DEF run, Count, All

LEMMA NamesStay ==
  ASSUME UNCHANGED run
  PROVE  /\ \A k : NameAt(k)' = NameAt(k) /\ OutAt(k)' = OutAt(k)
         /\ pos' = pos => Name' = Name /\ Out' = Out /\ Entry' = Entry
BY DEF run, NameAt, OutAt, Name, Out, Entry, Lookup, All

\* How the place in the list moves.
LEMMA StepMoves ==
  ASSUME Step
  PROVE  \/ pc' = "next" /\ pos' = pos + 1 /\ UNCHANGED status
         \/ pc' = "idle" /\ pos' = pos /\ status' \in {"done", "fatal"}
         \/ pc' \in {"parents", "make", "write"} /\ pos' = pos /\ UNCHANGED status
BY DEF Step, NextEntry, MkdirAll, Make, Create, Write, Unknown, Return, Exit, Goto

LEMMA StepTyped ==
  ASSUME Inv, Step
  PROVE  Typed'
<1>1. IsEntryMap(tree)'
  <2>1. CASE UNCHANGED tree
    BY <2>1 DEF Inv, Typed, IsEntryMap
  <2> QED
    BY <2>1, StepPuts, PutsKeeps DEF Inv, Typed
<1>2. UNCHANGED <<cpio, operands, runs>>
  BY RunStays DEF run
<1>3. /\ pc' \in {"idle", "next"} \/ Working'
      /\ status' \in {"none", "done", "fatal", "killed"}
  BY StepMoves DEF Working, Inv, Typed
<1>4. refused' \in BOOLEAN
  BY DEF Inv, Typed, Step, NextEntry, MkdirAll, Make, Create, Write, Unknown,
         Refused, NoFault
<1> QED
  BY <1>1, <1>2, <1>3, <1>4 DEF Inv, Typed

LEMMA StepPlaced ==
  ASSUME Inv, Step
  PROVE  Placed'
<1>1. CASE UNCHANGED tree
  BY <1>1 DEF Inv, Placed, IsDir
<1> QED
  BY <1>1, StepPuts, PutsKeeps DEF Inv, Typed

LEMMA StepInHand ==
  ASSUME Inv, Step
  PROVE  InHand'
<1>1. UNCHANGED <<cpio, operands>> /\ Count' = Count /\ Count \in Nat
  BY RunStays, CountType DEF run, Inv
<1>2. pos \in 1 .. Count + 1 /\ pc # "idle" /\ operands # <<>>
  BY DEF Inv, InHand, Step, NextEntry, MkdirAll, Make, Create, Write, Unknown
<1>3. pos' = pos => Name' = Name /\ Out' = Out /\ Entry' = Entry
  BY RunStays, NamesStay
<1>4. Working' => pos' = pos /\ pos <= Count /\ Name \in Range(cpio.keys)
  <2>1. CASE NextEntry
    BY <1>1, <1>2, <2>1 DEF NextEntry, Return, Exit, Goto, Working
  <2>2. CASE pc # "next"
    <3>1. Working
      BY <1>2, <2>2 DEF Inv, Typed
    <3> QED
      BY <3>1, StepMoves DEF Inv, InHand, Working
  <2> QED
    BY <2>1, <2>2 DEF Step, MkdirAll, Make, Create, Write, Unknown
<1>5. pos' \in 1 .. Count + 1
  <2>1. pos' = pos \/ (pos' = pos + 1 /\ pos <= Count)
    <3>1. CASE NextEntry
      BY <1>1, <1>2, <3>1 DEF NextEntry, Return, Exit, Goto
    <3>2. CASE pc # "next"
      <4>1. Working
        BY <1>2, <3>2 DEF Inv, Typed
      <4> QED
        BY <4>1, StepMoves DEF Inv, InHand
    <3> QED
      BY <3>1, <3>2 DEF Step, MkdirAll, Make, Create, Write, Unknown
  <2> QED
    BY <1>1, <1>2, <2>1
<1>6. ASSUME pc' = "write"
      PROVE  /\ Entry.kind = "reg" /\ Out \in DOMAIN tree'
             /\ tree'[Out].kind # "dir" /\ pos' = pos
  <2>1. Create
    BY <1>6 DEF Step, NextEntry, MkdirAll, Make, Create, Write, Unknown, Return, Exit, Goto
  <2>2. /\ pos' = pos /\ Entry.kind = "reg" /\ ~IsDir(Out)
        /\ tree' = (IF InTree THEN With(Out, RegEntry(Nothing)) ELSE tree)
    BY <1>6, <2>1 DEF Create, Return, Exit, Goto
  <2>3. CASE InTree
    <3>1. Out \in DOMAIN With(Out, RegEntry(Nothing))
      BY WithNode
    <3>2. With(Out, RegEntry(Nothing))[Out] = RegEntry(Nothing)
      BY WithNode
    <3>3. RegEntry(Nothing).kind # "dir"
      BY DEF RegEntry
    <3> QED
      BY <2>2, <2>3, <3>1, <3>2, <3>3
  <2>4. CASE ~InTree
    BY <2>2, <2>4 DEF InTree, IsDir
  <2> QED
    BY <2>2, <2>3, <2>4
<1> QED
  BY <1>1, <1>2, <1>3, <1>4, <1>5, <1>6 DEF InHand

LEMMA InitInv == Init => Inv
<1> SUFFICES ASSUME Init PROVE Inv
  OBVIOUS
<1>1. cpio = NewCpio /\ operands = <<>> /\ pos = 1 /\ pc = "idle" /\ status = "none"
      /\ runs = 0 /\ refused = FALSE /\ tree \in Trees
  BY DEF Init
<1>2. IsArchive(cpio)
  BY <1>1 DEF IsArchive, NewCpio, EmptyMap, IsEntryMap
<1>3. Typed
  <2>1. runs \in 0 .. MaxRuns /\ IsEntryMap(tree)
    BY <1>1, ExtractAssumption
  <2>2. operands \in Seq(Paths)
    BY <1>1
  <2> QED
    BY <1>1, <1>2, <2>1, <2>2 DEF Typed
<1>4. Placed
  BY <1>1, ExtractAssumption DEF Placed, IsDir
<1>5. InHand
  <2>1. pos \in 1 .. Count + 1
    BY <1>1, <1>3, CountType
  <2> QED
    BY <1>1, <2>1 DEF InHand, Working
<1> QED
  BY <1>3, <1>4, <1>5 DEF Inv

LEMMA NextInv ==
  ASSUME Inv, [Next]_vars
  PROVE  Inv'
<1>1. CASE Step
  BY <1>1, StepTyped, StepPlaced, StepInHand DEF Inv
<1>2. CASE Start
  <2>1. /\ IsArchive(cpio)' /\ (operands \in Seq(Paths))'
        /\ pos' = 1 /\ UNCHANGED tree
    BY <1>2, ExtractAssumption DEF Start
  <2>2. /\ pc' \in {"idle", "next"} /\ (pc' # "idle" => operands' # <<>>)
        /\ status' \in {"none", "done", "fatal", "killed"} /\ refused' = FALSE
    BY <1>2 DEF Start, Inv, Typed
  <2>3. runs' \in 0 .. MaxRuns
    BY <1>2, ExtractAssumption DEF Start, Inv, Typed
  <2>4. Typed'
    BY <2>1, <2>2, <2>3 DEF Inv, Typed, IsEntryMap
  <2>5. (Count \in Nat)'
    BY <2>4, CountType, PTL
  <2>6. ~Working'
    BY <2>2 DEF Working
  <2>7. (pos \in 1 .. Count + 1)'
    <3> DEFINE k == Count'
    <3>1. k \in Nat
      BY <2>5
    <3> HIDE DEF k
    <3>2. 1 \in 1 .. k + 1
      BY <3>1
    <3> QED
      BY <2>1, <3>2 DEF k
  <2>8. InHand'
    BY <2>2, <2>6, <2>7 DEF InHand
  <2> QED
    BY <2>1, <2>4, <2>8 DEF Inv, Placed, IsDir
<1>3. CASE Killed
  BY <1>3, RunStays DEF Killed, Exit, run, Inv, Typed, Placed, InHand, Working, IsEntryMap, IsDir
<1>4. CASE UNCHANGED vars
  BY <1>4 DEF vars, Inv, Typed, Placed, InHand, Working, IsEntryMap, IsDir, Count, All,
     Name, Out, Entry, NameAt, OutAt, Lookup, IsArchive
<1> QED
  BY <1>1, <1>2, <1>3, <1>4 DEF Next

\* The variables have their types and every node stays in a directory, for
\* archives, directories and operands of every size.
THEOREM ExtractTyped == Spec => []TypeOK
<1>1. Inv => TypeOK
  BY DEF Inv, Typed, Placed, InHand, TypeOK, Working
<1> QED
  BY <1>1, InitInv, NextInv, PTL DEF Spec

\* OnlyFilesAreReplaced: extract changes files that are there, removes nothing
\* and makes nothing but the file it extracts to and the directories of ENTRY.
THEOREM OnlyFilesChange == Spec => OnlyFilesAreReplaced
<1>1. ASSUME Inv, [Next]_vars
      PROVE  [/\ \A p \in DOMAIN tree :
                   /\ p \in DOMAIN tree'
                   /\ tree'[p] # tree[p] => p = Out /\ tree[p].kind = "reg"
              /\ \A p \in DOMAIN tree' \ DOMAIN tree : p = Out \/ p \in Ancestors(Name)]_vars
  <2>1. UNCHANGED tree \/ \E a, n : Puts(a, n)
    <3>1. Step \/ UNCHANGED tree
      BY <1>1 DEF Next, Start, Killed, vars
    <3> QED
      BY <1>1, <3>1, StepPuts
  <2>2. CASE UNCHANGED tree
    BY <2>2
  <2>3. ASSUME NEW a, NEW n, Puts(a, n)
        PROVE  /\ \A p \in DOMAIN tree :
                    /\ p \in DOMAIN tree'
                    /\ tree'[p] # tree[p] => p = Out /\ tree[p].kind = "reg"
               /\ \A p \in DOMAIN tree' \ DOMAIN tree : p = Out \/ p \in Ancestors(Name)
    <3>1. tree' = With(a, n) /\ DOMAIN tree' = DOMAIN tree \union {a}
      BY <2>3, WithNode DEF Puts
    <3>2. \A p \in DOMAIN tree : p # a => tree'[p] = tree[p]
      BY <3>1 DEF With, Overlay
    <3>3. \/ a \notin DOMAIN tree /\ (a = Out \/ a \in Ancestors(Name))
          \/ a \in DOMAIN tree /\ a = Out /\ tree[a].kind = "reg"
      BY <2>3 DEF Puts
    <3> QED
      BY <3>1, <3>2, <3>3
  <2> QED
    BY <2>1, <2>2, <2>3
<1> QED
  BY <1>1, InitInv, NextInv, PTL DEF Spec, OnlyFilesAreReplaced

-----------------------------------------------------------------------------
(* What has been passed is there.                                          *)

PassedAt(k) ==
  \/ All /\ NameAt(k) \in DotNames
  \/ /\ Extractable(cpio, NameAt(k))
     /\ There(NameAt(k), OutAt(k)) \/ (pos <= Count /\ OutAt(k) = Out)

Passed ==
  /\ \A k \in 1 .. pos - 1 : PassedAt(k)
  /\ pc = "idle" /\ status = "done" /\ operands # <<>> => pos > Count

\* A node stays if it is not the one in hand.
LEMMA ThereStays ==
  ASSUME NEW a, NEW n, Puts(a, n), UNCHANGED cpio, NEW p, NEW o, o # Out, There(p, o)
  PROVE  There(p, o)'
<1>1. o \in DOMAIN tree /\ a # o /\ tree' = With(a, n)
  BY DEF There, Puts
<1>2. o \in DOMAIN With(a, n)
  BY <1>1, WithNode
<1>3. With(a, n)[o] = tree[o]
  BY <1>1 DEF With, Overlay
<1> QED
  BY <1>1, <1>2, <1>3 DEF There, Lookup

\* Where the place in the list moves, the entry is there, or is a dot entry.
LEMMA StepAdvances ==
  ASSUME Inv, Step, pos' # pos, NEW p, p = Name, NEW o, o = Out
  PROVE  /\ (All /\ p \in DotNames) \/ (Extractable(cpio, p) /\ There(p, o)')
         /\ pc' = "next" /\ pos' = pos + 1 /\ pos <= Count
<1>1. pos \in 1 .. Count + 1 /\ pc # "idle" /\ Count \in Nat /\ UNCHANGED cpio
  BY CountType, RunStays DEF Inv, InHand, Step, NextEntry, MkdirAll, Make, Create, Write, Unknown, run
<1>2. pc' = "next" /\ pos' = pos + 1
  BY StepMoves
<1>3. CASE NextEntry
  BY <1>1, <1>2, <1>3 DEF NextEntry, Return, Exit, Goto
<1>4. CASE Make
  <2>1. tree' = With(o, NodeOf(Lookup(cpio, p))) /\ Lookup(cpio, p).kind \in {"dir", "lnk", "blk"}
    BY <1>2, <1>4 DEF Make, Return, Exit, Entry
  <2>2. p \in Range(cpio.keys) /\ pos <= Count
    BY <1>4 DEF Make, Working, Inv, InHand
  <2>3. o \in DOMAIN tree'
    BY <2>1 DEF With, Overlay
  <2>4. tree'[o] = NodeOf(Lookup(cpio, p))
    BY <2>1, WithNode
  <2>5. There(p, o)'
    BY <1>1, <2>3, <2>4 DEF There, Lookup
  <2> QED
    BY <1>2, <2>1, <2>2, <2>5 DEF Extractable
<1>5. CASE Write
  <2>1. tree' = IF InTree THEN With(o, Lookup(cpio, p)) ELSE tree
    BY <1>2, <1>5 DEF Write, Return, Exit, Entry
  <2>2. /\ p \in Range(cpio.keys) /\ pos <= Count /\ Lookup(cpio, p).kind = "reg"
        /\ o \in DOMAIN tree /\ tree[o].kind # "dir"
    BY <1>5 DEF Write, Working, Inv, InHand, Entry
  <2>3. CASE InTree
    <3>1. o \in DOMAIN tree'
      BY <2>1, <2>3, WithNode
    <3>2. tree'[o] = Lookup(cpio, p)
      BY <2>1, <2>3, WithNode
    <3>3. Lookup(cpio, p) = NodeOf(Lookup(cpio, p))
      BY <2>2 DEF NodeOf
    <3> QED
      BY <1>1, <1>2, <2>2, <3>1, <3>2, <3>3 DEF There, Lookup, Extractable
  <2>4. CASE ~InTree
    <3>1. tree' = tree /\ tree[o].kind \notin {"reg", "dir"}
      BY <2>1, <2>2, <2>4 DEF InTree
    <3> QED
      BY <1>1, <1>2, <2>2, <3>1 DEF There, Lookup, Extractable
  <2> QED
    BY <2>3, <2>4
<1>6. ~MkdirAll /\ ~Create /\ ~Unknown
  BY <1>2 DEF MkdirAll, Create, Unknown, Return, Exit, Goto
<1> QED
  BY <1>3, <1>4, <1>5, <1>6 DEF Step

LEMMA StepPassed ==
  ASSUME Inv, Passed, Step
  PROVE  Passed'
<1>1. UNCHANGED <<cpio, operands>> /\ Count' = Count /\ All' = All /\ Count \in Nat
  BY RunStays, CountType DEF run, Inv
<1>2. pos \in 1 .. Count + 1 /\ pc # "idle"
  BY DEF Inv, InHand, Step, NextEntry, MkdirAll, Make, Create, Write, Unknown
<1>3. \A k : NameAt(k)' = NameAt(k) /\ OutAt(k)' = OutAt(k)
  BY RunStays, NamesStay
<1>4. \A p : Extractable(cpio, p)' = Extractable(cpio, p)
  BY <1>1 DEF Extractable, Lookup
<1>5. \A p, o : There(p, o) /\ o # Out => There(p, o)'
  <2> SUFFICES ASSUME NEW p, NEW o, There(p, o), o # Out
               PROVE  There(p, o)'
    OBVIOUS
  <2>1. CASE UNCHANGED tree
    BY <1>1, <2>1 DEF There, Lookup
  <2> QED
    BY <1>1, <2>1, StepPuts, ThereStays
<1>6. ASSUME pos' = pos, NEW k \in 1 .. pos - 1
      PROVE  PassedAt(k)'
  <2>1. Out' = Out /\ PassedAt(k) /\ (pos <= Count \/ pos > Count)
    BY <1>1, <1>2, <1>6, RunStays, NamesStay DEF Passed
  <2>2. pos > Count => UNCHANGED tree
    <3> SUFFICES ASSUME pos > Count PROVE UNCHANGED tree
      OBVIOUS
    <3>1. ~Working
      BY <1>1, <1>2 DEF Inv, InHand
    <3>2. NextEntry
      BY <3>1 DEF Working, Step, MkdirAll, Make, Create, Write, Unknown
    <3> QED
      BY <3>2 DEF NextEntry
  <2>3. CASE pos > Count
    <3>1. There(NameAt(k), OutAt(k)) => There(NameAt(k), OutAt(k))'
      BY <1>1, <1>3, <2>2, <2>3 DEF There, Lookup
    <3> QED
      <4>1. \/ All /\ NameAt(k) \in DotNames
            \/ Extractable(cpio, NameAt(k)) /\ There(NameAt(k), OutAt(k))
        BY <1>1, <1>2, <2>1, <2>3 DEF PassedAt
      <4> QED
        BY <1>1, <1>3, <1>4, <3>1, <4>1 DEF PassedAt
  <2>4. CASE pos <= Count
    BY <1>1, <1>2, <1>3, <1>4, <1>5, <1>6, <2>1, <2>4 DEF PassedAt
  <2> QED
    BY <1>1, <1>2, <2>3, <2>4
<1>7. ASSUME pos' # pos
      PROVE  \A k \in 1 .. pos : PassedAt(k)'
  <2>1. /\ (All /\ Name \in DotNames) \/ Extractable(cpio, Name)
        /\ pc' = "next" /\ pos' = pos + 1 /\ pos <= Count
    BY <1>7, StepAdvances
  <2> SUFFICES ASSUME NEW k \in 1 .. pos PROVE PassedAt(k)'
    OBVIOUS
  <2> DEFINE p == NameAt(k)
             o == OutAt(k)
  <2>2. CASE OutAt(k) # Out
    <3>1. k # pos
      BY <2>2 DEF Out
    <3>2. k \in 1 .. pos - 1
      BY <1>1, <1>2, <3>1
    <3>3. PassedAt(k)
      BY <3>2 DEF Passed
    <3> QED
      BY <1>1, <1>3, <1>4, <1>5, <2>2, <3>3 DEF PassedAt
  <2>3. CASE OutAt(k) = Out
    <3>1. NameAt(k) = Name
      <4>1. CASE All
        BY <2>3, <4>1 DEF NameAt, OutAt, Name, Out
      <4>2. CASE ~All
        BY <4>2 DEF NameAt, Name
      <4> QED
        BY <4>1, <4>2
    <3>2. \/ All /\ NameAt(k) \in DotNames
          \/ Extractable(cpio, NameAt(k)) /\ There(NameAt(k), OutAt(k))'
      <4>1. \A q, r : q = Name /\ r = Out =>
              (All /\ q \in DotNames) \/ (Extractable(cpio, q) /\ There(q, r)')
        BY <1>7, StepAdvances
      <4>2. \A q, r : q = NameAt(k)' /\ r = OutAt(k)' /\ There(q, r)' => There(NameAt(k), OutAt(k))'
        BY DEF There
      <4> QED
        BY <1>3, <2>3, <3>1, <4>1, <4>2
    <3> QED
      BY <1>1, <1>3, <1>4, <3>2 DEF PassedAt
  <2> QED
    BY <2>2, <2>3
<1>8. pc' = "idle" /\ status' = "done" => pos' > Count'
  BY <1>1, <1>2 DEF Step, NextEntry, MkdirAll, Make, Create, Write, Unknown, Return, Exit, Goto
<1>9. \A k \in 1 .. pos' - 1 : PassedAt(k)'
  <2>1. CASE pos' = pos
    BY <1>6, <2>1
  <2>2. CASE pos' # pos
    <3>1. pos' = pos + 1
      BY <2>2, StepMoves
    <3>2. pos' - 1 = pos
      BY <1>1, <1>2, <3>1
    <3> QED
      BY <1>7, <2>2, <3>2
  <2> QED
    BY <2>1, <2>2
<1> QED
  BY <1>8, <1>9 DEF Passed

LEMMA NextPassed ==
  ASSUME Inv, Passed, [Next]_vars
  PROVE  Passed'
<1>1. CASE Step
  BY <1>1, StepPassed
<1>2. CASE Start
  BY <1>2 DEF Start, Passed
<1>3. CASE Killed
  <2>1. /\ UNCHANGED <<tree, cpio, operands, pos>> /\ status' = "killed"
    BY <1>3 DEF Killed, Exit, run
  <2> QED
    BY <2>1 DEF Passed, PassedAt, Count, All, NameAt, OutAt, Out, Extractable, There, Lookup
<1>4. CASE UNCHANGED vars
  BY <1>4 DEF vars, Passed, PassedAt, Count, All, NameAt, OutAt, Out, Extractable, There, Lookup
<1> QED
  BY <1>1, <1>2, <1>3, <1>4 DEF Next

LEMMA InitPassed == Init => Passed
<1> SUFFICES ASSUME Init PROVE Passed
  OBVIOUS
<1>1. pos = 1 /\ operands = <<>>
  BY DEF Init
<1> QED
  BY <1>1 DEF Passed

\* PassedAreThere: whatever the archive and the directory, and wherever a run
\* ends, no failure of an entry is passed over and no entry undoes another.
THEOREM NonePassedOver == Spec => []PassedAreThere
<1>1. Inv /\ Passed => PassedAreThere
  <2> SUFFICES ASSUME Inv, Passed PROVE PassedAreThere
    OBVIOUS
  <2>1. \A k \in 1 .. pos - 1 :
           \/ All /\ NameAt(k) \in DotNames
           \/ There(NameAt(k), OutAt(k))
           \/ pos <= Count /\ OutAt(k) = Out
    BY DEF Passed, PassedAt
  <2>2. ASSUME pc = "idle", status = "done", operands # <<>>,
               NEW p \in Extracted(cpio, operands[1], ~All)
        PROVE  Extractable(cpio, p)
    <3>1. pos > Count /\ pos \in 1 .. Count + 1 /\ Count \in Nat
      BY <2>2, CountType DEF Passed, Inv, InHand
    <3>2. PICK k \in 1 .. Count : NameAt(k) = p /\ (All => p \notin DotNames)
      <4>1. CASE All
        <5>1. p \in Range(cpio.keys) \ DotNames
          BY <2>2, <4>1 DEF Extracted
        <5>2. PICK k \in DOMAIN cpio.keys : cpio.keys[k] = p
          BY <5>1 DEF Range
        <5>3. k \in 1 .. Count
          BY <4>1, <5>2 DEF Count, Inv, Typed, IsArchive
        <5> QED
          BY <4>1, <5>1, <5>2, <5>3 DEF NameAt
      <4>2. CASE ~All
        <5>1. p = operands[1] /\ Count = 1
          BY <2>2, <4>2 DEF Extracted, Count
        <5> QED
          BY <4>2, <5>1 DEF NameAt
      <4> QED
        BY <4>1, <4>2
    <3>3. PassedAt(k)
      BY <3>1, <3>2 DEF Passed
    <3> QED
      BY <3>2, <3>3 DEF PassedAt
  <2> QED
    BY <2>1, <2>2 DEF PassedAreThere
<1> QED
  BY <1>1, InitInv, NextInv, InitPassed, NextPassed, PTL DEF Spec

-----------------------------------------------------------------------------
(* The directories above a path.                                           *)

LEMMA PathType ==
  ASSUME NEW p \in Paths
  PROVE  p \in Seq(STRING) /\ p # <<>> /\ Len(p) \in Nat /\ Len(p) >= 1
<1>1. p \in Seq(STRING)
  BY PathsAssumption DEF Paths, Range
<1>2. p # <<>>
  BY ExtractAssumption
<1>3. Len(p) \in Nat /\ Len(p) # 0
  BY <1>1, <1>2
<1>4. Len(p) >= 1
  <2> DEFINE l == Len(p)
  <2>1. l \in Nat /\ l # 0
    BY <1>3
  <2> HIDE DEF l
  <2>2. l >= 1
    BY <2>1
  <2> QED
    BY <2>2 DEF l
<1> QED
  BY <1>1, <1>2, <1>3, <1>4

LEMMA Prefix ==
  ASSUME NEW p \in Paths, NEW n \in 1 .. Len(p)
  PROVE  /\ SubSeq(p, 1, n) \in Seq(STRING) /\ Len(SubSeq(p, 1, n)) = n
         /\ Parent(SubSeq(p, 1, n)) = SubSeq(p, 1, n - 1)
<1>1. p \in Seq(STRING) /\ Len(p) \in Nat
  BY PathType
<1>2. \A k \in 1 .. n : p[k] \in STRING
  BY <1>1
<1>3. /\ SubSeq(p, 1, n) \in Seq(STRING)
      /\ Len(SubSeq(p, 1, n)) = IF 1 <= n THEN n - 1 + 1 ELSE 0
  BY <1>2, SubSeqProperties
<1>4. Len(SubSeq(p, 1, n)) = n
  BY <1>3
<1>5. CASE n = 1
  <2>1. SubSeq(SubSeq(p, 1, n), 1, 0) = <<>> /\ SubSeq(p, 1, 0) = <<>>
    BY SubSeqEmpty
  <2> QED
    BY <1>3, <1>4, <1>5, <2>1 DEF Parent
<1>6. CASE n # 1
  <2>1. /\ 1 \in 1 .. Len(p) /\ 1 \in 1 .. n - 1 + 1 /\ n - 1 \in 1 .. n - 1 + 1
    BY <1>1, <1>6
  <2>2. SubSeq(SubSeq(p, 1, n), 1, n - 1) = SubSeq(p, 1 + 1 - 1, 1 + (n - 1) - 1)
    BY <1>1, <2>1, SubSeqOfSubSeq
  <2>3. SubSeq(SubSeq(p, 1, n), 1, n - 1) = SubSeq(p, 1, n - 1)
    BY <2>2
  <2> QED
    BY <1>3, <1>4, <2>3 DEF Parent
<1> QED
  BY <1>3, <1>4, <1>5, <1>6

\* A path is not above itself, and is in the current directory or in one above.
LEMMA AboveAPath ==
  ASSUME NEW p \in Paths
  PROVE  /\ p \notin Ancestors(p)
         /\ Parent(p) = <<>> \/ Parent(p) \in Ancestors(p)
<1>1. p \in Seq(STRING) /\ Len(p) \in Nat /\ Len(p) >= 1
  BY PathType
<1>2. p \notin Ancestors(p)
  <2> SUFFICES ASSUME NEW n \in 1 .. Len(p) - 1 PROVE SubSeq(p, 1, n) # p
    BY DEF Ancestors
  <2>1. n \in 1 .. Len(p) /\ n # Len(p)
    BY <1>1
  <2>2. Len(SubSeq(p, 1, n)) = n
    BY <2>1, Prefix
  <2> QED
    BY <2>1, <2>2
<1>3. CASE Len(p) = 1
  <2>1. SubSeq(p, 1, 0) = <<>>
    BY SubSeqEmpty
  <2> QED
    BY <1>2, <1>3, <2>1 DEF Parent
<1>4. CASE Len(p) # 1
  <2>1. Len(p) - 1 \in 1 .. Len(p) - 1
    <3> DEFINE l == Len(p)
    <3>1. l \in Nat /\ l >= 1 /\ l # 1
      BY <1>1, <1>4
    <3> HIDE DEF l
    <3>2. l - 1 \in 1 .. l - 1
      BY <3>1
    <3> QED
      BY <3>2 DEF l
  <2> QED
    BY <1>2, <2>1 DEF Parent, Ancestors
<1> QED
  BY <1>3, <1>4

\* Where nothing is missing, and what is there of the directories above a path
\* are directories, all of them are there.
LEMMA NoneMissing ==
  ASSUME NEW p \in Paths, Missing(p) = {},
         \A a \in Ancestors(p) \intersect DOMAIN tree : IsDir(a)
  PROVE  Ancestors(p) \subseteq DOMAIN tree
<1>1. Len(p) \in Nat /\ Len(p) >= 1
  BY PathType
<1> DEFINE S == {n \in 1 .. Len(p) - 1 : SubSeq(p, 1, n) \notin DOMAIN tree}
<1> SUFFICES ASSUME S # {} PROVE FALSE
  BY DEF Ancestors
<1>2. S \in SUBSET (0 .. Len(p) - 1) /\ Len(p) - 1 \in Nat
  BY <1>1
<1>3. PICK n \in S : \A m \in S : n <= m
  <2> HIDE DEF S
  <2> QED
    BY <1>2, SomeBelow
<1> DEFINE a == SubSeq(p, 1, n)
<1>4. n \in 1 .. Len(p) /\ n \in 1 .. Len(p) - 1 /\ a \in Ancestors(p) /\ a \notin DOMAIN tree
  BY <1>1, <1>3 DEF Ancestors
<1>5. Parent(a) = SubSeq(p, 1, n - 1)
  BY <1>4, Prefix
<1>6. IsDir(Parent(a))
  <2>1. CASE n = 1
    <3>1. SubSeq(p, 1, 0) = <<>>
      BY SubSeqEmpty
    <3> QED
      BY <1>5, <2>1, <3>1 DEF IsDir
  <2>2. CASE n # 1
    <3>1. n - 1 \in 1 .. Len(p) - 1 /\ ~(n <= n - 1)
      BY <1>1, <1>4, <2>2
    <3>2. n - 1 \notin S
      BY <1>3, <3>1
    <3>3. SubSeq(p, 1, n - 1) \in Ancestors(p) \intersect DOMAIN tree
      BY <3>1, <3>2 DEF Ancestors
    <3> QED
      BY <1>5, <3>3
  <2> QED
    BY <2>1, <2>2
<1>7. a \in Missing(p)
  <2> HIDE DEF a
  <2> QED
    BY <1>4, <1>6 DEF Missing
<1> QED
  BY <1>7

-----------------------------------------------------------------------------
(* Extract where nothing is in the way.                                    *)

K(k) == cpio.keys[k]

Untroubled == All /\ Fresh /\ ~refused

\* What was there is as it was.
OldStays ==
  \A p \in DOMAIN before : p \in DOMAIN tree /\ tree[p] = before[p]

\* The entries up to the one in hand are there, and what is above them.
PassedMade ==
  \A k \in 1 .. pos - 1 :
    /\ K(k) \in DOMAIN tree /\ tree[K(k)] = NodeOf(cpio.entries[K(k)])
    /\ Ancestors(K(k)) \subseteq DOMAIN tree

\* And nothing else, but what is above the one in hand, and its file.
IsAbove(q) ==
  \E k \in 1 .. Count : k <= pos /\ q \in Ancestors(K(k)) /\ tree[q] = DirEntry

NothingElse ==
  \A q \in DOMAIN tree \ DOMAIN before :
    \/ \E k \in 1 .. pos - 1 : q = K(k)
    \/ IsAbove(q)
    \/ pc = "write" /\ q = K(pos)

Ready ==
  /\ pc \in {"make", "write"} => Ancestors(K(pos)) \subseteq DOMAIN tree
  /\ pc = "write" => K(pos) \in DOMAIN tree /\ tree[K(pos)].kind = "reg"

Exact ==
  Untroubled =>
    /\ pc = "idle" => status \in {"done", "killed"}
    /\ pc # "idle" \/ status = "done" =>
         OldStays /\ PassedMade /\ NothingElse /\ Ready

\* What Fresh says of the key at a place.
LEMMA FreshKey ==
  ASSUME Typed, All, Fresh, NEW k \in 1 .. Count
  PROVE  /\ K(k) \in Paths /\ K(k) \in Range(cpio.keys) /\ K(k) \in DOMAIN cpio.entries
         /\ NameAt(k) = K(k) /\ OutAt(k) = K(k) /\ Lookup(cpio, K(k)) = cpio.entries[K(k)]
         /\ Extractable(cpio, K(k)) /\ K(k) \notin DOMAIN before \union DotNames
         /\ \A j \in 1 .. Count : K(j) = K(k) => j = k
         /\ \A a \in Ancestors(K(k)) :
              /\ a \in DOMAIN before => before[a].kind = "dir"
              /\ \A j \in 1 .. Count : K(j) = a => j < k /\ cpio.entries[a].kind = "dir"
<1>1. DOMAIN cpio.keys = 1 .. Count
  BY DEF Typed, IsArchive, Count
<1>2. K(k) \in Paths /\ K(k) \in Range(cpio.keys) /\ K(k) \in DOMAIN cpio.entries
  <2>1. cpio.keys \in Seq(Paths)
    BY DEF Typed, IsArchive
  <2>2. k \in 1 .. Len(cpio.keys)
    BY DEF Count
  <2>3. cpio.keys[k] \in Paths
    BY <2>1, <2>2
  <2>4. K(k) \in Paths /\ K(k) \in Range(cpio.keys)
    BY <1>1, <2>3 DEF K, Range
  <2> QED
    BY <2>4 DEF Fresh
<1>3. \A j \in 1 .. Count : K(j) = K(k) => j = k
  BY <1>1 DEF Fresh, IsInjective, K
<1>4. Extractable(cpio, K(k)) /\ K(k) \notin DOMAIN before \union DotNames
  BY <1>1 DEF Fresh, K
<1>5. ASSUME NEW a \in Ancestors(K(k))
      PROVE  /\ a \in DOMAIN before => before[a].kind = "dir"
             /\ \A j \in 1 .. Count : K(j) = a => j < k /\ cpio.entries[a].kind = "dir"
  <2>1. /\ a \in DOMAIN before => before[a].kind = "dir"
        /\ \A j \in 1 .. Count : K(j) = a => j < k /\ Lookup(cpio, a).kind = "dir"
    BY <1>1, <1>5 DEF Fresh, K
  <2>2. \A j \in 1 .. Count : K(j) = a => a \in DOMAIN cpio.entries
    BY <1>1 DEF K, Fresh, Range
  <2> QED
    BY <2>1, <2>2 DEF Lookup
<1> QED
  BY <1>2, <1>3, <1>4, <1>5 DEF NameAt, OutAt, K, Lookup

LEMMA DirNode ==
  ASSUME NEW e, e.kind = "dir"
  PROVE  NodeOf(e) = DirEntry
BY DEF NodeOf

\* Everything above the key in hand that is there is a directory, and the key
\* itself is not there before it is made.
LEMMA WayIsClear ==
  ASSUME Inv, Untroubled, OldStays, PassedMade, NothingElse, Working
  PROVE  /\ Name = K(pos) /\ Out = K(pos) /\ pos \in 1 .. Count
         /\ \A a \in Ancestors(K(pos)) \intersect DOMAIN tree : IsDir(a)
         /\ pc # "write" => K(pos) \notin DOMAIN tree
<1>1. Typed /\ All /\ Fresh /\ Count \in Nat
  BY CountType DEF Inv, Untroubled
<1>2. pos \in 1 .. Count
  BY InHandType DEF Inv
<1>3. Name = K(pos) /\ Out = K(pos)
  BY <1>1, <1>2, FreshKey DEF Name, Out
<1>4. ASSUME NEW a \in Ancestors(K(pos)), a \in DOMAIN tree
      PROVE  IsDir(a)
  <2>1. CASE a \in DOMAIN before
    BY <1>1, <1>2, <1>4, <2>1, FreshKey DEF OldStays, IsDir
  <2>2. ASSUME NEW k \in 1 .. pos - 1, a = K(k)
        PROVE  IsDir(a)
    <3>1. k \in 1 .. Count
      BY <1>1, <1>2, <2>2
    <3>2. cpio.entries[a].kind = "dir"
      BY <1>1, <1>2, <1>4, <2>2, <3>1, FreshKey
    <3>3. tree[a] = NodeOf(cpio.entries[a])
      BY <2>2 DEF PassedMade
    <3> QED
      BY <1>4, <3>2, <3>3, DirNode, NodeTypes DEF IsDir
  <2>3. CASE IsAbove(a)
    BY <1>4, <2>3, NodeTypes DEF IsAbove, IsDir
  <2>4. a # K(pos)
    BY <1>1, <1>2, <1>4, FreshKey, AboveAPath
  <2> QED
    BY <1>4, <2>1, <2>2, <2>3, <2>4 DEF NothingElse
<1>5. ASSUME pc # "write", K(pos) \in DOMAIN tree
      PROVE  FALSE
  <2>1. K(pos) \notin DOMAIN before
    BY <1>1, <1>2, FreshKey
  <2>2. ASSUME NEW k \in 1 .. pos - 1, K(pos) = K(k)
        PROVE  FALSE
    <3>1. k \in 1 .. Count /\ k # pos
      BY <1>1, <1>2, <2>2
    <3> QED
      BY <1>1, <1>2, <2>2, <3>1, FreshKey
  <2>3. ASSUME NEW k \in 1 .. Count, k <= pos, K(pos) \in Ancestors(K(k))
        PROVE  FALSE
    <3>1. pos < k
      BY <1>1, <1>2, <2>3, FreshKey
    <3> QED
      BY <1>1, <1>2, <2>3, <3>1
  <2> QED
    BY <1>5, <2>1, <2>2, <2>3 DEF NothingElse, IsAbove
<1> QED
  BY <1>2, <1>3, <1>4, <1>5

\* Places before the one in hand, before and after it moves.
LEMMA Places ==
  ASSUME NEW u \in Nat, NEW v \in Nat, v = u \/ v = u + 1
  PROVE  /\ \A k \in 1 .. u - 1 : k \in 1 .. v - 1
         /\ \A k \in 1 .. v - 1 : k \in 1 .. u - 1 \/ (v = u + 1 /\ k = u)
OBVIOUS

\* What a step says of the parts of Exact, if the node it puts is above the key
\* in hand, or is the key's.
LEMMA PutExact ==
  ASSUME Inv, Untroubled, OldStays, PassedMade, NothingElse, Ready, Working,
         UNCHANGED run, NEW a, NEW n, tree' = With(a, n), a \notin DOMAIN before,
         pos' \in {pos, pos + 1},
         \A k \in 1 .. pos - 1 : a # K(k),
         pos' = pos + 1 => Ancestors(K(pos)) \subseteq DOMAIN tree
                             /\ a = K(pos) /\ n = NodeOf(cpio.entries[K(pos)]),
         \/ pos' = pos + 1
         \/ a \in Ancestors(K(pos)) /\ n = DirEntry /\ a \notin DOMAIN tree
         \/ pc' = "write" /\ a = K(pos) /\ a \notin DOMAIN tree,
         pc = "write" => pos' = pos + 1
  PROVE  OldStays' /\ PassedMade' /\ NothingElse'
<1>1. /\ Typed /\ All /\ Fresh /\ Count \in Nat /\ pos \in 1 .. Count
      /\ Count' = Count /\ UNCHANGED <<cpio, before>>
  BY CountType, WayIsClear DEF Inv, Untroubled, run, Count, All
<1>2. \A k : K(k)' = K(k)
  BY <1>1 DEF K
<1>3. /\ DOMAIN tree' = DOMAIN tree \union {a} /\ tree'[a] = n
      /\ \A p \in DOMAIN tree : p # a => tree'[p] = tree[p]
  BY DEF With, Overlay
<1>0. pos \in Nat /\ pos' \in Nat /\ pos <= pos' /\ (pos' = pos \/ pos' = pos + 1)
  BY <1>1
<1>4. OldStays'
  BY <1>1, <1>3 DEF OldStays
<1>5. PassedMade'
  <2> SUFFICES ASSUME NEW k \in 1 .. pos' - 1
               PROVE  /\ K(k) \in DOMAIN tree' /\ tree'[K(k)] = NodeOf(cpio.entries[K(k)])
                      /\ Ancestors(K(k)) \subseteq DOMAIN tree'
    BY <1>1, <1>2 DEF PassedMade
  <2>1. CASE k \in 1 .. pos - 1
    BY <1>3, <2>1 DEF PassedMade
  <2>2. CASE k \notin 1 .. pos - 1
    <3>1. pos' = pos + 1 /\ k = pos
      BY <1>0, <2>2, Places
    <3> QED
      BY <1>3, <3>1
  <2> QED
    BY <2>1, <2>2
<1>6. NothingElse'
  <2> SUFFICES ASSUME NEW q \in DOMAIN tree', q \notin DOMAIN before
               PROVE  \/ \E k \in 1 .. pos' - 1 : q = K(k)
                      \/ \E k \in 1 .. Count : k <= pos' /\ q \in Ancestors(K(k)) /\ tree'[q] = DirEntry
                      \/ pc' = "write" /\ q = K(pos')
    BY <1>1, <1>2 DEF NothingElse, IsAbove
  <2>1. CASE q = a
    <3>1. CASE pos' = pos + 1
      <4>1. pos \in 1 .. pos' - 1
        BY <1>1, <3>1
      <4> QED
        BY <2>1, <3>1, <4>1
    <3>2. CASE pos' # pos + 1
      <4>1. pos <= pos'
        BY <1>1, <3>2
      <4> QED
        BY <1>1, <1>3, <2>1, <3>2, <4>1
    <3> QED
      BY <3>1, <3>2
  <2>2. CASE q # a
    <3>1. q \in DOMAIN tree /\ tree'[q] = tree[q]
      BY <1>3, <2>2
    <3>2. ASSUME NEW k \in 1 .. pos - 1, q = K(k)
          PROVE  \E j \in 1 .. pos' - 1 : q = K(j)
      <4>1. k \in 1 .. pos' - 1
        BY <1>0, <3>2, Places
      <4> QED
        BY <3>2, <4>1
    <3>3. ASSUME IsAbove(q)
          PROVE  \E k \in 1 .. Count : k <= pos' /\ q \in Ancestors(K(k)) /\ tree'[q] = DirEntry
      <4>1. PICK k \in 1 .. Count : k <= pos /\ q \in Ancestors(K(k)) /\ tree[q] = DirEntry
        BY <3>3 DEF IsAbove
      <4>2. k <= pos'
        BY <1>1, <4>1
      <4> QED
        BY <3>1, <4>1, <4>2
    <3>4. CASE pc = "write" /\ q = K(pos)
      BY <2>2, <3>4
    <3> QED
      BY <3>1, <3>2, <3>3, <3>4 DEF NothingElse
  <2> QED
    BY <2>1, <2>2
<1> QED
  BY <1>4, <1>5, <1>6

\* Where the tree stays, and the place, only the phase matters.
LEMMA SameExact ==
  ASSUME OldStays, PassedMade, NothingElse, UNCHANGED <<tree, run, pos>>,
         pc = "write" => pc' = "write"
  PROVE  OldStays' /\ PassedMade' /\ NothingElse'
<1>1. UNCHANGED <<cpio, before>> /\ Count' = Count /\ \A k : K(k)' = K(k)
  BY DEF run, Count, All, K
<1>2. OldStays' /\ PassedMade'
  BY <1>1 DEF OldStays, PassedMade
<1>3. NothingElse'
  BY <1>1 DEF NothingElse, IsAbove
<1> QED
  BY <1>2, <1>3

\* The directory that the key in hand goes to.
LEMMA ParentIsThere ==
  ASSUME Inv, Untroubled, OldStays, PassedMade, NothingElse, Working,
         Ancestors(K(pos)) \subseteq DOMAIN tree
  PROVE  IsDir(Parent(Out))
<1>1. /\ K(pos) \in Paths /\ Out = K(pos)
      /\ \A a \in Ancestors(K(pos)) \intersect DOMAIN tree : IsDir(a)
  BY WayIsClear, InHandType DEF Inv
<1>2. Parent(Out) = <<>> \/ Parent(Out) \in Ancestors(K(pos))
  BY <1>1, AboveAPath
<1> QED
  BY <1>1, <1>2 DEF IsDir

LEMMA StepUntroubled ==
  ASSUME Step, Untroubled'
  PROVE  Untroubled /\ refused' = FALSE
<1>1. UNCHANGED run /\ All' = All
  BY RunStays
<1>2. Fresh' = Fresh
  BY <1>1 DEF run, Fresh, Extractable, Lookup
<1>3. refused' = FALSE \/ refused' # FALSE
  OBVIOUS
<1>4. refused => refused'
  BY DEF Step, NextEntry, MkdirAll, Make, Create, Write, Unknown, Refused, NoFault
<1>5. ~refused'
  BY DEF Untroubled
<1> QED
  BY <1>1, <1>2, <1>4, <1>5 DEF Untroubled

LEMMA StepExact ==
  ASSUME Inv, Exact, Step
  PROVE  Exact'
<1> SUFFICES ASSUME Untroubled'
             PROVE  /\ pc' = "idle" => status' \in {"done", "killed"}
                    /\ OldStays' /\ PassedMade' /\ NothingElse' /\ Ready'
  BY DEF Exact
<1>0. pc # "idle"
  BY DEF Step, NextEntry, MkdirAll, Make, Create, Write, Unknown
<1>1. Untroubled /\ OldStays /\ PassedMade /\ NothingElse /\ Ready
  BY <1>0, StepUntroubled DEF Exact
<1>2. ~refused' /\ ~Refused
  BY DEF Untroubled, Refused
<1>3. /\ Typed /\ All /\ Fresh /\ Count \in Nat /\ pos \in 1 .. Count + 1
      /\ UNCHANGED run /\ UNCHANGED <<cpio, before>>
  BY <1>1, CountType, RunStays DEF Inv, InHand, Untroubled, run
<1>4. \A k : K(k)' = K(k)
  BY <1>3 DEF K
<1>5. Working => /\ Name = K(pos) /\ Out = K(pos) /\ pos \in 1 .. Count
                 /\ \A a \in Ancestors(K(pos)) \intersect DOMAIN tree : IsDir(a)
                 /\ pc # "write" => K(pos) \notin DOMAIN tree
  BY <1>1, WayIsClear
<1>6. pos \in 1 .. Count =>
        /\ K(pos) \in Paths /\ K(pos) \in Range(cpio.keys)
        /\ NameAt(pos) = K(pos) /\ Lookup(cpio, K(pos)) = cpio.entries[K(pos)]
        /\ Extractable(cpio, K(pos)) /\ K(pos) \notin DOMAIN before \union DotNames
        /\ \A j \in 1 .. Count : K(j) = K(pos) => j = pos
        /\ \A a \in Ancestors(K(pos)) : \A j \in 1 .. Count : K(j) = a => j < pos
  BY <1>3, FreshKey
<1>7. pos \in 1 .. Count => \A k \in 1 .. pos - 1 : K(pos) # K(k)
  <2> SUFFICES ASSUME pos \in 1 .. Count, NEW k \in 1 .. pos - 1, K(k) = K(pos)
               PROVE  FALSE
    OBVIOUS
  <2>1. k \in 1 .. Count /\ k # pos
    BY <1>3
  <2> QED
    BY <1>6, <2>1
<1>8. CASE NextEntry
  <2>1. pc = "next" /\ UNCHANGED <<tree, run>>
    BY <1>8 DEF NextEntry
  <2>2. \/ pc' = "idle" /\ status' = "done" /\ pos' = pos
        \/ pc' = "parents" /\ pos' = pos
    <3>1. CASE pos > Count
      BY <1>8, <3>1 DEF NextEntry, Exit
    <3>2. CASE ~(pos > Count)
      <4>1. pos \in 1 .. Count
        BY <1>3, <3>2
      <4>2. Name \notin DotNames /\ Name \in Range(cpio.keys)
        BY <1>6, <4>1 DEF Name
      <4> QED
        BY <1>8, <3>2, <4>2 DEF NextEntry, Goto
    <3> QED
      BY <3>1, <3>2
  <2>3. OldStays' /\ PassedMade' /\ NothingElse'
    BY <1>1, <2>1, <2>2, SameExact
  <2> QED
    BY <2>2, <2>3 DEF Ready
<1>9. CASE MkdirAll
  <2>0. pc = "parents" /\ Working
    BY <1>9 DEF MkdirAll, Working
  <2>1. CASE Missing(Name) = {} /\ UNCHANGED tree /\ Goto("make")
    <3>1. pc' = "make" /\ pos' = pos
      BY <2>1 DEF Goto
    <3>2. Ancestors(K(pos)) \subseteq DOMAIN tree
      BY <1>5, <1>6, <2>0, <2>1, NoneMissing
    <3>3. OldStays' /\ PassedMade' /\ NothingElse'
      BY <1>1, <1>3, <2>0, <2>1, <3>1, SameExact
    <3> QED
      BY <1>4, <2>1, <3>1, <3>2, <3>3 DEF Ready
  <2>2. ASSUME NEW a \in Missing(Name), tree' = With(a, DirEntry), Goto("parents")
        PROVE  /\ pc' = "parents" /\ OldStays' /\ PassedMade' /\ NothingElse'
    <3>1. pc' = "parents" /\ pos' = pos
      BY <2>2 DEF Goto
    <3>2. a \in Ancestors(K(pos)) /\ a \notin DOMAIN tree
      BY <1>5, <2>0, <2>2 DEF Missing
    <3>3. a \notin DOMAIN before
      BY <1>1, <3>2 DEF OldStays
    <3>4. \A k \in 1 .. pos - 1 : a # K(k)
      BY <1>1, <3>2 DEF PassedMade
    <3> QED
      BY <1>1, <1>3, <2>0, <2>2, <3>1, <3>2, <3>3, <3>4, PutExact
  <2> QED
    BY <1>2, <1>9, <2>1, <2>2 DEF MkdirAll, Ready
<1>10. CASE Make
  <2>0. pc = "make" /\ Working
    BY <1>10 DEF Make, Working
  <2>1. Ancestors(K(pos)) \subseteq DOMAIN tree
    BY <1>1, <2>0 DEF Ready
  <2>2. IsDir(Parent(Out)) /\ Out \notin DOMAIN tree
    BY <1>1, <1>5, <2>0, <2>1, ParentIsThere
  <2>3. tree' = With(Out, NodeOf(Entry)) /\ pc' = "next" /\ pos' = pos + 1
    BY <1>2, <1>10, <2>2 DEF Make, Return
  <2>4. Out = K(pos) /\ NodeOf(Entry) = NodeOf(cpio.entries[K(pos)])
    BY <1>5, <1>6, <2>0 DEF Entry
  <2>5. OldStays' /\ PassedMade' /\ NothingElse'
    BY <1>1, <1>3, <1>5, <1>6, <1>7, <2>0, <2>1, <2>3, <2>4, PutExact
  <2> QED
    BY <2>3, <2>5 DEF Ready
<1>11. CASE Create
  <2>0. pc = "make" /\ Working
    BY <1>11 DEF Create, Working
  <2>1. Ancestors(K(pos)) \subseteq DOMAIN tree
    BY <1>1, <2>0 DEF Ready
  <2>2. IsDir(Parent(Out)) /\ Out \notin DOMAIN tree /\ Out = K(pos) /\ InTree
    BY <1>1, <1>5, <2>0, <2>1, ParentIsThere DEF InTree
  <2>3. ~IsDir(Out)
    BY <1>5, <1>6, <2>0, <2>2, PathType DEF IsDir
  <2>4. tree' = With(Out, RegEntry(Nothing)) /\ pc' = "write" /\ pos' = pos
    BY <1>2, <1>11, <2>2, <2>3 DEF Create, Goto
  <2>5. OldStays' /\ PassedMade' /\ NothingElse'
    BY <1>1, <1>3, <1>5, <1>6, <1>7, <2>0, <2>2, <2>4, PutExact
  <2>6. DOMAIN tree' = DOMAIN tree \union {Out} /\ tree'[Out] = RegEntry(Nothing)
    BY <2>4 DEF With, Overlay
  <2>7. Ready'
    BY <1>4, <2>1, <2>2, <2>4, <2>6, NodeTypes DEF Ready
  <2> QED
    BY <2>4, <2>5, <2>7
<1>12. CASE Write
  <2>0. pc = "write" /\ Working
    BY <1>12 DEF Write, Working
  <2>1. Ancestors(K(pos)) \subseteq DOMAIN tree /\ tree[K(pos)].kind = "reg"
    BY <1>1, <2>0 DEF Ready
  <2>2. Out = K(pos) /\ InTree
    BY <1>5, <2>0, <2>1 DEF InTree
  <2>3. tree' = With(Out, Entry) /\ pc' = "next" /\ pos' = pos + 1
    BY <1>2, <1>12, <2>2 DEF Write, Return
  <2>4. Entry = NodeOf(cpio.entries[K(pos)])
    <3>1. Entry = cpio.entries[K(pos)] /\ Entry.kind = "reg"
      BY <1>5, <1>6, <2>0 DEF Entry, Inv, InHand
    <3> QED
      BY <3>1 DEF NodeOf
  <2>5. OldStays' /\ PassedMade' /\ NothingElse'
    BY <1>1, <1>3, <1>5, <1>6, <1>7, <2>0, <2>1, <2>2, <2>3, <2>4, PutExact
  <2> QED
    BY <2>3, <2>5 DEF Ready
<1>13. ~Unknown
  <2> SUFFICES ASSUME Unknown PROVE FALSE
    OBVIOUS
  <2>1. Working
    BY DEF Unknown, Working
  <2>2. Entry.kind \in {"dir", "reg", "lnk", "blk"}
    BY <1>5, <1>6, <2>1 DEF Entry, Extractable
  <2> QED
    BY <2>2 DEF Unknown
<1> QED
  BY <1>8, <1>9, <1>10, <1>11, <1>12, <1>13 DEF Step

LEMMA NextExact ==
  ASSUME Inv, Exact, [Next]_vars
  PROVE  Exact'
<1>1. CASE Step
  BY <1>1, StepExact
<1>2. CASE Start
  <2>1. /\ UNCHANGED tree /\ pos' = 1 /\ before' = tree /\ pc' \in {"idle", "next"}
        /\ pc' = "idle" => operands' = <<>>
    BY <1>2 DEF Start
  <2>2. pc' = "idle" => ~All'
    BY <2>1 DEF All
  <2>3. OldStays' /\ PassedMade' /\ NothingElse' /\ (pc' = "next" => Ready')
    <3>1. OldStays'
      BY <2>1 DEF OldStays
    <3>2. PassedMade'
      BY <2>1 DEF PassedMade
    <3>3. NothingElse'
      BY <2>1 DEF NothingElse
    <3> QED
      BY <3>1, <3>2, <3>3 DEF Ready
  <2> QED
    BY <2>1, <2>2, <2>3 DEF Exact, Untroubled
<1>3. CASE Killed
  <2>1. UNCHANGED <<tree, run, refused>> /\ pc' = "idle" /\ status' = "killed"
    BY <1>3 DEF Killed, Exit
  <2> QED
    BY <2>1 DEF Exact
<1>4. CASE UNCHANGED vars
  BY <1>4 DEF vars, Exact, Untroubled, All, Fresh, Extractable, Lookup, OldStays,
     PassedMade, NothingElse, IsAbove, Ready, K, Count
<1> QED
  BY <1>1, <1>2, <1>3, <1>4 DEF Next

\* FreshIsExact: where nothing is in the way of an archive of any size and the
\* host refuses nothing, extract comes to its end and the directory has the
\* entries, what is above them, and what it had.
THEOREM FreshArchivesComeOut == Spec => []FreshIsExact
<1>1. Init => Exact
  BY DEF Init, Exact, Untroubled, All
<1>2. Inv /\ Passed /\ Exact => FreshIsExact
  <2> SUFFICES ASSUME Inv, Passed, Exact, Untroubled, pc = "idle"
               PROVE  /\ status \in {"done", "killed"}
                      /\ status = "done" =>
                           LET keys  == Range(cpio.keys)
                               above == UNION {Ancestors(p) : p \in keys}
                           IN  /\ DOMAIN tree = UNION {DOMAIN before, keys, above}
                               /\ \A p \in keys : tree[p] = NodeOf(cpio.entries[p])
                               /\ \A p \in above \ (keys \union DOMAIN before) : tree[p] = DirEntry
                               /\ \A p \in DOMAIN before : tree[p] = before[p]
    BY DEF FreshIsExact, Untroubled
  <2>1. status \in {"done", "killed"}
    BY DEF Exact
  <2> SUFFICES ASSUME status = "done"
               PROVE  LET keys  == Range(cpio.keys)
                          above == UNION {Ancestors(p) : p \in keys}
                      IN  /\ DOMAIN tree = UNION {DOMAIN before, keys, above}
                          /\ \A p \in keys : tree[p] = NodeOf(cpio.entries[p])
                          /\ \A p \in above \ (keys \union DOMAIN before) : tree[p] = DirEntry
                          /\ \A p \in DOMAIN before : tree[p] = before[p]
    BY <2>1
  <2> DEFINE keys  == Range(cpio.keys)
             above == UNION {Ancestors(p) : p \in keys}
  <2>2. OldStays /\ PassedMade /\ NothingElse
    BY DEF Exact
  <2>3. pos > Count /\ pos \in 1 .. Count + 1 /\ Count \in Nat /\ All /\ Fresh /\ Typed
    <3>1. operands # <<>>
      BY DEF Untroubled, All
    <3> QED
      BY <3>1, CountType DEF Passed, Inv, InHand, Untroubled
  <2>4. 1 .. pos - 1 = 1 .. Count /\ DOMAIN cpio.keys = 1 .. Count
    BY <2>3 DEF Count, Typed, IsArchive
  <2>5. keys = {K(k) : k \in 1 .. Count}
    BY <2>4 DEF Range, K
  <2>6. \A k \in 1 .. Count :
           /\ K(k) \in DOMAIN tree /\ tree[K(k)] = NodeOf(cpio.entries[K(k)])
           /\ Ancestors(K(k)) \subseteq DOMAIN tree
    BY <2>2, <2>4 DEF PassedMade
  <2>7. \A q \in DOMAIN tree \ DOMAIN before :
           \/ \E k \in 1 .. Count : q = K(k)
           \/ \E k \in 1 .. Count : q \in Ancestors(K(k)) /\ tree[q] = DirEntry
    BY <2>2, <2>4 DEF NothingElse, IsAbove
  <2>8. DOMAIN tree = UNION {DOMAIN before, keys, above}
    <3>1. DOMAIN before \subseteq DOMAIN tree
      BY <2>2 DEF OldStays
    <3>2. keys \subseteq DOMAIN tree /\ above \subseteq DOMAIN tree
      BY <2>5, <2>6
    <3>3. \A q \in DOMAIN tree : q \in DOMAIN before \/ q \in keys \/ q \in above
      BY <2>5, <2>7
    <3> HIDE DEF keys, above
    <3> QED
      BY <3>1, <3>2, <3>3
  <2>9. \A p \in keys : tree[p] = NodeOf(cpio.entries[p])
    BY <2>5, <2>6
  <2>10. \A p \in above \ (keys \union DOMAIN before) : tree[p] = DirEntry
    <3> SUFFICES ASSUME NEW p \in above, p \notin keys, p \notin DOMAIN before
                 PROVE  tree[p] = DirEntry
      OBVIOUS
    <3>1. p \in DOMAIN tree
      BY <2>8
    <3>2. ~\E k \in 1 .. Count : p = K(k)
      BY <2>5
    <3> QED
      BY <2>7, <3>1, <3>2
  <2>11. \A p \in DOMAIN before : tree[p] = before[p]
    BY <2>2 DEF OldStays
  <2> QED
    BY <2>8, <2>9, <2>10, <2>11
<1> QED
  BY <1>1, <1>2, InitInv, NextInv, InitPassed, NextPassed, NextExact, PTL DEF Spec
=============================================================================
