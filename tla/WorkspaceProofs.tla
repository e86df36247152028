-------------------------- MODULE WorkspaceProofs --------------------------
(***************************************************************************)
(* The patches for any files, bases, processes and numbers of rows: memory *)
(* is what the table says (IInv), and a run of the program gets back what  *)
(* an earlier one or a project file left (ServedOK).  IInv is one lemma    *)
(* per action, on lemmas about the loops over the list of patches.         *)
(***************************************************************************)
EXTENDS Workspace, SequenceTheorems, FiniteSetTheorems, TLAPS

(* The naturals are well ordered: the initial segments up to the elements  *)
(* of S are finite sets, and inclusion is well founded on these.           *)
LEMMA LeastExists ==
  ASSUME NEW S \in SUBSET Nat, S # {}
  PROVE  \E x \in S : \A y \in S : x <= y
<1> DEFINE T == {0 .. x : x \in S}
<1>1. T \subseteq FiniteSubsetsOf(Nat) /\ T # {}
  <2>1. \A x \in S : IsFiniteSet(0 .. x) /\ 0 .. x \subseteq Nat
    BY FS_Interval
  <2> QED
    BY <2>1 DEF FiniteSubsetsOf
<1>2. PICK I \in T : \A J \in T : <<J, I>> \notin StrictSubsetOrdering(Nat)
  <2> HIDE DEF T
  <2> QED
    BY <1>1, FS_StrictSubsetOrderingWellFounded, WFMin
<1>3. PICK x \in S : I = 0 .. x
  OBVIOUS
<1>4. ASSUME NEW y \in S, y < x PROVE FALSE
  <2>1. 0 .. y \subseteq 0 .. x /\ 0 .. y # 0 .. x /\ 0 .. x \subseteq Nat
    BY <1>4
  <2>2. <<0 .. y, 0 .. x>> \in StrictSubsetOrdering(Nat)
    BY <2>1 DEF StrictSubsetOrdering
  <2> QED
    BY <1>2, <1>3, <2>2
<1> QED
  BY <1>4

(* Where the entries of a list are after the one at n has been erased.     *)
LEMMA RemoveAtProperties ==
  ASSUME NEW E, NEW L \in Seq(E), NEW n \in 1 .. Len(L)
  PROVE  /\ RemoveAt(L, n) \in Seq(E)
         /\ Len(RemoveAt(L, n)) = Len(L) - 1
         /\ \A j \in 1 .. Len(L) - 1 :
              RemoveAt(L, n)[j] = IF j < n THEN L[j] ELSE L[j + 1]
<1> DEFINE A == SubSeq(L, 1, n - 1)
           B == SubSeq(L, n + 1, Len(L))
<1>0. Len(L) \in Nat /\ n \in Int /\ \A j \in 1 .. Len(L) : L[j] \in E
  OBVIOUS
<1>1. A \in Seq(E) /\ Len(A) = n - 1 /\ \A j \in 1 .. n - 1 : A[j] = L[j]
  BY <1>0, SubSeqProperties
<1>2. B \in Seq(E) /\ Len(B) = Len(L) - n
        /\ \A j \in 1 .. Len(L) - n : B[j] = L[n + j]
  BY <1>0, SubSeqProperties
<1> HIDE DEF A, B
<1>3. /\ A \o B \in Seq(E) /\ Len(A \o B) = Len(A) + Len(B)
      /\ \A j \in 1 .. Len(A) + Len(B) :
           (A \o B)[j] = IF j <= Len(A) THEN A[j] ELSE B[j - Len(A)]
  BY <1>1, <1>2, ConcatProperties
<1>4. RemoveAt(L, n) = A \o B
  BY DEF RemoveAt, A, B
<1>5. \A j \in 1 .. Len(L) - 1 : (A \o B)[j] = IF j < n THEN L[j] ELSE L[j + 1]
  <2> SUFFICES ASSUME NEW j \in 1 .. Len(L) - 1
               PROVE  (A \o B)[j] = IF j < n THEN L[j] ELSE L[j + 1]
    OBVIOUS
  <2>1. CASE j < n
    BY <1>0, <1>1, <1>2, <1>3, <2>1
  <2>2. CASE ~(j < n)
    <3>1. j - (n - 1) \in 1 .. Len(L) - n /\ n + (j - (n - 1)) = j + 1
      BY <1>0, <2>2
    <3>2. B[j - (n - 1)] = L[j + 1]
      BY <1>2, <3>1
    <3>3. j \in 1 .. Len(A) + Len(B) /\ ~(j <= Len(A))
      BY <1>0, <1>1, <1>2, <2>2
    <3> QED
      BY <1>1, <1>3, <2>2, <3>2, <3>3
  <2> QED
    BY <2>1, <2>2
<1>6. Len(A \o B) = Len(L) - 1
  BY <1>0, <1>1, <1>2, <1>3
<1> QED
  BY <1>3, <1>4, <1>5, <1>6

-----------------------------------------------------------------------------
(* What the theorems ask of the setups.  A DLL is in every process and a   *)
(* second process of a file has the first one's name in PEFiles, so that   *)
(* patches of two processes would be taken for those of one: there are     *)
(* DLLs or one child, and the child is not the target's file.              *)
OneFileEach ==
  \A s \in Setups :
    /\ s.libs = {} \/ s.childs = {}
    /\ s.childs # {} => /\ Target \notin s.childs
                        /\ \A p, q, r \in s.pids : p = q \/ q = r \/ p = r

(* No address belongs to two modules; with a child, none is a distance    *)
(* either, as which a row of a project file stands until it is moved.      *)
ImagesApart ==
  \A s \in Setups : \A f, g \in File : \A b \in Bases[f], c \in Bases[g] : \A r, q \in s.rvas :
    /\ f # g => b + r # c + q
    /\ s.childs # {} => b + r # q

(* Nor do the user's edits overtake signals, or patches the entry point.   *)
WorkspaceSetups ==
  ~QueuedInput /\ ~EarlyPatches /\ Heap = {} /\ OneFileEach /\ ImagesApart

-----------------------------------------------------------------------------
(* The processes, the list of open files, and the queued signals: what the *)
(* GUI is told of a process is true of it when it comes to hear it.        *)
ProcessFiles == {Target} \cup ChildFiles
Cells(at)    == {at[m] + r : m \in DOMAIN at, r \in Rva}

ProcessOK(x) ==
  /\ x = [file |-> x.file, at |-> x.at, ep |-> x.ep, mem |-> x.mem]
  /\ x.file \in ProcessFiles /\ x.at \in Loads(x.file) /\ x.ep \in BOOLEAN
  /\ x.mem \in [Cells(x.at) -> Byte]

World ==
  /\ setup \in Setups /\ PIDs \subseteq Pid /\ session \in Nat /\ active \in BOOLEAN
  /\ Live \subseteq PIDs /\ (~active => Live = {})
  /\ proc = [p \in Live |-> proc[p]]
  /\ \A p \in Live : ProcessOK(proc[p])

Family ==
  /\ pe \in [DOMAIN pe -> PIDs]
  /\ \A p, q, r \in PIDs : p = q \/ q = r \/ p = r
  /\ \A p \in PIDs : PIDs = {p} => /\ DOMAIN pe \subseteq {Target}
                                   /\ p \in Live => proc[p].file = Target
  /\ \A p \in Live : proc[p].file \in DOMAIN pe /\ pe[proc[p].file] = p
  /\ \A p \in Live : \A f \in DOMAIN pe : pe[f] = p => f = proc[p].file

Signal == [sig : {"newpid", "offsets", "closed", "terminated"}, file : File \cup {NoFile},
           pid : Pid \cup {NoPid}, h : Nat]

SignalOK(e, last) ==
  /\ e.h = session
  /\ e.sig = "offsets" => e.pid \in PIDs /\ (e.pid \in Live => proc[e.pid].ep)
  /\ e.sig = "closed" => e.pid \in PIDs \ Live
  /\ e.sig = "terminated" => ~active /\ last

QueueOK ==
  /\ queue \in Seq(Signal)
  /\ \A i \in 1 .. Len(queue) : SignalOK(queue[i], i = Len(queue))

-----------------------------------------------------------------------------
(* The patches: no two are for one cell of one file (Distinct), one whose  *)
(* process can be reached is of its file and at its module's base          *)
(* (PatchHere), and its process then has all of that file (Together).      *)
Patch == [pid : Pid \cup {NoPid}, h : Nat, off : Int, base : Nat, name : File, pmod : File,
          new : Byte, org : Byte, written : BOOLEAN, saved : BOOLEAN]

PatchFits(x) ==
  /\ x.pmod \in ProcessFiles /\ x.name \in {x.pmod} \cup Libs
  /\ x.org = Org
  /\ x.base \in Bases[x.name] \cup {0} /\ x.off - x.base \in Rva

PatchHere(x) ==
  /\ x.h <= session
  /\ x.h = session => x.pid \in PIDs
  /\ Reached(x) => x.pmod = proc[x.pid].file /\ x.base = proc[x.pid].at[x.name]

Distinct(ps) ==
  \A i, j \in 1 .. Len(ps) :
    ps[i].name = ps[j].name /\ ps[i].off - ps[i].base = ps[j].off - ps[j].base => i = j

Together(ps) ==
  \A i, j \in 1 .. Len(ps) :
    Reached(ps[i]) /\ ps[j].pmod = ps[i].pmod => ps[j].pid = ps[i].pid /\ ps[j].h = session

ListOK(ps) ==
  /\ ps \in Seq(Patch) /\ Distinct(ps) /\ Together(ps)
  /\ \A i \in 1 .. Len(ps) : PatchFits(ps[i]) /\ PatchHere(ps[i])

(* The memory of the processes, as the patches shown as written say.       *)
Shown(x, p, a) == Reached(x) /\ x.pid = p /\ x.off = a /\ x.written

MemShape(mem) ==
  mem = [p \in Live |-> mem[p]] /\ \A p \in Live : mem[p] \in [Cells(proc[p].at) -> Byte]

CellOK(ps, mem, p, a) ==
  /\ \A i \in 1 .. Len(ps) : Shown(ps[i], p, a) => mem[p][a] = ps[i].new
  /\ (\A i \in 1 .. Len(ps) : ~Shown(ps[i], p, a)) => mem[p][a] = Org

MemOK(ps, mem) ==
  MemShape(mem) /\ \A p \in Live : \A a \in Cells(proc[p].at) : CellOK(ps, mem, p, a)

StateOK(st) == ListOK(st.ps) /\ MemOK(st.ps, st.mem) /\ st = [ps |-> st.ps, mem |-> st.mem]

(* Once its entry point is served, a process has the patches of its file:  *)
(* no other row can be taken for one of them.                              *)
ServedList(ps, p) ==
  \A i \in 1 .. Len(ps) : ps[i].pmod = proc[p].file => ps[i].pid = p /\ ps[i].h = session

Served(p) == p \in Live /\ proc[p].ep
             /\ \A i \in 1 .. Len(queue) : ~(queue[i].sig = "offsets" /\ queue[i].pid = p)

ServedOK == \A p \in Live : Served(p) => ServedList(patches, p)

(* Bookmarks, and the project file, which has the patches as distances.    *)
Mark == [off : Int, base : Int, name : File, pid : Pid \cup {NoPid}, pmod : File, comment : Comment]
MarkFits(x) == x.pmod \in ProcessFiles /\ x.name \in {x.pmod} \cup Libs
MarksOK(bs) == bs \in Seq(Mark) /\ \A i \in 1 .. Len(bs) : MarkFits(bs[i])

ProjectOK ==
  /\ project = [patches |-> project.patches, bookmarks |-> project.bookmarks]
  /\ MarksOK(project.bookmarks)
  /\ project.patches \in Seq(Patch) /\ Distinct(project.patches)
  /\ \A i \in 1 .. Len(project.patches) :
       PatchFits(project.patches[i]) /\ project.patches[i].h = 0

IInv ==
  /\ World /\ Family /\ QueueOK
  /\ StateOK(State)
  /\ ServedOK /\ MarksOK(bookmarks) /\ ProjectOK

-----------------------------------------------------------------------------
(* The setup and what it makes of the modules.                             *)

LEMMA SetupFacts ==
  ASSUME WorkspaceSetups, setup \in Setups
  PROVE  /\ Rva \subseteq Nat \ {0} /\ NoPid \notin Pid /\ NoFile \notin File
         /\ ProcessFiles \subseteq File /\ Libs \subseteq File \ {Target} /\ Target \in File
         /\ Libs = {} \/ ChildFiles = {}
         /\ Org \in Byte
BY ConstantsOK DEF WorkspaceSetups, OneFileEach, Rva, Pid, ProcessFiles, ChildFiles, Libs

LEMMA CellsApart ==
  ASSUME WorkspaceSetups, setup \in Setups, NEW f \in File, NEW g \in File,
         NEW b \in Bases[f], NEW c \in Bases[g], NEW r \in Rva, NEW q \in Rva
  PROVE  (f # g => b + r # c + q) /\ (ChildFiles # {} => b + r # q)
BY DEF WorkspaceSetups, ImagesApart, Rva, ChildFiles

LEMMA BaseFacts ==
  ASSUME NEW f \in File
  PROVE  Bases[f] \subseteq Nat \ {0}
BY ConstantsOK

LEMMA LoadFacts ==
  ASSUME WorkspaceSetups, setup \in Setups, NEW f \in ProcessFiles, NEW at \in Loads(f)
  PROVE  /\ DOMAIN at = {f} \cup Libs
         /\ \A m \in DOMAIN at : m \in File /\ at[m] \in Bases[m] /\ at[m] \in Nat \ {0}
<1>1. DOMAIN at = {f} \cup Libs /\ \A m \in DOMAIN at : at[m] \in Bases[m]
  BY DEF Loads
<1>2. \A m \in DOMAIN at : m \in File
  BY <1>1, SetupFacts
<1> QED
  BY <1>1, <1>2, BaseFacts

(* A live process, as the lemmas below use it.                             *)
LEMMA ProcessFacts ==
  ASSUME WorkspaceSetups, World, NEW p \in Live
  PROVE  /\ p \in PIDs /\ p \in Pid /\ proc[p].file \in ProcessFiles /\ proc[p].file \in File
         /\ proc[p].at \in Loads(proc[p].file)
         /\ DOMAIN proc[p].at = {proc[p].file} \cup Libs
         /\ \A m \in DOMAIN proc[p].at :
              m \in File /\ proc[p].at[m] \in Bases[m] /\ proc[p].at[m] \in Nat \ {0}
         /\ proc[p].mem \in [Cells(proc[p].at) -> Byte]
         /\ proc[p].ep \in BOOLEAN
<1>1. ProcessOK(proc[p]) /\ p \in PIDs /\ PIDs \subseteq Pid /\ setup \in Setups
  BY DEF World
<1>2. /\ proc[p].file \in ProcessFiles /\ proc[p].at \in Loads(proc[p].file)
      /\ proc[p].mem \in [Cells(proc[p].at) -> Byte] /\ proc[p].ep \in BOOLEAN
  BY <1>1 DEF ProcessOK
<1>3. proc[p].file \in File
  BY <1>1, <1>2, SetupFacts
<1>4. /\ DOMAIN proc[p].at = {proc[p].file} \cup Libs
      /\ \A m \in DOMAIN proc[p].at :
           m \in File /\ proc[p].at[m] \in Bases[m] /\ proc[p].at[m] \in Nat \ {0}
  BY <1>1, <1>2, LoadFacts
<1> QED
  BY <1>1, <1>2, <1>3, <1>4

LEMMA CellFacts ==
  ASSUME WorkspaceSetups, World, NEW p \in Live, NEW a \in Cells(proc[p].at)
  PROVE  /\ a \in Nat
         /\ \E m \in DOMAIN proc[p].at : a - proc[p].at[m] \in Rva
<1>1. PICK m \in DOMAIN proc[p].at, r \in Rva : a = proc[p].at[m] + r
  BY DEF Cells
<1>2. proc[p].at[m] \in Nat /\ r \in Nat
  BY ProcessFacts, SetupFacts DEF World
<1>3. a \in Nat /\ a - proc[p].at[m] = r
  BY <1>1, <1>2
<1> QED
  BY <1>1, <1>3

-----------------------------------------------------------------------------
(* The patches of a list.                                                  *)

LEMMA FitFacts ==
  ASSUME WorkspaceSetups, World, NEW x \in Patch, PatchFits(x)
  PROVE  /\ x.name \in File /\ x.pmod \in File /\ x.pmod # NoFile
         /\ x.base \in Nat /\ x.off \in Int /\ x.off - x.base \in Rva /\ x.off - x.base \in Nat \ {0}
         /\ x.off = x.base + (x.off - x.base)
<1>1. /\ x.base \in Nat /\ x.off \in Int /\ x.name \in File /\ x.pmod \in File
      /\ x.off - x.base \in Rva
  BY DEF Patch, PatchFits
<1> QED
  BY <1>1, SetupFacts DEF World

LEMMA SameModuleSameProcess ==
  ASSUME WorkspaceSetups, World, NEW x \in Patch, NEW y \in Patch, PatchFits(x), PatchFits(y),
         x.name = y.name
  PROVE  x.pmod = y.pmod
<1>1. Libs = {} \/ ChildFiles = {}
  BY SetupFacts DEF World
<1>2. /\ x.pmod \in {Target} \cup ChildFiles /\ x.name \in {x.pmod} \cup Libs
      /\ y.pmod \in {Target} \cup ChildFiles /\ y.name \in {y.pmod} \cup Libs
  BY DEF PatchFits, ProcessFiles
<1> QED
  BY <1>1, <1>2

(* What can be written at all is in a module of its process.               *)
LEMMA ReachedFacts ==
  ASSUME WorkspaceSetups, World, NEW x \in Patch, PatchFits(x), PatchHere(x), Reached(x)
  PROVE  /\ x.pid \in Live /\ x.name \in DOMAIN proc[x.pid].at
         /\ x.base \in Bases[x.name] /\ x.off \in Cells(proc[x.pid].at) /\ Writes(x)
<1>1. /\ x.pid \in Live /\ x.pmod = proc[x.pid].file /\ x.base = proc[x.pid].at[x.name]
      /\ x.name \in {x.pmod} \cup Libs
  BY DEF PatchHere, Reached, PatchFits
<1>2. /\ DOMAIN proc[x.pid].at = {proc[x.pid].file} \cup Libs
      /\ \A m \in DOMAIN proc[x.pid].at : proc[x.pid].at[m] \in Bases[m]
      /\ proc[x.pid].mem \in [Cells(proc[x.pid].at) -> Byte]
  BY <1>1, ProcessFacts
<1>3. x.name \in DOMAIN proc[x.pid].at /\ x.base \in Bases[x.name]
  BY <1>1, <1>2
<1>4. x.off - x.base \in Rva /\ x.off = proc[x.pid].at[x.name] + (x.off - x.base)
  BY <1>1, FitFacts
<1>5. x.off \in Cells(proc[x.pid].at)
  BY <1>3, <1>4 DEF Cells
<1> QED
  BY <1>1, <1>2, <1>3, <1>5 DEF Writes

(* Nothing else in the table is at the offset of a patch that is reached:  *)
(* the rows of its file have its process, and those of another file are    *)
(* elsewhere.                                                              *)
LEMMA AloneAtOffset ==
  ASSUME WorkspaceSetups, World, NEW ps, ListOK(ps), NEW i \in 1 .. Len(ps), NEW j \in 1 .. Len(ps),
         Reached(ps[i]), ps[i].off = ps[j].off
  PROVE  i = j
<1> DEFINE x == ps[i]
           y == ps[j]
<1>1. /\ x \in Patch /\ PatchFits(x) /\ PatchHere(x) /\ y \in Patch /\ PatchFits(y)
      /\ PatchHere(y)
  BY DEF ListOK
<1>2. /\ x.base \in Bases[x.name] /\ x.name \in File /\ y.name \in File
      /\ x.off - x.base \in Rva /\ y.off - y.base \in Rva
      /\ x.off = x.base + (x.off - x.base) /\ y.off = y.base + (y.off - y.base)
      /\ y.base \in Bases[y.name] \cup {0} /\ y.off \in Int
  BY <1>1, ReachedFacts, FitFacts DEF PatchFits
<1>3. setup \in Setups
  BY DEF World
<1>4. x.base + (x.off - x.base) = y.base + (y.off - y.base)
  BY <1>2
<1>5. CASE y.pmod = x.pmod
  <2>1. Reached(y) /\ y.pid = x.pid
    BY <1>5 DEF ListOK, Together, Reached
  <2>2. y.base \in Bases[y.name] /\ x.base = proc[x.pid].at[x.name] /\ y.base = proc[x.pid].at[y.name]
    BY <1>1, <2>1, ReachedFacts DEF PatchHere
  <2>3. x.name = y.name
    <3>1. ASSUME x.name # y.name PROVE FALSE
      <4>1. PICK b \in Bases[x.name], c \in Bases[y.name], r \in Rva, q \in Rva :
              b = x.base /\ c = y.base /\ r = x.off - x.base /\ q = y.off - y.base
        BY <1>2, <2>2
      <4>2. b + r # c + q
        BY <1>2, <1>3, <3>1, CellsApart
      <4> QED
        BY <1>4, <4>1, <4>2
    <3> QED BY <3>1
  <2>4. x.off - x.base = y.off - y.base
    BY <2>2, <2>3
  <2> QED
    BY <2>3, <2>4 DEF ListOK, Distinct
<1>6. CASE y.pmod # x.pmod
  <2>1. x.name # y.name
    BY <1>1, <1>6, SameModuleSameProcess
  <2>2. ChildFiles # {}
    BY <1>1, <1>6 DEF PatchFits, ProcessFiles
  <2>3. y.base # 0
    <3>1. ASSUME y.base = 0 PROVE FALSE
      <4>1. y.off - y.base = y.off
        BY <1>2, <3>1
      <4> QED
        BY <1>2, <1>3, <2>2, <4>1, CellsApart
    <3> QED BY <3>1
  <2> QED
    BY <1>2, <1>3, <1>4, <2>1, <2>3, CellsApart
<1> QED
  BY <1>5, <1>6

-----------------------------------------------------------------------------
(* What the operations on the table leave.                                 *)

LEMMA FirstIn ==
  ASSUME NEW n \in Nat, NEW I \in SUBSET (1 .. n), I # {}
  PROVE  First(I) \in I
<1>1. PICK i \in I : \A j \in I : i <= j
  BY LeastExists
<1> QED
  BY <1>1 DEF First

(* Two lists whose entries are the same but for what the table shows.      *)
SameKeys(x, y) ==
  /\ y.pid = x.pid /\ y.h = x.h /\ y.off = x.off /\ y.base = x.base
  /\ y.name = x.name /\ y.pmod = x.pmod /\ y.org = x.org /\ y.new = x.new

Relabelled(ps, qs) ==
  qs \in Seq(Patch) /\ Len(qs) = Len(ps) /\ \A i \in 1 .. Len(ps) : SameKeys(ps[i], qs[i])

LEMMA RelabelledOK ==
  ASSUME NEW ps, NEW qs, ListOK(ps), Relabelled(ps, qs)
  PROVE  ListOK(qs) /\ \A p : ServedList(ps, p) => ServedList(qs, p)
<1>1. ASSUME NEW i \in 1 .. Len(qs) PROVE PatchFits(qs[i]) /\ PatchHere(qs[i])
  <2>1. i \in 1 .. Len(ps) /\ SameKeys(ps[i], qs[i]) /\ PatchFits(ps[i]) /\ PatchHere(ps[i])
    BY DEF ListOK, Relabelled
  <2> QED
    BY <2>1 DEF SameKeys, PatchFits, PatchHere, Reached
<1>2. Distinct(qs)
  BY DEF ListOK, Relabelled, SameKeys, Distinct
<1>3. Together(qs)
  BY DEF ListOK, Relabelled, SameKeys, Together, Reached
<1>4. ASSUME NEW p, ServedList(ps, p) PROVE ServedList(qs, p)
  BY <1>4 DEF ServedList, Relabelled, SameKeys
<1> QED
  BY <1>1, <1>2, <1>3, <1>4 DEF ListOK, Relabelled

LEMMA PokeFacts ==
  ASSUME WorkspaceSetups, World, NEW st, MemShape(st.mem),
         NEW x \in Patch, PatchFits(x), PatchHere(x), NEW b \in Byte
  PROVE  /\ MemShape(Poke(st, x, b))
         /\ \A p \in Live : \A a \in Cells(proc[p].at) :
              Poke(st, x, b)[p][a] =
                IF Reached(x) /\ p = x.pid /\ a = x.off THEN b ELSE st.mem[p][a]
<1>1. CASE ~Reached(x)
  BY <1>1 DEF Poke, Writes
<1>2. CASE Reached(x)
  <2>1. x.pid \in Live /\ x.off \in Cells(proc[x.pid].at) /\ Writes(x)
    BY <1>2, ReachedFacts
  <2>2. Poke(st, x, b) = [st.mem EXCEPT ![x.pid][x.off] = b]
    BY <2>1 DEF Poke
  <2>3. /\ st.mem = [p \in Live |-> st.mem[p]]
        /\ \A p \in Live : st.mem[p] \in [Cells(proc[p].at) -> Byte]
    BY DEF MemShape
  <2> DEFINE m == Poke(st, x, b)
  <2>4. DOMAIN m = Live /\ m = [p \in Live |-> m[p]]
    BY <2>2, <2>3
  <2>5. \A p \in Live : m[p] = IF p = x.pid THEN [st.mem[p] EXCEPT ![x.off] = b] ELSE st.mem[p]
    BY <2>1, <2>2, <2>3
  <2>6. ASSUME NEW p \in Live PROVE m[p] \in [Cells(proc[p].at) -> Byte]
    <3>1. st.mem[p] \in [Cells(proc[p].at) -> Byte]
      BY <2>3
    <3>2. [st.mem[p] EXCEPT ![x.off] = b] \in [Cells(proc[p].at) -> Byte]
      BY <3>1
    <3> HIDE DEF m
    <3> QED
      BY <2>5, <3>1, <3>2
  <2>7. \A p \in Live : \A a \in Cells(proc[p].at) :
          m[p][a] = IF p = x.pid /\ a = x.off THEN b ELSE st.mem[p][a]
    BY <2>3, <2>5
  <2> HIDE DEF m
  <2> QED
    BY <1>2, <2>4, <2>6, <2>7 DEF m, MemShape
<1> QED
  BY <1>1, <1>2

(* RemovePatch: the patch that is reached at the offset is undone.         *)
LEMMA RemoveKeeps ==
  ASSUME WorkspaceSetups, World, NEW st, StateOK(st), NEW off
  PROVE  /\ StateOK(RemovePatch(st, off)) /\ Relabelled(st.ps, RemovePatch(st, off).ps)
         /\ \A i \in 1 .. Len(st.ps) :
              LET y == RemovePatch(st, off).ps[i] IN Reached(y) /\ y.off = off => ~y.written
<1> DEFINE ps == st.ps
           I  == {i \in SameOffset(ps, off) : Writes(ps[i])}
<1>0. /\ ListOK(ps) /\ MemOK(ps, st.mem) /\ ps \in Seq(Patch) /\ Len(ps) \in Nat
      /\ DOMAIN ps = 1 .. Len(ps) /\ MemShape(st.mem) /\ st = [ps |-> ps, mem |-> st.mem]
  BY DEF StateOK, ListOK, MemOK
<1>1. \A i \in 1 .. Len(ps) : ps[i] \in Patch /\ PatchFits(ps[i]) /\ PatchHere(ps[i])
  BY <1>0 DEF ListOK
<1>2. \A i \in 1 .. Len(ps) : Reached(ps[i]) /\ ps[i].off = off => i \in I
  BY <1>0, <1>1, ReachedFacts DEF SameOffset
<1>3. CASE I = {}
  <2>1. RemovePatch(st, off) = st
    BY <1>3 DEF RemovePatch
  <2>2. Relabelled(ps, ps)
    BY <1>0 DEF Relabelled, SameKeys
  <2> QED
    BY <1>2, <1>3, <2>1, <2>2
<1>4. CASE I # {}
  <2> DEFINE n  == First(I)
             x  == ps[n]
             y  == [x EXCEPT !.written = FALSE]
             qs == [ps EXCEPT ![n] = y]
             m  == Poke(st, x, x.org)
  <2>1. n \in 1 .. Len(ps) /\ x.off = off /\ Writes(x)
    <3>1. I \in SUBSET (1 .. Len(ps))
      BY <1>0 DEF SameOffset
    <3>2. n \in I
      BY <1>0, <1>4, <3>1, FirstIn
    <3> QED
      BY <1>0, <3>2 DEF SameOffset
  <2>2. RemovePatch(st, off) = [ps |-> qs, mem |-> m]
    BY <1>4 DEF RemovePatch
  <2>3. x \in Patch /\ PatchFits(x) /\ PatchHere(x) /\ Reached(x) /\ x.org = Org /\ x.org \in Byte
    BY <1>1, <2>1 DEF Writes, PatchFits, Patch
  <2>4. y \in Patch /\ SameKeys(x, y) /\ ~y.written
    BY <2>3 DEF Patch, SameKeys
  <2>5. /\ qs \in Seq(Patch) /\ Len(qs) = Len(ps)
        /\ \A i \in 1 .. Len(ps) : qs[i] = IF i = n THEN y ELSE ps[i]
    BY <1>0, <2>1, <2>4
  <2> HIDE DEF y, qs
  <2>6. Relabelled(ps, qs)
    BY <2>4, <2>5 DEF Relabelled, SameKeys
  <2>7. ListOK(qs)
    BY <1>0, <2>6, RelabelledOK
  <2>8. \A i \in 1 .. Len(ps) : Reached(ps[i]) /\ ps[i].off = off => i = n
    BY <1>0, <2>1, <2>3, AloneAtOffset
  <2>9. \A i \in 1 .. Len(ps) : Reached(qs[i]) /\ qs[i].off = off => ~qs[i].written
    BY <2>4, <2>5, <2>8 DEF SameKeys, Reached
  <2>10. /\ MemShape(m)
         /\ \A p \in Live : \A a \in Cells(proc[p].at) :
              m[p][a] = IF p = x.pid /\ a = x.off THEN Org ELSE st.mem[p][a]
    <3> HIDE DEF x
    <3>1. /\ MemShape(Poke(st, x, x.org))
          /\ \A p \in Live : \A a \in Cells(proc[p].at) :
               Poke(st, x, x.org)[p][a] =
                 IF Reached(x) /\ p = x.pid /\ a = x.off THEN x.org ELSE st.mem[p][a]
      BY <1>0, <2>3, PokeFacts
    <3> QED
      BY <2>3, <3>1
  <2> HIDE DEF m
  <2>11. ASSUME NEW p \in Live, NEW a \in Cells(proc[p].at) PROVE CellOK(qs, m, p, a)
    <3>1. CASE a = off
      <4>1. \A i \in 1 .. Len(qs) : ~Shown(qs[i], p, a)
        BY <2>5, <2>9, <3>1 DEF Shown
      <4>2. p # x.pid => \A i \in 1 .. Len(ps) : ~Shown(ps[i], p, a)
        BY <2>8, <3>1 DEF Shown
      <4>3. CellOK(ps, st.mem, p, a)
        BY <1>0 DEF MemOK
      <4>4. m[p][a] = Org
        BY <2>1, <2>10, <3>1, <4>2, <4>3 DEF CellOK
      <4> QED
        BY <4>1, <4>4 DEF CellOK
    <3>2. CASE a # off
      <4>1. \A i \in 1 .. Len(ps) : Shown(qs[i], p, a) <=> Shown(ps[i], p, a)
        BY <2>1, <2>4, <2>5, <3>2 DEF Shown, SameKeys, Reached
      <4>2. CellOK(ps, st.mem, p, a) /\ m[p][a] = st.mem[p][a]
        BY <1>0, <2>1, <2>10, <3>2 DEF MemOK
      <4>3. \A i \in 1 .. Len(ps) : qs[i].new = ps[i].new
        BY <2>6 DEF Relabelled, SameKeys
      <4> QED
        BY <2>5, <4>1, <4>2, <4>3 DEF CellOK
    <3> QED
      BY <3>1, <3>2
  <2>12. StateOK([ps |-> qs, mem |-> m])
    BY <2>7, <2>10, <2>11 DEF StateOK, MemOK
  <2> QED
    BY <2>2, <2>6, <2>9, <2>12
<1> QED
  BY <1>3, <1>4

(* Entries taken out of a list: k says where the others were.              *)
Sublist(L, K, k) ==
  /\ k \in [1 .. Len(K) -> 1 .. Len(L)]
  /\ \A i, j \in 1 .. Len(K) : k[i] = k[j] => i = j
  /\ \A i \in 1 .. Len(K) : K[i] = L[k[i]]

LEMMA SublistOK ==
  ASSUME NEW ps, NEW qs \in Seq(Patch), NEW k, Sublist(ps, qs, k)
  PROVE  /\ Distinct(ps) => Distinct(qs)
         /\ ListOK(ps) => ListOK(qs)
         /\ \A p : ServedList(ps, p) => ServedList(qs, p)
<1>0. /\ \A i \in 1 .. Len(qs) : k[i] \in 1 .. Len(ps) /\ qs[i] = ps[k[i]]
      /\ \A i, j \in 1 .. Len(qs) : k[i] = k[j] => i = j
  BY DEF Sublist
<1>1. ASSUME Distinct(ps) PROVE Distinct(qs)
  <2> SUFFICES ASSUME NEW i \in 1 .. Len(qs), NEW j \in 1 .. Len(qs), qs[i].name = qs[j].name,
                      qs[i].off - qs[i].base = qs[j].off - qs[j].base
               PROVE  i = j
    BY DEF Distinct
  <2>1. PICK a \in 1 .. Len(ps), b \in 1 .. Len(ps) : a = k[i] /\ b = k[j] /\ qs[i] = ps[a] /\ qs[j] = ps[b]
    BY <1>0
  <2>2. a = b
    BY <1>1, <2>1 DEF Distinct
  <2> QED
    BY <1>0, <2>1, <2>2
<1>2. ASSUME ListOK(ps) PROVE ListOK(qs)
  <2>1. Together(qs)
    BY <1>0, <1>2 DEF ListOK, Together
  <2> QED
    BY <1>0, <1>1, <1>2, <2>1 DEF ListOK
<1>3. \A p : ServedList(ps, p) => ServedList(qs, p)
  BY DEF Sublist, ServedList
<1> QED
  BY <1>1, <1>2, <1>3

LEMMA RemoveAtSublist ==
  ASSUME NEW E, NEW L \in Seq(E), NEW n \in 1 .. Len(L)
  PROVE  /\ RemoveAt(L, n) \in Seq(E)
         /\ \E k : /\ Sublist(L, RemoveAt(L, n), k)
                   /\ \A j \in 1 .. Len(L) : j # n => \E i \in 1 .. Len(RemoveAt(L, n)) : k[i] = j
<1> DEFINE K == RemoveAt(L, n)
           k == [j \in 1 .. Len(K) |-> IF j < n THEN j ELSE j + 1]
<1>1. /\ K \in Seq(E) /\ Len(K) = Len(L) - 1 /\ Len(L) \in Nat
      /\ \A j \in 1 .. Len(L) - 1 : K[j] = IF j < n THEN L[j] ELSE L[j + 1]
  BY RemoveAtProperties
<1> HIDE DEF K
<1>2. \A j \in 1 .. Len(K) : k[j] \in 1 .. Len(L)
  BY <1>1
<1>3. Sublist(L, K, k)
  BY <1>1, <1>2 DEF Sublist
<1>4. ASSUME NEW j \in 1 .. Len(L), j # n PROVE \E i \in 1 .. Len(K) : k[i] = j
  <2>1. CASE j < n
    BY <1>1, <2>1
  <2>2. CASE j > n
    <3>1. j - 1 \in 1 .. Len(K) /\ ~(j - 1 < n) /\ (j - 1) + 1 = j
      BY <1>1, <2>2
    <3> QED
      BY <3>1
  <2> QED
    BY <1>4, <2>1, <2>2
<1> HIDE DEF k
<1> QED
  BY <1>1, <1>3, <1>4 DEF K

(* DeletePatch, of a patch that is not in memory.                          *)
LEMMA DeleteKeeps ==
  ASSUME WorkspaceSetups, World, NEW st, StateOK(st), NEW off,
         \A i \in 1 .. Len(st.ps) : Reached(st.ps[i]) /\ st.ps[i].off = off => ~st.ps[i].written
  PROVE  /\ StateOK(DeletePatch(st, off))
         /\ \A p : ServedList(st.ps, p) => ServedList(DeletePatch(st, off).ps, p)
<1> DEFINE ps == st.ps
           n  == First(SameOffset(ps, off))
           qs == RemoveAt(ps, n)
<1>0. /\ ListOK(ps) /\ MemOK(ps, st.mem) /\ ps \in Seq(Patch) /\ Len(ps) \in Nat
      /\ DOMAIN ps = 1 .. Len(ps) /\ st = [ps |-> ps, mem |-> st.mem]
  BY DEF StateOK, ListOK
<1>1. CASE SameOffset(ps, off) = {}
  BY <1>1 DEF DeletePatch
<1>2. CASE SameOffset(ps, off) # {}
  <2>1. n \in 1 .. Len(ps) /\ ps[n].off = off
    <3>1. SameOffset(ps, off) \in SUBSET (1 .. Len(ps))
      BY <1>0 DEF SameOffset
    <3>2. n \in SameOffset(ps, off)
      BY <1>0, <1>2, <3>1, FirstIn
    <3> QED
      BY <1>0, <3>2 DEF SameOffset
  <2>2. DeletePatch(st, off) = [ps |-> qs, mem |-> st.mem]
    BY <1>0, <1>2 DEF DeletePatch
  <2> HIDE DEF n
  <2>3. qs \in Seq(Patch)
    BY <1>0, <2>1, RemoveAtSublist
  <2>4. PICK k : /\ Sublist(ps, qs, k)
                 /\ \A j \in 1 .. Len(ps) : j # n => \E i \in 1 .. Len(qs) : k[i] = j
    BY <1>0, <2>1, RemoveAtSublist
  <2> HIDE DEF qs
  <2>5. ListOK(qs) /\ \A p : ServedList(ps, p) => ServedList(qs, p)
    BY <1>0, <2>3, <2>4, SublistOK
  <2>6. \A p, a : ~Shown(ps[n], p, a)
    BY <2>1 DEF Shown
  <2>7. ASSUME NEW p \in Live, NEW a \in Cells(proc[p].at) PROVE CellOK(qs, st.mem, p, a)
    <3>1. CellOK(ps, st.mem, p, a)
      BY <1>0 DEF MemOK
    <3>2. \A i \in 1 .. Len(qs) : k[i] \in 1 .. Len(ps) /\ qs[i] = ps[k[i]]
      BY <2>4 DEF Sublist
    <3>3. ASSUME NEW i \in 1 .. Len(qs), Shown(qs[i], p, a) PROVE st.mem[p][a] = qs[i].new
      <4>1. PICK j \in 1 .. Len(ps) : qs[i] = ps[j]
        BY <3>2
      <4> QED
        BY <3>1, <3>3, <4>1 DEF CellOK
    <3>4. ASSUME \A i \in 1 .. Len(qs) : ~Shown(qs[i], p, a) PROVE st.mem[p][a] = Org
      <4>1. \A j \in 1 .. Len(ps) : ~Shown(ps[j], p, a)
        BY <2>4, <2>6, <3>2, <3>4
      <4> QED
        BY <3>1, <4>1 DEF CellOK
    <3> QED
      BY <3>3, <3>4 DEF CellOK
  <2> QED
    BY <1>0, <2>2, <2>5, <2>7 DEF StateOK, MemOK
<1> QED
  BY <1>1, <1>2

(* AddNewPatch with reWrite: what is under the patch is the program.       *)
LEMMA RewriteKeeps ==
  ASSUME WorkspaceSetups, World, NEW st, StateOK(st), NEW off,
         \E i \in SameOffset(st.ps, off) : ~st.ps[i].written
  PROVE  /\ StateOK(Rewritten(st, off)) /\ Relabelled(st.ps, Rewritten(st, off).ps)
<1> DEFINE ps == st.ps
           n  == First(SameOffset(ps, off))
           x  == ps[n]
           o  == IF Writes(x) THEN st.mem[x.pid][x.off] ELSE x.org
           y  == [x EXCEPT !.written = TRUE, !.org = o]
           qs == [ps EXCEPT ![n] = y]
           m  == Poke(st, x, x.new)
<1>0. /\ ListOK(ps) /\ MemOK(ps, st.mem) /\ ps \in Seq(Patch) /\ Len(ps) \in Nat
      /\ DOMAIN ps = 1 .. Len(ps) /\ MemShape(st.mem)
  BY DEF StateOK, ListOK, MemOK
<1>1. n \in 1 .. Len(ps) /\ x.off = off
  <2>1. SameOffset(ps, off) \in SUBSET (1 .. Len(ps))
    BY <1>0 DEF SameOffset
  <2>2. n \in SameOffset(ps, off)
    BY <1>0, <2>1, FirstIn
  <2> QED
    BY <1>0, <2>2 DEF SameOffset
<1>2. x \in Patch /\ PatchFits(x) /\ PatchHere(x) /\ x.org = Org /\ x.new \in Byte
  <2> HIDE DEF n
  <2>1. x \in Patch /\ PatchFits(x) /\ PatchHere(x)
    BY <1>0, <1>1 DEF ListOK
  <2> QED
    BY <2>1 DEF PatchFits, Patch
<1>3. Rewritten(st, off) = [ps |-> qs, mem |-> m]
  <2>1. qs = [ps EXCEPT ![n].written = TRUE,
                        ![n].org = IF Writes(x) THEN st.mem[x.pid][x.off] ELSE @]
    BY <1>0, <1>1, <1>2 DEF Patch
  <2> QED
    BY <2>1 DEF Rewritten
<1> HIDE DEF n
<1>4. Reached(x) => /\ \A j \in 1 .. Len(ps) : ps[j].off = off => j = n
                    /\ ~x.written
  <2>1. Reached(x) => \A j \in 1 .. Len(ps) : ps[j].off = off => j = n
    BY <1>0, <1>1, AloneAtOffset
  <2> QED
    BY <1>0, <2>1 DEF SameOffset
<1>5. o = Org
  <2>1. CASE ~Writes(x)
    BY <1>2, <2>1
  <2>2. CASE Writes(x)
    <3>1. Reached(x) /\ x.pid \in Live /\ x.off \in Cells(proc[x.pid].at)
      BY <1>2, <2>2, ReachedFacts DEF Writes
    <3>2. \A j \in 1 .. Len(ps) : ~Shown(ps[j], x.pid, x.off)
      BY <1>1, <1>4, <3>1 DEF Shown
    <3>3. CellOK(ps, st.mem, x.pid, x.off)
      BY <1>0, <3>1 DEF MemOK
    <3> QED
      BY <2>2, <3>2, <3>3 DEF CellOK
  <2> QED
    BY <2>1, <2>2
<1> HIDE DEF o
<1>6. y \in Patch /\ SameKeys(x, y) /\ y.written /\ y.new = x.new
  BY <1>2, <1>5 DEF Patch, SameKeys
<1>7. /\ qs \in Seq(Patch) /\ Len(qs) = Len(ps)
      /\ \A i \in 1 .. Len(ps) : qs[i] = IF i = n THEN y ELSE ps[i]
  BY <1>0, <1>1, <1>6
<1> HIDE DEF y, qs
<1>8. Relabelled(ps, qs)
  BY <1>6, <1>7 DEF Relabelled, SameKeys
<1>9. ListOK(qs)
  BY <1>0, <1>8, RelabelledOK
<1>10. /\ MemShape(m)
       /\ \A p \in Live : \A a \in Cells(proc[p].at) :
            m[p][a] = IF Reached(x) /\ p = x.pid /\ a = x.off THEN x.new ELSE st.mem[p][a]
  <2> HIDE DEF x
  <2> QED BY <1>0, <1>2, PokeFacts
<1> HIDE DEF m
<1>11. ASSUME NEW p \in Live, NEW a \in Cells(proc[p].at) PROVE CellOK(qs, m, p, a)
  <2>1. CellOK(ps, st.mem, p, a)
    BY <1>0 DEF MemOK
  <2>2. CASE Reached(x) /\ p = x.pid /\ a = off
    <3>1. \A i \in 1 .. Len(qs) : Shown(qs[i], p, a) => i = n
      BY <1>4, <1>7, <2>2 DEF Shown
    <3>2. Shown(qs[n], p, a) /\ qs[n].new = x.new /\ m[p][a] = x.new
      BY <1>1, <1>6, <1>7, <1>10, <2>2 DEF Shown, SameKeys, Reached
    <3> QED
      BY <1>1, <1>7, <3>1, <3>2 DEF CellOK
  <2>3. CASE ~(Reached(x) /\ p = x.pid /\ a = off)
    <3>1. \A i \in 1 .. Len(ps) : (Shown(qs[i], p, a) <=> Shown(ps[i], p, a)) /\ qs[i].new = ps[i].new
      BY <1>1, <1>6, <1>7, <2>3 DEF Shown, SameKeys, Reached
    <3>2. m[p][a] = st.mem[p][a]
      BY <1>1, <1>10, <2>3
    <3> QED
      BY <1>7, <2>1, <3>1, <3>2 DEF CellOK
  <2> QED
    BY <2>2, <2>3
<1> QED
  BY <1>3, <1>8, <1>9, <1>10, <1>11 DEF StateOK, MemOK

(* The file a process is known by.                                         *)
LEMMA FileNameFacts ==
  ASSUME WorkspaceSetups, World, Family, NEW p \in PIDs
  PROVE  /\ p \in Live => getFilenameFromPID(p) = proc[p].file
         /\ p \notin Live => \A q \in Live : getFilenameFromPID(p) # proc[q].file
<1>1. CASE \E f \in DOMAIN pe : pe[f] = p
  <2>1. getFilenameFromPID(p) \in DOMAIN pe /\ pe[getFilenameFromPID(p)] = p
    BY <1>1 DEF getFilenameFromPID
  <2> QED
    BY <2>1 DEF Family
<1>2. CASE ~\E f \in DOMAIN pe : pe[f] = p
  <2>1. getFilenameFromPID(p) = NoFile
    BY <1>2 DEF getFilenameFromPID
  <2>2. p \notin Live
    BY <1>2 DEF Family
  <2>3. \A q \in Live : proc[q].file # NoFile
    BY ProcessFacts, SetupFacts DEF World
  <2> QED
    BY <2>1, <2>2, <2>3
<1> QED
  BY <1>1, <1>2

(* One entry that goes to a process of its file.                           *)
LEMMA RebasedFacts ==
  ASSUME WorkspaceSetups, World, NEW x \in Patch, PatchFits(x), NEW p \in PIDs,
         p \in Live => x.pmod = proc[p].file
  PROVE  LET z == Rebased(x, p, session) IN
         /\ z \in Patch /\ PatchFits(z) /\ PatchHere(z)
         /\ z.name = x.name /\ z.pmod = x.pmod /\ z.new = x.new /\ z.pid = p /\ z.h = session
         /\ z.off - z.base = x.off - x.base
         /\ (Reached(z) <=> p \in Live) /\ (Writes(z) <=> p \in Live) /\ (z.written <=> p \in Live)
         /\ p \in Live => z.base = proc[p].at[x.name] /\ x.name \in DOMAIN proc[p].at
<1> DEFINE b == CalcOffsetForModule(x.name, 0, p).base
           y == [x EXCEPT !.off = (@ - x.base) + b, !.base = b, !.pid = p, !.h = session]
           z == [y EXCEPT !.written = Writes(y)]
<1>1. Rebased(x, p, session) = z
  BY DEF Rebased
<1>2. /\ x.name \in File /\ x.base \in Nat /\ x.off \in Int /\ x.off - x.base \in Rva
      /\ x.off - x.base \in Nat /\ x.name \in {x.pmod} \cup Libs /\ NoFile \notin File
      /\ p \in Pid /\ session \in Nat
  BY FitFacts, SetupFacts DEF PatchFits, World
<1>3. /\ b \in Nat /\ b \in Bases[x.name] \cup {0}
      /\ p \in Live => b = proc[p].at[x.name] /\ x.name \in DOMAIN proc[p].at
  <2>1. CASE p \notin Live
    BY <2>1 DEF CalcOffsetForModule
  <2>2. CASE p \in Live
    <3>1. /\ DOMAIN proc[p].at = {proc[p].file} \cup Libs
          /\ \A m \in DOMAIN proc[p].at : proc[p].at[m] \in Bases[m] /\ proc[p].at[m] \in Nat
      BY <2>2, ProcessFacts
    <3>2. x.name \in DOMAIN proc[p].at
      BY <1>2, <2>2, <3>1
    <3>3. b = proc[p].at[x.name]
      BY <1>2, <2>2, <3>2 DEF CalcOffsetForModule
    <3> QED
      BY <3>1, <3>2, <3>3
  <2> QED
    BY <2>1, <2>2
<1> HIDE DEF b
<1>4. (x.off - x.base) + b \in Int /\ ((x.off - x.base) + b) - b = x.off - x.base
  BY <1>2, <1>3
<1>5. /\ y \in Patch /\ y.name = x.name /\ y.pmod = x.pmod /\ y.new = x.new /\ y.org = x.org
      /\ y.pid = p /\ y.h = session /\ y.base = b /\ y.off = (x.off - x.base) + b
  BY <1>2, <1>3, <1>4 DEF Patch
<1> HIDE DEF y
<1>6. Writes(y) \in BOOLEAN
  BY DEF Writes
<1>7. /\ z \in Patch /\ z.name = x.name /\ z.pmod = x.pmod /\ z.new = x.new /\ z.org = x.org
      /\ z.pid = p /\ z.h = session /\ z.base = b /\ z.off = (x.off - x.base) + b
      /\ z.written = Writes(y)
  BY <1>5, <1>6 DEF Patch
<1> HIDE DEF z
<1>8. PatchFits(z)
  BY <1>2, <1>3, <1>4, <1>7 DEF PatchFits
<1>9. Reached(z) <=> p \in Live
  BY <1>7 DEF Reached
<1>10. PatchHere(z)
  BY <1>2, <1>3, <1>7, <1>9 DEF PatchHere
<1>11. Writes(z) <=> p \in Live
  BY <1>7, <1>8, <1>9, <1>10, ReachedFacts DEF Writes
<1>12. Writes(z) <=> Writes(y)
  BY <1>5, <1>7 DEF Writes, Reached
<1> QED
  BY <1>1, <1>3, <1>4, <1>7, <1>8, <1>9, <1>10, <1>11, <1>12

(* UpdateOffsetPatch: whatever the process runs is where it belongs, and   *)
(* nothing else moves.                                                     *)
LEMMA UpdateKeeps ==
  ASSUME WorkspaceSetups, World, Family, NEW st, StateOK(st), NEW p \in PIDs
  PROVE  LET qs == UpdateOffsetPatch(st, p, session).ps IN
         /\ StateOK(UpdateOffsetPatch(st, p, session))
         /\ p \in Live => ServedList(qs, p)
         /\ \A q \in Live : q # p /\ ServedList(st.ps, q) => ServedList(qs, q)
         /\ Len(qs) = Len(st.ps)
         /\ p \in Live => \A i \in 1 .. Len(st.ps) : st.ps[i].pmod = proc[p].file =>
              /\ Shown(qs[i], p, qs[i].off) /\ qs[i].new = st.ps[i].new
              /\ qs[i].off = proc[p].at[st.ps[i].name] + (st.ps[i].off - st.ps[i].base)
              /\ qs[i].off \in Cells(proc[p].at)
<1> DEFINE ps == st.ps
           fn == getFilenameFromPID(p)
           O  == OfFile(ps, p)
           qs == [i \in DOMAIN ps |-> IF i \in O THEN Rebased(ps[i], p, session) ELSE ps[i]]
           W  == {i \in O : Writes(qs[i])}
           m  == Pokes(st.mem, qs, W, LAMBDA x : x.new)
<1>0. /\ ListOK(ps) /\ MemOK(ps, st.mem) /\ ps \in Seq(Patch) /\ Len(ps) \in Nat
      /\ DOMAIN ps = 1 .. Len(ps) /\ MemShape(st.mem)
  BY DEF StateOK, ListOK, MemOK
<1>1. UpdateOffsetPatch(st, p, session) = [ps |-> qs, mem |-> m]
  BY DEF UpdateOffsetPatch, RebasedThose
<1>2. \A i \in 1 .. Len(ps) : ps[i] \in Patch /\ PatchFits(ps[i]) /\ PatchHere(ps[i])
  BY <1>0 DEF ListOK
<1>3. O \subseteq 1 .. Len(ps) /\ \A i \in 1 .. Len(ps) : i \in O <=> ps[i].pmod = fn
  <2>1. \A i \in 1 .. Len(ps) : ps[i].pmod # NoFile
    BY <1>2, FitFacts
  <2> HIDE DEF ps, fn
  <2> QED
    BY <1>0, <2>1 DEF OfFile, NameContains, fn
<1>4. /\ p \in Live => fn = proc[p].file
      /\ p \notin Live => \A q \in Live : fn # proc[q].file
  BY FileNameFacts
<1>5. \A q \in Live : q # p => fn # proc[q].file
  BY <1>4 DEF Family
<1> HIDE DEF O, fn
<1>6. \A i \in O :
        LET z == Rebased(ps[i], p, session) IN
        /\ z \in Patch /\ PatchFits(z) /\ PatchHere(z)
        /\ z.name = ps[i].name /\ z.pmod = ps[i].pmod /\ z.new = ps[i].new
        /\ z.pid = p /\ z.h = session /\ z.off - z.base = ps[i].off - ps[i].base
        /\ (Reached(z) <=> p \in Live) /\ (Writes(z) <=> p \in Live) /\ (z.written <=> p \in Live)
        /\ p \in Live => z.base = proc[p].at[ps[i].name] /\ ps[i].name \in DOMAIN proc[p].at
  BY <1>2, <1>3, <1>4, RebasedFacts
<1>7. /\ Len(qs) = Len(ps)
      /\ \A i \in 1 .. Len(ps) : qs[i] = IF i \in O THEN Rebased(ps[i], p, session) ELSE ps[i]
      /\ qs \in Seq(Patch)
  <2>1. \A i \in 1 .. Len(ps) : qs[i] = IF i \in O THEN Rebased(ps[i], p, session) ELSE ps[i]
    BY <1>0
  <2>2. qs = [i \in 1 .. Len(ps) |-> qs[i]] /\ \A i \in 1 .. Len(ps) : qs[i] \in Patch
    BY <1>0, <1>2, <1>6, <2>1
  <2> HIDE DEF qs
  <2>3. qs \in [1 .. Len(ps) -> Patch]
    BY <2>2
  <2> QED
    BY <1>0, <2>1, <2>3
<1> HIDE DEF qs
<1>8. \A i \in 1 .. Len(ps) :
        /\ qs[i] \in Patch /\ PatchFits(qs[i]) /\ PatchHere(qs[i]) /\ qs[i].new = ps[i].new
        /\ qs[i].name = ps[i].name /\ qs[i].off - qs[i].base = ps[i].off - ps[i].base
        /\ qs[i].pmod = ps[i].pmod
  BY <1>2, <1>6, <1>7
<1>9. ListOK(qs)
  <2>1. Distinct(qs)
    BY <1>0, <1>7, <1>8 DEF ListOK, Distinct
  <2>2. Together(qs)
    <3>1. \A i \in 1 .. Len(ps) : i \notin O => qs[i] = ps[i]
      BY <1>7
    <3>2. \A i \in O : qs[i].pid = p /\ qs[i].h = session
      BY <1>3, <1>6, <1>7
    <3>3. \A i \in 1 .. Len(ps) : i \in O <=> qs[i].pmod = fn
      BY <1>3, <1>8
    <3> QED
      BY <1>0, <1>7, <3>1, <3>2, <3>3 DEF ListOK, Together
  <2> QED
    BY <1>7, <1>8, <2>1, <2>2 DEF ListOK
<1>10. /\ \A i \in 1 .. Len(ps) : i \notin O => ~(p \in Live /\ Reached(ps[i]) /\ ps[i].pid = p)
       /\ \A i \in O : \A q \in Live : q # p => ~(Reached(ps[i]) /\ ps[i].pid = q)
  BY <1>2, <1>3, <1>4, <1>5 DEF PatchHere
<1>11. W \in SUBSET (1 .. Len(qs))
  BY <1>3, <1>7
<1>12. ASSUME NEW q \in Live, NEW a \in Cells(proc[q].at)
       PROVE  CellOK(qs, m, q, a) /\ m[q][a] \in Byte
  <2> DEFINE J == {i \in W : qs[i].pid = q /\ qs[i].off = a}
  <2>1. m[q][a] = IF J = {} THEN st.mem[q][a] ELSE qs[Max(J)].new
    <3>1. DOMAIN st.mem = Live /\ DOMAIN st.mem[q] = Cells(proc[q].at)
      BY <1>0 DEF MemShape
    <3> QED
      BY <3>1 DEF Pokes
  <2>2. CellOK(ps, st.mem, q, a) /\ st.mem[q][a] \in Byte
    BY <1>0 DEF MemOK, MemShape
  <2>3. CASE q # p
    <3>1. J = {}
      BY <1>6, <1>7, <1>3, <2>3
    <3>2. \A i \in 1 .. Len(ps) : Shown(qs[i], q, a) <=> Shown(ps[i], q, a)
      BY <1>6, <1>7, <1>10, <2>3 DEF Shown
    <3> HIDE DEF m, J
    <3> QED
      BY <1>7, <1>8, <2>1, <2>2, <3>1, <3>2 DEF CellOK
  <2>4. CASE q = p /\ J = {}
    <3>1. \A i \in 1 .. Len(ps) : ~Shown(qs[i], p, a)
      BY <1>6, <1>7, <1>10, <2>4 DEF Shown
    <3>2. ASSUME NEW i \in 1 .. Len(ps), Shown(ps[i], p, a) PROVE FALSE
      <4>1. i \in O /\ Reached(ps[i]) /\ ps[i].off = a
        BY <1>10, <2>4, <3>2 DEF Shown
      <4>2. ps[i].base = proc[p].at[ps[i].name]
        BY <1>2, <3>2, <4>1 DEF PatchHere, Shown
      <4>3. qs[i].base = ps[i].base /\ qs[i].pid = p /\ Writes(qs[i])
        BY <1>6, <1>7, <2>4, <4>1, <4>2
      <4>4. qs[i].off = ps[i].off
        <5>1. PICK x, y : x = ps[i] /\ y = qs[i]
          OBVIOUS
        <5>2. /\ x \in Patch /\ PatchFits(x) /\ y \in Patch /\ PatchFits(y)
              /\ y.off - y.base = x.off - x.base /\ y.base = x.base
          BY <1>2, <1>8, <4>3, <5>1
        <5>3. x.off = x.base + (x.off - x.base) /\ y.off = y.base + (y.off - y.base)
          BY <5>2, FitFacts
        <5> QED
          BY <5>1, <5>2, <5>3
      <4>5. i \in J
        BY <2>4, <4>1, <4>3, <4>4
      <4> QED
        BY <2>4, <4>5
    <3> HIDE DEF m, J
    <3>3. m[q][a] = Org /\ m[q][a] \in Byte
      BY <2>1, <2>2, <2>4, <3>2 DEF CellOK
    <3> QED
      BY <1>7, <2>4, <3>1, <3>3 DEF CellOK
  <2>5. CASE q = p /\ J # {}
    <3>1. PICK n \in J : TRUE
      BY <2>5
    <3>2. n \in 1 .. Len(qs) /\ n \in O /\ qs[n].off = a /\ Reached(qs[n]) /\ qs[n].pid = p /\ qs[n].written
      BY <1>3, <1>6, <1>7, <2>5, <3>1
    <3>3. \A i \in 1 .. Len(qs) : qs[i].off = a => i = n
      BY <1>9, <3>2, AloneAtOffset
    <3>4. \A i \in J : i = n
      BY <1>11, <3>3
    <3>5. Max(J) = n
      <4>1. \A y \in J : n >= y
        BY <3>2, <3>4
      <4> QED
        BY <3>1, <3>4, <4>1 DEF Max
    <3> HIDE DEF m, J
    <3>6. m[q][a] = qs[n].new /\ qs[n].new \in Byte
      BY <1>7, <1>8, <2>1, <2>5, <3>2, <3>5 DEF Patch
    <3>7. Shown(qs[n], q, a)
      BY <2>5, <3>2 DEF Shown
    <3>8. \A i \in 1 .. Len(qs) : Shown(qs[i], q, a) => i = n
      BY <3>3 DEF Shown
    <3> QED
      BY <3>2, <3>6, <3>7, <3>8 DEF CellOK
  <2> QED
    BY <2>3, <2>4, <2>5
<1>13. MemShape(m)
  <2>1. DOMAIN st.mem = Live /\ \A q \in Live : DOMAIN st.mem[q] = Cells(proc[q].at)
    BY <1>0 DEF MemShape
  <2>2. m = [q \in Live |-> m[q]]
    BY <2>1 DEF Pokes
  <2>3. \A q \in Live : m[q] = [a \in Cells(proc[q].at) |-> m[q][a]]
    BY <2>1 DEF Pokes
  <2> HIDE DEF m
  <2>4. \A q \in Live : m[q] \in [Cells(proc[q].at) -> Byte]
    BY <1>12, <2>3
  <2> QED
    BY <2>2, <2>4 DEF MemShape
<1> HIDE DEF m
<1>14. StateOK([ps |-> qs, mem |-> m])
  BY <1>9, <1>12, <1>13 DEF StateOK, MemOK
<1>15. p \in Live => ServedList(qs, p)
  BY <1>3, <1>4, <1>6, <1>7, <1>8 DEF ServedList
<1>16. \A q \in Live : q # p /\ ServedList(ps, q) => ServedList(qs, q)
  BY <1>3, <1>5, <1>7, <1>8 DEF ServedList
<1>17. ASSUME p \in Live, NEW i \in 1 .. Len(ps), ps[i].pmod = proc[p].file
       PROVE  /\ Shown(qs[i], p, qs[i].off) /\ qs[i].new = ps[i].new
              /\ qs[i].off = proc[p].at[ps[i].name] + (ps[i].off - ps[i].base)
              /\ qs[i].off \in Cells(proc[p].at)
  <2>1. i \in O
    BY <1>3, <1>4, <1>17
  <2>2. /\ Reached(qs[i]) /\ qs[i].pid = p /\ qs[i].written /\ qs[i].base = proc[p].at[ps[i].name]
        /\ qs[i] \in Patch /\ PatchFits(qs[i]) /\ PatchHere(qs[i])
    BY <1>6, <1>7, <1>8, <1>17, <2>1
  <2>3. qs[i].off = qs[i].base + (qs[i].off - qs[i].base)
    BY <2>2, FitFacts
  <2>4. qs[i].off \in Cells(proc[p].at)
    BY <2>2, ReachedFacts
  <2> QED
    BY <1>8, <2>2, <2>3, <2>4 DEF Shown
<1> QED
  BY <1>1, <1>7, <1>14, <1>15, <1>16, <1>17

(* ClearAllPatches: the program is what it was.                            *)
LEMMA ClearKeeps ==
  ASSUME WorkspaceSetups, World, StateOK(State)
  PROVE  StateOK(ClearAllPatches)
<1> DEFINE ps == patches
           mm == State.mem
           W  == {i \in DOMAIN ps : Writes(ps[i])}
           I  == {i \in W : \A j \in W : ps[j].off = ps[i].off => i <= j}
           m  == Pokes(mm, ps, I, LAMBDA x : x.org)
<1>0. /\ ListOK(ps) /\ MemOK(ps, mm) /\ ps \in Seq(Patch) /\ Len(ps) \in Nat
      /\ DOMAIN ps = 1 .. Len(ps) /\ MemShape(mm)
  BY DEF StateOK, ListOK, MemOK, State
<1>1. ClearAllPatches = [ps |-> <<>>, mem |-> m]
  BY DEF ClearAllPatches
<1>2. \A i \in 1 .. Len(ps) : ps[i] \in Patch /\ PatchFits(ps[i]) /\ PatchHere(ps[i]) /\ ps[i].org = Org
  BY <1>0 DEF ListOK, PatchFits
<1>3. DOMAIN mm = Live /\ \A q \in Live : DOMAIN mm[q] = Cells(proc[q].at)
  BY <1>0 DEF MemShape
<1>4. ASSUME NEW q \in Live, NEW a \in Cells(proc[q].at) PROVE m[q][a] = Org
  <2> DEFINE J == {i \in I : ps[i].pid = q /\ ps[i].off = a}
  <2>1. m[q][a] = IF J = {} THEN mm[q][a] ELSE ps[Max(J)].org
    <3> HIDE DEF mm, I
    <3> QED
      BY <1>3 DEF Pokes
  <2>2. CASE J = {}
    <3>1. ASSUME NEW i \in 1 .. Len(ps), Shown(ps[i], q, a) PROVE FALSE
      <4>1. Reached(ps[i]) /\ i \in W
        BY <1>0, <1>2, <3>1, ReachedFacts DEF Shown
      <4>2. \A j \in 1 .. Len(ps) : ps[j].off = ps[i].off => i = j
        BY <1>0, <4>1, AloneAtOffset
      <4>3. i \in I
        BY <1>0, <4>1, <4>2
      <4> QED
        BY <2>2, <3>1, <4>3 DEF Shown
    <3>2. CellOK(ps, mm, q, a)
      BY <1>0 DEF MemOK
    <3> HIDE DEF mm, m, J
    <3> QED
      BY <2>1, <2>2, <3>1, <3>2 DEF CellOK
  <2>3. CASE J # {}
    <3>1. PICK n \in J : TRUE
      BY <2>3
    <3>2. n \in 1 .. Len(ps) /\ Reached(ps[n]) /\ ps[n].off = a
      BY <1>0, <3>1 DEF Writes
    <3>3. \A i \in J : i = n
      BY <1>0, <3>2, AloneAtOffset
    <3>4. Max(J) = n
      <4>1. \A y \in J : n >= y
        BY <3>2, <3>3
      <4> QED
        BY <3>1, <3>3, <4>1 DEF Max
    <3> HIDE DEF m, J, mm
    <3> QED
      BY <1>2, <2>1, <2>3, <3>2, <3>4
  <2> QED
    BY <2>2, <2>3
<1>5. MemShape(m)
  <2>1. m = [q \in Live |-> m[q]]
    <3> HIDE DEF mm, I
    <3> QED BY <1>3 DEF Pokes
  <2>2. \A q \in Live : m[q] = [a \in Cells(proc[q].at) |-> m[q][a]]
    <3> HIDE DEF mm, I
    <3> QED BY <1>3 DEF Pokes
  <2>3. Org \in Byte
    BY SetupFacts DEF World
  <2> HIDE DEF m
  <2>4. \A q \in Live : m[q] \in [Cells(proc[q].at) -> Byte]
    BY <1>4, <2>2, <2>3
  <2> QED
    BY <2>1, <2>4 DEF MemShape
<1> HIDE DEF m
<1>6. ListOK(<<>>) /\ \A q \in Live : \A a \in Cells(proc[q].at) : CellOK(<<>>, m, q, a)
  BY <1>4 DEF ListOK, Distinct, Together, CellOK
<1> QED
  BY <1>1, <1>5, <1>6 DEF StateOK, MemOK

(* AddNewPatch.  The bytes under it are the program's, and it is not where *)
(* a patch of the same cell is, or that one would be found at its offset.  *)
LEMMA AddKeeps ==
  ASSUME WorkspaceSetups, World, Family, StateOK(State), NEW p \in Live,
         NEW off \in DOMAIN proc[p].mem, NEW b \in Byte,
         SameOffset(patches, off) = {}, ServedList(patches, p)
  PROVE  LET st == Added(NewPatch(p, off, b)) IN
         StateOK(st) /\ \A q \in Live : ServedList(patches, q) => ServedList(st.ps, q)
<1> DEFINE x  == NewPatch(p, off, b)
           mm == State.mem
           qs == Append(patches, x)
           m  == Poke(State, x, x.new)
           n  == Len(patches)
<1>0. /\ ListOK(patches) /\ MemOK(patches, mm) /\ patches \in Seq(Patch) /\ n \in Nat
      /\ DOMAIN patches = 1 .. n /\ MemShape(mm)
  BY DEF StateOK, ListOK, MemOK, State
<1>1. /\ DOMAIN proc[p].mem = Cells(proc[p].at) /\ proc[p].file \in File /\ p \in Pid /\ p \in PIDs
      /\ DOMAIN proc[p].at = {proc[p].file} \cup Libs /\ proc[p].file \in ProcessFiles
      /\ \A k \in DOMAIN proc[p].at : k \in File /\ proc[p].at[k] \in Bases[k] /\ proc[p].at[k] \in Nat
  BY ProcessFacts
<1>2. off \in Nat /\ ModuleAt(p, off) # {}
  <2>1. off \in Cells(proc[p].at)
    BY <1>1
  <2> QED
    BY <2>1, CellFacts DEF ModuleAt
<1>3. PICK k \in ModuleAt(p, off) : CalcOffsetForModule(NoFile, off, p) = [name |-> k, base |-> proc[p].at[k]]
  BY <1>2 DEF CalcOffsetForModule
<1>4. k \in DOMAIN proc[p].at /\ off - proc[p].at[k] \in Rva
  BY <1>3 DEF ModuleAt
<1>5. mm[p] = proc[p].mem /\ CellOK(patches, mm, p, off) /\ mm[p][off] \in Byte
  BY <1>0, <1>1 DEF State, MemOK, MemShape
<1>6. mm[p][off] = Org
  <2>1. \A i \in 1 .. n : patches[i].off # off
    BY <1>0 DEF SameOffset
  <2> HIDE DEF mm
  <2> QED
    BY <1>5, <2>1 DEF CellOK, Shown
<1>7. getFilenameFromPID(p) = proc[p].file
  BY <1>1, FileNameFacts
<1>8. /\ x = [pid |-> p, h |-> session, off |-> off, base |-> proc[p].at[k], name |-> k,
             pmod |-> proc[p].file, new |-> b, org |-> proc[p].mem[off],
             written |-> TRUE, saved |-> FALSE]
  BY <1>3, <1>7 DEF NewPatch
<1>9. session \in Nat /\ p # NoPid
  BY <1>1, SetupFacts DEF World
<1>10. /\ x \in Patch /\ x.pid = p /\ x.h = session /\ x.off = off /\ x.name = k /\ x.new = b
       /\ x.base = proc[p].at[k] /\ x.pmod = proc[p].file /\ x.org = Org /\ x.written
  BY <1>1, <1>2, <1>4, <1>5, <1>6, <1>8, <1>9 DEF Patch
<1> HIDE DEF x
<1>11. PatchFits(x) /\ PatchHere(x) /\ Reached(x)
  BY <1>1, <1>4, <1>9, <1>10 DEF PatchFits, PatchHere, Reached
<1>12. /\ qs \in Seq(Patch) /\ Len(qs) = n + 1
       /\ \A i \in 1 .. n + 1 : qs[i] = IF i = n + 1 THEN x ELSE patches[i]
  BY <1>0, <1>10, AppendProperties
<1> HIDE DEF qs
<1>13. ASSUME NEW i \in 1 .. n, patches[i].name = x.name,
              patches[i].off - patches[i].base = x.off - x.base
       PROVE  FALSE
  <2>1. patches[i] \in Patch /\ PatchFits(patches[i]) /\ PatchHere(patches[i])
    BY <1>0 DEF ListOK
  <2>2. patches[i].pmod = proc[p].file
    BY <1>10, <1>11, <1>13, <2>1, SameModuleSameProcess
  <2>3. Reached(patches[i]) /\ patches[i].pid = p
    BY <2>2 DEF ServedList, Reached
  <2>4. patches[i].base = x.base
    BY <1>10, <1>13, <2>1, <2>3 DEF PatchHere
  <2>5. patches[i].off = x.off
    BY <1>10, <1>11, <1>13, <2>1, <2>4, FitFacts
  <2> QED
    BY <1>0, <1>10, <2>5 DEF SameOffset
<1>14. ListOK(qs)
  <2>1. Distinct(qs)
    BY <1>0, <1>12, <1>13 DEF ListOK, Distinct
  <2>2. \A i \in 1 .. Len(qs) : PatchFits(qs[i]) /\ PatchHere(qs[i])
    BY <1>0, <1>11, <1>12 DEF ListOK
  <2>3. Together(qs)
    <3>1. \A i \in 1 .. n : patches[i].pmod = x.pmod => patches[i].pid = x.pid /\ patches[i].h = session
      BY <1>10 DEF ServedList
    <3> QED
      BY <1>0, <1>10, <1>12, <3>1 DEF ListOK, Together
  <2> QED
    BY <1>12, <2>1, <2>2, <2>3 DEF ListOK
<1>15. /\ MemShape(m)
       /\ \A q \in Live : \A a \in Cells(proc[q].at) :
            m[q][a] = IF q = p /\ a = off THEN b ELSE mm[q][a]
  <2>1. /\ MemShape(m)
        /\ \A q \in Live : \A a \in Cells(proc[q].at) :
             m[q][a] = IF Reached(x) /\ q = x.pid /\ a = x.off THEN x.new ELSE State.mem[q][a]
    BY <1>0, <1>10, <1>11, PokeFacts
  <2> HIDE DEF m
  <2> QED
    BY <1>10, <1>11, <2>1
<1> HIDE DEF m
<1>16. ASSUME NEW q \in Live, NEW a \in Cells(proc[q].at) PROVE CellOK(qs, m, q, a)
  <2>1. CellOK(patches, mm, q, a)
    BY <1>0 DEF MemOK
  <2>2. CASE q = p /\ a = off
    <3>1. \A i \in 1 .. n : ~Shown(qs[i], q, a)
      BY <1>0, <1>12, <2>2 DEF SameOffset, Shown
    <3>2. Shown(qs[n + 1], q, a) /\ qs[n + 1].new = b /\ n + 1 \in 1 .. Len(qs)
      BY <1>0, <1>10, <1>11, <1>12, <2>2 DEF Shown
    <3>3. \A i \in 1 .. Len(qs) : i \in 1 .. n \/ i = n + 1
      BY <1>0, <1>12
    <3> QED
      BY <1>15, <2>2, <3>1, <3>2, <3>3 DEF CellOK
  <2>3. CASE ~(q = p /\ a = off)
    <3>1. ~Shown(qs[n + 1], q, a)
      BY <1>0, <1>10, <1>12, <2>3 DEF Shown
    <3>2. \A i \in 1 .. n : i \in 1 .. Len(qs) /\ qs[i] = patches[i]
      BY <1>0, <1>12
    <3>3. \A i \in 1 .. Len(qs) : i \in 1 .. n \/ i = n + 1
      BY <1>0, <1>12
    <3>4. m[q][a] = mm[q][a]
      BY <1>15, <2>3
    <3> HIDE DEF mm
    <3> QED
      BY <2>1, <3>1, <3>2, <3>3, <3>4 DEF CellOK
  <2> QED
    BY <2>2, <2>3
<1> DEFINE st == [ps |-> qs, mem |-> m]
<1>17. StateOK(st)
  BY <1>14, <1>15, <1>16 DEF StateOK, MemOK
<1>18. Added(x) = UpdateOffsetPatch(st, p, session)
  BY <1>10 DEF Added, qs, m
<1>19. ASSUME NEW q \in Live, ServedList(patches, q) PROVE ServedList(qs, q)
  <2>1. proc[q].file = proc[p].file => p = q
    BY DEF Family
  <2> QED
    BY <1>0, <1>10, <1>12, <1>19, <2>1 DEF ServedList
<1> HIDE DEF st
<1>20. st.ps = qs
  BY DEF st
<1>21. /\ StateOK(UpdateOffsetPatch(st, p, session))
       /\ ServedList(UpdateOffsetPatch(st, p, session).ps, p)
       /\ \A q \in Live : q # p /\ ServedList(st.ps, q) =>
            ServedList(UpdateOffsetPatch(st, p, session).ps, q)
  BY <1>1, <1>17, UpdateKeeps
<1> QED
  BY <1>18, <1>19, <1>20, <1>21 DEF x

-----------------------------------------------------------------------------
(* The frames of the actions.                                              *)

LEMMA WorldSame ==
  ASSUME World, UNCHANGED <<setup, proc, PIDs, session, active>>
  PROVE  World' /\ Live' = Live
<1>1. ProcessFiles' = ProcessFiles /\ Libs' = Libs /\ Rva' = Rva /\ Pid' = Pid /\ Live' = Live
  BY DEF ProcessFiles, ChildFiles, Libs, Rva, Pid, Live
<1>2. \A x : ProcessOK(x) => ProcessOK(x)'
  BY <1>1 DEF ProcessOK, Cells, Loads
<1>3. \A p \in Live' : ProcessOK(proc[p])'
  BY <1>1, <1>2 DEF World, ProcessOK
<1> QED
  BY <1>1, <1>3 DEF World

LEMMA StateSame ==
  ASSUME NEW st, StateOK(st), UNCHANGED <<setup, proc, PIDs, session>>
  PROVE  StateOK(st)'
<1>1. ProcessFiles' = ProcessFiles /\ Libs' = Libs /\ Rva' = Rva /\ Pid' = Pid /\ Live' = Live
  BY DEF ProcessFiles, ChildFiles, Libs, Rva, Pid, Live
<1>3. \A x : (PatchFits(x) <=> PatchFits(x)') /\ (PatchHere(x) <=> PatchHere(x)') /\ (Reached(x) <=> Reached(x)')
  BY <1>1 DEF PatchFits, PatchHere, Reached
<1>4. \A ps : ListOK(ps) => ListOK(ps)'
  <2> SUFFICES ASSUME NEW ps, ListOK(ps) PROVE ListOK(ps)'
    OBVIOUS
  <2>1. Patch' = Patch
    BY <1>1 DEF Patch
  <2>2. Together(ps)'
    BY <1>3 DEF ListOK, Together
  <2>3. Distinct(ps)'
    BY DEF ListOK, Distinct
  <2> QED
    BY <1>3, <2>1, <2>2, <2>3 DEF ListOK
<1>5. \A ps, mem : MemOK(ps, mem) => MemOK(ps, mem)'
  <2>1. \A p \in Live : Cells(proc[p].at)' = Cells(proc[p].at)
    BY <1>1 DEF Cells
  <2> QED
    BY <1>1, <2>1 DEF MemOK, MemShape, CellOK, Shown, Reached
<1> QED
  BY <1>4, <1>5 DEF StateOK

LEMMA MarksSame ==
  ASSUME NEW bs, MarksOK(bs), UNCHANGED setup
  PROVE  MarksOK(bs)'
BY DEF MarksOK, Mark, MarkFits, ProcessFiles, ChildFiles, Libs, Pid

LEMMA ProjectSame ==
  ASSUME ProjectOK, UNCHANGED <<setup, project>>
  PROVE  ProjectOK'
BY DEF ProjectOK, MarksOK, Mark, MarkFits, Patch, PatchFits, Distinct, ProcessFiles, ChildFiles,
       Libs, Pid, Rva

LEMMA HeadFacts ==
  ASSUME QueueOK, queue # <<>>
  PROVE  /\ queue \in Seq(Signal) /\ Len(queue) \in Nat /\ Head(queue) = queue[1]
         /\ SignalOK(queue[1], 1 = Len(queue)) /\ 1 \in 1 .. Len(queue)
<1>1. queue \in Seq(Signal)
  BY DEF QueueOK
<1>2. Head(queue) = queue[1] /\ Len(queue) \in Nat /\ 1 \in 1 .. Len(queue)
  BY <1>1, HeadTailProperties
<1> QED
  BY <1>1, <1>2 DEF QueueOK

LEMMA ProjectNew ==
  ASSUME NEW ps \in Seq(Patch), NEW bs, MarksOK(bs), Distinct(ps),
         \A i \in 1 .. Len(ps) : PatchFits(ps[i]) /\ ps[i].h = 0,
         UNCHANGED setup, project' = [patches |-> ps, bookmarks |-> bs]
  PROVE  ProjectOK'
<1>1. project'.patches = ps /\ project'.bookmarks = bs
  OBVIOUS
<1> QED
  BY <1>1 DEF ProjectOK, MarksOK, Mark, MarkFits, Patch, PatchFits, Distinct, ProcessFiles,
       ChildFiles, Libs, Pid, Rva

(* The queue as it was, or without its head, in a world that has not moved.*)
LEMMA QueueSame ==
  ASSUME QueueOK, UNCHANGED <<setup, PIDs, session, active>>, Live' = Live,
         \A p \in Live : proc'[p].ep = proc[p].ep,
         UNCHANGED queue \/ (queue # <<>> /\ queue' = Tail(queue))
  PROVE  QueueOK'
<1>1. queue \in Seq(Signal) /\ Len(queue) \in Nat
  BY DEF QueueOK
<1>2. PICK k \in {0, 1} : /\ queue' \in Seq(Signal) /\ Len(queue') = Len(queue) - k
                          /\ \A i \in 1 .. Len(queue') :
                               i + k \in 1 .. Len(queue) /\ queue'[i] = queue[i + k]
  <2>1. CASE UNCHANGED queue
    BY <1>1, <2>1
  <2>2. CASE queue # <<>> /\ queue' = Tail(queue)
    BY <1>1, <2>2, HeadTailProperties
  <2> QED
    BY <2>1, <2>2
<1>3. ASSUME NEW i \in 1 .. Len(queue') PROVE SignalOK(queue[i], i = Len(queue))'
  <2>1. SignalOK(queue[i + k], i + k = Len(queue))
    BY <1>2 DEF QueueOK
  <2>2. i + k = Len(queue) <=> i = Len(queue')
    BY <1>1, <1>2
  <2>3. queue'[i] = queue[i + k]
    BY <1>2
  <2> QED
    BY <2>1, <2>2, <2>3 DEF SignalOK
<1>4. Signal' = Signal
  BY DEF Signal, Pid
<1> QED
  BY <1>2, <1>3, <1>4 DEF QueueOK

(* The memory is written and the table renewed, and that is all.           *)
LEMMA TookFacts ==
  ASSUME WorkspaceSetups, World, Family, NEW st, StateOK(st), Took(st),
         UNCHANGED <<setup, pe, PIDs, session, active>>
  PROVE  /\ World' /\ Family' /\ StateOK(State)' /\ State' = st /\ Live' = Live
         /\ \A p \in Live : /\ proc'[p].file = proc[p].file /\ proc'[p].at = proc[p].at
                            /\ proc'[p].ep = proc[p].ep /\ proc'[p].mem = st.mem[p]
<1>1. /\ st = [ps |-> st.ps, mem |-> st.mem] /\ st.mem = [p \in Live |-> st.mem[p]]
      /\ \A p \in Live : st.mem[p] \in [Cells(proc[p].at) -> Byte]
  BY DEF StateOK, MemOK, MemShape
<1>2. patches' = st.ps /\ proc' = [p \in Live |-> [proc[p] EXCEPT !.mem = st.mem[p]]]
  BY DEF Took
<1>3. Live' = Live
  BY <1>2 DEF Live
<1>4. ASSUME NEW p \in Live
      PROVE  /\ proc'[p] = [file |-> proc[p].file, at |-> proc[p].at, ep |-> proc[p].ep,
                            mem |-> st.mem[p]]
             /\ ProcessOK(proc[p])
  <2>1. ProcessOK(proc[p])
    BY DEF World
  <2>2. proc[p] = [file |-> proc[p].file, at |-> proc[p].at, ep |-> proc[p].ep, mem |-> proc[p].mem]
    BY <2>1 DEF ProcessOK
  <2>3. proc'[p] = [proc[p] EXCEPT !.mem = st.mem[p]]
    BY <1>2
  <2>4. [proc[p] EXCEPT !.mem = st.mem[p]] =
          [file |-> proc[p].file, at |-> proc[p].at, ep |-> proc[p].ep, mem |-> st.mem[p]]
    BY <2>2
  <2> QED
    BY <2>1, <2>3, <2>4
<1>5. ASSUME NEW p \in Live
      PROVE  /\ proc'[p].file = proc[p].file /\ proc'[p].at = proc[p].at
             /\ proc'[p].ep = proc[p].ep /\ proc'[p].mem = st.mem[p]
  <2>1. proc'[p] = [file |-> proc[p].file, at |-> proc[p].at, ep |-> proc[p].ep, mem |-> st.mem[p]]
    BY <1>4
  <2> QED
    BY <2>1
<1>6. ProcessFiles' = ProcessFiles /\ Libs' = Libs /\ Rva' = Rva /\ Pid' = Pid
  BY DEF ProcessFiles, ChildFiles, Libs, Rva, Pid
<1>7. World'
  <2>1. ASSUME NEW p \in Live PROVE ProcessOK(proc[p])'
    <3>1. Cells(proc[p].at)' = Cells(proc[p].at)
      BY <1>5, <1>6 DEF Cells
    <3>4. proc'[p].file = proc[p].file
      BY <1>5
    <3>5. Loads(proc[p].file)' = Loads(proc[p].file)
      BY <1>6, <3>4 DEF Loads
    <3>2. proc'[p] = [file |-> proc'[p].file, at |-> proc'[p].at, ep |-> proc'[p].ep, mem |-> proc'[p].mem]
      BY <1>4, <1>5
    <3> QED
      BY <1>1, <1>4, <1>5, <1>6, <3>1, <3>2, <3>5 DEF ProcessOK
  <2>2. proc' = [p \in Live' |-> proc'[p]]
    BY <1>2, <1>3
  <2> QED
    BY <1>3, <1>6, <2>1, <2>2 DEF World
<1>8. Family'
  BY <1>3, <1>5 DEF Family
<1>9. State' = st
  <2>1. [p \in Live' |-> proc'[p].mem] = [p \in Live |-> st.mem[p]]
    BY <1>3, <1>5
  <2> QED
    BY <1>1, <1>2, <2>1 DEF State
<1>10. ListOK(st.ps)'
  <2>1. ASSUME NEW i \in 1 .. Len(st.ps) PROVE PatchFits(st.ps[i])' /\ PatchHere(st.ps[i])'
    <3>1. PatchFits(st.ps[i]) /\ PatchHere(st.ps[i])
      BY DEF StateOK, ListOK
    <3> QED
      BY <1>3, <1>5, <1>6, <3>1 DEF PatchFits, PatchHere, Reached
  <2>2. Patch' = Patch /\ st.ps \in Seq(Patch) /\ Distinct(st.ps)
    BY <1>6 DEF StateOK, ListOK, Patch
  <2>3. Together(st.ps)'
    BY <1>3, <1>5 DEF StateOK, ListOK, Together, Reached
  <2> QED
    BY <2>1, <2>2, <2>3 DEF ListOK, Distinct
<1>11. MemOK(st.ps, st.mem)'
  <2>1. MemShape(st.mem)'
    <3>1. \A p \in Live : Cells(proc[p].at)' = Cells(proc[p].at)
      BY <1>5, <1>6 DEF Cells
    <3> QED
      BY <1>1, <1>3, <3>1 DEF MemShape
  <2>2. ASSUME NEW p \in Live, NEW a \in Cells(proc[p].at) PROVE CellOK(st.ps, st.mem, p, a)'
    <3>1. CellOK(st.ps, st.mem, p, a)
      BY DEF StateOK, MemOK
    <3> QED
      BY <1>3, <3>1 DEF CellOK, Shown, Reached
  <2>3. \A p \in Live : Cells(proc[p].at)' = Cells(proc[p].at)
    BY <1>5, <1>6 DEF Cells
  <2> QED
    BY <1>3, <2>1, <2>2, <2>3 DEF MemOK
<1>12. StateOK(st)'
  BY <1>1, <1>10, <1>11 DEF StateOK
<1> QED
  BY <1>3, <1>5, <1>7, <1>8, <1>9, <1>12 DEF StateOK

(* What is served stays so while the entries keep their processes.         *)
LEMMA ServedKept ==
  ASSUME UNCHANGED session, Live' = Live,
         \A p \in Live : proc'[p].file = proc[p].file /\ proc'[p].ep = proc[p].ep,
         \A p \in Live : Served(p)' => ServedList(patches', p)
  PROVE  ServedOK'
BY DEF ServedOK, ServedList

-----------------------------------------------------------------------------
(* The steps.                                                              *)

LEMMA TookStep ==
  ASSUME WorkspaceSetups, IInv, NEW st, StateOK(st), Took(st),
         UNCHANGED <<setup, pe, PIDs, session, active, project>>,
         UNCHANGED queue \/ (queue # <<>> /\ queue' = Tail(queue)),
         MarksOK(bookmarks)',
         \A p \in Live : Served(p)' => ServedList(st.ps, p)
  PROVE  IInv'
<1>1. World /\ Family /\ QueueOK /\ ProjectOK
  BY DEF IInv
<1>2. /\ World' /\ Family' /\ StateOK(State)' /\ Live' = Live
      /\ \A p \in Live : proc'[p].file = proc[p].file /\ proc'[p].ep = proc[p].ep
  BY <1>1, TookFacts
<1>3. QueueOK'
  BY <1>1, <1>2, QueueSame
<1>4. ServedOK'
  BY <1>2, ServedKept DEF Took
<1>5. ProjectOK'
  BY <1>1, ProjectSame
<1> QED
  BY <1>2, <1>3, <1>4, <1>5 DEF IInv

(* The user changes the table, and nothing else happens.                   *)
LEMMA UserTook ==
  ASSUME WorkspaceSetups, IInv, NEW st, StateOK(st), Took(st),
         UNCHANGED <<setup, pe, PIDs, session, active, target, isRestart, queue, bookmarks, copy, project>>,
         \A p \in Live : ServedList(patches, p) => ServedList(st.ps, p)
  PROVE  IInv'
<1>1. MarksOK(bookmarks)'
  BY MarksSame DEF IInv, MarksOK, Mark, MarkFits, ProcessFiles, ChildFiles, Libs, Pid
<1>2. /\ Live' = Live
      /\ \A p \in Live : proc'[p].ep = proc[p].ep
  BY TookFacts DEF IInv
<1>3. \A p \in Live : Served(p)' => ServedList(st.ps, p)
  BY <1>2 DEF IInv, ServedOK, Served
<1> QED
  BY <1>1, <1>3, TookStep

LEMMA PatchStep ==
  ASSUME WorkspaceSetups, IInv, NEW off,
         Redo(off) \/ Undo(off) \/ OnPatchRemove(off) \/ RemoveAllPatches
  PROVE  IInv'
<1>1. World /\ StateOK(State) /\ State.ps = patches
  BY DEF IInv, State
<1>2. CASE Redo(off)
  <2>1. StateOK(Rewritten(State, off)) /\ Relabelled(patches, Rewritten(State, off).ps)
    BY <1>1, <1>2, RewriteKeeps DEF Redo
  <2>2. \A p \in Live : ServedList(patches, p) => ServedList(Rewritten(State, off).ps, p)
    BY <1>1, <2>1, RelabelledOK DEF StateOK
  <2> QED
    BY <1>2, <2>1, <2>2, UserTook DEF Redo
<1>3. /\ StateOK(RemovePatch(State, off))
      /\ \A p : ServedList(patches, p) => ServedList(RemovePatch(State, off).ps, p)
      /\ \A i \in 1 .. Len(RemovePatch(State, off).ps) :
           LET y == RemovePatch(State, off).ps[i] IN Reached(y) /\ y.off = off => ~y.written
  <2>1. /\ StateOK(RemovePatch(State, off)) /\ Relabelled(patches, RemovePatch(State, off).ps)
        /\ \A i \in 1 .. Len(patches) :
             LET y == RemovePatch(State, off).ps[i] IN Reached(y) /\ y.off = off => ~y.written
    BY <1>1, RemoveKeeps
  <2>2. \A p : ServedList(patches, p) => ServedList(RemovePatch(State, off).ps, p)
    BY <1>1, <2>1, RelabelledOK DEF StateOK
  <2> QED
    BY <2>1, <2>2 DEF Relabelled
<1>4. CASE Undo(off)
  BY <1>3, <1>4, UserTook DEF Undo
<1>5. CASE OnPatchRemove(off)
  <2>1. PICK st : st = RemovePatch(State, off)
    OBVIOUS
  <2>2. /\ StateOK(DeletePatch(st, off))
        /\ \A p : ServedList(st.ps, p) => ServedList(DeletePatch(st, off).ps, p)
    BY <1>1, <1>3, <2>1, DeleteKeeps
  <2> QED
    BY <1>3, <1>5, <2>1, <2>2, UserTook DEF OnPatchRemove
<1>6. CASE RemoveAllPatches
  <2>1. StateOK(ClearAllPatches) /\ \A p : ServedList(ClearAllPatches.ps, p)
    BY <1>1, ClearKeeps DEF ClearAllPatches, ServedList
  <2> QED
    BY <1>6, <2>1, UserTook DEF RemoveAllPatches
<1> QED
  BY <1>2, <1>4, <1>5, <1>6

LEMMA AddStep ==
  ASSUME WorkspaceSetups, IInv, NEW p \in Live, NEW off \in DOMAIN proc[p].mem, NEW b \in Byte,
         AddNewPatch(p, off, b)
  PROVE  IInv'
<1>1. queue = <<>> /\ proc[p].ep /\ SameOffset(patches, off) = {}
  BY DEF AddNewPatch, Free, WorkspaceSetups
<1>2. ServedList(patches, p)
  BY <1>1 DEF IInv, ServedOK, Served
<1>3. PICK st : st = Added(NewPatch(p, off, b))
  OBVIOUS
<1>4. StateOK(st) /\ \A q \in Live : ServedList(patches, q) => ServedList(st.ps, q)
  BY <1>1, <1>2, <1>3, AddKeeps DEF IInv
<1> QED
  BY <1>3, <1>4, UserTook DEF AddNewPatch

-----------------------------------------------------------------------------
(* The slots.                                                              *)

LEMMA MarksMoved ==
  ASSUME WorkspaceSetups, World, MarksOK(bookmarks), NEW p \in PIDs
  PROVE  MarksOK(BookmarkUpdateOffsets(p))
<1> DEFINE bs == BookmarkUpdateOffsets(p)
<1>0. bookmarks \in Seq(Mark) /\ Len(bookmarks) \in Nat /\ DOMAIN bookmarks = 1 .. Len(bookmarks)
  BY DEF MarksOK
<1>1. ASSUME NEW i \in 1 .. Len(bookmarks) PROVE bs[i] \in Mark /\ MarkFits(bs[i])
  <2> DEFINE x == bookmarks[i]
             c == CalcOffsetForModule(x.name, x.off, p).base
  <2>0. x \in Mark /\ MarkFits(x)
    BY <1>0 DEF MarksOK
  <2>1. x \in Mark /\ MarkFits(x) /\ x.name \in File /\ x.off \in Int /\ x.base \in Int /\ p \in Pid
    BY <2>0 DEF Mark, World
  <2>2. x.name # NoFile
    BY <2>1, SetupFacts DEF World
  <2>3. c \in Int
    <3>1. CASE p \notin Live
      BY <2>1, <3>1 DEF CalcOffsetForModule
    <3>2. CASE p \in Live
      <4>1. \A m \in DOMAIN proc[p].at : proc[p].at[m] \in Nat
        BY <3>2, ProcessFacts
      <4> QED
        BY <2>1, <2>2, <3>2, <4>1 DEF CalcOffsetForModule
    <3> QED
      BY <3>1, <3>2
  <2> HIDE DEF c
  <2> DEFINE y == [x EXCEPT !.off = c + (x.off - x.base), !.base = c,
                            !.pid = IF @ = NoPid THEN p ELSE @]
  <2>4. bs[i] = y \/ bs[i] = x
    BY <1>0 DEF BookmarkUpdateOffsets, c
  <2>5. c + (x.off - x.base) \in Int
    BY <2>1, <2>3
  <2>6. y \in Mark /\ y.name = x.name /\ y.pmod = x.pmod
    BY <2>1, <2>3, <2>5 DEF Mark
  <2> QED
    BY <2>1, <2>4, <2>6 DEF MarkFits
<1>2. bs = [i \in 1 .. Len(bookmarks) |-> bs[i]]
  BY <1>0 DEF BookmarkUpdateOffsets
<1> HIDE DEF bs
<1>3. bs \in [1 .. Len(bookmarks) -> Mark]
  BY <1>1, <1>2
<1>4. bs \in Seq(Mark) /\ Len(bs) = Len(bookmarks)
  BY <1>0, <1>3
<1> QED
  BY <1>1, <1>4 DEF MarksOK, bs

LEMMA UpdateStep ==
  ASSUME WorkspaceSetups, IInv, OnUpdateOffsets
  PROVE  IInv'
<1> DEFINE p  == Head(queue).pid
           st == UpdateOffsetPatch(State, p, session)
<1>1. /\ queue # <<>> /\ queue \in Seq(Signal) /\ Len(queue) \in Nat
      /\ Head(queue) = queue[1] /\ SignalOK(queue[1], 1 = Len(queue)) /\ queue[1].sig = "offsets"
  BY HeadFacts DEF OnUpdateOffsets, IInv
<1>2. p \in PIDs /\ Head(queue).h = session
  BY <1>1 DEF SignalOK
<1>3. World /\ Family /\ StateOK(State) /\ MarksOK(bookmarks) /\ State.ps = patches /\ ServedOK
  BY DEF IInv, State
<1> HIDE DEF p
<1>4. /\ StateOK(st)
      /\ p \in Live => ServedList(st.ps, p)
      /\ \A q \in Live : q # p /\ ServedList(patches, q) => ServedList(st.ps, q)
  BY <1>2, <1>3, UpdateKeeps
<1>5. Took(st) /\ bookmarks' = BookmarkUpdateOffsets(p) /\ queue' = Tail(queue)
  BY <1>2 DEF OnUpdateOffsets, p
<1> HIDE DEF st
<1>6. UNCHANGED <<setup, pe, PIDs, session, active, target, isRestart, copy, project>>
  BY DEF OnUpdateOffsets
<1>7. MarksOK(bookmarks)'
  <2>1. MarksOK(BookmarkUpdateOffsets(p))
    BY <1>2, <1>3, MarksMoved
  <2> QED
    BY <1>5, <1>6, <2>1 DEF MarksOK, Mark, MarkFits, ProcessFiles, ChildFiles, Libs, Pid
<1>8. Live' = Live /\ \A q \in Live : proc'[q].ep = proc[q].ep
  BY <1>3, <1>4, <1>5, <1>6, TookFacts
<1>9. ASSUME NEW q \in Live, Served(q)', q # p PROVE Served(q)
  <2>1. \A i \in 1 .. Len(queue) : i = 1 \/ (i - 1 \in 1 .. Len(queue') /\ queue'[i - 1] = queue[i])
    BY <1>1, <1>5, HeadTailProperties
  <2>2. \A i \in 1 .. Len(queue') : ~(queue'[i].sig = "offsets" /\ queue'[i].pid = q)
    BY <1>9 DEF Served
  <2>3. queue[1].pid = p
    BY <1>1 DEF p
  <2> QED
    BY <1>8, <1>9, <2>1, <2>2, <2>3 DEF Served
<1>10. \A q \in Live : Served(q)' => ServedList(st.ps, q)
  BY <1>3, <1>4, <1>9 DEF ServedOK
<1> QED
  BY <1>1, <1>4, <1>5, <1>6, <1>7, <1>10, TookStep
-----------------------------------------------------------------------------
(* A step that leaves the processes alone.                                 *)

LEMMA QuietStep ==
  ASSUME WorkspaceSetups, IInv, UNCHANGED <<setup, proc, PIDs, session, active>>, Family',
         \/ UNCHANGED queue
         \/ queue # <<>> /\ queue' = Tail(queue) /\ (queue[1].sig # "offsets" \/ Live = {}),
         StateOK([ps |-> patches', mem |-> State.mem]),
         \A p \in Live : ServedList(patches, p) => ServedList(patches', p),
         MarksOK(bookmarks'), ProjectOK'
  PROVE  IInv'
<1>1. World' /\ Live' = Live /\ QueueOK /\ ServedOK
  BY WorldSame DEF IInv
<1>2. QueueOK'
  BY <1>1, QueueSame
<1>3. StateOK(State)'
  <2>1. PICK st : st = [ps |-> patches', mem |-> State.mem]
    OBVIOUS
  <2>2. StateOK(st)'
    BY <2>1, StateSame
  <2>3. State' = st
    BY <1>1, <2>1 DEF State
  <2> QED
    BY <2>2, <2>3 DEF StateOK
<1>4. ASSUME NEW p \in Live, Served(p)' PROVE Served(p)
  <2>1. CASE UNCHANGED queue
    BY <1>1, <1>4, <2>1 DEF Served
  <2>2. CASE queue # <<>> /\ queue' = Tail(queue) /\ (queue[1].sig # "offsets" \/ Live = {})
    <3>1. \A i \in 1 .. Len(queue) : i = 1 \/ (i - 1 \in 1 .. Len(queue') /\ queue'[i - 1] = queue[i])
      BY <1>1, <2>2, HeadTailProperties DEF QueueOK
    <3> QED
      BY <1>1, <1>4, <2>2, <3>1 DEF Served
  <2> QED
    BY <2>1, <2>2
<1>5. ServedOK'
  BY <1>1, <1>4, ServedKept DEF ServedOK
<1>6. MarksOK(bookmarks)'
  BY DEF MarksOK, Mark, MarkFits, ProcessFiles, ChildFiles, Libs, Pid
<1> QED
  BY <1>1, <1>2, <1>3, <1>5, <1>6 DEF IInv

(* Two tables that show the same differ in what was saved only.            *)
LEMMA RelabelledState ==
  ASSUME NEW st, StateOK(st), NEW qs, Relabelled(st.ps, qs),
         \/ \A i \in 1 .. Len(qs) : qs[i].written = st.ps[i].written
         \/ Live = {}
  PROVE  StateOK([ps |-> qs, mem |-> st.mem])
<1>1. ListOK(qs) /\ MemOK(st.ps, st.mem) /\ Len(qs) = Len(st.ps) /\ Len(qs) \in Nat
  BY RelabelledOK DEF StateOK, Relabelled, ListOK
<1>2. CASE Live = {}
  BY <1>1, <1>2 DEF StateOK, MemOK
<1>3. CASE \A i \in 1 .. Len(qs) : qs[i].written = st.ps[i].written
  <2>1. ASSUME NEW p \in Live, NEW a \in Cells(proc[p].at) PROVE CellOK(qs, st.mem, p, a)
    <3>1. \A i \in 1 .. Len(qs) : (Shown(qs[i], p, a) <=> Shown(st.ps[i], p, a))
                                  /\ qs[i].new = st.ps[i].new
      BY <1>1, <1>3 DEF Relabelled, SameKeys, Shown, Reached
    <3>2. CellOK(st.ps, st.mem, p, a)
      BY <1>1 DEF MemOK
    <3> QED
      BY <1>1, <3>1, <3>2 DEF CellOK
  <2> QED
    BY <1>1, <2>1 DEF StateOK, MemOK
<1> QED
  BY <1>2, <1>3

LEMMA SaveStep ==
  ASSUME WorkspaceSetups, IInv, NEW I, SavePatch(I)
  PROVE  IInv'
<1> DEFINE qs == patches'
           S  == Saved(I).saved
<1>1. qs = [i \in DOMAIN patches |-> [patches[i] EXCEPT !.saved = i \in S]]
  BY DEF SavePatch
<1>2. /\ UNCHANGED <<setup, debugger, bookmarks, project>>
      /\ UNCHANGED <<setup, pe, proc, PIDs, session, active, target, isRestart, queue, bookmarks, project>>
  BY DEF SavePatch, debugger
<1>3. patches \in Seq(Patch) /\ DOMAIN patches = 1 .. Len(patches) /\ Len(patches) \in Nat
  BY DEF IInv, StateOK, ListOK, State
<1> HIDE DEF S
<1>4. ASSUME NEW i \in 1 .. Len(patches)
      PROVE  qs[i] \in Patch /\ SameKeys(patches[i], qs[i]) /\ qs[i].written = patches[i].written
  <2>1. patches[i] \in Patch
    BY <1>3
  <2>2. qs[i] = [patches[i] EXCEPT !.saved = i \in S] /\ (i \in S) \in BOOLEAN
    BY <1>1, <1>3
  <2> QED
    BY <2>1, <2>2 DEF Patch, SameKeys
<1>5. qs = [i \in 1 .. Len(patches) |-> qs[i]]
  BY <1>1, <1>3
<1> HIDE DEF qs
<1>6. qs \in [1 .. Len(patches) -> Patch]
  BY <1>4, <1>5
<1>7. qs \in Seq(Patch) /\ Len(qs) = Len(patches)
  BY <1>3, <1>6
<1>8. StateOK(State) /\ State.ps = patches
  BY DEF IInv, State
<1>9. Relabelled(patches, qs)
  BY <1>4, <1>7 DEF Relabelled
<1>10. StateOK([ps |-> qs, mem |-> State.mem])
  BY <1>4, <1>7, <1>8, <1>9, RelabelledState
<1>11. \A p \in Live : ServedList(patches, p) => ServedList(qs, p)
  BY <1>8, <1>9, RelabelledOK DEF StateOK
<1>12. Family' /\ ProjectOK' /\ MarksOK(bookmarks')
  <2>1. Live' = Live
    BY <1>2 DEF Live
  <2>2. Family'
    BY <1>2, <2>1 DEF IInv, Family
  <2>3. ProjectOK' /\ MarksOK(bookmarks')
    BY <1>2, ProjectSame DEF IInv
  <2> QED
    BY <2>2, <2>3
<1> QED
  BY <1>2, <1>10, <1>11, <1>12, QuietStep DEF qs

(* The bookmarks change, and nothing else but perhaps the queue.           *)
LEMMA MarkStep ==
  ASSUME WorkspaceSetups, IInv, MarksOK(bookmarks'),
         UNCHANGED <<setup, pe, proc, PIDs, session, active, patches>>, ProjectOK',
         \/ UNCHANGED queue
         \/ queue # <<>> /\ queue' = Tail(queue) /\ queue[1].sig # "offsets"
  PROVE  IInv'
<1>1. Live' = Live /\ Family'
  BY DEF Live, IInv, Family
<1>2. StateOK([ps |-> patches', mem |-> State.mem])
  BY DEF IInv, State
<1> QED
  BY <1>1, <1>2, QuietStep

LEMMA SetMark ==
  ASSUME MarksOK(bookmarks), NEW n \in 1 .. Len(bookmarks), NEW x \in Mark, MarkFits(x)
  PROVE  MarksOK([bookmarks EXCEPT ![n] = x])
<1>1. bookmarks \in Seq(Mark)
  BY DEF MarksOK
<1>2. /\ [bookmarks EXCEPT ![n] = x] \in Seq(Mark)
      /\ Len([bookmarks EXCEPT ![n] = x]) = Len(bookmarks)
      /\ \A i \in 1 .. Len(bookmarks) : [bookmarks EXCEPT ![n] = x][i] = IF i = n THEN x ELSE bookmarks[i]
  BY <1>1
<1> QED
  BY <1>2 DEF MarksOK

(* The first bookmark of those that are asked for.                         *)
LEMMA FirstMark ==
  ASSUME MarksOK(bookmarks), NEW I \in SUBSET (DOMAIN bookmarks), I # {}
  PROVE  /\ First(I) \in I /\ First(I) \in 1 .. Len(bookmarks)
         /\ bookmarks[First(I)] \in Mark /\ MarkFits(bookmarks[First(I)])
<1>1. bookmarks \in Seq(Mark) /\ DOMAIN bookmarks = 1 .. Len(bookmarks) /\ Len(bookmarks) \in Nat
  BY DEF MarksOK
<1>2. First(I) \in I
  BY <1>1, FirstIn
<1>3. First(I) \in 1 .. Len(bookmarks)
  BY <1>1, <1>2
<1> HIDE DEF First
<1> QED
  BY <1>1, <1>2, <1>3 DEF MarksOK

LEMMA NewPIDStep ==
  ASSUME WorkspaceSetups, IInv, OnNewPID
  PROVE  IInv'
<1> DEFINE f == Head(queue).file
           p == Head(queue).pid
           I == {i \in DOMAIN bookmarks : NameContains(f, bookmarks[i].name)}
<1>1. /\ queue # <<>> /\ queue' = Tail(queue) /\ queue[1].sig # "offsets" /\ p \in Pid \cup {NoPid}
      /\ bookmarks' = UpdateBookmarks(f, p)
  <2>1. queue \in Seq(Signal) /\ queue # <<>> /\ Head(queue) = queue[1] /\ Head(queue) \in Signal
    BY HeadFacts DEF OnNewPID, IInv
  <2> QED
    BY <2>1 DEF OnNewPID, Signal
<1> HIDE DEF f, p
<1>2. MarksOK(bookmarks)
  BY DEF IInv
<1>3. MarksOK(bookmarks')
  <2>1. CASE I = {}
    BY <1>1, <1>2, <2>1 DEF UpdateBookmarks
  <2>2. CASE I # {}
    <3>1. PICK n : n = First(I)
      OBVIOUS
    <3>2. n \in 1 .. Len(bookmarks) /\ bookmarks[n] \in Mark /\ MarkFits(bookmarks[n])
      BY <1>2, <2>2, <3>1, FirstMark
    <3>3. bookmarks' = [bookmarks EXCEPT ![n] = [bookmarks[n] EXCEPT !.pid = p]]
      BY <1>1, <1>2, <2>2, <3>1, <3>2 DEF UpdateBookmarks, MarksOK
    <3>4. [bookmarks[n] EXCEPT !.pid = p] \in Mark /\ MarkFits([bookmarks[n] EXCEPT !.pid = p])
      BY <1>1, <3>2 DEF Mark, MarkFits
    <3> QED
      BY <1>2, <3>2, <3>3, <3>4, SetMark
  <2> QED
    BY <2>1, <2>2
<1>4. ProjectOK'
  BY ProjectSame DEF OnNewPID, IInv
<1> QED
  BY <1>1, <1>3, <1>4, MarkStep DEF OnNewPID

LEMMA BookmarkAddStep ==
  ASSUME WorkspaceSetups, IInv, NEW p \in Live, NEW off \in DOMAIN proc[p].mem,
         NEW comment \in Comment, BookmarkAdd(p, off, comment)
  PROVE  IInv'
<1>1. World /\ Family /\ MarksOK(bookmarks) /\ bookmarks \in Seq(Mark)
  BY DEF IInv, MarksOK
<1>2. /\ DOMAIN proc[p].mem = Cells(proc[p].at) /\ proc[p].file \in File /\ p \in Pid /\ p \in PIDs
      /\ DOMAIN proc[p].at = {proc[p].file} \cup Libs /\ proc[p].file \in ProcessFiles
      /\ \A k \in DOMAIN proc[p].at : k \in File /\ proc[p].at[k] \in Nat
  BY <1>1, ProcessFacts
<1>3. off \in Nat /\ ModuleAt(p, off) # {}
  <2>1. off \in Cells(proc[p].at)
    BY <1>2
  <2> QED
    BY <1>1, <2>1, CellFacts DEF ModuleAt
<1>4. PICK k \in ModuleAt(p, off) : CalcOffsetForModule(NoFile, off, p) = [name |-> k, base |-> proc[p].at[k]]
  BY <1>3 DEF CalcOffsetForModule
<1>5. k \in DOMAIN proc[p].at
  BY <1>4 DEF ModuleAt
<1>6. getFilenameFromPID(p) = proc[p].file
  BY <1>1, <1>2, FileNameFacts
<1> DEFINE x == [off |-> off, base |-> proc[p].at[k], name |-> k, pid |-> p,
                 pmod |-> proc[p].file, comment |-> comment]
<1>7. bookmarks' = Append(bookmarks, x)
  BY <1>4, <1>6 DEF BookmarkAdd
<1>8. x \in Mark /\ MarkFits(x)
  BY <1>2, <1>3, <1>5 DEF Mark, MarkFits
<1> HIDE DEF x
<1>9. MarksOK(bookmarks')
  <2>1. /\ Append(bookmarks, x) \in Seq(Mark) /\ Len(Append(bookmarks, x)) = Len(bookmarks) + 1
        /\ \A i \in 1 .. Len(bookmarks) + 1 :
             Append(bookmarks, x)[i] = IF i = Len(bookmarks) + 1 THEN x ELSE bookmarks[i]
        /\ Len(bookmarks) \in Nat
    BY <1>1, <1>8, AppendProperties
  <2> QED
    BY <1>1, <1>7, <1>8, <2>1 DEF MarksOK
<1>10. /\ UNCHANGED <<setup, pe, proc, PIDs, session, active, patches, queue>>
       /\ UNCHANGED <<setup, project>>
  BY DEF BookmarkAdd, debugger
<1>11. ProjectOK'
  BY <1>10, ProjectSame DEF IInv
<1> QED
  BY <1>9, <1>10, <1>11, MarkStep

LEMMA BookmarkStep ==
  ASSUME WorkspaceSetups, IInv, NEW off,
         \/ BookmarkRemove(off)
         \/ \E name \in File, comment \in Comment : CellDataChanged(off, name, comment)
  PROVE  IInv'
<1>0. MarksOK(bookmarks)
  BY DEF IInv
<1>1. MarksOK(bookmarks) /\ bookmarks \in Seq(Mark) /\ DOMAIN bookmarks = 1 .. Len(bookmarks)
      /\ Len(bookmarks) \in Nat
  BY <1>0 DEF MarksOK
<1>2. /\ UNCHANGED <<setup, pe, proc, PIDs, session, active, patches, queue>>
      /\ UNCHANGED <<setup, project>>
  BY DEF BookmarkRemove, CellDataChanged, debugger
<1>3. MarksOK(bookmarks')
  <2>1. CASE BookmarkRemove(off)
    <3>1. PICK n : n = First(SameOffset(bookmarks, off))
      OBVIOUS
    <3>2. n \in 1 .. Len(bookmarks)
      <4>1. SameOffset(bookmarks, off) \in SUBSET (DOMAIN bookmarks) /\ SameOffset(bookmarks, off) # {}
        BY <2>1 DEF BookmarkRemove, SameOffset
      <4> QED
        BY <1>1, <3>1, <4>1, FirstMark
    <3>3. bookmarks' = RemoveAt(bookmarks, n)
      BY <2>1, <3>1 DEF BookmarkRemove
    <3>4. bookmarks' \in Seq(Mark) /\ \E k : Sublist(bookmarks, bookmarks', k)
      BY <1>1, <3>2, <3>3, RemoveAtSublist
    <3> QED
      BY <1>1, <3>4 DEF MarksOK, Sublist
  <2>2. ASSUME NEW name \in File, NEW comment \in Comment, CellDataChanged(off, name, comment)
        PROVE  MarksOK(bookmarks')
    <3> DEFINE I == {i \in SameOffset(bookmarks, off) : NameContains(bookmarks[i].name, name)}
    <3>1. PICK n : n = First(I)
      OBVIOUS
    <3>2. n \in 1 .. Len(bookmarks) /\ bookmarks[n] \in Mark /\ MarkFits(bookmarks[n])
      <4>1. I \in SUBSET (DOMAIN bookmarks) /\ I # {}
        BY <2>2 DEF CellDataChanged, SameOffset
      <4> HIDE DEF I
      <4> QED
        BY <1>1, <3>1, <4>1, FirstMark
    <3>3. bookmarks' = [bookmarks EXCEPT ![n] = [bookmarks[n] EXCEPT !.comment = comment]]
      BY <1>1, <2>2, <3>1, <3>2 DEF CellDataChanged
    <3>4. [bookmarks[n] EXCEPT !.comment = comment] \in Mark /\ MarkFits([bookmarks[n] EXCEPT !.comment = comment])
      <4>2. [bookmarks[n] EXCEPT !.comment = comment] \in Mark
        BY <3>2 DEF Mark
      <4> QED
        BY <3>2, <4>2 DEF Mark, MarkFits
    <3> QED
      BY <1>1, <3>2, <3>3, <3>4, SetMark
  <2> QED
    BY <2>1, <2>2
<1>4. ProjectOK'
  BY <1>2, ProjectSame DEF IInv
<1> QED
  BY <1>2, <1>3, <1>4, MarkStep

LEMMA ClosedStep ==
  ASSUME WorkspaceSetups, IInv, OnProcessClosed
  PROVE  IInv'
<1>1. /\ queue # <<>> /\ queue' = Tail(queue) /\ queue[1].sig = "closed"
      /\ queue[1].pid \in PIDs \ Live /\ pe' = CloseFile(queue[1].pid)
  <2>1. queue # <<>> /\ Head(queue) = queue[1] /\ SignalOK(queue[1], 1 = Len(queue))
    BY HeadFacts DEF OnProcessClosed, IInv
  <2> QED
    BY <2>1 DEF OnProcessClosed, SignalOK
<1>2. UNCHANGED <<setup, proc, PIDs, session, active, patches, bookmarks, project>> /\ Live' = Live
  BY DEF OnProcessClosed, Live
<1> DEFINE q == queue[1].pid
<1>3. /\ DOMAIN pe' = {f \in DOMAIN pe : pe[f] # q}
      /\ \A f \in DOMAIN pe' : pe'[f] = pe[f]
      /\ pe' = [f \in DOMAIN pe' |-> pe'[f]]
  BY <1>1 DEF CloseFile, Without
<1>4. Family'
  <2> HIDE DEF q
  <2>1. Family /\ q \notin Live
    BY <1>1 DEF IInv, q
  <2>2. pe' \in [DOMAIN pe' -> PIDs]
    BY <1>3, <2>1 DEF Family
  <2> QED
    BY <1>2, <1>3, <2>1, <2>2 DEF Family
<1>5. StateOK([ps |-> patches', mem |-> State.mem])
  BY <1>2 DEF IInv, State
<1>6. ProjectOK' /\ MarksOK(bookmarks')
  BY <1>2, ProjectSame DEF IInv
<1>7. queue[1].sig # "offsets"
  BY <1>1
<1> QED
  BY <1>1, <1>2, <1>4, <1>5, <1>6, <1>7, QuietStep

LEMMA RestartStep ==
  ASSUME WorkspaceSetups, IInv,
         \/ Restart
         \/ OpenNewFile /\ active
  PROVE  IInv'
<1>1. UNCHANGED <<setup, pe, proc, PIDs, session, active, patches, bookmarks, queue>>
      /\ UNCHANGED <<setup, project>>
  BY DEF Restart, OpenNewFile
<1>2. ProjectOK' /\ MarksOK(bookmarks')
  BY <1>1, ProjectSame DEF IInv
<1> QED
  BY <1>1, <1>2, MarkStep

LEMMA SaveProjectStep ==
  ASSUME WorkspaceSetups, IInv, SaveProject
  PROVE  IInv'
<1>1. UNCHANGED <<setup, pe, proc, PIDs, session, active, patches, bookmarks, queue>>
  BY DEF SaveProject, debugger
<1>2. PICK ps, bs :
           /\ project' = [patches |-> ps, bookmarks |-> bs]
           /\ ps = [i \in DOMAIN patches |-> StoredPatch(patches[i])]
           /\ bs = [i \in DOMAIN bookmarks |-> Stored(bookmarks[i])]
  BY DEF SaveProject
<1>3. /\ patches \in Seq(Patch) /\ DOMAIN patches = 1 .. Len(patches) /\ Len(patches) \in Nat
      /\ Distinct(patches) /\ \A i \in 1 .. Len(patches) : PatchFits(patches[i])
      /\ bookmarks \in Seq(Mark) /\ DOMAIN bookmarks = 1 .. Len(bookmarks) /\ Len(bookmarks) \in Nat
      /\ \A i \in 1 .. Len(bookmarks) : MarkFits(bookmarks[i])
  BY DEF IInv, StateOK, ListOK, State, MarksOK
<1>4. ASSUME NEW i \in 1 .. Len(patches)
      PROVE  /\ ps[i] \in Patch /\ PatchFits(ps[i]) /\ ps[i].h = 0 /\ ps[i].name = patches[i].name
             /\ ps[i].off - ps[i].base = patches[i].off - patches[i].base
  <2> DEFINE x == patches[i]
             d == x.off - x.base
             y == Stored(x)
             z == StoredPatch(x)
  <2>1. /\ x \in Patch /\ PatchFits(x) /\ d \in Int /\ d - 0 = d /\ d \in Rva
        /\ x.org = Org /\ x.pmod \in ProcessFiles /\ x.name \in {x.pmod} \cup Libs
    <3>1. x \in Patch /\ PatchFits(x)
      BY <1>3
    <3>2. d \in Rva /\ d \in Int
      BY <3>1 DEF PatchFits, Patch
    <3> QED
      BY <3>1, <3>2 DEF PatchFits
  <2> HIDE DEF d
  <2>2. y = [x EXCEPT !.off = d, !.base = 0, !.pid = NoPid]
    BY <2>1 DEF Stored, d, Patch
  <2> HIDE DEF y
  <2>3. /\ y \in Patch /\ y.off = d /\ y.base = 0 /\ y.name = x.name /\ y.pmod = x.pmod /\ y.org = x.org
    <3>1. x \in Patch /\ d \in Int
      BY <2>1
    <3> HIDE DEF x
    <3> QED
      BY <2>2, <3>1 DEF Patch
  <2>4. z = [y EXCEPT !.h = 0, !.written = FALSE, !.saved = FALSE]
    BY DEF StoredPatch, y
  <2>5. /\ z \in Patch /\ z.off = d /\ z.base = 0 /\ z.name = x.name /\ z.pmod = x.pmod /\ z.org = x.org
        /\ z.h = 0
    BY <2>3, <2>4 DEF Patch
  <2>6. ps[i] = z
    BY <1>2, <1>3
  <2> HIDE DEF z
  <2>7. PatchFits(z) /\ z.off - z.base = d
    BY <2>1, <2>5 DEF PatchFits
  <2> QED
    BY <2>5, <2>6, <2>7 DEF d
<1>5. ASSUME NEW i \in 1 .. Len(bookmarks) PROVE bs[i] \in Mark /\ MarkFits(bs[i])
  <2>1. PICK x : x = bookmarks[i]
    OBVIOUS
  <2>2. x \in Mark /\ MarkFits(x)
    BY <1>3, <2>1
  <2>3. bs[i] = Stored(x)
    BY <1>2, <1>3, <2>1
  <2>4. PICK d \in Int : d = x.off - x.base
    BY <2>2 DEF Mark
  <2>5. Stored(x) = [x EXCEPT !.off = d, !.base = 0, !.pid = NoPid]
    BY <2>2, <2>4 DEF Stored, Mark
  <2>6. PICK y : y = [x EXCEPT !.off = d, !.base = 0, !.pid = NoPid]
    OBVIOUS
  <2>7. y \in Mark
    <3>1. /\ x = [off |-> x.off, base |-> x.base, name |-> x.name, pid |-> x.pid,
                  pmod |-> x.pmod, comment |-> x.comment]
          /\ x.name \in File /\ x.pmod \in File /\ x.comment \in Comment
      BY <2>2 DEF Mark
    <3>2. y = [off |-> d, base |-> 0, name |-> x.name, pid |-> NoPid,
               pmod |-> x.pmod, comment |-> x.comment]
      BY <2>6, <3>1
    <3> QED
      BY <3>1, <3>2 DEF Mark
  <2>8. y.pmod = x.pmod /\ y.name = x.name
    BY <2>2, <2>6 DEF Mark
  <2> QED
    BY <2>2, <2>3, <2>5, <2>6, <2>7, <2>8 DEF MarkFits
<1>6. ps \in [1 .. Len(patches) -> Patch] /\ bs \in [1 .. Len(bookmarks) -> Mark]
  BY <1>2, <1>3, <1>4, <1>5
<1>7. ps \in Seq(Patch) /\ Len(ps) = Len(patches) /\ bs \in Seq(Mark) /\ Len(bs) = Len(bookmarks)
  <2>1. ps \in Seq(Patch) /\ Len(ps) = Len(patches)
    BY <1>3, <1>6
  <2>2. bs \in Seq(Mark) /\ Len(bs) = Len(bookmarks)
    BY <1>3, <1>6
  <2> QED
    BY <2>1, <2>2
<1>8. Distinct(ps)
  BY <1>3, <1>4, <1>7 DEF Distinct
<1>9. ProjectOK'
  <2>1. MarksOK(bs)
    BY <1>5, <1>7 DEF MarksOK
  <2> QED
    BY <1>1, <1>2, <1>4, <1>7, <1>8, <2>1, ProjectNew
<1>10. MarksOK(bookmarks')
  BY <1>1 DEF IInv
<1> QED
  BY <1>1, <1>9, <1>10, MarkStep

-----------------------------------------------------------------------------
(* The entries of a project file, and the start of a session.              *)

(* The rank of an element of a set of indices.                             *)
LEMMA NthProperties ==
  ASSUME NEW n \in Nat, NEW I \in SUBSET (1 .. n), NEW k \in 1 .. Cardinality(I)
  PROVE  Nth(I, k) \in I /\ Cardinality({j \in I : j <= Nth(I, k)}) = k
<1> DEFINE c == Cardinality(I)
           B(i) == {j \in I : j <= i}
           rank == [i \in I |-> Cardinality(B(i))]
<1>1. IsFiniteSet(I) /\ c \in Nat /\ IsFiniteSet(1 .. c) /\ Cardinality(1 .. c) = c
  <2>1. IsFiniteSet(1 .. n)
    BY FS_Interval
  <2>2. IsFiniteSet(I) /\ c \in Nat
    BY <2>1, FS_Subset, FS_CardinalityType
  <2>3. IsFiniteSet(1 .. c) /\ Cardinality(1 .. c) = c
    BY <2>2, FS_Interval
  <2> QED
    BY <2>2, <2>3
<1>2. \A i \in I : IsFiniteSet(B(i)) /\ Cardinality(B(i)) \in Nat /\ Cardinality(B(i)) <= c
                   /\ i \in B(i)
  <2> SUFFICES ASSUME NEW i \in I
               PROVE  IsFiniteSet(B(i)) /\ Cardinality(B(i)) \in Nat /\ Cardinality(B(i)) <= c
                      /\ i \in B(i)
    OBVIOUS
  <2>1. B(i) \in SUBSET I /\ i \in B(i)
    OBVIOUS
  <2> QED
    BY <1>1, <2>1, FS_Subset, FS_CardinalityType
<1>3. \A i \in I : Cardinality(B(i)) \in 1 .. c
  <2> SUFFICES ASSUME NEW i \in I PROVE Cardinality(B(i)) \in 1 .. c
    OBVIOUS
  <2>1. Cardinality(B(i)) # 0
    BY <1>2, FS_EmptySet
  <2> HIDE DEF B, c
  <2> QED
    BY <1>1, <1>2, <2>1
<1>4. ASSUME NEW i \in I, NEW j \in I, i < j PROVE Cardinality(B(i)) # Cardinality(B(j))
  <2>1. B(i) \in SUBSET B(j) /\ j \in B(j) /\ j \notin B(i)
    <3>1. \A m \in I : m <= i => m <= j
      BY <1>4
    <3>2. j <= j /\ ~(j <= i)
      BY <1>4
    <3> QED
      BY <3>1, <3>2
  <2>2. B(i) # B(j)
    BY <2>1
  <2> QED
    BY <1>2, <2>1, <2>2, FS_Subset
<1>5. rank \in [I -> 1 .. c]
  BY <1>3
<1>6. \A i, j \in I : rank[i] = rank[j] => i = j
  <2> SUFFICES ASSUME NEW i \in I, NEW j \in I, i # j PROVE rank[i] # rank[j]
    OBVIOUS
  <2>1. i < j \/ j < i
    OBVIOUS
  <2> QED
    BY <1>4, <2>1
<1>7. \A i \in I : rank[i] = Cardinality({j \in I : j <= i})
  OBVIOUS
<1> HIDE DEF rank, c, B
<1>8. rank \in Injection(I, 1 .. c)
  BY <1>5, <1>6 DEF Injection, IsInjective
<1>9. rank \in Surjection(I, 1 .. c)
  BY <1>1, <1>8, FS_Injection DEF c
<1>10. PICK i \in I : rank[i] = k
  BY <1>9 DEF Surjection, c
<1> QED
  BY <1>7, <1>10 DEF Nth

LEMMA PickedSublist ==
  ASSUME NEW E, NEW L \in Seq(E), NEW I \in SUBSET (DOMAIN L)
  PROVE  Picked(L, I) \in Seq(E) /\ \E k : Sublist(L, Picked(L, I), k)
<1> DEFINE n == Len(L)
           c == Cardinality(I)
           K == Picked(L, I)
           k == [j \in 1 .. c |-> Nth(I, j)]
<1>1. n \in Nat /\ DOMAIN L = 1 .. n /\ I \in SUBSET (1 .. n) /\ \A j \in 1 .. n : L[j] \in E
  OBVIOUS
<1>2. c \in Nat
  <2>1. IsFiniteSet(1 .. n)
    BY <1>1, FS_Interval
  <2> QED
    BY <1>1, <2>1, FS_Subset, FS_CardinalityType
<1>3. \A j \in 1 .. c : k[j] \in I /\ Cardinality({i \in I : i <= k[j]}) = j
  BY <1>1, NthProperties
<1>4. K = [j \in 1 .. c |-> L[k[j]]] /\ k = [j \in 1 .. c |-> k[j]]
  BY DEF Picked
<1> HIDE DEF k, c, K
<1>5. K \in [1 .. c -> E]
  BY <1>1, <1>3, <1>4
<1>6. K \in Seq(E) /\ Len(K) = c
  BY <1>2, <1>4, <1>5
<1>7. \A i, j \in 1 .. c : k[i] = k[j] => i = j
  <2> SUFFICES ASSUME NEW i \in 1 .. c, NEW j \in 1 .. c, k[i] = k[j] PROVE i = j
    OBVIOUS
  <2>1. i = Cardinality({m \in I : m <= k[i]}) /\ j = Cardinality({m \in I : m <= k[j]})
    BY <1>3
  <2> QED
    BY <2>1
<1>8. Sublist(L, K, k)
  BY <1>1, <1>3, <1>4, <1>6, <1>7 DEF Sublist
<1> QED
  BY <1>6, <1>8 DEF K

LEMMA StartStep ==
  ASSUME WorkspaceSetups, IInv, NEW S, Start(S), Live = {}, queue' = <<>>,
         UNCHANGED <<setup, proc, project>>,
         S.patches \in Seq(Patch), Distinct(S.patches),
         \A i \in 1 .. Len(S.patches) : PatchFits(S.patches[i]) /\ S.patches[i].h <= session,
         MarksOK(S.bookmarks),
         S.pe = NoFun \/ ~S.target \/ (S.pe = pe /\ S.patches = patches)
  PROVE  IInv'
<1>1. /\ ProcessFiles' = ProcessFiles /\ Libs' = Libs /\ Rva' = Rva /\ Pid' = Pid
      /\ Live' = {} /\ session \in Nat /\ PIDs \subseteq Pid
  BY DEF ProcessFiles, ChildFiles, Libs, Rva, Pid, Live, IInv, World
<1> DEFINE Refuses == S.target /\ Target \in DOMAIN S.pe
<1>2. ASSUME Refuses
      PROVE  World' /\ Family' /\ ListOK(patches)' /\ MarksOK(bookmarks)'
  <2>1. S.pe = pe /\ S.patches = patches
    BY <1>2 DEF NoFun
  <2>2. /\ pe' = Without(pe, {Target}) /\ UNCHANGED <<PIDs, session, active>>
        /\ patches' = patches /\ bookmarks' = S.bookmarks
    BY <1>2, <2>1 DEF Start
  <2>3. /\ \A f \in DOMAIN pe' : f \in DOMAIN pe /\ pe'[f] = pe[f]
        /\ pe' = [f \in DOMAIN pe' |-> pe'[f]]
    BY <2>2 DEF Without
  <2>4. Family'
    <3>1. Family
      BY DEF IInv
    <3>2. pe' \in [DOMAIN pe' -> PIDs]
      BY <2>3, <3>1 DEF Family
    <3> QED
      BY <1>1, <2>2, <2>3, <3>1, <3>2 DEF Family
  <2>5. World' /\ ListOK(patches)'
    <3>1. World'
      BY <2>2, WorldSame DEF IInv
    <3>2. StateOK(State)'
      <4>1. PICK st : st = State
        OBVIOUS
      <4>2. StateOK(st)'
        BY <2>2, <4>1, StateSame DEF IInv
      <4>3. State' = st
        BY <2>2, <4>1 DEF State, Live
      <4> QED
        BY <4>2, <4>3 DEF StateOK
    <3> QED
      BY <3>1, <3>2 DEF StateOK, State
  <2>6. MarksOK(bookmarks)'
    <3>1. MarksOK(bookmarks')
      BY <2>2
    <3> QED
      BY <1>1, <3>1 DEF MarksOK, Mark, MarkFits
  <2> QED
    BY <2>4, <2>5, <2>6
<1>3. ASSUME ~Refuses
      PROVE  World' /\ Family' /\ ListOK(patches)' /\ MarksOK(bookmarks)'
  <2>1. /\ pe' = NoFun /\ PIDs' = {} /\ session' = session + 1 /\ active' = TRUE
        /\ patches' = IF S.target THEN S.patches ELSE <<>>
        /\ bookmarks' = IF S.target THEN S.bookmarks ELSE <<>>
    BY <1>3 DEF Start
  <2>2. World'
    BY <1>1, <2>1 DEF World, IInv
  <2>3. Family'
    BY <1>1, <2>1 DEF Family, NoFun
  <2>4. /\ patches' \in Seq(Patch) /\ Distinct(patches')
        /\ \A i \in 1 .. Len(patches') : PatchFits(patches'[i]) /\ patches'[i].h <= session
    BY <2>1 DEF Distinct
  <2>5. ListOK(patches)'
    <3>1. PICK ps : ps = patches'
      OBVIOUS
    <3>2. ASSUME NEW i \in 1 .. Len(ps) PROVE PatchFits(ps[i])' /\ PatchHere(ps[i])'
      <4>0. PatchFits(ps[i]) /\ ps[i].h <= session /\ ps[i] \in Patch
        BY <2>4, <3>1
      <4>1. PatchFits(ps[i]) /\ ps[i].h <= session /\ ps[i].h \in Nat
        BY <4>0 DEF Patch
      <4>2. ps[i].h <= session + 1 /\ ps[i].h # session + 1
        BY <1>1, <4>1
      <4> QED
        BY <1>1, <2>1, <4>1, <4>2 DEF PatchFits, PatchHere, Reached
    <3>3. ListOK(ps)'
      BY <1>1, <2>4, <3>1, <3>2 DEF ListOK, Patch, Distinct, Together, Reached
    <3> QED
      BY <3>1, <3>3 DEF ListOK
  <2>6. MarksOK(bookmarks)'
    <3>1. MarksOK(bookmarks')
      BY <2>1 DEF MarksOK
    <3> QED
      BY <1>1, <3>1 DEF MarksOK, Mark, MarkFits
  <2> QED
    BY <2>2, <2>3, <2>5, <2>6
<1>4. World' /\ Family' /\ ListOK(patches)' /\ MarksOK(bookmarks)'
  BY <1>2, <1>3
<1>5. StateOK(State)'
  <2>1. State' = [ps |-> patches', mem |-> [p \in {} |-> proc'[p].mem]]
    BY <1>1 DEF State
  <2>2. PICK ps, mem : State' = [ps |-> ps, mem |-> mem] /\ ps = patches' /\ mem = [p \in {} |-> mem[p]]
    BY <2>1
  <2>3. MemOK(ps, mem)'
    BY <1>1, <2>2 DEF MemOK, MemShape
  <2>4. ListOK(ps)'
    BY <1>4, <2>2 DEF ListOK
  <2>5. StateOK([ps |-> ps, mem |-> mem])'
    BY <2>3, <2>4 DEF StateOK
  <2> QED
    BY <2>2, <2>5 DEF StateOK
<1>6. QueueOK' /\ ServedOK' /\ ProjectOK'
  <2>1. QueueOK'
    BY DEF QueueOK
  <2>2. ProjectOK'
    BY ProjectSame DEF IInv
  <2> QED
    BY <1>1, <2>1, <2>2 DEF ServedOK
<1> QED
  BY <1>4, <1>5, <1>6 DEF IInv

LEMMA ReadProperties ==
  ASSUME NEW E, NEW L \in Seq(E), NEW K, NEW I,
         K = Picked(L, I), I \subseteq DOMAIN L
  PROVE  K \in Seq(E) /\ \E k : Sublist(L, K, k)
BY PickedSublist

(* action_DebugStart, from the menu, for a new file and for a project.     *)
LEMMA BeginStep ==
  ASSUME WorkspaceSetups, IInv, DebugStart \/ LoadProject \/ (OpenNewFile /\ ~active)
  PROVE  IInv'
<1>1. /\ queue' = <<>> /\ ~active /\ UNCHANGED <<setup, proc, project>>
      /\ Live = {}
  <2>1. queue' = <<>> /\ ~active /\ UNCHANGED <<setup, proc, project>>
    BY DEF DebugStart, LoadProject, OpenNewFile, Free, WorkspaceSetups
  <2> QED
    BY <2>1 DEF IInv, World
<1>2. /\ patches \in Seq(Patch) /\ Distinct(patches) /\ MarksOK(bookmarks)
      /\ \A i \in 1 .. Len(patches) : PatchFits(patches[i]) /\ patches[i].h <= session
  BY DEF IInv, StateOK, State, ListOK, PatchHere
<1>3. CASE DebugStart
  <2>1. PICK S : S = Tables
    OBVIOUS
  <2>2. S.pe = pe /\ S.target = target /\ S.patches = patches /\ S.bookmarks = bookmarks
    BY <2>1 DEF Tables
  <2>3. Start(S)
    BY <1>3, <2>1 DEF DebugStart
  <2> QED
    BY <1>1, <1>2, <2>2, <2>3, StartStep
<1>4. CASE OpenNewFile /\ ~active
  <2>1. PICK S : S = [Tables EXCEPT !.target = FALSE]
    OBVIOUS
  <2>2. S.pe = pe /\ S.target = FALSE /\ S.patches = patches /\ S.bookmarks = bookmarks
    BY <2>1 DEF Tables
  <2>3. Start(S)
    BY <1>4, <2>1 DEF OpenNewFile
  <2> QED
    BY <1>1, <1>2, <2>2, <2>3, StartStep
<1>5. CASE LoadProject
  <2> DEFINE ps == Read(project.patches, ReadPatchData)
             bs == Read(project.bookmarks, ReadBookmarkData)
  <2>1. PICK S : S = [pe |-> NoFun, target |-> TRUE, patches |-> ps, bookmarks |-> bs]
    OBVIOUS
  <2>2. Start(S)
    BY <1>5, <2>1 DEF LoadProject
  <2>3. S.pe = NoFun /\ S.target = TRUE /\ S.patches = ps /\ S.bookmarks = bs
    BY <2>1
  <2>4. /\ project.patches \in Seq(Patch) /\ Distinct(project.patches)
        /\ \A i \in 1 .. Len(project.patches) :
             PatchFits(project.patches[i]) /\ project.patches[i].h = 0
        /\ project.bookmarks \in Seq(Mark)
        /\ \A i \in 1 .. Len(project.bookmarks) : MarkFits(project.bookmarks[i])
        /\ session \in Nat
    BY DEF IInv, ProjectOK, MarksOK, World
  <2>5. ps \in Seq(Patch) /\ \E k : Sublist(project.patches, ps, k)
    <3> DEFINE I == {i \in DOMAIN project.patches : ReadPatchData(project.patches[i])}
    <3>1. ps = Picked(project.patches, I) /\ I \subseteq DOMAIN project.patches
      BY DEF Read
    <3> HIDE DEF I, ps
    <3> QED
      BY <2>4, <3>1, ReadProperties
  <2>6. bs \in Seq(Mark) /\ \E k : Sublist(project.bookmarks, bs, k)
    <3> DEFINE I == {i \in DOMAIN project.bookmarks : ReadBookmarkData(project.bookmarks[i])}
    <3>1. bs = Picked(project.bookmarks, I) /\ I \subseteq DOMAIN project.bookmarks
      BY DEF Read
    <3> HIDE DEF I, bs
    <3> QED
      BY <2>4, <3>1, ReadProperties
  <2> HIDE DEF ps, bs
  <2>7. Distinct(ps) /\ \A i \in 1 .. Len(ps) : PatchFits(ps[i]) /\ ps[i].h <= session
    <3>1. PICK k : Sublist(project.patches, ps, k)
      BY <2>5
    <3>2. Distinct(ps)
      BY <2>4, <2>5, <3>1, SublistOK
    <3>3. \A i \in 1 .. Len(ps) : PatchFits(ps[i]) /\ ps[i].h = 0
      BY <2>4, <3>1 DEF Sublist
    <3> QED
      BY <2>4, <3>2, <3>3
  <2>8. MarksOK(bs)
    BY <2>4, <2>6 DEF MarksOK, Sublist
  <2> QED
    BY <1>1, <2>2, <2>3, <2>5, <2>7, <2>8, StartStep
<1> QED
  BY <1>3, <1>4, <1>5

LEMMA ResetKeeps ==
  ASSUME WorkspaceSetups, IInv
  PROVE  Relabelled(patches, ResetPatches)
<1> DEFINE qs == ResetPatches
<1>1. patches \in Seq(Patch) /\ DOMAIN patches = 1 .. Len(patches) /\ Len(patches) \in Nat
  BY DEF IInv, StateOK, ListOK, State
<1>2. ASSUME NEW i \in 1 .. Len(patches) PROVE qs[i] \in Patch /\ SameKeys(patches[i], qs[i])
  <2>1. patches[i] \in Patch
    BY <1>1
  <2>2. qs[i] = [patches[i] EXCEPT !.saved = FALSE, !.written = FALSE]
    BY <1>1 DEF ResetPatches
  <2> HIDE DEF qs
  <2> QED
    BY <2>1, <2>2 DEF Patch, SameKeys
<1>3. qs = [i \in 1 .. Len(patches) |-> qs[i]]
  BY <1>1 DEF ResetPatches
<1> HIDE DEF qs
<1>4. qs \in [1 .. Len(patches) -> Patch]
  BY <1>2, <1>3
<1>5. qs \in Seq(Patch) /\ Len(qs) = Len(patches)
  BY <1>1, <1>4
<1> QED
  BY <1>2, <1>5 DEF Relabelled, qs

LEMMA TerminatedStep ==
  ASSUME WorkspaceSetups, IInv, OnDebuggerTerminated
  PROVE  IInv'
<1>1. /\ queue # <<>> /\ queue' = Tail(queue) /\ queue' = <<>> /\ Live = {} /\ ~active
      /\ UNCHANGED <<setup, proc, project>>
  <2>1. /\ queue # <<>> /\ Head(queue).sig = "terminated" /\ queue' = Tail(queue)
        /\ UNCHANGED <<setup, proc, project>>
    BY DEF OnDebuggerTerminated
  <2>2. /\ queue \in Seq(Signal) /\ Len(queue) \in Nat /\ Head(queue) = queue[1]
        /\ SignalOK(queue[1], 1 = Len(queue))
    BY <2>1, HeadFacts DEF IInv
  <2>3. ~active /\ Len(queue) = 1
    BY <2>1, <2>2 DEF SignalOK
  <2>4. Tail(queue) \in Seq(Signal) /\ Len(Tail(queue)) = 0
    BY <2>1, <2>2, <2>3, HeadTailProperties
  <2>5. Tail(queue) = <<>>
    BY <2>4, EmptySeq
  <2>6. Live = {}
    BY <2>3 DEF IInv, World
  <2> QED
    BY <2>1, <2>3, <2>5, <2>6
<1>2. Relabelled(patches, ResetPatches)
  BY ResetKeeps
<1>3. StateOK(State) /\ State.ps = patches /\ MarksOK(bookmarks) /\ ListOK(patches)
  BY DEF IInv, State, StateOK
<1> DEFINE ps == ResetPatches
<1>4. /\ ps \in Seq(Patch) /\ Distinct(ps)
      /\ \A i \in 1 .. Len(ps) : PatchFits(ps[i]) /\ ps[i].h <= session
  <2> HIDE DEF ps
  <2>1. ListOK(ps)
    BY <1>2, <1>3, RelabelledOK DEF ps
  <2> QED
    BY <2>1 DEF ListOK, PatchHere
<1> HIDE DEF ps
<1>5. CASE isRestart
  <2>1. PICK S : S = [Tables EXCEPT !.pe = NoFun, !.patches = ps]
    OBVIOUS
  <2>2. S.pe = NoFun /\ S.patches = ps /\ S.bookmarks = bookmarks
    BY <2>1 DEF Tables
  <2>3. Start(S)
    BY <1>1, <1>5, <2>1 DEF OnDebuggerTerminated, ps
  <2> QED
    BY <1>1, <1>3, <1>4, <2>2, <2>3, StartStep
<1>6. CASE ~isRestart
  <2>1. pe' = NoFun /\ patches' = ps /\ UNCHANGED <<PIDs, session, active, target, bookmarks>>
    BY <1>1, <1>6 DEF OnDebuggerTerminated, ps
  <2>2. StateOK([ps |-> ps, mem |-> State.mem])
    BY <1>1, <1>2, <1>3, RelabelledState DEF ps
  <2>3. Family'
    <3>1. Live' = {} /\ Family
      BY <1>1 DEF Live, IInv
    <3> QED
      BY <2>1, <3>1 DEF Family, NoFun
  <2>4. ProjectOK' /\ MarksOK(bookmarks')
    BY <1>1, <1>3, <2>1, ProjectSame DEF IInv
  <2> QED
    BY <1>1, <2>1, <2>2, <2>3, <2>4, QuietStep
<1> QED
  BY <1>5, <1>6

-----------------------------------------------------------------------------
(* The debugger.                                                           *)

(* What the debugger queues comes after everything, and the end of the     *)
(* session after that.                                                     *)
LEMMA QueueGrown ==
  ASSUME QueueOK, active, UNCHANGED <<setup, session>>, PIDs \subseteq PIDs',
         \A p \in PIDs : p \in Live' => p \in Live /\ (proc[p].ep => proc'[p].ep),
         NEW more \in Seq(Signal), queue' = queue \o more,
         \A i \in 1 .. Len(more) : SignalOK(more[i], i = Len(more))'
  PROVE  /\ QueueOK'
         /\ \A i \in 1 .. Len(queue) : i \in 1 .. Len(queue') /\ queue'[i] = queue[i]
         /\ \A i \in 1 .. Len(more) :
              Len(queue) + i \in 1 .. Len(queue') /\ queue'[Len(queue) + i] = more[i]
<1>1. queue \in Seq(Signal) /\ Len(queue) \in Nat /\ Len(more) \in Nat
  BY DEF QueueOK
<1>2. /\ queue' \in Seq(Signal) /\ Len(queue') = Len(queue) + Len(more)
      /\ \A i \in 1 .. Len(queue) + Len(more) :
           queue'[i] = IF i <= Len(queue) THEN queue[i] ELSE more[i - Len(queue)]
  BY <1>1, ConcatProperties
<1>3. ASSUME NEW i \in 1 .. Len(queue) PROVE i \in 1 .. Len(queue') /\ queue'[i] = queue[i]
  BY <1>1, <1>2
<1>4. ASSUME NEW i \in 1 .. Len(more)
      PROVE  Len(queue) + i \in 1 .. Len(queue') /\ queue'[Len(queue) + i] = more[i]
  <2>1. Len(queue) + i \in 1 .. Len(queue) + Len(more) /\ ~(Len(queue) + i <= Len(queue))
        /\ (Len(queue) + i) - Len(queue) = i
    BY <1>1
  <2> QED
    BY <1>2, <2>1
<1>5. ASSUME NEW i \in 1 .. Len(queue') PROVE SignalOK(queue[i], i = Len(queue))'
  <2>1. PICK e : e = queue'[i]
    OBVIOUS
  <2>2. CASE i <= Len(queue)
    <3>1. i \in 1 .. Len(queue) /\ e = queue[i]
      BY <1>1, <1>2, <2>1, <2>2
    <3>2. SignalOK(e, i = Len(queue))
      BY <3>1 DEF QueueOK
    <3>3. e.sig # "terminated"
      BY <3>2 DEF SignalOK
    <3> QED
      BY <2>1, <3>2, <3>3 DEF SignalOK
  <2>3. CASE ~(i <= Len(queue))
    <3>1. PICK j \in 1 .. Len(more) : i = Len(queue) + j
      <4>1. i - Len(queue) \in 1 .. Len(more) /\ i = Len(queue) + (i - Len(queue))
        BY <1>1, <1>2, <2>3
      <4> QED
        BY <4>1
    <3>2. e = more[j] /\ (i = Len(queue') <=> j = Len(more))
      <4>1. e = more[j]
        BY <1>4, <2>1, <3>1
      <4>2. i = Len(queue') <=> j = Len(more)
        <5>1. PICK m \in Nat, n \in Nat : m = Len(queue) /\ n = Len(more)
          BY <1>1
        <5>2. i = m + j /\ Len(queue') = m + n /\ j \in Int
          BY <1>2, <3>1, <5>1
        <5>3. ASSUME m + j = m + n PROVE j = n
          BY <5>1, <5>2, <5>3
        <5>4. ASSUME j = n PROVE m + j = m + n
          BY <5>4
        <5> QED
          BY <5>1, <5>2, <5>3, <5>4
      <4> QED
        BY <4>1, <4>2
    <3>3. SignalOK(more[j], j = Len(more))'
      OBVIOUS
    <3> QED
      BY <2>1, <3>2, <3>3 DEF SignalOK
  <2> QED
    BY <2>2, <2>3
<1>6. Signal' = Signal
  BY DEF Signal, Pid
<1> QED
  BY <1>2, <1>3, <1>4, <1>5, <1>6 DEF QueueOK

LEMMA ProcessSame ==
  ASSUME NEW x, ProcessOK(x), UNCHANGED setup
  PROVE  ProcessOK(x)'
<1>1. ProcessFiles' = ProcessFiles /\ Libs' = Libs /\ Rva' = Rva
  BY DEF ProcessFiles, ChildFiles, Libs, Rva
<1> QED
  BY <1>1 DEF ProcessOK, Cells, Loads

(* A process that comes has no patch of this session; one that stays is    *)
(* where it was.                                                           *)
LEMMA MovedState ==
  ASSUME StateOK(State), UNCHANGED <<setup, session, patches>>, PIDs \subseteq PIDs', Org \in Byte,
         \A p \in Live' :
           \/ /\ p \in Live /\ proc'[p].file = proc[p].file /\ proc'[p].at = proc[p].at
              /\ proc'[p].mem = proc[p].mem
           \/ p \notin PIDs /\ proc'[p].mem = [a \in Cells(proc'[p].at) |-> Org]
  PROVE  StateOK(State)'
<1>1. ProcessFiles' = ProcessFiles /\ Libs' = Libs /\ Rva' = Rva /\ Pid' = Pid
  BY DEF ProcessFiles, ChildFiles, Libs, Rva, Pid
<1>2. /\ ListOK(patches) /\ MemOK(patches, State.mem) /\ State.ps = patches
      /\ \A p \in Live : State.mem[p] = proc[p].mem
  BY DEF StateOK, State
<1>3. PICK ps, mem : ps = patches' /\ mem = [p \in Live' |-> proc'[p].mem]
  OBVIOUS
<1>4. \A x : Cells(x)' = Cells(x)
  BY <1>1 DEF Cells
<1>5. ASSUME NEW i \in 1 .. Len(ps) PROVE PatchFits(ps[i])' /\ PatchHere(ps[i])'
  <2>1. PatchFits(ps[i]) /\ PatchHere(ps[i])
    BY <1>2, <1>3 DEF ListOK
  <2>2. PatchFits(ps[i])'
    BY <1>1, <2>1 DEF PatchFits
  <2>3. PatchHere(ps[i])'
    BY <2>1 DEF PatchHere, Reached
  <2> QED
    BY <2>2, <2>3
<1>6. ListOK(ps)'
  <2>1. Together(ps)'
    <3>1. \A i \in 1 .. Len(ps) : PatchHere(ps[i])
      BY <1>2, <1>3 DEF ListOK
    <3>2. \A i \in 1 .. Len(ps) : Reached(ps[i])' => Reached(ps[i])
      BY <3>1 DEF PatchHere, Reached
    <3> QED
      BY <1>2, <1>3, <3>2 DEF ListOK, Together
  <2> QED
    BY <1>1, <1>2, <1>3, <1>5, <2>1 DEF ListOK, Patch, Distinct
<1>7. ASSUME NEW p \in Live'
      PROVE  /\ mem[p] \in [Cells(proc'[p].at) -> Byte]
             /\ \A a \in Cells(proc'[p].at) : CellOK(ps, mem, p, a)'
  <2>1. CASE p \in Live /\ proc'[p].at = proc[p].at /\ proc'[p].mem = proc[p].mem
    <3>1. mem[p] = State.mem[p] /\ State.mem[p] \in [Cells(proc[p].at) -> Byte]
      BY <1>2, <1>3, <2>1 DEF MemOK, MemShape
    <3>2. ASSUME NEW a \in Cells(proc[p].at) PROVE CellOK(ps, mem, p, a)'
      <4>1. CellOK(ps, State.mem, p, a)
        BY <1>2, <1>3, <2>1 DEF MemOK
      <4>2. \A x : Shown(x, p, a)' <=> Shown(x, p, a)
        BY <2>1 DEF Shown, Reached
      <4> QED
        BY <3>1, <4>1, <4>2 DEF CellOK
    <3> QED
      BY <2>1, <3>1, <3>2
  <2>2. CASE p \notin PIDs /\ proc'[p].mem = [a \in Cells(proc'[p].at) |-> Org]
    <3>1. mem[p] = [a \in Cells(proc'[p].at) |-> Org]
      BY <1>3, <2>2
    <3>2. ASSUME NEW i \in 1 .. Len(ps), NEW a PROVE ~Shown(ps[i], p, a)'
      <4>1. PatchHere(ps[i])
        BY <1>2, <1>3 DEF ListOK
      <4> QED
        BY <2>2, <4>1 DEF Shown, Reached, PatchHere
    <3> QED
      BY <3>1, <3>2 DEF CellOK
  <2> QED
    BY <2>1, <2>2
<1>8. MemOK(ps, mem)'
  <2>1. mem = [p \in Live' |-> mem[p]]
    BY <1>3
  <2> QED
    BY <1>4, <1>7, <2>1 DEF MemOK, MemShape
<1>9. StateOK([ps |-> ps, mem |-> mem])'
  BY <1>6, <1>8 DEF StateOK
<1>10. State' = [ps |-> ps, mem |-> mem]
  BY <1>3 DEF State
<1> QED
  BY <1>9, <1>10 DEF StateOK

LEMMA SigFacts ==
  ASSUME NEW f, NEW p, NEW sig
  PROVE  /\ Sig(sig, f, p).sig = sig /\ Sig(sig, f, p).file = f /\ Sig(sig, f, p).pid = p
         /\ Sig(sig, f, p).h = session
         /\ Sig(sig, f, p) = [sig |-> sig, file |-> f, pid |-> p, h |-> session]
BY DEF Sig

(* There is room for a second process only if the setup has childs, and    *)
(* the child is of another file then.                                      *)
LEMMA CreateStep ==
  ASSUME WorkspaceSetups, IInv, NEW p \in Pid, NEW f \in ProcessFiles, NEW at \in Loads(f),
         CreateProcess(p, f, at)
  PROVE  IInv'
<1>1. /\ active /\ p \notin PIDs /\ PIDs' = PIDs \cup {p} /\ pe' = OpenFile(f, p)
      /\ PIDs = {} => f = Target
      /\ PIDs # {} => f \in ChildFiles
      /\ queue' = Append(queue, Sig("newpid", f, p))
      /\ UNCHANGED <<setup, session, active, patches, bookmarks, project>>
  BY DEF CreateProcess
<1>2. World /\ Family /\ QueueOK /\ StateOK(State) /\ ServedOK
  BY DEF IInv
<1>3. Live \subseteq PIDs /\ PIDs \subseteq Pid /\ session \in Nat /\ setup \in Setups
  BY <1>2 DEF World
<1>4. /\ Live' = Live \cup {p} /\ p \notin Live
      /\ \A q \in Live : proc'[q] = proc[q] /\ q # p
      /\ proc'[p] = [file |-> f, at |-> at, ep |-> FALSE, mem |-> [a \in Cells(at) |-> Org]]
      /\ proc' = [q \in Live' |-> proc'[q]]
  <2>1. proc' = [q \in Live \cup {p} |->
          IF q # p THEN proc[q]
          ELSE [file |-> f, at |-> at, ep |-> FALSE, mem |-> [a \in CellsOf(at) |-> Org]]]
    BY DEF CreateProcess
  <2>2. CellsOf(at) = Cells(at)
    BY DEF WorkspaceSetups, Cells, CellsOf
  <2>3. Live' = Live \cup {p} /\ p \notin Live
    BY <1>1, <1>3, <2>1 DEF Live
  <2>4. \A q \in Live : proc'[q] = proc[q] /\ q # p
    BY <2>1, <2>3
  <2>5. proc'[p] = [file |-> f, at |-> at, ep |-> FALSE, mem |-> [a \in Cells(at) |-> Org]]
    BY <2>1, <2>2
  <2>6. proc' = [q \in Live' |-> proc'[q]]
    BY <2>1, <2>3
  <2> QED
    BY <2>3, <2>4, <2>5, <2>6
<1>5. Org \in Byte /\ f \in File /\ Target \in File
  BY <1>3, SetupFacts
<1>6. World'
  <2>1. ASSUME NEW q \in Live' PROVE ProcessOK(proc[q])'
    <3>1. PICK x : x = proc'[q]
      OBVIOUS
    <3>2. ProcessOK(x)
      <4>1. CASE q \in Live
        BY <1>2, <1>4, <3>1, <4>1 DEF World
      <4>2. CASE q = p
        <5>1. x = [file |-> f, at |-> at, ep |-> FALSE, mem |-> [a \in Cells(at) |-> Org]]
          BY <1>4, <3>1, <4>2
        <5>2. /\ x = [file |-> x.file, at |-> x.at, ep |-> x.ep, mem |-> x.mem]
              /\ x.file = f /\ x.at = at /\ x.ep = FALSE /\ x.mem = [a \in Cells(at) |-> Org]
          BY <5>1
        <5>3. x.mem \in [Cells(x.at) -> Byte]
          BY <1>5, <5>2
        <5> QED
          BY <5>2, <5>3 DEF ProcessOK
      <4> QED
        BY <1>4, <4>1, <4>2
    <3>3. ProcessOK(x)'
      BY <1>1, <3>2, ProcessSame
    <3> QED
      BY <3>1, <3>3 DEF ProcessOK
  <2> QED
    BY <1>1, <1>3, <1>4, <2>1 DEF World, Pid
<1>7. Family'
  <2>1. PIDs # {} => /\ Target \notin ChildFiles
                     /\ \A q, r, t \in Pid : q = r \/ r = t \/ q = t
    BY <1>1, <1>3 DEF WorkspaceSetups, OneFileEach, ChildFiles, Pid
  <2>2. CASE PIDs = {}
    <3>1. Live = {} /\ DOMAIN pe = {}
      BY <1>2, <1>3, <2>2 DEF Family
    <3>2. DOMAIN pe' = {Target} /\ pe'[Target] = p /\ f = Target
          /\ pe' = [g \in DOMAIN pe' |-> pe'[g]]
      BY <1>1, <2>2, <3>1 DEF OpenFile
    <3>3. PIDs' = {p} /\ Live' = {p} /\ proc'[p].file = Target
      BY <1>1, <1>4, <2>2, <3>1, <3>2
    <3> QED
      BY <3>2, <3>3 DEF Family
  <2>3. CASE PIDs # {}
    <3>1. PICK q \in PIDs : PIDs = {q}
      <4>1. PICK q \in PIDs : TRUE
        BY <2>3
      <4>2. \A r \in PIDs : r = q
        BY <1>1, <1>3, <2>1, <2>3, <4>1
      <4> QED
        BY <4>1, <4>2
    <3>2. DOMAIN pe \subseteq {Target} /\ f # Target /\ f \notin DOMAIN pe /\ p # q
      BY <1>1, <1>2, <2>1, <2>3, <3>1 DEF Family
    <3>3. /\ DOMAIN pe' = DOMAIN pe \cup {f} /\ pe'[f] = p
          /\ \A g \in DOMAIN pe : pe'[g] = pe[g] /\ pe[g] = q
          /\ pe' = [g \in DOMAIN pe' |-> pe'[g]]
      <4>1. pe' = [g \in DOMAIN pe \cup {f} |-> IF g = f THEN p ELSE pe[g]]
        BY <1>1, <3>2 DEF OpenFile
      <4>2. \A g \in DOMAIN pe : pe[g] \in PIDs
        BY <1>2 DEF Family
      <4> QED
        BY <3>1, <3>2, <4>1, <4>2
    <3>4. PIDs' = {p, q} /\ Live \subseteq {q} /\ proc'[p].file = f
      BY <1>1, <1>3, <1>4, <3>1
    <3>5. pe' \in [DOMAIN pe' -> PIDs']
      BY <3>1, <3>3, <3>4
    <3>6. /\ \A a, b, c \in PIDs' : a = b \/ b = c \/ a = c
          /\ \A a \in PIDs' : PIDs' # {a}
      BY <3>2, <3>4
    <3>7. \A a \in Live' : proc'[a].file \in DOMAIN pe' /\ pe'[proc'[a].file] = a
      <4>1. \A a \in Live : proc[a].file \in DOMAIN pe /\ pe[proc[a].file] = a
        BY <1>2 DEF Family
      <4> QED
        BY <1>4, <3>3, <3>4, <4>1
    <3>8. \A a \in Live' : \A g \in DOMAIN pe' : pe'[g] = a => g = proc'[a].file
      <4>1. \A a \in Live : \A g \in DOMAIN pe : pe[g] = a => g = proc[a].file
        BY <1>2 DEF Family
      <4> QED
        BY <1>4, <3>2, <3>3, <3>4, <4>1
    <3> QED
      BY <3>5, <3>6, <3>7, <3>8 DEF Family
  <2> QED
    BY <2>2, <2>3
<1>8. StateOK(State)'
  <2>1. ASSUME NEW q \in Live'
        PROVE  \/ /\ q \in Live /\ proc'[q].file = proc[q].file /\ proc'[q].at = proc[q].at
                  /\ proc'[q].mem = proc[q].mem
               \/ q \notin PIDs /\ proc'[q].mem = [a \in Cells(proc'[q].at) |-> Org]
    <3>1. CASE q \in Live
      BY <1>4, <3>1
    <3>2. CASE q = p
      BY <1>1, <1>4, <3>2
    <3> QED
      BY <1>4, <3>1, <3>2
  <2> QED
    BY <1>1, <1>2, <1>5, <2>1, MovedState
<1>9. /\ QueueOK'
      /\ \A i \in 1 .. Len(queue) : i \in 1 .. Len(queue') /\ queue'[i] = queue[i]
  <2>1. PICK e : e = Sig("newpid", f, p)
    OBVIOUS
  <2>2. e.sig = "newpid" /\ e.h = session /\ e \in Signal
    BY <1>3, <1>5, <2>1, SigFacts DEF Signal
  <2>3. <<e>> \in Seq(Signal) /\ Len(<<e>>) = 1 /\ <<e>>[1] = e
    BY <2>2
  <2>4. queue' = queue \o <<e>>
    BY <1>1, <1>2, <2>1, <2>2 DEF QueueOK
  <2>5. \A b : SignalOK(e, b)'
    BY <1>1, <2>2 DEF SignalOK
  <2>6. \A i \in 1 .. Len(<<e>>) : SignalOK(<<e>>[i], i = Len(<<e>>))'
    BY <2>3, <2>5
  <2>7. \A q \in PIDs : q \in Live' => q \in Live /\ (proc[q].ep => proc'[q].ep)
    BY <1>1, <1>4
  <2> QED
    BY <1>1, <1>2, <2>3, <2>4, <2>6, <2>7, QueueGrown
<1>10. ServedOK'
  <2>1. ASSUME NEW q \in Live', Served(q)' PROVE q \in Live /\ Served(q) /\ proc'[q] = proc[q]
    <3>1. q # p
      BY <1>4, <2>1 DEF Served
    <3>2. q \in Live /\ proc'[q] = proc[q]
      BY <1>4, <3>1
    <3> QED
      BY <1>9, <2>1, <3>2 DEF Served
  <2> QED
    BY <1>1, <1>2, <2>1 DEF ServedOK, ServedList
<1>11. MarksOK(bookmarks)' /\ ProjectOK'
  BY <1>1, ProjectSame DEF IInv, MarksOK, Mark, MarkFits, ProcessFiles, ChildFiles, Libs, Pid
<1> QED
  BY <1>6, <1>7, <1>8, <1>9, <1>10, <1>11 DEF IInv

LEMMA EntryStep ==
  ASSUME WorkspaceSetups, IInv, NEW p \in Pid, EntryPoint(p)
  PROVE  IInv'
<1>1. /\ p \in Live /\ proc' = [proc EXCEPT ![p].ep = TRUE]
      /\ pe' = [f \in DOMAIN pe \cup {proc[p].file} |-> IF f = proc[p].file THEN p ELSE pe[f]]
      /\ queue' = Append(queue, Sig("offsets", NoFile, p))
      /\ UNCHANGED <<setup, PIDs, session, active, patches, bookmarks, project>>
  BY DEF EntryPoint
<1>2. World /\ Family /\ QueueOK /\ StateOK(State) /\ ServedOK
  BY DEF IInv
<1>3. active /\ session \in Nat /\ setup \in Setups /\ p \in PIDs
  BY <1>1, <1>2 DEF World
<1>4. /\ Live' = Live /\ proc' = [q \in Live |-> proc'[q]]
      /\ \A q \in Live : /\ q # p => proc'[q] = proc[q]
                         /\ proc'[q].file = proc[q].file /\ proc'[q].at = proc[q].at
                         /\ proc'[q].mem = proc[q].mem /\ (proc[q].ep => proc'[q].ep)
                         /\ ProcessOK(proc'[q])
      /\ proc'[p].ep
  <2>1. proc = [q \in Live |-> proc[q]] /\ \A q \in Live : ProcessOK(proc[q])
    BY <1>2 DEF World
  <2>2. Live' = Live /\ proc' = [q \in Live |-> proc'[q]]
    BY <1>1, <2>1 DEF Live
  <2>3. /\ \A q \in Live : q # p => proc'[q] = proc[q]
        /\ proc'[p] = [proc[p] EXCEPT !.ep = TRUE]
    BY <1>1, <2>1
  <2>4. PICK x : x = proc[p]
    OBVIOUS
  <2>5. ProcessOK(x)
    BY <1>1, <2>1, <2>4
  <2>6. x = [file |-> x.file, at |-> x.at, ep |-> x.ep, mem |-> x.mem]
    BY <2>5 DEF ProcessOK
  <2>7. proc'[p] = [file |-> x.file, at |-> x.at, ep |-> TRUE, mem |-> x.mem]
    BY <2>3, <2>4, <2>6
  <2>8. ProcessOK(proc'[p])
    BY <2>5, <2>7 DEF ProcessOK
  <2> QED
    BY <2>1, <2>2, <2>3, <2>4, <2>7, <2>8
<1>5. Org \in Byte
  BY <1>3, SetupFacts
<1>6. World'
  <2>1. ASSUME NEW q \in Live' PROVE ProcessOK(proc[q])'
    <3>1. PICK x : x = proc'[q]
      OBVIOUS
    <3>2. ProcessOK(x)'
      BY <1>1, <1>4, <3>1, ProcessSame
    <3> QED
      BY <3>1, <3>2 DEF ProcessOK
  <2> QED
    BY <1>1, <1>2, <1>4, <2>1 DEF World, Pid
<1>7. Family'
  <2>1. pe' = pe
    <3>1. /\ proc[p].file \in DOMAIN pe /\ pe[proc[p].file] = p
          /\ pe = [f \in DOMAIN pe |-> pe[f]]
      BY <1>1, <1>2 DEF Family
    <3>2. DOMAIN pe \cup {proc[p].file} = DOMAIN pe
      BY <3>1
    <3> QED
      BY <1>1, <3>1, <3>2
  <2> QED
    BY <1>1, <1>2, <1>4, <2>1 DEF Family
<1>8. StateOK(State)'
  BY <1>1, <1>2, <1>4, <1>5, MovedState
<1>9. /\ QueueOK'
      /\ \A i \in 1 .. Len(queue) : i \in 1 .. Len(queue') /\ queue'[i] = queue[i]
      /\ \E i \in 1 .. Len(queue') : queue'[i].sig = "offsets" /\ queue'[i].pid = p
  <2>1. PICK e : e = Sig("offsets", NoFile, p)
    OBVIOUS
  <2>2. e.sig = "offsets" /\ e.pid = p /\ e.h = session /\ e \in Signal
    BY <1>3, <2>1, SigFacts DEF Signal
  <2>3. <<e>> \in Seq(Signal) /\ Len(<<e>>) = 1 /\ <<e>>[1] = e /\ 1 \in 1 .. Len(<<e>>)
    BY <2>2
  <2>4. queue' = queue \o <<e>>
    BY <1>1, <1>2, <2>1, <2>2 DEF QueueOK
  <2>5. \A b : SignalOK(e, b)'
    BY <1>1, <1>3, <1>4, <2>2 DEF SignalOK
  <2>6. \A i \in 1 .. Len(<<e>>) : SignalOK(<<e>>[i], i = Len(<<e>>))'
    BY <2>3, <2>5
  <2>7. \A q \in PIDs : q \in Live' => q \in Live /\ (proc[q].ep => proc'[q].ep)
    BY <1>4
  <2>8. /\ QueueOK'
        /\ \A i \in 1 .. Len(queue) : i \in 1 .. Len(queue') /\ queue'[i] = queue[i]
        /\ \A i \in 1 .. Len(<<e>>) :
              Len(queue) + i \in 1 .. Len(queue') /\ queue'[Len(queue) + i] = <<e>>[i]
    BY <1>1, <1>2, <1>3, <2>3, <2>4, <2>6, <2>7, QueueGrown
  <2> QED
    BY <2>2, <2>3, <2>8
<1>10. ServedOK'
  <2>1. ASSUME NEW q \in Live', Served(q)' PROVE q \in Live /\ Served(q) /\ proc'[q] = proc[q]
    <3>1. q # p
      BY <1>9, <2>1 DEF Served
    <3>2. q \in Live /\ proc'[q] = proc[q]
      BY <1>4, <3>1
    <3> QED
      BY <1>9, <2>1, <3>2 DEF Served
  <2> QED
    BY <1>1, <1>2, <2>1 DEF ServedOK, ServedList
<1>11. MarksOK(bookmarks)' /\ ProjectOK'
  BY <1>1, ProjectSame DEF IInv, MarksOK, Mark, MarkFits, ProcessFiles, ChildFiles, Libs, Pid
<1> QED
  BY <1>6, <1>7, <1>8, <1>9, <1>10, <1>11 DEF IInv

LEMMA ExitStep ==
  ASSUME WorkspaceSetups, IInv, NEW p \in Pid, ExitProcess(p)
  PROVE  IInv'
<1>1. /\ p \in Live /\ proc' = Without(proc, {p}) /\ active' = (Live # {p})
      /\ queue' = queue \o <<Sig("closed", NoFile, p)>> \o
                  (IF active' THEN <<>> ELSE <<Sig("terminated", NoFile, NoPid)>>)
      /\ UNCHANGED <<setup, pe, PIDs, session, patches, bookmarks, project>>
  BY DEF ExitProcess
<1>2. World /\ Family /\ QueueOK /\ StateOK(State) /\ ServedOK
  BY DEF IInv
<1>3. active /\ session \in Nat /\ setup \in Setups /\ p \in PIDs
  BY <1>1, <1>2 DEF World
<1>4. /\ Live' = Live \ {p} /\ proc' = [q \in Live' |-> proc'[q]]
      /\ \A q \in Live' : q \in Live /\ proc'[q] = proc[q]
  BY <1>1 DEF Live, Without
<1>5. Org \in Byte
  BY <1>3, SetupFacts
<1>6. World'
  <2>1. ASSUME NEW q \in Live' PROVE ProcessOK(proc[q])'
    <3>1. PICK x : x = proc'[q]
      OBVIOUS
    <3>2. ProcessOK(x)'
      BY <1>1, <1>2, <1>4, <3>1, ProcessSame DEF World
    <3> QED
      BY <3>1, <3>2 DEF ProcessOK
  <2>2. ~active' => Live' = {}
    BY <1>1, <1>4
  <2> QED
    BY <1>1, <1>2, <1>4, <2>1, <2>2 DEF World, Pid
<1>7. Family'
  <2>1. pe' \in [DOMAIN pe' -> PIDs'] /\ \A a, b, c \in PIDs' : a = b \/ b = c \/ a = c
    BY <1>1, <1>2 DEF Family
  <2>2. \A q \in PIDs' : PIDs' = {q} => /\ DOMAIN pe' \subseteq {Target}
                                       /\ (q \in Live' => proc'[q].file = Target)
    BY <1>1, <1>2, <1>4 DEF Family
  <2>3. ASSUME NEW q \in Live'
        PROVE  /\ proc'[q].file \in DOMAIN pe' /\ pe'[proc'[q].file] = q
               /\ \A f \in DOMAIN pe' : pe'[f] = q => f = proc'[q].file
    <3>1. q \in Live /\ proc'[q] = proc[q]
      BY <1>4
    <3>2. proc[q].file \in DOMAIN pe /\ pe[proc[q].file] = q
      BY <1>2, <3>1 DEF Family
    <3>3. \A f \in DOMAIN pe : pe[f] = q => f = proc[q].file
      BY <1>2, <3>1 DEF Family
    <3> QED
      BY <1>1, <3>1, <3>2, <3>3
  <2> QED
    BY <2>1, <2>2, <2>3 DEF Family
<1>8. StateOK(State)'
  BY <1>1, <1>2, <1>4, <1>5, MovedState
<1>9. /\ QueueOK'
      /\ \A i \in 1 .. Len(queue) : i \in 1 .. Len(queue') /\ queue'[i] = queue[i]
  <2>1. PICK e, t : e = Sig("closed", NoFile, p) /\ t = Sig("terminated", NoFile, NoPid)
    OBVIOUS
  <2>2. /\ e.sig = "closed" /\ e.pid = p /\ e.h = session /\ e \in Signal
        /\ t.sig = "terminated" /\ t.h = session /\ t \in Signal
    BY <1>3, <2>1, SigFacts DEF Signal
  <2>3. \A b : SignalOK(e, b)'
    BY <1>1, <1>3, <1>4, <2>2 DEF SignalOK
  <2>4. \A q \in PIDs : q \in Live' => q \in Live /\ (proc[q].ep => proc'[q].ep)
    BY <1>4
  <2>5. PICK more : /\ more \in Seq(Signal) /\ queue' = queue \o more
                    /\ \A i \in 1 .. Len(more) : SignalOK(more[i], i = Len(more))'
    <3>1. CASE active'
      <4>1. <<e>> \in Seq(Signal) /\ Len(<<e>>) = 1 /\ <<e>>[1] = e
        BY <2>2
      <4>2. queue' = queue \o <<e>>
        BY <1>1, <1>2, <2>1, <2>2, <3>1 DEF QueueOK
      <4>3. \A i \in 1 .. Len(<<e>>) : SignalOK(<<e>>[i], i = Len(<<e>>))'
        BY <2>3, <4>1
      <4> QED
        BY <4>1, <4>2, <4>3
    <3>2. CASE ~active'
      <4>1. PICK m : m = <<e>> \o <<t>>
        OBVIOUS
      <4>2. /\ <<e>> \in Seq(Signal) /\ Len(<<e>>) = 1 /\ <<e>>[1] = e
            /\ <<t>> \in Seq(Signal) /\ Len(<<t>>) = 1 /\ <<t>>[1] = t
        BY <2>2
      <4>3. m \in Seq(Signal) /\ Len(m) = 2 /\ m[1] = e /\ m[2] = t
        BY <4>1, <4>2, ConcatProperties
      <4>4. queue' = queue \o m
        <5>1. queue' = (queue \o <<e>>) \o <<t>>
          BY <1>1, <2>1, <3>2
        <5>2. queue \in Seq(Signal)
          BY <1>2 DEF QueueOK
        <5> QED
          BY <4>1, <4>2, <5>1, <5>2, ConcatAssociative
      <4>5. SignalOK(t, TRUE)'
        BY <1>1, <2>2, <3>2 DEF SignalOK
      <4>6. \A i \in 1 .. Len(m) : SignalOK(m[i], i = Len(m))'
        <5>1. \A i \in 1 .. 2 : i = 1 \/ i = 2
          OBVIOUS
        <5> QED
          BY <2>3, <4>3, <4>5, <5>1
      <4> QED
        BY <4>3, <4>4, <4>6
    <3> QED
      BY <3>1, <3>2
  <2> QED
    BY <1>1, <1>2, <1>3, <2>4, <2>5, QueueGrown
<1>10. ServedOK'
  <2>1. ASSUME NEW q \in Live', Served(q)' PROVE q \in Live /\ Served(q) /\ proc'[q] = proc[q]
    BY <1>4, <1>9, <2>1 DEF Served
  <2> QED
    BY <1>1, <1>2, <2>1 DEF ServedOK, ServedList
<1>11. MarksOK(bookmarks)' /\ ProjectOK'
  BY <1>1, ProjectSame DEF IInv, MarksOK, Mark, MarkFits, ProcessFiles, ChildFiles, Libs, Pid
<1> QED
  BY <1>6, <1>7, <1>8, <1>9, <1>10, <1>11 DEF IInv

-----------------------------------------------------------------------------
LEMMA InitInv ==
  ASSUME WorkspaceSetups, Init
  PROVE  IInv
<1>1. /\ setup \in Setups /\ pe = NoFun /\ proc = NoFun /\ PIDs = {} /\ session = 0
      /\ active = FALSE /\ queue = <<>> /\ patches = <<>> /\ bookmarks = <<>>
      /\ project = [patches |-> <<>>, bookmarks |-> <<>>] /\ Live = {}
  BY DEF Init, NoProject, Live, NoFun
<1>2. World
  BY <1>1 DEF World, NoFun
<1>3. Family
  BY <1>1 DEF Family, NoFun
<1>4. QueueOK /\ ServedOK
  BY <1>1 DEF QueueOK, ServedOK
<1>5. ListOK(<<>>) /\ MarksOK(<<>>)
  BY DEF ListOK, Distinct, Together, MarksOK
<1>6. StateOK(State)
  <2>1. PICK mem : State = [ps |-> <<>>, mem |-> mem] /\ mem = [p \in {} |-> mem[p]]
    BY <1>1 DEF State
  <2>2. MemOK(<<>>, mem)
    BY <1>1, <2>1 DEF MemOK, MemShape
  <2> QED
    BY <1>5, <2>1, <2>2 DEF StateOK
<1>7. ProjectOK
  <2>1. project.patches = <<>> /\ project.bookmarks = <<>>
    BY <1>1
  <2> QED
    BY <1>1, <1>5, <2>1 DEF ProjectOK, Distinct
<1> QED
  BY <1>1, <1>2, <1>3, <1>4, <1>5, <1>6, <1>7 DEF IInv

LEMMA NextInv ==
  ASSUME WorkspaceSetups, IInv, [Next]_vars
  PROVE  IInv'
<1>1. CASE UNCHANGED vars
  <2>1. /\ UNCHANGED <<setup, pe, proc, PIDs, session, active, patches, bookmarks, queue, project>>
        /\ UNCHANGED <<setup, project>>
    BY <1>1 DEF vars, debugger
  <2>2. ProjectOK' /\ MarksOK(bookmarks')
    BY <2>1, ProjectSame DEF IInv
  <2> QED
    BY <2>1, <2>2, MarkStep
<1>2. CASE Debugger
  <2>1. ASSUME NEW p \in Pid, NEW f \in {Target} \cup ChildFiles, NEW at \in Loads(f),
               CreateProcess(p, f, at)
        PROVE  IInv'
    BY <2>1, CreateStep DEF ProcessFiles
  <2>2. ASSUME NEW p \in Pid, EntryPoint(p) \/ ExitProcess(p) PROVE IInv'
    BY <2>2, EntryStep, ExitStep
  <2> QED
    BY <1>2, <2>1, <2>2 DEF Debugger
<1>3. CASE Slots
  BY <1>3, NewPIDStep, UpdateStep, ClosedStep, TerminatedStep DEF Slots
<1>4. CASE User
  <2>1. ASSUME DebugStart \/ LoadProject \/ OpenNewFile PROVE IInv'
    BY <2>1, BeginStep, RestartStep
  <2>2. ASSUME NEW p \in Live, NEW off \in DOMAIN proc[p].mem, NEW b \in Byte, AddNewPatch(p, off, b)
        PROVE  IInv'
    BY <2>2, AddStep
  <2>3. ASSUME NEW p \in Live, NEW off \in DOMAIN proc[p].mem, NEW comment \in Comment,
               BookmarkAdd(p, off, comment)
        PROVE  IInv'
    BY <2>3, BookmarkAddStep
  <2>4. ASSUME NEW off, \/ Redo(off) \/ Undo(off) \/ OnPatchRemove(off)
                        \/ SavePatch(SameOffset(patches, off))
        PROVE  IInv'
    BY <2>4, PatchStep, SaveStep
  <2>5. ASSUME NEW off,
               \/ BookmarkRemove(off)
               \/ \E name \in File, comment \in Comment : CellDataChanged(off, name, comment)
        PROVE  IInv'
    BY <2>5, BookmarkStep
  <2>6. ASSUME Restart \/ SaveProject \/ RemoveAllPatches \/ SavePatch(DOMAIN patches) PROVE IInv'
    BY <2>6, RestartStep, SaveProjectStep, PatchStep, SaveStep
  <2> QED
    BY <1>4, <2>1, <2>2, <2>3, <2>4, <2>5, <2>6 DEF User
<1> QED
  BY <1>1, <1>2, <1>3, <1>4 DEF Next

(* The types of the table, of the memory and of what is stored, of every   *)
(* reachable state, and what keeps patches apart.                          *)
THEOREM WorkspaceTyped == ASSUME WorkspaceSetups PROVE Spec => []IInv
<1>1. Init => IInv
  BY InitInv
<1>2. IInv /\ [Next]_vars => IInv'
  BY NextInv
<1> QED
  BY <1>1, <1>2, PTL DEF Spec

LEMMA PatchedInv ==
  ASSUME WorkspaceSetups, IInv
  PROVE  MemoryIsPatched
<1>1. /\ World /\ ListOK(patches) /\ MemOK(patches, State.mem)
      /\ DOMAIN patches = 1 .. Len(patches) /\ Len(patches) \in Nat
      /\ \A p \in Live : State.mem[p] = proc[p].mem
  BY DEF IInv, StateOK, ListOK, State
<1> SUFFICES ASSUME NEW p \in Live, NEW a \in DOMAIN proc[p].mem
             PROVE  LET I == {i \in SameOffset(patches, a) :
                                /\ Reached(patches[i]) /\ patches[i].pid = p /\ patches[i].written}
                    IN proc[p].mem[a] = IF I = {} THEN Org ELSE patches[First(I)].new
  BY DEF MemoryIsPatched
<1> DEFINE I == {i \in SameOffset(patches, a) :
                   /\ Reached(patches[i]) /\ patches[i].pid = p /\ patches[i].written}
<1>2. \A i \in 1 .. Len(patches) : i \in I <=> Shown(patches[i], p, a)
  BY <1>1 DEF SameOffset, Shown
<1>3. I \in SUBSET (1 .. Len(patches))
  BY <1>1 DEF SameOffset
<1>4. a \in Cells(proc[p].at)
  BY <1>1, ProcessFacts
<1>5. CellOK(patches, State.mem, p, a) /\ State.mem[p][a] = proc[p].mem[a]
  BY <1>1, <1>4 DEF MemOK
<1> HIDE DEF I
<1>6. ASSUME I = {} PROVE proc[p].mem[a] = Org
  BY <1>2, <1>5, <1>6 DEF CellOK
<1>7. ASSUME I # {} PROVE proc[p].mem[a] = patches[First(I)].new
  <2>1. First(I) \in I
    BY <1>1, <1>3, <1>7, FirstIn
  <2> HIDE DEF First
  <2>2. First(I) \in 1 .. Len(patches) /\ Shown(patches[First(I)], p, a)
    BY <1>2, <1>3, <2>1
  <2> QED
    BY <1>5, <1>7, <2>2 DEF CellOK
<1> QED
  BY <1>6, <1>7 DEF I

(* In every run of a program whose processes and modules are told apart,   *)
(* the memory is the program with the patches the table shows as written.  *)
THEOREM MemoryStaysPatched == ASSUME WorkspaceSetups PROVE Spec => []MemoryIsPatched
<1>1. IInv => MemoryIsPatched
  BY PatchedInv
<1> QED
  BY <1>1, WorkspaceTyped, PTL

LEMMA ReappliedStep ==
  ASSUME WorkspaceSetups, IInv, OnUpdateOffsets, Head(queue).pid \in Live
  PROVE  LET p == Head(queue).pid IN
         /\ \A i \in DOMAIN patches : patches[i].pmod = proc[p].file =>
              proc'[p].mem[proc[p].at[patches[i].name] + (patches[i].off - patches[i].base)]
                = patches[i].new
         /\ \A i \in DOMAIN bookmarks : bookmarks[i].pmod = proc[p].file =>
              /\ bookmarks'[i].base = proc[p].at[bookmarks[i].name]
              /\ bookmarks'[i].off - bookmarks'[i].base = bookmarks[i].off - bookmarks[i].base
<1>1. PICK p \in Live : p = Head(queue).pid
  OBVIOUS
<1>2. World /\ Family /\ StateOK(State) /\ State.ps = patches /\ MarksOK(bookmarks)
      /\ patches \in Seq(Patch) /\ DOMAIN patches = 1 .. Len(patches)
      /\ bookmarks \in Seq(Mark) /\ DOMAIN bookmarks = 1 .. Len(bookmarks) /\ p \in PIDs
  BY ProcessFacts DEF IInv, StateOK, ListOK, State, MarksOK
<1>3. Head(queue).h = session
  BY HeadFacts DEF IInv, SignalOK, OnUpdateOffsets
<1>4. PICK st : st = UpdateOffsetPatch(State, p, session)
  OBVIOUS
<1>5. Took(st) /\ bookmarks' = BookmarkUpdateOffsets(p)
      /\ UNCHANGED <<setup, pe, PIDs, session, active>>
  BY <1>1, <1>3, <1>4 DEF OnUpdateOffsets
<1>6. /\ StateOK(st) /\ Len(st.ps) = Len(patches)
      /\ \A i \in 1 .. Len(patches) : patches[i].pmod = proc[p].file =>
           /\ Shown(st.ps[i], p, st.ps[i].off) /\ st.ps[i].new = patches[i].new
           /\ st.ps[i].off = proc[p].at[patches[i].name] + (patches[i].off - patches[i].base)
           /\ st.ps[i].off \in Cells(proc[p].at)
  <2>1. PICK s : s = State
    OBVIOUS
  <2>2. StateOK(s) /\ s.ps = patches /\ st = UpdateOffsetPatch(s, p, session)
    BY <1>2, <1>4, <2>1
  <2> QED
    BY <1>2, <2>2, UpdateKeeps
<1>7. proc'[p].mem = st.mem[p]
  BY <1>2, <1>5, <1>6, TookFacts
<1>8. ASSUME NEW i \in 1 .. Len(patches), patches[i].pmod = proc[p].file
      PROVE  proc'[p].mem[proc[p].at[patches[i].name] + (patches[i].off - patches[i].base)]
               = patches[i].new
  <2>1. PICK a : a = st.ps[i].off
    OBVIOUS
  <2>2. a \in Cells(proc[p].at) /\ Shown(st.ps[i], p, a) /\ st.ps[i].new = patches[i].new
        /\ a = proc[p].at[patches[i].name] + (patches[i].off - patches[i].base)
    BY <1>6, <1>8, <2>1
  <2>3. CellOK(st.ps, st.mem, p, a)
    BY <1>6, <2>2 DEF StateOK, MemOK
  <2>4. st.mem[p][a] = patches[i].new
    BY <1>6, <2>2, <2>3 DEF CellOK
  <2> QED
    BY <1>7, <2>2, <2>4
<1>9. ASSUME NEW i \in 1 .. Len(bookmarks), bookmarks[i].pmod = proc[p].file
      PROVE  /\ bookmarks'[i].base = proc[p].at[bookmarks[i].name]
             /\ bookmarks'[i].off - bookmarks'[i].base = bookmarks[i].off - bookmarks[i].base
  <2>1. PICK x : x = bookmarks[i]
    OBVIOUS
  <2>2. x \in Mark /\ MarkFits(x)
    BY <1>2, <2>1 DEF MarksOK
  <2>3. /\ x.name \in File /\ x.off \in Int /\ x.base \in Int /\ x.name \in {proc[p].file} \cup Libs
        /\ NoFile \notin File
    BY <1>2, <1>9, <2>1, <2>2, SetupFacts DEF Mark, MarkFits, World
  <2>4. x.name \in DOMAIN proc[p].at /\ proc[p].at[x.name] \in Nat
    BY <1>2, <2>3, ProcessFacts
  <2>5. CalcOffsetForModule(x.name, x.off, p).base = proc[p].at[x.name]
    BY <2>3, <2>4 DEF CalcOffsetForModule
  <2>6. PICK b \in Nat : b = proc[p].at[x.name]
    BY <2>4
  <2>7. NameContains(getFilenameFromPID(p), x.pmod)
    BY <1>2, <1>9, <2>1, FileNameFacts DEF NameContains
  <2>8. bookmarks'[i] = IF b # x.base
                        THEN [x EXCEPT !.off = b + (x.off - x.base), !.base = b,
                                       !.pid = IF @ = NoPid THEN p ELSE @]
                        ELSE x
    BY <1>2, <1>5, <2>1, <2>5, <2>6, <2>7 DEF BookmarkUpdateOffsets
  <2>9. PICK y : y = bookmarks'[i]
    OBVIOUS
  <2>10. y.base = b /\ y.off = b + (x.off - x.base)
    <3>1. CASE b = x.base
      BY <2>3, <2>8, <2>9, <3>1
    <3>2. CASE b # x.base
      BY <2>2, <2>8, <2>9, <3>2 DEF Mark
    <3> QED
      BY <3>1, <3>2
  <2>11. (b + (x.off - x.base)) - b = x.off - x.base
    BY <2>3, <2>6
  <2> QED
    BY <2>1, <2>6, <2>9, <2>10, <2>11
<1> QED
  BY <1>1, <1>2, <1>8, <1>9

(* Whatever session or project file they come from, the patches of a       *)
(* process's file are in its memory when the signal of its entry point is  *)
(* served, and its bookmarks are rebased.                                  *)
THEOREM EntryReapplies == ASSUME WorkspaceSetups PROVE Spec => ReappliedAtEntry
<1> DEFINE Reapplied ==
      LET p == Head(queue).pid IN
      /\ \A i \in DOMAIN patches : patches[i].pmod = proc[p].file =>
           proc'[p].mem[proc[p].at[patches[i].name] + (patches[i].off - patches[i].base)]
             = patches[i].new
      /\ \A i \in DOMAIN bookmarks : bookmarks[i].pmod = proc[p].file =>
           /\ bookmarks'[i].base = proc[p].at[bookmarks[i].name]
           /\ bookmarks'[i].off - bookmarks'[i].base = bookmarks[i].off - bookmarks[i].base
<1>1. IInv => (OnUpdateOffsets /\ Head(queue).pid \in Live => Reapplied)
  BY ReappliedStep
<1> HIDE DEF Reapplied
<1>2. Spec => [][OnUpdateOffsets /\ Head(queue).pid \in Live => Reapplied]_vars
  BY <1>1, WorkspaceTyped, PTL DEF Spec
<1> QED
  BY <1>2 DEF ReappliedAtEntry, Reapplied

=============================================================================
