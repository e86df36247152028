-------------------------- MODULE BreakpointProofs --------------------------
(***************************************************************************)
(* The breakpoint lists for any setups.  Their types (TypeOK) and where the *)
(* session is (World); that one-shot breakpoints go (OneShotInv); that a   *)
(* hardware breakpoint has a register of its own and is enabled there      *)
(* (HardwareInv); that every trap in memory has its entry and every backup *)
(* is the program's byte (TrapInv); that a disarmed breakpoint waits for a *)
(* step that comes (ArmedInv); where a breakpoint is in relation to its    *)
(* base (FitInv).  Each is one lemma per action.                           *)
(***************************************************************************)
EXTENDS BreakpointManager, SequenceTheorems, FiniteSetTheorems, TLAPS

(* The naturals are well ordered: the initial segments up to the elements  *)
(* of S are finite sets, and inclusion is well founded on these.           *)
LEMMA LeastExists ==
  ASSUME NEW S \in SUBSET Nat, S # {}
  PROVE  \E x \in S : \A y \in S : x <= y
<1> DEFINE T == {0 .. x : x \in S}
<1>1. T \subseteq FiniteSubsetsOf(Nat) /\ T # {}
  <2>1. \A x \in S : IsFiniteSet(0 .. x) /\ 0 .. x \subseteq Nat
    BY FS_Interval
  <2> QED
    BY <2>1 DEF FiniteSubsetsOf
<1>2. PICK I \in T : \A J \in T : <<J, I>> \notin StrictSubsetOrdering(Nat)
  <2> HIDE DEF T
  <2> QED
    BY <1>1, FS_StrictSubsetOrderingWellFounded, WFMin
<1>3. PICK x \in S : I = 0 .. x
  OBVIOUS
<1>4. ASSUME NEW y \in S, y < x PROVE FALSE
  <2>1. 0 .. y \subseteq 0 .. x /\ 0 .. y # 0 .. x /\ 0 .. x \subseteq Nat
    BY <1>4
  <2>2. <<0 .. y, 0 .. x>> \in StrictSubsetOrdering(Nat)
    BY <2>1 DEF StrictSubsetOrdering
  <2> QED
    BY <1>2, <1>3, <2>2
<1> QED
  BY <1>4

LEMMA MinLeast ==
  ASSUME NEW S \in SUBSET Nat, S # {}
  PROVE  Min(S) \in S /\ \A y \in S : Min(S) <= y
BY LeastExists DEF Min

(* A set of indices of a list has a greatest one.                          *)
LEMMA MaxGreatest ==
  ASSUME NEW n \in Nat, NEW S \in SUBSET (1 .. n), S # {}
  PROVE  Max(S) \in S /\ \A y \in S : Max(S) >= y
<1> DEFINE T == {n - x : x \in S}
<1>1. T \in SUBSET Nat /\ T # {}
  <2>1. \A x \in S : x \in Nat /\ n - x \in Nat
    OBVIOUS
  <2>2. PICK x \in S : TRUE
    OBVIOUS
  <2>3. n - x \in T
    OBVIOUS
  <2> QED
    BY <2>1, <2>3
<1>2. PICK t \in T : \A y \in T : t <= y
  BY <1>1, LeastExists
<1>3. PICK x \in S : t = n - x
  BY <1>2
<1>4. \A y \in S : x >= y
  <2> SUFFICES ASSUME NEW y \in S PROVE x >= y
    OBVIOUS
  <2>1. n - y \in T
    OBVIOUS
  <2>2. n - x <= n - y
    BY <1>2, <1>3, <2>1
  <2>3. x \in Int /\ y \in Int
    OBVIOUS
  <2> QED
    BY <2>2, <2>3
<1> QED
  BY <1>4 DEF Max

(* Where the entries of a list are after the one at n has been erased.     *)
LEMMA RemoveAtProperties ==
  ASSUME NEW E, NEW L \in Seq(E), NEW n \in 1 .. Len(L)
  PROVE  /\ RemoveAt(L, n) \in Seq(E)
         /\ Len(RemoveAt(L, n)) = Len(L) - 1
         /\ \A j \in 1 .. Len(L) - 1 :
              RemoveAt(L, n)[j] = IF j < n THEN L[j] ELSE L[j + 1]
<1> DEFINE A == SubSeq(L, 1, n - 1)
           B == SubSeq(L, n + 1, Len(L))
<1>0. Len(L) \in Nat /\ n \in Int /\ \A j \in 1 .. Len(L) : L[j] \in E
  OBVIOUS
<1>1. A \in Seq(E) /\ Len(A) = n - 1 /\ \A j \in 1 .. n - 1 : A[j] = L[j]
  BY <1>0, SubSeqProperties
<1>2. B \in Seq(E) /\ Len(B) = Len(L) - n
        /\ \A j \in 1 .. Len(L) - n : B[j] = L[n + j]
  BY <1>0, SubSeqProperties
<1> HIDE DEF A, B
<1>3. /\ A \o B \in Seq(E) /\ Len(A \o B) = Len(A) + Len(B)
      /\ \A j \in 1 .. Len(A) + Len(B) :
           (A \o B)[j] = IF j <= Len(A) THEN A[j] ELSE B[j - Len(A)]
  BY <1>1, <1>2, ConcatProperties
<1>4. RemoveAt(L, n) = A \o B
  BY DEF RemoveAt, A, B
<1>5. \A j \in 1 .. Len(L) - 1 : (A \o B)[j] = IF j < n THEN L[j] ELSE L[j + 1]
  <2> SUFFICES ASSUME NEW j \in 1 .. Len(L) - 1
               PROVE  (A \o B)[j] = IF j < n THEN L[j] ELSE L[j + 1]
    OBVIOUS
  <2>1. CASE j < n
    BY <1>0, <1>1, <1>2, <1>3, <2>1
  <2>2. CASE ~(j < n)
    <3>1. j - (n - 1) \in 1 .. Len(L) - n /\ n + (j - (n - 1)) = j + 1
      BY <1>0, <2>2
    <3>2. B[j - (n - 1)] = L[j + 1]
      BY <1>2, <3>1
    <3>3. j \in 1 .. Len(A) + Len(B) /\ ~(j <= Len(A))
      BY <1>0, <1>1, <1>2, <2>2
    <3> QED
      BY <1>1, <1>3, <2>2, <3>2, <3>3
  <2> QED
    BY <2>1, <2>2
<1>6. Len(A \o B) = Len(L) - 1
  BY <1>0, <1>1, <1>2, <1>3
<1> QED
  BY <1>3, <1>4, <1>5, <1>6

-----------------------------------------------------------------------------

Byte == {"code", "int3", "hlt", "ud2"}
Trap == {"int3", "hlt", "ud2"}
Span == {1, 2, 4}

Backups(n) == {NoBackup} \cup [0 .. n - 1 -> Byte]

EntryOf(n) == [offset : Int, base : Int, named : BOOLEAN, pid : Pid \cup {AnyPid},
               handle : Handle, size : {n}, data : Trap, org : Backups(n), slot : Slot,
               restore : BOOLEAN]

Entry == UNION {EntryOf(n) : n \in Span}

Memories == UNION {[D -> Byte] : D \in SUBSET Int}

Process == [base : Int, mem : Memories, dr : [Slot -> Int], on : SUBSET Slot]

Lists     == [Kind -> Seq(Entry)]
Processes == [Pid -> Process]

SetupOK ==
  /\ setup \in Setups
  /\ AnyPid # NoPid /\ AnyPid \notin Pid /\ NoPid \notin Pid
  /\ EntryRva \in Rva /\ Rva \cup Bases \cup Heap \subseteq Nat \ {0}
  /\ Opcode \subseteq Trap /\ UserPid \subseteq Pid \cup {AnyPid}
  /\ UserKind \subseteq Kind

TypeOK ==
  /\ setup \in Setups
  /\ bps \in Lists /\ proc \in Processes
  /\ pids \subseteq Pid /\ main \in pids \cup {NoPid}
  /\ flag \in [Pid -> {"RESTORE_NON", "RESTORE_BP_SOFTWARE", "RESTORE_BP_HARDWARE"}]
  /\ dbg \in {"idle", "enter", "loop", "leave"} /\ it \in Nat \ {0}
  /\ clr \in {NotClearing} \cup [kind : Kind, i : Nat \ {0}]
  /\ stop \in BOOLEAN /\ hidden \in Pid \cup {NoPid} /\ sessions \in Nat

-----------------------------------------------------------------------------
(* Entries and processes.                                                  *)

LEMMA SetupFacts == ASSUME setup \in Setups PROVE SetupOK
BY ConstantsOK DEF SetupOK, Pid, Rva, Bases, Heap, Opcode, UserPid, UserKind, Trap

LEMMA SizeFacts == Size \subseteq Span /\ 1 \in Size
BY ConstantsOK DEF Span

LEMMA BackupFacts ==
  ASSUME NEW n \in Span, NEW f \in [0 .. n - 1 -> Byte] PROVE f # NoBackup
BY ConstantsOK DEF Span, Byte

LEMMA EntryFields ==
  ASSUME NEW e \in Entry
  PROVE  /\ e \in EntryOf(e.size) /\ e.size \in Span
         /\ e.offset \in Int /\ e.base \in Int /\ e.named \in BOOLEAN
         /\ e.pid \in Pid \cup {AnyPid} /\ e.handle \in Handle /\ e.data \in Trap
         /\ e.org \in Backups(e.size) /\ e.slot \in Slot /\ e.restore \in BOOLEAN
BY DEF Entry, EntryOf

LEMMA EntryMade ==
  ASSUME NEW n \in Span, NEW e \in EntryOf(n) PROVE e \in Entry
BY DEF Entry

LEMMA EntryChanged ==
  ASSUME NEW e \in Entry
  PROVE  /\ \A b \in BOOLEAN : [e EXCEPT !.restore = b] \in Entry
         /\ \A o \in Backups(e.size) : [e EXCEPT !.org = o] \in Entry
         /\ \A s \in Slot : [e EXCEPT !.slot = s] \in Entry
<1>1. e \in EntryOf(e.size) /\ e.size \in Span
  BY EntryFields
<1>2. /\ \A b \in BOOLEAN : [e EXCEPT !.restore = b] \in EntryOf(e.size)
      /\ \A o \in Backups(e.size) : [e EXCEPT !.org = o] \in EntryOf(e.size)
      /\ \A s \in Slot : [e EXCEPT !.slot = s] \in EntryOf(e.size)
  BY <1>1 DEF EntryOf
<1> QED
  BY <1>1, <1>2, EntryMade

LEMMA MemoryFacts ==
  ASSUME NEW m \in Memories
  PROVE  /\ m = [a \in DOMAIN m |-> m[a]] /\ DOMAIN m \subseteq Int
         /\ \A a \in DOMAIN m : m[a] \in Byte
BY DEF Memories

LEMMA MemoryMade ==
  ASSUME NEW D \in SUBSET Int, NEW m \in [D -> Byte] PROVE m \in Memories
BY DEF Memories

LEMMA ProcessFields ==
  ASSUME NEW pr \in Process
  PROVE  /\ pr.base \in Int /\ pr.mem \in Memories
         /\ pr.dr \in [Slot -> Int] /\ pr.on \in SUBSET Slot
BY DEF Process

LEMMA MemoryWritten ==
  ASSUME NEW pr \in Process, NEW m \in Memories, NEW qr, qr = [pr EXCEPT !.mem = m]
  PROVE  qr \in Process /\ qr.base = pr.base /\ qr.mem = m /\ qr.dr = pr.dr /\ qr.on = pr.on
BY DEF Process

LEMMA CellFacts ==
  ASSUME NEW e \in Entry
  PROVE  /\ e.offset \in Cells(e) /\ Cells(e) \subseteq Int
         /\ \A a \in Cells(e) : a - e.offset \in 0 .. e.size - 1
         /\ \A k \in 0 .. e.size - 1 : e.offset + k \in Cells(e)
<1>1. e.offset \in Int /\ e.size \in {1, 2, 4}
  BY EntryFields DEF Span
<1> QED
  BY <1>1 DEF Cells

LEMMA OrgFacts ==
  ASSUME NEW e \in Entry, e.org # NoBackup
  PROVE  e.org \in [0 .. e.size - 1 -> Byte]
BY EntryFields DEF Backups

(* What the writes of a breakpoint do to a process.                        *)
SamePlace(pr, qr) == qr.base = pr.base /\ DOMAIN qr.mem = DOMAIN pr.mem
SameRegs(pr, qr)  == qr.dr = pr.dr /\ qr.on = pr.on

LEMMA ArmedFacts ==
  ASSUME NEW pr \in Process, NEW e \in Entry, NEW op \in Trap
  PROVE  /\ Armed(e, op, pr) \in Process
         /\ SamePlace(pr, Armed(e, op, pr)) /\ SameRegs(pr, Armed(e, op, pr))
         /\ \A a \in DOMAIN pr.mem :
              Armed(e, op, pr).mem[a] = IF a \in Cells(e) THEN op ELSE pr.mem[a]
<1> DEFINE m == [a \in DOMAIN pr.mem |-> IF a \in Cells(e) THEN op ELSE pr.mem[a]]
<1>1. pr.mem \in Memories
  BY ProcessFields
<1>2. DOMAIN pr.mem \in SUBSET Int /\ m \in [DOMAIN pr.mem -> Byte]
  BY <1>1, MemoryFacts DEF Byte, Trap
<1>3. m \in Memories
  BY <1>2, MemoryMade
<1>4. Armed(e, op, pr) = [pr EXCEPT !.mem = m]
  BY DEF Armed
<1>5. DOMAIN m = DOMAIN pr.mem /\ \A a \in DOMAIN pr.mem : m[a] = IF a \in Cells(e) THEN op ELSE pr.mem[a]
  OBVIOUS
<1> HIDE DEF m
<1> QED
  BY <1>3, <1>4, <1>5, MemoryWritten DEF SamePlace, SameRegs

LEMMA DisarmedFacts ==
  ASSUME NEW pr \in Process, NEW e \in Entry
  PROVE  /\ dSoftwareBP(e, pr) \in Process
         /\ SamePlace(pr, dSoftwareBP(e, pr)) /\ SameRegs(pr, dSoftwareBP(e, pr))
         /\ IF e.org = NoBackup \/ ~Writable(e, pr)
            THEN dSoftwareBP(e, pr) = pr
            ELSE \A a \in DOMAIN pr.mem :
                   dSoftwareBP(e, pr).mem[a] = IF a \in Cells(e) THEN e.org[a - e.offset]
                                                                ELSE pr.mem[a]
<1> DEFINE m == [a \in DOMAIN pr.mem |-> IF a \in Cells(e) THEN e.org[a - e.offset] ELSE pr.mem[a]]
<1>1. CASE e.org = NoBackup \/ ~Writable(e, pr)
  BY <1>1 DEF dSoftwareBP, SamePlace, SameRegs
<1>2. CASE ~(e.org = NoBackup \/ ~Writable(e, pr))
  <2>1. pr.mem \in Memories
    BY ProcessFields
  <2>2. \A a \in Cells(e) : e.org[a - e.offset] \in Byte
    BY <1>2, OrgFacts, CellFacts
  <2>3. DOMAIN pr.mem \in SUBSET Int /\ m \in [DOMAIN pr.mem -> Byte]
    BY <2>1, <2>2, MemoryFacts
  <2>4. m \in Memories
    BY <2>3, MemoryMade
  <2>5. dSoftwareBP(e, pr) = [pr EXCEPT !.mem = m]
    BY <1>2 DEF dSoftwareBP
  <2>6. DOMAIN m = DOMAIN pr.mem /\ \A a \in DOMAIN pr.mem :
          m[a] = IF a \in Cells(e) THEN e.org[a - e.offset] ELSE pr.mem[a]
    OBVIOUS
  <2> HIDE DEF m
  <2> QED
    BY <1>2, <2>4, <2>5, <2>6, MemoryWritten DEF SamePlace, SameRegs
<1> QED
  BY <1>1, <1>2

LEMMA BackupTyped ==
  ASSUME NEW pr \in Process, NEW e \in Entry, Writable(e, pr)
  PROVE  Backup(e, pr) \in [0 .. e.size - 1 -> Byte] /\ Backup(e, pr) # NoBackup
<1>1. Backup(e, pr) \in [0 .. e.size - 1 -> Byte]
  <2>1. CASE e.org # NoBackup
    BY <2>1, OrgFacts DEF Backup
  <2>2. CASE e.org = NoBackup
    <3>1. \A k \in 0 .. e.size - 1 : pr.mem[e.offset + k] \in Byte
      BY CellFacts, ProcessFields, MemoryFacts DEF Writable
    <3> QED
      BY <2>2, <3>1 DEF Backup
  <2> QED
    BY <2>1, <2>2
<1> QED
  BY <1>1, BackupFacts, EntryFields

LEMMA HardwareSetFacts ==
  ASSUME NEW pr \in Process, NEW e \in Entry
  PROVE  /\ wHardwareBP(e, pr) \in Process
         /\ SamePlace(pr, wHardwareBP(e, pr)) /\ wHardwareBP(e, pr).mem = pr.mem
         /\ Alive(pr) =>
              /\ wHardwareBP(e, pr).on = pr.on \cup {e.slot}
              /\ \A s \in Slot : wHardwareBP(e, pr).dr[s] = IF s = e.slot THEN e.offset ELSE pr.dr[s]
         /\ ~Alive(pr) => wHardwareBP(e, pr) = pr
<1>1. e.slot \in Slot /\ e.offset \in Int
  BY EntryFields
<1>2. CASE Alive(pr)
  <2> DEFINE q == wHardwareBP(e, pr)
  <2>1. q = [pr EXCEPT !.dr[e.slot] = e.offset, !.on = pr.on \cup {e.slot}]
    BY <1>2 DEF wHardwareBP
  <2> HIDE DEF q
  <2>2. /\ q \in Process /\ q.base = pr.base /\ q.mem = pr.mem /\ q.on = pr.on \cup {e.slot}
        /\ q.dr = [pr.dr EXCEPT ![e.slot] = e.offset]
    BY <1>1, <2>1 DEF Process
  <2>3. pr.dr \in [Slot -> Int]
    BY ProcessFields
  <2> QED
    BY <1>1, <1>2, <2>2, <2>3 DEF q, SamePlace
<1>3. CASE ~Alive(pr)
  BY <1>3 DEF wHardwareBP, SamePlace
<1> QED
  BY <1>2, <1>3

LEMMA HardwareGoneFacts ==
  ASSUME NEW pr \in Process, NEW e \in Entry
  PROVE  /\ dHardwareBP(e, pr) \in Process
         /\ SamePlace(pr, dHardwareBP(e, pr)) /\ dHardwareBP(e, pr).mem = pr.mem
         /\ dHardwareBP(e, pr).on = pr.on \ {e.slot}
         /\ \A s \in Slot : pr.dr[s] # e.offset => dHardwareBP(e, pr).dr[s] = pr.dr[s]
<1> DEFINE holding == {s \in Slot : pr.dr[s] = e.offset}
           d == [s \in Slot |-> IF holding # {} /\ s = Min(holding) THEN 0 ELSE pr.dr[s]]
           o == pr.on \ {e.slot}
<1>1. pr.dr \in [Slot -> Int] /\ pr.on \in SUBSET Slot
  BY ProcessFields
<1>2. holding # {} => Min(holding) \in holding
  BY MinLeast DEF Slot
<1>3. \A s \in Slot : pr.dr[s] # e.offset => d[s] = pr.dr[s]
  BY <1>2
<1>4. d \in [Slot -> Int] /\ o \in SUBSET Slot
  BY <1>1
<1>5. dHardwareBP(e, pr) = [pr EXCEPT !.dr = d, !.on = o]
  BY DEF dHardwareBP
<1> HIDE DEF d, o
<1>6. PICK qr : qr = dHardwareBP(e, pr)
  OBVIOUS
<1>7. qr \in Process /\ qr.base = pr.base /\ qr.mem = pr.mem /\ qr.dr = d /\ qr.on = o
  BY <1>4, <1>5, <1>6 DEF Process
<1> QED
  BY <1>3, <1>6, <1>7 DEF SamePlace, o

-----------------------------------------------------------------------------
(* The operations on the lists.                                            *)

LEMMA ListFacts ==
  ASSUME NEW B \in Lists, NEW k \in Kind
  PROVE  /\ B[k] \in Seq(Entry) /\ Len(B[k]) \in Nat /\ DOMAIN B[k] = 1 .. Len(B[k])
         /\ \A i \in DOMAIN B[k] : B[k][i] \in Entry
<1>1. B[k] \in Seq(Entry)
  BY DEF Lists
<1> QED
  BY <1>1

LEMMA ListSet ==
  ASSUME NEW B \in Lists, NEW k \in Kind, NEW L \in Seq(Entry)
  PROVE  /\ [B EXCEPT ![k] = L] \in Lists /\ [B EXCEPT ![k] = L][k] = L
         /\ \A j \in Kind : j # k => [B EXCEPT ![k] = L][j] = B[j]
BY DEF Lists

LEMMA ListMade ==
  ASSUME NEW S, NEW n \in Nat, NEW L, DOMAIN L = 1 .. n, L = [i \in 1 .. n |-> L[i]],
         \A i \in 1 .. n : L[i] \in S
  PROVE  L \in Seq(S) /\ Len(L) = n
OBVIOUS

LEMMA ProcessSet ==
  ASSUME NEW P \in Processes, NEW p \in Pid, NEW pr \in Process
  PROVE  /\ [P EXCEPT ![p] = pr] \in Processes /\ [P EXCEPT ![p] = pr][p] = pr
         /\ \A q \in Pid : q # p => [P EXCEPT ![p] = pr][q] = P[q]
BY DEF Processes

LEMMA DeadFacts == DeadProcess \in Process /\ ~Alive(DeadProcess)
<1>1. DOMAIN <<>> = {} /\ <<>> \in [{} -> Byte]
  OBVIOUS
<1>2. <<>> \in Memories
  BY <1>1, MemoryMade
<1> QED
  BY <1>1, <1>2 DEF DeadProcess, Process, Alive

LEMMA AccessedFacts ==
  ASSUME NEW P \in Processes, NEW h
  PROVE  (IF h \in Pid THEN P[h] ELSE DeadProcess) \in Process
BY DeadFacts DEF Processes

LEMMA CalcFacts ==
  ASSUME NEW e \in Entry, NEW pr \in Process,
         NEW c, c = CalcOffsetForModule(e.named, e.offset, pr)
  PROVE  /\ c.base \in Int /\ c.named \in BOOLEAN
         /\ IF Alive(pr) /\ (e.named \/ e.offset \in Image(pr.base))
            THEN c.base = pr.base /\ c.named
            ELSE c.base = e.offset /\ c.named = e.named
<1>1. pr.base \in Int /\ e.offset \in Int /\ e.named \in BOOLEAN
  BY ProcessFields, EntryFields
<1>2. CASE Alive(pr) /\ (e.named \/ e.offset \in Image(pr.base))
  BY <1>1, <1>2 DEF CalcOffsetForModule
<1>3. CASE ~(Alive(pr) /\ (e.named \/ e.offset \in Image(pr.base)))
  BY <1>1, <1>3 DEF CalcOffsetForModule
<1> QED
  BY <1>2, <1>3

LEMMA CalcNew ==
  ASSUME NEW off \in Int, NEW pr \in Process, NEW c, c = CalcOffsetForModule(FALSE, off, pr)
  PROVE  /\ c = [base |-> c.base, named |-> c.named] /\ c.base \in Int /\ c.named \in BOOLEAN
         /\ IF Alive(pr) /\ off \in Image(pr.base) THEN c.base = pr.base /\ c.named
                                                   ELSE c.base = off /\ ~c.named
<1>1. pr.base \in Int
  BY ProcessFields
<1>2. CASE Alive(pr) /\ off \in Image(pr.base)
  BY <1>1, <1>2 DEF CalcOffsetForModule
<1>3. CASE ~(Alive(pr) /\ off \in Image(pr.base))
  BY <1>3 DEF CalcOffsetForModule
<1> QED
  BY <1>2, <1>3

(* What BreakpointAdd appends.                                             *)
IsNew(e, pid, off, size, hd, op, pr) ==
  /\ e \in Entry /\ e.pid = pid /\ e.offset = off /\ e.handle = hd /\ e.data = op
  /\ e.size = (IF op = "ud2" THEN 2 ELSE size) /\ ~e.restore
  /\ IF hd = "BP_KEEP"
     THEN CalcOffsetForModule(FALSE, off, pr) = [base |-> e.base, named |-> e.named]
     ELSE e.base = 0 /\ ~e.named

LEMMA NewEntry ==
  ASSUME NEW pid \in Pid \cup {AnyPid}, NEW off \in Int, NEW size \in Span, NEW hd \in Handle,
         NEW op \in Trap, NEW pr \in Process, NEW e, e = NewBP(pid, off, size, hd, op, pr)
  PROVE  IsNew(e, pid, off, size, hd, op, pr) /\ e.org = NoBackup /\ e.slot = 0
<1> DEFINE n == IF op = "ud2" THEN 2 ELSE size
<1>1. PICK c : c = IF hd = "BP_KEEP" THEN CalcOffsetForModule(FALSE, off, pr)
                                     ELSE [base |-> 0, named |-> FALSE]
  OBVIOUS
<1>2. c = [base |-> c.base, named |-> c.named] /\ c.base \in Int /\ c.named \in BOOLEAN
  <2>1. CASE hd = "BP_KEEP"
    BY <1>1, <2>1, CalcNew
  <2>2. CASE hd # "BP_KEEP"
    BY <1>1, <2>2
  <2> QED
    BY <2>1, <2>2
<1>3. n \in Span /\ n = IF op = "ud2" THEN 2 ELSE size
  BY DEF Span
<1>4. e = [offset |-> off, base |-> c.base, named |-> c.named, pid |-> pid, handle |-> hd,
           size |-> n, data |-> op, org |-> NoBackup, slot |-> 0, restore |-> FALSE]
  BY <1>1 DEF NewBP
<1> HIDE DEF n
<1>5. e \in EntryOf(n)
  BY <1>2, <1>3, <1>4 DEF EntryOf, Backups, Slot
<1>6. e \in Entry
  BY <1>3, <1>5, EntryMade
<1>7. IF hd = "BP_KEEP"
      THEN CalcOffsetForModule(FALSE, off, pr) = [base |-> e.base, named |-> e.named]
      ELSE e.base = 0 /\ ~e.named
  <2>1. e.base = c.base /\ e.named = c.named
    BY <1>4
  <2>2. CASE hd = "BP_KEEP"
    BY <1>1, <1>2, <2>1, <2>2
  <2>3. CASE hd # "BP_KEEP"
    <3>1. c = [base |-> 0, named |-> FALSE]
      BY <1>1, <2>3
    <3> QED
      BY <2>1, <2>3, <3>1
  <2> QED
    BY <2>2, <2>3
<1>8. /\ e.pid = pid /\ e.offset = off /\ e.handle = hd /\ e.data = op /\ e.size = n
      /\ ~e.restore /\ e.org = NoBackup /\ e.slot = 0
  BY <1>4
<1> QED
  BY <1>3, <1>6, <1>7, <1>8 DEF IsNew

Same(B, P, R) == R.bps = B /\ R.proc = P

AddedSoftware(B, P, pid, h, off, size, hd, op, e, R) ==
  /\ e \in Entry /\ ~Exists(B, off) /\ h \in Pid /\ Writable(e, P[h])
  /\ IsNew(e, pid, off, size, hd, op, P[h])
  /\ e.org = [k \in 0 .. e.size - 1 |-> P[h].mem[off + k]] /\ e.org # NoBackup
  /\ R.bps = [B EXCEPT !["SOFTWARE_BP"] = Append(B["SOFTWARE_BP"], e)]
  /\ R.proc = [P EXCEPT ![h] = Armed(e, op, P[h])]

LEMMA AddSoftware ==
  ASSUME NEW B \in Lists, NEW P \in Processes, NEW pid \in Pid \cup {AnyPid}, NEW h, NEW cur,
         NEW off \in Int, NEW size \in Span, NEW hd \in Handle, NEW op \in Trap,
         NEW R, R = BreakpointAdd(B, P, "SOFTWARE_BP", pid, h, cur, off, size, hd, op)
  PROVE  Same(B, P, R) \/ \E e : AddedSoftware(B, P, pid, h, off, size, hd, op, e, R)
<1> DEFINE pr == IF h \in Pid THEN P[h] ELSE DeadProcess
           bp == NewBP(pid, off, size, hd, op, pr)
<1>0. pr \in Process
  BY AccessedFacts
<1>1. IsNew(bp, pid, off, size, hd, op, pr) /\ bp.org = NoBackup
  <2> HIDE DEF pr
  <2> QED
    BY <1>0, NewEntry
<1>2. CASE Exists(B, off) \/ ~Writable(bp, pr)
  BY <1>2 DEF BreakpointAdd, Same
<1>3. CASE ~Exists(B, off) /\ Writable(bp, pr)
  <2>1. h \in Pid /\ pr = P[h]
    <3>1. bp \in Entry
      BY <1>1 DEF IsNew
    <3>2. Alive(pr)
      BY <1>3, <3>1, CellFacts DEF Writable, Alive
    <3> QED
      BY <3>2, DeadFacts
  <2>2. PICK b : b = bp
    OBVIOUS
  <2>3. /\ R.bps = [B EXCEPT !["SOFTWARE_BP"] = Append(B["SOFTWARE_BP"], [b EXCEPT !.org = Backup(b, pr)])]
        /\ R.proc = [P EXCEPT ![h] = Armed(b, op, P[h])]
    BY <1>3, <2>2 DEF BreakpointAdd
  <2> DEFINE e == [b EXCEPT !.org = Backup(b, pr)]
  <2>4. b \in Entry /\ IsNew(b, pid, off, size, hd, op, P[h]) /\ b.org = NoBackup /\ Writable(b, P[h])
    BY <1>1, <1>3, <2>1, <2>2 DEF IsNew
  <2>5. Backup(b, pr) \in [0 .. b.size - 1 -> Byte] /\ Backup(b, pr) # NoBackup
    BY <1>0, <2>1, <2>4, BackupTyped
  <2>6. Backup(b, pr) \in Backups(b.size)
    BY <2>5 DEF Backups
  <2>7. e \in Entry
    BY <2>4, <2>6, EntryChanged
  <2>8. b \in EntryOf(b.size)
    BY <2>4, EntryFields
  <2>9. /\ e.pid = b.pid /\ e.offset = b.offset /\ e.handle = b.handle /\ e.data = b.data
        /\ e.size = b.size /\ e.restore = b.restore /\ e.base = b.base /\ e.named = b.named
        /\ e.org = Backup(b, pr)
    BY <2>8 DEF EntryOf
  <2>10. Backup(b, pr) = [k \in 0 .. b.size - 1 |-> P[h].mem[off + k]]
    BY <2>1, <2>4 DEF Backup, IsNew
  <2> HIDE DEF e, pr, bp
  <2>11. Cells(e) = Cells(b)
    BY <2>9 DEF Cells
  <2>12. Writable(e, P[h]) /\ Armed(e, op, P[h]) = Armed(b, op, P[h])
    BY <2>4, <2>11 DEF Writable, Armed
  <2>13. IsNew(e, pid, off, size, hd, op, P[h])
    BY <2>4, <2>7, <2>9 DEF IsNew
  <2>14. R.bps = [B EXCEPT !["SOFTWARE_BP"] = Append(B["SOFTWARE_BP"], e)]
    BY <2>3 DEF e
  <2>15. e.org = [k \in 0 .. e.size - 1 |-> P[h].mem[off + k]] /\ e.org # NoBackup
    BY <2>5, <2>9, <2>10
  <2> QED
    BY <1>3, <2>1, <2>3, <2>7, <2>12, <2>13, <2>14, <2>15 DEF AddedSoftware
<1> QED
  BY <1>2, <1>3

AddedMemory(B, P, off, e, R) ==
  /\ e \in Entry /\ ~Exists(B, off) /\ e.offset = off
  /\ R.bps = [B EXCEPT !["MEMORY_BP"] = Append(B["MEMORY_BP"], e)] /\ R.proc = P

LEMMA AddMemory ==
  ASSUME NEW B \in Lists, NEW P \in Processes, NEW pid \in Pid \cup {AnyPid}, NEW h, NEW cur,
         NEW off \in Int, NEW size \in Span, NEW hd \in Handle, NEW op \in Trap,
         NEW R, R = BreakpointAdd(B, P, "MEMORY_BP", pid, h, cur, off, size, hd, op)
  PROVE  Same(B, P, R) \/ \E e : AddedMemory(B, P, off, e, R)
<1> DEFINE pr == IF h \in Pid THEN P[h] ELSE DeadProcess
           bp == NewBP(pid, off, size, hd, op, pr)
<1>0. pr \in Process
  BY AccessedFacts
<1>1. bp \in Entry /\ bp.offset = off
  <2>1. IsNew(bp, pid, off, size, hd, op, pr)
    <3> HIDE DEF pr
    <3> QED
      BY <1>0, NewEntry
  <2> QED
    BY <2>1 DEF IsNew
<1>2. CASE Exists(B, off) \/ off \notin DOMAIN pr.mem
  BY <1>2 DEF BreakpointAdd, Same
<1>3. CASE ~Exists(B, off) /\ off \in DOMAIN pr.mem
  <2>1. R.bps = [B EXCEPT !["MEMORY_BP"] = Append(B["MEMORY_BP"], bp)] /\ R.proc = P
    BY <1>3 DEF BreakpointAdd
  <2> QED
    BY <1>1, <1>3, <2>1 DEF AddedMemory
<1> QED
  BY <1>2, <1>3

LEMMA FreeSlotFacts ==
  ASSUME NEW L \in Seq(Entry), FreeSlots(L) # {} PROVE Max(FreeSlots(L)) \in FreeSlots(L)
<1>1. FreeSlots(L) \subseteq 0 .. 3
  BY DEF FreeSlots, Slot
<1>2. \E x \in FreeSlots(L) : \A y \in FreeSlots(L) : x >= y
  BY <1>1
<1> QED
  BY <1>2 DEF Max

AddedHardware(B, P, pid, h, cur, off, size, hd, op, e, t, R) ==
  /\ e \in Entry /\ t \in {pid, cur} /\ ~Exists(B, off) /\ Len(B["HARDWARE_BP"]) # 4
  /\ IsNew(e, pid, off, size, hd, op, IF h \in Pid THEN P[h] ELSE DeadProcess)
  /\ FreeSlots(B["HARDWARE_BP"]) # {} => e.slot \in FreeSlots(B["HARDWARE_BP"])
  /\ R.bps = [B EXCEPT !["HARDWARE_BP"] = Append(B["HARDWARE_BP"], e)]
  /\ pid # AnyPid => t = pid
  /\ R.proc = IF t \in Pid THEN [P EXCEPT ![t] = wHardwareBP(e, P[t])] ELSE P

LEMMA AddHardware ==
  ASSUME NEW B \in Lists, NEW P \in Processes, NEW pid \in Pid \cup {AnyPid}, NEW h, NEW cur,
         NEW off \in Int, NEW size \in Span, NEW hd \in Handle, NEW op \in Trap,
         NEW R, R = BreakpointAdd(B, P, "HARDWARE_BP", pid, h, cur, off, size, hd, op)
  PROVE  Same(B, P, R) \/ \E e, t : AddedHardware(B, P, pid, h, cur, off, size, hd, op, e, t, R)
<1> DEFINE pr == IF h \in Pid THEN P[h] ELSE DeadProcess
           bp == NewBP(pid, off, size, hd, op, pr)
           F  == FreeSlots(B["HARDWARE_BP"])
           hw == IF F = {} THEN bp ELSE [bp EXCEPT !.slot = Max(F)]
           t  == IF pid = AnyPid THEN cur ELSE pid
<1>0. pr \in Process
  BY AccessedFacts
<1>1. IsNew(bp, pid, off, size, hd, op, pr)
  <2> HIDE DEF pr
  <2> QED
    BY <1>0, NewEntry
<1>2. CASE Exists(B, off) \/ Len(B["HARDWARE_BP"]) = 4
  BY <1>2 DEF BreakpointAdd, Same
<1>3. CASE ~Exists(B, off) /\ Len(B["HARDWARE_BP"]) # 4
  <2>1. /\ R.bps = [B EXCEPT !["HARDWARE_BP"] = Append(B["HARDWARE_BP"], hw)]
        /\ R.proc = IF t \in Pid THEN [P EXCEPT ![t] = wHardwareBP(hw, P[t])] ELSE P
    BY <1>3 DEF BreakpointAdd
  <2>2. IsNew(hw, pid, off, size, hd, op, pr) /\ (F # {} => hw.slot \in F)
    <3>1. CASE F = {}
      BY <1>1, <3>1
    <3>2. CASE F # {}
      <4>1. Max(F) \in F /\ F \subseteq Slot
        BY <3>2, FreeSlotFacts, ListFacts DEF Kind, FreeSlots
      <4>2. PICK b, m : b = bp /\ m = Max(F)
        OBVIOUS
      <4>3. b \in Entry /\ m \in Slot
        BY <1>1, <4>1, <4>2 DEF IsNew
      <4>4. b \in EntryOf(b.size) /\ [b EXCEPT !.slot = m] \in Entry
        BY <4>3, EntryFields, EntryChanged
      <4>5. PICK e : e = [b EXCEPT !.slot = m]
        OBVIOUS
      <4>6. /\ e.pid = b.pid /\ e.offset = b.offset /\ e.handle = b.handle /\ e.data = b.data
            /\ e.size = b.size /\ e.restore = b.restore /\ e.base = b.base /\ e.named = b.named
            /\ e.slot = m
        BY <4>4, <4>5 DEF EntryOf
      <4>7. hw = e
        BY <3>2, <4>2, <4>5
      <4> HIDE DEF hw, F, bp, pr
      <4> QED
        BY <1>1, <4>1, <4>2, <4>4, <4>5, <4>6, <4>7 DEF IsNew
    <3> QED
      BY <3>1, <3>2
  <2>3. hw \in Entry /\ t \in {pid, cur} /\ (pid # AnyPid => t = pid)
    BY <2>2 DEF IsNew
  <2>4. hw \in Entry
    BY <2>2 DEF IsNew
  <2> HIDE DEF hw, t, bp
  <2> QED
    BY <1>3, <2>1, <2>2, <2>3, <2>4 DEF AddedHardware
<1> QED
  BY <1>2, <1>3

Removed(B, P, k, off, i, h, R) ==
  /\ i \in DOMAIN B[k] /\ B[k][i].offset = off /\ \A j \in Matching(B[k], off) : i <= j
  /\ R.bps = [B EXCEPT ![k] = RemoveAt(B[k], i)]
  /\ h = HandleOf(B[k][i].pid)
  /\ k = "SOFTWARE_BP" =>
       R.proc = IF h \in Pid THEN [P EXCEPT ![h] = dSoftwareBP(B[k][i], P[h])] ELSE P
  /\ k = "HARDWARE_BP" =>
       R.proc = IF B[k][i].pid \in Pid
                THEN [P EXCEPT ![B[k][i].pid] = dHardwareBP(B[k][i], P[B[k][i].pid])] ELSE P
  /\ k = "MEMORY_BP" => R.proc = P

LEMMA RemoveFacts ==
  ASSUME NEW B \in Lists, NEW P \in Processes, NEW k \in Kind, NEW off,
         NEW R, R = BreakpointRemove(B, P, k, off)
  PROVE  \/ Same(B, P, R) /\ Matching(B[k], off) = {}
         \/ \E i, h : Removed(B, P, k, off, i, h, R)
<1>1. CASE Matching(B[k], off) = {}
  BY <1>1 DEF BreakpointRemove, Same
<1>2. CASE Matching(B[k], off) # {}
  <2>1. Matching(B[k], off) \subseteq DOMAIN B[k] /\ DOMAIN B[k] \subseteq Nat
    BY ListFacts DEF Matching
  <2>2. PICK i : i = Min(Matching(B[k], off))
    OBVIOUS
  <2>3. i \in Matching(B[k], off) /\ \A j \in Matching(B[k], off) : i <= j
    BY <1>2, <2>1, <2>2, MinLeast
  <2>4. PICK h : h = HandleOf(B[k][i].pid)
    OBVIOUS
  <2>5. /\ R.bps = [B EXCEPT ![k] = RemoveAt(B[k], i)]
        /\ R.proc = CASE k = "SOFTWARE_BP" /\ h \in Pid -> [P EXCEPT ![h] = dSoftwareBP(B[k][i], P[h])]
                       [] k = "HARDWARE_BP" /\ B[k][i].pid \in Pid ->
                            [P EXCEPT ![B[k][i].pid] = dHardwareBP(B[k][i], P[B[k][i].pid])]
                       [] OTHER -> P
    BY <1>2, <2>2, <2>4 DEF BreakpointRemove
  <2>6. i \in DOMAIN B[k] /\ B[k][i].offset = off
    BY <2>3 DEF Matching
  <2>7. k = "SOFTWARE_BP" =>
          R.proc = IF h \in Pid THEN [P EXCEPT ![h] = dSoftwareBP(B[k][i], P[h])] ELSE P
    BY <2>5
  <2>8. k = "HARDWARE_BP" =>
          R.proc = IF B[k][i].pid \in Pid
                   THEN [P EXCEPT ![B[k][i].pid] = dHardwareBP(B[k][i], P[B[k][i].pid])] ELSE P
    BY <2>5
  <2>9. k = "MEMORY_BP" => R.proc = P
    BY <2>5
  <2> QED
    BY <2>3, <2>4, <2>5, <2>6, <2>7, <2>8, <2>9 DEF Removed
<1> QED
  BY <1>1, <1>2

(* An entry whose place alone has changed.                                 *)
SameBut(e, r) == /\ r \in Entry /\ r.pid = e.pid /\ r.handle = e.handle /\ r.size = e.size
                 /\ r.data = e.data /\ r.slot = e.slot /\ r.restore = e.restore

LEMMA RebasedFacts ==
  ASSUME NEW e \in Entry, NEW pr \in Process, NEW r, r = Rebased(e, pr)
  PROVE  /\ SameBut(e, r) /\ r.org = e.org
         /\ e.handle # "BP_KEEP" => r = e
         /\ e.handle = "BP_KEEP" =>
              /\ r.offset = (e.offset - e.base) + r.base
              /\ IF Alive(pr) /\ (e.named \/ e.offset \in Image(pr.base))
                 THEN r.base = pr.base /\ r.named
                 ELSE r.base = e.offset /\ r.named = e.named
<1>1. CASE e.handle # "BP_KEEP"
  BY <1>1 DEF Rebased, SameBut
<1>2. CASE e.handle = "BP_KEEP"
  <2>1. PICK c : c = CalcOffsetForModule(e.named, e.offset, pr)
    OBVIOUS
  <2>2. /\ c.base \in Int /\ c.named \in BOOLEAN
        /\ IF Alive(pr) /\ (e.named \/ e.offset \in Image(pr.base))
           THEN c.base = pr.base /\ c.named
           ELSE c.base = e.offset /\ c.named = e.named
    BY <2>1, CalcFacts
  <2>3. r = [e EXCEPT !.offset = (e.offset - e.base) + c.base, !.base = c.base, !.named = c.named]
    BY <1>2, <2>1 DEF Rebased
  <2>4. e \in EntryOf(e.size) /\ e.size \in Span /\ (e.offset - e.base) + c.base \in Int
    BY <2>2, EntryFields
  <2>5. r \in Entry
    <3>1. r \in EntryOf(e.size)
      BY <2>2, <2>3, <2>4 DEF EntryOf
    <3> QED
      BY <2>4, <3>1, EntryMade
  <2>6. /\ r.offset = (e.offset - e.base) + c.base /\ r.base = c.base /\ r.named = c.named
        /\ r.pid = e.pid /\ r.handle = e.handle /\ r.size = e.size /\ r.data = e.data
        /\ r.slot = e.slot /\ r.restore = e.restore /\ r.org = e.org
    BY <2>3, <2>4 DEF EntryOf
  <2> QED
    BY <1>2, <2>2, <2>5, <2>6 DEF SameBut
<1> QED
  BY <1>1, <1>2

LEMMA UpdateFacts ==
  ASSUME NEW B \in Lists, proc \in Processes, NEW C, C = UpdateOffsets(B)
  PROVE  /\ C \in Lists
         /\ \A k \in Kind : /\ Len(C[k]) = Len(B[k]) /\ DOMAIN C[k] = DOMAIN B[k]
                            /\ \A i \in DOMAIN B[k] :
                                 C[k][i] = Rebased(B[k][i], Accessed(HandleOf(B[k][i].pid)))
<1>1. ASSUME NEW k \in Kind
      PROVE  /\ C[k] \in Seq(Entry) /\ Len(C[k]) = Len(B[k]) /\ DOMAIN C[k] = DOMAIN B[k]
             /\ \A i \in DOMAIN B[k] : C[k][i] = Rebased(B[k][i], Accessed(HandleOf(B[k][i].pid)))
  <2>1. C[k] = [i \in DOMAIN B[k] |-> Rebased(B[k][i], Accessed(HandleOf(B[k][i].pid)))]
    BY DEF UpdateOffsets
  <2>2. PICK L : L = C[k]
    OBVIOUS
  <2>3. PICK n \in Nat : n = Len(B[k]) /\ DOMAIN B[k] = 1 .. n
    BY ListFacts
  <2>4. /\ DOMAIN L = 1 .. n /\ L = [i \in 1 .. n |-> L[i]]
        /\ \A i \in 1 .. n : L[i] = Rebased(B[k][i], Accessed(HandleOf(B[k][i].pid)))
    BY <2>1, <2>2, <2>3
  <2>5. ASSUME NEW i \in 1 .. n PROVE L[i] \in Entry
    <3>1. B[k][i] \in Entry
      BY <2>3, ListFacts
    <3>2. Accessed(HandleOf(B[k][i].pid)) \in Process
      BY AccessedFacts DEF Accessed
    <3> QED
      BY <2>4, <3>1, <3>2, RebasedFacts DEF SameBut
  <2>6. L \in Seq(Entry) /\ Len(L) = n
    BY <2>4, <2>5, ListMade
  <2> QED
    BY <2>2, <2>3, <2>4, <2>6
<1>2. C = [k \in Kind |-> C[k]]
  BY DEF UpdateOffsets
<1> QED
  BY <1>1, <1>2 DEF Lists

(* BreakpointInit backs up what it overwrites and writes an int3.          *)
Arms(L, p, pr) == {i \in DOMAIN L : Eligible(L[i], p) /\ Writable(L[i], pr)}

LEMMA InitSoftwareFacts ==
  ASSUME NEW L \in Seq(Entry), NEW p, NEW pr \in Process, NEW S, S = InitSoftware(L, p, pr)
  PROVE  /\ S.list \in Seq(Entry) /\ Len(S.list) = Len(L) /\ DOMAIN S.list = DOMAIN L
         /\ \A i \in DOMAIN L :
              LET e == L[i]
                  r == S.list[i]
              IN  /\ SameBut(e, r) /\ r.offset = e.offset /\ r.base = e.base /\ r.named = e.named
                  /\ IF i \in Arms(L, p, pr) /\ e.org = NoBackup
                     THEN /\ r.org \in [0 .. e.size - 1 -> Byte] /\ r.org # NoBackup
                          /\ \A k \in 0 .. e.size - 1 :
                               r.org[k] = IF \E j \in Arms(L, p, pr) : j < i /\ e.offset + k \in Cells(L[j])
                                          THEN "int3" ELSE pr.mem[e.offset + k]
                     ELSE r.org = e.org
         /\ S.mem \in Memories /\ DOMAIN S.mem = DOMAIN pr.mem
         /\ \A a \in DOMAIN pr.mem :
              S.mem[a] = IF \E i \in Arms(L, p, pr) : a \in Cells(L[i]) THEN "int3" ELSE pr.mem[a]
<1> DEFINE I == Arms(L, p, pr)
           At(i, a) == IF \E j \in I : j < i /\ a \in Cells(L[j]) THEN "int3" ELSE pr.mem[a]
<1>0. Len(L) \in Nat /\ DOMAIN L = 1 .. Len(L) /\ \A i \in DOMAIN L : L[i] \in Entry
  OBVIOUS
<1>1. /\ S.list = [i \in DOMAIN L |-> IF i \in I /\ L[i].org = NoBackup
                                      THEN [L[i] EXCEPT !.org = [k \in 0 .. L[i].size - 1 |-> At(i, L[i].offset + k)]]
                                      ELSE L[i]]
      /\ S.mem = [a \in DOMAIN pr.mem |-> IF \E i \in I : a \in Cells(L[i]) THEN "int3" ELSE pr.mem[a]]
  BY DEF InitSoftware, Arms
<1>2. /\ DOMAIN pr.mem \subseteq Int /\ \A a \in DOMAIN pr.mem : pr.mem[a] \in Byte
  BY ProcessFields, MemoryFacts
<1>3. PICK n, K, m : n \in Nat /\ n = Len(L) /\ DOMAIN L = 1 .. n /\ K = S.list /\ m = S.mem
  BY <1>0
<1>4. /\ DOMAIN m = DOMAIN pr.mem /\ m = [a \in DOMAIN pr.mem |-> m[a]]
      /\ \A a \in DOMAIN pr.mem : m[a] = IF \E i \in I : a \in Cells(L[i]) THEN "int3" ELSE pr.mem[a]
  BY <1>1, <1>3
<1>5. m \in Memories
  <2>1. \A a \in DOMAIN pr.mem : m[a] \in Byte
    BY <1>2, <1>4 DEF Byte
  <2>2. m \in [DOMAIN pr.mem -> Byte] /\ DOMAIN pr.mem \in SUBSET Int
    BY <1>2, <1>4, <2>1
  <2> QED
    BY <2>2, MemoryMade
<1>6. /\ DOMAIN K = 1 .. n /\ K = [i \in 1 .. n |-> K[i]]
      /\ \A i \in 1 .. n : K[i] = IF i \in I /\ L[i].org = NoBackup
                                  THEN [L[i] EXCEPT !.org = [k \in 0 .. L[i].size - 1 |-> At(i, L[i].offset + k)]]
                                  ELSE L[i]
  BY <1>1, <1>3
<1>7. ASSUME NEW i \in 1 .. n
      PROVE  /\ SameBut(L[i], K[i]) /\ K[i].offset = L[i].offset /\ K[i].base = L[i].base
             /\ K[i].named = L[i].named
             /\ IF i \in I /\ L[i].org = NoBackup
                THEN /\ K[i].org \in [0 .. L[i].size - 1 -> Byte] /\ K[i].org # NoBackup
                     /\ \A k \in 0 .. L[i].size - 1 : K[i].org[k] = At(i, L[i].offset + k)
                ELSE K[i].org = L[i].org
  <2>1. CASE ~(i \in I /\ L[i].org = NoBackup)
    BY <1>0, <1>3, <1>6, <2>1 DEF SameBut
  <2>2. CASE i \in I /\ L[i].org = NoBackup
    <3>1. PICK e, o : e = L[i] /\ o = [k \in 0 .. L[i].size - 1 |-> At(i, L[i].offset + k)]
      OBVIOUS
    <3>2. e \in Entry /\ Writable(e, pr)
      BY <1>0, <1>3, <2>2, <3>1 DEF Arms
    <3>3. \A k \in 0 .. e.size - 1 : pr.mem[e.offset + k] \in Byte
      BY <1>2, <3>2, CellFacts DEF Writable
    <3>4. \A k \in 0 .. e.size - 1 : At(i, e.offset + k) \in Byte
      BY <3>3 DEF Byte
    <3>5. /\ o \in [0 .. e.size - 1 -> Byte]
          /\ \A k \in 0 .. e.size - 1 : o[k] = At(i, e.offset + k)
      <4> HIDE DEF At
      <4> QED
        BY <3>1, <3>4
    <3>6. o # NoBackup /\ o \in Backups(e.size)
      BY <3>2, <3>5, BackupFacts, EntryFields DEF Backups
    <3>7. K[i] = [e EXCEPT !.org = o]
      BY <1>6, <2>2, <3>1
    <3>8. K[i] \in Entry /\ e \in EntryOf(e.size)
      BY <3>2, <3>6, <3>7, EntryChanged, EntryFields
    <3>9. /\ K[i].pid = e.pid /\ K[i].handle = e.handle /\ K[i].size = e.size
          /\ K[i].data = e.data /\ K[i].slot = e.slot /\ K[i].restore = e.restore
          /\ K[i].offset = e.offset /\ K[i].base = e.base /\ K[i].named = e.named /\ K[i].org = o
      BY <3>7, <3>8 DEF EntryOf
    <3> HIDE DEF At, I
    <3> QED
      BY <2>2, <3>1, <3>5, <3>6, <3>8, <3>9 DEF SameBut
  <2> QED
    BY <2>1, <2>2
<1>8. K \in Seq(Entry) /\ Len(K) = n
  <2>1. \A i \in 1 .. n : K[i] \in Entry
    BY <1>7 DEF SameBut
  <2> QED
    BY <1>3, <1>6, <2>1, ListMade
<1>9. ASSUME NEW i \in DOMAIN L
      PROVE  LET e == L[i]
                 r == S.list[i]
             IN  /\ SameBut(e, r) /\ r.offset = e.offset /\ r.base = e.base /\ r.named = e.named
                  /\ IF i \in Arms(L, p, pr) /\ e.org = NoBackup
                     THEN /\ r.org \in [0 .. e.size - 1 -> Byte] /\ r.org # NoBackup
                          /\ \A k \in 0 .. e.size - 1 :
                               r.org[k] = IF \E j \in Arms(L, p, pr) : j < i /\ e.offset + k \in Cells(L[j])
                                          THEN "int3" ELSE pr.mem[e.offset + k]
                     ELSE r.org = e.org
  BY <1>3, <1>7
<1> QED
  BY <1>3, <1>4, <1>5, <1>6, <1>8, <1>9

Holders(L, p, s) == {i \in DOMAIN L : Eligible(L[i], p) /\ L[i].slot = s}

(* It loads every slot that a breakpoint has with the offset of one.       *)
Loaded(L, p, pr, q) ==
  /\ q.on = pr.on \cup {s \in Slot : Holders(L, p, s) # {}}
  /\ \A s \in Slot : IF Holders(L, p, s) = {} THEN q.dr[s] = pr.dr[s]
                     ELSE \E i \in Holders(L, p, s) : q.dr[s] = L[i].offset

LEMMA InitHardwareFacts ==
  ASSUME NEW L \in Seq(Entry), NEW p, NEW pr \in Process, NEW m \in Memories,
         DOMAIN m = DOMAIN pr.mem,
         NEW q, q = InitHardware(L, p, [pr EXCEPT !.mem = m])
  PROVE  q \in Process /\ SamePlace(pr, q) /\ q.mem = m /\ Loaded(L, p, pr, q)
<1>1. PICK w : w = [pr EXCEPT !.mem = m]
  OBVIOUS
<1>2. /\ w \in Process /\ w.base = pr.base /\ w.mem = m /\ w.dr = pr.dr /\ w.on = pr.on
      /\ w.dr \in [Slot -> Int] /\ w.on \in SUBSET Slot
  BY <1>1, MemoryWritten, ProcessFields
<1> DEFINE d == [s \in Slot |-> IF Holders(L, p, s) = {} THEN w.dr[s]
                                ELSE L[Max(Holders(L, p, s))].offset]
           o == w.on \cup {s \in Slot : Holders(L, p, s) # {}}
<1>3. q = [w EXCEPT !.dr = d, !.on = o]
  BY <1>1 DEF InitHardware, Holders
<1>4. Len(L) \in Nat /\ DOMAIN L = 1 .. Len(L) /\ \A i \in DOMAIN L : L[i] \in Entry
  OBVIOUS
<1>5. ASSUME NEW s \in Slot
      PROVE  /\ d[s] \in Int
             /\ IF Holders(L, p, s) = {} THEN d[s] = w.dr[s]
                ELSE \E i \in Holders(L, p, s) : d[s] = L[i].offset
  <2>1. CASE Holders(L, p, s) = {}
    BY <1>2, <2>1
  <2>2. CASE Holders(L, p, s) # {}
    <3>1. Holders(L, p, s) \subseteq 1 .. Len(L)
      BY <1>4 DEF Holders
    <3>2. PICK i : i = Max(Holders(L, p, s))
      OBVIOUS
    <3>3. i \in Holders(L, p, s)
      BY <1>4, <2>2, <3>1, <3>2, MaxGreatest
    <3>4. L[i] \in Entry
      BY <1>4, <3>1, <3>3
    <3>5. d[s] = L[i].offset
      BY <2>2, <3>2
    <3> QED
      BY <2>2, <3>3, <3>4, <3>5, EntryFields
  <2> QED
    BY <2>1, <2>2
<1>6. o \in SUBSET Slot /\ d = [s \in Slot |-> d[s]]
  BY <1>2
<1>7. d \in [Slot -> Int]
  BY <1>5, <1>6
<1> HIDE DEF d, o
<1>8. q \in Process /\ q.base = w.base /\ q.mem = w.mem /\ q.dr = d /\ q.on = o
  BY <1>2, <1>3, <1>6, <1>7 DEF Process
<1> QED
  BY <1>2, <1>5, <1>8 DEF SamePlace, Loaded, o

(* BreakpointInit on one process and its lists.                            *)
LEMMA InitFacts ==
  ASSUME NEW B \in Lists, NEW P \in Processes, NEW p \in Pid, NEW R, R = BreakpointInit(B, P, p)
  PROVE  /\ R.bps \in Lists /\ R.proc \in Processes
         /\ R.bps["SOFTWARE_BP"] = InitSoftware(B["SOFTWARE_BP"], p, P[p]).list
         /\ \A k \in Kind : k # "SOFTWARE_BP" => R.bps[k] = B[k]
         /\ \A q \in Pid : q # p => R.proc[q] = P[q]
         /\ R.proc[p].mem = InitSoftware(B["SOFTWARE_BP"], p, P[p]).mem
         /\ Loaded(B["HARDWARE_BP"], p, P[p], R.proc[p])
         /\ SamePlace(P[p], R.proc[p])
<1>1. PICK S : S = InitSoftware(B["SOFTWARE_BP"], p, P[p])
  OBVIOUS
<1>2. PICK q : q = InitHardware(B["HARDWARE_BP"], p, [P[p] EXCEPT !.mem = S.mem])
  OBVIOUS
<1>3. R.bps = [B EXCEPT !["SOFTWARE_BP"] = S.list] /\ R.proc = [P EXCEPT ![p] = q]
  BY <1>1, <1>2 DEF BreakpointInit, Processes
<1>4. B["SOFTWARE_BP"] \in Seq(Entry) /\ B["HARDWARE_BP"] \in Seq(Entry) /\ P[p] \in Process
  BY ListFacts DEF Kind, Processes
<1>5. S.list \in Seq(Entry) /\ S.mem \in Memories /\ DOMAIN S.mem = DOMAIN P[p].mem
  BY <1>1, <1>4, InitSoftwareFacts
<1>6. q \in Process /\ SamePlace(P[p], q) /\ q.mem = S.mem /\ Loaded(B["HARDWARE_BP"], p, P[p], q)
  BY <1>2, <1>4, <1>5, InitHardwareFacts
<1>7. "SOFTWARE_BP" \in Kind
  BY DEF Kind
<1>8. /\ R.bps \in Lists /\ R.bps["SOFTWARE_BP"] = S.list
      /\ \A k \in Kind : k # "SOFTWARE_BP" => R.bps[k] = B[k]
  BY <1>3, <1>5, <1>7, ListSet
<1>9. /\ R.proc \in Processes /\ R.proc[p] = q /\ \A r \in Pid : r # p => R.proc[r] = P[r]
  BY <1>3, <1>6, ProcessSet
<1> QED
  BY <1>1, <1>6, <1>8, <1>9

-----------------------------------------------------------------------------
(* What the actions do, as far as every invariant needs it.                *)

LEMMA EntrySet ==
  ASSUME NEW L \in Seq(Entry), NEW i \in DOMAIN L, NEW e \in Entry, NEW K, K = [L EXCEPT ![i] = e]
  PROVE  /\ K \in Seq(Entry) /\ Len(K) = Len(L) /\ DOMAIN K = DOMAIN L /\ K[i] = e
         /\ \A j \in DOMAIN L : j # i => K[j] = L[j]
OBVIOUS

LEMMA EntryGone ==
  ASSUME NEW L \in Seq(Entry), NEW i \in DOMAIN L, NEW K, K = RemoveAt(L, i)
  PROVE  /\ K \in Seq(Entry) /\ Len(K) = Len(L) - 1
         /\ \A j \in DOMAIN K : K[j] = IF j < i THEN L[j] ELSE L[j + 1]
<1>1. i \in 1 .. Len(L)
  OBVIOUS
<1>2. K \in Seq(Entry) /\ Len(K) = Len(L) - 1
  BY <1>1, RemoveAtProperties
<1>3. DOMAIN K = 1 .. Len(L) - 1
  BY <1>2
<1> QED
  BY <1>1, <1>2, <1>3, RemoveAtProperties

LEMMA EntryAdded ==
  ASSUME NEW L \in Seq(Entry), NEW e \in Entry, NEW K, K = Append(L, e)
  PROVE  /\ K \in Seq(Entry) /\ Len(K) = Len(L) + 1 /\ DOMAIN K = DOMAIN L \cup {Len(L) + 1}
         /\ K[Len(L) + 1] = e /\ \A j \in DOMAIN L : j # Len(L) + 1 /\ K[j] = L[j]
OBVIOUS

LEMMA BaseFacts ==
  ASSUME TypeOK
  PROVE  /\ SetupOK /\ bps \in Lists /\ proc \in Processes /\ pids \subseteq Pid
         /\ "SOFTWARE_BP" \in Kind /\ "MEMORY_BP" \in Kind /\ "HARDWARE_BP" \in Kind
         /\ SW \in Seq(Entry) /\ HW \in Seq(Entry)
         /\ \A p \in Pid : proc[p] \in Process
         /\ \A i \in DOMAIN SW : SW[i] \in Entry
         /\ \A i \in DOMAIN HW : HW[i] \in Entry
<1>1. /\ "SOFTWARE_BP" \in Kind /\ "MEMORY_BP" \in Kind /\ "HARDWARE_BP" \in Kind
  BY DEF Kind
<1>2. bps \in Lists /\ proc \in Processes /\ pids \subseteq Pid /\ SetupOK
  BY SetupFacts DEF TypeOK
<1>3. /\ SW \in Seq(Entry) /\ HW \in Seq(Entry)
      /\ \A i \in DOMAIN SW : SW[i] \in Entry
      /\ \A i \in DOMAIN HW : HW[i] \in Entry
  BY <1>1, <1>2, ListFacts DEF SW, HW
<1> QED
  BY <1>1, <1>2, <1>3 DEF Processes

LEMMA NewProcessFacts ==
  ASSUME SetupOK, NEW b \in Bases
  PROVE  /\ NewProcess(b) \in Process /\ NewProcess(b).base = b
         /\ DOMAIN NewProcess(b).mem = Image(b) \cup Heap
         /\ \A a \in Image(b) \cup Heap : NewProcess(b).mem[a] = "code"
         /\ NewProcess(b).on = {} /\ \A s \in Slot : NewProcess(b).dr[s] = 0
<1>1. b \in Int /\ Image(b) \cup Heap \in SUBSET Int
  BY DEF SetupOK, Image
<1> DEFINE m == [a \in Image(b) \cup Heap |-> "code"]
<1>2. m \in [Image(b) \cup Heap -> Byte]
  BY DEF Byte
<1>3. m \in Memories
  BY <1>1, <1>2, MemoryMade
<1>4. NewProcess(b) = [base |-> b, mem |-> m, dr |-> [s \in Slot |-> 0], on |-> {}]
  BY DEF NewProcess
<1>5. DOMAIN m = Image(b) \cup Heap /\ \A a \in Image(b) \cup Heap : m[a] = "code"
  OBVIOUS
<1> HIDE DEF m
<1> QED
  BY <1>1, <1>3, <1>4, <1>5 DEF Process

(* CREATE_PROCESS_DEBUG_EVENT: BreakpointInit, then the entry point.       *)
Created(p, b, F, R, A) ==
  /\ F \in Processes /\ F[p] = NewProcess(b) /\ \A q \in Pid : q # p => F[q] = proc[q]
  /\ R = BreakpointInit(bps, F, p) /\ R.bps \in Lists /\ R.proc \in Processes
  /\ b + EntryRva \in Int
  /\ A = BreakpointAdd(R.bps, R.proc, "SOFTWARE_BP", p, p, p, b + EntryRva, 1,
                       "BP_DONOTKEEP", "int3")
  /\ bps' = A.bps /\ proc' = A.proc

LEMMA CreateFacts ==
  ASSUME TypeOK, NEW p \in Pid, NEW b \in Bases, CreateProcess(p, b)
  PROVE  \E F, R, A : Created(p, b, F, R, A)
<1>1. PICK F : F = [proc EXCEPT ![p] = NewProcess(b)]
  OBVIOUS
<1>2. PICK R : R = BreakpointInit(bps, F, p)
  OBVIOUS
<1>3. PICK A : A = BreakpointAdd(R.bps, R.proc, "SOFTWARE_BP", p, p, p, b + EntryRva, 1,
                                 "BP_DONOTKEEP", "int3")
  OBVIOUS
<1>4. bps' = A.bps /\ proc' = A.proc
  BY <1>1, <1>2, <1>3 DEF CreateProcess
<1>5. F \in Processes /\ F[p] = NewProcess(b) /\ \A q \in Pid : q # p => F[q] = proc[q]
  <2>1. PICK pr : pr = NewProcess(b)
    OBVIOUS
  <2>2. pr \in Process /\ proc \in Processes
    BY <2>1, BaseFacts, NewProcessFacts
  <2>3. F = [proc EXCEPT ![p] = pr]
    BY <1>1, <2>1
  <2>4. F \in Processes /\ F[p] = pr /\ \A q \in Pid : q # p => F[q] = proc[q]
    BY <2>2, <2>3 DEF Processes
  <2> QED
    BY <2>1, <2>4
<1>6. R.bps \in Lists /\ R.proc \in Processes
  BY <1>2, <1>5, BaseFacts, InitFacts
<1>7. b + EntryRva \in Int
  BY BaseFacts DEF SetupOK
<1> QED
  BY <1>2, <1>3, <1>4, <1>5, <1>6, <1>7 DEF Created

(* A hit, after the rebase and the re-arming of the entry point.           *)
Ready(p, isEP, C, R) ==
  /\ R.bps \in Lists /\ R.proc \in Processes
  /\ isEP => C = UpdateOffsets(bps) /\ R = BreakpointInit(C, proc, p)
  /\ ~isEP => R.bps = bps /\ R.proc = proc

Kept(p, i, R) ==
  /\ bps' = [R.bps EXCEPT !["SOFTWARE_BP"] =
               [R.bps["SOFTWARE_BP"] EXCEPT ![i] = [R.bps["SOFTWARE_BP"][i] EXCEPT !.restore = TRUE]]]
  /\ proc' = [R.proc EXCEPT ![p] = dSoftwareBP(R.bps["SOFTWARE_BP"][i], R.proc[p])]

Dropped(p, a, i, R, Q, X) ==
  /\ Q = [R.proc EXCEPT ![p] = dSoftwareBP(R.bps["SOFTWARE_BP"][i], R.proc[p])]
  /\ Q \in Processes
  /\ X = BreakpointRemove(R.bps, Q, "SOFTWARE_BP", a)
  /\ bps' = X.bps /\ proc' = X.proc

Hit(p, a, isEP, C, R) ==
  /\ Ready(p, isEP, C, R)
  /\ isEP <=> (a = proc[p].base + EntryRva /\ proc[p].mem[a] = "int3")
  /\ \/ /\ \A i \in DOMAIN R.bps["SOFTWARE_BP"] :
             R.bps["SOFTWARE_BP"][i].offset = a => R.bps["SOFTWARE_BP"][i].pid \notin {AnyPid, p}
        /\ bps' = R.bps /\ proc' = R.proc /\ flag' = flag
     \/ \E i \in DOMAIN R.bps["SOFTWARE_BP"], keep \in BOOLEAN :
          /\ R.bps["SOFTWARE_BP"][i].offset = a /\ R.bps["SOFTWARE_BP"][i].pid \in {AnyPid, p}
          /\ keep <=> (R.bps["SOFTWARE_BP"][i].handle = "BP_KEEP" \/ proc[p].mem[a] # "int3")
          /\ keep => Kept(p, i, R)
          /\ ~keep => \E Q, X : Dropped(p, a, i, R, Q, X)
          /\ flag' = RestoreFlag(p, keep, isEP, R.bps["SOFTWARE_BP"][i])

LEMMA HitFacts ==
  ASSUME TypeOK, NEW p \in Pid, NEW a, SoftwareHit(p, a)
  PROVE  \E isEP, C, R : isEP \in BOOLEAN /\ Hit(p, a, isEP, C, R)
<1>1. PICK isEP \in BOOLEAN : isEP <=> (a = proc[p].base + EntryRva /\ proc[p].mem[a] = "int3")
  OBVIOUS
<1>2. PICK C : C = UpdateOffsets(bps)
  OBVIOUS
<1>3. PICK R : R = IF isEP THEN BreakpointInit(C, proc, p) ELSE [bps |-> bps, proc |-> proc]
  OBVIOUS
<1>4. Ready(p, isEP, C, R)
  <2>1. CASE isEP
    <3>1. C \in Lists
      BY <1>2, BaseFacts, UpdateFacts
    <3>2. R = BreakpointInit(C, proc, p)
      BY <1>3, <2>1
    <3>3. R.bps \in Lists /\ R.proc \in Processes
      BY <3>1, <3>2, BaseFacts, InitFacts
    <3> QED
      BY <1>2, <2>1, <3>2, <3>3 DEF Ready
  <2>2. CASE ~isEP
    BY <1>3, <2>2, BaseFacts DEF Ready
  <2> QED
    BY <2>1, <2>2
<1>5. PICK L : L = R.bps["SOFTWARE_BP"]
  OBVIOUS
<1>6. /\ L \in Seq(Entry) /\ \A i \in DOMAIN L : L[i] \in Entry
      /\ R.proc \in Processes /\ R.bps \in Lists /\ R.proc[p] \in Process
  BY <1>4, <1>5, BaseFacts, ListFacts DEF Ready, Processes
<1>7. CASE Found(L, a, p) = {}
  <2>1. bps' = R.bps /\ proc' = R.proc /\ flag' = flag
    BY <1>1, <1>2, <1>3, <1>5, <1>7 DEF SoftwareHit
  <2>2. \A i \in DOMAIN L : L[i].offset = a => L[i].pid \notin {AnyPid, p}
    BY <1>7 DEF Found, Matching
  <2> QED
    BY <1>1, <1>4, <1>5, <2>1, <2>2 DEF Hit
<1>8. CASE Found(L, a, p) # {}
  <2>1. PICK i : i = Min(Found(L, a, p))
    OBVIOUS
  <2>2. Found(L, a, p) \in SUBSET Nat
    BY <1>6 DEF Found, Matching
  <2>3. i \in Found(L, a, p)
    BY <1>8, <2>1, <2>2, MinLeast
  <2>4. i \in DOMAIN L /\ L[i].offset = a /\ L[i].pid \in {AnyPid, p} /\ L[i] \in Entry
    BY <1>6, <2>3 DEF Found, Matching
  <2>5. PICK keep \in BOOLEAN : keep <=> (L[i].handle = "BP_KEEP" \/ proc[p].mem[a] # "int3")
    OBVIOUS
  <2>6. PICK Q, X : /\ Q = [R.proc EXCEPT ![p] = dSoftwareBP(L[i], R.proc[p])]
                    /\ X = BreakpointRemove(R.bps, Q, "SOFTWARE_BP", a)
    OBVIOUS
  <2>7. Q \in Processes
    BY <1>6, <2>4, <2>6, DisarmedFacts, ProcessSet
  <2>8. flag' = RestoreFlag(p, keep, isEP, L[i])
    BY <1>1, <1>2, <1>3, <1>5, <1>8, <2>1, <2>5 DEF SoftwareHit, RestoreFlag
  <2>9. keep => bps' = [R.bps EXCEPT !["SOFTWARE_BP"][i].restore = TRUE] /\ proc' = Q
    BY <1>1, <1>2, <1>3, <1>5, <1>8, <2>1, <2>5, <2>6 DEF SoftwareHit
  <2>10. ~keep => bps' = X.bps /\ proc' = X.proc
    BY <1>1, <1>2, <1>3, <1>5, <1>8, <2>1, <2>5, <2>6 DEF SoftwareHit
  <2>11. keep => Kept(p, i, R)
    BY <1>5, <2>6, <2>9 DEF Kept
  <2>12. ~keep => Dropped(p, a, i, R, Q, X)
    BY <1>5, <2>6, <2>7, <2>10 DEF Dropped
  <2> QED
    BY <1>1, <1>4, <1>5, <2>4, <2>5, <2>8, <2>11, <2>12 DEF Hit
<1> QED
  BY <1>7, <1>8

(* A hardware breakpoint fires.                                            *)
LEMMA HardwareHitFacts ==
  ASSUME TypeOK, NEW p \in Pid, NEW s \in Slot, HardwareHit(p, s)
  PROVE  \E i, e, L :
           /\ i \in DOMAIN HW /\ e \in Entry
           /\ e = [HW[i] EXCEPT !.restore = TRUE] /\ L = [HW EXCEPT ![i] = e]
           /\ HW[i].offset = proc[p].dr[s] /\ HW[i].pid \in {AnyPid, p}
           /\ \A j \in DOMAIN HW : HW[j].offset = proc[p].dr[s] /\ HW[j].pid \in {AnyPid, p} => i <= j
           /\ bps' = [bps EXCEPT !["HARDWARE_BP"] = L]
           /\ proc' = [proc EXCEPT ![p] = dHardwareBP(HW[i], proc[p])]
<1>1. PICK i : i = Min(Found(HW, proc[p].dr[s], p))
  OBVIOUS
<1>2. Found(HW, proc[p].dr[s], p) \in SUBSET Nat
  BY BaseFacts DEF Found, Matching
<1>3. Found(HW, proc[p].dr[s], p) # {}
  BY DEF HardwareHit, HW
<1>4. /\ i \in Found(HW, proc[p].dr[s], p)
      /\ \A j \in Found(HW, proc[p].dr[s], p) : i <= j
  BY <1>1, <1>2, <1>3, MinLeast
<1>5. /\ i \in DOMAIN HW /\ HW[i].offset = proc[p].dr[s] /\ HW[i].pid \in {AnyPid, p}
      /\ \A j \in DOMAIN HW : HW[j].offset = proc[p].dr[s] /\ HW[j].pid \in {AnyPid, p} => i <= j
  BY <1>4 DEF Found, Matching
<1>6. [HW[i] EXCEPT !.restore = TRUE] \in Entry
  BY <1>5, BaseFacts, EntryChanged
<1>7. /\ bps' = [bps EXCEPT !["HARDWARE_BP"] = [HW EXCEPT ![i] = [HW[i] EXCEPT !.restore = TRUE]]]
      /\ proc' = [proc EXCEPT ![p] = dHardwareBP(HW[i], proc[p])]
  BY <1>1 DEF HardwareHit, HW
<1> QED
  BY <1>5, <1>6, <1>7

(* The single step after a hit arms again what waits for it.               *)
Waits(L, p, i) == L[i].restore /\ L[i].handle = "BP_KEEP" /\ L[i].pid \in {AnyPid, p}

SoftwareStep(p, i, h, e, L) ==
  /\ i \in DOMAIN SW /\ e \in Entry
  /\ Waits(SW, p, i) /\ \A j \in DOMAIN SW : Waits(SW, p, j) => i <= j
  /\ h = HandleOf(SW[i].pid)
  /\ SameBut([SW[i] EXCEPT !.restore = FALSE], e) /\ e.offset = SW[i].offset
  /\ e.base = SW[i].base /\ e.named = SW[i].named
  /\ e.org = (IF Writable(SW[i], Accessed(h)) THEN Backup(SW[i], Accessed(h)) ELSE SW[i].org)
  /\ L = [SW EXCEPT ![i] = e] /\ bps' = [bps EXCEPT !["SOFTWARE_BP"] = L]
  /\ proc' = IF h \in Pid THEN [proc EXCEPT ![h] = wSoftwareBP(SW[i], SW[i].data, proc[h])]
                          ELSE proc

HardwareStep(p, i, e, L) ==
  /\ i \in DOMAIN HW /\ e \in Entry
  /\ Waits(HW, p, i) /\ \A j \in DOMAIN HW : Waits(HW, p, j) => i <= j
  /\ e = [HW[i] EXCEPT !.restore = FALSE]
  /\ L = [HW EXCEPT ![i] = e] /\ bps' = [bps EXCEPT !["HARDWARE_BP"] = L]
  /\ proc' = [proc EXCEPT ![p] = wHardwareBP(HW[i], proc[p])]

LEMMA StepFacts ==
  ASSUME TypeOK, NEW p \in Pid, SingleStep(p)
  PROVE  \/ /\ bps' = bps /\ proc' = proc
            /\ flag[p] = "RESTORE_BP_SOFTWARE" => \A i \in DOMAIN SW : ~Waits(SW, p, i)
         \/ flag[p] = "RESTORE_BP_SOFTWARE" /\ \E i, h, e, L : SoftwareStep(p, i, h, e, L)
         \/ flag[p] # "RESTORE_BP_SOFTWARE" /\ \E i, e, L : HardwareStep(p, i, e, L)
<1>1. PICK k : k = IF flag[p] = "RESTORE_BP_SOFTWARE" THEN "SOFTWARE_BP" ELSE "HARDWARE_BP"
  OBVIOUS
<1>2. k \in Kind /\ bps[k] \in Seq(Entry) /\ \A i \in DOMAIN bps[k] : bps[k][i] \in Entry
  BY <1>1, BaseFacts, ListFacts
<1> DEFINE W == {i \in DOMAIN bps[k] : Waits(bps[k], p, i)}
<1>3. PICK i, h : i = Min(W) /\ h = HandleOf(bps[k][i].pid)
  OBVIOUS
<1> DEFINE o == IF k = "SOFTWARE_BP" /\ Writable(bps[k][i], Accessed(h))
                THEN Backup(bps[k][i], Accessed(h)) ELSE bps[k][i].org
           e == [bps[k][i] EXCEPT !.restore = FALSE, !.org = o]
<1>4. CASE W = {}
  <2>1. bps' = bps /\ proc' = proc
    BY <1>1, <1>4 DEF SingleStep, Waits
  <2>2. flag[p] = "RESTORE_BP_SOFTWARE" => \A j \in DOMAIN SW : ~Waits(SW, p, j)
    BY <1>1, <1>4 DEF SW
  <2> QED
    BY <2>1, <2>2
<1>5. CASE W # {}
  <2>1. W \in SUBSET Nat
    BY <1>2
  <2>2. i \in W /\ \A j \in W : i <= j
    BY <1>3, <1>5, <2>1, MinLeast
  <2>3. i \in DOMAIN bps[k] /\ Waits(bps[k], p, i) /\ \A j \in DOMAIN bps[k] : Waits(bps[k], p, j) => i <= j
    BY <2>2
  <2>4. /\ bps' = [bps EXCEPT ![k] = [bps[k] EXCEPT ![i] = e]]
        /\ proc' = CASE k = "HARDWARE_BP" -> [proc EXCEPT ![p] = wHardwareBP(bps[k][i], proc[p])]
                     [] k = "SOFTWARE_BP" /\ h \in Pid ->
                          [proc EXCEPT ![h] = wSoftwareBP(bps[k][i], bps[k][i].data, proc[h])]
                     [] OTHER -> proc
    <3>1. /\ bps' = [bps EXCEPT ![k][i].restore = FALSE,
                                ![k][i].org = IF k = "SOFTWARE_BP" /\ Writable(bps[k][i], Accessed(h))
                                              THEN Backup(bps[k][i], Accessed(h)) ELSE @]
          /\ proc' = CASE k = "HARDWARE_BP" -> [proc EXCEPT ![p] = wHardwareBP(bps[k][i], @)]
                       [] k = "SOFTWARE_BP" /\ h \in Pid ->
                            [proc EXCEPT ![h] = wSoftwareBP(bps[k][i], bps[k][i].data, @)]
                       [] OTHER -> proc
      BY <1>1, <1>3, <1>5 DEF SingleStep, Waits
    <3>2. bps = [j \in Kind |-> bps[j]] /\ k \in DOMAIN bps
      BY <1>2, BaseFacts DEF Lists
    <3>3. PICK f, b : f = bps[k][i] /\ b = o
      OBVIOUS
    <3>4. f \in EntryOf(f.size)
      BY <1>2, <2>3, <3>3, EntryFields
    <3>5. DOMAIN f = {"offset", "base", "named", "pid", "handle", "size", "data", "org", "slot", "restore"}
      BY <3>4 DEF EntryOf
    <3>6. bps' = [bps EXCEPT ![k] = [bps[k] EXCEPT ![i] = [f EXCEPT !.restore = FALSE, !.org = b]]]
      BY <1>2, <2>3, <3>1, <3>2, <3>3, <3>5
    <3>7. proc' = CASE k = "HARDWARE_BP" -> [proc EXCEPT ![p] = wHardwareBP(bps[k][i], proc[p])]
                   [] k = "SOFTWARE_BP" /\ h \in Pid ->
                        [proc EXCEPT ![h] = wSoftwareBP(bps[k][i], bps[k][i].data, proc[h])]
                   [] OTHER -> proc
      BY <3>1
    <3> QED
      BY <3>3, <3>6, <3>7
  <2> HIDE DEF e
  <2>5. PICK f, b : f = bps[k][i] /\ b = o
    OBVIOUS
  <2>6. f \in Entry /\ f \in EntryOf(f.size) /\ f.size \in Span
    BY <1>2, <2>3, <2>5, EntryFields
  <2>7. b \in Backups(f.size)
    <3>1. Accessed(h) \in Process
      BY BaseFacts, AccessedFacts DEF Accessed
    <3> QED
      BY <2>5, <2>6, <3>1, BackupTyped, EntryFields DEF Backups
  <2>8. e = [f EXCEPT !.restore = FALSE, !.org = b]
    BY <2>5 DEF e
  <2>9. e \in EntryOf(f.size)
    BY <2>6, <2>7, <2>8 DEF EntryOf
  <2>10. e \in Entry
    BY <2>6, <2>9, EntryMade
  <2>11. /\ e.pid = f.pid /\ e.handle = f.handle /\ e.size = f.size /\ e.data = f.data
         /\ e.slot = f.slot /\ e.restore = FALSE /\ e.offset = f.offset /\ e.base = f.base
         /\ e.named = f.named /\ e.org = b
    BY <2>6, <2>8 DEF EntryOf
  <2>12. CASE k = "SOFTWARE_BP"
    <3>1. PICK g : g = [f EXCEPT !.restore = FALSE]
      OBVIOUS
    <3>2. g \in Entry
      BY <2>6, <3>1, EntryChanged
    <3>3. /\ g.pid = f.pid /\ g.handle = f.handle /\ g.size = f.size /\ g.data = f.data
          /\ g.slot = f.slot /\ g.restore = FALSE
      BY <2>6, <3>1 DEF EntryOf
    <3>4. SameBut(g, e)
      BY <2>10, <2>11, <3>3 DEF SameBut
    <3>5. flag[p] = "RESTORE_BP_SOFTWARE" /\ bps[k] = SW
      BY <1>1, <2>12 DEF SW
    <3>6. b = IF Writable(f, Accessed(h)) THEN Backup(f, Accessed(h)) ELSE f.org
      BY <2>5, <2>12
    <3>7. proc' = IF h \in Pid THEN [proc EXCEPT ![h] = wSoftwareBP(f, f.data, proc[h])] ELSE proc
      BY <2>4, <2>5, <2>12
    <3> HIDE DEF o
    <3>8. PICK L : L = [SW EXCEPT ![i] = e]
      OBVIOUS
    <3>9. bps' = [bps EXCEPT !["SOFTWARE_BP"] = L]
      BY <2>4, <2>12, <3>5, <3>8
    <3>10. /\ i \in DOMAIN SW /\ Waits(SW, p, i) /\ f = SW[i]
           /\ \A j \in DOMAIN SW : Waits(SW, p, j) => i <= j
      BY <2>3, <2>5, <3>5
    <3>11. SameBut([SW[i] EXCEPT !.restore = FALSE], e) /\ h = HandleOf(SW[i].pid)
      BY <1>3, <3>1, <3>4, <3>5, <3>10
    <3>12. e.offset = SW[i].offset /\ e.base = SW[i].base /\ e.named = SW[i].named
      BY <2>11, <3>10
    <3>13. e.org = IF Writable(SW[i], Accessed(h)) THEN Backup(SW[i], Accessed(h)) ELSE SW[i].org
      BY <2>11, <3>6, <3>10
    <3>14. proc' = IF h \in Pid THEN [proc EXCEPT ![h] = wSoftwareBP(SW[i], SW[i].data, proc[h])]
                                ELSE proc
      BY <3>7, <3>10
    <3>15. SoftwareStep(p, i, h, e, L)
      BY <2>10, <3>8, <3>9, <3>10, <3>11, <3>12, <3>13, <3>14 DEF SoftwareStep
    <3> QED
      BY <3>5, <3>15
  <2>13. CASE k # "SOFTWARE_BP"
    <3>1. flag[p] # "RESTORE_BP_SOFTWARE" /\ k = "HARDWARE_BP" /\ bps[k] = HW
      BY <1>1, <2>13 DEF HW
    <3>2. b = f.org
      BY <2>5, <2>13
    <3>3. e = [f EXCEPT !.restore = FALSE]
      BY <2>6, <2>8, <3>2 DEF EntryOf
    <3>4. proc' = [proc EXCEPT ![p] = wHardwareBP(bps[k][i], proc[p])]
      BY <2>4, <3>1
    <3> HIDE DEF o
    <3>5. PICK L : L = [HW EXCEPT ![i] = e]
      OBVIOUS
    <3>6. HardwareStep(p, i, e, L)
      BY <2>3, <2>4, <2>5, <2>10, <3>1, <3>3, <3>4, <3>5 DEF HardwareStep
    <3> QED
      BY <3>1, <3>6
  <2> QED
    BY <2>12, <2>13
<1> QED
  BY <1>4, <1>5

(* What the disassembler does to the cells of one process.                 *)
Taken(I, h, m, N(_, _)) ==
  [a \in DOMAIN m |-> IF LastOver(I, h, a) = {} THEN m[a] ELSE N(Min(LastOver(I, h, a)), a)]

Out(i, a) == SW[i].org[a - SW[i].offset]
Back(i, a) == SW[i].data

LEMMA LastOverFacts ==
  ASSUME TypeOK, NEW I \in SUBSET (DOMAIN SW), NEW h, NEW a, LastOver(I, h, a) # {}
  PROVE  \E i \in I : i = Min(LastOver(I, h, a)) /\ HandleOf(SW[i].pid) = h /\ a \in Cells(SW[i])
<1>1. LastOver(I, h, a) \in SUBSET Nat
  BY BaseFacts DEF LastOver
<1> QED
  BY <1>1, MinLeast DEF LastOver, SW

LEMMA VisitedFacts ==
  ASSUME NEW p, NEW i \in Visited(p)
  PROVE  /\ i \in DOMAIN SW /\ SW[i].pid \in {AnyPid, p} /\ ~SW[i].restore
         /\ Writable(SW[i], Accessed(HandleOf(SW[i].pid)))
BY DEF Visited, SW

(* The cells of h hold what they held, or what an entry visited for p has  *)
(* there: the backup (take) or the opcode.                                 *)
Touched(p, h, take, m, n) ==
  /\ n \in Memories /\ DOMAIN n = DOMAIN m
  /\ \A a \in DOMAIN m :
       \/ n[a] = m[a]
       \/ \E i \in Visited(p) : /\ take => SW[i].org # NoBackup
                                /\ HandleOf(SW[i].pid) = h /\ a \in Cells(SW[i])
                                /\ n[a] = IF take THEN Out(i, a) ELSE Back(i, a)

LEMMA TakenFacts ==
  ASSUME TypeOK, NEW p, NEW h, NEW m \in Memories, NEW I \in SUBSET Visited(p)
  PROVE  /\ (\A i \in I : SW[i].org # NoBackup) => Touched(p, h, TRUE, m, Taken(I, h, m, Out))
         /\ Touched(p, h, FALSE, m, Taken(I, h, m, Back))
<1>1. DOMAIN m \in SUBSET Int /\ \A a \in DOMAIN m : m[a] \in Byte
  BY MemoryFacts
<1>2. I \in SUBSET (DOMAIN SW)
  BY VisitedFacts
<1>3. ASSUME NEW a \in DOMAIN m, LastOver(I, h, a) # {}
      PROVE  \E i \in I : /\ i = Min(LastOver(I, h, a)) /\ i \in Visited(p)
                          /\ HandleOf(SW[i].pid) = h /\ a \in Cells(SW[i])
                          /\ SW[i].org # NoBackup => Out(i, a) \in Byte
                          /\ Back(i, a) \in Byte
  <2>1. PICK i \in I : i = Min(LastOver(I, h, a)) /\ HandleOf(SW[i].pid) = h /\ a \in Cells(SW[i])
    BY <1>2, <1>3, LastOverFacts
  <2>2. i \in Visited(p) /\ SW[i] \in Entry
    BY <2>1, BaseFacts, VisitedFacts
  <2>3. /\ SW[i].org # NoBackup => SW[i].org \in [0 .. SW[i].size - 1 -> Byte]
        /\ a - SW[i].offset \in 0 .. SW[i].size - 1
    BY <2>1, <2>2, OrgFacts, CellFacts
  <2>4. SW[i].data \in Byte
    BY <2>2, EntryFields DEF Trap, Byte
  <2> QED
    BY <2>1, <2>2, <2>3, <2>4 DEF Out, Back
<1>4. ASSUME NEW n, n = Taken(I, h, m, Out), \A i \in I : SW[i].org # NoBackup
      PROVE  Touched(p, h, TRUE, m, n)
  <2>1. /\ DOMAIN n = DOMAIN m /\ n = [a \in DOMAIN m |-> n[a]]
        /\ \A a \in DOMAIN m : n[a] = IF LastOver(I, h, a) = {} THEN m[a]
                                       ELSE Out(Min(LastOver(I, h, a)), a)
    BY <1>4 DEF Taken
  <2>2. \A a \in DOMAIN m : n[a] \in Byte
    BY <1>1, <1>3, <1>4, <2>1
  <2>3. n \in [DOMAIN m -> Byte]
    BY <2>1, <2>2
  <2>4. n \in Memories
    BY <1>1, <2>3, MemoryMade
  <2> QED
    BY <1>3, <1>4, <2>1, <2>4 DEF Touched
<1>5. ASSUME NEW n, n = Taken(I, h, m, Back) PROVE Touched(p, h, FALSE, m, n)
  <2>1. /\ DOMAIN n = DOMAIN m /\ n = [a \in DOMAIN m |-> n[a]]
        /\ \A a \in DOMAIN m : n[a] = IF LastOver(I, h, a) = {} THEN m[a]
                                       ELSE Back(Min(LastOver(I, h, a)), a)
    BY <1>5 DEF Taken
  <2>2. \A a \in DOMAIN m : n[a] \in Byte
    BY <1>1, <1>3, <2>1
  <2>3. n \in [DOMAIN m -> Byte]
    BY <2>1, <2>2
  <2>4. n \in Memories
    BY <1>1, <2>3, MemoryMade
  <2> QED
    BY <1>3, <2>1, <2>4 DEF Touched
<1> QED
  BY <1>4, <1>5

Swept(p, take) ==
  /\ proc' \in Processes
  /\ \A h \in Pid : /\ SamePlace(proc[h], proc'[h]) /\ SameRegs(proc[h], proc'[h])
                    /\ Touched(p, h, take, proc[h].mem, proc'[h].mem)

LEMMA SweptMade ==
  ASSUME TypeOK, NEW p, NEW take \in BOOLEAN, NEW f, DOMAIN f = Pid,
         \A h \in Pid : Touched(p, h, take, proc[h].mem, f[h]),
         proc' = [h \in Pid |-> [proc[h] EXCEPT !.mem = f[h]]]
  PROVE  Swept(p, take)
<1>1. ASSUME NEW h \in Pid
      PROVE  /\ proc'[h] \in Process /\ SamePlace(proc[h], proc'[h]) /\ SameRegs(proc[h], proc'[h])
             /\ proc'[h].mem = f[h]
  <2>1. proc[h] \in Process /\ f[h] \in Memories /\ DOMAIN f[h] = DOMAIN proc[h].mem
    BY BaseFacts DEF Touched
  <2>2. PICK pr, q, m : pr = proc[h] /\ q = proc'[h] /\ m = f[h]
    OBVIOUS
  <2>3. q = [pr EXCEPT !.mem = m]
    BY <2>2
  <2>4. q \in Process /\ q.base = pr.base /\ q.mem = m /\ q.dr = pr.dr /\ q.on = pr.on
    BY <2>1, <2>2, <2>3, MemoryWritten
  <2> QED
    BY <2>1, <2>2, <2>4 DEF SamePlace, SameRegs
<1>2. proc' = [h \in Pid |-> proc'[h]]
  OBVIOUS
<1>3. proc' \in Processes
  BY <1>1, <1>2 DEF Processes
<1> QED
  BY <1>1, <1>3 DEF Swept

LEMMA HideFacts ==
  ASSUME TypeOK, NEW p \in Pid, Hide(p) PROVE Swept(p, TRUE)
<1>1. PICK I : I = {i \in Visited(p) : SW[i].org # NoBackup}
  OBVIOUS
<1>2. PICK f : f = [h \in Pid |-> Taken(I, h, proc[h].mem, Out)]
  OBVIOUS
<1>3. DOMAIN f = Pid /\ \A h \in Pid : f[h] = Taken(I, h, proc[h].mem, Out)
  BY <1>2
<1>4. ASSUME NEW h \in Pid PROVE Touched(p, h, TRUE, proc[h].mem, f[h])
  <2>1. PICK m : m = proc[h].mem
    OBVIOUS
  <2>2. m \in Memories
    BY <2>1, BaseFacts, ProcessFields
  <2>3. I \in SUBSET Visited(p) /\ \A i \in I : SW[i].org # NoBackup
    BY <1>1
  <2>4. Touched(p, h, TRUE, m, Taken(I, h, m, Out))
    BY <2>2, <2>3, TakenFacts
  <2> QED
    BY <1>3, <2>1, <2>4
<1>5. proc' = [h \in Pid |-> [proc[h] EXCEPT !.mem = Taken(I, h, proc[h].mem, Out)]]
  BY <1>1 DEF Hide, Taken, Out, SW
<1>6. proc' = [h \in Pid |-> [proc[h] EXCEPT !.mem = f[h]]]
  BY <1>3, <1>5
<1> QED
  BY <1>3, <1>4, <1>6, SweptMade

LEMMA ShowFacts ==
  ASSUME TypeOK, Show PROVE Swept(hidden, FALSE)
<1>1. PICK I : I = Visited(hidden)
  OBVIOUS
<1>2. PICK f : f = [h \in Pid |-> Taken(I, h, proc[h].mem, Back)]
  OBVIOUS
<1>3. DOMAIN f = Pid /\ \A h \in Pid : f[h] = Taken(I, h, proc[h].mem, Back)
  BY <1>2
<1>4. ASSUME NEW h \in Pid PROVE Touched(hidden, h, FALSE, proc[h].mem, f[h])
  <2>1. PICK m : m = proc[h].mem
    OBVIOUS
  <2>2. m \in Memories
    BY <2>1, BaseFacts, ProcessFields
  <2>3. Touched(hidden, h, FALSE, m, Taken(I, h, m, Back))
    BY <1>1, <2>2, TakenFacts
  <2> QED
    BY <1>3, <2>1, <2>3
<1>5. proc' = [h \in Pid |-> [proc[h] EXCEPT !.mem = Taken(I, h, proc[h].mem, Back)]]
  BY <1>1 DEF Show, Taken, Back, SW
<1>6. proc' = [h \in Pid |-> [proc[h] EXCEPT !.mem = f[h]]]
  BY <1>3, <1>5
<1> QED
  BY <1>3, <1>4, <1>6, SweptMade

(* Entries that get a backup and nothing else.                             *)
OnlyBackups(L, K) ==
  /\ K \in Seq(Entry) /\ DOMAIN K = DOMAIN L
  /\ \A i \in DOMAIN L : /\ SameBut(L[i], K[i]) /\ K[i].offset = L[i].offset
                         /\ K[i].base = L[i].base /\ K[i].named = L[i].named
                         /\ L[i].org # NoBackup => K[i] = L[i]

(* What an entry reads before it writes its own bytes.                     *)
Written(J, h, a) == IF LastOver(J, h, a) = {} THEN proc[h].mem[a]
                    ELSE SW[Min(LastOver(J, h, a))].data
Reads(i) == [k \in 0 .. SW[i].size - 1 |->
               Written({j \in Visited(hidden) : j < i}, HandleOf(SW[i].pid), SW[i].offset + k)]

LEMMA ReadsFacts ==
  ASSUME TypeOK, NEW i \in Visited(hidden)
  PROVE  Reads(i) \in [0 .. SW[i].size - 1 -> Byte]
<1>1. PICK e, h, pr : e = SW[i] /\ h = HandleOf(e.pid) /\ pr = Accessed(h)
  OBVIOUS
<1>2. /\ e \in Entry /\ Writable(e, pr) /\ e.offset \in Cells(e)
      /\ \A k \in 0 .. e.size - 1 : e.offset + k \in Cells(e)
  BY <1>1, BaseFacts, VisitedFacts, CellFacts
<1>3. h \in Pid /\ pr = proc[h] /\ pr \in Process
  BY <1>1, <1>2, BaseFacts DEF Writable, Accessed, DeadProcess
<1>4. PICK J : J = {j \in Visited(hidden) : j < i}
  OBVIOUS
<1>5. J \in SUBSET (DOMAIN SW)
  BY <1>4, VisitedFacts
<1>6. ASSUME NEW k \in 0 .. e.size - 1 PROVE Written(J, h, e.offset + k) \in Byte
  <2>1. PICK a : a = e.offset + k
    OBVIOUS
  <2>2. a \in DOMAIN pr.mem /\ pr.mem[a] \in Byte
    BY <1>2, <1>3, <2>1, ProcessFields, MemoryFacts DEF Writable
  <2>3. CASE LastOver(J, h, a) = {}
    BY <1>3, <2>1, <2>2, <2>3 DEF Written
  <2>4. CASE LastOver(J, h, a) # {}
    <3>1. PICK j \in J : j = Min(LastOver(J, h, a))
      BY <1>5, <2>4, LastOverFacts
    <3>2. SW[j].data \in Byte
      BY <1>5, <3>1, BaseFacts, EntryFields DEF Trap, Byte
    <3> QED
      BY <2>1, <2>4, <3>1, <3>2 DEF Written
  <2> QED
    BY <2>3, <2>4
<1> QED
  BY <1>1, <1>4, <1>6 DEF Reads

LEMMA ShowLists ==
  ASSUME TypeOK, Show
  PROVE  bps' = [bps EXCEPT !["SOFTWARE_BP"] = SW'] /\ OnlyBackups(SW, SW')
<1>0. bps \in Lists /\ "SOFTWARE_BP" \in Kind /\ SW \in Seq(Entry) /\ \A i \in DOMAIN SW : SW[i] \in Entry
  BY BaseFacts
<1>1. PICK K : K = [i \in DOMAIN SW |-> IF i \in Visited(hidden) /\ SW[i].org = NoBackup
                                        THEN [SW[i] EXCEPT !.org = Reads(i)] ELSE SW[i]]
  OBVIOUS
<1>2. bps' = [bps EXCEPT !["SOFTWARE_BP"] = K]
  BY <1>1 DEF Show, SW, Reads, Written
<1>3. SW' = K
  BY <1>0, <1>2 DEF SW, Lists
<1>4. ASSUME NEW i \in DOMAIN SW
      PROVE  /\ SameBut(SW[i], K[i]) /\ K[i].offset = SW[i].offset
             /\ K[i].base = SW[i].base /\ K[i].named = SW[i].named
             /\ SW[i].org # NoBackup => K[i] = SW[i]
  <2>1. CASE ~(i \in Visited(hidden) /\ SW[i].org = NoBackup)
    BY <1>0, <1>1, <2>1 DEF SameBut
  <2>2. CASE i \in Visited(hidden) /\ SW[i].org = NoBackup
    <3>1. PICK e, g, f : e = SW[i] /\ g = K[i] /\ f = Reads(i)
      OBVIOUS
    <3>2. e \in EntryOf(e.size) /\ e.size \in Span /\ f \in [0 .. e.size - 1 -> Byte]
      BY <1>0, <2>2, <3>1, EntryFields, ReadsFacts
    <3>3. g = [e EXCEPT !.org = f]
      BY <1>1, <2>2, <3>1
    <3>4. g \in EntryOf(e.size)
      BY <3>2, <3>3 DEF EntryOf, Backups
    <3>5. g \in Entry
      BY <3>2, <3>4 DEF Entry
    <3>6. SameBut(e, g) /\ g.offset = e.offset /\ g.base = e.base /\ g.named = e.named
      BY <3>2, <3>3, <3>5 DEF SameBut, EntryOf
    <3> QED
      BY <2>2, <3>1, <3>6
  <2> QED
    BY <2>1, <2>2
<1>5. K \in Seq(Entry) /\ DOMAIN K = DOMAIN SW
  <2>1. PICK n : n = Len(SW) /\ n \in Nat /\ DOMAIN SW = 1 .. n
    BY <1>0
  <2>2. DOMAIN K = 1 .. n /\ \A i \in 1 .. n : K[i] \in Entry
    BY <1>1, <1>4, <2>1 DEF SameBut
  <2>3. K = [i \in 1 .. n |-> K[i]]
    BY <1>1, <2>1
  <2> QED
    BY <2>1, <2>2, <2>3
<1> QED
  BY <1>2, <1>3, <1>4, <1>5 DEF OnlyBackups

(* Where every entry has a backup the lists stay as they are.              *)
LEMMA ShowKeeps ==
  ASSUME TypeOK, Show, \A i \in DOMAIN SW : SW[i].org # NoBackup
  PROVE  bps' = bps /\ SW' = SW
<1>1. OnlyBackups(SW, SW') /\ bps' = [bps EXCEPT !["SOFTWARE_BP"] = SW'] /\ bps \in Lists
  BY ShowLists, BaseFacts
<1>2. PICK L, K : L = SW /\ K = SW'
  OBVIOUS
<1>3. K \in Seq(Entry) /\ L \in Seq(Entry) /\ DOMAIN K = DOMAIN L /\ \A i \in DOMAIN L : K[i] = L[i]
  BY <1>1, <1>2, BaseFacts DEF OnlyBackups
<1>4. K = L
  BY <1>3
<1>5. SW' = SW
  BY <1>2, <1>4
<1> QED
  BY <1>1, <1>5 DEF SW, Lists

-----------------------------------------------------------------------------
(* Types.                                                                  *)

LEMMA OfferedFacts ==
  ASSUME SetupOK, NEW s \in Offered
  PROVE  /\ s.kind \in Kind /\ s.kind \in UserKind /\ s.size \in Span /\ s.handle \in Handle
         /\ s.op \in Trap
BY SizeFacts DEF SetupOK, Offered, Shape, Handle, OneShot, Trap, Span, Kind

(* Breakpoints of one byte, if that is all the setup has.                  *)
LEMMA OneByte ==
  ASSUME Size = {1}, "ud2" \notin Opcode, NEW s \in Offered PROVE s.op # "ud2" /\ s.size = 1
<1>1. s \in Shape
  BY DEF Offered
<1>2. CASE \E z \in Size, o \in Opcode :
               s = [kind |-> "SOFTWARE_BP", size |-> z, handle |-> "BP_KEEP", op |-> o]
  BY <1>2
<1>3. CASE s \in [kind : {"SOFTWARE_BP"}, size : {1}, handle : OneShot, op : {"int3"}]
  BY <1>3
<1>4. CASE s \in [kind : {"MEMORY_BP", "HARDWARE_BP"}, size : {1}, handle : {"BP_KEEP"},
                  op : {"int3"}]
  BY <1>4
<1> QED
  BY <1>1, <1>2, <1>3, <1>4 DEF Shape

LEMMA AddressFacts == ASSUME SetupOK, NEW off \in Address PROVE off \in Int
<1>1. CASE off \in Heap
  BY <1>1 DEF SetupOK
<1>2. CASE off \notin Heap
  <2>1. PICK b \in Bases : off \in Image(b)
    BY <1>2 DEF Address
  <2>2. PICK r \in Rva : off = b + r
    BY <2>1 DEF Image
  <2> QED
    BY <2>1, <2>2 DEF SetupOK
<1> QED
  BY <1>1, <1>2

LEMMA AddTyped ==
  ASSUME NEW B \in Lists, NEW P \in Processes, NEW k \in Kind, NEW pid \in Pid \cup {AnyPid},
         NEW h, NEW cur, NEW off \in Int, NEW size \in Span, NEW hd \in Handle, NEW op \in Trap,
         NEW R, R = BreakpointAdd(B, P, k, pid, h, cur, off, size, hd, op)
  PROVE  R.bps \in Lists /\ R.proc \in Processes
<1>0. /\ "SOFTWARE_BP" \in Kind /\ "MEMORY_BP" \in Kind /\ "HARDWARE_BP" \in Kind
  BY DEF Kind
<1>1. CASE Same(B, P, R)
  BY <1>1 DEF Same
<1>2. ASSUME NEW e, e \in Entry, R.bps = [B EXCEPT ![k] = Append(B[k], e)] PROVE R.bps \in Lists
  <2>1. PICK L : L = Append(B[k], e)
    OBVIOUS
  <2>2. L \in Seq(Entry)
    BY <1>2, <2>1, ListFacts
  <2>3. R.bps = [B EXCEPT ![k] = L]
    BY <1>2, <2>1
  <2> QED
    BY <2>2, <2>3 DEF Lists
<1>3. ASSUME k = "SOFTWARE_BP", NEW e, AddedSoftware(B, P, pid, h, off, size, hd, op, e, R)
      PROVE  R.bps \in Lists /\ R.proc \in Processes
  <2>1. e \in Entry /\ h \in Pid /\ P[h] \in Process
    BY <1>3 DEF AddedSoftware, Processes
  <2>2. PICK pr : pr = Armed(e, op, P[h])
    OBVIOUS
  <2>3. pr \in Process
    BY <2>1, <2>2, ArmedFacts
  <2>4. R.proc = [P EXCEPT ![h] = pr]
    BY <1>3, <2>2 DEF AddedSoftware
  <2> QED
    BY <1>2, <1>3, <2>1, <2>3, <2>4 DEF AddedSoftware, Processes
<1>4. ASSUME k = "MEMORY_BP", NEW e, AddedMemory(B, P, off, e, R)
      PROVE  R.bps \in Lists /\ R.proc \in Processes
  BY <1>2, <1>4 DEF AddedMemory
<1>5. ASSUME k = "HARDWARE_BP", NEW e, NEW t,
             AddedHardware(B, P, pid, h, cur, off, size, hd, op, e, t, R)
      PROVE  R.bps \in Lists /\ R.proc \in Processes
  <2>1. e \in Entry
    BY <1>5 DEF AddedHardware
  <2>2. PICK pr : pr = wHardwareBP(e, P[t])
    OBVIOUS
  <2>3. t \in Pid => pr \in Process
    BY <2>1, <2>2, HardwareSetFacts DEF Processes
  <2>4. R.proc = IF t \in Pid THEN [P EXCEPT ![t] = pr] ELSE P
    BY <1>5, <2>2 DEF AddedHardware
  <2>5. R.proc \in Processes
    BY <2>3, <2>4 DEF Processes
  <2> QED
    BY <1>2, <1>5, <2>1, <2>5 DEF AddedHardware
<1>6. CASE k = "SOFTWARE_BP"
  BY <1>1, <1>3, <1>6, AddSoftware
<1>7. CASE k = "MEMORY_BP"
  BY <1>1, <1>4, <1>7, AddMemory
<1>8. CASE k = "HARDWARE_BP"
  BY <1>1, <1>5, <1>8, AddHardware
<1> QED
  BY <1>6, <1>7, <1>8 DEF Kind

LEMMA RemoveTyped ==
  ASSUME NEW B \in Lists, NEW P \in Processes, NEW k \in Kind, NEW off,
         NEW R, R = BreakpointRemove(B, P, k, off)
  PROVE  R.bps \in Lists /\ R.proc \in Processes
<1>1. CASE Same(B, P, R)
  BY <1>1 DEF Same
<1>2. CASE ~Same(B, P, R)
  <2>1. PICK i, h : Removed(B, P, k, off, i, h, R)
    BY <1>2, RemoveFacts
  <2>2. i \in DOMAIN B[k] /\ B[k] \in Seq(Entry) /\ B[k][i] \in Entry
    BY <2>1, ListFacts DEF Removed
  <2>3. RemoveAt(B[k], i) \in Seq(Entry)
    BY <2>2, EntryGone
  <2>4. R.bps \in Lists
    BY <2>1, <2>3 DEF Removed, Lists
  <2>5. \A q \in Pid : P[q] \in Process
    BY DEF Processes
  <2>6. CASE k = "SOFTWARE_BP"
    <3>1. PICK q : q = dSoftwareBP(B[k][i], P[h])
      OBVIOUS
    <3>2. h \in Pid => q \in Process
      BY <2>2, <2>5, <3>1, DisarmedFacts
    <3>3. R.proc = IF h \in Pid THEN [P EXCEPT ![h] = q] ELSE P
      BY <2>1, <2>6, <3>1 DEF Removed
    <3> QED
      BY <2>4, <3>2, <3>3 DEF Processes
  <2>7. CASE k = "HARDWARE_BP"
    <3>1. PICK t, q : t = B[k][i].pid /\ q = dHardwareBP(B[k][i], P[t])
      OBVIOUS
    <3>2. t \in Pid => q \in Process
      BY <2>2, <2>5, <3>1, HardwareGoneFacts
    <3>3. R.proc = IF t \in Pid THEN [P EXCEPT ![t] = q] ELSE P
      BY <2>1, <2>7, <3>1 DEF Removed
    <3> QED
      BY <2>4, <3>2, <3>3 DEF Processes
  <2> QED
    BY <2>1, <2>4, <2>6, <2>7 DEF Removed, Kind
<1> QED
  BY <1>1, <1>2

ListsOK == bps' \in Lists /\ proc' \in Processes

LEMMA CreateTyped ==
  ASSUME TypeOK, NEW p \in Pid, NEW b \in Bases, CreateProcess(p, b) PROVE ListsOK
<1>1. PICK F, R, A : Created(p, b, F, R, A)
  BY CreateFacts
<1>2. 1 \in Span /\ "BP_DONOTKEEP" \in Handle /\ "int3" \in Trap
  BY DEF Span, Handle, OneShot, Trap
<1> QED
  BY <1>1, <1>2, BaseFacts, AddTyped DEF Created, ListsOK

LEMMA HitTyped ==
  ASSUME TypeOK, NEW p \in Pid, NEW a, SoftwareHit(p, a) PROVE ListsOK
<1>1. PICK isEP, C, R : isEP \in BOOLEAN /\ Hit(p, a, isEP, C, R)
  BY HitFacts
<1>2. PICK L : L = R.bps["SOFTWARE_BP"]
  OBVIOUS
<1>3. /\ R.bps \in Lists /\ R.proc \in Processes /\ R.proc[p] \in Process
      /\ L \in Seq(Entry) /\ \A i \in DOMAIN L : L[i] \in Entry
  BY <1>1, <1>2, BaseFacts, ListFacts DEF Hit, Ready, Processes
<1>4. ASSUME NEW i \in DOMAIN L, Kept(p, i, R) PROVE ListsOK
  <2>1. PICK e, K, q : /\ e = [L[i] EXCEPT !.restore = TRUE] /\ K = [L EXCEPT ![i] = e]
                       /\ q = dSoftwareBP(L[i], R.proc[p])
    OBVIOUS
  <2>2. e \in Entry /\ q \in Process
    BY <1>3, <2>1, EntryChanged, DisarmedFacts
  <2>3. K \in Seq(Entry)
    BY <1>3, <2>1, <2>2, EntrySet
  <2>4. bps' = [R.bps EXCEPT !["SOFTWARE_BP"] = K] /\ proc' = [R.proc EXCEPT ![p] = q]
    BY <1>2, <1>4, <2>1 DEF Kept
  <2> QED
    BY <1>3, <2>2, <2>3, <2>4 DEF ListsOK, Lists, Processes
<1>5. ASSUME NEW i \in DOMAIN L, NEW Q, NEW X, Dropped(p, a, i, R, Q, X) PROVE ListsOK
  BY <1>3, <1>5, BaseFacts, RemoveTyped DEF Dropped, ListsOK
<1>6. CASE bps' = R.bps /\ proc' = R.proc
  BY <1>3, <1>6 DEF ListsOK
<1> QED
  BY <1>1, <1>2, <1>4, <1>5, <1>6 DEF Hit

LEMMA HardwareHitTyped ==
  ASSUME TypeOK, NEW p \in Pid, NEW s \in Slot, HardwareHit(p, s) PROVE ListsOK
<1>1. PICK i, e, L :
        /\ i \in DOMAIN HW /\ e \in Entry
        /\ L = [HW EXCEPT ![i] = e] /\ bps' = [bps EXCEPT !["HARDWARE_BP"] = L]
        /\ proc' = [proc EXCEPT ![p] = dHardwareBP(HW[i], proc[p])]
  BY HardwareHitFacts
<1>2. PICK q : q = dHardwareBP(HW[i], proc[p])
  OBVIOUS
<1>3. q \in Process /\ L \in Seq(Entry)
  BY <1>1, <1>2, BaseFacts, HardwareGoneFacts, EntrySet
<1>4. proc' = [proc EXCEPT ![p] = q]
  BY <1>1, <1>2
<1> QED
  BY <1>1, <1>3, <1>4, BaseFacts DEF ListsOK, Lists, Processes

LEMMA StepTyped ==
  ASSUME TypeOK, NEW p \in Pid, SingleStep(p) PROVE ListsOK
<1>1. CASE bps' = bps /\ proc' = proc
  BY <1>1, BaseFacts DEF ListsOK
<1>2. ASSUME NEW i, NEW h, NEW e, NEW L, SoftwareStep(p, i, h, e, L) PROVE ListsOK
  <2>1. i \in DOMAIN SW /\ SW[i] \in Entry /\ e \in Entry /\ L \in Seq(Entry)
    BY <1>2, BaseFacts, EntrySet DEF SoftwareStep
  <2>2. PICK q : q = wSoftwareBP(SW[i], SW[i].data, proc[h])
    OBVIOUS
  <2>3. SW[i].data \in Trap
    BY <2>1, EntryFields
  <2>4. h \in Pid => q \in Process
    BY <2>1, <2>2, <2>3, BaseFacts, ArmedFacts DEF wSoftwareBP
  <2>5. bps' = [bps EXCEPT !["SOFTWARE_BP"] = L] /\ proc' = IF h \in Pid THEN [proc EXCEPT ![h] = q] ELSE proc
    BY <1>2, <2>2 DEF SoftwareStep
  <2> QED
    BY <2>1, <2>4, <2>5, BaseFacts DEF ListsOK, Lists, Processes
<1>3. ASSUME NEW i, NEW e, NEW L, HardwareStep(p, i, e, L) PROVE ListsOK
  <2>1. i \in DOMAIN HW /\ HW[i] \in Entry /\ e \in Entry /\ L \in Seq(Entry)
    BY <1>3, BaseFacts, EntrySet DEF HardwareStep
  <2>2. PICK q : q = wHardwareBP(HW[i], proc[p])
    OBVIOUS
  <2>3. q \in Process
    BY <2>1, <2>2, BaseFacts, HardwareSetFacts
  <2>4. bps' = [bps EXCEPT !["HARDWARE_BP"] = L] /\ proc' = [proc EXCEPT ![p] = q]
    BY <1>3, <2>2 DEF HardwareStep
  <2> QED
    BY <2>1, <2>3, <2>4, BaseFacts DEF ListsOK, Lists, Processes
<1> QED
  BY <1>1, <1>2, <1>3, StepFacts

LEMMA UserAddTyped ==
  ASSUME TypeOK, NEW s \in Offered, NEW pid \in UserPid, NEW off \in Address,
         GUIAdd(s.kind, pid, off, s.size, s.handle, s.op)
  PROVE  ListsOK
<1>1. PICK cur, A : /\ A = BreakpointAdd(bps, proc, s.kind, pid, HandleOf(pid), cur, off,
                                         s.size, s.handle, s.op)
                    /\ bps' = A.bps /\ proc' = A.proc
  BY DEF GUIAdd
<1>2. /\ s.kind \in Kind /\ s.size \in Span /\ s.handle \in Handle /\ s.op \in Trap
      /\ off \in Int /\ pid \in Pid \cup {AnyPid}
  BY BaseFacts, OfferedFacts, AddressFacts DEF SetupOK
<1>3. bps \in Lists /\ proc \in Processes
  BY BaseFacts
<1> QED
  BY <1>1, <1>2, <1>3, AddTyped DEF ListsOK

LEMMA UserRemoveTyped ==
  ASSUME TypeOK, NEW k \in Kind, NEW off, GUIRemove(k, off) PROVE ListsOK
BY BaseFacts, RemoveTyped DEF GUIRemove, ListsOK

LEMMA ClearTyped ==
  ASSUME TypeOK, ClearStep
  PROVE  ListsOK /\ clr' \in {NotClearing} \cup [kind : Kind, i : Nat \ {0}]
<1>1. clr \in [kind : Kind, i : Nat \ {0}]
  BY DEF ClearStep, TypeOK
<1>2. PICK k, i : clr = [kind |-> k, i |-> i] /\ k \in Kind /\ i \in Nat \ {0}
  BY <1>1
<1>3. CASE i <= Len(bps[k])
  <2>1. PICK off, R : off = bps[k][i].offset /\ R = BreakpointRemove(bps, proc, k, off)
    OBVIOUS
  <2>2. bps' = R.bps /\ proc' = R.proc /\ clr' = [clr EXCEPT !.i = i + 1]
    BY <1>2, <1>3, <2>1 DEF ClearStep
  <2>3. clr' \in [kind : Kind, i : Nat \ {0}]
    BY <1>2, <2>2
  <2> QED
    BY <1>2, <2>1, <2>2, <2>3, BaseFacts, RemoveTyped DEF ListsOK
<1>4. CASE ~(i <= Len(bps[k]))
  <2>1. proc' = proc /\ (bps' = bps \/ bps' = [kk \in Kind |-> <<>>])
    BY <1>2, <1>4 DEF ClearStep
  <2>2. clr' = NotClearing \/ clr' = [kind |-> "MEMORY_BP", i |-> 1] \/ clr' = [kind |-> "HARDWARE_BP", i |-> 1]
    BY <1>2, <1>4 DEF ClearStep
  <2>3. [kk \in Kind |-> <<>>] \in Lists
    BY DEF Lists
  <2> QED
    BY <2>1, <2>2, <2>3, BaseFacts DEF ListsOK
<1> QED
  BY <1>3, <1>4

(* The entry of a project file.                                            *)
Stored(e, r) ==
  /\ e \in Entry /\ e.offset = r /\ e.base = 0 /\ e.named /\ e.pid = AnyPid
  /\ e.handle = "BP_KEEP" /\ e.org = NoBackup /\ e.slot = 0 /\ ~e.restore

LEMMA StoredFacts ==
  ASSUME TypeOK, NEW s \in Offered, NEW r \in Rva, InsertFromProjectFile(s.kind, r, s.size, s.op)
  PROVE  \E e, L : /\ Stored(e, r) /\ e.size = (IF s.op = "ud2" THEN 2 ELSE s.size)
                   /\ L = Append(bps[s.kind], e) /\ L \in Seq(Entry)
                   /\ bps' = [bps EXCEPT ![s.kind] = L] /\ proc' = proc
<1>1. /\ s.kind \in Kind /\ s.size \in Span /\ s.op \in Trap /\ r \in Int
  BY BaseFacts, OfferedFacts DEF SetupOK
<1>2. PICK n \in Span : n = IF s.op = "ud2" THEN 2 ELSE s.size
  BY <1>1 DEF Span
<1>3. PICK e : e = [offset |-> r, base |-> 0, named |-> TRUE, pid |-> AnyPid,
                    handle |-> "BP_KEEP", size |-> n, data |-> s.op, org |-> NoBackup,
                    slot |-> 0, restore |-> FALSE]
  OBVIOUS
<1>4. e \in EntryOf(n)
  BY <1>1, <1>3 DEF EntryOf, Handle, Backups, Slot
<1>5. Stored(e, r) /\ e.size = n
  BY <1>3, <1>4, EntryMade DEF Stored
<1>6. PICK L : L = Append(bps[s.kind], e)
  OBVIOUS
<1>7. L \in Seq(Entry)
  BY <1>1, <1>5, <1>6, BaseFacts, ListFacts DEF Stored
<1>8. bps' = [bps EXCEPT ![s.kind] = L] /\ proc' = proc
  BY <1>2, <1>3, <1>6 DEF InsertFromProjectFile
<1> QED
  BY <1>2, <1>5, <1>6, <1>7, <1>8

LEMMA SetupStays == [Next]_vars => setup' = setup
<1> SUFFICES ASSUME [Next]_vars PROVE setup' = setup
  OBVIOUS
<1>1. CASE UNCHANGED vars BY <1>1 DEF vars
<1>2. CASE Debugger
  <2>1. CASE StartSession \/ CleanupStep \/ CleanWorkSpaceDone \/ StopLoop
    BY <2>1 DEF StartSession, CleanupStep, CleanWorkSpaceDone, StopLoop
  <2>2. ASSUME NEW p, NEW b, CreateProcess(p, b) PROVE setup' = setup
    BY <2>2 DEF CreateProcess
  <2>3. ASSUME NEW p, ExitProcess(p) \/ SingleStep(p) PROVE setup' = setup
    BY <2>3 DEF ExitProcess, SingleStep, KeepSession
  <2>4. ASSUME NEW p, NEW a, SoftwareHit(p, a) \/ HardwareHit(p, a) PROVE setup' = setup
    BY <2>4 DEF SoftwareHit, HardwareHit, KeepSession
  <2> QED
    BY <1>2, <2>1, <2>2, <2>3, <2>4 DEF Debugger
<1>3. CASE GUI
  BY <1>3 DEF GUI, GUIAdd, GUIRemove, Detach, StartClear, ClearStep, InsertFromProjectFile, KeepSession
<1>4. CASE Disassembler
  BY <1>4 DEF Disassembler, Show, Hide, KeepSession
<1> QED
  BY <1>1, <1>2, <1>3, <1>4 DEF Next

LEMMA SetupSame ==
  ASSUME setup' = setup
  PROVE  /\ Pid' = Pid /\ Lists' = Lists /\ Processes' = Processes
         /\ Entry' = Entry /\ \A n : EntryOf(n)' = EntryOf(n)
BY DEF Lists, Entry, EntryOf, Processes, Pid

ControlOK ==
  /\ pids' \subseteq Pid /\ main' \in pids' \cup {NoPid}
  /\ flag' \in [Pid -> {"RESTORE_NON", "RESTORE_BP_SOFTWARE", "RESTORE_BP_HARDWARE"}]
  /\ dbg' \in {"idle", "enter", "loop", "leave"} /\ it' \in Nat \ {0}
  /\ clr' \in {NotClearing} \cup [kind : Kind, i : Nat \ {0}]
  /\ stop' \in BOOLEAN /\ hidden' \in Pid \cup {NoPid} /\ sessions' \in Nat

LEMMA TypeKept == ASSUME TypeOK, setup' = setup, ListsOK, ControlOK PROVE TypeOK'
BY SetupSame DEF TypeOK, ListsOK, ControlOK

LEMMA FlagFacts ==
  ASSUME TypeOK, NEW p, NEW keep, NEW isEP, NEW bp, flag' = RestoreFlag(p, keep, isEP, bp)
  PROVE  flag' \in [Pid -> {"RESTORE_NON", "RESTORE_BP_SOFTWARE", "RESTORE_BP_HARDWARE"}]
BY DEF TypeOK, RestoreFlag

LEMMA InitTyped == Init => TypeOK
<1> SUFFICES ASSUME Init PROVE TypeOK
  OBVIOUS
<1>1. <<>> \in Seq(Entry)
  OBVIOUS
<1>2. bps \in Lists
  BY <1>1 DEF Init, Lists
<1>3. proc \in Processes
  BY DeadFacts DEF Init, Processes
<1>4. flag \in [Pid -> {"RESTORE_NON", "RESTORE_BP_SOFTWARE", "RESTORE_BP_HARDWARE"}]
  BY DEF Init
<1>5. stop \in BOOLEAN
  BY Zenon DEF Init
<1>6. /\ setup \in Setups /\ pids \subseteq Pid /\ main \in pids \cup {NoPid} /\ dbg = "idle"
      /\ it \in Nat \ {0} /\ clr = NotClearing /\ hidden = NoPid /\ sessions \in Nat
  BY DEF Init
<1> QED
  BY <1>2, <1>3, <1>4, <1>5, <1>6 DEF TypeOK

LEMMA NextTyped == TypeOK /\ [Next]_vars => TypeOK'
<1> SUFFICES ASSUME TypeOK, [Next]_vars PROVE TypeOK'
  OBVIOUS
<1> USE SetupStays
<1>0. bps \in Lists /\ proc \in Processes /\ pids \subseteq Pid
  BY BaseFacts
<1>1. CASE UNCHANGED vars
  BY <1>1, TypeKept DEF vars, TypeOK, ListsOK, ControlOK
<1>2. CASE StartSession
  <2>1. ControlOK
    <3>1. stop' \in BOOLEAN
      BY <1>2, Zenon DEF StartSession
    <3>2. /\ dbg' \in {"idle", "enter", "loop", "leave"} /\ it' \in Nat \ {0} /\ sessions' \in Nat
          /\ UNCHANGED <<pids, main, flag, clr, hidden>>
      BY <1>2 DEF StartSession, TypeOK
    <3> QED
      BY <3>1, <3>2 DEF TypeOK, ControlOK
  <2>2. ListsOK
    BY <1>0, <1>2 DEF StartSession, ListsOK
  <2> QED
    BY <2>1, <2>2, TypeKept
<1>3. CASE CleanupStep
  <2>1. ControlOK
    BY <1>3 DEF CleanupStep, TypeOK, ControlOK
  <2>2. ListsOK
    <3>1. it \in DOMAIN SW
      BY <1>3, BaseFacts DEF CleanupStep, SW, TypeOK
    <3>2. RemoveAt(SW, it) \in Seq(Entry)
      BY <3>1, BaseFacts, EntryGone
    <3>3. bps' = bps \/ bps' = [bps EXCEPT !["SOFTWARE_BP"] = RemoveAt(SW, it)]
      BY <1>3 DEF CleanupStep, SW
    <3>4. proc' = proc
      BY <1>3 DEF CleanupStep
    <3> QED
      BY <1>0, <3>2, <3>3, <3>4 DEF ListsOK, Lists
  <2> QED
    BY <2>1, <2>2, TypeKept
<1>4. CASE CleanWorkSpaceDone
  BY <1>4, TypeKept DEF CleanWorkSpaceDone, TypeOK, ListsOK, ControlOK
<1>5. CASE StopLoop
  <2>1. ControlOK
    <3>1. stop' \in BOOLEAN
      BY <1>5, Zenon DEF StopLoop
    <3>2. /\ dbg' \in {"idle", "enter", "loop", "leave"} /\ it' \in Nat \ {0} /\ sessions' \in Nat
          /\ UNCHANGED <<pids, main, flag, clr, hidden>>
      BY <1>5 DEF StopLoop, TypeOK
    <3> QED
      BY <3>1, <3>2 DEF TypeOK, ControlOK
  <2>2. ListsOK
    BY <1>0, <1>5 DEF StopLoop, ListsOK
  <2> QED
    BY <2>1, <2>2, TypeKept
<1>6. ASSUME NEW p \in Pid, NEW b \in Bases, CreateProcess(p, b) PROVE TypeOK'
  <2>1. ControlOK
    BY <1>6 DEF CreateProcess, TypeOK, ControlOK
  <2> QED
    BY <1>6, <2>1, CreateTyped, TypeKept
<1>7. ASSUME NEW p \in Pid, ExitProcess(p) PROVE TypeOK'
  <2>1. ControlOK
    BY <1>7 DEF ExitProcess, TypeOK, ControlOK
  <2>2. ListsOK
    BY <1>0, <1>7, DeadFacts DEF ExitProcess, ListsOK, Processes
  <2> QED
    BY <2>1, <2>2, TypeKept
<1>8. ASSUME NEW p \in Pid, SingleStep(p) PROVE TypeOK'
  <2>1. ControlOK
    BY <1>8 DEF SingleStep, KeepSession, TypeOK, ControlOK
  <2> QED
    BY <1>8, <2>1, StepTyped, TypeKept
<1>9. ASSUME NEW p \in Pid, NEW a, SoftwareHit(p, a) PROVE TypeOK'
  <2>1. PICK isEP, C, R : isEP \in BOOLEAN /\ Hit(p, a, isEP, C, R)
    BY <1>9, HitFacts
  <2>2. flag' \in [Pid -> {"RESTORE_NON", "RESTORE_BP_SOFTWARE", "RESTORE_BP_HARDWARE"}]
    BY <2>1, FlagFacts DEF Hit, TypeOK
  <2>3. ControlOK
    BY <1>9, <2>2 DEF SoftwareHit, KeepSession, TypeOK, ControlOK
  <2> QED
    BY <1>9, <2>3, HitTyped, TypeKept
<1>10. ASSUME NEW p \in Pid, NEW s \in Slot, HardwareHit(p, s) PROVE TypeOK'
  <2>1. ControlOK
    BY <1>10 DEF HardwareHit, KeepSession, TypeOK, ControlOK
  <2> QED
    BY <1>10, <2>1, HardwareHitTyped, TypeKept
<1>11. ASSUME NEW s \in Offered, NEW pid \in UserPid, NEW off \in Address,
              GUIAdd(s.kind, pid, off, s.size, s.handle, s.op)
       PROVE  TypeOK'
  <2>1. ControlOK
    BY <1>11 DEF GUIAdd, KeepSession, TypeOK, ControlOK
  <2> QED
    BY <1>11, <2>1, UserAddTyped, TypeKept
<1>12. ASSUME NEW k \in UserKind, NEW off, GUIRemove(k, off) PROVE TypeOK'
  <2>1. ControlOK
    BY <1>12 DEF GUIRemove, KeepSession, TypeOK, ControlOK
  <2>2. k \in Kind
    BY BaseFacts DEF SetupOK
  <2> QED
    BY <1>12, <2>1, <2>2, UserRemoveTyped, TypeKept
<1>13. CASE Detach
  BY <1>13, TypeKept DEF Detach, TypeOK, ListsOK, ControlOK, Kind
<1>14. CASE StartClear
  BY <1>14, TypeKept DEF StartClear, TypeOK, ListsOK, ControlOK, Kind
<1>15. CASE ClearStep
  <2>1. ControlOK
    BY <1>15, ClearTyped DEF ClearStep, KeepSession, TypeOK, ControlOK
  <2> QED
    BY <1>15, <2>1, ClearTyped, TypeKept
<1>16. ASSUME NEW s \in Offered, NEW r \in Rva, InsertFromProjectFile(s.kind, r, s.size, s.op)
       PROVE  TypeOK'
  <2>1. ControlOK
    BY <1>16 DEF InsertFromProjectFile, KeepSession, TypeOK, ControlOK
  <2>2. PICK L \in Seq(Entry) : bps' = [bps EXCEPT ![s.kind] = L] /\ proc' = proc
    BY <1>16, StoredFacts
  <2>3. ListsOK
    BY <1>0, <2>2 DEF ListsOK, Lists
  <2> QED
    BY <2>1, <2>3, TypeKept
<1>17. ASSUME NEW p \in Pid, Hide(p) PROVE TypeOK'
  <2>1. ControlOK
    BY <1>17 DEF Hide, KeepSession, TypeOK, ControlOK
  <2>2. ListsOK
    BY <1>0, <1>17, HideFacts DEF Swept, ListsOK, Hide
  <2> QED
    BY <2>1, <2>2, TypeKept
<1>18. CASE Show
  <2>1. ControlOK
    BY <1>18 DEF Show, KeepSession, TypeOK, ControlOK
  <2>2. ListsOK
    BY <1>0, <1>18, ShowFacts, ShowLists DEF Swept, ListsOK, OnlyBackups, Lists
  <2> QED
    BY <2>1, <2>2, TypeKept
<1> QED
  BY <1>1, <1>2, <1>3, <1>4, <1>5, <1>6, <1>7, <1>8, <1>9, <1>10, <1>11, <1>12, <1>13, <1>14,
     <1>15, <1>16, <1>17, <1>18 DEF Next, Debugger, GUI, Disassembler

(* Every reachable state of the breakpoint lists and of the debuggees is   *)
(* well formed: the trap bytes, backups, slots and registers are what      *)
(* their fields can hold, whatever the setups of the sessions.             *)
THEOREM Typed == Spec => []TypeOK
<1> QED
  BY InitTyped, NextTyped, PTL DEF Spec

-----------------------------------------------------------------------------
(* The processes: which run, and where their images are.                   *)

SamePlaces(P, Q) == \A q \in Pid : SamePlace(P[q], Q[q])

LEMMA SamePlacesFacts ==
  /\ \A P : SamePlaces(P, P)
  /\ \A P, Q, R : SamePlaces(P, Q) /\ SamePlaces(Q, R) => SamePlaces(P, R)
BY DEF SamePlaces, SamePlace

LEMMA PlaceSet ==
  ASSUME NEW P \in Processes, NEW p \in Pid, NEW q, SamePlace(P[p], q)
  PROVE  SamePlaces(P, [P EXCEPT ![p] = q])
BY DEF SamePlaces, SamePlace, Processes

LEMMA AddPlaces ==
  ASSUME NEW B \in Lists, NEW P \in Processes, NEW k \in Kind, NEW pid \in Pid \cup {AnyPid},
         NEW h, NEW cur, NEW off \in Int, NEW size \in Span, NEW hd \in Handle, NEW op \in Trap,
         NEW R, R = BreakpointAdd(B, P, k, pid, h, cur, off, size, hd, op)
  PROVE  SamePlaces(P, R.proc)
<1>1. CASE Same(B, P, R)
  BY <1>1, SamePlacesFacts DEF Same
<1>2. ASSUME NEW e, AddedSoftware(B, P, pid, h, off, size, hd, op, e, R) PROVE SamePlaces(P, R.proc)
  <2>1. e \in Entry /\ h \in Pid /\ P[h] \in Process
    BY <1>2 DEF AddedSoftware, Processes
  <2>2. SamePlace(P[h], Armed(e, op, P[h]))
    BY <2>1, ArmedFacts
  <2> QED
    BY <1>2, <2>1, <2>2, PlaceSet DEF AddedSoftware
<1>3. ASSUME NEW e, NEW t, AddedHardware(B, P, pid, h, cur, off, size, hd, op, e, t, R)
      PROVE  SamePlaces(P, R.proc)
  <2>1. e \in Entry
    BY <1>3 DEF AddedHardware
  <2>2. t \in Pid => SamePlace(P[t], wHardwareBP(e, P[t]))
    BY <2>1, HardwareSetFacts DEF Processes
  <2> QED
    BY <1>3, <2>2, PlaceSet, SamePlacesFacts DEF AddedHardware
<1>4. ASSUME NEW e, AddedMemory(B, P, off, e, R) PROVE SamePlaces(P, R.proc)
  BY <1>4, SamePlacesFacts DEF AddedMemory
<1>5. CASE k = "SOFTWARE_BP"
  BY <1>1, <1>2, <1>5, AddSoftware
<1>6. CASE k = "MEMORY_BP"
  BY <1>1, <1>4, <1>6, AddMemory
<1>7. CASE k = "HARDWARE_BP"
  BY <1>1, <1>3, <1>7, AddHardware
<1> QED
  BY <1>5, <1>6, <1>7 DEF Kind

LEMMA RemovePlaces ==
  ASSUME NEW B \in Lists, NEW P \in Processes, NEW k \in Kind, NEW off,
         NEW R, R = BreakpointRemove(B, P, k, off)
  PROVE  SamePlaces(P, R.proc)
<1>1. CASE Same(B, P, R)
  BY <1>1, SamePlacesFacts DEF Same
<1>2. ASSUME NEW i, NEW h, Removed(B, P, k, off, i, h, R) PROVE SamePlaces(P, R.proc)
  <2>1. B[k][i] \in Entry /\ \A q \in Pid : P[q] \in Process
    BY <1>2, ListFacts DEF Removed, Processes
  <2>2. CASE k = "SOFTWARE_BP"
    <3>1. h \in Pid => SamePlace(P[h], dSoftwareBP(B[k][i], P[h]))
      BY <2>1, DisarmedFacts
    <3> QED
      BY <1>2, <2>2, <3>1, PlaceSet, SamePlacesFacts DEF Removed
  <2>3. CASE k = "HARDWARE_BP"
    <3>1. PICK t : t = B[k][i].pid
      OBVIOUS
    <3>2. t \in Pid => SamePlace(P[t], dHardwareBP(B[k][i], P[t]))
      BY <2>1, HardwareGoneFacts
    <3>3. R.proc = IF t \in Pid THEN [P EXCEPT ![t] = dHardwareBP(B[k][i], P[t])] ELSE P
      BY <1>2, <2>3, <3>1 DEF Removed
    <3> QED
      BY <3>2, <3>3, PlaceSet, SamePlacesFacts
  <2>4. CASE k = "MEMORY_BP"
    BY <1>2, <2>4, SamePlacesFacts DEF Removed
  <2> QED
    BY <2>2, <2>3, <2>4 DEF Kind
<1> QED
  BY <1>1, <1>2, RemoveFacts

LEMMA InitPlaces ==
  ASSUME NEW B \in Lists, NEW P \in Processes, NEW p \in Pid, NEW R, R = BreakpointInit(B, P, p)
  PROVE  SamePlaces(P, R.proc)
<1>1. SamePlace(P[p], R.proc[p]) /\ \A q \in Pid : q # p => R.proc[q] = P[q]
  BY InitFacts
<1> QED
  BY <1>1 DEF SamePlaces, SamePlace

LEMMA HitPlaces ==
  ASSUME TypeOK, NEW p \in Pid, NEW a, SoftwareHit(p, a) PROVE SamePlaces(proc, proc')
<1>1. PICK isEP, C, R : isEP \in BOOLEAN /\ Hit(p, a, isEP, C, R)
  BY HitFacts
<1>2. R.bps \in Lists /\ R.proc \in Processes /\ R.proc[p] \in Process
  BY <1>1 DEF Hit, Ready, Processes
<1>3. SamePlaces(proc, R.proc)
  <2>1. CASE isEP
    <3>1. C \in Lists /\ proc \in Processes
      BY <1>1, <2>1, BaseFacts, UpdateFacts DEF Hit, Ready
    <3> QED
      BY <1>1, <2>1, <3>1, InitPlaces DEF Hit, Ready
  <2>2. CASE ~isEP
    BY <1>1, <2>2, SamePlacesFacts DEF Hit, Ready
  <2> QED
    BY <2>1, <2>2
<1>4. ASSUME NEW i \in DOMAIN R.bps["SOFTWARE_BP"]
      PROVE  SamePlace(R.proc[p], dSoftwareBP(R.bps["SOFTWARE_BP"][i], R.proc[p]))
  BY <1>2, BaseFacts, ListFacts, DisarmedFacts
<1>5. ASSUME NEW i \in DOMAIN R.bps["SOFTWARE_BP"], Kept(p, i, R) PROVE SamePlaces(R.proc, proc')
  BY <1>2, <1>4, <1>5, PlaceSet DEF Kept
<1>6. ASSUME NEW i \in DOMAIN R.bps["SOFTWARE_BP"], NEW Q, NEW X, Dropped(p, a, i, R, Q, X)
      PROVE  SamePlaces(R.proc, proc')
  <2>1. SamePlaces(R.proc, Q)
    BY <1>2, <1>4, <1>6, PlaceSet DEF Dropped
  <2>2. SamePlaces(Q, X.proc)
    BY <1>2, <1>6, BaseFacts, RemovePlaces DEF Dropped
  <2> QED
    BY <1>6, <2>1, <2>2, SamePlacesFacts DEF Dropped
<1>7. CASE proc' = R.proc
  BY <1>3, <1>7
<1>8. CASE SamePlaces(R.proc, proc')
  BY <1>3, <1>8, SamePlacesFacts
<1> QED
  BY <1>1, <1>5, <1>6, <1>7, <1>8 DEF Hit

LEMMA HardwareHitPlaces ==
  ASSUME TypeOK, NEW p \in Pid, NEW s \in Slot, HardwareHit(p, s) PROVE SamePlaces(proc, proc')
<1>1. PICK i \in DOMAIN HW : proc' = [proc EXCEPT ![p] = dHardwareBP(HW[i], proc[p])]
  BY HardwareHitFacts
<1>2. SamePlace(proc[p], dHardwareBP(HW[i], proc[p]))
  BY BaseFacts, HardwareGoneFacts
<1> QED
  BY <1>1, <1>2, BaseFacts, PlaceSet

LEMMA StepPlaces ==
  ASSUME TypeOK, NEW p \in Pid, SingleStep(p) PROVE SamePlaces(proc, proc')
<1>0. proc \in Processes /\ \A q \in Pid : proc[q] \in Process
  BY BaseFacts
<1>1. CASE proc' = proc
  BY <1>1, SamePlacesFacts
<1>2. ASSUME NEW i, NEW h, NEW e, NEW L, SoftwareStep(p, i, h, e, L) PROVE SamePlaces(proc, proc')
  <2>1. SW[i] \in Entry /\ SW[i].data \in Trap
    BY <1>2, BaseFacts, EntryFields DEF SoftwareStep
  <2>2. h \in Pid => SamePlace(proc[h], wSoftwareBP(SW[i], SW[i].data, proc[h]))
    BY <1>0, <2>1, ArmedFacts DEF wSoftwareBP, SamePlace
  <2> QED
    BY <1>0, <1>2, <2>2, PlaceSet, SamePlacesFacts DEF SoftwareStep
<1>3. ASSUME NEW i, NEW e, NEW L, HardwareStep(p, i, e, L) PROVE SamePlaces(proc, proc')
  <2>1. HW[i] \in Entry
    BY <1>3, BaseFacts DEF HardwareStep
  <2>2. SamePlace(proc[p], wHardwareBP(HW[i], proc[p]))
    BY <1>0, <2>1, HardwareSetFacts
  <2> QED
    BY <1>0, <1>3, <2>2, PlaceSet DEF HardwareStep
<1> QED
  BY <1>1, <1>2, <1>3, StepFacts

LEMMA UserAddPlaces ==
  ASSUME TypeOK, NEW s \in Offered, NEW pid \in UserPid, NEW off \in Address,
         GUIAdd(s.kind, pid, off, s.size, s.handle, s.op)
  PROVE  SamePlaces(proc, proc')
<1>1. PICK cur, A : /\ A = BreakpointAdd(bps, proc, s.kind, pid, HandleOf(pid), cur, off,
                                         s.size, s.handle, s.op)
                    /\ proc' = A.proc
  BY DEF GUIAdd
<1>2. /\ s.kind \in Kind /\ s.size \in Span /\ s.handle \in Handle /\ s.op \in Trap
      /\ off \in Int /\ pid \in Pid \cup {AnyPid} /\ bps \in Lists /\ proc \in Processes
  BY BaseFacts, OfferedFacts, AddressFacts DEF SetupOK
<1> QED
  BY <1>1, <1>2, AddPlaces

LEMMA ClearPlaces == ASSUME TypeOK, ClearStep PROVE SamePlaces(proc, proc')
<1>1. clr \in [kind : Kind, i : Nat \ {0}]
  BY DEF ClearStep, TypeOK
<1>2. PICK k, i : clr = [kind |-> k, i |-> i] /\ k \in Kind
  BY <1>1
<1>3. PICK off, R : off = bps[k][i].offset /\ R = BreakpointRemove(bps, proc, k, off)
  OBVIOUS
<1>4. proc' = R.proc \/ proc' = proc
  BY <1>2, <1>3 DEF ClearStep
<1> QED
  BY <1>2, <1>3, <1>4, BaseFacts, RemovePlaces, SamePlacesFacts

LEMMA CreatePlaces ==
  ASSUME TypeOK, NEW p \in Pid, NEW b \in Bases, CreateProcess(p, b)
  PROVE  /\ \A q \in Pid : q # p => SamePlace(proc[q], proc'[q])
         /\ proc'[p].base = b /\ DOMAIN proc'[p].mem = Image(b) \cup Heap
<1>1. PICK F, R, A : Created(p, b, F, R, A)
  BY CreateFacts
<1>2. 1 \in Span /\ "BP_DONOTKEEP" \in Handle /\ "int3" \in Trap
  BY DEF Span, Handle, OneShot, Trap
<1>3. SamePlaces(F, R.proc)
  BY <1>1, BaseFacts, InitPlaces DEF Created
<1>4. SamePlaces(R.proc, proc')
  BY <1>1, <1>2, BaseFacts, AddPlaces DEF Created
<1>5. SamePlaces(F, proc')
  BY <1>3, <1>4, SamePlacesFacts
<1> QED
  BY <1>1, <1>5, BaseFacts, NewProcessFacts DEF Created, SamePlaces, SamePlace

Placed(pr) == Alive(pr) => pr.base \in Bases /\ DOMAIN pr.mem = Image(pr.base) \cup Heap

World ==
  /\ dbg \in {"idle", "enter"} => pids = {}
  /\ main = NoPid => pids = {}
  /\ ~DebugChilds => pids \subseteq {main}
  /\ dbg = "leave" /\ ~Detaching => Running = {}
  /\ stop => Detaching
  /\ clr # NotClearing => Detaching \/ ProjectFiles
  /\ \A p \in Pid : Placed(proc[p])

(* A step that neither starts nor ends a process.                          *)
Steady == setup' = setup /\ pids' = pids /\ main' = main /\ SamePlaces(proc, proc')

LEMMA SteadyFacts ==
  ASSUME TypeOK, Steady
  PROVE  /\ Running' = Running
         /\ (\A p \in Pid : Placed(proc[p])) => (\A p \in Pid : Placed(proc[p]))'
         /\ \A p \in Pid : Alive(proc'[p]) <=> Alive(proc[p])
<1>1. \A p \in Pid : Alive(proc'[p]) <=> Alive(proc[p])
  BY DEF Steady, SamePlaces, SamePlace, Alive
<1>2. Running' = {p \in pids : Alive(proc'[p])}
  BY DEF Running, Steady
<1>3. Running' = Running
  BY <1>1, <1>2, BaseFacts DEF Running
<1>4. Pid' = Pid /\ Bases' = Bases /\ Heap' = Heap /\ Rva' = Rva /\ \A b : Image(b)' = Image(b)
  BY DEF Steady, Pid, Bases, Heap, Rva, Image
<1>5. (\A p \in Pid : Placed(proc[p])) => (\A p \in Pid : Placed(proc[p]))'
  BY <1>1, <1>4 DEF Steady, SamePlaces, SamePlace, Placed
<1> QED
  BY <1>1, <1>3, <1>5

LEMMA WorldSteady ==
  ASSUME TypeOK, World, Steady, dbg' = dbg, stop' = stop,
         clr' = clr \/ Detaching \/ ProjectFiles
  PROVE  World'
<1>1. (DebugChilds' <=> DebugChilds) /\ (Detaching' <=> Detaching) /\ (ProjectFiles' <=> ProjectFiles)
  BY DEF Steady, DebugChilds, Detaching, ProjectFiles
<1> QED
  BY <1>1, SteadyFacts DEF World, Steady

LEMMA InitWorld == Init => World
BY DEF Init, World, Placed, DeadProcess, Alive, Running, NotClearing

LEMMA NextWorld == TypeOK /\ World /\ [Next]_vars => World'
<1> SUFFICES ASSUME TypeOK, World, [Next]_vars PROVE World'
  OBVIOUS
<1>0. bps \in Lists /\ proc \in Processes /\ pids \subseteq Pid /\ SamePlaces(proc, proc) /\ setup' = setup
  BY BaseFacts, SamePlacesFacts, SetupStays
<1>a. /\ (DebugChilds' <=> DebugChilds) /\ (Detaching' <=> Detaching) /\ (ProjectFiles' <=> ProjectFiles)
      /\ Pid' = Pid /\ Bases' = Bases /\ Heap' = Heap /\ \A b : Image(b)' = Image(b)
  BY <1>0 DEF DebugChilds, Detaching, ProjectFiles, Pid, Bases, Heap, Rva, Image
<1>1. CASE UNCHANGED vars
  BY <1>0, <1>1, WorldSteady DEF vars, Steady
<1>2. CASE StartSession
  <2>1. Steady
    BY <1>0, <1>2 DEF StartSession, Steady
  <2>2. dbg = "idle" /\ dbg' = "enter" /\ ~stop' /\ clr' = clr
    BY <1>2 DEF StartSession
  <2> QED
    BY <1>a, <2>1, <2>2, SteadyFacts DEF World, Steady
<1>3. CASE CleanupStep
  BY <1>0, <1>3, WorldSteady DEF CleanupStep, Steady
<1>4. CASE CleanWorkSpaceDone
  <2>1. /\ pids' = {} /\ main' = NoPid /\ proc' = proc /\ stop' = stop /\ clr' = clr
        /\ dbg' \in {"loop", "idle"}
    BY <1>4 DEF CleanWorkSpaceDone
  <2>2. (\A p \in Pid : Placed(proc[p]))'
    BY <1>0, <1>a, <2>1 DEF World, Placed, Alive
  <2> QED
    BY <1>a, <2>1, <2>2 DEF World
<1>5. CASE StopLoop
  <2>1. Steady
    BY <1>0, <1>5 DEF StopLoop, Steady
  <2>2. stop /\ dbg' = "leave" /\ ~stop' /\ clr' = clr
    BY <1>5 DEF StopLoop
  <2> QED
    BY <1>a, <2>1, <2>2, SteadyFacts DEF World, Steady
<1>6. ASSUME NEW p \in Pid, NEW b \in Bases, CreateProcess(p, b) PROVE World'
  <2>1. /\ dbg = "loop" /\ dbg' = dbg /\ stop' = stop /\ clr' = clr /\ pids' = pids \cup {p}
        /\ main' = (IF main = NoPid THEN p ELSE main) /\ (pids = {} \/ DebugChilds)
    BY <1>6 DEF CreateProcess
  <2>2. /\ \A q \in Pid : q # p => SamePlace(proc[q], proc'[q])
        /\ proc'[p].base = b /\ DOMAIN proc'[p].mem = Image(b) \cup Heap
    BY <1>6, CreatePlaces
  <2>3. (\A q \in Pid : Placed(proc[q]))'
    <3>1. ASSUME NEW q \in Pid PROVE Placed(proc[q])'
      BY <1>0, <1>a, <2>2 DEF World, Placed, SamePlace, Alive
    <3> QED
      BY <1>a, <3>1
  <2>4. main' # NoPid /\ (~DebugChilds => pids' \subseteq {main'})
    <3>1. p # NoPid /\ (pids = {} => main = NoPid)
      BY BaseFacts DEF SetupOK, TypeOK
    <3> QED
      BY <2>1, <3>1
  <2> QED
    BY <1>a, <2>1, <2>3, <2>4 DEF World
<1>7. ASSUME NEW p \in Pid, ExitProcess(p) PROVE World'
  <2>1. /\ dbg = "loop" /\ stop' = stop /\ clr' = clr /\ pids' = pids /\ main' = main
        /\ proc' = [proc EXCEPT ![p] = DeadProcess] /\ dbg' \in {"loop", "leave"}
        /\ dbg' = "leave" => Running = {p}
    BY <1>7 DEF ExitProcess
  <2>2. proc'[p] = DeadProcess /\ \A q \in Pid : q # p => proc'[q] = proc[q]
    BY <1>0, <2>1 DEF Processes
  <2>3. (\A q \in Pid : Placed(proc[q]))'
    <3>1. ASSUME NEW q \in Pid PROVE Placed(proc[q])'
      BY <1>0, <1>a, <2>2, DeadFacts DEF World, Placed, Alive
    <3> QED
      BY <1>a, <3>1
  <2>4. dbg' = "leave" => Running' = {}
    BY <1>0, <2>1, <2>2, DeadFacts DEF Running
  <2> QED
    BY <1>a, <2>1, <2>3, <2>4 DEF World
<1>8. ASSUME NEW p \in Pid, SingleStep(p) PROVE World'
  BY <1>0, <1>8, StepPlaces, WorldSteady DEF SingleStep, KeepSession, Steady
<1>9. ASSUME NEW p \in Pid, NEW a, SoftwareHit(p, a) PROVE World'
  <2>1. UNCHANGED <<setup, pids, main, dbg, stop, clr>>
    BY <1>9 DEF SoftwareHit, KeepSession
  <2> QED
    BY <1>9, <2>1, HitPlaces, WorldSteady DEF Steady
<1>10. ASSUME NEW p \in Pid, NEW s \in Slot, HardwareHit(p, s) PROVE World'
  BY <1>0, <1>10, HardwareHitPlaces, WorldSteady DEF HardwareHit, KeepSession, Steady
<1>11. ASSUME NEW s \in Offered, NEW pid \in UserPid, NEW off \in Address,
              GUIAdd(s.kind, pid, off, s.size, s.handle, s.op)
       PROVE  World'
  <2>1. UNCHANGED <<setup, pids, main, dbg, stop, clr>>
    BY <1>11 DEF GUIAdd, KeepSession
  <2> QED
    BY <1>11, <2>1, UserAddPlaces, WorldSteady DEF Steady
<1>12. ASSUME NEW k \in UserKind, NEW off, GUIRemove(k, off) PROVE World'
  <2>1. UNCHANGED <<setup, pids, main, dbg, stop, clr>>
    BY <1>12 DEF GUIRemove, KeepSession
  <2>2. k \in Kind
    BY BaseFacts DEF SetupOK
  <2>3. SamePlaces(proc, proc')
    BY <1>0, <1>12, <2>2, RemovePlaces DEF GUIRemove
  <2> QED
    BY <2>1, <2>3, WorldSteady DEF Steady
<1>13. CASE Detach
  <2>1. Steady
    BY <1>0, <1>13 DEF Detach, Steady
  <2>2. Detaching /\ dbg = "loop" /\ dbg' = dbg
    BY <1>13 DEF Detach
  <2> QED
    BY <1>a, <2>1, <2>2, SteadyFacts DEF World, Steady
<1>14. CASE StartClear
  BY <1>0, <1>14, WorldSteady DEF StartClear, Steady
<1>15. CASE ClearStep
  <2>1. UNCHANGED <<setup, pids, main, dbg, stop>> /\ clr # NotClearing
    BY <1>15 DEF ClearStep, KeepSession
  <2> QED
    BY <1>15, <2>1, ClearPlaces, WorldSteady DEF World, Steady
<1>16. ASSUME NEW s \in Offered, NEW r \in Rva, InsertFromProjectFile(s.kind, r, s.size, s.op)
       PROVE  World'
  BY <1>0, <1>16, WorldSteady DEF InsertFromProjectFile, KeepSession, Steady
<1>17. ASSUME NEW p \in Pid, Hide(p) PROVE World'
  BY <1>0, <1>17, HideFacts, WorldSteady DEF Hide, KeepSession, Swept, SamePlaces, Steady
<1>18. CASE Show
  BY <1>0, <1>18, ShowFacts, WorldSteady DEF Show, KeepSession, Swept, SamePlaces, Steady
<1> QED
  BY <1>1, <1>2, <1>3, <1>4, <1>5, <1>6, <1>7, <1>8, <1>9, <1>10, <1>11, <1>12, <1>13, <1>14,
     <1>15, <1>16, <1>17, <1>18 DEF Next, Debugger, GUI, Disassembler

-----------------------------------------------------------------------------
(* One-shot breakpoints: two passes of BreakpointCleanup leave none.       *)

KeptFrom(L, n) == \A i \in DOMAIN L : i >= n => L[i].handle = "BP_KEEP"
KeptTo(L, n)   == \A i \in DOMAIN L : i < n => L[i].handle = "BP_KEEP"

Shrinks(L, K) == K = L \/ K = <<>> \/ \E i \in DOMAIN L : K = RemoveAt(L, i)
Grows(L, K, hd) == K = L \/ \E e \in Entry : K = Append(L, e) /\ e.handle = hd

LEMMA ShrinksFacts ==
  ASSUME NEW L \in Seq(Entry), NEW K, Shrinks(L, K)
  PROVE  \A n \in Nat : KeptFrom(L, n) => KeptFrom(K, n)
<1>1. CASE K = L \/ K = <<>>
  BY <1>1 DEF KeptFrom
<1>2. ASSUME NEW i \in DOMAIN L, K = RemoveAt(L, i), NEW n \in Nat, KeptFrom(L, n) PROVE KeptFrom(K, n)
  <2> SUFFICES ASSUME NEW j \in DOMAIN K, j >= n PROVE K[j].handle = "BP_KEEP"
    BY DEF KeptFrom
  <2>1. Len(K) = Len(L) - 1 /\ K \in Seq(Entry) /\ K[j] = IF j < i THEN L[j] ELSE L[j + 1]
    BY <1>2, EntryGone
  <2>2. j \in DOMAIN L /\ j + 1 \in DOMAIN L /\ j + 1 >= n
    BY <2>1
  <2> QED
    BY <1>2, <2>1, <2>2 DEF KeptFrom
<1> QED
  BY <1>1, <1>2 DEF Shrinks

LEMMA GrowsFacts ==
  ASSUME NEW L \in Seq(Entry), NEW K, Grows(L, K, "BP_KEEP")
  PROVE  \A n \in Nat : KeptFrom(L, n) => KeptFrom(K, n)
<1>1. CASE K = L
  BY <1>1
<1>2. ASSUME NEW e \in Entry, K = Append(L, e), e.handle = "BP_KEEP", NEW n \in Nat, KeptFrom(L, n)
      PROVE  KeptFrom(K, n)
  <2> SUFFICES ASSUME NEW j \in DOMAIN K, j >= n PROVE K[j].handle = "BP_KEEP"
    BY DEF KeptFrom
  <2>1. (j \in DOMAIN L /\ K[j] = L[j]) \/ K[j] = e
    BY <1>2, EntryAdded
  <2> QED
    BY <1>2, <2>1 DEF KeptFrom
<1> QED
  BY <1>1, <1>2 DEF Grows

LEMMA UserAddList ==
  ASSUME TypeOK, NEW s \in Offered, NEW pid \in UserPid, NEW off \in Address,
         GUIAdd(s.kind, pid, off, s.size, s.handle, s.op)
  PROVE  Grows(SW, SW', s.handle)
<1>1. PICK cur, A : /\ A = BreakpointAdd(bps, proc, s.kind, pid, HandleOf(pid), cur, off,
                                         s.size, s.handle, s.op)
                    /\ bps' = A.bps
  BY DEF GUIAdd
<1>2. /\ s.kind \in Kind /\ s.size \in Span /\ s.handle \in Handle /\ s.op \in Trap
      /\ off \in Int /\ pid \in Pid \cup {AnyPid} /\ bps \in Lists /\ proc \in Processes
      /\ "SOFTWARE_BP" \in Kind
  BY BaseFacts, OfferedFacts, AddressFacts DEF SetupOK
<1>3. PICK h : h = HandleOf(pid)
  OBVIOUS
<1>4. CASE Same(bps, proc, A)
  BY <1>1, <1>4 DEF Same, Grows, SW
<1>5. ASSUME NEW e, AddedSoftware(bps, proc, pid, h, off, s.size, s.handle, s.op, e, A)
      PROVE  Grows(SW, SW', s.handle)
  <2>1. e \in Entry /\ e.handle = s.handle
    BY <1>5 DEF AddedSoftware, IsNew
  <2>2. bps'["SOFTWARE_BP"] = Append(bps["SOFTWARE_BP"], e)
    BY <1>1, <1>2, <1>5 DEF AddedSoftware, Lists
  <2> QED
    BY <2>1, <2>2 DEF Grows, SW
<1>6. ASSUME NEW e, AddedMemory(bps, proc, off, e, A) PROVE Grows(SW, SW', s.handle)
  BY <1>1, <1>2, <1>6 DEF AddedMemory, Grows, SW, Lists
<1>7. ASSUME NEW e, NEW t,
             AddedHardware(bps, proc, pid, h, cur, off, s.size, s.handle, s.op, e, t, A)
      PROVE  Grows(SW, SW', s.handle)
  BY <1>1, <1>2, <1>7 DEF AddedHardware, Grows, SW, Lists
<1>8. CASE s.kind = "SOFTWARE_BP"
  BY <1>1, <1>2, <1>3, <1>4, <1>5, <1>8, AddSoftware
<1>9. CASE s.kind = "MEMORY_BP"
  BY <1>1, <1>2, <1>3, <1>4, <1>6, <1>9, AddMemory
<1>10. CASE s.kind = "HARDWARE_BP"
  BY <1>1, <1>2, <1>3, <1>4, <1>7, <1>10, AddHardware
<1> QED
  BY <1>2, <1>8, <1>9, <1>10 DEF Kind

LEMMA RemoveList ==
  ASSUME NEW B \in Lists, NEW P \in Processes, NEW k \in Kind, NEW j \in Kind, NEW off,
         NEW R, R = BreakpointRemove(B, P, k, off)
  PROVE  Shrinks(B[j], R.bps[j])
<1>1. CASE Same(B, P, R)
  BY <1>1 DEF Same, Shrinks
<1>2. ASSUME NEW i, NEW h, Removed(B, P, k, off, i, h, R) PROVE Shrinks(B[j], R.bps[j])
  BY <1>2 DEF Removed, Shrinks, Lists
<1> QED
  BY <1>1, <1>2, RemoveFacts

LEMMA ClearList ==
  ASSUME TypeOK, ClearStep, NEW j \in Kind
  PROVE  Shrinks(bps[j], bps'[j]) /\ (clr' = NotClearing => bps'[j] = <<>>)
<1>1. clr \in [kind : Kind, i : Nat \ {0}]
  BY DEF ClearStep, TypeOK
<1>2. PICK k, i : clr = [kind |-> k, i |-> i] /\ k \in Kind /\ i \in Nat \ {0}
  BY <1>1
<1>3. PICK off, R : off = bps[k][i].offset /\ R = BreakpointRemove(bps, proc, k, off)
  OBVIOUS
<1>4. CASE i <= Len(bps[k])
  <2>1. bps' = R.bps /\ clr' = [clr EXCEPT !.i = i + 1]
    BY <1>2, <1>3, <1>4 DEF ClearStep
  <2>2. clr' # NotClearing
    BY <1>2, <2>1 DEF NotClearing
  <2> QED
    BY <1>2, <1>3, <2>1, <2>2, BaseFacts, RemoveList
<1>5. CASE ~(i <= Len(bps[k]))
  <2>1. \/ bps' = bps /\ clr' # NotClearing
        \/ bps' = [kk \in Kind |-> <<>>]
    BY <1>2, <1>5 DEF ClearStep, NotClearing
  <2> QED
    BY <2>1 DEF Shrinks
<1> QED
  BY <1>4, <1>5

(* With edits during the clean-up and a second session a pass can skip     *)
(* more than the head: one of the two is left out.                         *)
OneShotSetups == \A s \in Setups : "race" \notin s.may \/ s.sessions <= 1

SeveralSessions ==
  /\ dbg = "leave" /\ clr = NotClearing => \A i \in DOMAIN SW : 2 <= i /\ i < it => SW[i].handle = "BP_KEEP"
  /\ dbg = "idle" /\ clr = NotClearing => KeptFrom(SW, 2)
  /\ dbg = "enter" => clr = NotClearing /\ KeptFrom(SW, 2) /\ KeptTo(SW, it)
  /\ dbg = "loop" /\ pids = {} => KeptFrom(SW, 1)

OneSession ==
  /\ sessions <= MaxSessions
  /\ dbg # "idle" => sessions >= 1
  /\ (dbg = "idle" /\ sessions < MaxSessions) \/ dbg = "enter" \/ (dbg = "loop" /\ pids = {})
       => KeptFrom(SW, 1)

OneShotInv == /\ MaxSessions > 1 => SeveralSessions
              /\ MaxSessions <= 1 => OneSession

LEMMA OneShotFacts ==
  ASSUME TypeOK, OneShotSetups, setup' = setup
  PROVE  /\ MaxSessions \in Nat /\ sessions \in Nat /\ SW \in Seq(Entry)
         /\ MaxSessions' = MaxSessions /\ (EditsRace => MaxSessions <= 1)
BY ConstantsOK, BaseFacts DEF TypeOK, OneShotSetups, MaxSessions, EditsRace

(* A step that leaves the session where it is.                             *)
LEMMA OneShotSame ==
  ASSUME TypeOK, OneShotSetups, OneShotInv,
         UNCHANGED <<setup, dbg, pids, it, clr, sessions>>,
         \A n \in Nat : KeptFrom(SW, n) => KeptFrom(SW', n),
         MaxSessions > 1 /\ (dbg = "enter" \/ (dbg = "leave" /\ clr = NotClearing)) =>
           DOMAIN SW' = DOMAIN SW /\ \A i \in DOMAIN SW : SW'[i].handle = SW[i].handle
  PROVE  OneShotInv'
<1>1. /\ MaxSessions \in Nat /\ MaxSessions' = MaxSessions
      /\ KeptFrom(SW, 1) => KeptFrom(SW', 1) /\ (KeptFrom(SW, 2) => KeptFrom(SW', 2))
  BY OneShotFacts
<1>2. CASE MaxSessions > 1
  <2>1. SeveralSessions
    BY <1>2 DEF OneShotInv
  <2>2. SeveralSessions'
    BY <1>1, <1>2, <2>1 DEF SeveralSessions, KeptTo
  <2> QED
    BY <1>1, <1>2, <2>2 DEF OneShotInv
<1>3. CASE MaxSessions <= 1
  <2>1. OneSession
    BY <1>3 DEF OneShotInv
  <2>2. OneSession'
    BY <1>1, <2>1 DEF OneSession
  <2> QED
    BY <1>1, <1>3, <2>2 DEF OneShotInv
<1> QED
  BY <1>1, <1>2, <1>3

(* A debug event: there is a process.                                      *)
LEMMA OneShotEvent ==
  ASSUME TypeOK, OneShotSetups, OneShotInv, dbg = "loop", dbg' = "loop", pids' # {},
         UNCHANGED <<setup, sessions>>
  PROVE  OneShotInv'
BY OneShotFacts DEF OneShotInv, SeveralSessions, OneSession

LEMMA InitOneShots == Init => OneShotInv
<1> SUFFICES ASSUME Init PROVE OneShotInv
  OBVIOUS
<1>1. SW = <<>> /\ dbg = "idle" /\ sessions = 0 /\ setup \in Setups
  BY DEF Init, SW, Kind
<1>2. KeptFrom(SW, 1) /\ KeptFrom(SW, 2)
  BY <1>1 DEF KeptFrom
<1>3. MaxSessions \in Nat
  BY <1>1, ConstantsOK DEF MaxSessions
<1> QED
  BY <1>1, <1>2, <1>3 DEF OneShotInv, SeveralSessions, OneSession

LEMMA CleanupOneShots ==
  ASSUME TypeOK, OneShotSetups, OneShotInv, CleanupStep PROVE OneShotInv'
<1>0. /\ MaxSessions \in Nat /\ MaxSessions' = MaxSessions /\ SW \in Seq(Entry) /\ it \in DOMAIN SW
      /\ it \in Nat \ {0} /\ Len(SW) \in Nat /\ DOMAIN SW = 1 .. Len(SW)
      /\ UNCHANGED <<setup, dbg, pids, clr, sessions>> /\ dbg \in {"enter", "leave"}
  BY OneShotFacts DEF CleanupStep, SW, TypeOK
<1>1. CASE SW[it].handle = "BP_KEEP"
  <2>1. SW' = SW /\ it' = it + 1
    BY <1>1 DEF CleanupStep, SW
  <2>2. SeveralSessions => SeveralSessions'
    BY <1>0, <1>1, <2>1 DEF SeveralSessions, KeptTo
  <2>3. OneSession => OneSession'
    BY <1>0, <2>1 DEF OneSession
  <2> QED
    BY <1>0, <2>2, <2>3 DEF OneShotInv
<1>2. CASE SW[it].handle # "BP_KEEP"
  <2>1. SW' = RemoveAt(SW, it) /\ it' \in {1, 2} /\ (Len(SW) = 1 => it' = 1)
    BY <1>0, <1>2, BaseFacts DEF CleanupStep, SW, Lists
  <2>2. /\ SW' \in Seq(Entry) /\ Len(SW') = Len(SW) - 1
        /\ \A j \in DOMAIN SW' : SW'[j] = IF j < it THEN SW[j] ELSE SW[j + 1]
    BY <1>0, <2>1, EntryGone
  <2>3. SeveralSessions => SeveralSessions'
    <3>1. CASE dbg = "leave"
      BY <1>0, <2>1, <3>1 DEF SeveralSessions
    <3>2. CASE dbg = "enter" /\ SeveralSessions
      <4>1. KeptFrom(SW, 2) /\ KeptTo(SW, it) /\ clr = NotClearing
        BY <3>2 DEF SeveralSessions
      <4>2. it = 1
        BY <1>0, <1>2, <4>1 DEF KeptFrom
      <4>3. \A j \in DOMAIN SW' : SW'[j].handle = "BP_KEEP"
        BY <1>0, <2>2, <4>1, <4>2 DEF KeptFrom
      <4> QED
        BY <1>0, <3>2, <4>1, <4>3 DEF SeveralSessions, KeptFrom, KeptTo
    <3> QED
      BY <1>0, <3>1, <3>2
  <2>4. OneSession => OneSession'
    <3>1. KeptFrom(SW, 1) => KeptFrom(SW', 1)
      BY <1>0, <2>1, ShrinksFacts DEF Shrinks
    <3> QED
      BY <1>0, <3>1 DEF OneSession
  <2> QED
    BY <1>0, <2>3, <2>4 DEF OneShotInv
<1> QED
  BY <1>1, <1>2

LEMMA NextOneShots ==
  ASSUME OneShotSetups PROVE TypeOK /\ World /\ OneShotInv /\ [Next]_vars => OneShotInv'
<1> SUFFICES ASSUME TypeOK, World, OneShotInv, [Next]_vars PROVE OneShotInv'
  OBVIOUS
<1>0. /\ setup' = setup /\ bps \in Lists /\ proc \in Processes /\ "SOFTWARE_BP" \in Kind
      /\ MaxSessions \in Nat /\ sessions \in Nat /\ SW \in Seq(Entry) /\ MaxSessions' = MaxSessions
      /\ EditsRace => MaxSessions <= 1
  BY SetupStays, BaseFacts, OneShotFacts
<1>a. \A n \in Nat : KeptFrom(SW, n) => KeptFrom(SW, n)
  OBVIOUS
<1>1. CASE UNCHANGED vars
  BY <1>1, <1>a, OneShotSame DEF vars, SW
<1>2. CASE StartSession
  <2>1. /\ dbg = "idle" /\ dbg' = "enter" /\ clr = NotClearing /\ clr' = clr /\ SW' = SW /\ it' = 1
        /\ sessions < MaxSessions /\ sessions' = sessions + 1
    BY <1>2 DEF StartSession, SW
  <2>2. SeveralSessions => SeveralSessions'
    BY <1>0, <2>1 DEF SeveralSessions, KeptTo
  <2>3. OneSession => OneSession'
    BY <1>0, <2>1 DEF OneSession
  <2> QED
    BY <1>0, <2>2, <2>3 DEF OneShotInv
<1>3. CASE CleanupStep
  BY <1>3, CleanupOneShots
<1>4. CASE CleanWorkSpaceDone
  <2>1. /\ dbg \in {"enter", "leave"} /\ dbg' = (IF dbg = "enter" THEN "loop" ELSE "idle")
        /\ it > Len(SW) /\ SW' = SW /\ clr' = clr /\ sessions' = sessions
    BY <1>4 DEF CleanWorkSpaceDone, SW
  <2>2. it \in Nat /\ DOMAIN SW = 1 .. Len(SW) /\ Len(SW) \in Nat
    BY <1>0 DEF TypeOK
  <2>3. SeveralSessions => SeveralSessions'
    BY <2>1, <2>2 DEF SeveralSessions, KeptFrom, KeptTo
  <2>4. OneSession /\ MaxSessions <= 1 => OneSession'
    BY <1>0, <2>1 DEF OneSession
  <2> QED
    BY <1>0, <2>3, <2>4 DEF OneShotInv
<1>5. CASE StopLoop
  <2>1. dbg = "loop" /\ dbg' = "leave" /\ it' = 1 /\ sessions' = sessions /\ SW' = SW
    BY <1>5 DEF StopLoop, SW
  <2>2. SeveralSessions'
    BY <1>0, <2>1 DEF SeveralSessions
  <2>3. OneSession => OneSession'
    BY <1>0, <2>1 DEF OneSession
  <2> QED
    BY <1>0, <2>2, <2>3 DEF OneShotInv
<1>6. ASSUME NEW p \in Pid, NEW b \in Bases, CreateProcess(p, b) PROVE OneShotInv'
  BY <1>6, OneShotEvent DEF CreateProcess
<1>7. ASSUME NEW p \in Pid, ExitProcess(p) PROVE OneShotInv'
  <2>1. /\ dbg = "loop" /\ pids' = pids /\ pids # {} /\ sessions' = sessions
        /\ dbg' = "loop" \/ (dbg' = "leave" /\ it' = 1)
    BY <1>7 DEF ExitProcess, Running
  <2> QED
    BY <1>0, <2>1 DEF OneShotInv, SeveralSessions, OneSession
<1>8. ASSUME NEW p \in Pid, SingleStep(p) PROVE OneShotInv'
  BY <1>8, OneShotEvent DEF SingleStep, KeepSession, Running
<1>9. ASSUME NEW p \in Pid, NEW a, SoftwareHit(p, a) PROVE OneShotInv'
  BY <1>9, OneShotEvent DEF SoftwareHit, KeepSession, Running
<1>10. ASSUME NEW p \in Pid, NEW s \in Slot, HardwareHit(p, s) PROVE OneShotInv'
  BY <1>10, OneShotEvent DEF HardwareHit, KeepSession, Running
<1>11. ASSUME NEW s \in Offered, NEW pid \in UserPid, NEW off \in Address,
              GUIAdd(s.kind, pid, off, s.size, s.handle, s.op)
       PROVE  OneShotInv'
  <2>1. /\ UNCHANGED <<setup, dbg, pids, it, clr, sessions>> /\ clr = NotClearing
        /\ dbg \in {"idle", "loop"} \/ EditsRace
        /\ s.handle # "BP_KEEP" => Running # {}
    BY <1>11 DEF GUIAdd, KeepSession, MayEdit
  <2>2. CASE s.handle = "BP_KEEP"
    <3>1. \A n \in Nat : KeptFrom(SW, n) => KeptFrom(SW', n)
      BY <1>0, <1>11, <2>2, UserAddList, GrowsFacts
    <3> QED
      BY <1>0, <2>1, <3>1, OneShotSame
  <2>3. CASE s.handle # "BP_KEEP"
    <3>1. pids # {} /\ dbg \notin {"idle", "enter"}
      BY <2>1, <2>3 DEF Running, World
    <3> QED
      BY <1>0, <2>1, <3>1 DEF OneShotInv, SeveralSessions, OneSession
  <2> QED
    BY <2>2, <2>3
<1>12. ASSUME NEW k \in UserKind, NEW off, GUIRemove(k, off) PROVE OneShotInv'
  <2>1. /\ UNCHANGED <<setup, dbg, pids, it, clr, sessions>> /\ clr = NotClearing
        /\ dbg \in {"idle", "loop"} \/ EditsRace
    BY <1>12 DEF GUIRemove, KeepSession, MayEdit
  <2>2. k \in Kind
    BY BaseFacts DEF SetupOK
  <2>3. Shrinks(SW, SW')
    BY <1>0, <1>12, <2>2, RemoveList DEF GUIRemove, SW
  <2>4. \A n \in Nat : KeptFrom(SW, n) => KeptFrom(SW', n)
    BY <1>0, <2>3, ShrinksFacts
  <2> QED
    BY <1>0, <2>1, <2>4, OneShotSame
<1>13. CASE Detach
  <2>1. dbg = "loop" /\ dbg' = "loop" /\ pids' # {} /\ UNCHANGED <<setup, sessions>>
    BY <1>13 DEF Detach, Running
  <2> QED
    BY <2>1, OneShotEvent
<1>14. CASE StartClear
  <2>1. dbg = "idle" /\ dbg' = dbg /\ clr' # NotClearing /\ SW' = SW /\ UNCHANGED <<pids, sessions>>
    BY <1>14 DEF StartClear, SW, NotClearing
  <2> QED
    BY <1>0, <2>1 DEF OneShotInv, SeveralSessions, OneSession
<1>15. CASE ClearStep
  <2>1. UNCHANGED <<setup, dbg, pids, it, sessions>> /\ clr # NotClearing
    BY <1>15 DEF ClearStep, KeepSession
  <2>2. Shrinks(SW, SW') /\ (clr' = NotClearing => SW' = <<>>)
    BY <1>0, <1>15, ClearList DEF SW
  <2>3. KeptFrom(SW, 1) => KeptFrom(SW', 1)
    BY <1>0, <2>2, ShrinksFacts
  <2>4. SW' = <<>> => KeptFrom(SW', 1) /\ KeptFrom(SW', 2) /\ DOMAIN SW' = {}
    BY DEF KeptFrom
  <2>5. SeveralSessions => SeveralSessions'
    BY <1>0, <2>1, <2>2, <2>3, <2>4 DEF SeveralSessions
  <2>6. OneSession => OneSession'
    BY <1>0, <2>1, <2>3 DEF OneSession
  <2> QED
    BY <1>0, <2>5, <2>6 DEF OneShotInv
<1>16. ASSUME NEW s \in Offered, NEW r \in Rva, InsertFromProjectFile(s.kind, r, s.size, s.op)
       PROVE  OneShotInv'
  <2>1. UNCHANGED <<setup, dbg, pids, it, clr, sessions>> /\ dbg = "idle"
    BY <1>16 DEF InsertFromProjectFile, KeepSession
  <2>2. PICK e, L : /\ Stored(e, r) /\ L = Append(bps[s.kind], e)
                    /\ bps' = [bps EXCEPT ![s.kind] = L]
    BY <1>16, StoredFacts
  <2>3. s.kind \in Kind
    BY BaseFacts, OfferedFacts
  <2>4. Grows(SW, SW', "BP_KEEP")
    BY <1>0, <2>2, <2>3 DEF Grows, Stored, SW, Lists
  <2>5. \A n \in Nat : KeptFrom(SW, n) => KeptFrom(SW', n)
    BY <1>0, <2>4, GrowsFacts
  <2> QED
    BY <1>0, <2>1, <2>5, OneShotSame
<1>17. ASSUME NEW p \in Pid, Hide(p) PROVE OneShotInv'
  <2>1. UNCHANGED <<setup, dbg, pids, it, clr, sessions>> /\ SW' = SW
    BY <1>17 DEF Hide, KeepSession, SW
  <2> QED
    BY <1>a, <2>1, OneShotSame
<1>18. CASE Show
  <2>1. UNCHANGED <<setup, dbg, pids, it, clr, sessions>>
    BY <1>18 DEF Show, KeepSession
  <2>2. PICK L, K : L = SW /\ K = SW'
    OBVIOUS
  <2>3. OnlyBackups(L, K)
    BY <1>0, <1>18, <2>2, ShowLists
  <2>4. DOMAIN K = DOMAIN L /\ \A i \in DOMAIN L : K[i].handle = L[i].handle
    BY <2>3 DEF OnlyBackups, SameBut
  <2>5. \A n \in Nat : KeptFrom(L, n) => KeptFrom(K, n)
    BY <2>4 DEF KeptFrom
  <2> QED
    BY <1>a, <2>1, <2>2, <2>4, <2>5, OneShotSame
<1> QED
  BY <1>1, <1>2, <1>3, <1>4, <1>5, <1>6, <1>7, <1>8, <1>9, <1>10, <1>11, <1>12, <1>13, <1>14,
     <1>15, <1>16, <1>17, <1>18 DEF Next, Debugger, GUI, Disassembler

(* When the debugger waits for the first event of a session, the one-shot  *)
(* breakpoints of earlier sessions are gone: whatever the breakpoints, the *)
(* two passes of BreakpointCleanup at the end of a session and at the      *)
(* start of the next leave none, if no edit shifts the list under a pass.  *)
THEOREM NoOneShotSurvives ==
  ASSUME OneShotSetups PROVE Spec => []OneShotsGone
<1>1. Init => TypeOK /\ World /\ OneShotInv
  BY InitTyped, InitWorld, InitOneShots
<1>2. TypeOK /\ World /\ OneShotInv /\ [Next]_vars => (TypeOK /\ World /\ OneShotInv)'
  BY NextTyped, NextWorld, NextOneShots
<1>3. TypeOK /\ World /\ OneShotInv => OneShotsGone
  <2> SUFFICES ASSUME TypeOK, OneShotInv, dbg = "loop", pids = {} PROVE KeptFrom(SW, 1)
    BY BaseFacts DEF OneShotsGone, KeptFrom
  <2>1. MaxSessions \in Nat
    BY ConstantsOK DEF TypeOK, MaxSessions
  <2> QED
    BY <2>1 DEF OneShotInv, SeveralSessions, OneSession
<1> QED
  BY <1>1, <1>2, <1>3, PTL DEF Spec

-----------------------------------------------------------------------------
(* Hardware breakpoints: a register of their own, and armed in it.         *)

(* A rebase with a dead first process, as children allow, takes an offset  *)
(* for a base; one onto another base may bring two breakpoints to one      *)
(* address.  Both are left out, as are project files.                      *)
HardwareSetups ==
  \A s \in Setups : \/ "project" \in s.may \/ "HARDWARE_BP" \notin s.kinds
                    \/ "childs" \notin s.may /\ \A b, c \in s.bases : b = c

HasHardware == ~ProjectFiles /\ "HARDWARE_BP" \in UserKind

(* An entry of the image, or one set before there was a process.           *)
HwPlaced(e, b) == IF e.named THEN e.base = b /\ e.offset - b \in Rva \cup {0} ELSE e.base = e.offset

HwList(L) ==
  /\ Len(L) <= 4
  /\ \A i, j \in DOMAIN L : L[i].slot = L[j].slot => i = j
  /\ \A i \in DOMAIN L, b \in Bases : HwPlaced(L[i], b)
  /\ \A i, j \in DOMAIN L, b \in Bases :
       L[i].offset = L[j].offset /\ L[i].offset \in Image(b) => i = j

HwSet(e, p, pr) ==
  (e.pid = p /\ ~e.restore /\ e.offset \in Image(pr.base))
    => e.slot \in pr.on /\ pr.dr[e.slot] = e.offset

HwArmed(L, P, S) == \A p \in S, i \in DOMAIN L : HwSet(L[i], p, P[p])

HardwareInv ==
  ~ProjectFiles => IF "HARDWARE_BP" \in UserKind THEN HwList(HW) /\ HwArmed(HW, proc, Running)
                                                ELSE HW = <<>>

LEMMA HardwareFacts ==
  ASSUME TypeOK, World, HardwareSetups, setup' = setup
  PROVE  /\ HasHardware => ~DebugChilds /\ \A b, c \in Bases : b = c
         /\ Bases' = Bases /\ Pid' = Pid /\ HasHardware' = HasHardware
         /\ \A b : Image(b)' = Image(b)
         /\ \A p \in Running : p \in Pid /\ proc[p] \in Process /\ proc[p].base \in Bases /\ Alive(proc[p])
         /\ HasHardware => pids \subseteq {main}
<1>1. HasHardware => ~DebugChilds /\ \A b, c \in Bases : b = c
  BY DEF TypeOK, HardwareSetups, HasHardware, DebugChilds, ProjectFiles, UserKind, Bases
<1>2. \A p \in Running : p \in Pid /\ proc[p] \in Process /\ proc[p].base \in Bases /\ Alive(proc[p])
  BY BaseFacts DEF Running, World, Placed
<1>3. Bases' = Bases /\ Pid' = Pid /\ HasHardware' = HasHardware /\ \A b : Image(b)' = Image(b)
  BY DEF Bases, Pid, HasHardware, ProjectFiles, UserKind, Image, Rva
<1> QED
  BY <1>1, <1>2, <1>3 DEF World

LEMMA HardwareKept ==
  ASSUME setup' = setup, HasHardware => HwList(HW') /\ HwArmed(HW', proc', Running'),
         ~ProjectFiles /\ ~HasHardware => HW' = <<>>
  PROVE  HardwareInv'
<1>1. (ProjectFiles' <=> ProjectFiles) /\ UserKind' = UserKind
  BY DEF ProjectFiles, UserKind
<1>2. HwList(HW') => HwList(HW)'
  BY DEF HwList, HwPlaced, Image, Bases, Rva
<1>3. HwArmed(HW', proc', Running') => HwArmed(HW, proc, Running)'
  BY DEF HwArmed, HwSet, Image, Rva
<1> QED
  BY <1>1, <1>2, <1>3 DEF HardwareInv, HasHardware

LEMMA HwListGone ==
  ASSUME NEW L \in Seq(Entry), HwList(L), NEW i \in DOMAIN L, NEW K, K = RemoveAt(L, i)
  PROVE  HwList(K)
<1>1. /\ K \in Seq(Entry) /\ Len(K) = Len(L) - 1
      /\ \A j \in DOMAIN K : K[j] = IF j < i THEN L[j] ELSE L[j + 1]
  BY EntryGone
<1>2. PICK g : g = [j \in DOMAIN K |-> IF j < i THEN j ELSE j + 1]
  OBVIOUS
<1>3. /\ \A j \in DOMAIN K : g[j] \in DOMAIN L /\ K[j] = L[g[j]]
      /\ \A j, k \in DOMAIN K : g[j] = g[k] => j = k
  BY <1>1, <1>2
<1>4. Len(K) <= 4
  BY <1>1 DEF HwList
<1>5. \A j, k \in DOMAIN K : K[j].slot = K[k].slot => j = k
  <2> SUFFICES ASSUME NEW j \in DOMAIN K, NEW k \in DOMAIN K, K[j].slot = K[k].slot PROVE g[j] = g[k]
    BY <1>3
  <2> QED
    BY <1>3 DEF HwList
<1>6. \A j \in DOMAIN K, b \in Bases : HwPlaced(K[j], b)
  BY <1>3 DEF HwList
<1>7. ASSUME NEW j \in DOMAIN K, NEW k \in DOMAIN K, NEW b \in Bases,
             K[j].offset = K[k].offset, K[j].offset \in Image(b)
      PROVE  j = k
  <2>1. g[j] = g[k]
    BY <1>3, <1>7 DEF HwList
  <2> QED
    BY <1>3, <2>1
<1> QED
  BY <1>4, <1>5, <1>6, <1>7 DEF HwList

LEMMA HwSetGone ==
  ASSUME NEW L \in Seq(Entry), HwList(L), NEW i \in DOMAIN L, NEW j \in DOMAIN L, j # i,
         NEW p, NEW pr \in Process, pr.base \in Bases, HwSet(L[j], p, pr)
  PROVE  HwSet(L[j], p, dHardwareBP(L[i], pr))
<1>1. L[i] \in Entry /\ L[j] \in Entry
  OBVIOUS
<1>2. L[j].slot # L[i].slot
  BY DEF HwList
<1>3. L[j].offset \in Image(pr.base) => L[j].offset # L[i].offset
  BY DEF HwList
<1>4. /\ SamePlace(pr, dHardwareBP(L[i], pr)) /\ dHardwareBP(L[i], pr).on = pr.on \ {L[i].slot}
      /\ \A s \in Slot : pr.dr[s] # L[i].offset => dHardwareBP(L[i], pr).dr[s] = pr.dr[s]
  BY <1>1, HardwareGoneFacts
<1>5. L[j].slot \in Slot
  BY <1>1, EntryFields
<1> QED
  BY <1>2, <1>3, <1>4, <1>5 DEF HwSet, SamePlace

LEMMA HwSetMade ==
  ASSUME NEW e \in Entry, NEW f \in Entry, NEW p, NEW pr \in Process, Alive(pr)
  PROVE  /\ f.slot # e.slot /\ HwSet(f, p, pr) => HwSet(f, p, wHardwareBP(e, pr))
         /\ f.slot = e.slot /\ f.offset = e.offset => HwSet(f, p, wHardwareBP(e, pr))
<1>1. /\ SamePlace(pr, wHardwareBP(e, pr)) /\ wHardwareBP(e, pr).on = pr.on \cup {e.slot}
      /\ \A s \in Slot : wHardwareBP(e, pr).dr[s] = IF s = e.slot THEN e.offset ELSE pr.dr[s]
  BY HardwareSetFacts
<1>2. e.slot \in Slot /\ f.slot \in Slot
  BY EntryFields
<1> QED
  BY <1>1, <1>2 DEF HwSet, SamePlace

(* Registers that stay keep what is armed in them.                         *)
LEMMA HwArmedSame ==
  ASSUME NEW L, NEW P, NEW Q, NEW S, HwArmed(L, P, S),
         \A p \in S : Q[p].base = P[p].base /\ SameRegs(P[p], Q[p])
  PROVE  HwArmed(L, Q, S)
BY DEF HwArmed, HwSet, SameRegs

LEMMA HwRemoved ==
  ASSUME NEW B \in Lists, NEW P \in Processes, HwList(B["HARDWARE_BP"]), NEW S \in SUBSET Pid,
         HwArmed(B["HARDWARE_BP"], P, S), \A p \in S : P[p].base \in Bases,
         NEW k \in Kind, NEW off, NEW R, R = BreakpointRemove(B, P, k, off)
  PROVE  HwList(R.bps["HARDWARE_BP"]) /\ HwArmed(R.bps["HARDWARE_BP"], R.proc, S)
<1>0. /\ B["HARDWARE_BP"] \in Seq(Entry) /\ \A q \in Pid : P[q] \in Process
      /\ "HARDWARE_BP" \in Kind
  BY ListFacts DEF Kind, Processes
<1>1. CASE Same(B, P, R)
  BY <1>1 DEF Same
<1>2. ASSUME NEW i, NEW h, Removed(B, P, k, off, i, h, R)
      PROVE  HwList(R.bps["HARDWARE_BP"]) /\ HwArmed(R.bps["HARDWARE_BP"], R.proc, S)
  <2>1. CASE k = "HARDWARE_BP"
    <3>1. PICK L, K, t : L = B["HARDWARE_BP"] /\ K = RemoveAt(L, i) /\ t = L[i].pid
      OBVIOUS
    <3>2. /\ i \in DOMAIN L /\ L \in Seq(Entry) /\ R.bps["HARDWARE_BP"] = K
          /\ R.proc = IF t \in Pid THEN [P EXCEPT ![t] = dHardwareBP(L[i], P[t])] ELSE P
      BY <1>0, <1>2, <2>1, <3>1 DEF Removed, Lists
    <3>3. HwList(K)
      BY <3>1, <3>2, HwListGone
    <3>4. ASSUME NEW p \in S, NEW j \in DOMAIN K PROVE HwSet(K[j], p, R.proc[p])
      <4>1. PICK m \in DOMAIN L : m # i /\ K[j] = L[m]
        <5>1. Len(K) = Len(L) - 1 /\ K \in Seq(Entry) /\ K[j] = IF j < i THEN L[j] ELSE L[j + 1]
          BY <3>1, <3>2, EntryGone
        <5>2. j \in DOMAIN L /\ j + 1 \in DOMAIN L /\ j # j + 1 /\ (j < i => j # i) /\ (~(j < i) => j + 1 # i)
          BY <3>2, <5>1
        <5> QED
          BY <5>1, <5>2
      <4>2. HwSet(L[m], p, P[p])
        BY <3>1 DEF HwArmed
      <4>3. P[p] \in Process /\ P[p].base \in Bases /\ p \in Pid
        BY <1>0
      <4>4. CASE t = p
        <5>1. R.proc[p] = dHardwareBP(L[i], P[p])
          BY <3>2, <4>3, <4>4 DEF Processes
        <5> QED
          BY <3>1, <3>2, <4>1, <4>2, <4>3, <5>1, HwSetGone
      <4>5. CASE t # p
        BY <3>2, <4>1, <4>2, <4>3, <4>5 DEF Processes
      <4> QED
        BY <4>4, <4>5
    <3> QED
      BY <3>2, <3>3, <3>4 DEF HwArmed
  <2>2. CASE k = "SOFTWARE_BP"
    <3>1. /\ R.bps["HARDWARE_BP"] = B["HARDWARE_BP"] /\ B[k][i] \in Entry
          /\ R.proc = IF h \in Pid THEN [P EXCEPT ![h] = dSoftwareBP(B[k][i], P[h])] ELSE P
      BY <1>2, <2>2, ListFacts DEF Removed, Lists
    <3>2. h \in Pid => /\ SamePlace(P[h], dSoftwareBP(B[k][i], P[h]))
                       /\ SameRegs(P[h], dSoftwareBP(B[k][i], P[h]))
      BY <1>0, <3>1, DisarmedFacts
    <3>3. \A p \in S : R.proc[p].base = P[p].base /\ SameRegs(P[p], R.proc[p])
      BY <3>1, <3>2 DEF SamePlace, SameRegs, Processes
    <3> QED
      BY <3>1, <3>3, HwArmedSame
  <2>3. CASE k = "MEMORY_BP"
    BY <1>2, <2>3 DEF Removed, Lists
  <2> QED
    BY <2>1, <2>2, <2>3 DEF Kind
<1> QED
  BY <1>1, <1>2, RemoveFacts

LEMMA FreeSlotExists ==
  ASSUME NEW L \in Seq(Entry), Len(L) <= 3 PROVE FreeSlots(L) # {}
<1> SUFFICES ASSUME \A s \in Slot : \E i \in DOMAIN L : L[i].slot = s PROVE FALSE
  BY DEF FreeSlots
<1>1. PICK a \in DOMAIN L, b \in DOMAIN L, c \in DOMAIN L, d \in DOMAIN L :
        L[a].slot = 0 /\ L[b].slot = 1 /\ L[c].slot = 2 /\ L[d].slot = 3
  BY DEF Slot
<1>2. Len(L) \in Nat /\ DOMAIN L = 1 .. Len(L)
  OBVIOUS
<1>3. a # b /\ a # c /\ a # d /\ b # c /\ b # d /\ c # d
  BY <1>1
<1> QED
  BY <1>2, <1>3

LEMMA RoomLeft == ASSUME NEW n \in Nat, n <= 4, n # 4 PROVE n <= 3 /\ n + 1 <= 4
OBVIOUS

LEMMA ElementFacts ==
  ASSUME NEW L \in Seq(Entry) PROVE Len(L) \in Nat /\ \A j \in DOMAIN L : L[j] \in Entry
OBVIOUS

LEMMA HwAppended ==
  ASSUME NEW L \in Seq(Entry), HwList(L), Len(L) # 4, NEW e \in Entry, e.slot \in FreeSlots(L),
         \A b \in Bases : HwPlaced(e, b), \A i \in DOMAIN L : L[i].offset # e.offset,
         NEW K, K = Append(L, e)
  PROVE  HwList(K)
<1>1. /\ K \in Seq(Entry) /\ Len(K) = Len(L) + 1 /\ DOMAIN K = DOMAIN L \cup {Len(L) + 1}
      /\ K[Len(L) + 1] = e /\ \A j \in DOMAIN L : j # Len(L) + 1 /\ K[j] = L[j]
  BY EntryAdded
<1>2. Len(K) <= 4
  <2>1. Len(L) \in Nat /\ Len(L) <= 4
    BY ElementFacts DEF HwList
  <2>2. Len(L) + 1 <= 4
    BY <2>1, RoomLeft
  <2> QED
    BY <1>1, <2>2
<1>3. \A j \in DOMAIN L : L[j].slot # e.slot
  BY DEF FreeSlots
<1>4. \A i, j \in DOMAIN K : K[i].slot = K[j].slot => i = j
  BY <1>1, <1>3 DEF HwList
<1>5. \A i \in DOMAIN K, b \in Bases : HwPlaced(K[i], b)
  BY <1>1 DEF HwList
<1>6. \A i, j \in DOMAIN K, b \in Bases : K[i].offset = K[j].offset /\ K[i].offset \in Image(b) => i = j
  BY <1>1 DEF HwList
<1> QED
  BY <1>2, <1>4, <1>5, <1>6 DEF HwList

LEMMA HwAdded ==
  ASSUME NEW B \in Lists, NEW P \in Processes, HwList(B["HARDWARE_BP"]), NEW S \in SUBSET Pid,
         HwArmed(B["HARDWARE_BP"], P, S), \A p \in S : P[p].base \in Bases /\ Alive(P[p]),
         \A p \in Pid : Placed(P[p]), \A b, c \in Bases : b = c, AnyPid \notin Pid,
         SetupOK,
         NEW k \in Kind, NEW pid \in Pid \cup {AnyPid}, NEW h, NEW cur, NEW off \in Int,
         NEW size \in Span, NEW hd \in Handle, NEW op \in Trap,
         k = "HARDWARE_BP" => hd = "BP_KEEP",
         NEW R, R = BreakpointAdd(B, P, k, pid, h, cur, off, size, hd, op)
  PROVE  HwList(R.bps["HARDWARE_BP"]) /\ HwArmed(R.bps["HARDWARE_BP"], R.proc, S)
<1>0. /\ B["HARDWARE_BP"] \in Seq(Entry) /\ \A q \in Pid : P[q] \in Process
      /\ "HARDWARE_BP" \in Kind
  BY ListFacts DEF Kind, Processes
<1>1. CASE Same(B, P, R)
  BY <1>1 DEF Same
<1>2. ASSUME NEW e, AddedSoftware(B, P, pid, h, off, size, hd, op, e, R)
      PROVE  HwList(R.bps["HARDWARE_BP"]) /\ HwArmed(R.bps["HARDWARE_BP"], R.proc, S)
  <2>1. /\ e \in Entry /\ h \in Pid /\ R.bps["HARDWARE_BP"] = B["HARDWARE_BP"]
        /\ R.proc = [P EXCEPT ![h] = Armed(e, op, P[h])]
    BY <1>0, <1>2 DEF AddedSoftware, Lists
  <2>2. SamePlace(P[h], Armed(e, op, P[h])) /\ SameRegs(P[h], Armed(e, op, P[h]))
    BY <1>0, <2>1, ArmedFacts
  <2>3. \A p \in S : R.proc[p].base = P[p].base /\ SameRegs(P[p], R.proc[p])
    BY <2>1, <2>2 DEF SamePlace, SameRegs, Processes
  <2> QED
    BY <2>1, <2>3, HwArmedSame
<1>3. ASSUME NEW e, AddedMemory(B, P, off, e, R)
      PROVE  HwList(R.bps["HARDWARE_BP"]) /\ HwArmed(R.bps["HARDWARE_BP"], R.proc, S)
  BY <1>0, <1>3 DEF AddedMemory, Lists
<1>4. ASSUME k = "HARDWARE_BP", NEW e, NEW t,
             AddedHardware(B, P, pid, h, cur, off, size, hd, op, e, t, R)
      PROVE  HwList(R.bps["HARDWARE_BP"]) /\ HwArmed(R.bps["HARDWARE_BP"], R.proc, S)
  <2>1. PICK L, K, pr : /\ L = B["HARDWARE_BP"] /\ K = Append(L, e)
                        /\ pr = IF h \in Pid THEN P[h] ELSE DeadProcess
    OBVIOUS
  <2>2. /\ e \in Entry /\ L \in Seq(Entry) /\ Len(L) # 4 /\ R.bps["HARDWARE_BP"] = K /\ HwList(L)
        /\ R.proc = IF t \in Pid THEN [P EXCEPT ![t] = wHardwareBP(e, P[t])] ELSE P
    BY <1>0, <1>4, <2>1 DEF AddedHardware, Lists
  <2>3. e.slot \in FreeSlots(L)
    <3>1. Len(L) <= 3
      <4>1. Len(L) \in Nat /\ Len(L) <= 4
        BY <2>2, ElementFacts DEF HwList
      <4> QED
        BY <2>2, <4>1, RoomLeft
    <3> QED
      BY <1>4, <2>1, <2>2, <3>1, FreeSlotExists DEF AddedHardware
  <2>4. \A i \in DOMAIN L : L[i].offset # e.offset
    BY <1>0, <1>4, <2>1 DEF AddedHardware, Exists, IsNew
  <2>5. \A b \in Bases : HwPlaced(e, b)
    <3>1. PICK c : c = CalcOffsetForModule(FALSE, off, pr)
      OBVIOUS
    <3>2. pr \in Process
      BY <2>1, AccessedFacts
    <3>3. IF Alive(pr) /\ off \in Image(pr.base) THEN c.base = pr.base /\ c.named
                                                  ELSE c.base = off /\ ~c.named
      BY <3>1, <3>2, CalcNew
    <3>4. e.offset = off /\ c = [base |-> e.base, named |-> e.named]
      BY <1>4, <2>1, <3>1 DEF AddedHardware, IsNew
    <3>5. CASE Alive(pr) /\ off \in Image(pr.base)
      <4>1. pr.base \in Bases
        BY <2>1, <3>5, DeadFacts DEF Placed
      <4>2. \A b \in Bases : e.base = b /\ e.offset - b \in Rva
        <5>1. PICK r \in Rva : off = pr.base + r
          BY <3>5 DEF Image
        <5>2. r \in Int /\ pr.base \in Int
          BY <4>1 DEF SetupOK
        <5> QED
          BY <3>3, <3>4, <3>5, <4>1, <5>1, <5>2
      <4>3. e.named
        BY <3>3, <3>4, <3>5
      <4> QED
        BY <4>2, <4>3 DEF HwPlaced
    <3>6. CASE ~(Alive(pr) /\ off \in Image(pr.base))
      <4>1. e.base = e.offset /\ ~e.named
        BY <3>3, <3>4, <3>6
      <4> QED
        BY <4>1 DEF HwPlaced
    <3> QED
      BY <3>5, <3>6
  <2>6. HwList(K)
    BY <2>1, <2>2, <2>3, <2>4, <2>5, HwAppended
  <2>7. ASSUME NEW p \in S, NEW j \in DOMAIN K PROVE HwSet(K[j], p, R.proc[p])
    <3>1. /\ K \in Seq(Entry) /\ DOMAIN K = DOMAIN L \cup {Len(L) + 1}
          /\ K[Len(L) + 1] = e /\ \A i \in DOMAIN L : i # Len(L) + 1 /\ K[i] = L[i]
      BY <2>1, <2>2, EntryAdded
    <3>2. p \in Pid /\ P[p] \in Process /\ Alive(P[p]) /\ K[j] \in Entry
      <4>1. K[j] \in Entry
        BY <3>1, ElementFacts
      <4> QED
        BY <1>0, <4>1
    <3>3. R.proc[p] = IF t = p THEN wHardwareBP(e, P[p]) ELSE P[p]
      BY <2>2, <3>2 DEF Processes
    <3>4. CASE j \in DOMAIN L
      <4>1. HwSet(K[j], p, P[p])
        BY <2>1, <3>1, <3>4 DEF HwArmed
      <4>2. K[j].slot # e.slot
        BY <2>3, <3>1, <3>4 DEF FreeSlots
      <4> QED
        BY <2>2, <3>2, <3>3, <4>1, <4>2, HwSetMade
    <3>5. CASE j \notin DOMAIN L
      <4>1. K[j] = e
        BY <3>1, <3>5
      <4>2. CASE t = p
        BY <2>2, <3>2, <3>3, <4>1, <4>2, HwSetMade
      <4>3. CASE t # p
        <5>1. e.pid = pid /\ (pid # AnyPid => t = pid)
          BY <1>4 DEF AddedHardware, IsNew
        <5>2. e.pid # p
          BY <3>2, <4>3, <5>1
        <5> QED
          BY <4>1, <5>2 DEF HwSet
      <4> QED
        BY <4>2, <4>3
    <3> QED
      BY <3>4, <3>5
  <2> QED
    BY <2>2, <2>6, <2>7 DEF HwArmed
<1>5. CASE k = "SOFTWARE_BP"
  BY <1>1, <1>2, <1>5, AddSoftware
<1>6. CASE k = "MEMORY_BP"
  BY <1>1, <1>3, <1>6, AddMemory
<1>7. CASE k = "HARDWARE_BP"
  BY <1>1, <1>4, <1>7, AddHardware
<1> QED
  BY <1>5, <1>6, <1>7 DEF Kind

(* BreakpointInit arms all of the process.                                 *)
LEMMA HwInit ==
  ASSUME SetupOK, NEW B \in Lists, NEW P \in Processes, HwList(B["HARDWARE_BP"]), NEW p \in Pid,
         P[p].base \in Bases, NEW R, R = BreakpointInit(B, P, p)
  PROVE  HwList(R.bps["HARDWARE_BP"]) /\ HwArmed(R.bps["HARDWARE_BP"], R.proc, {p})
<1>1. PICK L, q : L = B["HARDWARE_BP"] /\ q = R.proc[p]
  OBVIOUS
<1>2. R.bps["HARDWARE_BP"] = L /\ Loaded(L, p, P[p], q) /\ SamePlace(P[p], q) /\ L \in Seq(Entry)
  BY <1>1, InitFacts, ListFacts DEF Kind
<1>3. ASSUME NEW i \in DOMAIN L, L[i].pid = p, L[i].offset \in Image(q.base)
      PROVE  L[i].slot \in q.on /\ q.dr[L[i].slot] = L[i].offset
  <2>1. HwPlaced(L[i], P[p].base) /\ P[p].base \in Nat \ {0} /\ L[i] \in Entry
    BY <1>1, <1>2 DEF HwList, SetupOK
  <2>2. L[i].offset # 0
    <3>1. PICK r \in Rva : L[i].offset = P[p].base + r
      BY <1>2, <1>3 DEF Image, SamePlace
    <3> QED
      BY <2>1, <3>1 DEF SetupOK
  <2>3. L[i].base # 0
    BY <2>1, <2>2 DEF HwPlaced
  <2>4. i \in Holders(L, p, L[i].slot) /\ L[i].slot \in Slot
    BY <1>3, <2>1, <2>3, EntryFields DEF Holders, Eligible
  <2>5. \A j \in Holders(L, p, L[i].slot) : j = i
    BY <1>1 DEF Holders, HwList
  <2> QED
    BY <1>2, <2>4, <2>5 DEF Loaded
<1> QED
  BY <1>1, <1>2, <1>3 DEF HwArmed, HwSet

(* With the first process alone every pid means it.                        *)
LEMMA AloneFacts ==
  ASSUME TypeOK, World, pids \subseteq {main}, NEW p \in Running
  PROVE  /\ Running = {p} /\ p \in Pid
         /\ \A x : HandleOf(x) = p /\ Accessed(HandleOf(x)) = proc[p]
<1>1. main = p /\ p \in pids /\ pids = {p}
  BY DEF Running
<1>2. p \in Pid
  BY <1>1, BaseFacts
<1> QED
  BY <1>1, <1>2 DEF Running, HandleOf, Accessed

LEMMA HwRebased ==
  ASSUME TypeOK, World, pids \subseteq {main}, \A b, c \in Bases : b = c, NEW p \in Running,
         HwList(HW), NEW C, C = UpdateOffsets(bps)
  PROVE  HwList(C["HARDWARE_BP"])
<1>1. PICK L, K : L = HW /\ K = C["HARDWARE_BP"]
  OBVIOUS
<1>2. /\ SetupOK /\ L \in Seq(Entry) /\ p \in Pid /\ proc[p] \in Process /\ Alive(proc[p])
      /\ proc[p].base \in Bases
  BY <1>1, BaseFacts DEF Running, World, Placed
<1>3. /\ K \in Seq(Entry) /\ Len(K) = Len(L) /\ DOMAIN K = DOMAIN L
      /\ \A i \in DOMAIN L : K[i] = Rebased(L[i], proc[p])
  BY <1>1, BaseFacts, UpdateFacts, ListFacts, AloneFacts DEF HW
<1>4. ASSUME NEW i \in DOMAIN L, NEW b \in Bases
      PROVE  /\ HwPlaced(K[i], b) /\ K[i].slot = L[i].slot
             /\ K[i].offset \in Image(b) => K[i].offset = L[i].offset
  <2>1. PICK e, r : e = L[i] /\ r = K[i]
    OBVIOUS
  <2>2. e \in Entry /\ r = Rebased(e, proc[p]) /\ proc[p].base = b /\ HwPlaced(e, b)
    BY <1>1, <1>2, <1>3, <2>1, ElementFacts DEF HwList
  <2>3. /\ SameBut(e, r)
        /\ e.handle # "BP_KEEP" => r = e
        /\ e.handle = "BP_KEEP" =>
             /\ r.offset = (e.offset - e.base) + r.base
             /\ IF Alive(proc[p]) /\ (e.named \/ e.offset \in Image(proc[p].base))
                THEN r.base = proc[p].base /\ r.named
                ELSE r.base = e.offset /\ r.named = e.named
    BY <1>2, <2>2, RebasedFacts
  <2>4. b \in Int /\ e.offset \in Int /\ e.base \in Int /\ r.slot = e.slot /\ 0 \notin Rva /\ Rva \subseteq Int
    BY <1>2, <2>2, <2>3, EntryFields DEF SetupOK, SameBut
  <2>5. CASE e.handle # "BP_KEEP"
    BY <2>1, <2>2, <2>3, <2>5
  <2>6. CASE e.handle = "BP_KEEP" /\ e.named
    <3>1. r.base = b /\ r.named /\ r.offset = (e.offset - e.base) + b /\ e.base = b
      BY <1>2, <2>2, <2>3, <2>6 DEF HwPlaced
    <3>2. r.offset = e.offset
      BY <2>4, <3>1
    <3> QED
      BY <2>1, <2>2, <2>4, <2>6, <3>1, <3>2 DEF HwPlaced
  <2>7. CASE e.handle = "BP_KEEP" /\ ~e.named /\ e.offset \in Image(b)
    <3>1. r.base = b /\ r.named /\ r.offset = (e.offset - e.base) + b /\ e.base = e.offset
      BY <1>2, <2>2, <2>3, <2>7 DEF HwPlaced
    <3>2. r.offset = b /\ r.offset - b = 0
      BY <2>4, <3>1
    <3>3. ASSUME r.offset \in Image(b) PROVE FALSE
      <4>1. PICK v \in Rva : r.offset = b + v
        BY <3>3 DEF Image
      <4>2. v = 0
        BY <2>4, <3>2, <4>1
      <4> QED
        BY <2>4, <4>2
    <3> QED
      BY <2>1, <2>4, <3>1, <3>2, <3>3 DEF HwPlaced
  <2>8. CASE e.handle = "BP_KEEP" /\ ~e.named /\ e.offset \notin Image(b)
    <3>1. r.base = e.offset /\ ~r.named /\ r.offset = (e.offset - e.base) + e.offset /\ e.base = e.offset
      BY <1>2, <2>2, <2>3, <2>8 DEF HwPlaced
    <3>2. r.offset = e.offset
      BY <2>4, <3>1
    <3> QED
      BY <2>1, <2>4, <3>1, <3>2 DEF HwPlaced
  <2> QED
    BY <2>5, <2>6, <2>7, <2>8
<1>5. Len(K) <= 4
  BY <1>1, <1>3 DEF HwList
<1>6. \A i, j \in DOMAIN K : K[i].slot = K[j].slot => i = j
  BY <1>1, <1>2, <1>3, <1>4 DEF HwList
<1>7. \A i, j \in DOMAIN K, b \in Bases : K[i].offset = K[j].offset /\ K[i].offset \in Image(b) => i = j
  BY <1>1, <1>3, <1>4 DEF HwList
<1> QED
  BY <1>1, <1>3, <1>4, <1>5, <1>6, <1>7 DEF HwList

(* The steps of the debugger that meet hardware breakpoints.               *)
HwNext == HwList(HW') /\ HwArmed(HW', proc', Running')

HwHere == TypeOK /\ World /\ HasHardware /\ pids \subseteq {main} /\ (\A b, c \in Bases : b = c)
            /\ ~DebugChilds /\ HwList(HW) /\ HwArmed(HW, proc, Running)

LEMMA HwHereFacts ==
  ASSUME HwHere
  PROVE  /\ bps \in Lists /\ proc \in Processes /\ SetupOK /\ Running \in SUBSET Pid
         /\ \A p \in Running : /\ p \in Pid /\ proc[p] \in Process /\ proc[p].base \in Bases
                               /\ Alive(proc[p])
         /\ "HARDWARE_BP" \in Kind /\ "SOFTWARE_BP" \in Kind /\ HW \in Seq(Entry)
         /\ \A p \in Pid : Placed(proc[p])
         /\ TypeOK /\ World /\ HwList(HW) /\ HwArmed(HW, proc, Running)
         /\ \A b, c \in Bases : b = c
BY BaseFacts DEF HwHere, Running, World, Placed

LEMMA HwCreate ==
  ASSUME HwHere, NEW p \in Pid, NEW b \in Bases, CreateProcess(p, b) PROVE HwNext
<1>0. TypeOK /\ SetupOK /\ bps \in Lists /\ "HARDWARE_BP" \in Kind /\ HwList(HW)
  BY HwHereFacts
<1>1. PICK F, R, A : Created(p, b, F, R, A)
  BY <1>0, CreateFacts
<1>2. /\ F \in Processes /\ F[p] = NewProcess(b) /\ R = BreakpointInit(bps, F, p)
      /\ R.bps \in Lists /\ R.proc \in Processes /\ b + EntryRva \in Int
      /\ A = BreakpointAdd(R.bps, R.proc, "SOFTWARE_BP", p, p, p, b + EntryRva, 1,
                           "BP_DONOTKEEP", "int3")
      /\ bps' = A.bps /\ proc' = A.proc
  BY <1>1 DEF Created
<1>3. F[p].base = b /\ F[p] \in Process
  BY <1>0, <1>2, NewProcessFacts
<1>4. HwList(R.bps["HARDWARE_BP"]) /\ HwArmed(R.bps["HARDWARE_BP"], R.proc, {p})
  BY <1>0, <1>2, <1>3, HwInit DEF HW
<1>9. PICK off : off = b + EntryRva
  OBVIOUS
<1>5. ASSUME NEW e, AddedSoftware(R.bps, R.proc, p, p, off, 1, "BP_DONOTKEEP", "int3", e, A)
      PROVE  HwList(HW') /\ HwArmed(HW', proc', {p})
  <2>1. /\ e \in Entry /\ bps'["HARDWARE_BP"] = R.bps["HARDWARE_BP"]
        /\ proc' = [R.proc EXCEPT ![p] = Armed(e, "int3", R.proc[p])] /\ R.proc[p] \in Process
    BY <1>0, <1>2, <1>5 DEF AddedSoftware, Lists, Processes
  <2>2. "int3" \in Trap
    BY DEF Trap
  <2>3. /\ SamePlace(R.proc[p], Armed(e, "int3", R.proc[p]))
        /\ SameRegs(R.proc[p], Armed(e, "int3", R.proc[p]))
    BY <2>1, <2>2, ArmedFacts
  <2>4. proc'[p].base = R.proc[p].base /\ SameRegs(R.proc[p], proc'[p])
    BY <1>2, <2>1, <2>3 DEF SamePlace, SameRegs, Processes
  <2>5. HwArmed(bps'["HARDWARE_BP"], proc', {p})
    BY <1>4, <2>1, <2>4, HwArmedSame
  <2> QED
    BY <1>4, <2>1, <2>5 DEF HW
<1>6. ASSUME Same(R.bps, R.proc, A) PROVE HwList(HW') /\ HwArmed(HW', proc', {p})
  <2>1. bps'["HARDWARE_BP"] = R.bps["HARDWARE_BP"] /\ proc' = R.proc
    BY <1>2, <1>6 DEF Same
  <2>2. HwArmed(bps'["HARDWARE_BP"], proc', {p})
    BY <1>4, <2>1, HwArmedSame DEF SameRegs
  <2>3. HwList(bps'["HARDWARE_BP"])
    BY <1>4, <2>1
  <2> QED
    BY <2>2, <2>3 DEF HW
<1>7. HwList(HW') /\ HwArmed(HW', proc', {p})
  <2>1. p \in Pid \cup {AnyPid} /\ 1 \in Span /\ "BP_DONOTKEEP" \in Handle /\ "int3" \in Trap
    BY DEF Span, Handle, OneShot, Trap
  <2>2. \/ Same(R.bps, R.proc, A)
        \/ \E e : AddedSoftware(R.bps, R.proc, p, p, off, 1, "BP_DONOTKEEP", "int3", e, A)
    BY <1>2, <1>9, <2>1, AddSoftware
  <2> QED
    BY <1>5, <1>6, <2>2
<1>8. Running' \subseteq {p}
  BY DEF CreateProcess, HwHere, Running
<1> QED
  BY <1>7, <1>8 DEF HwArmed, HwNext

LEMMA HwSoftwareHit ==
  ASSUME HwHere, NEW p \in Running, NEW a, SoftwareHit(p, a), Running' = Running PROVE HwNext
<1>0. /\ TypeOK /\ SetupOK /\ bps \in Lists /\ proc \in Processes /\ "HARDWARE_BP" \in Kind
      /\ "SOFTWARE_BP" \in Kind /\ p \in Pid /\ HwList(HW) /\ HwArmed(HW, proc, Running)
      /\ proc[p].base \in Bases /\ World /\ pids \subseteq {main} /\ \A b, c \in Bases : b = c
  BY HwHereFacts DEF HwHere
<1>1. PICK isEP, C, R : isEP \in BOOLEAN /\ Hit(p, a, isEP, C, R)
  BY <1>0, HitFacts
<1>2. Running = {p}
  BY <1>0, AloneFacts
<1>3. R.bps \in Lists /\ R.proc \in Processes /\ R.proc[p] \in Process
  BY <1>0, <1>1 DEF Hit, Ready, Processes
<1>4. /\ HwList(R.bps["HARDWARE_BP"]) /\ HwArmed(R.bps["HARDWARE_BP"], R.proc, {p})
      /\ R.proc[p].base = proc[p].base
  <2>1. CASE isEP
    <3>1. C = UpdateOffsets(bps) /\ R = BreakpointInit(C, proc, p)
      BY <1>1, <2>1 DEF Hit, Ready
    <3>2. C \in Lists
      BY <1>0, <3>1, UpdateFacts
    <3>3. HwList(C["HARDWARE_BP"])
      BY <1>0, <3>1, HwRebased
    <3>4. R.proc[p].base = proc[p].base
      BY <1>0, <3>1, <3>2, InitFacts DEF SamePlace
    <3> QED
      BY <1>0, <3>1, <3>2, <3>3, <3>4, HwInit
  <2>2. CASE ~isEP
    BY <1>0, <1>1, <1>2, <2>2 DEF Hit, Ready, HW
  <2> QED
    BY <2>1, <2>2
<1>5. ASSUME NEW i \in DOMAIN R.bps["SOFTWARE_BP"], NEW Q,
             Q = [R.proc EXCEPT ![p] = dSoftwareBP(R.bps["SOFTWARE_BP"][i], R.proc[p])]
      PROVE  HwArmed(R.bps["HARDWARE_BP"], Q, {p}) /\ Q[p].base = R.proc[p].base
  <2>1. R.bps["SOFTWARE_BP"][i] \in Entry
    BY <1>0, <1>3, ListFacts
  <2>2. /\ SamePlace(R.proc[p], dSoftwareBP(R.bps["SOFTWARE_BP"][i], R.proc[p]))
        /\ SameRegs(R.proc[p], dSoftwareBP(R.bps["SOFTWARE_BP"][i], R.proc[p]))
    BY <1>3, <2>1, DisarmedFacts
  <2>3. Q[p].base = R.proc[p].base /\ SameRegs(R.proc[p], Q[p])
    BY <1>0, <1>3, <1>5, <2>2 DEF SamePlace, Processes
  <2> QED
    BY <1>4, <2>3, HwArmedSame
<1>6. ASSUME NEW i \in DOMAIN R.bps["SOFTWARE_BP"], Kept(p, i, R)
      PROVE  HwList(HW') /\ HwArmed(HW', proc', {p})
  <2>1. HwArmed(R.bps["HARDWARE_BP"], proc', {p})
    BY <1>5, <1>6 DEF Kept
  <2>2. bps'["HARDWARE_BP"] = R.bps["HARDWARE_BP"]
    BY <1>0, <1>3, <1>6 DEF Kept, Lists
  <2> QED
    BY <1>4, <2>1, <2>2 DEF HW
<1>7. ASSUME NEW i \in DOMAIN R.bps["SOFTWARE_BP"], NEW Q, NEW X, Dropped(p, a, i, R, Q, X)
      PROVE  HwList(HW') /\ HwArmed(HW', proc', {p})
  <2>1. /\ Q \in Processes /\ X = BreakpointRemove(R.bps, Q, "SOFTWARE_BP", a)
        /\ bps' = X.bps /\ proc' = X.proc
        /\ HwArmed(R.bps["HARDWARE_BP"], Q, {p}) /\ Q[p].base = R.proc[p].base
    BY <1>5, <1>7 DEF Dropped
  <2>2. {p} \in SUBSET Pid /\ \A q \in {p} : Q[q].base \in Bases
    BY <1>0, <1>4, <2>1
  <2> QED
    BY <1>0, <1>3, <1>4, <2>1, <2>2, HwRemoved DEF HW
<1>8. ASSUME bps' = R.bps, proc' = R.proc PROVE HwList(HW') /\ HwArmed(HW', proc', {p})
  <2>1. bps'["HARDWARE_BP"] = R.bps["HARDWARE_BP"] /\ proc' = R.proc
    BY <1>8
  <2>2. HwArmed(bps'["HARDWARE_BP"], proc', {p})
    BY <1>4, <2>1, HwArmedSame DEF SameRegs
  <2>3. HwList(bps'["HARDWARE_BP"])
    BY <1>4, <2>1
  <2> QED
    BY <2>2, <2>3 DEF HW
<1> QED
  BY <1>1, <1>2, <1>6, <1>7, <1>8 DEF Hit, HwNext

LEMMA HwRestored ==
  ASSUME NEW L \in Seq(Entry), HwList(L), NEW i \in DOMAIN L, NEW e \in Entry,
         e.slot = L[i].slot, e.offset = L[i].offset, e.base = L[i].base, e.named = L[i].named,
         NEW K, K = [L EXCEPT ![i] = e]
  PROVE  /\ HwList(K) /\ DOMAIN K = DOMAIN L /\ K[i] = e
         /\ \A j \in DOMAIN L : j # i => K[j] = L[j]
<1>1. /\ K \in Seq(Entry) /\ Len(K) = Len(L) /\ DOMAIN K = DOMAIN L /\ K[i] = e
      /\ \A j \in DOMAIN L : j # i => K[j] = L[j]
  BY EntrySet
<1>2. \A j \in DOMAIN L : /\ K[j].slot = L[j].slot /\ K[j].offset = L[j].offset
                          /\ K[j].base = L[j].base /\ K[j].named = L[j].named
  BY <1>1
<1>3. Len(K) <= 4
  BY <1>1 DEF HwList
<1>4. \A j, k \in DOMAIN K : K[j].slot = K[k].slot => j = k
  BY <1>1, <1>2 DEF HwList
<1>5. \A j \in DOMAIN K, b \in Bases : HwPlaced(K[j], b)
  BY <1>1, <1>2 DEF HwList, HwPlaced
<1>6. \A j, k \in DOMAIN K, b \in Bases : K[j].offset = K[k].offset /\ K[j].offset \in Image(b) => j = k
  BY <1>1, <1>2 DEF HwList
<1> QED
  BY <1>1, <1>3, <1>4, <1>5, <1>6 DEF HwList

LEMMA HwHardwareHit ==
  ASSUME HwHere, NEW p \in Running, NEW s \in Slot, HardwareHit(p, s), Running' = Running
  PROVE  HwNext
<1>0. /\ TypeOK /\ World /\ p \in Pid /\ HwList(HW) /\ HwArmed(HW, proc, Running) /\ HW \in Seq(Entry)
      /\ proc \in Processes /\ bps \in Lists /\ "HARDWARE_BP" \in Kind
      /\ proc[p] \in Process /\ proc[p].base \in Bases /\ pids \subseteq {main}
  BY HwHereFacts DEF HwHere
<1>a. TypeOK /\ p \in Pid
  BY <1>0
<1>1. Running = {p}
  BY <1>0, AloneFacts
<1>2. PICK i, e, L :
           /\ i \in DOMAIN HW /\ e \in Entry
           /\ e = [HW[i] EXCEPT !.restore = TRUE] /\ L = [HW EXCEPT ![i] = e]
           /\ bps' = [bps EXCEPT !["HARDWARE_BP"] = L]
           /\ proc' = [proc EXCEPT ![p] = dHardwareBP(HW[i], proc[p])]
  BY <1>a, HardwareHitFacts
<1>3. HW[i] \in EntryOf(HW[i].size)
  BY <1>0, <1>2, ElementFacts, EntryFields
<1>4. /\ e.slot = HW[i].slot /\ e.offset = HW[i].offset /\ e.base = HW[i].base
      /\ e.named = HW[i].named /\ e.restore
  BY <1>2, <1>3 DEF EntryOf
<1>5. HwList(L) /\ DOMAIN L = DOMAIN HW /\ L[i] = e /\ \A j \in DOMAIN HW : j # i => L[j] = HW[j]
  BY <1>0, <1>2, <1>4, HwRestored
<1>6. bps'["HARDWARE_BP"] = L
  BY <1>0, <1>2 DEF Lists
<1>7. proc'[p] = dHardwareBP(HW[i], proc[p])
  BY <1>0, <1>2 DEF Processes
<1>8. ASSUME NEW j \in DOMAIN L PROVE HwSet(L[j], p, proc'[p])
  <2>1. CASE j = i
    BY <1>4, <1>5, <2>1 DEF HwSet
  <2>2. CASE j # i
    <3>1. HwSet(HW[j], p, proc[p])
      BY <1>0, <1>1, <1>5 DEF HwArmed
    <3>2. HwSet(HW[j], p, dHardwareBP(HW[i], proc[p]))
      BY <1>0, <1>2, <1>5, <2>2, <3>1, HwSetGone
    <3> QED
      BY <1>5, <1>7, <2>2, <3>2
  <2> QED
    BY <2>1, <2>2
<1>9. HwArmed(L, proc', {p})
  BY <1>8 DEF HwArmed
<1>10. HwList(bps'["HARDWARE_BP"])
  BY <1>5, <1>6
<1>11. HwArmed(bps'["HARDWARE_BP"], proc', {p})
  BY <1>6, <1>9
<1> QED
  BY <1>1, <1>10, <1>11 DEF HwNext, HW

LEMMA HwSingleStep ==
  ASSUME HwHere, NEW p \in Running, SingleStep(p), Running' = Running
  PROVE  HwNext
<1>0. /\ TypeOK /\ World /\ p \in Pid /\ HwList(HW) /\ HwArmed(HW, proc, Running) /\ HW \in Seq(Entry)
      /\ proc \in Processes /\ bps \in Lists /\ "HARDWARE_BP" \in Kind
      /\ proc[p] \in Process /\ proc[p].base \in Bases /\ Alive(proc[p]) /\ pids \subseteq {main}
  BY HwHereFacts DEF HwHere
<1>1. Running = {p}
  BY <1>0, AloneFacts
<1>2. ASSUME bps' = bps, proc' = proc PROVE HwNext
  <2>1. HwList(bps'["HARDWARE_BP"])
    BY <1>0, <1>2 DEF HW
  <2>2. HwArmed(bps'["HARDWARE_BP"], proc', Running)
    BY <1>0, <1>2, HwArmedSame DEF HW, SameRegs
  <2> QED
    BY <2>1, <2>2 DEF HwNext, HW
<1>3. ASSUME NEW i, NEW h, NEW e, NEW L, SoftwareStep(p, i, h, e, L) PROVE HwNext
  <2>1. i \in DOMAIN SW /\ SW[i] \in Entry
    BY <1>0, <1>3, BaseFacts DEF SoftwareStep
  <2>2. PICK q : q = wSoftwareBP(SW[i], SW[i].data, proc[h])
    OBVIOUS
  <2>3. SW[i].data \in Trap
    BY <2>1, EntryFields
  <2>4. h \in Pid => SamePlace(proc[h], q) /\ SameRegs(proc[h], q)
    BY <1>0, <2>1, <2>2, <2>3, BaseFacts, ArmedFacts DEF wSoftwareBP, SamePlace, SameRegs
  <2>5. bps' = [bps EXCEPT !["SOFTWARE_BP"] = L] /\ proc' = IF h \in Pid THEN [proc EXCEPT ![h] = q] ELSE proc
    BY <1>3, <2>2 DEF SoftwareStep
  <2>6. bps'["HARDWARE_BP"] = HW
    BY <1>0, <2>5 DEF Lists, HW
  <2>7. proc'[p].base = proc[p].base /\ SameRegs(proc[p], proc'[p])
    BY <1>0, <2>4, <2>5 DEF SamePlace, SameRegs, Processes
  <2>8. HwArmed(HW, proc', Running)
    BY <1>0, <1>1, <2>7, HwArmedSame
  <2>9. HwList(bps'["HARDWARE_BP"])
    BY <1>0, <2>6
  <2>10. HwArmed(bps'["HARDWARE_BP"], proc', Running)
    BY <2>6, <2>8
  <2> QED
    BY <2>9, <2>10 DEF HwNext, HW
<1>4. ASSUME NEW i, NEW e, NEW L, HardwareStep(p, i, e, L) PROVE HwNext
  <2>1. /\ i \in DOMAIN HW /\ HW[i] \in Entry /\ e \in Entry /\ HW[i] \in EntryOf(HW[i].size)
        /\ e = [HW[i] EXCEPT !.restore = FALSE] /\ L = [HW EXCEPT ![i] = e]
        /\ bps' = [bps EXCEPT !["HARDWARE_BP"] = L]
        /\ proc' = [proc EXCEPT ![p] = wHardwareBP(HW[i], proc[p])]
    BY <1>0, <1>4, ElementFacts, EntryFields DEF HardwareStep
  <2>2. /\ e.slot = HW[i].slot /\ e.offset = HW[i].offset /\ e.base = HW[i].base
        /\ e.named = HW[i].named
    BY <2>1 DEF EntryOf
  <2>3. HwList(L) /\ DOMAIN L = DOMAIN HW /\ L[i] = e /\ \A j \in DOMAIN HW : j # i => L[j] = HW[j]
    BY <1>0, <2>1, <2>2, HwRestored
  <2>4. bps'["HARDWARE_BP"] = L
    BY <1>0, <2>1 DEF Lists
  <2>5. proc'[p] = wHardwareBP(HW[i], proc[p])
    BY <1>0, <2>1 DEF Processes
  <2>6. ASSUME NEW j \in DOMAIN L PROVE HwSet(L[j], p, proc'[p])
    <3>1. CASE j = i
      <4>1. HwSet(e, p, wHardwareBP(HW[i], proc[p]))
        BY <1>0, <2>1, <2>2, HwSetMade
      <4> QED
        BY <2>3, <2>5, <3>1, <4>1
    <3>2. CASE j # i
      <4>1. HwSet(HW[j], p, proc[p]) /\ HW[j] \in Entry /\ HW[j].slot # HW[i].slot
        BY <1>0, <1>1, <2>1, <2>3, <3>2, ElementFacts DEF HwArmed, HwList
      <4>2. HwSet(HW[j], p, wHardwareBP(HW[i], proc[p]))
        BY <1>0, <2>1, <4>1, HwSetMade
      <4> QED
        BY <2>3, <2>5, <3>2, <4>2
    <3> QED
      BY <3>1, <3>2
  <2>7. HwArmed(L, proc', {p})
    BY <2>6 DEF HwArmed
  <2>8. HwList(bps'["HARDWARE_BP"])
    BY <2>3, <2>4
  <2>9. HwArmed(bps'["HARDWARE_BP"], proc', {p})
    BY <2>4, <2>7
  <2> QED
    BY <1>1, <2>8, <2>9 DEF HwNext, HW
<1> QED
  BY <1>0, <1>2, <1>3, <1>4, StepFacts

LEMMA HwUserAdd ==
  ASSUME HwHere, NEW s \in Offered, NEW pid \in UserPid, NEW off \in Address,
         GUIAdd(s.kind, pid, off, s.size, s.handle, s.op), Running' = Running
  PROVE  HwNext
<1>0. /\ TypeOK /\ bps \in Lists /\ proc \in Processes /\ SetupOK /\ Running \in SUBSET Pid
      /\ \A p \in Running : p \in Pid /\ proc[p].base \in Bases /\ Alive(proc[p])
      /\ \A p \in Pid : Placed(proc[p])
      /\ HwList(HW) /\ HwArmed(HW, proc, Running) /\ \A b, c \in Bases : b = c
  BY HwHereFacts
<1>1. PICK cur, A, h : /\ h = HandleOf(pid)
                       /\ A = BreakpointAdd(bps, proc, s.kind, pid, h, cur, off, s.size, s.handle, s.op)
                       /\ bps' = A.bps /\ proc' = A.proc
  BY DEF GUIAdd
<1>2. /\ s.kind \in Kind /\ s.size \in Span /\ s.handle \in Handle /\ s.op \in Trap
      /\ off \in Int /\ pid \in Pid \cup {AnyPid}
  BY <1>0, OfferedFacts, AddressFacts DEF SetupOK
<1>3. AnyPid \notin Pid
  BY <1>0 DEF SetupOK
<1>4. s.kind = "HARDWARE_BP" => s.handle = "BP_KEEP"
  BY DEF GUIAdd
<1>5. HwList(A.bps["HARDWARE_BP"]) /\ HwArmed(A.bps["HARDWARE_BP"], A.proc, Running)
  BY <1>0, <1>1, <1>2, <1>3, <1>4, HwAdded DEF HW
<1>6. HwList(bps'["HARDWARE_BP"])
  BY <1>1, <1>5
<1>7. HwArmed(bps'["HARDWARE_BP"], proc', Running)
  BY <1>1, <1>5
<1> QED
  BY <1>6, <1>7 DEF HwNext, HW

LEMMA HwSame ==
  ASSUME HwHere, bps'["HARDWARE_BP"] = HW, Running' \subseteq Running,
         \A p \in Running' : proc'[p].base = proc[p].base /\ SameRegs(proc[p], proc'[p])
  PROVE  HwNext
<1>1. HwList(HW) /\ HwArmed(HW, proc, Running)
  BY DEF HwHere
<1>2. HwArmed(HW, proc, Running')
  BY <1>1 DEF HwArmed
<1>3. HwArmed(HW, proc', Running')
  BY <1>2, HwArmedSame
<1>4. HwList(bps'["HARDWARE_BP"])
  BY <1>1
<1>5. HwArmed(bps'["HARDWARE_BP"], proc', Running')
  BY <1>3
<1> QED
  BY <1>4, <1>5 DEF HwNext, HW

LEMMA HwUserRemove ==
  ASSUME HwHere, NEW k \in Kind, NEW off, NEW R, R = BreakpointRemove(bps, proc, k, off),
         bps' = R.bps, proc' = R.proc, Running' = Running
  PROVE  HwNext
<1>1. /\ bps \in Lists /\ proc \in Processes /\ Running \in SUBSET Pid
      /\ \A p \in Running : proc[p].base \in Bases
      /\ HwList(HW) /\ HwArmed(HW, proc, Running)
  BY HwHereFacts
<1>2. HwList(R.bps["HARDWARE_BP"]) /\ HwArmed(R.bps["HARDWARE_BP"], R.proc, Running)
  BY <1>1, HwRemoved DEF HW
<1>3. HwList(bps'["HARDWARE_BP"])
  BY <1>2
<1>4. HwArmed(bps'["HARDWARE_BP"], proc', Running)
  BY <1>2
<1> QED
  BY <1>3, <1>4 DEF HwNext, HW

LEMMA HwClear == ASSUME HwHere, ClearStep, Running' = Running PROVE HwNext
<1>0. TypeOK /\ bps \in Lists /\ proc \in Processes /\ "HARDWARE_BP" \in Kind
  BY HwHereFacts
<1>1. clr \in [kind : Kind, i : Nat \ {0}]
  BY <1>0 DEF ClearStep, TypeOK
<1>2. PICK k, i : clr = [kind |-> k, i |-> i] /\ k \in Kind /\ i \in Nat \ {0}
  BY <1>1
<1>3. PICK off, R : off = bps[k][i].offset /\ R = BreakpointRemove(bps, proc, k, off)
  OBVIOUS
<1>4. CASE i <= Len(bps[k])
  <2>1. bps' = R.bps /\ proc' = R.proc
    BY <1>2, <1>3, <1>4 DEF ClearStep
  <2> QED
    BY <1>2, <1>3, <2>1, HwUserRemove
<1>5. CASE ~(i <= Len(bps[k]))
  <2>1. proc' = proc /\ (bps' = bps \/ bps' = [kk \in Kind |-> <<>>])
    BY <1>2, <1>5 DEF ClearStep
  <2>2. CASE bps' = bps
    BY <2>1, <2>2, HwSame DEF HW, SameRegs
  <2>3. CASE bps' = [kk \in Kind |-> <<>>]
    <3>1. bps'["HARDWARE_BP"] = <<>>
      BY <1>0, <2>3
    <3>2. HwList(<<>>) /\ HwArmed(<<>>, proc', Running')
      BY DEF HwList, HwArmed
    <3> QED
      BY <3>1, <3>2 DEF HwNext, HW
  <2> QED
    BY <2>1, <2>2, <2>3
<1> QED
  BY <1>4, <1>5

(* The user sets none, so there is none.                                   *)
LEMMA NoHardware ==
  ASSUME TypeOK, World, [Next]_vars, ~ProjectFiles, "HARDWARE_BP" \notin UserKind, HW = <<>>
  PROVE  HW' = <<>>
<1>0. /\ bps \in Lists /\ proc \in Processes /\ SetupOK /\ pids \subseteq Pid
      /\ "HARDWARE_BP" \in Kind /\ "SOFTWARE_BP" \in Kind
  BY BaseFacts
<1>1. ASSUME UNCHANGED bps PROVE HW' = <<>>
  BY <1>1 DEF HW
<1>2. CASE UNCHANGED vars
  BY <1>1, <1>2 DEF vars
<1>3. CASE StartSession \/ CleanWorkSpaceDone \/ StopLoop \/ Detach \/ StartClear
  BY <1>1, <1>3 DEF StartSession, CleanWorkSpaceDone, StopLoop, Detach, StartClear
<1>4. CASE CleanupStep
  BY <1>0, <1>4 DEF CleanupStep, HW, Lists
<1>5. ASSUME NEW p \in Pid, NEW b \in Bases, CreateProcess(p, b) PROVE HW' = <<>>
  <2>1. PICK F, R, A : Created(p, b, F, R, A)
    BY <1>5, CreateFacts
  <2>2. /\ F \in Processes /\ R = BreakpointInit(bps, F, p)
        /\ R.bps \in Lists /\ R.proc \in Processes /\ b + EntryRva \in Int
        /\ A = BreakpointAdd(R.bps, R.proc, "SOFTWARE_BP", p, p, p, b + EntryRva, 1,
                             "BP_DONOTKEEP", "int3")
        /\ bps' = A.bps
    BY <2>1 DEF Created
  <2>3. R.bps["HARDWARE_BP"] = bps["HARDWARE_BP"]
    BY <1>0, <2>2, InitFacts
  <2>4. p \in Pid \cup {AnyPid} /\ 1 \in Span /\ "BP_DONOTKEEP" \in Handle /\ "int3" \in Trap
    BY DEF Span, Handle, OneShot, Trap
  <2>5. PICK off : off = b + EntryRva
    OBVIOUS
  <2>6. \/ Same(R.bps, R.proc, A)
        \/ \E e : AddedSoftware(R.bps, R.proc, p, p, off, 1, "BP_DONOTKEEP", "int3", e, A)
    BY <2>2, <2>4, <2>5, AddSoftware
  <2>7. A.bps["HARDWARE_BP"] = R.bps["HARDWARE_BP"]
    BY <1>0, <2>2, <2>6 DEF Same, AddedSoftware, Lists
  <2> QED
    BY <2>2, <2>3, <2>7 DEF HW
<1>6. ASSUME NEW p \in Pid, ExitProcess(p) PROVE HW' = <<>>
  BY <1>1, <1>6 DEF ExitProcess
<1>7. ASSUME NEW p \in Pid, SingleStep(p) PROVE HW' = <<>>
  <2>1. CASE bps' = bps
    BY <1>1, <2>1
  <2>2. ASSUME NEW i, NEW h, NEW e, NEW L, SoftwareStep(p, i, h, e, L) PROVE HW' = <<>>
    BY <1>0, <2>2 DEF SoftwareStep, HW, Lists
  <2>3. ASSUME NEW i, NEW e, NEW L, HardwareStep(p, i, e, L) PROVE HW' = <<>>
    BY <2>3 DEF HardwareStep
  <2> QED
    BY <1>7, <2>1, <2>2, <2>3, StepFacts
<1>8. ASSUME NEW p \in Pid, NEW a, SoftwareHit(p, a) PROVE HW' = <<>>
  <2>1. PICK isEP, C, R : isEP \in BOOLEAN /\ Hit(p, a, isEP, C, R)
    BY <1>8, HitFacts
  <2>2. R.bps \in Lists /\ R.proc \in Processes
    BY <2>1 DEF Hit, Ready
  <2>3. R.bps["HARDWARE_BP"] = <<>>
    <3>1. CASE isEP
      <4>1. C = UpdateOffsets(bps) /\ R = BreakpointInit(C, proc, p)
        BY <2>1, <3>1 DEF Hit, Ready
      <4>2. C \in Lists /\ DOMAIN C["HARDWARE_BP"] = {}
        BY <1>0, <4>1, UpdateFacts DEF HW
      <4>3. C["HARDWARE_BP"] = <<>>
        BY <1>0, <4>2, ListFacts
      <4> QED
        BY <1>0, <4>1, <4>2, <4>3, InitFacts
    <3>2. CASE ~isEP
      BY <2>1, <3>2 DEF Hit, Ready, HW
    <3> QED
      BY <3>1, <3>2
  <2>4. ASSUME NEW i, Kept(p, i, R) PROVE HW' = <<>>
    BY <1>0, <2>2, <2>3, <2>4 DEF Kept, Lists, HW
  <2>5. ASSUME NEW i, NEW Q, NEW X, Dropped(p, a, i, R, Q, X) PROVE HW' = <<>>
    <3>1. Q \in Processes /\ X = BreakpointRemove(R.bps, Q, "SOFTWARE_BP", a) /\ bps' = X.bps
      BY <2>5 DEF Dropped
    <3>2. Shrinks(R.bps["HARDWARE_BP"], X.bps["HARDWARE_BP"])
      BY <1>0, <2>2, <3>1, RemoveList
    <3> QED
      BY <2>3, <3>1, <3>2 DEF Shrinks, HW
  <2>6. CASE bps' = R.bps
    BY <2>3, <2>6 DEF HW
  <2> QED
    BY <2>1, <2>4, <2>5, <2>6 DEF Hit
<1>9. ASSUME NEW p \in Pid, NEW s \in Slot, HardwareHit(p, s) PROVE HW' = <<>>
  <2>1. \E i : i \in DOMAIN HW
    BY <1>9, HardwareHitFacts
  <2> QED
    BY <2>1
<1>10. ASSUME NEW s \in Offered, NEW pid \in UserPid, NEW off \in Address,
              GUIAdd(s.kind, pid, off, s.size, s.handle, s.op)
       PROVE  HW' = <<>>
  <2>1. PICK cur, A, h : /\ h = HandleOf(pid)
                         /\ A = BreakpointAdd(bps, proc, s.kind, pid, h, cur, off, s.size, s.handle, s.op)
                         /\ bps' = A.bps
    BY <1>10 DEF GUIAdd
  <2>2. /\ s.kind \in Kind /\ s.kind # "HARDWARE_BP" /\ s.size \in Span /\ s.handle \in Handle
        /\ s.op \in Trap /\ off \in Int /\ pid \in Pid \cup {AnyPid}
    BY <1>0, OfferedFacts, AddressFacts DEF SetupOK
  <2>3. CASE s.kind = "SOFTWARE_BP"
    <3>1. \/ Same(bps, proc, A)
          \/ \E e : AddedSoftware(bps, proc, pid, h, off, s.size, s.handle, s.op, e, A)
      BY <1>0, <2>1, <2>2, <2>3, AddSoftware
    <3> QED
      BY <1>0, <2>1, <3>1 DEF Same, AddedSoftware, Lists, HW
  <2>4. CASE s.kind = "MEMORY_BP"
    <3>1. Same(bps, proc, A) \/ \E e : AddedMemory(bps, proc, off, e, A)
      BY <1>0, <2>1, <2>2, <2>4, AddMemory
    <3> QED
      BY <1>0, <2>1, <3>1 DEF Same, AddedMemory, Lists, HW
  <2> QED
    BY <2>2, <2>3, <2>4 DEF Kind
<1>11. ASSUME NEW k \in UserKind, NEW off, GUIRemove(k, off) PROVE HW' = <<>>
  <2>1. k \in Kind
    BY <1>0 DEF SetupOK
  <2>2. Shrinks(HW, HW')
    BY <1>0, <1>11, <2>1, RemoveList DEF GUIRemove, HW
  <2> QED
    BY <2>2 DEF Shrinks
<1>12. CASE ClearStep
  BY <1>0, <1>12, ClearList DEF Shrinks, HW
<1>13. ASSUME NEW s, NEW r, InsertFromProjectFile(s.kind, r, s.size, s.op) PROVE HW' = <<>>
  BY <1>13 DEF InsertFromProjectFile
<1>14. ASSUME NEW p, Hide(p) PROVE HW' = <<>>
  BY <1>1, <1>14 DEF Hide
<1>15. CASE Show
  BY <1>0, <1>15, ShowLists DEF HW, Lists
<1> QED
  BY <1>2, <1>3, <1>4, <1>5, <1>6, <1>7, <1>8, <1>9, <1>10, <1>11, <1>12, <1>13, <1>14, <1>15
  DEF Next, Debugger, GUI, Disassembler

LEMMA HwEvent == ASSUME HwHere, [Next]_vars PROVE HwNext
<1>0. /\ TypeOK /\ World /\ bps \in Lists /\ proc \in Processes /\ SetupOK
      /\ "HARDWARE_BP" \in Kind /\ SamePlaces(proc, proc) /\ setup' = setup /\ ~ProjectFiles
  BY HwHereFacts, SamePlacesFacts, SetupStays DEF HwHere, HasHardware
<1>1. ASSUME bps'["HARDWARE_BP"] = HW, proc' = proc, pids' = pids PROVE HwNext
  BY <1>1, HwSame DEF Running, SameRegs
<1>2. CASE UNCHANGED vars
  BY <1>1, <1>2 DEF vars, HW
<1>3. CASE StartSession \/ StopLoop \/ Detach \/ StartClear
  BY <1>1, <1>3 DEF StartSession, StopLoop, Detach, StartClear, HW
<1>4. CASE CleanupStep
  <2>1. bps'["HARDWARE_BP"] = HW
    BY <1>0, <1>4 DEF CleanupStep, HW, Lists
  <2> QED
    BY <1>1, <1>4, <2>1 DEF CleanupStep
<1>5. CASE CleanWorkSpaceDone
  <2>1. Running' = {} /\ bps'["HARDWARE_BP"] = HW
    BY <1>5 DEF CleanWorkSpaceDone, Running, HW
  <2> QED
    BY <2>1, HwSame
<1>6. ASSUME NEW p \in Pid, NEW b \in Bases, CreateProcess(p, b) PROVE HwNext
  BY <1>6, HwCreate
<1>7. ASSUME NEW p \in Pid, ExitProcess(p) PROVE HwNext
  <2>1. /\ proc' = [proc EXCEPT ![p] = DeadProcess] /\ pids' = pids /\ pids \subseteq Pid
        /\ bps'["HARDWARE_BP"] = HW
    BY <1>0, <1>7, BaseFacts DEF ExitProcess, HW
  <2>2. ~Alive(proc'[p]) /\ \A q \in Pid : q # p => proc'[q] = proc[q]
    BY <1>0, <2>1, DeadFacts DEF Processes
  <2>3. Running' \subseteq Running \ {p}
    BY <2>1, <2>2 DEF Running
  <2> QED
    BY <2>1, <2>2, <2>3, HwSame DEF Running, SameRegs
<1>8. ASSUME NEW p \in Pid, SingleStep(p) PROVE HwNext
  <2>1. p \in Running /\ UNCHANGED <<setup, pids, main>>
    BY <1>8 DEF SingleStep, KeepSession
  <2>2. Running' = Running
    BY <1>0, <1>8, <2>1, StepPlaces, SteadyFacts DEF Steady
  <2> QED
    BY <1>8, <2>1, <2>2, HwSingleStep
<1>9. ASSUME NEW p \in Pid, NEW a, SoftwareHit(p, a) PROVE HwNext
  <2>1. p \in Running /\ UNCHANGED <<setup, pids, main>>
    BY <1>9 DEF SoftwareHit, KeepSession
  <2>2. Running' = Running
    BY <1>0, <1>9, <2>1, HitPlaces, SteadyFacts DEF Steady
  <2> QED
    BY <1>9, <2>1, <2>2, HwSoftwareHit
<1>10. ASSUME NEW p \in Pid, NEW s \in Slot, HardwareHit(p, s) PROVE HwNext
  <2>1. p \in Running /\ UNCHANGED <<setup, pids, main>>
    BY <1>10 DEF HardwareHit, KeepSession
  <2>2. Running' = Running
    BY <1>0, <1>10, <2>1, HardwareHitPlaces, SteadyFacts DEF Steady
  <2> QED
    BY <1>10, <2>1, <2>2, HwHardwareHit
<1>11. ASSUME NEW s \in Offered, NEW pid \in UserPid, NEW off \in Address,
              GUIAdd(s.kind, pid, off, s.size, s.handle, s.op)
       PROVE  HwNext
  <2>1. UNCHANGED <<setup, pids, main>>
    BY <1>11 DEF GUIAdd, KeepSession
  <2>2. Running' = Running
    BY <1>0, <1>11, <2>1, UserAddPlaces, SteadyFacts DEF Steady
  <2> QED
    BY <1>11, <2>2, HwUserAdd
<1>12. ASSUME NEW k \in UserKind, NEW off, GUIRemove(k, off) PROVE HwNext
  <2>1. UNCHANGED <<setup, pids, main>> /\ k \in Kind
    BY <1>0, <1>12 DEF GUIRemove, KeepSession, SetupOK
  <2>2. PICK R : R = BreakpointRemove(bps, proc, k, off) /\ bps' = R.bps /\ proc' = R.proc
    BY <1>12 DEF GUIRemove
  <2>3. SamePlaces(proc, proc')
    BY <1>0, <2>1, <2>2, RemovePlaces
  <2>4. Running' = Running
    BY <1>0, <2>1, <2>3, SteadyFacts DEF Steady
  <2> QED
    BY <2>1, <2>2, <2>4, HwUserRemove
<1>13. CASE ClearStep
  <2>1. UNCHANGED <<setup, pids, main>>
    BY <1>13 DEF ClearStep, KeepSession
  <2>2. Running' = Running
    BY <1>0, <1>13, <2>1, ClearPlaces, SteadyFacts DEF Steady
  <2> QED
    BY <1>13, <2>2, HwClear
<1>14. ASSUME NEW s, NEW r, InsertFromProjectFile(s.kind, r, s.size, s.op) PROVE HwNext
  BY <1>0, <1>14 DEF InsertFromProjectFile
<1>15. ASSUME NEW p, NEW take, Swept(p, take), HW' = HW, UNCHANGED <<setup, pids, main>> PROVE HwNext
  <2>1. SamePlaces(proc, proc')
    BY <1>15 DEF Swept, SamePlaces
  <2>2. Running' = Running
    BY <1>0, <1>15, <2>1, SteadyFacts DEF Steady
  <2>3. \A q \in Running : proc'[q].base = proc[q].base /\ SameRegs(proc[q], proc'[q])
    BY <1>15, HwHereFacts DEF Swept, SamePlace
  <2> QED
    BY <1>15, <2>2, <2>3, HwSame DEF HW
<1>16. ASSUME NEW p \in Pid, Hide(p) PROVE HwNext
  BY <1>0, <1>15, <1>16, HideFacts DEF Hide, KeepSession, HW
<1>17. CASE Show
  <2>1. HW' = HW
    BY <1>0, <1>17, BaseFacts, ShowLists DEF HW, Lists
  <2> QED
    BY <1>0, <1>15, <1>17, <2>1, ShowFacts DEF Show, KeepSession
<1> QED
  BY <1>2, <1>3, <1>4, <1>5, <1>6, <1>7, <1>8, <1>9, <1>10, <1>11, <1>12, <1>13, <1>14, <1>16, <1>17
  DEF Next, Debugger, GUI, Disassembler

LEMMA InitHardwareInv == Init => HardwareInv
<1> SUFFICES ASSUME Init PROVE HardwareInv
  OBVIOUS
<1>1. HW = <<>>
  BY DEF Init, HW, Kind
<1>2. HwList(<<>>) /\ HwArmed(<<>>, proc, Running)
  BY DEF HwList, HwArmed
<1> QED
  BY <1>1, <1>2 DEF HardwareInv

LEMMA NextHardware ==
  ASSUME HardwareSetups PROVE TypeOK /\ World /\ HardwareInv /\ [Next]_vars => HardwareInv'
<1> SUFFICES ASSUME TypeOK, World, HardwareInv, [Next]_vars PROVE HardwareInv'
  OBVIOUS
<1>1. setup' = setup
  BY SetupStays
<1>2. HasHardware => HwHere
  BY <1>1, HardwareFacts DEF HwHere, HardwareInv, HasHardware
<1>3. HasHardware => HwList(HW') /\ HwArmed(HW', proc', Running')
  BY <1>2, HwEvent DEF HwNext
<1>4. ~ProjectFiles /\ ~HasHardware => HW' = <<>>
  BY NoHardware DEF HardwareInv, HasHardware
<1> QED
  BY <1>1, <1>3, <1>4, HardwareKept

(* There are four debug registers; a hardware breakpoint of a process is   *)
(* enabled there in a register of its own, whatever the adds, removes,     *)
(* hits, rebases and sessions: wHardwareBP, dHardwareBP and BreakpointInit *)
(* agree on its slot.                                                      *)
THEOREM HardwareStaysArmed ==
  ASSUME HardwareSetups PROVE Spec => []HardwareArmed
<1>1. Init => TypeOK /\ World /\ HardwareInv
  BY InitTyped, InitWorld, InitHardwareInv
<1>2. TypeOK /\ World /\ HardwareInv /\ [Next]_vars => (TypeOK /\ World /\ HardwareInv)'
  BY NextTyped, NextWorld, NextHardware
<1>3. TypeOK /\ World /\ HardwareInv => HardwareArmed
  BY DEF HardwareInv, HardwareArmed, HwList, HwArmed, HwSet
<1> QED
  BY <1>1, <1>2, <1>3, PTL DEF Spec

-----------------------------------------------------------------------------
(* Software breakpoints: every trap in a debuggee has its entry, and every *)
(* backup is the program's own byte.                                       *)

(* A child keeps what is removed from the first process; a second process  *)
(* meets the breakpoints of the first; breakpoints of several bytes or     *)
(* images that overlap back up each other's bytes.  All are left out, as   *)
(* are project files and detaching.                                        *)
TrapSetups ==
  /\ Size = {1}
  /\ \A s \in Setups :
       \/ "project" \in s.may
       \/ /\ s.may \cap {"childs", "detach"} = {} /\ "ud2" \notin s.opcodes
          /\ \A b, c \in s.bases, q, r \in s.rvas : b + q = c + r => b = c
          /\ \A b \in s.bases, r \in s.rvas : b + r \notin s.heap
          /\ (\E p : s.pids = {p}) \/ s.users \subseteq {AnyPid}

OnePid == \E c \in Pid : Pid = {c}

(* Where BreakpointAdd and BreakpointRebase leave a kept breakpoint.       *)
Homed(e) ==
  e.handle = "BP_KEEP" => IF e.named THEN e.base \in Bases /\ e.offset \in Image(e.base)
                                     ELSE e.base = e.offset /\ e.offset \in Heap

(* A breakpoint of one byte, backed up, that applies to all processes of S. *)
Proper(e, S) ==
  /\ e.size = 1 /\ e.org # NoBackup /\ \A k \in DOMAIN e.org : e.org[k] = "code"
  /\ Homed(e)
  /\ \A p \in S : e.pid \in {AnyPid, p}
  /\ OnePid \/ (e.handle = "BP_KEEP" => e.pid = AnyPid)

ProperList(L, S) == \A i \in DOMAIN L : Proper(L[i], S)

Covered(L, m) == \A a \in DOMAIN m : m[a] # "code" => \E i \in DOMAIN L : L[i].offset = a

TrapInv == ~ProjectFiles => ProperList(SW, pids) /\ \A p \in pids : Covered(SW, proc[p].mem)

TrapNext == ProperList(SW', pids') /\ \A p \in pids' : Covered(SW', proc'[p].mem)

TrapHere ==
  /\ TypeOK /\ World /\ OneShotInv /\ ~ProjectFiles /\ ~Detaching /\ ~DebugChilds
  /\ Size = {1} /\ "ud2" \notin Opcode /\ (OnePid \/ UserPid \subseteq {AnyPid})
  /\ \A b, c \in Bases : \A a \in Image(b) : a \in Image(c) => b = c
  /\ \A b \in Bases : \A a \in Image(b) : a \notin Heap
  /\ ProperList(SW, pids) /\ \A p \in pids : Covered(SW, proc[p].mem)

LEMMA TrapFacts ==
  ASSUME TrapSetups, TypeOK, World, OneShotInv, TrapInv, ~ProjectFiles PROVE TrapHere
<1>1. setup \in Setups /\ SetupOK
  BY BaseFacts DEF TypeOK
<1>2. /\ ~Detaching /\ ~DebugChilds /\ Size = {1} /\ "ud2" \notin Opcode
      /\ \A b, c \in Bases, q, r \in Rva : b + q = c + r => b = c
      /\ \A b \in Bases, r \in Rva : b + r \notin Heap
      /\ (\E p : Pid = {p}) \/ UserPid \subseteq {AnyPid}
  BY <1>1 DEF TrapSetups, ProjectFiles, Detaching, DebugChilds, Opcode, Bases, Rva, Heap, Pid, UserPid
<1>3. OnePid \/ UserPid \subseteq {AnyPid}
  BY <1>2 DEF OnePid
<1>4. \A b, c \in Bases : \A a \in Image(b) : a \in Image(c) => b = c
  BY <1>2 DEF Image
<1>5. \A b \in Bases : \A a \in Image(b) : a \notin Heap
  BY <1>2 DEF Image
<1> QED
  BY <1>2, <1>3, <1>4, <1>5 DEF TrapHere, TrapInv

LEMMA TrapKept == ASSUME setup' = setup, ~ProjectFiles => TrapNext PROVE TrapInv'
<1>1. (ProjectFiles' <=> ProjectFiles) /\ (OnePid' <=> OnePid)
  BY DEF ProjectFiles, OnePid, Pid
<1>2. ProperList(SW', pids') => ProperList(SW, pids)'
  BY <1>1 DEF ProperList, Proper, Homed, Image, Bases, Rva, Heap
<1> QED
  BY <1>1, <1>2 DEF TrapInv, TrapNext, Covered

(* One process, to which every pid leads; or none, and no pid does.        *)
LEMMA OnlyFacts ==
  ASSUME TypeOK, World, ~DebugChilds
  PROVE  \/ pids = {} /\ \A x : HandleOf(x) \notin Pid
         \/ \E p \in Pid : pids = {p} /\ \A x : HandleOf(x) = p
<1>1. pids \subseteq {main} /\ pids \subseteq Pid /\ main \in pids \cup {NoPid} /\ NoPid \notin Pid
  BY BaseFacts DEF World, TypeOK, SetupOK
<1>2. CASE pids = {}
  BY <1>1, <1>2 DEF HandleOf
<1>3. CASE pids # {}
  <2>1. pids = {main} /\ main \in Pid
    BY <1>1, <1>3
  <2> QED
    BY <2>1 DEF HandleOf
<1> QED
  BY <1>2, <1>3

LEMMA OneCell ==
  ASSUME NEW e \in Entry, e.size = 1 PROVE \A a \in Int : a \in Cells(e) <=> a = e.offset
BY EntryFields DEF Cells

LEMMA ProperCell ==
  ASSUME NEW e \in Entry, NEW S, Proper(e, S) PROVE e.org[0] = "code"
<1>1. e.org \in [0 .. e.size - 1 -> Byte] /\ e.size = 1
  BY OrgFacts DEF Proper
<1>2. DOMAIN e.org = {0}
  BY <1>1
<1> QED
  BY <1>2 DEF Proper

(* Taking a breakpoint out leaves code at its offset alone.                *)
LEMMA TrapOut ==
  ASSUME NEW e \in Entry, NEW S, Proper(e, S), NEW pr \in Process, NEW q, q = dSoftwareBP(e, pr)
  PROVE  /\ DOMAIN q.mem = DOMAIN pr.mem
         /\ \A a \in DOMAIN pr.mem : q.mem[a] = IF a = e.offset THEN "code" ELSE pr.mem[a]
<1>1. e.size = 1 /\ e.org # NoBackup /\ e.org[0] = "code" /\ e.offset \in Int
  BY ProperCell, EntryFields DEF Proper
<1>2. DOMAIN pr.mem \subseteq Int
  BY ProcessFields, MemoryFacts
<1>3. Cells(e) = {e.offset}
  BY <1>1, OneCell, CellFacts
<1>4. DOMAIN q.mem = DOMAIN pr.mem
  BY DisarmedFacts DEF SamePlace
<1>5. CASE Writable(e, pr)
  <2>1. \A a \in DOMAIN pr.mem : q.mem[a] = IF a \in Cells(e) THEN e.org[a - e.offset] ELSE pr.mem[a]
    BY <1>1, <1>5, DisarmedFacts
  <2>2. e.offset - e.offset = 0
    BY <1>1
  <2> QED
    BY <1>1, <1>3, <1>4, <2>1, <2>2
<1>6. CASE ~Writable(e, pr)
  <2>1. q = pr
    BY <1>6, DisarmedFacts
  <2>2. e.offset \notin DOMAIN pr.mem
    BY <1>3, <1>6 DEF Writable
  <2> QED
    BY <2>1, <2>2
<1> QED
  BY <1>5, <1>6

LEMMA TrapIn ==
  ASSUME NEW e \in Entry, e.size = 1, NEW op \in Trap, NEW pr \in Process, NEW q, q = Armed(e, op, pr)
  PROVE  /\ DOMAIN q.mem = DOMAIN pr.mem
         /\ \A a \in DOMAIN pr.mem : q.mem[a] = IF a = e.offset THEN op ELSE pr.mem[a]
<1>1. DOMAIN pr.mem \subseteq Int
  BY ProcessFields, MemoryFacts
<1>2. \A a \in DOMAIN pr.mem : a \in Cells(e) <=> a = e.offset
  BY <1>1, OneCell
<1> QED
  BY <1>2, ArmedFacts DEF SamePlace

(* What an entry of L is at, but for o, an entry of K is at.               *)
StillThere(L, K, o) ==
  \A a : (\E j \in DOMAIN L : L[j].offset = a) /\ a # o => \E j \in DOMAIN K : K[j].offset = a

LEMMA ProperGone ==
  ASSUME NEW L \in Seq(Entry), NEW S, ProperList(L, S), NEW i \in DOMAIN L, NEW K, K = RemoveAt(L, i)
  PROVE  ProperList(K, S) /\ StillThere(L, K, L[i].offset)
<1>1. /\ K \in Seq(Entry) /\ Len(K) = Len(L) - 1
      /\ \A j \in DOMAIN K : K[j] = IF j < i THEN L[j] ELSE L[j + 1]
  BY EntryGone
<1>2. PICK n \in Nat : n = Len(L) /\ DOMAIN L = 1 .. n /\ DOMAIN K = 1 .. n - 1 /\ i \in 1 .. n
  BY <1>1
<1>3. \A j \in DOMAIN K : j \in DOMAIN L /\ j + 1 \in DOMAIN L
  BY <1>2
<1>4. ProperList(K, S)
  BY <1>1, <1>3 DEF ProperList
<1>5. ASSUME NEW j \in DOMAIN L, L[j].offset # L[i].offset
      PROVE  \E k \in DOMAIN K : K[k].offset = L[j].offset
  <2>1. CASE j < i
    <3>1. j \in DOMAIN K
      BY <1>2, <2>1
    <3> QED
      BY <1>1, <2>1, <3>1
  <2>2. CASE ~(j < i)
    <3>1. j # i
      BY <1>5
    <3>2. j - 1 \in DOMAIN K /\ ~(j - 1 < i) /\ (j - 1) + 1 = j
      BY <1>2, <2>2, <3>1
    <3>3. K[j - 1] = L[j]
      BY <1>1, <3>2
    <3> QED
      BY <3>2, <3>3
  <2> QED
    BY <2>1, <2>2
<1> QED
  BY <1>4, <1>5 DEF StillThere

LEMMA ProperSet ==
  ASSUME NEW L \in Seq(Entry), NEW S, ProperList(L, S), NEW i \in DOMAIN L, NEW e \in Entry,
         Proper(e, S), e.offset = L[i].offset, NEW K, K = [L EXCEPT ![i] = e]
  PROVE  ProperList(K, S) /\ \A m : Covered(L, m) => Covered(K, m)
<1>1. /\ DOMAIN K = DOMAIN L /\ K[i] = e /\ \A j \in DOMAIN L : j # i => K[j] = L[j]
  BY EntrySet
<1>2. \A j \in DOMAIN L : K[j].offset = L[j].offset
  BY <1>1
<1> QED
  BY <1>1, <1>2 DEF ProperList, Covered

LEMMA CoveredOut ==
  ASSUME NEW L, NEW K, NEW m, NEW n, NEW o, Covered(L, m), DOMAIN n = DOMAIN m,
         \A a \in DOMAIN m : n[a] = IF a = o THEN "code" ELSE m[a], StillThere(L, K, o)
  PROVE  Covered(K, n)
BY DEF Covered, StillThere

LEMMA TrapAdded ==
  ASSUME TypeOK, NEW B \in Lists, NEW P \in Processes, NEW p \in Pid, NEW S, S \subseteq {p},
         ProperList(B["SOFTWARE_BP"], S), Covered(B["SOFTWARE_BP"], P[p].mem), Placed(P[p]),
         NEW pid \in {AnyPid, p}, NEW off, NEW hd, NEW op \in Trap, op # "ud2",
         OnePid \/ pid = AnyPid \/ hd # "BP_KEEP",
         NEW e, NEW R, AddedSoftware(B, P, pid, p, off, 1, hd, op, e, R)
  PROVE  ProperList(R.bps["SOFTWARE_BP"], S) /\ Covered(R.bps["SOFTWARE_BP"], R.proc[p].mem)
<1>1. PICK L, K, pr, q : /\ L = B["SOFTWARE_BP"] /\ K = Append(L, e)
                         /\ pr = P[p] /\ q = Armed(e, op, pr)
  OBVIOUS
<1>2. /\ e \in Entry /\ e.size = 1 /\ e.offset = off /\ e.pid = pid /\ e.handle = hd
      /\ Writable(e, pr) /\ ~Exists(B, off) /\ IsNew(e, pid, off, 1, hd, op, pr)
      /\ e.org = [k \in 0 .. e.size - 1 |-> pr.mem[off + k]] /\ e.org # NoBackup
      /\ R.bps = [B EXCEPT !["SOFTWARE_BP"] = K] /\ R.proc = [P EXCEPT ![p] = q]
  BY <1>1 DEF AddedSoftware, IsNew
<1>3. /\ "SOFTWARE_BP" \in Kind /\ L \in Seq(Entry) /\ pr \in Process /\ off \in Int
      /\ R.bps["SOFTWARE_BP"] = K /\ R.proc[p] = q
  BY <1>1, <1>2, BaseFacts, ListFacts, EntryFields DEF Lists, Processes
<1>4. off \in DOMAIN pr.mem /\ Alive(pr)
  BY <1>2, CellFacts DEF Writable, Alive
<1>5. pr.mem[off] = "code"
  BY <1>1, <1>2, <1>3, <1>4 DEF Covered, Exists
<1>6. e.org[0] = "code" /\ DOMAIN e.org = {0}
  <2>1. 0 .. e.size - 1 = {0}
    BY <1>2
  <2>2. off + 0 = off
    BY <1>3
  <2> QED
    BY <1>2, <1>5, <2>1, <2>2
<1>7. Homed(e)
  <2>1. SUFFICES ASSUME hd = "BP_KEEP"
                 PROVE  IF e.named THEN e.base \in Bases /\ e.offset \in Image(e.base)
                                   ELSE e.base = e.offset /\ e.offset \in Heap
    BY <1>2 DEF Homed
  <2>2. PICK c : c = CalcOffsetForModule(FALSE, off, pr)
    OBVIOUS
  <2>3. IF Alive(pr) /\ off \in Image(pr.base) THEN c.base = pr.base /\ c.named
                                               ELSE c.base = off /\ ~c.named
    BY <1>3, <2>2, CalcNew
  <2>4. c.base = e.base /\ c.named = e.named
    <3>1. c = [base |-> e.base, named |-> e.named]
      BY <1>2, <2>1, <2>2 DEF IsNew
    <3> QED
      BY <3>1
  <2>5. off \in Image(pr.base) \cup Heap /\ pr.base \in Bases
    BY <1>1, <1>4 DEF Placed
  <2> QED
    BY <1>2, <1>4, <2>3, <2>4, <2>5
<1>8. Proper(e, S)
  BY <1>2, <1>6, <1>7 DEF Proper
<1>9. /\ DOMAIN K = DOMAIN L \cup {Len(L) + 1} /\ K[Len(L) + 1] = e
      /\ \A j \in DOMAIN L : K[j] = L[j]
  BY <1>1, <1>2, <1>3, EntryAdded
<1>10. ProperList(K, S)
  BY <1>1, <1>8, <1>9 DEF ProperList
<1>11. /\ DOMAIN q.mem = DOMAIN pr.mem
       /\ \A a \in DOMAIN pr.mem : q.mem[a] = IF a = off THEN op ELSE pr.mem[a]
  BY <1>1, <1>2, <1>3, TrapIn
<1>12. Covered(K, q.mem)
  <2> SUFFICES ASSUME NEW a \in DOMAIN pr.mem, q.mem[a] # "code"
               PROVE  \E i \in DOMAIN K : K[i].offset = a
    BY <1>11 DEF Covered
  <2>1. CASE a = off
    BY <1>2, <1>9, <2>1
  <2>2. CASE a # off
    <3>1. PICK i \in DOMAIN L : L[i].offset = a
      BY <1>1, <1>11, <2>2 DEF Covered
    <3> QED
      BY <1>9, <3>1
  <2> QED
    BY <2>1, <2>2
<1> QED
  BY <1>3, <1>10, <1>12

LEMMA TrapRemoved ==
  ASSUME NEW B \in Lists, NEW P \in Processes, NEW S \in SUBSET Pid,
         \/ S = {} /\ \A x : HandleOf(x) \notin Pid
         \/ \E p \in Pid : S = {p} /\ \A x : HandleOf(x) = p,
         ProperList(B["SOFTWARE_BP"], S), \A p \in S : Covered(B["SOFTWARE_BP"], P[p].mem),
         NEW k \in Kind, NEW off, NEW R, R = BreakpointRemove(B, P, k, off)
  PROVE  /\ ProperList(R.bps["SOFTWARE_BP"], S)
         /\ \A p \in S : Covered(R.bps["SOFTWARE_BP"], R.proc[p].mem)
<1>0. "SOFTWARE_BP" \in Kind /\ B["SOFTWARE_BP"] \in Seq(Entry) /\ \A q \in Pid : P[q] \in Process
  BY ListFacts DEF Kind, Processes
<1>1. CASE Same(B, P, R)
  BY <1>1 DEF Same
<1>2. ASSUME NEW i, NEW h, Removed(B, P, k, off, i, h, R)
      PROVE  /\ ProperList(R.bps["SOFTWARE_BP"], S)
             /\ \A p \in S : Covered(R.bps["SOFTWARE_BP"], R.proc[p].mem)
  <2>1. CASE k = "SOFTWARE_BP"
    <3>1. PICK L, K : L = B["SOFTWARE_BP"] /\ K = RemoveAt(L, i)
      OBVIOUS
    <3>2. /\ i \in DOMAIN L /\ h = HandleOf(L[i].pid) /\ R.bps["SOFTWARE_BP"] = K
          /\ R.proc = IF h \in Pid THEN [P EXCEPT ![h] = dSoftwareBP(L[i], P[h])] ELSE P
      BY <1>0, <1>2, <2>1, <3>1 DEF Removed, Lists
    <3>3. L \in Seq(Entry) /\ L[i] \in Entry /\ Proper(L[i], S) /\ ProperList(L, S)
      BY <1>0, <3>1, <3>2, ElementFacts DEF ProperList
    <3>4. ProperList(K, S) /\ StillThere(L, K, L[i].offset)
      BY <3>1, <3>2, <3>3, ProperGone
    <3>5. ASSUME NEW p \in S PROVE Covered(K, R.proc[p].mem)
      <4>1. h = p /\ p \in Pid
        BY <3>2
      <4>2. PICK pr, q : pr = P[p] /\ q = dSoftwareBP(L[i], pr)
        OBVIOUS
      <4>3. R.proc[p] = q /\ pr \in Process /\ Covered(L, pr.mem)
        BY <1>0, <3>1, <3>2, <4>1, <4>2 DEF Processes
      <4>4. /\ DOMAIN q.mem = DOMAIN pr.mem
            /\ \A a \in DOMAIN pr.mem : q.mem[a] = IF a = L[i].offset THEN "code" ELSE pr.mem[a]
        BY <3>3, <4>2, <4>3, TrapOut
      <4>5. Covered(K, q.mem)
        BY <3>4, <4>3, <4>4, CoveredOut
      <4> QED
        BY <4>3, <4>5
    <3> QED
      BY <3>2, <3>4, <3>5
  <2>2. CASE k = "HARDWARE_BP"
    <3>1. PICK t, e : t = B[k][i].pid /\ e = B[k][i]
      OBVIOUS
    <3>2. /\ R.bps["SOFTWARE_BP"] = B["SOFTWARE_BP"] /\ e \in Entry
          /\ R.proc = IF t \in Pid THEN [P EXCEPT ![t] = dHardwareBP(e, P[t])] ELSE P
      BY <1>0, <1>2, <2>2, <3>1, ListFacts DEF Removed, Lists
    <3>3. t \in Pid => dHardwareBP(e, P[t]).mem = P[t].mem
      BY <1>0, <3>2, HardwareGoneFacts
    <3>4. \A p \in S : R.proc[p].mem = P[p].mem
      BY <3>2, <3>3 DEF Processes
    <3> QED
      BY <3>2, <3>4
  <2>3. CASE k = "MEMORY_BP"
    BY <1>0, <1>2, <2>3 DEF Removed, Lists
  <2> QED
    BY <2>1, <2>2, <2>3 DEF Kind
<1> QED
  BY <1>1, <1>2, RemoveFacts

LEMMA TrapRebased ==
  ASSUME TrapHere, NEW p \in Running, NEW C, C = UpdateOffsets(bps)
  PROVE  /\ ProperList(C["SOFTWARE_BP"], {p}) /\ Covered(C["SOFTWARE_BP"], proc[p].mem)
         /\ DOMAIN C["SOFTWARE_BP"] = DOMAIN SW
         /\ \A i \in DOMAIN SW :
              /\ SameBut(SW[i], C["SOFTWARE_BP"][i])
              /\ SW[i].offset \in DOMAIN proc[p].mem => C["SOFTWARE_BP"][i].offset = SW[i].offset
<1>1. PICK L, K, pr : L = SW /\ K = C["SOFTWARE_BP"] /\ pr = proc[p]
  OBVIOUS
<1>2. /\ TypeOK /\ World /\ SetupOK /\ L \in Seq(Entry) /\ p \in Pid /\ pr \in Process /\ Alive(pr)
      /\ pr.base \in Bases /\ DOMAIN pr.mem = Image(pr.base) \cup Heap /\ p \in pids
      /\ pids \subseteq {main}
  BY <1>1, BaseFacts DEF TrapHere, Running, World, Placed
<1>3. pids = {p} /\ \A x : Accessed(HandleOf(x)) = pr
  BY <1>1, <1>2, AloneFacts
<1>4. /\ DOMAIN K = DOMAIN L /\ \A i \in DOMAIN L : K[i] = Rebased(L[i], pr)
  BY <1>1, <1>2, <1>3, BaseFacts, UpdateFacts DEF SW
<1>5. ASSUME NEW i \in DOMAIN L
      PROVE  /\ Proper(K[i], {p}) /\ SameBut(L[i], K[i])
             /\ L[i].offset \in DOMAIN pr.mem => K[i].offset = L[i].offset
  <2>1. PICK e, r : e = L[i] /\ r = K[i]
    OBVIOUS
  <2>2. e \in Entry /\ r = Rebased(e, pr) /\ Proper(e, {p})
    BY <1>1, <1>2, <1>3, <1>4, <2>1, ElementFacts DEF TrapHere, ProperList
  <2>3. /\ SameBut(e, r) /\ r.org = e.org
        /\ e.handle # "BP_KEEP" => r = e
        /\ e.handle = "BP_KEEP" =>
             /\ r.offset = (e.offset - e.base) + r.base
             /\ IF Alive(pr) /\ (e.named \/ e.offset \in Image(pr.base))
                THEN r.base = pr.base /\ r.named
                ELSE r.base = e.offset /\ r.named = e.named
    BY <1>2, <2>2, RebasedFacts
  <2>4. pr.base \in Int /\ e.offset \in Int /\ e.base \in Int /\ Rva \subseteq Int
    BY <1>2, <2>2, EntryFields DEF SetupOK
  <2>5. /\ r.size = e.size /\ r.org = e.org /\ r.pid = e.pid /\ r.handle = e.handle
    BY <2>3 DEF SameBut
  <2>6. Homed(r) /\ (e.offset \in DOMAIN pr.mem => r.offset = e.offset)
    <3>1. CASE e.handle # "BP_KEEP"
      BY <2>3, <3>1 DEF Homed
    <3>2. CASE e.handle = "BP_KEEP" /\ e.named
      <4>1. e.base \in Bases /\ e.offset \in Image(e.base) /\ r.base = pr.base /\ r.named
            /\ r.offset = (e.offset - e.base) + r.base
        BY <1>2, <2>2, <2>3, <3>2 DEF Proper, Homed
      <4>2. PICK v \in Rva : e.offset = e.base + v
        BY <4>1 DEF Image
      <4>3. r.offset = pr.base + v
        BY <2>4, <4>1, <4>2
      <4>4. r.offset \in Image(r.base)
        BY <4>1, <4>3 DEF Image
      <4>5. e.offset \in DOMAIN pr.mem => e.base = pr.base
        BY <1>2, <4>1 DEF TrapHere
      <4>6. e.base = pr.base => r.offset = e.offset
        BY <4>2, <4>3
      <4> QED
        BY <1>2, <4>1, <4>4, <4>5, <4>6 DEF Homed
    <3>3. CASE e.handle = "BP_KEEP" /\ ~e.named
      <4>1. e.base = e.offset /\ e.offset \in Heap
        BY <2>2, <3>3 DEF Proper, Homed
      <4>2. e.offset \notin Image(pr.base)
        BY <1>2, <4>1 DEF TrapHere
      <4>3. r.base = e.offset /\ ~r.named /\ r.offset = (e.offset - e.base) + r.base
        BY <2>3, <3>3, <4>2
      <4>4. r.offset = e.offset
        BY <2>4, <4>1, <4>3
      <4> QED
        BY <4>1, <4>3, <4>4 DEF Homed
    <3> QED
      BY <3>1, <3>2, <3>3
  <2> QED
    BY <2>1, <2>2, <2>3, <2>5, <2>6 DEF Proper
<1>6. Covered(L, pr.mem)
  BY <1>1, <1>2 DEF TrapHere
<1>7. Covered(K, pr.mem)
  BY <1>4, <1>5, <1>6 DEF Covered
<1> QED
  BY <1>1, <1>4, <1>5, <1>7 DEF ProperList

(* BreakpointInit writes only where an entry is.                           *)
LEMMA TrapInit ==
  ASSUME NEW B \in Lists, NEW P \in Processes, NEW p \in Pid, NEW S,
         ProperList(B["SOFTWARE_BP"], S), Covered(B["SOFTWARE_BP"], P[p].mem),
         NEW R, R = BreakpointInit(B, P, p)
  PROVE  ProperList(R.bps["SOFTWARE_BP"], S) /\ Covered(R.bps["SOFTWARE_BP"], R.proc[p].mem)
<1>1. PICK L, pr, X, K, m : /\ L = B["SOFTWARE_BP"] /\ pr = P[p] /\ X = InitSoftware(L, p, pr)
                            /\ K = R.bps["SOFTWARE_BP"] /\ m = R.proc[p].mem
  OBVIOUS
<1>2. L \in Seq(Entry) /\ pr \in Process /\ K = X.list /\ m = X.mem
  BY <1>1, InitFacts, ListFacts DEF Kind, Processes
<1>3. /\ DOMAIN K = DOMAIN L
      /\ \A i \in DOMAIN L :
           /\ SameBut(L[i], K[i]) /\ K[i].offset = L[i].offset /\ K[i].base = L[i].base
           /\ K[i].named = L[i].named /\ (L[i].org # NoBackup => K[i].org = L[i].org)
      /\ DOMAIN m = DOMAIN pr.mem
      /\ \A a \in DOMAIN pr.mem :
           m[a] = IF \E i \in Arms(L, p, pr) : a \in Cells(L[i]) THEN "int3" ELSE pr.mem[a]
  BY <1>1, <1>2, InitSoftwareFacts
<1>4. ProperList(K, S)
  BY <1>1, <1>3 DEF ProperList, Proper, Homed, SameBut
<1>5. ASSUME NEW a \in DOMAIN pr.mem, m[a] # "code" PROVE \E i \in DOMAIN K : K[i].offset = a
  <2>1. CASE \E i \in Arms(L, p, pr) : a \in Cells(L[i])
    <3>1. PICK i \in DOMAIN L : a \in Cells(L[i])
      BY <2>1 DEF Arms
    <3>2. L[i] \in Entry /\ L[i].size = 1
      BY <1>1, <1>2, <3>1, ElementFacts DEF ProperList, Proper
    <3>3. a \in Int
      BY <1>2, ProcessFields, MemoryFacts
    <3>4. a = L[i].offset
      BY <3>1, <3>2, <3>3, OneCell
    <3> QED
      BY <1>3, <3>1, <3>4
  <2>2. CASE ~\E i \in Arms(L, p, pr) : a \in Cells(L[i])
    <3>1. PICK i \in DOMAIN L : L[i].offset = a
      BY <1>1, <1>3, <1>5, <2>2 DEF Covered
    <3> QED
      BY <1>3, <3>1
  <2> QED
    BY <2>1, <2>2
<1>6. Covered(K, m)
  BY <1>3, <1>5 DEF Covered
<1> QED
  BY <1>1, <1>4, <1>6

(* The steps that meet software breakpoints.                               *)
LEMMA TrapHereFacts ==
  ASSUME TrapHere
  PROVE  /\ TypeOK /\ World /\ bps \in Lists /\ proc \in Processes /\ SetupOK /\ ~DebugChilds
         /\ "SOFTWARE_BP" \in Kind /\ "HARDWARE_BP" \in Kind /\ SW \in Seq(Entry)
         /\ (\A p \in Pid : proc[p] \in Process /\ Placed(proc[p])) /\ AnyPid \notin Pid
         /\ ProperList(SW, pids) /\ \A p \in pids : Covered(SW, proc[p].mem)
         /\ \/ pids = {} /\ \A x : HandleOf(x) \notin Pid
            \/ \E p \in Pid : pids = {p} /\ \A x : HandleOf(x) = p
BY BaseFacts, OnlyFacts DEF TrapHere, World, SetupOK

LEMMA TrapRunning ==
  ASSUME TrapHere, NEW p \in Running
  PROVE  /\ p \in Pid /\ pids = {p} /\ (\A x : HandleOf(x) = p) /\ p \in pids
         /\ ProperList(SW, {p}) /\ Covered(SW, proc[p].mem) /\ proc[p] \in Process
         /\ Alive(proc[p]) /\ Placed(proc[p])
BY TrapHereFacts DEF Running

LEMMA TrapSame ==
  ASSUME TrapHere, SW' = SW, pids' \subseteq pids, \A p \in pids' : Covered(SW, proc'[p].mem)
  PROVE  TrapNext
BY DEF TrapHere, TrapNext, ProperList, Proper

LEMMA TrapCreate == ASSUME TrapHere, NEW p \in Pid, NEW b \in Bases, CreateProcess(p, b) PROVE TrapNext
<1>0. /\ TypeOK /\ SetupOK /\ bps \in Lists /\ "SOFTWARE_BP" \in Kind /\ ProperList(SW, pids)
  BY TrapHereFacts
<1>1. pids = {} /\ pids' = {p} /\ dbg = "loop"
  BY DEF CreateProcess, TrapHere
<1>2. PICK F, R, A : Created(p, b, F, R, A)
  BY <1>0, CreateFacts
<1>3. PICK off : off = b + EntryRva
  OBVIOUS
<1>4. /\ F \in Processes /\ F[p] = NewProcess(b) /\ R = BreakpointInit(bps, F, p)
      /\ R.bps \in Lists /\ R.proc \in Processes /\ off \in Int
      /\ A = BreakpointAdd(R.bps, R.proc, "SOFTWARE_BP", p, p, p, off, 1, "BP_DONOTKEEP", "int3")
      /\ bps' = A.bps /\ proc' = A.proc
  BY <1>2, <1>3 DEF Created
<1>5. ProperList(bps["SOFTWARE_BP"], {p})
  <2>1. MaxSessions \in Nat
    BY <1>0, ConstantsOK DEF TypeOK, MaxSessions
  <2>2. KeptFrom(SW, 1)
    BY <1>1, <2>1 DEF TrapHere, OneShotInv, SeveralSessions, OneSession
  <2>3. ASSUME NEW i \in DOMAIN SW PROVE Proper(SW[i], {p})
    <3>1. SW[i] \in Entry /\ SW[i].handle = "BP_KEEP" /\ Proper(SW[i], pids)
      BY <1>0, <2>2, BaseFacts DEF KeptFrom, ProperList
    <3>2. SW[i].pid \in Pid \cup {AnyPid}
      BY <3>1, EntryFields
    <3>3. SW[i].pid \in {AnyPid, p}
      BY <3>1, <3>2 DEF Proper, OnePid
    <3> QED
      BY <3>1, <3>3 DEF Proper
  <2> QED
    BY <2>3 DEF ProperList, SW
<1>6. F[p].base = b /\ DOMAIN F[p].mem = Image(b) \cup Heap /\ \A a \in DOMAIN F[p].mem : F[p].mem[a] = "code"
  BY <1>0, <1>4, NewProcessFacts
<1>7. Covered(bps["SOFTWARE_BP"], F[p].mem)
  BY <1>6 DEF Covered
<1>8. ProperList(R.bps["SOFTWARE_BP"], {p}) /\ Covered(R.bps["SOFTWARE_BP"], R.proc[p].mem)
  BY <1>0, <1>4, <1>5, <1>7, TrapInit
<1>9. Placed(R.proc[p])
  <2>1. SamePlace(F[p], R.proc[p])
    BY <1>0, <1>4, InitFacts
  <2> QED
    BY <1>6, <2>1 DEF SamePlace, Placed
<1>10. p \in Pid \cup {AnyPid} /\ 1 \in Span /\ "BP_DONOTKEEP" \in Handle /\ "int3" \in Trap
  BY DEF Span, Handle, OneShot, Trap
<1>11. \/ Same(R.bps, R.proc, A)
       \/ \E e : AddedSoftware(R.bps, R.proc, p, p, off, 1, "BP_DONOTKEEP", "int3", e, A)
  BY <1>4, <1>10, AddSoftware
<1>12. ASSUME Same(R.bps, R.proc, A)
       PROVE  ProperList(A.bps["SOFTWARE_BP"], {p}) /\ Covered(A.bps["SOFTWARE_BP"], A.proc[p].mem)
  BY <1>8, <1>12 DEF Same
<1>13. ASSUME NEW e, AddedSoftware(R.bps, R.proc, p, p, off, 1, "BP_DONOTKEEP", "int3", e, A)
       PROVE  ProperList(A.bps["SOFTWARE_BP"], {p}) /\ Covered(A.bps["SOFTWARE_BP"], A.proc[p].mem)
  BY <1>0, <1>4, <1>8, <1>9, <1>10, <1>13, TrapAdded
<1>14. ProperList(A.bps["SOFTWARE_BP"], {p}) /\ Covered(A.bps["SOFTWARE_BP"], A.proc[p].mem)
  BY <1>11, <1>12, <1>13
<1> QED
  BY <1>1, <1>4, <1>14 DEF TrapNext, SW

LEMMA TrapSoftwareHit ==
  ASSUME TrapHere, NEW p \in Running, NEW a, SoftwareHit(p, a), pids' = pids PROVE TrapNext
<1>0. /\ TypeOK /\ bps \in Lists /\ proc \in Processes /\ "SOFTWARE_BP" \in Kind
      /\ p \in Pid /\ pids = {p} /\ (\A x : HandleOf(x) = p)
      /\ ProperList(SW, {p}) /\ Covered(SW, proc[p].mem)
  BY TrapHereFacts, TrapRunning
<1>1. PICK isEP, C, R : isEP \in BOOLEAN /\ Hit(p, a, isEP, C, R)
  BY <1>0, HitFacts
<1>2. PICK L, pr : L = R.bps["SOFTWARE_BP"] /\ pr = R.proc[p]
  OBVIOUS
<1>3. R.bps \in Lists /\ R.proc \in Processes /\ pr \in Process /\ L \in Seq(Entry)
  BY <1>0, <1>1, <1>2, ListFacts DEF Hit, Ready, Processes
<1>4. ProperList(L, {p}) /\ Covered(L, pr.mem)
  <2>1. CASE isEP
    <3>1. C = UpdateOffsets(bps) /\ R = BreakpointInit(C, proc, p)
      BY <1>1, <2>1 DEF Hit, Ready
    <3>2. C \in Lists
      BY <1>0, <3>1, UpdateFacts
    <3>3. ProperList(C["SOFTWARE_BP"], {p}) /\ Covered(C["SOFTWARE_BP"], proc[p].mem)
      BY <3>1, TrapRebased
    <3> QED
      BY <1>0, <1>2, <3>1, <3>2, <3>3, TrapInit
  <2>2. CASE ~isEP
    BY <1>0, <1>1, <1>2, <2>2 DEF Hit, Ready, SW
  <2> QED
    BY <2>1, <2>2
<1>5. ASSUME NEW i \in DOMAIN L, L[i].offset = a, NEW Q,
             Q = [R.proc EXCEPT ![p] = dSoftwareBP(L[i], R.proc[p])]
      PROVE  Covered(L, Q[p].mem)
  <2>1. L[i] \in Entry /\ Proper(L[i], {p})
    BY <1>3, <1>4, ElementFacts DEF ProperList
  <2>2. PICK q : q = dSoftwareBP(L[i], pr)
    OBVIOUS
  <2>3. Q[p] = q
    BY <1>0, <1>2, <1>3, <1>5, <2>2 DEF Processes
  <2>4. /\ DOMAIN q.mem = DOMAIN pr.mem
        /\ \A c \in DOMAIN pr.mem : q.mem[c] = IF c = L[i].offset THEN "code" ELSE pr.mem[c]
    BY <1>3, <2>1, <2>2, TrapOut
  <2>5. Covered(L, q.mem)
    BY <1>4, <2>4 DEF Covered
  <2> QED
    BY <2>3, <2>5
<1>6. ASSUME NEW i \in DOMAIN L, L[i].offset = a, Kept(p, i, R) PROVE TrapNext
  <2>1. PICK e, K : e = [L[i] EXCEPT !.restore = TRUE] /\ K = [L EXCEPT ![i] = e]
    OBVIOUS
  <2>2. L[i] \in Entry /\ L[i] \in EntryOf(L[i].size) /\ e \in Entry /\ Proper(L[i], {p})
    BY <1>3, <1>4, <2>1, ElementFacts, EntryFields, EntryChanged DEF ProperList
  <2>3. /\ e.offset = L[i].offset /\ e.size = L[i].size /\ e.org = L[i].org /\ e.base = L[i].base
        /\ e.named = L[i].named /\ e.handle = L[i].handle /\ e.pid = L[i].pid
    BY <2>1, <2>2 DEF EntryOf
  <2>4. Proper(e, {p})
    BY <2>2, <2>3 DEF Proper, Homed
  <2>5. ProperList(K, {p}) /\ \A m : Covered(L, m) => Covered(K, m)
    <3>1. /\ L \in Seq(Entry) /\ ProperList(L, {p}) /\ i \in DOMAIN L /\ e \in Entry
          /\ e.offset = L[i].offset
      BY <1>3, <1>4, <1>6, <2>2, <2>3
    <3>2. K = [L EXCEPT ![i] = e]
      BY <2>1
    <3> QED
      BY <2>4, <3>1, <3>2, ProperSet
  <2>6. Covered(L, proc'[p].mem)
    BY <1>2, <1>5, <1>6 DEF Kept
  <2>7. bps'["SOFTWARE_BP"] = K
    BY <1>0, <1>2, <1>3, <1>6, <2>1 DEF Kept, Lists
  <2> QED
    BY <1>0, <2>5, <2>6, <2>7 DEF TrapNext, SW
<1>7. ASSUME NEW i \in DOMAIN L, L[i].offset = a, NEW Q, NEW X, Dropped(p, a, i, R, Q, X)
      PROVE  TrapNext
  <2>1. /\ Q \in Processes /\ X = BreakpointRemove(R.bps, Q, "SOFTWARE_BP", a)
        /\ bps' = X.bps /\ proc' = X.proc /\ Covered(L, Q[p].mem)
    BY <1>2, <1>5, <1>7 DEF Dropped
  <2>2. {p} \in SUBSET Pid /\ \E q \in Pid : {p} = {q} /\ \A x : HandleOf(x) = q
    BY <1>0
  <2>3. \A q \in {p} : Covered(R.bps["SOFTWARE_BP"], Q[q].mem)
    BY <1>2, <2>1
  <2>4. /\ ProperList(X.bps["SOFTWARE_BP"], {p})
        /\ \A q \in {p} : Covered(X.bps["SOFTWARE_BP"], X.proc[q].mem)
    BY <1>0, <1>2, <1>3, <1>4, <2>1, <2>2, <2>3, TrapRemoved
  <2> QED
    BY <1>0, <2>1, <2>4 DEF TrapNext, SW
<1>8. ASSUME bps' = R.bps, proc' = R.proc PROVE TrapNext
  BY <1>0, <1>2, <1>4, <1>8 DEF TrapNext, SW
<1> QED
  BY <1>1, <1>2, <1>6, <1>7, <1>8 DEF Hit

LEMMA TrapSingleStep ==
  ASSUME TrapHere, NEW p \in Running, SingleStep(p), pids' = pids PROVE TrapNext
<1>0. /\ TypeOK /\ bps \in Lists /\ proc \in Processes /\ "SOFTWARE_BP" \in Kind /\ "HARDWARE_BP" \in Kind
      /\ p \in Pid /\ pids = {p} /\ (\A x : HandleOf(x) = p) /\ SW \in Seq(Entry)
      /\ ProperList(SW, {p}) /\ Covered(SW, proc[p].mem) /\ proc[p] \in Process
  BY TrapHereFacts, TrapRunning
<1>1. CASE bps' = bps /\ proc' = proc
  BY <1>0, <1>1, TrapSame DEF SW
<1>2. ASSUME NEW i, NEW h, NEW e, NEW L, SoftwareStep(p, i, h, e, L) PROVE TrapNext
  <2>1. PICK f, q, w : f = SW[i] /\ q = proc'[p] /\ w = wSoftwareBP(SW[i], SW[i].data, proc[p])
    OBVIOUS
  <2>2. /\ i \in DOMAIN SW /\ f \in Entry /\ e \in Entry /\ h = p /\ f.data \in Trap
        /\ f \in EntryOf(f.size)
        /\ SameBut([f EXCEPT !.restore = FALSE], e) /\ e.offset = f.offset
        /\ e.base = f.base /\ e.named = f.named /\ e.org \in {f.org, Backup(f, Accessed(h))}
        /\ L = [SW EXCEPT ![i] = e] /\ bps' = [bps EXCEPT !["SOFTWARE_BP"] = L]
        /\ proc' = [proc EXCEPT ![p] = w] /\ Proper(f, {p})
    BY <1>0, <1>2, <2>1, ElementFacts, EntryFields DEF SoftwareStep, ProperList
  <2>3. e.pid = f.pid /\ e.handle = f.handle /\ e.size = f.size
    BY <2>2 DEF SameBut, EntryOf
  <2>4. e.org = f.org
    BY <2>2 DEF Proper, Backup
  <2>5. Proper(e, {p})
    BY <2>2, <2>3, <2>4 DEF Proper, Homed
  <2>6. ProperList(L, {p}) /\ \A m : Covered(SW, m) => Covered(L, m)
    BY <1>0, <2>1, <2>2, <2>5, ProperSet
  <2>7. q = w
    BY <1>0, <2>1, <2>2 DEF Processes
  <2>8. Covered(SW, q.mem)
    <3>1. CASE w = proc[p]
      BY <1>0, <2>7, <3>1
    <3>2. CASE w = Armed(f, f.data, proc[p])
      <4>1. f.size = 1
        BY <2>2 DEF Proper
      <4>2. /\ DOMAIN w.mem = DOMAIN proc[p].mem
            /\ \A a \in DOMAIN proc[p].mem : w.mem[a] = IF a = f.offset THEN f.data ELSE proc[p].mem[a]
        BY <1>0, <2>2, <3>2, <4>1, TrapIn
      <4> QED
        BY <1>0, <2>1, <2>2, <2>7, <4>2 DEF Covered
    <3> QED
      BY <2>1, <3>1, <3>2 DEF wSoftwareBP
  <2>9. bps'["SOFTWARE_BP"] = L
    BY <1>0, <2>2 DEF Lists
  <2>10. Covered(L, proc'[p].mem)
    BY <2>1, <2>6, <2>8
  <2> QED
    BY <1>0, <2>6, <2>9, <2>10 DEF TrapNext, SW
<1>3. ASSUME NEW i, NEW e, NEW L, HardwareStep(p, i, e, L) PROVE TrapNext
  <2>1. PICK w : w = wHardwareBP(HW[i], proc[p])
    OBVIOUS
  <2>2. /\ HW[i] \in Entry /\ bps' = [bps EXCEPT !["HARDWARE_BP"] = L] /\ proc' = [proc EXCEPT ![p] = w]
    BY <1>0, <1>3, <2>1, BaseFacts DEF HardwareStep
  <2>3. w.mem = proc[p].mem
    BY <1>0, <2>1, <2>2, HardwareSetFacts
  <2>4. SW' = SW
    BY <1>0, <2>2 DEF Lists, SW
  <2>5. proc'[p].mem = proc[p].mem
    BY <1>0, <2>2, <2>3 DEF Processes
  <2> QED
    BY <1>0, <2>4, <2>5, TrapSame
<1> QED
  BY <1>0, <1>1, <1>2, <1>3, StepFacts

LEMMA TrapOpcodes == ASSUME TrapHere PROVE Size = {1} /\ "ud2" \notin Opcode
BY DEF TrapHere

LEMMA TrapUserAdd ==
  ASSUME TrapHere, NEW s \in Offered, NEW pid \in UserPid, NEW off \in Address,
         GUIAdd(s.kind, pid, off, s.size, s.handle, s.op), pids' = pids
  PROVE  TrapNext
<1>0. /\ TypeOK /\ SetupOK /\ bps \in Lists /\ proc \in Processes /\ "SOFTWARE_BP" \in Kind
      /\ ProperList(SW, pids) /\ (\A p \in pids : Covered(SW, proc[p].mem))
      /\ (\A p \in Pid : proc[p] \in Process /\ Placed(proc[p])) /\ pids \subseteq Pid
  BY TrapHereFacts, BaseFacts
<1>1. PICK cur, A, h : /\ h = HandleOf(pid)
                       /\ A = BreakpointAdd(bps, proc, s.kind, pid, h, cur, off, s.size, s.handle, s.op)
                       /\ bps' = A.bps /\ proc' = A.proc
  BY DEF GUIAdd
<1>2. /\ s.kind \in Kind /\ s.size \in Span /\ s.handle \in Handle /\ s.op \in Trap
      /\ off \in Int /\ pid \in Pid \cup {AnyPid}
  BY <1>0, OfferedFacts, AddressFacts DEF SetupOK
<1>3. s.op # "ud2" /\ s.size = 1
  BY TrapOpcodes, OneByte
<1>4. ASSUME Same(bps, proc, A) PROVE TrapNext
  BY <1>0, <1>1, <1>4, TrapSame DEF Same, SW
<1>5. ASSUME NEW e, AddedSoftware(bps, proc, pid, h, off, s.size, s.handle, s.op, e, A)
      PROVE  TrapNext
  <2>1. h \in Pid
    BY <1>5 DEF AddedSoftware
  <2>2. OnePid \/ pid = AnyPid
    BY <1>1, <2>1, TrapHereFacts DEF TrapHere
  <2>3. pids = {h}
    BY <1>1, <2>1, TrapHereFacts
  <2>4. pid \in {AnyPid, h}
    BY <1>2, <2>1, <2>2 DEF OnePid
  <2>5. PICK hd, op : hd = s.handle /\ op = s.op
    OBVIOUS
  <2>6. AddedSoftware(bps, proc, pid, h, off, 1, hd, op, e, A)
    BY <1>3, <1>5, <2>5
  <2>7. OnePid \/ pid = AnyPid \/ hd # "BP_KEEP"
    BY <2>2
  <2>8. /\ ProperList(bps["SOFTWARE_BP"], {h}) /\ Covered(bps["SOFTWARE_BP"], proc[h].mem)
        /\ Placed(proc[h])
    BY <1>0, <2>1, <2>3 DEF SW
  <2>9. op \in Trap /\ op # "ud2"
    BY <1>2, <1>3, <2>5
  <2>10. ProperList(A.bps["SOFTWARE_BP"], {h}) /\ Covered(A.bps["SOFTWARE_BP"], A.proc[h].mem)
    BY <1>0, <2>1, <2>4, <2>6, <2>7, <2>8, <2>9, TrapAdded
  <2> QED
    BY <1>1, <2>3, <2>10 DEF TrapNext, SW
<1>6. ASSUME NEW e, AddedMemory(bps, proc, off, e, A) PROVE TrapNext
  <2>1. SW' = SW /\ proc' = proc
    BY <1>0, <1>1, <1>6 DEF AddedMemory, Lists, SW
  <2> QED
    BY <1>0, <2>1, TrapSame
<1>7. ASSUME NEW e, NEW t, AddedHardware(bps, proc, pid, h, cur, off, s.size, s.handle, s.op, e, t, A)
      PROVE  TrapNext
  <2>1. PICK w : w = wHardwareBP(e, proc[t])
    OBVIOUS
  <2>2. /\ e \in Entry /\ SW' = SW /\ proc' = IF t \in Pid THEN [proc EXCEPT ![t] = w] ELSE proc
    BY <1>0, <1>1, <1>7, <2>1 DEF AddedHardware, Lists, SW
  <2>3. t \in Pid => w.mem = proc[t].mem
    BY <1>0, <2>1, <2>2, HardwareSetFacts
  <2>4. \A p \in pids : proc'[p].mem = proc[p].mem
    BY <1>0, <2>2, <2>3 DEF Processes
  <2> QED
    BY <1>0, <2>2, <2>4, TrapSame
<1>8. CASE s.kind = "SOFTWARE_BP"
  <2>1. \/ Same(bps, proc, A)
        \/ \E e : AddedSoftware(bps, proc, pid, h, off, s.size, s.handle, s.op, e, A)
    BY <1>0, <1>1, <1>2, <1>8, AddSoftware
  <2> QED
    BY <1>4, <1>5, <2>1
<1>9. CASE s.kind = "MEMORY_BP"
  <2>1. Same(bps, proc, A) \/ \E e : AddedMemory(bps, proc, off, e, A)
    BY <1>0, <1>1, <1>2, <1>9, AddMemory
  <2> QED
    BY <1>4, <1>6, <2>1
<1>10. CASE s.kind = "HARDWARE_BP"
  <2>1. \/ Same(bps, proc, A)
        \/ \E e, t : AddedHardware(bps, proc, pid, h, cur, off, s.size, s.handle, s.op, e, t, A)
    BY <1>0, <1>1, <1>2, <1>10, AddHardware
  <2> QED
    BY <1>4, <1>7, <2>1
<1> QED
  BY <1>2, <1>8, <1>9, <1>10 DEF Kind

LEMMA TrapSwept ==
  ASSUME TrapHere, NEW p, NEW take \in BOOLEAN, Swept(p, take), SW' = SW, pids' = pids
  PROVE  TrapNext
<1>0. pids \subseteq Pid /\ ProperList(SW, pids) /\ \A i \in DOMAIN SW : SW[i] \in Entry
  BY BaseFacts DEF TrapHere
<1>1. ASSUME NEW h \in pids PROVE Covered(SW, proc'[h].mem)
  <2>1. PICK m, n : m = proc[h].mem /\ n = proc'[h].mem
    OBVIOUS
  <2>2. Touched(p, h, take, m, n) /\ Covered(SW, m) /\ n \in Memories
    BY <1>0, <2>1 DEF Swept, TrapHere, Touched
  <2>3. ASSUME NEW a \in DOMAIN m, n[a] # "code" PROVE \E i \in DOMAIN SW : SW[i].offset = a
    <3>1. CASE n[a] = m[a]
      BY <2>2, <2>3, <3>1 DEF Covered
    <3>2. CASE \E i \in Visited(p) : a \in Cells(SW[i])
      <4>1. PICK i \in DOMAIN SW : a \in Cells(SW[i])
        BY <3>2, VisitedFacts
      <4>2. a \in Int /\ SW[i] \in Entry /\ SW[i].size = 1
        BY <1>0, <2>2, MemoryFacts DEF Touched, ProperList, Proper
      <4> QED
        BY <4>1, <4>2, OneCell
    <3> QED
      BY <2>2, <3>1, <3>2 DEF Touched
  <2>4. Covered(SW, n)
    BY <2>2, <2>3 DEF Covered, Touched
  <2> QED
    BY <2>1, <2>4
<1> QED
  BY <1>1, TrapSame

LEMMA TrapEvent == ASSUME TrapHere, [Next]_vars PROVE TrapNext
<1>0. /\ TypeOK /\ World /\ bps \in Lists /\ proc \in Processes /\ SetupOK /\ pids \subseteq Pid
      /\ "SOFTWARE_BP" \in Kind /\ SW \in Seq(Entry) /\ ~ProjectFiles /\ ~Detaching
      /\ ProperList(SW, pids) /\ \A p \in pids : Covered(SW, proc[p].mem)
  BY TrapHereFacts, BaseFacts DEF TrapHere
<1>1. ASSUME SW' = SW, proc' = proc, pids' = pids PROVE TrapNext
  BY <1>0, <1>1, TrapSame
<1>2. CASE UNCHANGED vars
  BY <1>1, <1>2 DEF vars, SW
<1>3. CASE StartSession \/ StopLoop \/ Detach \/ StartClear
  BY <1>1, <1>3 DEF StartSession, StopLoop, Detach, StartClear, SW
<1>4. CASE CleanupStep
  <2>1. pids' = pids /\ proc' = proc /\ Running = {} /\ it \in DOMAIN SW
    <3>1. pids' = pids /\ proc' = proc /\ dbg \in {"enter", "leave"} /\ it <= Len(SW)
      BY <1>4 DEF CleanupStep, SW
    <3>2. it \in Nat \ {0}
      BY <1>0 DEF TypeOK
    <3>3. Running = {}
      BY <1>0, <3>1 DEF World, Running
    <3> QED
      BY <1>0, <3>1, <3>2, <3>3
  <2>2. ASSUME NEW p \in pids PROVE DOMAIN proc[p].mem = {}
    BY <2>1 DEF Running, Alive
  <2>3. SW' = SW \/ SW' = RemoveAt(SW, it)
    BY <1>0, <1>4 DEF CleanupStep, SW, Lists
  <2>4. PICK K : K = RemoveAt(SW, it)
    OBVIOUS
  <2>5. ProperList(K, pids)
    BY <1>0, <2>1, <2>4, ProperGone
  <2>6. ProperList(SW', pids)
    BY <1>0, <2>3, <2>4, <2>5
  <2>7. \A p \in pids : Covered(SW', proc'[p].mem)
    BY <2>1, <2>2 DEF Covered
  <2> QED
    BY <2>1, <2>6, <2>7 DEF TrapNext
<1>5. CASE CleanWorkSpaceDone
  <2>1. SW' = SW /\ pids' = {}
    BY <1>5 DEF CleanWorkSpaceDone, SW
  <2> QED
    BY <2>1, TrapSame
<1>6. ASSUME NEW p \in Pid, NEW b \in Bases, CreateProcess(p, b) PROVE TrapNext
  BY <1>6, TrapCreate
<1>7. ASSUME NEW p \in Pid, ExitProcess(p) PROVE TrapNext
  <2>1. proc' = [proc EXCEPT ![p] = DeadProcess] /\ pids' = pids /\ SW' = SW
    BY <1>7 DEF ExitProcess, SW
  <2>2. proc'[p] = DeadProcess /\ \A q \in Pid : q # p => proc'[q] = proc[q]
    BY <1>0, <2>1 DEF Processes
  <2>3. DOMAIN DeadProcess.mem = {}
    BY DEF DeadProcess
  <2>4. \A q \in pids : Covered(SW, proc'[q].mem)
    BY <1>0, <2>2, <2>3 DEF Covered
  <2> QED
    BY <2>1, <2>4, TrapSame
<1>8. ASSUME NEW p \in Pid, SingleStep(p) PROVE TrapNext
  <2>1. p \in Running /\ pids' = pids
    BY <1>8 DEF SingleStep, KeepSession
  <2> QED
    BY <1>8, <2>1, TrapSingleStep
<1>9. ASSUME NEW p \in Pid, NEW a, SoftwareHit(p, a) PROVE TrapNext
  <2>1. p \in Running /\ pids' = pids
    BY <1>9 DEF SoftwareHit, KeepSession
  <2> QED
    BY <1>9, <2>1, TrapSoftwareHit
<1>10. ASSUME NEW p \in Pid, NEW s \in Slot, HardwareHit(p, s) PROVE TrapNext
  <2>1. PICK i, e, L :
           /\ i \in DOMAIN HW /\ e \in Entry
           /\ e = [HW[i] EXCEPT !.restore = TRUE] /\ L = [HW EXCEPT ![i] = e]
           /\ bps' = [bps EXCEPT !["HARDWARE_BP"] = L]
           /\ proc' = [proc EXCEPT ![p] = dHardwareBP(HW[i], proc[p])]
    <3>1. TypeOK /\ p \in Pid
      BY <1>0, <1>10
    <3> QED
      BY <1>10, <3>1, HardwareHitFacts
  <2>2. PICK w : w = dHardwareBP(HW[i], proc[p])
    OBVIOUS
  <2>3. HW[i] \in Entry /\ proc[p] \in Process
    BY <1>0, <2>1, BaseFacts
  <2>4. w.mem = proc[p].mem
    BY <2>2, <2>3, HardwareGoneFacts
  <2>5. \A q \in pids : proc'[q].mem = proc[q].mem
    BY <1>0, <2>1, <2>2, <2>4 DEF Processes
  <2>6. SW' = SW /\ pids' = pids
    BY <1>0, <1>10, <2>1 DEF Lists, SW, HardwareHit, KeepSession
  <2> QED
    BY <1>0, <2>5, <2>6, TrapSame
<1>11. ASSUME NEW s \in Offered, NEW pid \in UserPid, NEW off \in Address,
              GUIAdd(s.kind, pid, off, s.size, s.handle, s.op)
       PROVE  TrapNext
  <2>1. pids' = pids
    BY <1>11 DEF GUIAdd, KeepSession
  <2> QED
    BY <1>11, <2>1, TrapUserAdd
<1>12. ASSUME NEW k \in UserKind, NEW off, GUIRemove(k, off) PROVE TrapNext
  <2>1. pids' = pids /\ k \in Kind
    BY <1>0, <1>12 DEF GUIRemove, KeepSession, SetupOK
  <2>2. PICK R : R = BreakpointRemove(bps, proc, k, off) /\ bps' = R.bps /\ proc' = R.proc
    BY <1>12 DEF GUIRemove
  <2>3. ProperList(bps["SOFTWARE_BP"], pids) /\ \A p \in pids : Covered(bps["SOFTWARE_BP"], proc[p].mem)
    BY <1>0 DEF SW
  <2>4. pids \in SUBSET Pid
    BY <1>0
  <2>5. /\ ProperList(R.bps["SOFTWARE_BP"], pids)
        /\ \A p \in pids : Covered(R.bps["SOFTWARE_BP"], R.proc[p].mem)
    <3>1. \/ pids = {} /\ \A x : HandleOf(x) \notin Pid
          \/ \E p \in Pid : pids = {p} /\ \A x : HandleOf(x) = p
      BY TrapHereFacts
    <3> QED
      BY <1>0, <2>1, <2>2, <2>3, <2>4, <3>1, TrapRemoved
  <2> QED
    BY <2>1, <2>2, <2>5 DEF TrapNext, SW
<1>13. CASE ClearStep
  BY <1>0, <1>13 DEF ClearStep, World
<1>14. ASSUME NEW s, NEW r, InsertFromProjectFile(s.kind, r, s.size, s.op) PROVE TrapNext
  BY <1>0, <1>14 DEF InsertFromProjectFile
<1>15. ASSUME NEW p \in Pid, Hide(p) PROVE TrapNext
  BY <1>0, <1>15, HideFacts, TrapSwept DEF Hide, KeepSession, SW
<1>16. CASE Show
  <2>1. SW' = SW
    BY <1>0, <1>16, ShowKeeps DEF ProperList, Proper
  <2> QED
    BY <1>0, <1>16, <2>1, ShowFacts, TrapSwept DEF Show, KeepSession
<1> QED
  BY <1>2, <1>3, <1>4, <1>5, <1>6, <1>7, <1>8, <1>9, <1>10, <1>11, <1>12, <1>13, <1>14, <1>15, <1>16
  DEF Next, Debugger, GUI, Disassembler

LEMMA InitTraps == Init => TrapInv
<1> SUFFICES ASSUME Init PROVE TrapInv
  OBVIOUS
<1>1. SW = <<>> /\ pids = {}
  BY DEF Init, SW, Kind
<1> QED
  BY <1>1 DEF TrapInv, ProperList

LEMMA NextTraps ==
  ASSUME TrapSetups PROVE TypeOK /\ World /\ OneShotInv /\ TrapInv /\ [Next]_vars => TrapInv'
<1> SUFFICES ASSUME TypeOK, World, OneShotInv, TrapInv, [Next]_vars PROVE TrapInv'
  OBVIOUS
<1>1. ~ProjectFiles => TrapNext
  BY TrapFacts, TrapEvent
<1> QED
  BY <1>1, SetupStays, TrapKept

(* Every opcode a debuggee would trap on belongs to a software breakpoint  *)
(* of the list that applies to it: whatever the order of the adds, removes, *)
(* hits, restores, rebases, reads of the disassembler and sessions,        *)
(* nothing the debugger wrote outlives its list entry.                     *)
THEOREM TrapsAreListed ==
  ASSUME OneShotSetups, TrapSetups PROVE Spec => []NoStrayTrap
<1>1. Init => TypeOK /\ World /\ OneShotInv /\ TrapInv
  BY InitTyped, InitWorld, InitOneShots, InitTraps
<1>2. TypeOK /\ World /\ OneShotInv /\ TrapInv /\ [Next]_vars => (TypeOK /\ World /\ OneShotInv /\ TrapInv)'
  BY NextTyped, NextWorld, NextOneShots, NextTraps
<1>3. TypeOK /\ World /\ OneShotInv /\ TrapInv => NoStrayTrap
  <2> SUFFICES ASSUME TypeOK, World, OneShotInv, TrapInv, ~ProjectFiles,
                      NEW p \in Running, NEW a \in DOMAIN proc[p].mem, proc[p].mem[a] # "code"
               PROVE  \E i \in DOMAIN SW : a \in Cells(SW[i]) /\ SW[i].pid \in {AnyPid, p}
    BY DEF NoStrayTrap
  <2>1. p \in pids /\ ProperList(SW, pids) /\ Covered(SW, proc[p].mem)
    BY DEF TrapInv, Running
  <2>2. PICK i \in DOMAIN SW : SW[i].offset = a
    BY <2>1 DEF Covered
  <2>3. SW[i] \in Entry /\ SW[i].pid \in {AnyPid, p}
    BY <2>1, BaseFacts DEF ProperList, Proper
  <2> QED
    BY <2>2, <2>3, CellFacts
<1> QED
  BY <1>1, <1>2, <1>3, PTL DEF Spec

(* A backup holds the program's own bytes, never another breakpoint's: an  *)
(* address that traps is in the list, and BreakpointAdd refuses it.        *)
THEOREM BackupsStayOriginal ==
  ASSUME OneShotSetups, TrapSetups PROVE Spec => []BackupsAreOriginal
<1>1. Init => TypeOK /\ World /\ OneShotInv /\ TrapInv
  BY InitTyped, InitWorld, InitOneShots, InitTraps
<1>2. TypeOK /\ World /\ OneShotInv /\ TrapInv /\ [Next]_vars => (TypeOK /\ World /\ OneShotInv /\ TrapInv)'
  BY NextTyped, NextWorld, NextOneShots, NextTraps
<1>3. TypeOK /\ World /\ OneShotInv /\ TrapInv => BackupsAreOriginal
  BY DEF BackupsAreOriginal, TrapInv, ProperList, Proper
<1> QED
  BY <1>1, <1>2, <1>3, PTL DEF Spec

-----------------------------------------------------------------------------
(* Hits and restores: ArmedUnlessWaiting.                                  *)

(* Which breakpoints wait for their single step, and what holds of those   *)
(* of the one process: every one has its own place in memory, at most one  *)
(* waits, for the step its flag says, and all others are armed unless they *)
(* are hidden.                                                             *)
Waiting(L) == {i \in DOMAIN L : L[i].handle = "BP_KEEP" /\ L[i].restore}

Marked == {e \in Entry : e.restore}

(* The memory n is m with x written at a; the list K is L with e at i, or  *)
(* with e behind it.                                                       *)
Wrote(m, n, a, x)   == DOMAIN n = DOMAIN m /\ \A c \in DOMAIN m : n[c] = IF c = a THEN x ELSE m[c]
Changed(L, K, i, e) == K = [L EXCEPT ![i] = e]
Grown(L, K, e)      == K = Append(L, e)

Guarded(L, m, f, o) ==
  /\ \A i, j \in DOMAIN L : L[i].offset = L[j].offset => i = j
  /\ \A i \in DOMAIN L : L[i].offset \in DOMAIN m
  /\ \A i \in Waiting(L) : f = "RESTORE_BP_SOFTWARE" /\ \A j \in Waiting(L) : i = j
  /\ o = NoPid => \A i \in DOMAIN L :
                L[i].handle = "BP_KEEP" /\ ~L[i].restore => m[L[i].offset] # "code"

(* The entries of K come from different ones of L and lose no trap.        *)
LEMMA GuardedVia ==
  ASSUME NEW L, NEW K, NEW m, NEW n, NEW f, NEW o, Guarded(L, m, f, o), NEW g,
         (\A j \in DOMAIN K : /\ g[j] \in DOMAIN L /\ K[j].offset = L[g[j]].offset
                              /\ K[j].handle = L[g[j]].handle /\ K[j].restore = L[g[j]].restore),
         \A i, j \in DOMAIN K : g[i] = g[j] => i = j,
         DOMAIN n = DOMAIN m,
         \A j \in DOMAIN K : m[K[j].offset] # "code" => n[K[j].offset] # "code"
  PROVE  Guarded(K, n, f, o)
<1>1. \A j \in Waiting(K) : g[j] \in Waiting(L)
  BY DEF Waiting
<1>2. \A i, j \in DOMAIN K : K[i].offset = K[j].offset => i = j
  BY DEF Guarded
<1>3. \A i \in DOMAIN K : K[i].offset \in DOMAIN n
  BY DEF Guarded
<1>4. \A i \in Waiting(K) : f = "RESTORE_BP_SOFTWARE" /\ \A j \in Waiting(K) : i = j
  BY <1>1 DEF Guarded, Waiting
<1>5. o = NoPid => \A i \in DOMAIN K : K[i].handle = "BP_KEEP" /\ ~K[i].restore => n[K[i].offset] # "code"
  BY DEF Guarded
<1> QED
  BY <1>2, <1>3, <1>4, <1>5 DEF Guarded

LEMMA GuardedGone ==
  ASSUME NEW L \in Seq(Entry), NEW m, NEW n, NEW f, NEW o, Guarded(L, m, f, o),
         NEW i \in DOMAIN L, NEW K, K = RemoveAt(L, i), Wrote(m, n, L[i].offset, "code")
  PROVE  Guarded(K, n, f, o)
<1>1. /\ K \in Seq(Entry) /\ Len(K) = Len(L) - 1
      /\ \A j \in DOMAIN K : K[j] = IF j < i THEN L[j] ELSE L[j + 1]
  BY EntryGone
<1>2. PICK s \in Nat : s = Len(L) /\ DOMAIN L = 1 .. s /\ DOMAIN K = 1 .. s - 1 /\ i \in 1 .. s
  BY <1>1
<1>3. PICK g : g = [j \in DOMAIN K |-> IF j < i THEN j ELSE j + 1]
  OBVIOUS
<1>4. \A j \in DOMAIN K : g[j] \in DOMAIN L /\ g[j] # i /\ K[j] = L[g[j]]
  BY <1>1, <1>2, <1>3
<1>5. \A j, k \in DOMAIN K : g[j] = g[k] => j = k
  BY <1>2, <1>3
<1>6. ASSUME NEW j \in DOMAIN K, m[K[j].offset] # "code" PROVE n[K[j].offset] # "code"
  <2>1. K[j].offset # L[i].offset /\ K[j].offset \in DOMAIN m
    BY <1>4 DEF Guarded
  <2> QED
    BY <1>6, <2>1 DEF Wrote
<1>7. \A j \in DOMAIN K : /\ g[j] \in DOMAIN L /\ K[j].offset = L[g[j]].offset
                          /\ K[j].handle = L[g[j]].handle /\ K[j].restore = L[g[j]].restore
  BY <1>4
<1> QED
  BY <1>5, <1>6, <1>7, GuardedVia DEF Wrote

LEMMA GuardedAdded ==
  ASSUME NEW L \in Seq(Entry), NEW m, NEW n, NEW f, NEW o, Guarded(L, m, f, o),
         NEW e \in Entry, NEW K, Grown(L, K, e), NEW op, op # "code", Wrote(m, n, e.offset, op),
         e.offset \in DOMAIN m, e \notin Marked, \A i \in DOMAIN L : L[i].offset # e.offset
  PROVE  Guarded(K, n, f, o)
<1>1. PICK s : s = Len(L) + 1 /\ s \notin DOMAIN L /\ DOMAIN K = DOMAIN L \cup {s} /\ K[s] = e
               /\ \A j \in DOMAIN L : K[j] = L[j]
  BY EntryAdded DEF Grown
<1>2. Waiting(K) = Waiting(L)
  BY <1>1 DEF Waiting, Marked
<1>3. \A i, j \in DOMAIN K : K[i].offset = K[j].offset => i = j
  BY <1>1 DEF Guarded, Wrote
<1>4. \A i \in DOMAIN K : K[i].offset \in DOMAIN n
  BY <1>1 DEF Guarded, Wrote
<1>5. o = NoPid => \A i \in DOMAIN K : K[i].handle = "BP_KEEP" /\ ~K[i].restore => n[K[i].offset] # "code"
  BY <1>1 DEF Guarded, Wrote
<1> QED
  BY <1>2, <1>3, <1>4, <1>5 DEF Guarded

(* A hit: one entry, of a list where none waited, is marked and taken out. *)
LEMMA GuardedHit ==
  ASSUME NEW L \in Seq(Entry), NEW m, NEW n, NEW o, Guarded(L, m, "RESTORE_NON", o),
         NEW i \in DOMAIN L, NEW e \in Entry, e \in Marked, e.offset = L[i].offset,
         NEW K, Changed(L, K, i, e), Wrote(m, n, L[i].offset, "code")
  PROVE  Guarded(K, n, "RESTORE_BP_SOFTWARE", o)
<1>1. DOMAIN K = DOMAIN L /\ K[i] = e /\ \A j \in DOMAIN L : j # i => K[j] = L[j]
  BY EntrySet DEF Changed
<1>2. Waiting(L) = {}
  BY DEF Guarded, Wrote
<1>3. \A j \in Waiting(K) : j = i
  BY <1>1, <1>2 DEF Waiting
<1>4. \A j \in DOMAIN L : K[j].offset = L[j].offset
  BY <1>1
<1>5. \A j, k \in DOMAIN K : K[j].offset = K[k].offset => j = k
  BY <1>1, <1>4 DEF Guarded, Wrote
<1>6. \A j \in DOMAIN K : K[j].offset \in DOMAIN n
  BY <1>1, <1>4 DEF Guarded, Wrote
<1>7. o = NoPid => \A j \in DOMAIN K : K[j].handle = "BP_KEEP" /\ ~K[j].restore => n[K[j].offset] # "code"
  <2> SUFFICES ASSUME o = NoPid, NEW j \in DOMAIN K, K[j].handle = "BP_KEEP", ~K[j].restore
               PROVE  n[K[j].offset] # "code"
    OBVIOUS
  <2>1. j # i /\ K[j] = L[j] /\ L[j].offset # L[i].offset
    BY <1>1 DEF Guarded, Marked
  <2> QED
    BY <1>1, <2>1 DEF Guarded, Wrote
<1> QED
  BY <1>3, <1>5, <1>6, <1>7 DEF Guarded, Wrote

(* The single step: the only entry that waited is armed.                   *)
LEMMA GuardedStep ==
  ASSUME NEW L \in Seq(Entry), NEW m, NEW n, NEW f, NEW o, Guarded(L, m, f, o),
         NEW i \in Waiting(L), NEW e \in Entry, e \notin Marked, e.offset = L[i].offset,
         NEW K, Changed(L, K, i, e), NEW op, op # "code", Wrote(m, n, e.offset, op)
  PROVE  \A h : Guarded(K, n, h, o)
<1>0. i \in DOMAIN L
  BY DEF Waiting
<1>1. DOMAIN K = DOMAIN L /\ K[i] = e /\ \A j \in DOMAIN L : j # i => K[j] = L[j]
  BY <1>0, EntrySet DEF Changed
<1>2. Waiting(K) = {}
  BY <1>1 DEF Waiting, Guarded, Marked
<1>4. \A j \in DOMAIN L : K[j].offset = L[j].offset
  BY <1>1
<1>5. \A j, k \in DOMAIN K : K[j].offset = K[k].offset => j = k
  BY <1>1, <1>4 DEF Guarded, Wrote
<1>6. \A j \in DOMAIN K : K[j].offset \in DOMAIN n
  BY <1>1, <1>4 DEF Guarded, Wrote
<1>7. o = NoPid => \A j \in DOMAIN K : K[j].handle = "BP_KEEP" /\ ~K[j].restore => n[K[j].offset] # "code"
  <2> SUFFICES ASSUME o = NoPid, NEW j \in DOMAIN K, K[j].handle = "BP_KEEP", ~K[j].restore
               PROVE  n[K[j].offset] # "code"
    OBVIOUS
  <2>1. K[j].offset \in DOMAIN m
    BY <1>1, <1>4 DEF Guarded, Wrote
  <2>2. j # i => m[K[j].offset] # "code"
    BY <1>1 DEF Guarded, Wrote
  <2> QED
    BY <1>1, <2>1, <2>2 DEF Wrote
<1> QED
  BY <1>2, <1>5, <1>6, <1>7 DEF Guarded, Wrote

(* Nothing waits: any flag will do.  Hidden: any bytes will do.   *)
LEMMA GuardedIdle ==
  ASSUME NEW L, NEW m, NEW f, NEW o, Guarded(L, m, f, o), Waiting(L) = {}
  PROVE  \A h : Guarded(L, m, h, o)
BY DEF Guarded

LEMMA GuardedHidden ==
  ASSUME NEW L, NEW m, NEW n, NEW f, NEW o, Guarded(L, m, f, o), DOMAIN n = DOMAIN m
  PROVE  \A h : h # NoPid => Guarded(L, n, f, h)
BY DEF Guarded

(* One session, of which no software breakpoint is older than its process. *)
Fresh == sessions = 0 \/ dbg = "enter" \/ (dbg = "loop" /\ pids = {})

FreshOK == (sessions = 0 => dbg = "idle") /\ (Fresh => SW = <<>> /\ hidden = NoPid)

ArmedAll == \A p \in Running : /\ Guarded(SW, proc[p].mem, flag[p], hidden)
                               /\ hidden \in {NoPid, p}

ArmedHere == TrapHere /\ MaxSessions = 1 /\ FreshOK /\ ArmedAll

ArmedInv == (~ProjectFiles /\ ~DebugChilds /\ MaxSessions = 1) => FreshOK /\ ArmedAll

LEMMA ArmedRunning ==
  ASSUME ArmedHere, NEW p \in Running
  PROVE  /\ TypeOK /\ bps \in Lists /\ proc \in Processes /\ SetupOK /\ "SOFTWARE_BP" \in Kind
         /\ p \in Pid /\ pids = {p} /\ Running = {p} /\ (\A x : HandleOf(x) = p) /\ p # NoPid
         /\ SW \in Seq(Entry) /\ ProperList(SW, {p}) /\ proc[p] \in Process
         /\ Guarded(SW, proc[p].mem, flag[p], hidden) /\ hidden \in {NoPid, p}
         /\ dbg = "loop" /\ \A i \in DOMAIN SW : i \in Waiting(SW) <=> Waits(SW, p, i)
<1>1. TrapHere
  BY DEF ArmedHere
<1>2. /\ TypeOK /\ World /\ bps \in Lists /\ proc \in Processes /\ SetupOK /\ "SOFTWARE_BP" \in Kind
      /\ p \in Pid /\ pids = {p} /\ (\A x : HandleOf(x) = p)
      /\ SW \in Seq(Entry) /\ ProperList(SW, {p}) /\ proc[p] \in Process
  BY <1>1, TrapHereFacts, TrapRunning
<1>3. Running = {p}
  BY <1>2 DEF Running
<1>4. dbg = "loop"
  BY <1>1, <1>2, <1>3 DEF World, TypeOK, TrapHere
<1>5. \A i \in DOMAIN SW : i \in Waiting(SW) <=> Waits(SW, p, i)
  BY <1>2 DEF Waiting, Waits, ProperList, Proper
<1> QED
  BY <1>2, <1>3, <1>4, <1>5 DEF ArmedHere, ArmedAll, SetupOK

LEMMA ArmedSame ==
  ASSUME ArmedHere, SW' = SW, Running' \subseteq Running, hidden' = hidden,
         \A p \in Running' : proc'[p].mem = proc[p].mem /\ flag'[p] = flag[p]
  PROVE  ArmedAll'
<1>1. \A p \in Running' : /\ Guarded(SW', proc'[p].mem, flag'[p], hidden')
                          /\ hidden' \in {NoPid, p}
  BY DEF ArmedHere, ArmedAll
<1> QED
  BY <1>1 DEF ArmedAll

LEMMA ArmedCreate ==
  ASSUME ArmedHere, NEW p \in Pid, NEW b \in Bases, CreateProcess(p, b) PROVE ArmedAll'
<1>0. TypeOK /\ SetupOK /\ bps \in Lists /\ "SOFTWARE_BP" \in Kind /\ ~DebugChilds
  BY TrapHereFacts DEF ArmedHere
<1>1. pids = {} /\ pids' = {p} /\ dbg = "loop" /\ hidden' = hidden
  BY <1>0 DEF CreateProcess
<1>2. SW = <<>> /\ hidden' = NoPid
  BY <1>1 DEF ArmedHere, FreshOK, Fresh
<1>3. PICK F, R, A : Created(p, b, F, R, A)
  BY <1>0, CreateFacts
<1>4. PICK off, K, L : off = b + EntryRva /\ K = A.bps["SOFTWARE_BP"] /\ L = R.bps["SOFTWARE_BP"]
  OBVIOUS
<1>5. /\ F \in Processes /\ R = BreakpointInit(bps, F, p)
      /\ R.bps \in Lists /\ R.proc \in Processes /\ off \in Int /\ R.proc[p] \in Process
      /\ A = BreakpointAdd(R.bps, R.proc, "SOFTWARE_BP", p, p, p, off, 1, "BP_DONOTKEEP", "int3")
      /\ bps' = A.bps /\ proc' = A.proc /\ SW' = K
  BY <1>3, <1>4 DEF Created, Processes, SW
<1>6. L \in Seq(Entry) /\ DOMAIN L = {}
  <2>1. L = InitSoftware(bps["SOFTWARE_BP"], p, F[p]).list /\ F[p] \in Process
    BY <1>0, <1>4, <1>5, InitFacts DEF Processes
  <2>2. bps["SOFTWARE_BP"] \in Seq(Entry)
    BY <1>0, ListFacts
  <2>3. L \in Seq(Entry) /\ DOMAIN L = DOMAIN bps["SOFTWARE_BP"]
    BY <2>1, <2>2, InitSoftwareFacts
  <2> QED
    BY <1>2, <2>3 DEF SW
<1>7. \A m, f, o : Guarded(L, m, f, o)
  BY <1>6 DEF Guarded, Waiting
<1>8. \A f : Guarded(K, A.proc[p].mem, f, NoPid)
  <2>1. p \in Pid \cup {AnyPid} /\ 1 \in Span /\ "BP_DONOTKEEP" \in Handle /\ "int3" \in Trap
    BY DEF Span, Handle, OneShot, Trap
  <2>2. \/ Same(R.bps, R.proc, A)
        \/ \E e : AddedSoftware(R.bps, R.proc, p, p, off, 1, "BP_DONOTKEEP", "int3", e, A)
    BY <1>5, <2>1, AddSoftware
  <2>3. CASE Same(R.bps, R.proc, A)
    BY <1>4, <1>7, <2>3 DEF Same
  <2>4. ASSUME NEW e, AddedSoftware(R.bps, R.proc, p, p, off, 1, "BP_DONOTKEEP", "int3", e, A)
        PROVE  \A f : Guarded(K, A.proc[p].mem, f, NoPid)
    <3>1. PICK pr, q : pr = R.proc[p] /\ q = Armed(e, "int3", pr)
      OBVIOUS
    <3>2. /\ e \in Entry /\ e.size = 1 /\ e.restore = FALSE /\ Writable(e, pr)
          /\ A.bps = [R.bps EXCEPT !["SOFTWARE_BP"] = Append(L, e)] /\ A.proc = [R.proc EXCEPT ![p] = q]
      BY <1>4, <2>4, <3>1, EntryFields DEF AddedSoftware, IsNew
    <3>3. K = Append(L, e) /\ A.proc[p] = q
      BY <1>0, <1>4, <1>5, <3>2 DEF Lists, Processes
    <3>4. /\ DOMAIN q.mem = DOMAIN pr.mem
          /\ \A a \in DOMAIN pr.mem : q.mem[a] = IF a = e.offset THEN "int3" ELSE pr.mem[a]
      BY <1>5, <2>1, <3>1, <3>2, TrapIn
    <3>5. e.offset \in DOMAIN pr.mem
      BY <3>2, CellFacts DEF Writable
    <3>6. ASSUME NEW f PROVE Guarded(K, q.mem, f, NoPid)
      <4>1. Guarded(L, pr.mem, f, NoPid) /\ \A i \in DOMAIN L : L[i].offset # e.offset
        BY <1>6, <1>7
      <4>2. e \notin Marked /\ Wrote(pr.mem, q.mem, e.offset, "int3") /\ Grown(L, K, e)
        BY <3>2, <3>3, <3>4 DEF Marked, Wrote, Grown
      <4> QED
        BY <1>6, <3>2, <3>5, <4>1, <4>2, GuardedAdded
    <3> QED
      BY <3>3, <3>6
  <2> QED
    BY <2>2, <2>3, <2>4
<1>9. Running' \subseteq {p}
  BY <1>1 DEF Running
<1>10. \A q \in Running' : /\ Guarded(SW', proc'[q].mem, flag'[q], hidden')
                           /\ hidden' \in {NoPid, q}
  BY <1>2, <1>5, <1>8, <1>9
<1> QED
  BY <1>10 DEF ArmedAll

LEMMA ArmedSoftwareHit ==
  ASSUME ArmedHere, NEW p \in Running, NEW a, SoftwareHit(p, a), pids' = pids, hidden' = hidden
  PROVE  ArmedAll'
<1>0. /\ TypeOK /\ bps \in Lists /\ proc \in Processes /\ "SOFTWARE_BP" \in Kind
      /\ p \in Pid /\ pids = {p} /\ (\A x : HandleOf(x) = p) /\ SW \in Seq(Entry)
      /\ Guarded(SW, proc[p].mem, flag[p], hidden) /\ hidden \in {NoPid, p}
      /\ proc[p] \in Process /\ flag[p] = "RESTORE_NON" /\ flag \in [Pid -> {flag[x] : x \in Pid}]
      /\ TrapHere
  BY ArmedRunning DEF ArmedHere, SoftwareHit, TypeOK
<1>1. PICK isEP, C, R : isEP \in BOOLEAN /\ Hit(p, a, isEP, C, R)
  BY <1>0, HitFacts
<1>2. PICK L, pr, m, o : /\ L = R.bps["SOFTWARE_BP"] /\ pr = R.proc[p] /\ m = pr.mem
                            /\ o = hidden
  OBVIOUS
<1>3. R.bps \in Lists /\ R.proc \in Processes /\ pr \in Process /\ L \in Seq(Entry)
  BY <1>0, <1>1, <1>2, ListFacts DEF Hit, Ready, Processes
<1>4. Guarded(L, m, "RESTORE_NON", o) /\ ProperList(L, {p})
  <2>1. CASE isEP
    <3>1. C = UpdateOffsets(bps) /\ R = BreakpointInit(C, proc, p)
      BY <1>1, <2>1 DEF Hit, Ready
    <3>2. PICK K, M, S, n : /\ K = SW /\ M = C["SOFTWARE_BP"] /\ n = proc[p].mem
                            /\ S = InitSoftware(M, p, proc[p])
      OBVIOUS
    <3>3. C \in Lists /\ M \in Seq(Entry)
      BY <1>0, <3>1, <3>2, UpdateFacts, ListFacts
    <3>4. /\ ProperList(M, {p}) /\ Covered(M, n) /\ DOMAIN M = DOMAIN K
          /\ \A i \in DOMAIN K : SameBut(K[i], M[i]) /\ (K[i].offset \in DOMAIN n => M[i].offset = K[i].offset)
      BY <1>0, <3>1, <3>2, TrapRebased
    <3>5. L = S.list /\ m = S.mem
      BY <1>0, <1>2, <3>1, <3>2, <3>3, InitFacts
    <3>6. /\ DOMAIN L = DOMAIN M
          /\ \A i \in DOMAIN M : SameBut(M[i], L[i]) /\ L[i].offset = M[i].offset
          /\ DOMAIN m = DOMAIN n
          /\ \A c \in DOMAIN n : m[c] = IF \E i \in Arms(M, p, proc[p]) : c \in Cells(M[i])
                                        THEN "int3" ELSE n[c]
      BY <1>0, <3>2, <3>3, <3>5, InitSoftwareFacts
    <3>7. Guarded(K, n, "RESTORE_NON", o)
      BY <1>0, <1>2, <3>2
    <3>8. PICK g : g = [j \in DOMAIN L |-> j]
      OBVIOUS
    <3>9. \A j \in DOMAIN L : /\ g[j] \in DOMAIN K /\ L[j].offset = K[g[j]].offset
                              /\ L[j].handle = K[g[j]].handle /\ L[j].restore = K[g[j]].restore
      BY <3>4, <3>6, <3>7, <3>8 DEF Guarded, SameBut
    <3>10. \A j \in DOMAIN L : n[L[j].offset] # "code" => m[L[j].offset] # "code"
      BY <3>6, <3>7, <3>9 DEF Guarded
    <3>11. \A i, j \in DOMAIN L : g[i] = g[j] => i = j
      BY <3>8
    <3>12. Guarded(L, m, "RESTORE_NON", o)
      BY <3>6, <3>7, <3>9, <3>10, <3>11, GuardedVia
    <3>13. ProperList(R.bps["SOFTWARE_BP"], {p})
      BY <1>0, <3>1, <3>2, <3>3, <3>4, TrapInit
    <3> QED
      BY <1>2, <3>12, <3>13
  <2>2. CASE ~isEP
    BY <1>0, <1>1, <1>2, <2>2, ArmedRunning DEF Hit, Ready, SW
  <2> QED
    BY <2>1, <2>2
<1>5. SUFFICES Guarded(SW', proc'[p].mem, flag'[p], o)
  <2>1. Running' \subseteq {p}
    BY <1>0 DEF Running
  <2> QED
    BY <1>0, <1>2, <2>1 DEF ArmedAll
<1>6. \A f : Guarded(L, m, f, o)
  BY <1>4, GuardedIdle DEF Guarded
<1>7. ASSUME NEW i \in DOMAIN L, NEW d, d = dSoftwareBP(L[i], pr)
      PROVE  /\ d \in Process /\ DOMAIN d.mem = DOMAIN m
             /\ \A c \in DOMAIN m : d.mem[c] = IF c = L[i].offset THEN "code" ELSE m[c]
  <2>1. L[i] \in Entry /\ Proper(L[i], {p})
    BY <1>3, <1>4, ElementFacts DEF ProperList
  <2> QED
    <3>1. d \in Process
      BY <1>3, <1>7, <2>1, DisarmedFacts
    <3>2. /\ DOMAIN d.mem = DOMAIN pr.mem
          /\ \A c \in DOMAIN pr.mem : d.mem[c] = IF c = L[i].offset THEN "code" ELSE pr.mem[c]
      BY <1>3, <1>7, <2>1, TrapOut
    <3> QED
      BY <1>2, <3>1, <3>2
<1>8. ASSUME NEW i \in DOMAIN L, L[i].offset = a, Kept(p, i, R),
             flag' = RestoreFlag(p, TRUE, isEP, L[i])
      PROVE  Guarded(SW', proc'[p].mem, flag'[p], o)
  <2>1. PICK e, K, n : e = [L[i] EXCEPT !.restore = TRUE] /\ K = [L EXCEPT ![i] = e] /\ n = proc'[p].mem
    OBVIOUS
  <2>2. L[i] \in Entry /\ L[i] \in EntryOf(L[i].size) /\ e \in Entry
    BY <1>3, <2>1, ElementFacts, EntryFields, EntryChanged
  <2>3. e.offset = L[i].offset /\ e.restore = TRUE
    BY <2>1, <2>2 DEF EntryOf
  <2>4. SW' = K
    BY <1>0, <1>2, <1>3, <1>8, <2>1 DEF Kept, Lists, SW
  <2>5. flag'[p] = "RESTORE_BP_SOFTWARE"
    BY <1>0, <1>8 DEF RestoreFlag
  <2>6. DOMAIN n = DOMAIN m /\ \A c \in DOMAIN m : n[c] = IF c = L[i].offset THEN "code" ELSE m[c]
    <3>1. PICK d : d = dSoftwareBP(L[i], pr)
      OBVIOUS
    <3>2. d \in Process /\ DOMAIN d.mem = DOMAIN m
          /\ \A c \in DOMAIN m : d.mem[c] = IF c = L[i].offset THEN "code" ELSE m[c]
      BY <1>7, <1>8, <3>1
    <3>3. proc' = [R.proc EXCEPT ![p] = d]
      BY <1>2, <1>8, <3>1 DEF Kept
    <3>4. proc'[p] = d
      BY <1>0, <1>3, <3>3 DEF Processes
    <3> QED
      BY <2>1, <3>2, <3>4
  <2>7. Guarded(K, n, "RESTORE_BP_SOFTWARE", o)
    <3>1. e \in Marked /\ Wrote(m, n, L[i].offset, "code") /\ Changed(L, K, i, e)
      BY <2>1, <2>2, <2>3, <2>6 DEF Marked, Wrote, Changed
    <3> QED
      BY <1>3, <1>4, <1>8, <2>2, <2>3, <3>1, GuardedHit
  <2> QED
    BY <2>1, <2>4, <2>5, <2>7
<1>9. ASSUME NEW i \in DOMAIN L, L[i].offset = a, NEW Q, NEW X, Dropped(p, a, i, R, Q, X)
      PROVE  Guarded(SW', proc'[p].mem, flag'[p], o)
  <2>1. PICK q : q = Q[p]
    OBVIOUS
  <2>2. /\ Q \in Processes /\ q \in Process /\ DOMAIN q.mem = DOMAIN m
        /\ \A c \in DOMAIN m : q.mem[c] = IF c = L[i].offset THEN "code" ELSE m[c]
        /\ X = BreakpointRemove(R.bps, Q, "SOFTWARE_BP", a) /\ bps' = X.bps /\ proc' = X.proc
    <3>1. PICK d : d = dSoftwareBP(L[i], pr)
      OBVIOUS
    <3>2. /\ X = BreakpointRemove(R.bps, Q, "SOFTWARE_BP", a) /\ bps' = X.bps /\ proc' = X.proc
          /\ Q = [R.proc EXCEPT ![p] = d] /\ Q \in Processes
      BY <1>2, <1>9, <3>1 DEF Dropped
    <3>3. d \in Process /\ DOMAIN d.mem = DOMAIN m
          /\ \A c \in DOMAIN m : d.mem[c] = IF c = L[i].offset THEN "code" ELSE m[c]
      BY <1>7, <1>9, <3>1
    <3>4. q = d
      BY <1>0, <1>3, <2>1, <3>2 DEF Processes
    <3> QED
      BY <3>2, <3>3, <3>4
  <2>3. Matching(L, a) # {}
    BY <1>9 DEF Matching
  <2>4. PICK j, h : Removed(R.bps, Q, "SOFTWARE_BP", a, j, h, X)
    BY <1>0, <1>2, <1>3, <2>2, <2>3, RemoveFacts
  <2>5. j = i /\ h = p
    BY <1>0, <1>2, <1>4, <1>9, <2>4 DEF Removed, Guarded
  <2>6. PICK d, n : d = dSoftwareBP(L[i], q) /\ n = d.mem
    OBVIOUS
  <2>7. X.bps["SOFTWARE_BP"] = RemoveAt(L, i) /\ X.proc[p] = d
    <3>1. X.bps = [R.bps EXCEPT !["SOFTWARE_BP"] = RemoveAt(L, i)] /\ X.proc = [Q EXCEPT ![p] = d]
      BY <1>0, <1>2, <2>1, <2>4, <2>5, <2>6 DEF Removed
    <3> QED
      BY <1>0, <1>3, <2>2, <3>1 DEF Lists, Processes
  <2>8. Proper(L[i], {p}) /\ L[i] \in Entry
    BY <1>3, <1>4, ElementFacts DEF ProperList
  <2>9. DOMAIN n = DOMAIN m /\ \A c \in DOMAIN m : n[c] = IF c = L[i].offset THEN "code" ELSE m[c]
    BY <2>2, <2>6, <2>8, TrapOut
  <2>10. Guarded(RemoveAt(L, i), n, flag'[p], o)
    BY <1>2, <1>3, <1>6, <2>9, GuardedGone DEF Wrote
  <2> QED
    BY <2>2, <2>6, <2>7, <2>10 DEF SW
<1>10. ASSUME bps' = R.bps, proc' = R.proc, flag' = flag PROVE Guarded(SW', proc'[p].mem, flag'[p], o)
  BY <1>2, <1>6, <1>10 DEF SW
<1>11. CASE \E i \in DOMAIN L, keep \in BOOLEAN :
              /\ L[i].offset = a /\ (keep => Kept(p, i, R)) /\ (~keep => \E Q, X : Dropped(p, a, i, R, Q, X))
              /\ flag' = RestoreFlag(p, keep, isEP, L[i])
  BY <1>8, <1>9, <1>11
<1> QED
  BY <1>1, <1>2, <1>10, <1>11 DEF Hit

LEMMA ArmedSingleStep ==
  ASSUME ArmedHere, NEW p \in Running, SingleStep(p), pids' = pids, hidden' = hidden PROVE ArmedAll'
<1>0. /\ TypeOK /\ bps \in Lists /\ proc \in Processes /\ "SOFTWARE_BP" \in Kind /\ "HARDWARE_BP" \in Kind
      /\ p \in Pid /\ pids = {p} /\ (\A x : HandleOf(x) = p) /\ SW \in Seq(Entry) /\ ProperList(SW, {p})
      /\ Guarded(SW, proc[p].mem, flag[p], hidden) /\ hidden \in {NoPid, p}
      /\ proc[p] \in Process /\ \A i \in DOMAIN SW : i \in Waiting(SW) <=> Waits(SW, p, i)
  BY ArmedRunning, BaseFacts
<1>1. PICK m, n, o : m = proc[p].mem /\ n = proc'[p].mem /\ o = hidden
  OBVIOUS
<1>2. SUFFICES \A h : Guarded(SW', n, h, o)
  <2>1. Running' \subseteq {p}
    BY <1>0 DEF Running
  <2> QED
    BY <1>0, <1>1, <2>1 DEF ArmedAll
<1>3. Waiting(SW) = {} => \A h : Guarded(SW, m, h, o)
  BY <1>0, <1>1, GuardedIdle
<1>4. flag[p] # "RESTORE_BP_SOFTWARE" => Waiting(SW) = {}
  BY <1>0 DEF Guarded
<1>5. CASE /\ bps' = bps /\ proc' = proc
           /\ flag[p] = "RESTORE_BP_SOFTWARE" => \A i \in DOMAIN SW : ~Waits(SW, p, i)
  <2>1. Waiting(SW) = {}
    BY <1>0, <1>4, <1>5 DEF Waiting
  <2> QED
    BY <1>1, <1>3, <1>5, <2>1 DEF SW
<1>6. ASSUME NEW i, NEW h, NEW e, NEW L, SoftwareStep(p, i, h, e, L) PROVE \A g : Guarded(SW', n, g, o)
  <2>1. PICK f, w : f = SW[i] /\ w = wSoftwareBP(f, f.data, proc[p])
    OBVIOUS
  <2>2. /\ i \in Waiting(SW) /\ i \in DOMAIN SW /\ f \in Entry /\ e \in Entry /\ f.data \in Trap
        /\ f \in EntryOf(f.size) /\ SameBut([f EXCEPT !.restore = FALSE], e) /\ e.offset = f.offset
        /\ L = [SW EXCEPT ![i] = e] /\ bps' = [bps EXCEPT !["SOFTWARE_BP"] = L]
        /\ proc' = [proc EXCEPT ![p] = w] /\ f.size = 1
    BY <1>0, <1>6, <2>1, ElementFacts, EntryFields DEF SoftwareStep, ProperList, Proper
  <2>3. e.restore = FALSE
    BY <2>2 DEF SameBut, EntryOf
  <2>4. f.offset \in DOMAIN m
    BY <1>0, <1>1, <2>1, <2>2 DEF Guarded
  <2>5. Writable(f, proc[p])
    BY <1>1, <2>2, <2>4, OneCell, CellFacts DEF Writable
  <2>6. w = Armed(f, f.data, proc[p]) /\ n = w.mem
    BY <1>0, <1>1, <2>1, <2>2, <2>5 DEF wSoftwareBP, Processes
  <2>7. DOMAIN n = DOMAIN m /\ \A a \in DOMAIN m : n[a] = IF a = e.offset THEN f.data ELSE m[a]
    BY <1>0, <1>1, <2>2, <2>6, TrapIn
  <2>8. SW' = L
    BY <1>0, <2>2 DEF Lists, SW
  <2>9. f.data # "code"
    BY <2>2 DEF Trap
  <2> QED
    <3>1. Guarded(SW, m, flag[p], o) /\ e.offset = SW[i].offset
      BY <1>0, <1>1, <2>1, <2>2
    <3>2. e \notin Marked /\ Wrote(m, n, e.offset, f.data) /\ Changed(SW, L, i, e)
      BY <2>2, <2>3, <2>7 DEF Marked, Wrote, Changed
    <3> QED
      BY <1>0, <2>2, <2>8, <2>9, <3>1, <3>2, GuardedStep
<1>7. ASSUME NEW i, NEW e, NEW L, HardwareStep(p, i, e, L), flag[p] # "RESTORE_BP_SOFTWARE"
      PROVE  \A g : Guarded(SW', n, g, o)
  <2>1. PICK w : w = wHardwareBP(HW[i], proc[p])
    OBVIOUS
  <2>2. /\ HW[i] \in Entry /\ bps' = [bps EXCEPT !["HARDWARE_BP"] = L] /\ proc' = [proc EXCEPT ![p] = w]
    BY <1>0, <1>7, <2>1, BaseFacts DEF HardwareStep
  <2>3. w.mem = proc[p].mem
    BY <1>0, <2>1, <2>2, HardwareSetFacts
  <2>4. SW' = SW
    BY <1>0, <2>2 DEF Lists, SW
  <2>5. n = m
    BY <1>0, <1>1, <2>2, <2>3 DEF Processes
  <2> QED
    BY <1>3, <1>4, <1>7, <2>4, <2>5
<1> QED
  BY <1>0, <1>5, <1>6, <1>7, StepFacts

LEMMA ArmedHardwareHit ==
  ASSUME ArmedHere, NEW p \in Running, NEW s \in Slot, HardwareHit(p, s) PROVE ArmedAll'
<1>0. /\ TypeOK /\ bps \in Lists /\ proc \in Processes /\ "SOFTWARE_BP" \in Kind /\ "HARDWARE_BP" \in Kind
      /\ p \in Pid /\ pids = {p} /\ flag[p] = "RESTORE_NON" /\ pids' = pids /\ hidden' = hidden
      /\ Guarded(SW, proc[p].mem, flag[p], hidden) /\ hidden \in {NoPid, p} /\ proc[p] \in Process
  BY ArmedRunning, BaseFacts DEF HardwareHit, KeepSession
<1>1. PICK i, e, L :
         /\ i \in DOMAIN HW /\ e \in Entry
         /\ e = [HW[i] EXCEPT !.restore = TRUE] /\ L = [HW EXCEPT ![i] = e]
         /\ bps' = [bps EXCEPT !["HARDWARE_BP"] = L]
         /\ proc' = [proc EXCEPT ![p] = dHardwareBP(HW[i], proc[p])]
  BY <1>0, HardwareHitFacts
<1>2. PICK w : w = dHardwareBP(HW[i], proc[p])
  OBVIOUS
<1>3. w.mem = proc[p].mem
  BY <1>0, <1>1, <1>2, HardwareGoneFacts, BaseFacts
<1>4. SW' = SW /\ proc'[p].mem = proc[p].mem
  BY <1>0, <1>1, <1>2, <1>3 DEF Lists, Processes, SW
<1>5. Waiting(SW) = {}
  BY <1>0 DEF Guarded
<1>6. Guarded(SW, proc[p].mem, flag'[p], hidden)
  BY <1>0, <1>5, GuardedIdle
<1>7. Running' \subseteq {p}
  BY <1>0 DEF Running
<1> QED
  BY <1>0, <1>4, <1>6, <1>7 DEF ArmedAll

LEMMA ArmedUserAdd ==
  ASSUME ArmedHere, NEW s \in Offered, NEW pid \in UserPid, NEW off \in Address,
         GUIAdd(s.kind, pid, off, s.size, s.handle, s.op)
  PROVE  ArmedAll'
<1>0. /\ TypeOK /\ SetupOK /\ bps \in Lists /\ proc \in Processes /\ "SOFTWARE_BP" \in Kind
      /\ (\A p \in Pid : proc[p] \in Process) /\ pids \subseteq Pid /\ SW \in Seq(Entry) /\ TrapHere
  BY TrapHereFacts, BaseFacts DEF ArmedHere
<1>a. pids' = pids /\ flag' = flag /\ hidden' = hidden /\ Running' = Running
  <2>1. pids' = pids /\ flag' = flag /\ hidden' = hidden /\ setup' = setup /\ main' = main
    BY DEF GUIAdd, KeepSession
  <2>2. SamePlaces(proc, proc')
    BY <1>0, UserAddPlaces
  <2> QED
    BY <1>0, <2>1, <2>2, SteadyFacts DEF Steady
<1>1. PICK cur, A, h : /\ h = HandleOf(pid)
                       /\ A = BreakpointAdd(bps, proc, s.kind, pid, h, cur, off, s.size, s.handle, s.op)
                       /\ bps' = A.bps /\ proc' = A.proc
  BY DEF GUIAdd
<1>2. /\ s.kind \in Kind /\ s.size \in Span /\ s.handle \in Handle /\ s.op \in Trap
      /\ off \in Int /\ pid \in Pid \cup {AnyPid}
  BY <1>0, OfferedFacts, AddressFacts DEF SetupOK
<1>3. s.op # "ud2" /\ s.size = 1
  BY <1>0, TrapOpcodes, OneByte
<1>4. ASSUME Same(bps, proc, A) PROVE ArmedAll'
  BY <1>a, <1>1, <1>4, ArmedSame DEF Same, SW
<1>5. ASSUME NEW e, AddedSoftware(bps, proc, pid, h, off, s.size, s.handle, s.op, e, A) PROVE ArmedAll'
  <2> SUFFICES ASSUME NEW p \in Running
               PROVE  Guarded(SW', proc'[p].mem, flag[p], hidden) /\ hidden \in {NoPid, p}
    BY <1>a DEF ArmedAll
  <2>1. /\ p \in Pid /\ h = p /\ Guarded(SW, proc[p].mem, flag[p], hidden) /\ hidden \in {NoPid, p}
    BY <1>1, ArmedRunning
  <2>2. PICK pr, q, K, op : pr = proc[p] /\ q = Armed(e, op, pr) /\ K = Append(SW, e) /\ op = s.op
    OBVIOUS
  <2>3. /\ e \in Entry /\ e.size = 1 /\ e.restore = FALSE /\ Writable(e, pr) /\ ~Exists(bps, off)
        /\ e.offset = off /\ bps' = [bps EXCEPT !["SOFTWARE_BP"] = K] /\ proc' = [proc EXCEPT ![p] = q]
    BY <1>1, <1>3, <1>5, <2>1, <2>2, EntryFields DEF AddedSoftware, IsNew, SW
  <2>4. SW' = K /\ proc'[p] = q
    BY <1>0, <2>1, <2>3 DEF Lists, Processes, SW
  <2>5. op \in Trap /\ op # "code" /\ pr \in Process
    BY <1>0, <1>2, <2>1, <2>2 DEF Trap
  <2>6. Wrote(pr.mem, q.mem, e.offset, op)
    BY <2>2, <2>3, <2>5, TrapIn DEF Wrote
  <2>7. e.offset \in DOMAIN pr.mem /\ e \notin Marked /\ Grown(SW, K, e)
    BY <2>2, <2>3, CellFacts DEF Writable, Marked, Grown
  <2>8. \A i \in DOMAIN SW : SW[i].offset # e.offset
    BY <1>0, <2>3 DEF Exists, SW
  <2>9. Guarded(K, q.mem, flag[p], hidden)
    BY <1>0, <2>1, <2>2, <2>3, <2>5, <2>6, <2>7, <2>8, GuardedAdded
  <2> QED
    BY <2>1, <2>4, <2>9
<1>6. ASSUME NEW e, AddedMemory(bps, proc, off, e, A) PROVE ArmedAll'
  <2>1. SW' = SW /\ proc' = proc
    BY <1>0, <1>1, <1>6 DEF AddedMemory, Lists, SW
  <2> QED
    BY <1>a, <2>1, ArmedSame
<1>7. ASSUME NEW e, NEW t, AddedHardware(bps, proc, pid, h, cur, off, s.size, s.handle, s.op, e, t, A)
      PROVE  ArmedAll'
  <2>1. PICK w : w = wHardwareBP(e, proc[t])
    OBVIOUS
  <2>2. /\ e \in Entry /\ SW' = SW /\ proc' = IF t \in Pid THEN [proc EXCEPT ![t] = w] ELSE proc
    BY <1>0, <1>1, <1>7, <2>1 DEF AddedHardware, Lists, SW
  <2>3. t \in Pid => w.mem = proc[t].mem
    BY <1>0, <2>1, <2>2, HardwareSetFacts
  <2>4. \A p \in pids : proc'[p].mem = proc[p].mem
    BY <1>0, <2>2, <2>3 DEF Processes
  <2> QED
    BY <1>a, <2>2, <2>4, ArmedSame DEF Running
<1>8. CASE s.kind = "SOFTWARE_BP"
  <2>1. \/ Same(bps, proc, A)
        \/ \E e : AddedSoftware(bps, proc, pid, h, off, s.size, s.handle, s.op, e, A)
    BY <1>0, <1>1, <1>2, <1>8, AddSoftware
  <2> QED
    BY <1>4, <1>5, <2>1
<1>9. CASE s.kind = "MEMORY_BP"
  <2>1. Same(bps, proc, A) \/ \E e : AddedMemory(bps, proc, off, e, A)
    BY <1>0, <1>1, <1>2, <1>9, AddMemory
  <2> QED
    BY <1>4, <1>6, <2>1
<1>10. CASE s.kind = "HARDWARE_BP"
  <2>1. \/ Same(bps, proc, A)
        \/ \E e, t : AddedHardware(bps, proc, pid, h, cur, off, s.size, s.handle, s.op, e, t, A)
    BY <1>0, <1>1, <1>2, <1>10, AddHardware
  <2> QED
    BY <1>4, <1>7, <2>1
<1> QED
  BY <1>2, <1>8, <1>9, <1>10 DEF Kind

LEMMA ArmedUserRemove ==
  ASSUME ArmedHere, NEW k \in UserKind, NEW off, GUIRemove(k, off), Running' = Running PROVE ArmedAll'
<1>0. /\ TypeOK /\ SetupOK /\ bps \in Lists /\ proc \in Processes /\ "SOFTWARE_BP" \in Kind
      /\ (\A p \in Pid : proc[p] \in Process) /\ pids \subseteq Pid /\ SW \in Seq(Entry)
      /\ flag' = flag /\ hidden' = hidden /\ k \in Kind /\ TrapHere
  BY TrapHereFacts, BaseFacts DEF ArmedHere, GUIRemove, SetupOK
<1>1. PICK R : R = BreakpointRemove(bps, proc, k, off) /\ bps' = R.bps /\ proc' = R.proc
  BY DEF GUIRemove
<1>2. CASE Same(bps, proc, R)
  BY <1>0, <1>1, <1>2, ArmedSame DEF Same, SW
<1>3. ASSUME NEW i, NEW h, Removed(bps, proc, k, off, i, h, R) PROVE ArmedAll'
  <2>1. CASE k = "SOFTWARE_BP"
    <3> SUFFICES ASSUME NEW p \in Running
                 PROVE  Guarded(SW', proc'[p].mem, flag[p], hidden) /\ hidden \in {NoPid, p}
      BY <1>0 DEF ArmedAll
    <3>1. /\ p \in Pid /\ HandleOf(SW[i].pid) = p /\ ProperList(SW, {p})
          /\ Guarded(SW, proc[p].mem, flag[p], hidden) /\ hidden \in {NoPid, p}
      BY ArmedRunning
    <3>2. PICK e, d, K : e = SW[i] /\ d = dSoftwareBP(e, proc[p]) /\ K = RemoveAt(SW, i)
      OBVIOUS
    <3>3. /\ i \in DOMAIN SW /\ bps' = [bps EXCEPT !["SOFTWARE_BP"] = K] /\ proc' = [proc EXCEPT ![p] = d]
      BY <1>1, <1>3, <2>1, <3>1, <3>2 DEF Removed, SW
    <3>4. e \in Entry /\ Proper(e, {p})
      BY <1>0, <3>1, <3>2, <3>3, ElementFacts DEF ProperList
    <3>5. Wrote(proc[p].mem, d.mem, e.offset, "code")
      BY <1>0, <3>1, <3>2, <3>4, TrapOut DEF Wrote
    <3>6. SW' = K /\ proc'[p] = d
      BY <1>0, <3>1, <3>3 DEF Lists, Processes, SW
    <3>7. Guarded(K, d.mem, flag[p], hidden)
      BY <1>0, <3>1, <3>2, <3>3, <3>5, GuardedGone
    <3> QED
      BY <3>1, <3>6, <3>7
  <2>2. CASE k = "HARDWARE_BP"
    <3>1. PICK t, e : t = bps[k][i].pid /\ e = bps[k][i]
      OBVIOUS
    <3>2. /\ SW' = SW /\ e \in Entry
          /\ proc' = IF t \in Pid THEN [proc EXCEPT ![t] = dHardwareBP(e, proc[t])] ELSE proc
      BY <1>0, <1>1, <1>3, <2>2, <3>1, ListFacts DEF Removed, Lists, SW
    <3>3. t \in Pid => dHardwareBP(e, proc[t]).mem = proc[t].mem
      BY <1>0, <3>2, HardwareGoneFacts
    <3>4. \A p \in pids : proc'[p].mem = proc[p].mem
      BY <1>0, <3>2, <3>3 DEF Processes
    <3> QED
      BY <1>0, <3>2, <3>4, ArmedSame DEF Running
  <2>3. CASE k = "MEMORY_BP"
    <3>1. SW' = SW /\ proc' = proc
      BY <1>0, <1>1, <1>3, <2>3 DEF Removed, Lists, SW
    <3> QED
      BY <1>0, <3>1, ArmedSame
  <2> QED
    BY <1>0, <2>1, <2>2, <2>3 DEF Kind
<1> QED
  BY <1>0, <1>1, <1>2, <1>3, RemoveFacts

(* The worker's read: while it lasts nothing is claimed; at its end every  *)
(* entry that does not wait is written again, to its own place.            *)
LEMMA ArmedHide ==
  ASSUME ArmedHere, NEW p \in Pid, Hide(p) PROVE ArmedAll'
<1>1. /\ TypeOK /\ p \in Running /\ hidden' = p /\ SW' = SW /\ flag' = flag /\ pids' = pids
  BY DEF Hide, KeepSession, SW, ArmedHere, TrapHere
<1>2. /\ pids = {p} /\ p # NoPid /\ Guarded(SW, proc[p].mem, flag[p], hidden)
  BY <1>1, ArmedRunning
<1>3. DOMAIN proc'[p].mem = DOMAIN proc[p].mem
  BY <1>1, HideFacts DEF Swept, Touched
<1>4. Guarded(SW, proc'[p].mem, flag[p], p)
  BY <1>2, <1>3, GuardedHidden
<1>5. Running' \subseteq {p}
  BY <1>1, <1>2 DEF Running
<1> QED
  BY <1>1, <1>4, <1>5 DEF ArmedAll

LEMMA ArmedShow ==
  ASSUME ArmedHere, Show PROVE ArmedAll'
<1>0. TypeOK /\ hidden' = NoPid /\ SW' = SW /\ flag' = flag /\ hidden # NoPid /\ Running' = Running
  <2>1. /\ TypeOK /\ hidden' = NoPid /\ SW' = SW /\ flag' = flag /\ hidden # NoPid
        /\ setup' = setup /\ pids' = pids /\ main' = main
    BY ShowKeeps DEF Show, KeepSession, ArmedHere, TrapHere, ProperList, Proper
  <2>2. SamePlaces(proc, proc')
    BY <2>1, ShowFacts DEF Swept, SamePlaces
  <2> QED
    BY <2>1, <2>2, SteadyFacts DEF Steady
<1> SUFFICES ASSUME NEW p \in Running PROVE Guarded(SW, proc'[p].mem, flag[p], NoPid)
  BY <1>0 DEF ArmedAll
<1>1. /\ p \in Pid /\ hidden = p /\ Guarded(SW, proc[p].mem, flag[p], hidden) /\ SW \in Seq(Entry)
      /\ ProperList(SW, {p}) /\ (\A x : HandleOf(x) = p) /\ proc[p] \in Process
  BY <1>0, ArmedRunning
<1>2. PICK I, m, n : /\ I = Visited(hidden)
                     /\ m = proc[p].mem /\ n = proc'[p].mem
  OBVIOUS
<1>3. DOMAIN n = DOMAIN m /\ \A a \in DOMAIN m : LastOver(I, p, a) # {} => n[a] = SW[Min(LastOver(I, p, a))].data
  <2>1. PICK f : f = [a \in DOMAIN m |-> IF LastOver(I, p, a) = {} THEN m[a]
                                         ELSE SW[Min(LastOver(I, p, a))].data]
    OBVIOUS
  <2>2. proc'[p] = [proc[p] EXCEPT !.mem = f]
    BY <1>1, <1>2, <2>1 DEF Show, SW
  <2>3. n = f
    BY <1>1, <1>2, <2>2 DEF Process
  <2> QED
    BY <2>1, <2>3
<1>4. ASSUME NEW i \in DOMAIN SW, ~SW[i].restore PROVE n[SW[i].offset] # "code"
  <2>1. PICK e, a : e = SW[i] /\ a = e.offset
    OBVIOUS
  <2>2. e \in Entry /\ Proper(e, {p}) /\ e.size = 1 /\ a \in DOMAIN m /\ a \in Int
    BY <1>1, <1>2, <2>1, ElementFacts, EntryFields DEF ProperList, Proper, Guarded
  <2>3. Cells(e) = {a}
    BY <2>1, <2>2, OneCell, CellFacts
  <2>4. i \in I
    BY <1>1, <1>2, <1>4, <2>1, <2>2, <2>3 DEF Visited, Writable, Proper, Accessed, SW
  <2>5. \A j \in I : a \in Cells(SW[j]) => j = i
    <3> SUFFICES ASSUME NEW j \in I, a \in Cells(SW[j]) PROVE j = i
      OBVIOUS
    <3>1. j \in DOMAIN SW
      BY <1>2, VisitedFacts
    <3>2. SW[j] \in Entry /\ SW[j].size = 1
      BY <1>1, <3>1, ElementFacts DEF ProperList, Proper
    <3>3. SW[j].offset = a
      BY <2>2, <3>2, OneCell
    <3> QED
      BY <1>1, <2>1, <3>1, <3>3 DEF Guarded
  <2>6. i \in LastOver(I, p, a)
    <3>1. DOMAIN SW \subseteq Nat /\ I \subseteq DOMAIN SW
      BY <1>1, <1>2, VisitedFacts
    <3>2. \A j \in I : j > i => a \notin Cells(bps["SOFTWARE_BP"][j])
      BY <2>5, <3>1 DEF SW
    <3> QED
      BY <1>1, <2>1, <2>3, <2>4, <3>2 DEF LastOver, SW
  <2>7. I \in SUBSET (DOMAIN SW)
    BY <1>2, VisitedFacts
  <2>8. PICK j \in I : j = Min(LastOver(I, p, a))
    BY <1>0, <2>6, <2>7, LastOverFacts
  <2>9. SW[j].data \in Trap
    BY <1>1, <2>7, ElementFacts, EntryFields
  <2> QED
    BY <1>3, <2>1, <2>2, <2>6, <2>8, <2>9 DEF Trap
<1> QED
  BY <1>1, <1>2, <1>3, <1>4 DEF Guarded

LEMMA FreshNext == ASSUME ArmedHere, [Next]_vars PROVE FreshOK'
<1>0. /\ TrapHere /\ TypeOK /\ World /\ SetupOK /\ bps \in Lists /\ proc \in Processes /\ FreshOK
      /\ "SOFTWARE_BP" \in Kind /\ MaxSessions = 1 /\ sessions \in Nat /\ SW \in Seq(Entry)
      /\ ~Detaching /\ ~ProjectFiles
  BY TrapHereFacts DEF ArmedHere, TrapHere, TypeOK
<1>1. Fresh => pids = {} /\ Running = {}
  BY <1>0 DEF Fresh, FreshOK, World, Running
<1>2. ASSUME SW' = SW, hidden' = hidden, dbg' = dbg, sessions' = sessions,
             pids' = pids \/ (pids' # {} /\ dbg = "loop" /\ sessions # 0)
      PROVE  FreshOK'
  BY <1>0, <1>2 DEF FreshOK, Fresh
<1>3. CASE UNCHANGED vars \/ Detach \/ StartClear
  BY <1>2, <1>3 DEF vars, SW, Detach, StartClear
<1>4. CASE StartSession
  BY <1>0, <1>4 DEF StartSession, FreshOK, Fresh, SW
<1>5. CASE StopLoop
  BY <1>0, <1>5 DEF StopLoop, World
<1>6. CASE CleanupStep
  <2>1. /\ hidden' = hidden /\ dbg' = dbg /\ sessions' = sessions /\ pids' = pids
        /\ dbg \in {"enter", "leave"} /\ it <= Len(SW) /\ it \in Nat \ {0}
    BY <1>0, <1>6 DEF CleanupStep, SW, TypeOK
  <2>2. SW # <<>>
    BY <1>0, <2>1
  <2>3. sessions # 0 /\ dbg = "leave"
    BY <1>0, <2>1, <2>2 DEF FreshOK, Fresh
  <2> QED
    BY <2>1, <2>3 DEF FreshOK, Fresh
<1>7. CASE CleanWorkSpaceDone
  BY <1>0, <1>7 DEF CleanWorkSpaceDone, FreshOK, Fresh, SW
<1>8. ASSUME NEW p \in Pid, NEW b \in Bases, CreateProcess(p, b) PROVE FreshOK'
  <2>1. pids' # {} /\ dbg = "loop" /\ dbg' = dbg /\ sessions' = sessions
    BY <1>8 DEF CreateProcess
  <2> QED
    BY <1>0, <2>1 DEF FreshOK, Fresh
<1>9. ASSUME NEW p \in Pid, p \in Running,
             pids' = pids, sessions' = sessions, dbg' \in {dbg, "leave"}
      PROVE  FreshOK'
  <2>1. ~Fresh
    BY <1>1, <1>9
  <2>2. sessions' # 0 /\ ~Fresh'
    BY <1>9, <2>1 DEF Fresh
  <2> QED
    BY <2>2 DEF FreshOK
<1>10. ASSUME NEW p \in Pid, ExitProcess(p) PROVE FreshOK'
  BY <1>9, <1>10 DEF ExitProcess
<1>11. ASSUME NEW p \in Pid, NEW a, NEW s,
              SingleStep(p) \/ SoftwareHit(p, a) \/ HardwareHit(p, s) \/ Hide(p)
       PROVE  FreshOK'
  BY <1>9, <1>11 DEF SingleStep, SoftwareHit, HardwareHit, Hide, KeepSession
<1>12. ASSUME NEW s \in Offered, NEW pid \in UserPid, NEW off \in Address,
              GUIAdd(s.kind, pid, off, s.size, s.handle, s.op)
       PROVE  FreshOK'
  <2>1. pids' = pids /\ hidden' = hidden /\ dbg' = dbg /\ sessions' = sessions
    BY <1>12 DEF GUIAdd, KeepSession
  <2>2. ASSUME Fresh PROVE SW' = SW
    <3>1. \A x : HandleOf(x) \notin Pid
      BY <1>0, <1>1, <2>2, TrapHereFacts
    <3>2. PICK cur, A, h : /\ h = HandleOf(pid)
                           /\ A = BreakpointAdd(bps, proc, s.kind, pid, h, cur, off, s.size, s.handle, s.op)
                           /\ bps' = A.bps
      BY <1>12 DEF GUIAdd
    <3>3. /\ s.kind \in Kind /\ s.size \in Span /\ s.handle \in Handle /\ s.op \in Trap
          /\ off \in Int /\ pid \in Pid \cup {AnyPid}
      BY <1>0, OfferedFacts, AddressFacts DEF SetupOK
    <3>4. CASE s.kind = "SOFTWARE_BP"
      <4>1. \/ Same(bps, proc, A)
            \/ \E e : AddedSoftware(bps, proc, pid, h, off, s.size, s.handle, s.op, e, A)
        BY <1>0, <3>2, <3>3, <3>4, AddSoftware
      <4> QED
        BY <3>1, <3>2, <4>1 DEF AddedSoftware, Same, SW
    <3>5. CASE s.kind = "MEMORY_BP"
      <4>1. Same(bps, proc, A) \/ \E e : AddedMemory(bps, proc, off, e, A)
        BY <1>0, <3>2, <3>3, <3>5, AddMemory
      <4> QED
        BY <1>0, <3>2, <4>1 DEF AddedMemory, Same, Lists, SW
    <3>6. CASE s.kind = "HARDWARE_BP"
      <4>1. \/ Same(bps, proc, A)
            \/ \E e, t : AddedHardware(bps, proc, pid, h, cur, off, s.size, s.handle, s.op, e, t, A)
        BY <1>0, <3>2, <3>3, <3>6, AddHardware
      <4> QED
        BY <1>0, <3>2, <4>1 DEF AddedHardware, Same, Lists, SW
    <3> QED
      BY <3>3, <3>4, <3>5, <3>6 DEF Kind
  <2> QED
    BY <1>0, <2>1, <2>2 DEF FreshOK, Fresh
<1>13. ASSUME NEW k \in UserKind, NEW off, GUIRemove(k, off) PROVE FreshOK'
  <2>1. pids' = pids /\ hidden' = hidden /\ dbg' = dbg /\ sessions' = sessions /\ k \in Kind
    BY <1>0, <1>13 DEF GUIRemove, KeepSession, SetupOK
  <2>2. Shrinks(SW, SW')
    BY <1>0, <1>13, <2>1, RemoveList DEF GUIRemove, SW
  <2>3. SW = <<>> => SW' = <<>>
    BY <2>2 DEF Shrinks
  <2> QED
    BY <1>0, <2>1, <2>3 DEF FreshOK, Fresh
<1>14. CASE ClearStep
  BY <1>0, <1>14 DEF ClearStep, World
<1>15. ASSUME NEW s, NEW r, InsertFromProjectFile(s.kind, r, s.size, s.op) PROVE FreshOK'
  BY <1>0, <1>15 DEF InsertFromProjectFile
<1>16. CASE Show
  <2>1. SW' = SW
    BY <1>0, <1>16, ShowKeeps DEF TrapHere, ProperList, Proper
  <2> QED
    BY <1>0, <1>16, <2>1 DEF Show, KeepSession, FreshOK, Fresh
<1> QED
  BY <1>3, <1>4, <1>5, <1>6, <1>7, <1>8, <1>10, <1>11, <1>12, <1>13, <1>14, <1>15, <1>16
  DEF Next, Debugger, GUI, Disassembler

LEMMA ArmedEvent == ASSUME ArmedHere, [Next]_vars PROVE ArmedAll'
<1>0. /\ TrapHere /\ TypeOK /\ World /\ SetupOK /\ bps \in Lists /\ proc \in Processes /\ FreshOK
      /\ "SOFTWARE_BP" \in Kind /\ MaxSessions = 1 /\ sessions \in Nat /\ SW \in Seq(Entry)
      /\ ~Detaching /\ ~ProjectFiles /\ pids \subseteq Pid
  BY TrapHereFacts, BaseFacts DEF ArmedHere, TrapHere, TypeOK
<1>1. ASSUME SW' = SW, proc' = proc, flag' = flag, hidden' = hidden, pids' = pids PROVE ArmedAll'
  BY <1>1, ArmedSame DEF Running
<1>2. CASE UNCHANGED vars \/ StartSession \/ StopLoop \/ Detach \/ StartClear
  BY <1>1, <1>2 DEF vars, StartSession, StopLoop, Detach, StartClear, SW
<1>3. CASE CleanupStep
  <2>1. pids' = pids /\ proc' = proc /\ dbg \in {"enter", "leave"}
    BY <1>3 DEF CleanupStep
  <2>2. Running' = {}
    BY <1>0, <2>1 DEF World, Running
  <2> QED
    BY <2>2 DEF ArmedAll
<1>4. CASE CleanWorkSpaceDone
  BY <1>4 DEF CleanWorkSpaceDone, Running, ArmedAll
<1>5. ASSUME NEW p \in Pid, NEW b \in Bases, CreateProcess(p, b) PROVE ArmedAll'
  BY <1>5, ArmedCreate
<1>6. ASSUME NEW p \in Pid, ExitProcess(p) PROVE ArmedAll'
  <2>1. /\ p \in Running /\ proc' = [proc EXCEPT ![p] = DeadProcess] /\ pids' = pids /\ pids = {p}
    BY <1>6, ArmedRunning DEF ExitProcess
  <2>2. proc'[p] = DeadProcess
    BY <1>0, <2>1 DEF Processes
  <2>3. Running' = {}
    BY <2>1, <2>2, DeadFacts DEF Running
  <2> QED
    BY <2>3 DEF ArmedAll
<1>7. ASSUME NEW p \in Pid, SingleStep(p) PROVE ArmedAll'
  BY <1>7, ArmedSingleStep DEF SingleStep, KeepSession
<1>8. ASSUME NEW p \in Pid, NEW a, SoftwareHit(p, a) PROVE ArmedAll'
  BY <1>8, ArmedSoftwareHit DEF SoftwareHit, KeepSession
<1>9. ASSUME NEW p \in Pid, NEW s \in Slot, HardwareHit(p, s) PROVE ArmedAll'
  BY <1>9, ArmedHardwareHit DEF HardwareHit
<1>10. ASSUME NEW s \in Offered, NEW pid \in UserPid, NEW off \in Address,
              GUIAdd(s.kind, pid, off, s.size, s.handle, s.op)
       PROVE  ArmedAll'
  BY <1>10, ArmedUserAdd
<1>11. ASSUME NEW k \in UserKind, NEW off, GUIRemove(k, off) PROVE ArmedAll'
  <2>1. k \in Kind /\ setup' = setup /\ pids' = pids /\ main' = main
    BY <1>0, <1>11 DEF GUIRemove, KeepSession, SetupOK
  <2>2. PICK R : R = BreakpointRemove(bps, proc, k, off) /\ proc' = R.proc
    BY <1>11 DEF GUIRemove
  <2>3. SamePlaces(proc, proc')
    BY <1>0, <2>1, <2>2, RemovePlaces
  <2>4. Running' = Running
    BY <1>0, <2>1, <2>3, SteadyFacts DEF Steady
  <2> QED
    BY <1>11, <2>4, ArmedUserRemove
<1>12. CASE ClearStep
  BY <1>0, <1>12 DEF ClearStep, World
<1>13. ASSUME NEW s, NEW r, InsertFromProjectFile(s.kind, r, s.size, s.op) PROVE ArmedAll'
  BY <1>0, <1>13 DEF InsertFromProjectFile
<1>14. ASSUME NEW p \in Pid, Hide(p) PROVE ArmedAll'
  BY <1>14, ArmedHide
<1>15. CASE Show
  BY <1>15, ArmedShow
<1> QED
  BY <1>2, <1>3, <1>4, <1>5, <1>6, <1>7, <1>8, <1>9, <1>10, <1>11, <1>12, <1>13, <1>14, <1>15
  DEF Next, Debugger, GUI, Disassembler

LEMMA InitArmed == Init => ArmedInv
<1> SUFFICES ASSUME Init PROVE FreshOK /\ ArmedAll
  BY DEF ArmedInv
<1>1. SW = <<>> /\ pids = {} /\ sessions = 0 /\ dbg = "idle" /\ hidden = NoPid
  BY DEF Init, SW, Kind
<1> QED
  BY <1>1 DEF FreshOK, ArmedAll, Running

LEMMA NextArmed ==
  ASSUME TrapSetups PROVE TypeOK /\ World /\ OneShotInv /\ TrapInv /\ ArmedInv /\ [Next]_vars => ArmedInv'
<1> SUFFICES ASSUME TypeOK, World, OneShotInv, TrapInv, ArmedInv, [Next]_vars PROVE ArmedInv'
  OBVIOUS
<1>1. /\ ProjectFiles' <=> ProjectFiles
      /\ DebugChilds' <=> DebugChilds
      /\ MaxSessions' = MaxSessions
  BY SetupStays DEF ProjectFiles, DebugChilds, MaxSessions
<1>2. ASSUME ~ProjectFiles, ~DebugChilds, MaxSessions = 1 PROVE FreshOK' /\ ArmedAll'
  <2>1. ArmedHere
    BY <1>2, TrapFacts DEF ArmedHere, ArmedInv
  <2> QED
    BY <2>1, FreshNext, ArmedEvent
<1> QED
  BY <1>1, <1>2 DEF ArmedInv

(* The property is about one session of one process; a project file is     *)
(* left out there, as in TrapSetups.                                       *)
ArmedSetups == \A s \in Setups : "project" \in s.may => "childs" \in s.may \/ s.sessions # 1

(* A hit takes the trap of a kept breakpoint out, and the single step puts *)
(* it back: between them the breakpoint carries the mark "restore" and     *)
(* DebuggingLoop the flag of its process.  No add, remove, second hit,     *)
(* rebase at the entry point or read of the disassembler leaves a          *)
(* breakpoint without trap and without mark, or with a mark that no step   *)
(* answers.                                                                *)
THEOREM HitsAreRestored ==
  ASSUME OneShotSetups, TrapSetups, ArmedSetups PROVE Spec => []ArmedUnlessWaiting
<1>1. Init => TypeOK /\ World /\ OneShotInv /\ TrapInv /\ ArmedInv
  BY InitTyped, InitWorld, InitOneShots, InitTraps, InitArmed
<1>2. TypeOK /\ World /\ OneShotInv /\ TrapInv /\ ArmedInv /\ [Next]_vars
        => (TypeOK /\ World /\ OneShotInv /\ TrapInv /\ ArmedInv)'
  BY NextTyped, NextWorld, NextOneShots, NextTraps, NextArmed
<1>3. TypeOK /\ World /\ OneShotInv /\ TrapInv /\ ArmedInv => ArmedUnlessWaiting
  <2> SUFFICES ASSUME TypeOK, World, OneShotInv, TrapInv, ArmedInv, hidden = NoPid, ~DebugChilds,
                      MaxSessions = 1, NEW p \in Running, NEW i \in Disarmed(p)
               PROVE  SW[i].restore /\ flag[p] = "RESTORE_BP_SOFTWARE"
    BY DEF ArmedUnlessWaiting
  <2>1. ~ProjectFiles
    BY DEF ArmedSetups, TypeOK, ProjectFiles, DebugChilds, MaxSessions
  <2>2. ArmedHere
    BY <2>1, TrapFacts DEF ArmedHere, ArmedInv
  <2>3. /\ Guarded(SW, proc[p].mem, flag[p], hidden) /\ SW \in Seq(Entry) /\ ProperList(SW, {p})
    BY <2>2, ArmedRunning
  <2>4. /\ i \in DOMAIN SW /\ SW[i].handle = "BP_KEEP"
        /\ \E a \in Cells(SW[i]) : proc[p].mem[a] = "code"
    BY DEF Disarmed
  <2>5. SW[i] \in Entry /\ SW[i].size = 1
    BY <2>3, <2>4, ElementFacts DEF ProperList, Proper
  <2>6. proc[p].mem[SW[i].offset] = "code"
    BY <2>4, <2>5, OneCell, CellFacts
  <2>7. SW[i].restore
    BY <2>3, <2>4, <2>6 DEF Guarded
  <2>8. i \in Waiting(SW)
    BY <2>4, <2>7 DEF Waiting
  <2> QED
    BY <2>3, <2>7, <2>8 DEF Guarded
<1> QED
  BY <1>1, <1>2, <1>3, PTL DEF Spec

-----------------------------------------------------------------------------
(* The rebase at the entry point: RearmedAtEntry.                          *)

(* One byte, and where the breakpoint is in relation to its base: at the   *)
(* offset of a cell of the image, or in memory of no module.               *)
Fits(e) ==
  /\ e.size = 1
  /\ e.handle = "BP_KEEP" => IF e.named THEN e.offset - e.base \in Rva
                                        ELSE e.base = e.offset /\ e.offset \in Heap

FitList(L) == \A i \in DOMAIN L : Fits(L[i])

FitInv == FitList(SW)

(* The image and the heap lie apart, and debugged children load the image  *)
(* where the first process has it; breakpoints have one byte.              *)
EntrySetups ==
  /\ Size = {1}
  /\ \A s \in Setups :
       /\ "ud2" \notin s.opcodes
       /\ \A b \in s.bases, r \in s.rvas : b + r \notin s.heap
       /\ "childs" \notin s.may \/ \A b, c \in s.bases : b = c

FitHere ==
  /\ TypeOK /\ World /\ FitList(SW) /\ Size = {1} /\ "ud2" \notin Opcode
  /\ \A b \in Bases : \A a \in Image(b) : a \notin Heap
  /\ ~DebugChilds \/ \A b, c \in Bases : b = c

LEMMA FitFacts == ASSUME EntrySetups, TypeOK, World, FitInv PROVE FitHere
<1>1. setup \in Setups
  BY DEF TypeOK
<1>2. /\ "ud2" \notin Opcode /\ (\A b \in Bases, r \in Rva : b + r \notin Heap)
      /\ ~DebugChilds \/ \A b, c \in Bases : b = c
  BY <1>1 DEF EntrySetups, DebugChilds, Opcode, Bases, Rva, Heap
<1>3. \A b \in Bases : \A a \in Image(b) : a \notin Heap
  BY <1>2 DEF Image
<1> QED
  BY <1>2, <1>3 DEF FitHere, FitInv, EntrySetups

LEMMA FitKept == ASSUME setup' = setup, FitList(SW') PROVE FitInv'
<1>1. Rva' = Rva /\ Heap' = Heap
  BY DEF Rva, Heap
<1>2. \A L : FitList(L)' <=> FitList(L')
  BY <1>1 DEF FitList, Fits
<1> QED
  BY <1>2 DEF FitInv, FitList, Fits

(* Every entry of K is where one of L is.                                  *)
SameSpot(e, r) == /\ r.size = e.size /\ r.handle = e.handle /\ r.pid = e.pid
                  /\ r.named = e.named /\ r.base = e.base /\ r.offset = e.offset

FromList(L, K) == \A j \in DOMAIN K : \E i \in DOMAIN L : SameSpot(L[i], K[j])

LEMMA FitFrom == ASSUME NEW L, NEW K, FitList(L), FromList(L, K) PROVE FitList(K)
BY DEF FitList, FromList, Fits, SameSpot

LEMMA FromGone ==
  ASSUME NEW L \in Seq(Entry), NEW K, Shrinks(L, K) PROVE FromList(L, K)
<1>1. CASE K = L \/ K = <<>>
  BY <1>1 DEF FromList, SameSpot
<1>2. ASSUME NEW i \in DOMAIN L, K = RemoveAt(L, i) PROVE FromList(L, K)
  <2>1. /\ K \in Seq(Entry) /\ Len(K) = Len(L) - 1
        /\ \A j \in DOMAIN K : K[j] = IF j < i THEN L[j] ELSE L[j + 1]
    BY <1>2, EntryGone
  <2>2. \A j \in DOMAIN K : j \in DOMAIN L /\ j + 1 \in DOMAIN L
    BY <2>1
  <2> QED
    BY <2>1, <2>2 DEF FromList, SameSpot
<1> QED
  BY <1>1, <1>2 DEF Shrinks

LEMMA FromSet ==
  ASSUME NEW L \in Seq(Entry), NEW i \in DOMAIN L, NEW e \in Entry, SameSpot(L[i], e),
         NEW K, Changed(L, K, i, e)
  PROVE  FromList(L, K)
<1>1. /\ DOMAIN K = DOMAIN L /\ K[i] = e /\ \A j \in DOMAIN L : j # i => K[j] = L[j]
  BY EntrySet DEF Changed
<1> QED
  BY <1>1 DEF FromList, SameSpot

LEMMA FitGrown ==
  ASSUME NEW L \in Seq(Entry), FitList(L), NEW e \in Entry, Fits(e), NEW K, Grown(L, K, e)
  PROVE  FitList(K)
<1>1. /\ DOMAIN K = DOMAIN L \cup {Len(L) + 1} /\ K[Len(L) + 1] = e
      /\ \A j \in DOMAIN L : K[j] = L[j]
  BY EntryAdded DEF Grown
<1> QED
  BY <1>1 DEF FitList

(* BreakpointRebase puts a breakpoint of the module at its place in the    *)
(* image of a living process.                                              *)
LEMMA FitRebased ==
  ASSUME FitHere, NEW e \in Entry, Fits(e), NEW pr \in Process, Placed(pr),
         NEW r, r = Rebased(e, pr)
  PROVE  /\ Fits(r) /\ SameBut(e, r)
         /\ Alive(pr) /\ r.handle = "BP_KEEP" /\ r.named
              => r.base = pr.base /\ r.offset \in Image(pr.base)
<1>1. /\ SameBut(e, r) /\ r.org = e.org
      /\ e.handle # "BP_KEEP" => r = e
      /\ e.handle = "BP_KEEP" =>
           /\ r.offset = (e.offset - e.base) + r.base
           /\ IF Alive(pr) /\ (e.named \/ e.offset \in Image(pr.base))
              THEN r.base = pr.base /\ r.named
              ELSE r.base = e.offset /\ r.named = e.named
  BY RebasedFacts
<1>2. /\ e.offset \in Int /\ e.base \in Int /\ r.base \in Int /\ r.offset \in Int
      /\ e.named \in BOOLEAN /\ r.named \in BOOLEAN
  BY <1>1, EntryFields DEF SameBut
<1>3. Rva \subseteq Int
  BY BaseFacts DEF FitHere, SetupOK
<1>4. CASE e.handle # "BP_KEEP"
  BY <1>1, <1>4 DEF Fits, SameBut
<1>5. CASE e.handle = "BP_KEEP" /\ ~e.named
  <2>1. e.base = e.offset /\ e.offset \in Heap
    BY <1>5 DEF Fits
  <2>2. ~(Alive(pr) /\ e.offset \in Image(pr.base))
    BY <2>1 DEF FitHere, Placed
  <2>3. r.base = e.offset /\ ~r.named /\ r.offset = e.offset
    BY <1>1, <1>2, <1>5, <2>1, <2>2
  <2> QED
    BY <1>1, <1>5, <2>1, <2>3 DEF Fits, SameBut
<1>6. CASE e.handle = "BP_KEEP" /\ e.named
  <2>1. PICK v \in Rva : v = e.offset - e.base
    BY <1>6 DEF Fits
  <2>2. r.named /\ r.offset = v + r.base
    BY <1>1, <1>6, <2>1
  <2>3. r.offset - r.base = v /\ r.offset = r.base + v
    BY <1>2, <1>3, <2>1, <2>2
  <2>4. Alive(pr) => r.base = pr.base
    BY <1>1, <1>6
  <2>5. Fits(r)
    BY <1>1, <1>6, <2>1, <2>2, <2>3 DEF Fits, SameBut
  <2> QED
    BY <1>1, <2>1, <2>3, <2>4, <2>5 DEF Image
<1> QED
  BY <1>4, <1>5, <1>6

(* What BreakpointInit leaves in the list is where it was.                 *)
LEMMA FromInit ==
  ASSUME NEW B \in Lists, NEW P \in Processes, NEW p \in Pid, NEW R, R = BreakpointInit(B, P, p)
  PROVE  /\ R.bps["SOFTWARE_BP"] \in Seq(Entry) /\ DOMAIN R.bps["SOFTWARE_BP"] = DOMAIN B["SOFTWARE_BP"]
         /\ FromList(B["SOFTWARE_BP"], R.bps["SOFTWARE_BP"])
         /\ \A i \in DOMAIN B["SOFTWARE_BP"] :
              SameSpot(B["SOFTWARE_BP"][i], R.bps["SOFTWARE_BP"][i])
<1>1. PICK L, K : L = B["SOFTWARE_BP"] /\ K = InitSoftware(L, p, P[p]).list
  OBVIOUS
<1>2. L \in Seq(Entry) /\ P[p] \in Process /\ R.bps["SOFTWARE_BP"] = K
  BY <1>1, InitFacts, ListFacts DEF Kind, Processes
<1>3. /\ K \in Seq(Entry) /\ DOMAIN K = DOMAIN L
      /\ \A i \in DOMAIN L : /\ SameBut(L[i], K[i]) /\ K[i].offset = L[i].offset
                             /\ K[i].base = L[i].base /\ K[i].named = L[i].named
  BY <1>1, <1>2, InitSoftwareFacts
<1>4. \A i \in DOMAIN L : SameSpot(L[i], K[i])
  BY <1>3 DEF SameSpot, SameBut
<1>5. FromList(L, K)
  BY <1>3, <1>4 DEF FromList
<1> QED
  BY <1>1, <1>2, <1>3, <1>4, <1>5

LEMMA FitUpdated ==
  ASSUME FitHere, NEW C, C = UpdateOffsets(bps)
  PROVE  /\ C \in Lists /\ FitList(C["SOFTWARE_BP"])
         /\ \A i \in DOMAIN C["SOFTWARE_BP"] :
              LET r == C["SOFTWARE_BP"][i]
                  h == HandleOf(r.pid)
              IN  (h \in Running /\ r.handle = "BP_KEEP" /\ r.named)
                    => r.base = proc[h].base /\ r.offset \in Image(proc[h].base)
<1>1. /\ C \in Lists /\ DOMAIN C["SOFTWARE_BP"] = DOMAIN SW
      /\ \A i \in DOMAIN SW : C["SOFTWARE_BP"][i] = Rebased(SW[i], Accessed(HandleOf(SW[i].pid)))
  BY BaseFacts, UpdateFacts DEF FitHere, SW
<1>2. ASSUME NEW i \in DOMAIN SW, NEW r, r = C["SOFTWARE_BP"][i], NEW h, h = HandleOf(r.pid)
      PROVE  /\ Fits(r)
             /\ (h \in Running /\ r.handle = "BP_KEEP" /\ r.named)
                    => r.base = proc[h].base /\ r.offset \in Image(proc[h].base)
  <2>1. PICK e, g, pr : e = SW[i] /\ g = HandleOf(e.pid) /\ pr = Accessed(g)
    OBVIOUS
  <2>2. r = Rebased(e, pr) /\ e \in Entry /\ Fits(e)
    BY <1>1, <1>2, <2>1, BaseFacts DEF FitHere, FitList
  <2>3. pr \in Process /\ Placed(pr)
    <3>1. CASE g \in Pid
      BY <2>1, <3>1, BaseFacts DEF Accessed, FitHere, World
    <3>2. CASE g \notin Pid
      BY <2>1, <3>2, DeadFacts DEF Accessed, Placed
    <3> QED
      BY <3>1, <3>2
  <2>4. /\ Fits(r) /\ SameBut(e, r)
        /\ Alive(pr) /\ r.handle = "BP_KEEP" /\ r.named
              => r.base = pr.base /\ r.offset \in Image(pr.base)
    BY <2>2, <2>3, FitRebased
  <2>5. h = g
    BY <1>2, <2>1, <2>4 DEF SameBut
  <2>6. h \in Running => pr = proc[h] /\ Alive(pr)
    BY <2>1, <2>5, BaseFacts DEF Running, Accessed, FitHere
  <2> QED
    BY <2>4, <2>6
<1> QED
  BY <1>1, <1>2 DEF FitList

(* The steps of the list.                                                  *)
LEMMA FitCreate ==
  ASSUME FitHere, NEW p \in Pid, NEW b \in Bases, CreateProcess(p, b) PROVE FitList(SW')
<1>0. TypeOK /\ bps \in Lists /\ "SOFTWARE_BP" \in Kind /\ FitList(bps["SOFTWARE_BP"])
  BY BaseFacts DEF FitHere, SW
<1>1. PICK F, R, A : Created(p, b, F, R, A)
  BY <1>0, CreateFacts
<1>2. PICK off, L : off = b + EntryRva /\ L = R.bps["SOFTWARE_BP"]
  OBVIOUS
<1>3. /\ F \in Processes /\ R = BreakpointInit(bps, F, p)
      /\ R.bps \in Lists /\ R.proc \in Processes /\ off \in Int
      /\ A = BreakpointAdd(R.bps, R.proc, "SOFTWARE_BP", p, p, p, off, 1, "BP_DONOTKEEP", "int3")
      /\ SW' = A.bps["SOFTWARE_BP"]
  BY <1>1, <1>2 DEF Created, SW
<1>4. L \in Seq(Entry) /\ FitList(L)
  BY <1>0, <1>2, <1>3, FromInit, FitFrom
<1>5. p \in Pid \cup {AnyPid} /\ 1 \in Span /\ "BP_DONOTKEEP" \in Handle /\ "int3" \in Trap
  BY DEF Span, Handle, OneShot, Trap
<1>6. \/ Same(R.bps, R.proc, A)
      \/ \E e : AddedSoftware(R.bps, R.proc, p, p, off, 1, "BP_DONOTKEEP", "int3", e, A)
  BY <1>3, <1>5, AddSoftware
<1>7. CASE Same(R.bps, R.proc, A)
  BY <1>2, <1>3, <1>4, <1>7 DEF Same
<1>8. ASSUME NEW e, AddedSoftware(R.bps, R.proc, p, p, off, 1, "BP_DONOTKEEP", "int3", e, A)
      PROVE  FitList(SW')
  <2>1. e \in Entry /\ Fits(e) /\ A.bps = [R.bps EXCEPT !["SOFTWARE_BP"] = Append(L, e)]
    BY <1>2, <1>8 DEF AddedSoftware, IsNew, Fits
  <2>2. Grown(L, SW', e)
    BY <1>0, <1>3, <2>1 DEF Lists, Grown
  <2> QED
    BY <1>4, <2>1, <2>2, FitGrown
<1> QED
  BY <1>6, <1>7, <1>8

LEMMA FitUserAdd ==
  ASSUME FitHere, NEW s \in Offered, NEW pid \in UserPid, NEW off \in Address,
         GUIAdd(s.kind, pid, off, s.size, s.handle, s.op)
  PROVE  FitList(SW')
<1>0. /\ TypeOK /\ bps \in Lists /\ proc \in Processes /\ SetupOK /\ "SOFTWARE_BP" \in Kind
      /\ SW \in Seq(Entry) /\ FitList(SW)
  BY BaseFacts DEF FitHere
<1>1. PICK cur, A : /\ A = BreakpointAdd(bps, proc, s.kind, pid, HandleOf(pid), cur, off,
                                         s.size, s.handle, s.op)
                    /\ bps' = A.bps
  BY DEF GUIAdd
<1>2. /\ s.kind \in Kind /\ s.size \in Span /\ s.handle \in Handle /\ s.op \in Trap
      /\ off \in Int /\ pid \in Pid \cup {AnyPid}
  BY <1>0, OfferedFacts, AddressFacts DEF SetupOK
<1>3. PICK h : h = HandleOf(pid)
  OBVIOUS
<1>4. s.op # "ud2" /\ s.size = 1
  BY OneByte DEF FitHere
<1>5. CASE s.kind = "SOFTWARE_BP"
  <2>1. \/ Same(bps, proc, A)
        \/ \E e : AddedSoftware(bps, proc, pid, h, off, s.size, s.handle, s.op, e, A)
    BY <1>0, <1>1, <1>2, <1>3, <1>5, AddSoftware
  <2>2. CASE Same(bps, proc, A)
    BY <1>0, <1>1, <2>2 DEF Same, SW
  <2>3. ASSUME NEW e, AddedSoftware(bps, proc, pid, h, off, s.size, s.handle, s.op, e, A)
        PROVE  FitList(SW')
    <3>1. PICK pr : pr = proc[h]
      OBVIOUS
    <3>2. /\ e \in Entry /\ e.size = 1 /\ e.offset = off /\ e.handle = s.handle /\ Writable(e, pr)
          /\ h \in Pid /\ A.bps = [bps EXCEPT !["SOFTWARE_BP"] = Append(SW, e)]
          /\ s.handle = "BP_KEEP" => CalcOffsetForModule(FALSE, off, pr) = [base |-> e.base, named |-> e.named]
      BY <1>4, <2>3, <3>1 DEF AddedSoftware, IsNew, SW
    <3>3. pr \in Process /\ off \in DOMAIN pr.mem
      BY <1>0, <3>1, <3>2, CellFacts DEF Writable, Processes
    <3>4. Alive(pr) /\ pr.base \in Bases /\ DOMAIN pr.mem = Image(pr.base) \cup Heap
      BY <3>1, <3>2, <3>3 DEF FitHere, World, Placed, Alive
    <3>5. ASSUME s.handle = "BP_KEEP"
          PROVE  IF e.named THEN e.offset - e.base \in Rva
                            ELSE e.base = e.offset /\ e.offset \in Heap
      <4>1. PICK c : c = CalcOffsetForModule(FALSE, off, pr)
        OBVIOUS
      <4>2. IF off \in Image(pr.base) THEN c.base = pr.base /\ c.named ELSE c.base = off /\ ~c.named
        BY <1>2, <3>3, <3>4, <4>1, CalcNew
      <4>3. c.base = e.base /\ c.named = e.named
        <5>1. c = [base |-> e.base, named |-> e.named]
          BY <3>2, <3>5, <4>1
        <5> QED
          BY <5>1
      <4>4. CASE off \in Image(pr.base)
        <5>1. PICK v \in Rva : off = pr.base + v
          BY <4>4 DEF Image
        <5>2. v \in Int /\ pr.base \in Int
          BY <1>0, <3>4 DEF SetupOK
        <5>3. e.offset - e.base = v
          BY <3>2, <4>2, <4>3, <4>4, <5>1, <5>2
        <5> QED
          BY <4>2, <4>3, <4>4, <5>1, <5>3
      <4>5. CASE off \notin Image(pr.base)
        BY <3>2, <3>3, <3>4, <4>2, <4>3, <4>5
      <4> QED
        BY <4>4, <4>5
    <3>6. Fits(e)
      BY <3>2, <3>5 DEF Fits
    <3>7. Grown(SW, SW', e)
      BY <1>0, <1>1, <3>2 DEF Lists, Grown, SW
    <3> QED
      BY <1>0, <3>2, <3>6, <3>7, FitGrown
  <2> QED
    BY <2>1, <2>2, <2>3
<1>6. CASE s.kind # "SOFTWARE_BP"
  <2>1. s.kind = "MEMORY_BP" \/ s.kind = "HARDWARE_BP"
    BY <1>2, <1>6 DEF Kind
  <2>2. \/ Same(bps, proc, A) \/ \E e : AddedMemory(bps, proc, off, e, A)
        \/ \E e, t : AddedHardware(bps, proc, pid, h, cur, off, s.size, s.handle, s.op, e, t, A)
    BY <1>0, <1>1, <1>2, <1>3, <2>1, AddMemory, AddHardware
  <2>3. SW' = SW
    BY <1>0, <1>1, <2>2 DEF Same, AddedMemory, AddedHardware, Lists, SW
  <2> QED
    BY <1>0, <2>3
<1> QED
  BY <1>5, <1>6

LEMMA FitStored ==
  ASSUME FitHere, NEW s \in Offered, NEW r \in Rva, InsertFromProjectFile(s.kind, r, s.size, s.op)
  PROVE  FitList(SW')
<1>0. TypeOK /\ bps \in Lists /\ SW \in Seq(Entry) /\ FitList(SW) /\ SetupOK /\ "SOFTWARE_BP" \in Kind
  BY BaseFacts DEF FitHere
<1>1. PICK e, L : /\ Stored(e, r) /\ e.size = (IF s.op = "ud2" THEN 2 ELSE s.size)
                  /\ L = Append(bps[s.kind], e)
                  /\ bps' = [bps EXCEPT ![s.kind] = L]
  BY <1>0, StoredFacts
<1>2. s.kind \in Kind
  BY <1>0, OfferedFacts
<1>3. CASE s.kind = "SOFTWARE_BP"
  <2>1. s.op # "ud2" /\ s.size = 1
    BY OneByte DEF FitHere
  <2>2. /\ e \in Entry /\ e.size = 1 /\ e.handle = "BP_KEEP" /\ e.named /\ e.offset = r
        /\ e.base = 0
    BY <1>1, <2>1 DEF Stored
  <2>3. Fits(e)
    <3>1. r - 0 = r
      BY <1>0 DEF SetupOK
    <3> QED
      BY <2>2, <3>1 DEF Fits
  <2>4. Grown(SW, SW', e)
    BY <1>0, <1>1, <1>3 DEF Lists, SW, Grown
  <2> QED
    BY <1>0, <2>2, <2>3, <2>4, FitGrown
<1>4. CASE s.kind # "SOFTWARE_BP"
  <2>1. SW' = SW
    BY <1>0, <1>1, <1>2, <1>4 DEF Lists, SW
  <2> QED
    BY <1>0, <2>1
<1> QED
  BY <1>3, <1>4

LEMMA FitSingleStep ==
  ASSUME FitHere, NEW p \in Pid, SingleStep(p) PROVE FitList(SW')
<1>0. TypeOK /\ bps \in Lists /\ SW \in Seq(Entry) /\ FitList(SW) /\ "SOFTWARE_BP" \in Kind
  BY BaseFacts DEF FitHere
<1>1. CASE bps' = bps
  BY <1>0, <1>1 DEF SW
<1>2. ASSUME NEW i, NEW h, NEW e, NEW L, SoftwareStep(p, i, h, e, L) PROVE FitList(SW')
  <2>1. i \in DOMAIN SW /\ e \in Entry /\ Changed(SW, SW', i, e)
    BY <1>0, <1>2 DEF SoftwareStep, Changed, Lists, SW
  <2>2. SameSpot(SW[i], e)
    <3>1. SameBut([SW[i] EXCEPT !.restore = FALSE], e) /\ SW[i] \in EntryOf(SW[i].size)
      BY <1>0, <1>2, <2>1, ElementFacts, EntryFields DEF SoftwareStep
    <3>2. e.pid = SW[i].pid /\ e.handle = SW[i].handle /\ e.size = SW[i].size
      BY <3>1 DEF SameBut, EntryOf
    <3> QED
      BY <1>2, <3>2 DEF SoftwareStep, SameSpot
  <2>3. FromList(SW, SW')
    BY <1>0, <2>1, <2>2, FromSet
  <2> QED
    BY <1>0, <2>3, FitFrom
<1>3. ASSUME NEW i, NEW e, NEW L, HardwareStep(p, i, e, L) PROVE FitList(SW')
  BY <1>0, <1>3 DEF HardwareStep, Lists, SW
<1> QED
  BY <1>0, <1>1, <1>2, <1>3, StepFacts

(* Taking a breakpoint of one byte out leaves the other cells alone.       *)
LEMMA ElsewhereSame ==
  ASSUME NEW e \in Entry, e.size = 1, NEW pr \in Process, NEW q, q = dSoftwareBP(e, pr)
  PROVE  q \in Process /\ \A c \in DOMAIN pr.mem : c # e.offset => q.mem[c] = pr.mem[c]
<1>1. \A c \in DOMAIN pr.mem : c \in Cells(e) <=> c = e.offset
  BY OneCell, ProcessFields, MemoryFacts
<1> QED
  BY <1>1, DisarmedFacts

(* After the rebase and the re-arming a hit changes the cell it is at, and *)
(* no entry moves.                                                         *)
LEMMA HitTouches ==
  ASSUME TypeOK, NEW p \in Pid, NEW a, NEW isEP \in BOOLEAN, NEW C, NEW R, Hit(p, a, isEP, C, R),
         NEW L, L = R.bps["SOFTWARE_BP"], FitList(L)
  PROVE  /\ FromList(L, SW')
         /\ \A c \in DOMAIN R.proc[p].mem : c # a => proc'[p].mem[c] = R.proc[p].mem[c]
<1>0. /\ R.bps \in Lists /\ R.proc \in Processes /\ R.proc[p] \in Process /\ "SOFTWARE_BP" \in Kind
      /\ L \in Seq(Entry) /\ \A i \in DOMAIN L : L[i] \in Entry /\ L[i].size = 1
  BY BaseFacts, ListFacts DEF Hit, Ready, Processes, FitList, Fits
<1>1. CASE bps' = R.bps /\ proc' = R.proc
  BY <1>1 DEF FromList, SameSpot, SW
<1>2. ASSUME NEW i \in DOMAIN L, L[i].offset = a, NEW Q,
             Q = [R.proc EXCEPT ![p] = dSoftwareBP(L[i], R.proc[p])]
      PROVE  /\ Q \in Processes /\ Q[p] \in Process /\ DOMAIN Q[p].mem = DOMAIN R.proc[p].mem
             /\ \A c \in DOMAIN R.proc[p].mem : c # a => Q[p].mem[c] = R.proc[p].mem[c]
  <2>1. PICK q : q = dSoftwareBP(L[i], R.proc[p])
    OBVIOUS
  <2>2. /\ q \in Process /\ DOMAIN q.mem = DOMAIN R.proc[p].mem
        /\ \A c \in DOMAIN R.proc[p].mem : c # a => q.mem[c] = R.proc[p].mem[c]
    <3>1. PICK e, pr : e = L[i] /\ pr = R.proc[p]
      OBVIOUS
    <3>2. e \in Entry /\ e.size = 1 /\ e.offset = a /\ pr \in Process /\ q = dSoftwareBP(e, pr)
      BY <1>0, <1>2, <2>1, <3>1
    <3>3. q \in Process /\ \A c \in DOMAIN pr.mem : c # a => q.mem[c] = pr.mem[c]
      BY <3>2, ElsewhereSame
    <3>4. DOMAIN q.mem = DOMAIN pr.mem
      BY <3>2, DisarmedFacts DEF SamePlace
    <3> QED
      BY <3>1, <3>3, <3>4
  <2>3. Q \in Processes /\ Q[p] = q
    BY <1>0, <1>2, <2>1, <2>2 DEF Processes
  <2> QED
    BY <2>2, <2>3
<1>3. ASSUME NEW i \in DOMAIN L, L[i].offset = a, Kept(p, i, R)
      PROVE  /\ FromList(L, SW')
             /\ \A c \in DOMAIN R.proc[p].mem : c # a => proc'[p].mem[c] = R.proc[p].mem[c]
  <2>1. PICK e : e = [L[i] EXCEPT !.restore = TRUE]
    OBVIOUS
  <2>2. /\ e \in Entry /\ Changed(L, SW', i, e)
        /\ proc' = [R.proc EXCEPT ![p] = dSoftwareBP(L[i], R.proc[p])]
    BY <1>0, <1>3, <2>1, EntryChanged DEF Kept, Changed, Lists, SW
  <2>3. SameSpot(L[i], e)
    <3>1. L[i] \in EntryOf(L[i].size)
      BY <1>0, EntryFields
    <3> QED
      BY <2>1, <3>1 DEF SameSpot, EntryOf
  <2>4. FromList(L, SW')
    BY <1>0, <2>2, <2>3, FromSet
  <2> QED
    BY <1>2, <1>3, <2>2, <2>4
<1>4. ASSUME NEW i \in DOMAIN L, L[i].offset = a, NEW Q, NEW X, Dropped(p, a, i, R, Q, X)
      PROVE  /\ FromList(L, SW')
             /\ \A c \in DOMAIN R.proc[p].mem : c # a => proc'[p].mem[c] = R.proc[p].mem[c]
  <2>1. /\ Q = [R.proc EXCEPT ![p] = dSoftwareBP(L[i], R.proc[p])]
        /\ X = BreakpointRemove(R.bps, Q, "SOFTWARE_BP", a)
        /\ bps' = X.bps /\ proc' = X.proc
    BY <1>4 DEF Dropped
  <2>2. /\ Q \in Processes /\ Q[p] \in Process /\ DOMAIN Q[p].mem = DOMAIN R.proc[p].mem
        /\ \A c \in DOMAIN R.proc[p].mem : c # a => Q[p].mem[c] = R.proc[p].mem[c]
    BY <1>2, <1>4, <2>1
  <2>3. FromList(L, SW')
    <3>1. Shrinks(L, SW')
      BY <1>0, <2>1, <2>2, RemoveList DEF SW
    <3> QED
      BY <1>0, <3>1, FromGone
  <2>4. \A c \in DOMAIN Q[p].mem : c # a => X.proc[p].mem[c] = Q[p].mem[c]
    <3>1. Same(R.bps, Q, X) \/ \E j, h : Removed(R.bps, Q, "SOFTWARE_BP", a, j, h, X)
      BY <1>0, <2>1, <2>2, RemoveFacts
    <3>2. CASE Same(R.bps, Q, X)
      BY <3>2 DEF Same
    <3>3. ASSUME NEW j, NEW h, Removed(R.bps, Q, "SOFTWARE_BP", a, j, h, X)
          PROVE  \A c \in DOMAIN Q[p].mem : c # a => X.proc[p].mem[c] = Q[p].mem[c]
      <4>1. /\ j \in DOMAIN L /\ L[j].offset = a
            /\ X.proc = IF h \in Pid THEN [Q EXCEPT ![h] = dSoftwareBP(L[j], Q[h])] ELSE Q
        BY <3>3 DEF Removed
      <4>2. CASE h = p
        <5>1. PICK q : q = dSoftwareBP(L[j], Q[p])
          OBVIOUS
        <5>2. \A c \in DOMAIN Q[p].mem : c # a => q.mem[c] = Q[p].mem[c]
          BY <1>0, <2>2, <4>1, <5>1, ElsewhereSame
        <5>3. X.proc[p] = q
          BY <2>2, <4>1, <4>2, <5>1 DEF Processes
        <5> QED
          BY <5>2, <5>3
      <4>3. CASE h # p
        BY <2>2, <4>1, <4>3 DEF Processes
      <4> QED
        BY <4>2, <4>3
    <3> QED
      BY <3>1, <3>2, <3>3
  <2> QED
    BY <2>1, <2>2, <2>3, <2>4
<1>5. \/ bps' = R.bps /\ proc' = R.proc
      \/ \E i \in DOMAIN L : L[i].offset = a /\ (Kept(p, i, R) \/ \E Q, X : Dropped(p, a, i, R, Q, X))
  BY DEF Hit
<1> QED
  BY <1>1, <1>3, <1>4, <1>5

LEMMA FitSoftwareHit ==
  ASSUME FitHere, NEW p \in Pid, NEW a, SoftwareHit(p, a) PROVE FitList(SW')
<1>0. TypeOK /\ proc \in Processes /\ FitList(SW)
  BY BaseFacts DEF FitHere
<1>1. PICK isEP, C, R : isEP \in BOOLEAN /\ Hit(p, a, isEP, C, R)
  BY <1>0, HitFacts
<1>2. PICK L : L = R.bps["SOFTWARE_BP"]
  OBVIOUS
<1>3. CASE isEP
  <2>1. C = UpdateOffsets(bps) /\ R = BreakpointInit(C, proc, p)
    BY <1>1, <1>3 DEF Hit, Ready
  <2>2. C \in Lists /\ FitList(C["SOFTWARE_BP"])
    BY <2>1, FitUpdated
  <2>3. FitList(L)
    BY <1>0, <1>2, <2>1, <2>2, FromInit, FitFrom
  <2>4. FromList(L, SW')
    BY <1>0, <1>1, <1>2, <2>3, HitTouches
  <2> QED
    BY <2>3, <2>4, FitFrom
<1>4. CASE ~isEP
  <2>1. FitList(L)
    BY <1>0, <1>1, <1>2, <1>4 DEF Hit, Ready, SW
  <2>2. FromList(L, SW')
    BY <1>0, <1>1, <1>2, <2>1, HitTouches
  <2> QED
    BY <2>1, <2>2, FitFrom
<1> QED
  BY <1>1, <1>3, <1>4

LEMMA FitEvent == ASSUME FitHere, [Next]_vars PROVE FitList(SW')
<1>0. TypeOK /\ bps \in Lists /\ SW \in Seq(Entry) /\ FitList(SW) /\ "SOFTWARE_BP" \in Kind /\ SetupOK
  BY BaseFacts DEF FitHere
<1>1. ASSUME SW' = SW PROVE FitList(SW')
  BY <1>0, <1>1
<1>2. ASSUME Shrinks(SW, SW') PROVE FitList(SW')
  BY <1>0, <1>2, FromGone, FitFrom
<1>3. CASE UNCHANGED vars
  BY <1>1, <1>3 DEF vars, SW
<1>4. CASE StartSession \/ StopLoop \/ CleanWorkSpaceDone \/ Detach \/ StartClear
  BY <1>1, <1>4 DEF StartSession, StopLoop, CleanWorkSpaceDone, Detach, StartClear, KeepSession, SW
<1>5. CASE CleanupStep
  <2>1. it \in DOMAIN SW
    <3>1. it <= Len(SW) /\ it \in Nat \ {0}
      BY <1>0, <1>5 DEF CleanupStep, SW, TypeOK
    <3> QED
      BY <1>0, <3>1
  <2>2. SW' = SW \/ SW' = RemoveAt(SW, it)
    BY <1>0, <1>5 DEF CleanupStep, SW, Lists
  <2> QED
    BY <1>2, <2>1, <2>2 DEF Shrinks
<1>6. ASSUME NEW p \in Pid, ExitProcess(p) \/ Hide(p) PROVE FitList(SW')
  BY <1>1, <1>6 DEF ExitProcess, Hide, KeepSession, SW
<1>7. ASSUME NEW p \in Pid, NEW s \in Slot, HardwareHit(p, s) PROVE FitList(SW')
  <2>1. \E i, e, L : bps' = [bps EXCEPT !["HARDWARE_BP"] = L]
    BY <1>0, <1>7, HardwareHitFacts
  <2> QED
    BY <1>0, <1>1, <2>1 DEF Lists, SW
<1>8. ASSUME NEW k \in UserKind, NEW off, GUIRemove(k, off) PROVE FitList(SW')
  <2>1. bps' = BreakpointRemove(bps, proc, k, off).bps /\ k \in Kind /\ proc \in Processes
    BY <1>0, <1>8, BaseFacts DEF GUIRemove, SetupOK
  <2>2. Shrinks(SW, SW')
    BY <1>0, <2>1, RemoveList DEF SW
  <2> QED
    BY <1>2, <2>2
<1>9. CASE ClearStep
  <2>1. Shrinks(SW, SW')
    BY <1>0, <1>9, ClearList DEF SW
  <2> QED
    BY <1>2, <2>1
<1>10. CASE Show
  <2>1. PICK L, K : L = SW /\ K = SW'
    OBVIOUS
  <2>2. OnlyBackups(L, K)
    BY <1>0, <1>10, <2>1, ShowLists
  <2>3. FromList(L, K)
    BY <2>2 DEF OnlyBackups, FromList, SameBut, SameSpot
  <2> QED
    BY <1>0, <2>1, <2>3, FitFrom
<1> QED
  BY <1>3, <1>4, <1>5, <1>6, <1>7, <1>8, <1>9, <1>10, FitCreate, FitSingleStep, FitSoftwareHit, FitUserAdd, FitStored
  DEF Next, Debugger, GUI, Disassembler

LEMMA InitFit == Init => FitInv
<1> SUFFICES ASSUME Init PROVE FitInv
  OBVIOUS
<1>1. SW = <<>>
  BY DEF Init, SW, Kind
<1> QED
  BY <1>1 DEF FitInv, FitList

LEMMA NextFit == ASSUME EntrySetups PROVE TypeOK /\ World /\ FitInv /\ [Next]_vars => FitInv'
BY FitFacts, FitEvent, SetupStays, FitKept

(* All entries of the module are in its image at the entry point, which    *)
(* BreakpointInit then arms; the hit takes the trap at the entry point out *)
(* and leaves all others.                                                  *)
LEMMA HitRearms ==
  ASSUME FitHere, NEW p \in Pid, main \in Running,
         SoftwareHit(p, proc[p].base + EntryRva), proc[p].mem[proc[p].base + EntryRva] = "int3"
  PROVE  Rearmed(p)
<1>0. /\ TypeOK /\ proc \in Processes /\ SetupOK /\ World /\ AnyPid \notin Pid /\ pids \subseteq Pid
  BY BaseFacts DEF FitHere, SetupOK
<1>1. PICK a, pr : a = proc[p].base + EntryRva /\ pr = proc[p]
  OBVIOUS
<1>2. PICK isEP, C, R : isEP \in BOOLEAN /\ Hit(p, a, isEP, C, R)
  BY <1>0, <1>1, HitFacts
<1>3. C = UpdateOffsets(bps) /\ R = BreakpointInit(C, proc, p)
  BY <1>1, <1>2 DEF Hit, Ready
<1>4. PICK K, L, m : K = C["SOFTWARE_BP"] /\ L = R.bps["SOFTWARE_BP"] /\ m = R.proc[p].mem
  OBVIOUS
<1>5. /\ C \in Lists /\ FitList(K) /\ K \in Seq(Entry)
      /\ \A i \in DOMAIN K :
           LET h == HandleOf(K[i].pid)
           IN  (h \in Running /\ K[i].handle = "BP_KEEP" /\ K[i].named)
                 => K[i].base = proc[h].base /\ K[i].offset \in Image(proc[h].base)
  BY <1>3, <1>4, FitUpdated, ListFacts DEF Kind
<1>6. /\ DOMAIN L = DOMAIN K /\ FromList(K, L)
      /\ \A i \in DOMAIN K : SameSpot(K[i], L[i])
  BY <1>0, <1>3, <1>4, <1>5, FromInit
<1>7. FromList(L, SW') /\ \A c \in DOMAIN m : c # a => proc'[p].mem[c] = m[c]
  <2>1. FitList(L)
    BY <1>5, <1>6, FitFrom
  <2>2. /\ FromList(L, SW')
        /\ \A c \in DOMAIN R.proc[p].mem : c # a => proc'[p].mem[c] = R.proc[p].mem[c]
    BY <1>0, <1>2, <1>4, <2>1, HitTouches
  <2> QED
    BY <1>4, <2>2
<1>8. /\ pr \in Process /\ DOMAIN m = DOMAIN pr.mem
      /\ \A c \in DOMAIN m : (\E i \in Arms(K, p, pr) : c \in Cells(K[i])) => m[c] = "int3"
  <2>1. m = InitSoftware(K, p, pr).mem /\ pr \in Process
    BY <1>0, <1>1, <1>3, <1>4, <1>5, InitFacts DEF Processes
  <2> QED
    BY <1>5, <2>1, InitSoftwareFacts
<1>9. p \in Running /\ Alive(pr) /\ pr.base \in Bases /\ proc[main].base = pr.base
  <2>1. p \in Running /\ Alive(pr) /\ pr.base \in Bases
    BY <1>0, <1>1 DEF SoftwareHit, Running, World, Placed
  <2>2. proc[main].base \in Bases
    BY <1>0 DEF Running, World, Placed
  <2>3. DebugChilds \/ p = main
    BY <2>1 DEF FitHere, World, Running
  <2> QED
    BY <1>1, <2>1, <2>2, <2>3 DEF FitHere
<1> SUFFICES ASSUME NEW j \in DOMAIN SW', SW'[j].handle = "BP_KEEP", SW'[j].named,
                    SW'[j].pid \in {AnyPid, p}, SW'[j].offset # a
             PROVE  /\ SW'[j].offset \in Image(pr.base)
                    /\ Writable(SW'[j], pr) => proc'[p].mem[SW'[j].offset] # "code"
  BY <1>1 DEF Rearmed
<1>10. PICK i \in DOMAIN K : SameSpot(K[i], SW'[j])
  <2>1. PICK l \in DOMAIN L : SameSpot(L[l], SW'[j])
    BY <1>7 DEF FromList
  <2>2. SameSpot(K[l], L[l])
    BY <1>6, <2>1
  <2>3. SameSpot(K[l], SW'[j])
    BY <2>1, <2>2 DEF SameSpot
  <2> QED
    BY <1>6, <2>1, <2>3
<1>11. PICK e : e = K[i]
  OBVIOUS
<1>12. /\ e \in Entry /\ e.handle = "BP_KEEP" /\ e.named /\ e.pid \in {AnyPid, p}
       /\ e.offset = SW'[j].offset /\ e.size = SW'[j].size
  BY <1>5, <1>10, <1>11, ElementFacts DEF SameSpot
<1>13. HandleOf(e.pid) \in {main, p}
  BY <1>0, <1>12 DEF HandleOf
<1>14. e.base = pr.base /\ e.offset \in Image(pr.base)
  BY <1>1, <1>5, <1>9, <1>11, <1>12, <1>13
<1>15. ASSUME Writable(SW'[j], pr) PROVE proc'[p].mem[e.offset] # "code"
  <2>1. Writable(e, pr)
    BY <1>12, <1>15 DEF Writable, Cells
  <2>2. e.base # 0
    BY <1>0, <1>9, <1>14 DEF SetupOK
  <2>3. i \in Arms(K, p, pr)
    BY <1>11, <1>12, <2>1, <2>2 DEF Arms, Eligible
  <2>4. e.offset \in Cells(e) /\ e.offset \in DOMAIN pr.mem
    BY <1>12, <2>1, CellFacts DEF Writable
  <2>5. m[e.offset] = "int3"
    BY <1>8, <1>11, <2>3, <2>4
  <2> QED
    BY <1>7, <1>8, <1>12, <2>4, <2>5
<1> QED
  BY <1>12, <1>14, <1>15

(* However the lists were edited, rebased and carried over from earlier    *)
(* sessions or a project file, when the debuggee stops at its entry point  *)
(* every kept breakpoint of the module is at its place in the image, and   *)
(* armed if its bytes are mapped.                                          *)
THEOREM EntryPointRearms == ASSUME EntrySetups PROVE Spec => RearmedAtEntry
<1>1. Init => TypeOK /\ World /\ FitInv
  BY InitTyped, InitWorld, InitFit
<1>2. TypeOK /\ World /\ FitInv /\ [Next]_vars => (TypeOK /\ World /\ FitInv)'
  BY NextTyped, NextWorld, NextFit
<1> DEFINE Step == \A p \in Pid : (/\ SoftwareHit(p, proc[p].base + EntryRva)
                                   /\ proc[p].mem[proc[p].base + EntryRva] = "int3"
                                   /\ main \in Running) => Rearmed(p)
<1>3. TypeOK /\ World /\ FitInv /\ [Next]_vars => [Step]_vars
  BY FitFacts, HitRearms
<1> QED
  BY <1>1, <1>2, <1>3, PTL DEF Spec, RearmedAtEntry

=============================================================================
