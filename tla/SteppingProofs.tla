--------------------------- MODULE SteppingProofs ---------------------------
(***************************************************************************)
(* Stepping for any program and any breakpoints: its types, that no thread *)
(* is resumed in the middle of an instruction, that a trace misses no      *)
(* line, that kept breakpoints are hit, and what a step or a continue does.*)
(***************************************************************************)
EXTENDS Stepping, SequenceTheorems, FiniteSetTheorems, TLAPS

(* The naturals are well ordered: the initial segments up to the elements  *)
(* of S are finite sets, and inclusion is well founded on these.           *)
LEMMA LeastExists ==
  ASSUME NEW S \in SUBSET Nat, S # {}
  PROVE  \E x \in S : \A y \in S : x <= y
<1> DEFINE T == {0 .. x : x \in S}
<1>1. T \subseteq FiniteSubsetsOf(Nat) /\ T # {}
  <2>1. \A x \in S : IsFiniteSet(0 .. x) /\ 0 .. x \subseteq Nat
    BY FS_Interval
  <2> QED
    BY <2>1 DEF FiniteSubsetsOf
<1>2. PICK I \in T : \A J \in T : <<J, I>> \notin StrictSubsetOrdering(Nat)
  <2> HIDE DEF T
  <2> QED
    BY <1>1, FS_StrictSubsetOrderingWellFounded, WFMin
<1>3. PICK x \in S : I = 0 .. x
  OBVIOUS
<1>4. ASSUME NEW y \in S, y < x PROVE FALSE
  <2>1. 0 .. y \subseteq 0 .. x /\ 0 .. y # 0 .. x /\ 0 .. x \subseteq Nat
    BY <1>4
  <2>2. <<0 .. y, 0 .. x>> \in StrictSubsetOrdering(Nat)
    BY <2>1 DEF StrictSubsetOrdering
  <2> QED
    BY <1>2, <1>3, <2>2
<1> QED
  BY <1>4

LEMMA MinLeast ==
  ASSUME NEW S \in SUBSET Nat, S # {}
  PROVE  Min(S) \in S /\ \A y \in S : Min(S) <= y
BY LeastExists DEF Min

(* Where the entries of a list are after the one at n has been erased.     *)
LEMMA RemoveAtProperties ==
  ASSUME NEW E, NEW L \in Seq(E), NEW n \in 1 .. Len(L)
  PROVE  /\ RemoveAt(L, n) \in Seq(E)
         /\ Len(RemoveAt(L, n)) = Len(L) - 1
         /\ \A j \in 1 .. Len(L) - 1 :
              RemoveAt(L, n)[j] = IF j < n THEN L[j] ELSE L[j + 1]
<1> DEFINE A == SubSeq(L, 1, n - 1)
           B == SubSeq(L, n + 1, Len(L))
<1>0. Len(L) \in Nat /\ n \in Int /\ \A j \in 1 .. Len(L) : L[j] \in E
  OBVIOUS
<1>1. A \in Seq(E) /\ Len(A) = n - 1 /\ \A j \in 1 .. n - 1 : A[j] = L[j]
  BY <1>0, SubSeqProperties
<1>2. B \in Seq(E) /\ Len(B) = Len(L) - n
        /\ \A j \in 1 .. Len(L) - n : B[j] = L[n + j]
  BY <1>0, SubSeqProperties
<1> HIDE DEF A, B
<1>3. /\ A \o B \in Seq(E) /\ Len(A \o B) = Len(A) + Len(B)
      /\ \A j \in 1 .. Len(A) + Len(B) :
           (A \o B)[j] = IF j <= Len(A) THEN A[j] ELSE B[j - Len(A)]
  BY <1>1, <1>2, ConcatProperties
<1>4. RemoveAt(L, n) = A \o B
  BY DEF RemoveAt, A, B
<1>5. \A j \in 1 .. Len(L) - 1 : (A \o B)[j] = IF j < n THEN L[j] ELSE L[j + 1]
  <2> SUFFICES ASSUME NEW j \in 1 .. Len(L) - 1
               PROVE  (A \o B)[j] = IF j < n THEN L[j] ELSE L[j + 1]
    OBVIOUS
  <2>1. CASE j < n
    BY <1>0, <1>1, <1>2, <1>3, <2>1
  <2>2. CASE ~(j < n)
    <3>1. j - (n - 1) \in 1 .. Len(L) - n /\ n + (j - (n - 1)) = j + 1
      BY <1>0, <2>2
    <3>2. B[j - (n - 1)] = L[j + 1]
      BY <1>2, <3>1
    <3>3. j \in 1 .. Len(A) + Len(B) /\ ~(j <= Len(A))
      BY <1>0, <1>1, <1>2, <2>2
    <3> QED
      BY <1>1, <1>3, <2>2, <3>2, <3>3
  <2> QED
    BY <2>1, <2>2
<1>6. Len(A \o B) = Len(L) - 1
  BY <1>0, <1>1, <1>2, <1>3
<1> QED
  BY <1>3, <1>4, <1>5, <1>6

(* The same, as the entries that stay.                                     *)
LEMMA RemoveAtKeeps ==
  ASSUME NEW E, NEW L \in Seq(E), NEW n \in 1 .. Len(L), NEW j \in 1 .. Len(L), j # n
  PROVE  \E k \in 1 .. Len(RemoveAt(L, n)) : RemoveAt(L, n)[k] = L[j]
<1>0. Len(L) \in Nat
  OBVIOUS
<1>1. CASE j < n
  <2>1. j \in 1 .. Len(L) - 1
    BY <1>0, <1>1
  <2> QED
    BY <1>1, <2>1, RemoveAtProperties
<1>2. CASE ~(j < n)
  <2>1. /\ j - 1 \in 1 .. Len(L) - 1 /\ ~(j - 1 < n) /\ (j - 1) + 1 = j
    BY <1>0, <1>2
  <2> QED
    BY <2>1, RemoveAtProperties
<1> QED
  BY <1>1, <1>2

(* SetToSeq lists the elements of a finite set, each once.                 *)
LEMMA SetToSeqProperties ==
  ASSUME NEW S, IsFiniteSet(S)
  PROVE  /\ SetToSeq(S) \in Seq(S)
         /\ \A i, j \in 1 .. Len(SetToSeq(S)) : SetToSeq(S)[i] = SetToSeq(S)[j] => i = j
         /\ \A x \in S : \E i \in 1 .. Len(SetToSeq(S)) : SetToSeq(S)[i] = x
<1> DEFINE n == Cardinality(S)
           f == SetToSeq(S)
<1>1. n \in Nat /\ ExistsBijection(1 .. n, S)
  BY FS_CardinalityType
<1>2. PICK g : g \in Bijection(1 .. n, S)
  BY <1>1 DEF ExistsBijection
<1>3. g \in [1 .. n -> S] /\ IsInjective(g)
  BY <1>2 DEF Bijection, Injection
<1>4. f \in [1 .. n -> S] /\ IsInjective(f)
  BY <1>3 DEF SetToSeq
<1>5. f \in Injection(1 .. n, S)
  BY <1>4 DEF Injection
<1>6. IsFiniteSet(1 .. n) /\ Cardinality(1 .. n) = n
  BY <1>1, FS_Interval
<1>7. f \in Surjection(1 .. n, S)
  <2> HIDE DEF f
  <2> QED BY <1>5, <1>6, FS_Injection
<1>8. f \in Seq(S) /\ Len(f) = n
  <2> HIDE DEF f, n
  <2> QED BY <1>1, <1>4
<1> QED
  BY <1>4, <1>7, <1>8 DEF IsInjective, Surjection

-----------------------------------------------------------------------------

Opcode == {"int3", "ud2"}

Handle3 == {"BP_KEEP", "BP_STEPOVER", "BP_TRACETO"}

EntryOf(O) == [at : Addr, op : O, handle : Handle3, pid : {"any", "this"}, restore : BOOLEAN]

ThreadState == [ip : Int, tf : BOOLEAN, ev : Opcode \cup {"none", "step"}]

Flags == [trap : BOOLEAN, trace : BOOLEAN,
          restore : {"RESTORE_NON", "RESTORE_BP_SOFTWARE", "RESTORE_BP_HARDWARE"}]

Waits == [at : {"break"}, t : Thread, trap : BOOLEAN, shown : BOOLEAN,
          why : {"system", "exception", "breakpoint", "step"}]

ListsOK == sw \in Seq(EntryOf(Opcode)) /\ hw \in Seq(EntryOf({"hw"}))

DebuggeeOK == /\ th \in [Thread -> ThreadState]
              /\ mem \in [Addr -> Opcode \cup {"code"}]
              /\ seen \in [Thread -> {"none", "hit", "exception", "step", "traced"}]

DebuggerOK == /\ setup \in Setups
              /\ pid \in Flags /\ single \in BOOLEAN
              /\ dbg \in {Loop} \cup Waits
              /\ ctx \in [ip : Int, tf : BOOLEAN]
              /\ cmd \in [kind : Command, t : Thread \cup {NoThread}, from : Int, to : Int]

TypeOK == ListsOK /\ DebuggeeOK /\ DebuggerOK

-----------------------------------------------------------------------------
(* The lists.                                                              *)

LEMMA EntryTyped ==
  ASSUME NEW O, NEW a \in Addr, NEW op \in O, NEW h \in Handle3, NEW p \in {"any", "this"}
  PROVE  Entry(a, op, h, p) \in EntryOf(O)
BY DEF Entry, EntryOf

LEMMA ListTyped ==
  ASSUME NEW O, NEW L \in Seq(EntryOf(O))
  PROVE  /\ Len(L) \in Nat /\ DOMAIN L = 1 .. Len(L)
         /\ \A i \in DOMAIN L : L[i] \in EntryOf(O)
         /\ \A a : At(L, a) = {i \in DOMAIN L : L[i].at = a}
         /\ Waiting(L) \subseteq DOMAIN L
<1>1. Len(L) \in Nat /\ DOMAIN L = 1 .. Len(L) /\ \A i \in DOMAIN L : L[i] \in EntryOf(O)
  OBVIOUS
<1>2. \A i \in DOMAIN L : L[i].pid # "none"
  BY <1>1 DEF EntryOf
<1> QED
  BY <1>1, <1>2 DEF At, Waiting

(* The entry that CheckIfExceptionIsBP and the restore of a breakpoint     *)
(* come to first.                                                          *)
LEMMA FirstOf ==
  ASSUME NEW O, NEW L \in Seq(EntryOf(O)), NEW S, S \subseteq DOMAIN L, S # {}
  PROVE  Min(S) \in S /\ Min(S) \in 1 .. Len(L) /\ L[Min(S)] \in EntryOf(O)
<1>1. Len(L) \in Nat /\ DOMAIN L = 1 .. Len(L)
  OBVIOUS
<1>2. S \in SUBSET Nat
  BY <1>1
<1> QED
  BY <1>1, <1>2, MinLeast

(* A mark changes no entry otherwise.                                      *)
LEMMA MarkKeeps ==
  ASSUME NEW O, NEW L \in Seq(EntryOf(O)), NEW n \in DOMAIN L, NEW b \in BOOLEAN
  PROVE  /\ [L EXCEPT ![n].restore = b] \in Seq(EntryOf(O))
         /\ DOMAIN [L EXCEPT ![n].restore = b] = DOMAIN L
         /\ \A i \in DOMAIN L :
              LET e == [L EXCEPT ![n].restore = b][i]
              IN  /\ e.at = L[i].at /\ e.op = L[i].op /\ e.handle = L[i].handle
                  /\ e.pid = L[i].pid /\ e.restore = IF i = n THEN b ELSE L[i].restore
         /\ \A a : At([L EXCEPT ![n].restore = b], a) = At(L, a)
<1> DEFINE e == [L[n] EXCEPT !.restore = b]
           M == [L EXCEPT ![n] = e]
<1>0. [L EXCEPT ![n].restore = b] = M
  OBVIOUS
<1>1. L[n] \in EntryOf(O)
  OBVIOUS
<1>2. /\ e \in EntryOf(O) /\ e.at = L[n].at /\ e.op = L[n].op /\ e.handle = L[n].handle
      /\ e.pid = L[n].pid /\ e.restore = b
  BY <1>1 DEF EntryOf
<1> HIDE DEF e
<1>3. M \in Seq(EntryOf(O)) /\ DOMAIN M = DOMAIN L
        /\ \A i \in DOMAIN L : M[i] = IF i = n THEN e ELSE L[i]
  BY <1>2
<1> HIDE DEF M
<1>4. \A i \in DOMAIN L :
        /\ M[i].at = L[i].at /\ M[i].op = L[i].op /\ M[i].handle = L[i].handle
        /\ M[i].pid = L[i].pid /\ M[i].restore = IF i = n THEN b ELSE L[i].restore
  BY <1>2, <1>3
<1>5. \A a : At(M, a) = At(L, a)
  BY <1>3, <1>4 DEF At
<1> QED
  BY <1>0, <1>3, <1>4, <1>5

LEMMA AppendKeeps ==
  ASSUME NEW O, NEW L \in Seq(EntryOf(O)), NEW e \in EntryOf(O)
  PROVE  /\ Append(L, e) \in Seq(EntryOf(O))
         /\ DOMAIN Append(L, e) = DOMAIN L \cup {Len(L) + 1}
         /\ \A i \in DOMAIN L : Append(L, e)[i] = L[i]
         /\ Append(L, e)[Len(L) + 1] = e
         /\ Len(L) + 1 \notin DOMAIN L
OBVIOUS

LEMMA AppendAt ==
  ASSUME NEW O, NEW L \in Seq(EntryOf(O)), NEW e \in EntryOf(O)
  PROVE  \A a : (At(L, a) # {} \/ e.at = a) => At(Append(L, e), a) # {}
<1>1. e.pid # "none"
  BY DEF EntryOf
<1> QED
  BY <1>1, AppendKeeps DEF At

LEMMA EraseKeeps ==
  ASSUME NEW O, NEW L \in Seq(EntryOf(O)), NEW n \in 1 .. Len(L)
  PROVE  /\ RemoveAt(L, n) \in Seq(EntryOf(O))
         /\ \A i \in DOMAIN RemoveAt(L, n) : \E j \in DOMAIN L : RemoveAt(L, n)[i] = L[j]
         /\ \A i \in DOMAIN RemoveAt(L, n) :
              \E j \in DOMAIN L \ {n} : j \in {i, i + 1} /\ (j = i <=> i < n) /\ RemoveAt(L, n)[i] = L[j]
         /\ \A a : (At(L, a) # {} /\ L[n].at # a) => At(RemoveAt(L, n), a) # {}
<1>0. Len(L) \in Nat /\ DOMAIN L = 1 .. Len(L)
  OBVIOUS
<1>1. RemoveAt(L, n) \in Seq(EntryOf(O)) /\ DOMAIN RemoveAt(L, n) = 1 .. Len(RemoveAt(L, n))
        /\ Len(RemoveAt(L, n)) = Len(L) - 1
  <2>1. RemoveAt(L, n) \in Seq(EntryOf(O)) /\ Len(RemoveAt(L, n)) = Len(L) - 1
    BY RemoveAtProperties
  <2> QED
    BY <2>1
<1>2. ASSUME NEW i \in 1 .. Len(L) - 1
      PROVE  \E j \in DOMAIN L \ {n} : j \in {i, i + 1} /\ (j = i <=> i < n) /\ RemoveAt(L, n)[i] = L[j]
  <2>1. i \in 1 .. Len(L) /\ i + 1 \in 1 .. Len(L) /\ (i < n => i # n) /\ (~(i < n) => i + 1 # n)
          /\ i + 1 # i
    BY <1>0
  <2>2. RemoveAt(L, n)[i] = IF i < n THEN L[i] ELSE L[i + 1]
    BY RemoveAtProperties
  <2>3. CASE i < n
    BY <1>0, <2>1, <2>2, <2>3
  <2>4. CASE ~(i < n)
    BY <1>0, <2>1, <2>2, <2>4
  <2> QED
    BY <2>3, <2>4
<1>3. ASSUME NEW a, At(L, a) # {}, L[n].at # a
      PROVE  At(RemoveAt(L, n), a) # {}
  <2>1. PICK j \in 1 .. Len(L) : L[j].at = a /\ L[j].pid # "none"
    BY <1>0, <1>3 DEF At
  <2>2. PICK k \in 1 .. Len(RemoveAt(L, n)) : RemoveAt(L, n)[k] = L[j]
    BY <1>3, <2>1, RemoveAtKeeps
  <2> QED
    BY <1>1, <2>1, <2>2 DEF At
<1> QED
  BY <1>1, <1>2, <1>3

-----------------------------------------------------------------------------
(* Types.                                                                  *)

LEMMA AddrTyped ==
  /\ \A a \in Addr : a \in Int /\ a + 1 \in Int
  /\ \A a \in Addr : Flow[a] \in Addr /\ Over[a] \in Addr
  /\ \A a \in DOMAIN Return : Return[a] \in Addr
<1>1. Addr \subseteq Nat
  BY ProgramOK
<1>2. /\ \A a \in Addr : Flow[a] \in Addr /\ Over[a] \in Addr
      /\ \A a \in DOMAIN Return : Return[a] \in Addr
  BY ProgramOK
<1> QED
  BY <1>1, <1>2

LEMMA SetupTyped ==
  ASSUME NEW s \in Setups
  PROVE  /\ s.asks \subseteq Command /\ s.own \cup s.ret \subseteq Addr
         /\ s.int3 \cup s.ud2 \cup s.hard \subseteq Addr \ s.own
         /\ IsFiniteSet(s.int3) /\ IsFiniteSet(s.ud2) /\ IsFiniteSet(s.hard)
         /\ s.int3 \cap s.ud2 = {} /\ (s.int3 \cup s.ud2) \cap s.hard = {}
         /\ \A a \in s.own : Flow[a] = a + 1
<1> DEFINE B == s.int3 \cup s.ud2 \cup s.hard
<1>1. IsFiniteSet(s.int3) /\ IsFiniteSet(s.ud2) /\ IsFiniteSet(s.hard)
  <2>1. IsFiniteSet(B)
    BY ProgramOK
  <2>2. s.int3 \in SUBSET B /\ s.ud2 \in SUBSET B /\ s.hard \in SUBSET B
    OBVIOUS
  <2> QED
    BY <2>1, <2>2, FS_Subset
<1> QED
  BY <1>1, ProgramOK

(* The breakpoints at A with opcode o and at B with opcode u, as a list.   *)
KeptAt(A, o) == {Entry(a, o, "BP_KEEP", "any") : a \in A}

KeptList(A, o, B, u) == SetToSeq(KeptAt(A, o) \cup KeptAt(B, u))

LEMMA KeptEntry ==
  ASSUME NEW A, A \subseteq Addr, NEW O, NEW o \in O, NEW e \in KeptAt(A, o)
  PROVE  /\ e \in EntryOf(O) /\ e.handle = "BP_KEEP" /\ ~e.restore /\ e.pid # "none"
         /\ e.at \in A /\ e.op = o /\ e = Entry(e.at, e.op, "BP_KEEP", "any")
<1> PICK a \in A : e = Entry(a, o, "BP_KEEP", "any")
  BY DEF KeptAt
<1> QED
  BY DEF Entry, EntryOf, Handle3

LEMMA KeptFinite ==
  ASSUME NEW A, IsFiniteSet(A), NEW o
  PROVE  IsFiniteSet(KeptAt(A, o))
<1> DEFINE f == [a \in A |-> Entry(a, o, "BP_KEEP", "any")]
<1>1. f \in Surjection(A, KeptAt(A, o))
  BY DEF Surjection, KeptAt
<1> HIDE DEF f
<1> QED
  BY <1>1, FS_Surjection

(* What an element of such a list is, and that the list is complete.       *)
Lists(L, A, o, B, u) ==
  /\ \A i \in DOMAIN L : /\ L[i].handle = "BP_KEEP" /\ ~L[i].restore
                         /\ (L[i].at \in A /\ L[i].op = o) \/ (L[i].at \in B /\ L[i].op = u)
  /\ \A i, j \in DOMAIN L : L[i].at = L[j].at => i = j
  /\ \A a \in A \cup B : At(L, a) # {}

LEMMA KeptListed ==
  ASSUME NEW A, NEW B, A \subseteq Addr, B \subseteq Addr, A \cap B = {},
         IsFiniteSet(A), IsFiniteSet(B), NEW O, NEW o \in O, NEW u \in O
  PROVE  KeptList(A, o, B, u) \in Seq(EntryOf(O)) /\ Lists(KeptList(A, o, B, u), A, o, B, u)
<1> DEFINE S == KeptAt(A, o) \cup KeptAt(B, u)
           L == KeptList(A, o, B, u)
<1>1. IsFiniteSet(S)
  BY KeptFinite, FS_Union
<1>2. \A e \in S :
        /\ e \in EntryOf(O) /\ e.handle = "BP_KEEP" /\ ~e.restore /\ e.pid # "none"
        /\ (e.at \in A /\ e.op = o) \/ (e.at \in B /\ e.op = u)
        /\ e = Entry(e.at, e.op, "BP_KEEP", "any")
  BY KeptEntry
<1>3. ASSUME NEW a \in A \cup B PROVE \E e \in S : e.at = a
  <2>1. Entry(a, o, "BP_KEEP", "any").at = a /\ Entry(a, u, "BP_KEEP", "any").at = a
    BY DEF Entry
  <2>2. Entry(a, o, "BP_KEEP", "any") \in S \/ Entry(a, u, "BP_KEEP", "any") \in S
    BY DEF KeptAt
  <2> QED
    BY <2>1, <2>2
<1>4. L = SetToSeq(S)
  BY DEF KeptList
<1> HIDE DEF S, L
<1>5. L \in Seq(S)
  BY <1>1, <1>4, SetToSeqProperties
<1>6. /\ \A i, j \in 1 .. Len(L) : L[i] = L[j] => i = j
      /\ \A x \in S : \E i \in 1 .. Len(L) : L[i] = x
  BY <1>1, <1>4, SetToSeqProperties
<1>7. Len(L) \in Nat /\ DOMAIN L = 1 .. Len(L) /\ \A i \in DOMAIN L : L[i] \in S
  BY <1>5
<1>8. L \in Seq(EntryOf(O))
  BY <1>2, <1>5, SeqMonotonic
<1>9. \A i \in DOMAIN L : /\ L[i].handle = "BP_KEEP" /\ ~L[i].restore
                          /\ (L[i].at \in A /\ L[i].op = o) \/ (L[i].at \in B /\ L[i].op = u)
  BY <1>2, <1>7
<1>10. \A i, j \in DOMAIN L : L[i].at = L[j].at => i = j
  <2> SUFFICES ASSUME NEW i \in DOMAIN L, NEW j \in DOMAIN L, L[i].at = L[j].at
               PROVE  L[i] = L[j]
    BY <1>6, <1>7
  <2>1. L[i].op = L[j].op
    BY <1>9
  <2> QED
    BY <1>2, <1>7, <2>1
<1>11. ASSUME NEW a \in A \cup B PROVE At(L, a) # {}
  <2>1. PICK e \in S : e.at = a
    BY <1>3
  <2>2. PICK i \in 1 .. Len(L) : L[i] = e
    BY <1>6
  <2> QED
    BY <1>2, <1>7, <2>1, <2>2 DEF At
<1> QED
  BY <1>8, <1>9, <1>10, <1>11 DEF L, Lists

LEMMA SoftwareOf ==
  ASSUME Init
  PROVE  /\ sw \in Seq(EntryOf(Opcode))
         /\ \A i \in DOMAIN sw : /\ sw[i].handle = "BP_KEEP" /\ ~sw[i].restore
                                 /\ \/ sw[i].at \in setup.int3 /\ sw[i].op = "int3"
                                    \/ sw[i].at \in setup.ud2 /\ sw[i].op = "ud2"
         /\ \A i, j \in DOMAIN sw : sw[i].at = sw[j].at => i = j
         /\ \A a \in setup.int3 \cup setup.ud2 : At(sw, a) # {}
<1>1. setup \in Setups
  BY DEF Init
<1>2. sw = KeptList(setup.int3, "int3", setup.ud2, "ud2")
  BY DEF Init, KeptList, KeptAt
<1>3. /\ setup.int3 \subseteq Addr /\ setup.ud2 \subseteq Addr /\ setup.int3 \cap setup.ud2 = {}
      /\ IsFiniteSet(setup.int3) /\ IsFiniteSet(setup.ud2)
  BY <1>1, SetupTyped
<1>4. "int3" \in Opcode /\ "ud2" \in Opcode
  BY DEF Opcode
<1>5. sw \in Seq(EntryOf(Opcode)) /\ Lists(sw, setup.int3, "int3", setup.ud2, "ud2")
  BY <1>2, <1>3, <1>4, KeptListed
<1> QED
  BY <1>5 DEF Lists

LEMMA HardwareOf ==
  ASSUME Init
  PROVE  /\ hw \in Seq(EntryOf({"hw"}))
         /\ \A i \in DOMAIN hw : hw[i].handle = "BP_KEEP" /\ ~hw[i].restore
                                   /\ hw[i].at \in setup.hard
         /\ \A i, j \in DOMAIN hw : hw[i].at = hw[j].at => i = j
<1>1. setup \in Setups
  BY DEF Init
<1>2. hw = KeptList(setup.hard, "hw", {}, "hw")
  <2>1. KeptAt(setup.hard, "hw") \cup KeptAt({}, "hw") = KeptAt(setup.hard, "hw")
    BY DEF KeptAt
  <2> QED
    BY <2>1 DEF Init, KeptList, KeptAt
<1>3. /\ setup.hard \subseteq Addr /\ {} \subseteq Addr /\ setup.hard \cap {} = {}
      /\ IsFiniteSet(setup.hard) /\ IsFiniteSet({})
  BY <1>1, SetupTyped, FS_EmptySet
<1>4. hw \in Seq(EntryOf({"hw"})) /\ Lists(hw, setup.hard, "hw", {}, "hw")
  BY <1>2, <1>3, KeptListed
<1> QED
  BY <1>4 DEF Lists

LEMMA InitTyped == Init => TypeOK
<1> SUFFICES ASSUME Init PROVE TypeOK
  OBVIOUS
<1>1. ListsOK
  <2>1. sw \in Seq(EntryOf(Opcode))
    BY SoftwareOf
  <2>2. hw \in Seq(EntryOf({"hw"}))
    BY HardwareOf
  <2> QED
    BY <2>1, <2>2 DEF ListsOK
<1>2. Start \in Int
  BY ProgramOK
<1>3. DebuggeeOK
  <2>1. th \in [Thread -> ThreadState]
    BY <1>2 DEF Init, ThreadState
  <2>2. mem \in [Addr -> Opcode \cup {"code"}]
    BY DEF Init, Original, Opcode
  <2>3. seen \in [Thread -> {"none", "hit", "exception", "step", "traced"}]
    BY DEF Init
  <2> QED
    BY <2>1, <2>2, <2>3 DEF DebuggeeOK
<1>4. DebuggerOK
  <2>1. setup \in Setups /\ pid \in Flags /\ single \in BOOLEAN
    BY DEF Init, Flags
  <2>2. dbg \in {Loop} \cup Waits
    BY DEF Init, Break, Waits
  <2>3. /\ ctx \in [ip : Int, tf : BOOLEAN]
        /\ cmd \in [kind : Command, t : Thread \cup {NoThread}, from : Int, to : Int]
    BY <1>2 DEF Init, Command
  <2> QED
    BY <2>1, <2>2, <2>3 DEF DebuggerOK
<1> QED
  BY <1>1, <1>3, <1>4 DEF TypeOK

(* A hit of a breakpoint that is listed, and the mark or erasure it makes. *)
LEMMA HitTyped ==
  ASSUME ListsOK, NEW a, At(sw, a) # {}
  PROVE  LET i == Min(At(sw, a))
         IN  /\ i \in 1 .. Len(sw) /\ i \in DOMAIN sw
             /\ sw[i] \in EntryOf(Opcode) /\ sw[i].at = a /\ a \in Addr
<1>1. sw \in Seq(EntryOf(Opcode))
  BY DEF ListsOK
<1>2. At(sw, a) = {i \in DOMAIN sw : sw[i].at = a} /\ DOMAIN sw = 1 .. Len(sw)
  BY <1>1, ListTyped
<1>3. Min(At(sw, a)) \in At(sw, a) /\ sw[Min(At(sw, a))] \in EntryOf(Opcode)
  BY <1>1, <1>2, FirstOf
<1> QED
  BY <1>2, <1>3 DEF EntryOf

(* An operation on the lists keeps their types.                            *)
LEMMA InsertTyped ==
  ASSUME TypeOK, NEW a \in Addr, NEW h \in Handle3, NEW p \in {"any", "this"}, Insert(a, h, p)
  PROVE  sw' \in Seq(EntryOf(Opcode)) /\ mem' \in [Addr -> Opcode \cup {"code"}]
<1>1. Entry(a, "int3", h, p) \in EntryOf(Opcode)
  BY EntryTyped DEF Opcode
<1>2. Append(sw, Entry(a, "int3", h, p)) \in Seq(EntryOf(Opcode))
  BY <1>1, AppendKeeps DEF TypeOK, ListsOK
<1>3. mem' \in [Addr -> Opcode \cup {"code"}]
  BY DEF Insert, TypeOK, DebuggeeOK, Opcode
<1> QED
  BY <1>2, <1>3 DEF Insert

LEMMA RearmTyped ==
  ASSUME NEW O, NEW L \in Seq(EntryOf(O))
  PROVE  /\ Rearm(L) \in Seq(EntryOf(O))
         /\ Waiting(L) # {} => /\ Min(Waiting(L)) \in Waiting(L)
                               /\ Min(Waiting(L)) \in DOMAIN L
                               /\ L[Min(Waiting(L))] \in EntryOf(O)
                               /\ Rearm(L) = [L EXCEPT ![Min(Waiting(L))].restore = FALSE]
<1>1. Waiting(L) \subseteq DOMAIN L /\ DOMAIN L = 1 .. Len(L)
  BY ListTyped
<1>2. CASE Waiting(L) = {}
  BY <1>2 DEF Rearm
<1>3. CASE Waiting(L) # {}
  <2>1. /\ Min(Waiting(L)) \in Waiting(L) /\ Min(Waiting(L)) \in DOMAIN L
        /\ L[Min(Waiting(L))] \in EntryOf(O)
    BY <1>1, <1>3, FirstOf
  <2>2. [L EXCEPT ![Min(Waiting(L))].restore = FALSE] \in Seq(EntryOf(O))
    BY <2>1, MarkKeeps
  <2> QED
    BY <1>3, <2>1, <2>2 DEF Rearm
<1> QED
  BY <1>2, <1>3

(* PulseEvent ends a break and leaves the types as they are.               *)
LEMMA ResumeTyped ==
  ASSUME TypeOK, dbg # Loop, NEW kind \in Command, NEW to \in Addr \cup {ctx.ip},
         NEW tf \in BOOLEAN, Resume(kind, to, tf)
  PROVE  /\ dbg.t \in Thread /\ dbg' = Loop
         /\ th' \in [Thread -> ThreadState]
         /\ ctx' \in [ip : Int, tf : BOOLEAN]
         /\ cmd' \in [kind : Command, t : Thread \cup {NoThread}, from : Int, to : Int]
         /\ \A t \in Thread \ {dbg.t} : th'[t] = th[t]
         /\ th'[dbg.t] = [ip |-> ctx.ip, tf |-> tf \/ dbg.trap, ev |-> "none"]
         /\ ctx'.ip = ctx.ip /\ cmd' = [kind |-> kind, t |-> dbg.t, from |-> ctx.ip, to |-> to]
<1>1. dbg.t \in Thread /\ dbg.trap \in BOOLEAN
  BY DEF TypeOK, DebuggerOK, Waits
<1>2. ctx.ip \in Int /\ to \in Int
  BY AddrTyped DEF TypeOK, DebuggerOK
<1>3. th \in [Thread -> ThreadState]
  BY DEF TypeOK, DebuggeeOK
<1>4. [ip |-> ctx.ip, tf |-> tf \/ dbg.trap, ev |-> "none"] \in ThreadState
  BY <1>1, <1>2 DEF ThreadState
<1>5. th' \in [Thread -> ThreadState]
  BY <1>1, <1>3, <1>4 DEF Resume
<1>6. ctx' \in [ip : Int, tf : BOOLEAN] /\ ctx'.ip = ctx.ip
  BY DEF Resume, TypeOK, DebuggerOK
<1> QED
  BY <1>1, <1>2, <1>3, <1>5, <1>6 DEF Resume

LEMMA AskedBreak == \A c : Asked(c) => dbg # Loop /\ c \in setup.asks
<1>1. Loop.at = "loop"
  BY DEF Loop
<1> QED
  BY <1>1 DEF Asked

(* The debuggee, by a step of its own.                                     *)
LEMMA ExecuteTyped == ASSUME TypeOK, NEW t \in Thread, Execute(t) PROVE TypeOK'
<1> DEFINE a == th[t].ip
<1>1. a \in Addr /\ a \in Int /\ a + 1 \in Int /\ Flow[a] \in Int
  <2>1. a \in Addr
    BY DEF Execute
  <2> HIDE DEF a
  <2> QED
    BY <2>1, AddrTyped
<1>2. th \in [Thread -> ThreadState] /\ th[t].tf \in BOOLEAN
  BY DEF TypeOK, DebuggeeOK, ThreadState
<1>3. ASSUME NEW ip \in Int, NEW ev \in Opcode \cup {"none", "step"}, Raise(t, ip, ev)
      PROVE  th' \in [Thread -> ThreadState] /\ seen' = seen
  BY <1>2, <1>3 DEF Raise, ThreadState
<1>4. DebuggeeOK'
  <2>1. CASE HardwareAt(a) /\ Raise(t, a, "step")
    BY <1>1, <1>3, <2>1 DEF Execute, TypeOK, DebuggeeOK
  <2>2. CASE mem[a] = "int3" /\ Raise(t, a + 1, "int3")
    BY <1>1, <1>3, <2>2 DEF Execute, TypeOK, DebuggeeOK, Opcode
  <2>3. CASE mem[a] = "ud2" /\ Raise(t, a, "ud2")
    BY <1>1, <1>3, <2>3 DEF Execute, TypeOK, DebuggeeOK, Opcode
  <2>4. CASE /\ th' = [th EXCEPT ![t] = [ip |-> Flow[a], tf |-> FALSE,
                                        ev |-> IF @.tf THEN "step" ELSE "none"]]
             /\ seen' = [seen EXCEPT ![t] = "none"]
    <3>1. th' \in [Thread -> ThreadState]
      BY <1>1, <1>2, <2>4 DEF ThreadState
    <3> QED
      BY <2>4, <3>1 DEF Execute, TypeOK, DebuggeeOK
  <2> QED
    BY <2>1, <2>2, <2>3, <2>4 DEF Execute
<1> QED
  BY <1>4 DEF Execute, TypeOK, ListsOK, DebuggerOK

(* The debugger thread.                                                    *)
LEMMA BreakTyped ==
  ASSUME TypeOK, NEW t \in Thread, NEW ip \in Int, NEW tf \in BOOLEAN, NEW trap \in BOOLEAN,
         NEW why \in {"system", "exception", "breakpoint", "step"},
         CallBreakDebugger(t, ip, tf, why, trap)
  PROVE  /\ dbg' \in {Loop} \cup Waits /\ dbg' = Break(t, why, trap) /\ dbg' # Loop
         /\ ctx' \in [ip : Int, tf : BOOLEAN] /\ ctx' = [ip |-> ip, tf |-> tf]
         /\ th' \in [Thread -> ThreadState] /\ th' = th
BY DEF CallBreakDebugger, Break, Waits, Loop, TypeOK, DebuggeeOK

LEMMA ContinueTyped ==
  ASSUME TypeOK, NEW t \in Thread, NEW tf \in BOOLEAN, Continue(t, tf)
  PROVE  /\ th' \in [Thread -> ThreadState] /\ dbg' = dbg /\ ctx' = ctx
         /\ \A u \in Thread \ {t} : th'[u] = th[u]
         /\ th'[t].ip = th[t].ip /\ th'[t].tf = tf /\ th'[t].ev = "none"
<1>1. th \in [Thread -> ThreadState]
  BY DEF TypeOK, DebuggeeOK
<1> DEFINE r == [th[t] EXCEPT !.tf = tf, !.ev = "none"]
<1>2. r \in ThreadState /\ r.ip = th[t].ip /\ r.tf = tf /\ r.ev = "none"
  BY <1>1 DEF ThreadState
<1>3. th' = [th EXCEPT ![t] = r]
  BY DEF Continue
<1> HIDE DEF r
<1> QED
  BY <1>1, <1>2, <1>3 DEF Continue

LEMMA HandleTyped == ASSUME TypeOK, NEW t \in Thread, Handle(t) PROVE TypeOK'
<1>1. /\ th[t].ip \in Int /\ th[t].ip - 1 \in Int /\ th[t].tf \in BOOLEAN
      /\ \A ev : HitIp(ev, th[t].ip) \in Int
  BY DEF TypeOK, DebuggeeOK, ThreadState, HitIp
<1>2. setup' \in Setups /\ cmd' = cmd
  BY DEF Handle, Handling, ForeignException, BreakpointHit, OpcodeHit, TraceStep, UserStep,
         RestoreStep, HardwareHit, TypeOK, DebuggerOK
<1>3. pid' \in Flags /\ single' \in BOOLEAN
  BY DEF Handle, ForeignException, BreakpointHit, KeepHit, StepOverHit, TraceToHit, OpcodeHit,
         TraceStep, UserStep, RestoreStep, HardwareHit, Pending, Cleared, TypeOK, DebuggerOK, Flags
<1>4. /\ th' \in [Thread -> ThreadState] /\ ctx' \in [ip : Int, tf : BOOLEAN]
      /\ dbg' \in {Loop} \cup Waits
  <2>1. CASE ForeignException(t)
    BY <1>1, <2>1, BreakTyped DEF ForeignException
  <2>2. CASE BreakpointHit(t)
    BY <1>1, <2>2, BreakTyped DEF BreakpointHit
  <2>3. CASE OpcodeHit(t)
    BY <1>1, <2>3, BreakTyped DEF OpcodeHit
  <2>4. CASE TraceStep(t)
    BY <1>1, <2>4, ContinueTyped DEF TraceStep, TypeOK, DebuggerOK
  <2>5. CASE UserStep(t)
    BY <1>1, <2>5, BreakTyped DEF UserStep
  <2>6. CASE RestoreStep(t)
    BY <1>1, <2>6, ContinueTyped DEF RestoreStep, TypeOK, DebuggerOK
  <2>7. CASE HardwareHit(t)
    BY <1>1, <2>7, BreakTyped DEF HardwareHit
  <2> QED
    BY <2>1, <2>2, <2>3, <2>4, <2>5, <2>6, <2>7 DEF Handle
<1>5. seen' \in [Thread -> {"none", "hit", "exception", "step", "traced"}]
  BY DEF Handle, ForeignException, BreakpointHit, OpcodeHit, TraceStep, UserStep,
         RestoreStep, HardwareHit, TypeOK, DebuggeeOK
<1>6. sw' \in Seq(EntryOf(Opcode)) /\ mem' \in [Addr -> Opcode \cup {"code"}]
  <2>0. sw \in Seq(EntryOf(Opcode)) /\ mem \in [Addr -> Opcode \cup {"code"}]
    BY DEF TypeOK, ListsOK, DebuggeeOK
  <2>1. CASE sw' = sw /\ mem' = mem
    BY <2>0, <2>1
  <2>2. ASSUME NEW a, At(sw, a) # {}, mem' = [mem EXCEPT ![a] = Original(a)],
               \/ sw' = sw
               \/ sw' = [sw EXCEPT ![Min(At(sw, a))].restore = TRUE]
               \/ sw' = RemoveAt(sw, Min(At(sw, a)))
        PROVE  sw' \in Seq(EntryOf(Opcode)) /\ mem' \in [Addr -> Opcode \cup {"code"}]
    <3>1. Min(At(sw, a)) \in 1 .. Len(sw) /\ Min(At(sw, a)) \in DOMAIN sw
      BY <2>2, HitTyped DEF TypeOK
    <3>2. sw' \in Seq(EntryOf(Opcode))
      <4>1. CASE sw' = [sw EXCEPT ![Min(At(sw, a))].restore = TRUE]
        BY <2>0, <3>1, <4>1, MarkKeeps
      <4>2. CASE sw' = RemoveAt(sw, Min(At(sw, a)))
        BY <2>0, <3>1, <4>2, EraseKeeps
      <4> QED
        BY <2>0, <2>2, <4>1, <4>2
    <3>3. Original(a) \in Opcode \cup {"code"}
      BY DEF Original, Opcode
    <3> QED
      BY <2>0, <2>2, <3>2, <3>3
  <2>3. CASE BreakpointHit(t)
    BY <2>1, <2>2, <2>3 DEF BreakpointHit, KeepHit, StepOverHit, TraceToHit
  <2>4. CASE OpcodeHit(t)
    BY <2>1, <2>2, <2>4 DEF OpcodeHit
  <2>5. CASE RestoreStep(t)
    <3>1. CASE sw' = Rearm(sw) /\ mem' = IF Waiting(sw) = {} THEN mem
                    ELSE LET bp == sw[Min(Waiting(sw))] IN [mem EXCEPT ![bp.at] = bp.op]
      <4>1. sw' \in Seq(EntryOf(Opcode))
        BY <2>0, <3>1, RearmTyped
      <4>2. Waiting(sw) # {} => sw[Min(Waiting(sw))] \in EntryOf(Opcode)
        BY <2>0, RearmTyped
      <4>3. mem' \in [Addr -> Opcode \cup {"code"}]
        BY <2>0, <3>1, <4>2 DEF EntryOf
      <4> QED
        BY <4>1, <4>3
    <3> QED
      BY <2>1, <2>5, <3>1 DEF RestoreStep
  <2> QED
    BY <2>1, <2>3, <2>4, <2>5
       DEF Handle, ForeignException, TraceStep, UserStep, HardwareHit
<1>7. hw' \in Seq(EntryOf({"hw"}))
  <2>0. hw \in Seq(EntryOf({"hw"}))
    BY DEF TypeOK, ListsOK
  <2>1. CASE HardwareHit(t)
    <3>1. At(hw, th[t].ip) # {} /\ hw' = [hw EXCEPT ![Min(At(hw, th[t].ip))].restore = TRUE]
      BY <2>1 DEF HardwareHit
    <3>2. At(hw, th[t].ip) \subseteq DOMAIN hw
      BY DEF At
    <3>3. Min(At(hw, th[t].ip)) \in DOMAIN hw
      BY <2>0, <3>1, <3>2, FirstOf
    <3> QED
      BY <2>0, <3>1, <3>3, MarkKeeps
  <2>2. CASE RestoreStep(t)
    BY <2>0, <2>2, RearmTyped DEF RestoreStep
  <2> QED
    BY <2>0, <2>1, <2>2
       DEF Handle, ForeignException, BreakpointHit, OpcodeHit, TraceStep, UserStep
<1> QED
  BY <1>2, <1>3, <1>4, <1>5, <1>6, <1>7 DEF TypeOK, ListsOK, DebuggeeOK, DebuggerOK

(* The GUI.                                                                *)
LEMMA UserTyped == ASSUME TypeOK, User PROVE TypeOK'
<1>1. setup' \in Setups /\ hw' = hw /\ seen' = seen
  BY DEF User, Run, action_DebugStepIn, action_DebugStepOver, StepOver, action_DebugStepOut,
         ExecuteTo, action_DebugTraceStart, SetTraceFlag, TraceTo, action_DebugTraceStop,
         TypeOK, DebuggerOK
<1>2. pid' \in Flags /\ single' \in BOOLEAN
  BY DEF User, Run, action_DebugStepIn, action_DebugStepOver, StepIn, StepOver,
         action_DebugStepOut, ExecuteTo, action_DebugTraceStart, SetTraceFlag, TraceTo,
         action_DebugTraceStop, TypeOK, DebuggerOK, Flags
<1> DEFINE Awake ==
             /\ th' \in [Thread -> ThreadState] /\ ctx' \in [ip : Int, tf : BOOLEAN]
             /\ dbg' \in {Loop} \cup Waits
             /\ cmd' \in [kind : Command, t : Thread \cup {NoThread}, from : Int, to : Int]
<1>3. Awake
  <2>0. /\ ctx.tf \in BOOLEAN
        /\ \A a \in Addr : Flow[a] \in Addr /\ Over[a] \in Addr
        /\ \A a \in DOMAIN Return : Return[a] \in Addr
    BY AddrTyped DEF TypeOK, DebuggerOK
  <2>1. ASSUME NEW kind \in Command, NEW to \in Addr \cup {ctx.ip}, NEW tf \in BOOLEAN,
               Resume(kind, to, tf), dbg # Loop
        PROVE  Awake
    BY <2>1, ResumeTyped
  <2>2. {"run", "in", "over", "out", "until", "trace", "traceTo"} \subseteq Command
    BY DEF Command
  <2>3. CASE Run
    BY <2>0, <2>1, <2>2, <2>3, AskedBreak DEF Run
  <2>4. CASE action_DebugStepIn
    BY <2>0, <2>1, <2>2, <2>4, AskedBreak DEF action_DebugStepIn, StepIn
  <2>5. CASE action_DebugStepOver
    <3>1. CASE StepOver("over", Over[ctx.ip])
      BY <2>0, <2>1, <2>2, <2>5, <3>1, AskedBreak DEF action_DebugStepOver, StepOver
    <3>2. CASE StepIn
      BY <2>0, <2>1, <2>2, <2>5, <3>2, AskedBreak DEF action_DebugStepOver, StepIn
    <3> QED
      BY <2>5, <3>1, <3>2 DEF action_DebugStepOver
  <2>6. CASE action_DebugStepOut
    BY <2>0, <2>1, <2>2, <2>6, AskedBreak DEF action_DebugStepOut, StepOver
  <2>7. ASSUME NEW d \in Addr, ExecuteTo(d) PROVE Awake
    BY <2>0, <2>1, <2>2, <2>7, AskedBreak DEF ExecuteTo
  <2>8. ASSUME NEW d \in Addr, TraceTo(d) PROVE Awake
    BY <2>0, <2>1, <2>2, <2>8, AskedBreak DEF TraceTo, SetTraceFlag
  <2>9. CASE action_DebugTraceStart
    BY <2>0, <2>1, <2>2, <2>9, AskedBreak DEF action_DebugTraceStart, SetTraceFlag
  <2>10. CASE action_DebugTraceStop
    BY <2>10 DEF action_DebugTraceStop, TypeOK, DebuggeeOK, DebuggerOK
  <2> QED
    BY <2>3, <2>4, <2>5, <2>6, <2>7, <2>8, <2>9, <2>10 DEF User
<1> DEFINE Patched == sw' \in Seq(EntryOf(Opcode)) /\ mem' \in [Addr -> Opcode \cup {"code"}]
<1>4. Patched
  <2>0. /\ \A a \in Addr : Over[a] \in Addr
        /\ \A a \in DOMAIN Return : Return[a] \in Addr
    BY AddrTyped
  <2>1. CASE sw' = sw /\ mem' = mem
    BY <2>1 DEF TypeOK, ListsOK, DebuggeeOK
  <2>2. ASSUME NEW d \in Addr, NEW h \in Handle3, NEW p \in {"any", "this"}, Insert(d, h, p)
        PROVE  Patched
    BY <2>2, InsertTyped
  <2>3. {"BP_STEPOVER", "BP_TRACETO"} \subseteq Handle3
    BY DEF Handle3
  <2>4. CASE action_DebugStepOver
    BY <2>0, <2>1, <2>2, <2>3, <2>4 DEF action_DebugStepOver, StepOver
  <2>5. CASE action_DebugStepOut
    BY <2>0, <2>2, <2>3, <2>5 DEF action_DebugStepOut, StepOver
  <2>6. ASSUME NEW d \in Addr, ExecuteTo(d) \/ TraceTo(d) PROVE Patched
    BY <2>1, <2>2, <2>3, <2>6 DEF ExecuteTo, TraceTo
  <2> QED
    BY <2>1, <2>4, <2>5, <2>6
       DEF User, Run, action_DebugStepIn, action_DebugTraceStart, action_DebugTraceStop
<1> QED
  BY <1>1, <1>2, <1>3, <1>4 DEF TypeOK, ListsOK, DebuggeeOK, DebuggerOK

LEMMA NextTyped == TypeOK /\ [Next]_vars => TypeOK'
<1> SUFFICES ASSUME TypeOK, [Next]_vars PROVE TypeOK'
  OBVIOUS
<1>1. CASE UNCHANGED vars
  BY <1>1 DEF vars, TypeOK, ListsOK, DebuggeeOK, DebuggerOK
<1>2. CASE OnDebuggerBreak
  <2>1. dbg' \in {Loop} \cup Waits
    <3>1. Loop.at = "loop"
      BY DEF Loop
    <3> QED
      BY <1>2, <3>1 DEF OnDebuggerBreak, TypeOK, DebuggerOK, Waits
  <2>2. pid' \in Flags
    BY <1>2 DEF OnDebuggerBreak, TypeOK, DebuggerOK, Flags
  <2> QED
    BY <1>2, <2>1, <2>2 DEF OnDebuggerBreak, TypeOK, ListsOK, DebuggeeOK, DebuggerOK
<1> QED
  BY <1>1, <1>2, UserTyped, ExecuteTyped, HandleTyped DEF Next

(* The debuggee, the two lists, the flags and the debugger thread keep     *)
(* their types, whatever the program, its threads and the sessions are.    *)
THEOREM Typed == Spec => []TypeOK
BY InitTyped, NextTyped, PTL DEF Spec

-----------------------------------------------------------------------------
(* Where the threads stand.                                                *)

(* The commands that set a breakpoint which its hit erases.                *)
Removing == {"over", "out", "until", "traceTo"}

(* A thread may be taken back to a breakpoint only while this is listed:   *)
(* one thread, or nothing that erases a breakpoint.                        *)
NothingErased == \/ \A t, u \in Thread : t = u
                 \/ \A s \in Setups : s.asks \cap Removing = {}

(* Free(t): the debugger does not hold t in a break.                       *)
Free(t) == dbg = Loop \/ dbg.t # t

Trap(a) == a \in setup.own \/ At(sw, a) # {}

Written == \A a \in Addr : mem[a] = "int3" => Trap(a)

Trapped == \A t \in Thread : Free(t) /\ th[t].ev = "int3" =>
                               th[t].ip - 1 \in Addr /\ Trap(th[t].ip - 1)

Stands == \A t \in Thread : Free(t) /\ th[t].ev # "int3" => th[t].ip \in Addr

Held == dbg # Loop => ctx.ip \in Addr

Erasable == \A i \in DOMAIN sw : sw[i].handle # "BP_KEEP" => setup.asks \cap Removing # {}

StandOK == Written /\ Trapped /\ Stands /\ Held /\ Erasable

LEMMA InitStands == Init => StandOK
<1> SUFFICES ASSUME Init PROVE StandOK
  OBVIOUS
<1>1. \A t \in Thread : th[t].ip = Start /\ th[t].ev = "none"
  BY DEF Init
<1>2. Start \in Addr
  BY ProgramOK
<1>3. Written
  <2> SUFFICES ASSUME NEW a \in Addr, mem[a] = "int3" PROVE Trap(a)
    BY DEF Written
  <2>1. a \in setup.int3 \/ a \in setup.own
    BY DEF Init, Original
  <2> QED
    BY <2>1, SoftwareOf DEF Trap
<1>4. Held
  BY <1>2 DEF Init, Held
<1>5. Erasable
  BY SoftwareOf DEF Erasable
<1> QED
  BY <1>1, <1>2, <1>3, <1>4, <1>5 DEF StandOK, Trapped, Stands

LEMMA ExecuteStands ==
  ASSUME TypeOK, StandOK, NEW t \in Thread, Execute(t) PROVE StandOK'
<1>1. /\ setup' = setup /\ mem' = mem /\ sw' = sw /\ dbg' = dbg /\ ctx' = ctx
      /\ dbg = Loop /\ th[t].ip \in Addr
  BY DEF Execute
<1>2. \A a : Trap(a)' <=> Trap(a)
  BY <1>1 DEF Trap, At
<1>3. Written' /\ Held' /\ Erasable'
  BY <1>1, <1>2 DEF StandOK, Written, Held, Erasable
<1>4. th \in [Thread -> ThreadState]
  BY DEF TypeOK, DebuggeeOK
<1>5. \A u \in Thread \ {t} : th'[u] = th[u]
  BY <1>4 DEF Execute, Raise
<1>6. \/ th'[t].ev # "int3" /\ th'[t].ip \in Addr
      \/ th'[t].ev = "int3" /\ th'[t].ip - 1 \in Addr /\ Trap(th'[t].ip - 1)
  <2> DEFINE a == th[t].ip
  <2>1. CASE Raise(t, a, "step") \/ Raise(t, a, "ud2")
    BY <1>1, <1>4, <2>1 DEF Raise, ThreadState
  <2>2. CASE mem[a] = "int3" /\ Raise(t, a + 1, "int3")
    <3>1. th'[t].ev = "int3" /\ th'[t].ip = a + 1
      BY <1>4, <2>2 DEF Raise, ThreadState
    <3>2. (a + 1) - 1 = a
      BY <1>1, AddrTyped
    <3>3. Trap(a)
      BY <1>1, <2>2 DEF StandOK, Written
    <3> QED
      BY <1>1, <3>1, <3>2, <3>3
  <2>3. CASE th' = [th EXCEPT ![t] = [ip |-> Flow[a], tf |-> FALSE,
                                      ev |-> IF @.tf THEN "step" ELSE "none"]]
    <3>1. th'[t].ip = Flow[a] /\ th'[t].ev # "int3"
      BY <1>4, <2>3
    <3> QED
      BY <1>1, <3>1, AddrTyped
  <2> QED
    BY <2>1, <2>2, <2>3 DEF Execute
<1>7. Trapped' /\ Stands'
  BY <1>1, <1>2, <1>5, <1>6 DEF StandOK, Trapped, Stands, Free
<1> QED
  BY <1>3, <1>7 DEF StandOK

(* A listed address stays listed, but where a hit erases its breakpoint.   *)
LEMMA HandleLists ==
  ASSUME TypeOK, NEW t \in Thread, Handle(t)
  PROVE  \A a : Trap(a) => \/ Trap(a)'
                           \/ /\ BreakpointHit(t) /\ a = th[t].ip - 1 /\ At(sw, a) # {}
                              /\ sw[Min(At(sw, a))].handle # "BP_KEEP"
<1>0. sw \in Seq(EntryOf(Opcode)) /\ setup' = setup
  BY DEF TypeOK, ListsOK, Handle, Handling, ForeignException, BreakpointHit, OpcodeHit, TraceStep,
         UserStep, RestoreStep, HardwareHit
<1>1. CASE sw' = sw
  BY <1>0, <1>1 DEF Trap, At
<1>2. ASSUME NEW i \in DOMAIN sw, NEW b \in BOOLEAN, sw' = [sw EXCEPT ![i].restore = b],
             NEW a, Trap(a)
      PROVE  Trap(a)'
  <2>1. At([sw EXCEPT ![i].restore = b], a) = At(sw, a)
    BY <1>0, MarkKeeps
  <2>2. At(sw, a)' = At(sw', a)
    BY DEF At
  <2> QED
    BY <1>0, <1>2, <2>1, <2>2 DEF Trap
<1>3. CASE BreakpointHit(t)
  <2> DEFINE b == th[t].ip - 1
             i == Min(At(sw, b))
  <2>1. CASE At(sw, b) = {}
    BY <1>1, <1>3, <2>1 DEF BreakpointHit
  <2>2. CASE At(sw, b) # {}
    <3>1. i \in 1 .. Len(sw) /\ i \in DOMAIN sw /\ sw[i].at = b
      BY <2>2, HitTyped DEF TypeOK
    <3>2. CASE sw' = [sw EXCEPT ![i].restore = TRUE]
      BY <1>2, <3>1, <3>2
    <3>3. CASE sw' = RemoveAt(sw, i) /\ sw[i].handle # "BP_KEEP"
      <4> SUFFICES ASSUME NEW a, Trap(a), a # b PROVE Trap(a)'
        BY <1>3, <2>2, <3>3 DEF Trap
      <4>1. At(sw, a) # {} => At(RemoveAt(sw, i), a) # {}
        BY <1>0, <3>1, EraseKeeps
      <4>2. At(sw, a)' = At(sw', a)
        BY DEF At
      <4> QED
        BY <1>0, <3>3, <4>1, <4>2 DEF Trap
    <3> QED
      BY <1>3, <2>2, <3>2, <3>3 DEF BreakpointHit, KeepHit, StepOverHit, TraceToHit
  <2> QED
    BY <2>1, <2>2
<1>4. CASE OpcodeHit(t)
  <2>1. CASE At(sw, th[t].ip) = {}
    BY <1>1, <1>4, <2>1 DEF OpcodeHit
  <2>2. CASE At(sw, th[t].ip) # {}
    <3>1. Min(At(sw, th[t].ip)) \in DOMAIN sw
      BY <2>2, HitTyped DEF TypeOK
    <3> QED
      BY <1>2, <1>4, <2>2, <3>1 DEF OpcodeHit
  <2> QED
    BY <2>1, <2>2
<1>5. CASE RestoreStep(t)
  <2>1. CASE sw' = Rearm(sw) /\ Waiting(sw) # {}
    BY <1>0, <1>2, <2>1, RearmTyped
  <2>2. CASE sw' = Rearm(sw) /\ Waiting(sw) = {}
    BY <1>1, <2>2 DEF Rearm
  <2> QED
    BY <1>1, <1>5, <2>1, <2>2 DEF RestoreStep
<1> QED
  BY <1>1, <1>3, <1>4, <1>5 DEF Handle, ForeignException, TraceStep, UserStep, HardwareHit

LEMMA HandleStands ==
  ASSUME TypeOK, StandOK, NothingErased, NEW t \in Thread, Handle(t) PROVE StandOK'
<1>0. /\ th \in [Thread -> ThreadState] /\ sw \in Seq(EntryOf(Opcode))
      /\ mem \in [Addr -> Opcode \cup {"code"}] /\ setup \in Setups
  BY DEF TypeOK, ListsOK, DebuggeeOK, DebuggerOK
<1>1. dbg = Loop /\ setup' = setup /\ th[t].ev # "none"
  BY DEF Handle, Handling, ForeignException, BreakpointHit, OpcodeHit, TraceStep, UserStep,
         RestoreStep, HardwareHit
<1>2. \A u \in Thread : Free(u)
  BY <1>1 DEF Free
(* The thread that is served keeps its place or breaks at one.             *)
<1>3. \/ /\ th' = th /\ dbg' # Loop /\ dbg'.t = t /\ ctx'.ip \in Addr
      \/ /\ dbg' = Loop /\ th'[t].ip = th[t].ip /\ th[t].ip \in Addr
         /\ th'[t].ev = "none" /\ \A u \in Thread \ {t} : th'[u] = th[u]
  <2>0. /\ th[t].ev = "int3" => /\ th[t].ip - 1 \in Addr /\ Trap(th[t].ip - 1)
                                /\ (th[t].ip - 1) + 1 = th[t].ip
        /\ th[t].ev # "int3" => th[t].ip \in Addr
    BY <1>0, <1>2 DEF StandOK, Trapped, Stands, ThreadState
  <2>1. /\ th[t].ip \in Int /\ th[t].ip - 1 \in Int /\ th[t].tf \in BOOLEAN
        /\ \A ev : HitIp(ev, th[t].ip) \in Int
    BY <1>0 DEF ThreadState, HitIp
  <2>2. ASSUME NEW ip \in Addr, NEW tf \in BOOLEAN, NEW trap \in BOOLEAN,
               NEW why \in {"system", "exception", "breakpoint", "step"},
               CallBreakDebugger(t, ip, tf, why, trap)
        PROVE  th' = th /\ dbg' # Loop /\ dbg'.t = t /\ ctx'.ip \in Addr
    BY <2>2, AddrTyped, BreakTyped DEF Break
  <2>3. ASSUME NEW tf \in BOOLEAN, Continue(t, tf), th[t].ev # "int3"
        PROVE  /\ dbg' = Loop /\ th'[t].ip = th[t].ip /\ th[t].ip \in Addr
               /\ th'[t].ev = "none" /\ \A u \in Thread \ {t} : th'[u] = th[u]
    BY <1>1, <2>0, <2>3, ContinueTyped
  <2>4. CASE ForeignException(t)
    <3>1. CASE th[t].ev = "int3"
      <4>1. At(sw, th[t].ip - 1) = {}
        BY <2>4, <3>1 DEF ForeignException, IsBP
      <4>2. th[t].ip - 1 \in setup.own /\ Flow[th[t].ip - 1] = th[t].ip
        <5>1. th[t].ip - 1 \in setup.own
          BY <2>0, <3>1, <4>1 DEF Trap
        <5> QED
          BY <1>0, <2>0, <3>1, <5>1, SetupTyped
      <4>3. th[t].ip \in Addr
        BY <2>0, <3>1, <4>2, AddrTyped
      <4> QED
        BY <2>1, <2>2, <2>4, <4>3 DEF ForeignException
    <3>2. CASE th[t].ev # "int3"
      BY <2>0, <2>1, <2>2, <2>4, <3>2 DEF ForeignException
    <3> QED
      BY <3>1, <3>2
  <2>5. CASE BreakpointHit(t)
    <3>1. th[t].ev = "int3"
      BY <2>5 DEF BreakpointHit, Handling
    <3>2. HitIp("int3", th[t].ip) \in Addr
      BY <2>0, <3>1 DEF HitIp
    <3> QED
      BY <2>2, <2>5, <3>2 DEF BreakpointHit
  <2>6. CASE OpcodeHit(t)
    <3>1. HitIp("ud2", th[t].ip) \in Addr
      BY <2>0, <2>6 DEF OpcodeHit, Handling, HitIp
    <3> QED
      BY <2>2, <2>6, <3>1 DEF OpcodeHit
  <2>7. CASE TraceStep(t)
    BY <2>3, <2>7 DEF TraceStep, Handling
  <2>8. CASE UserStep(t)
    BY <2>0, <2>1, <2>2, <2>8 DEF UserStep, Handling
  <2>9. CASE RestoreStep(t)
    BY <2>1, <2>3, <2>9 DEF RestoreStep, Handling
  <2>10. CASE HardwareHit(t)
    BY <2>0, <2>1, <2>2, <2>10 DEF HardwareHit, Handling
  <2> QED
    BY <2>4, <2>5, <2>6, <2>7, <2>8, <2>9, <2>10 DEF Handle
<1>4. Stands' /\ Held'
  BY <1>2, <1>3 DEF StandOK, Stands, Held, Free
(* A breakpoint is erased only under the one thread that hit it.           *)
<1>5. Trapped'
  <2> SUFFICES ASSUME NEW u \in Thread, Free(u)', th'[u].ev = "int3",
                      NEW a, a = th'[u].ip - 1
               PROVE  a \in Addr /\ Trap(a)'
    BY DEF Trapped, Trap, At
  <2>1. u # t /\ th'[u] = th[u]
    BY <1>3 DEF Free
  <2>2. a \in Addr /\ Trap(a)
    BY <1>2, <2>1 DEF StandOK, Trapped
  <2>3. \A i \in DOMAIN sw : sw[i].handle = "BP_KEEP"
    BY <1>0, <2>1 DEF StandOK, Erasable, NothingErased
  <2>4. \A b : At(sw, b) # {} => Min(At(sw, b)) \in DOMAIN sw
    BY HitTyped DEF TypeOK
  <2> QED
    BY <2>2, <2>3, <2>4, HandleLists
<1>6. Written'
  <2> SUFFICES ASSUME NEW a \in Addr, mem'[a] = "int3" PROVE Trap(a)'
    BY DEF Written, Trap, At
  <2>1. CASE BreakpointHit(t) /\ a = th[t].ip - 1 /\ At(sw, a) # {}
    <3>1. mem'[a] = Original(a)
      BY <1>0, <2>1 DEF BreakpointHit
    <3>2. a \in setup.own
      BY <3>1 DEF Original
    <3> QED
      BY <1>1, <3>2 DEF Trap
  <2>2. CASE mem[a] = "int3" /\ ~(BreakpointHit(t) /\ a = th[t].ip - 1 /\ At(sw, a) # {})
    <3>1. Trap(a)
      BY <2>2 DEF StandOK, Written
    <3> QED
      BY <2>2, <3>1, HandleLists
  <2>3. CASE mem'[a] # mem[a] /\ RestoreStep(t)
    <3>1. /\ sw' = Rearm(sw) /\ Waiting(sw) # {}
          /\ mem' = LET bp == sw[Min(Waiting(sw))] IN [mem EXCEPT ![bp.at] = bp.op]
      BY <2>3 DEF RestoreStep
    <3>2. /\ Min(Waiting(sw)) \in Waiting(sw) /\ Min(Waiting(sw)) \in DOMAIN sw
      BY <1>0, <3>1, RearmTyped
    <3>3. sw[Min(Waiting(sw))].at = a
      BY <1>0, <2>3, <3>1
    <3>4. Trap(a)
      BY <3>2, <3>3 DEF Trap, At, Waiting
    <3>5. ~BreakpointHit(t)
      BY <2>3 DEF RestoreStep, BreakpointHit, Handling
    <3> QED
      BY <3>4, <3>5, HandleLists
  <2>4. CASE mem'[a] # mem[a] /\ OpcodeHit(t)
    <3>1. a \in setup.own
      BY <1>0, <2>4 DEF OpcodeHit, Original
    <3> QED
      BY <1>1, <3>1 DEF Trap
  <2>5. \/ mem'[a] = mem[a]
        \/ OpcodeHit(t)
        \/ RestoreStep(t)
        \/ BreakpointHit(t) /\ a = th[t].ip - 1 /\ At(sw, a) # {}
    <3>1. CASE BreakpointHit(t)
      BY <1>0, <3>1 DEF BreakpointHit
    <3>2. CASE ForeignException(t) \/ TraceStep(t) \/ UserStep(t) \/ HardwareHit(t)
      BY <3>2 DEF ForeignException, TraceStep, UserStep, HardwareHit
    <3> QED
      BY <3>1, <3>2, Zenon DEF Handle
  <2> QED
    BY <2>1, <2>2, <2>3, <2>4, <2>5
<1>7. Erasable'
  <2>1. ASSUME NEW i \in DOMAIN sw, NEW b \in BOOLEAN, sw' = [sw EXCEPT ![i].restore = b]
        PROVE  Erasable'
    <3> DEFINE L == [sw EXCEPT ![i].restore = b]
    <3>1. DOMAIN L = DOMAIN sw /\ \A j \in DOMAIN sw : L[j].handle = sw[j].handle
      BY <1>0, MarkKeeps
    <3> HIDE DEF L
    <3> QED
      BY <1>1, <2>1, <3>1 DEF StandOK, Erasable, L
  <2>2. ASSUME NEW i \in 1 .. Len(sw), sw' = RemoveAt(sw, i)
        PROVE  Erasable'
    <3>1. \A j \in DOMAIN RemoveAt(sw, i) : \E k \in DOMAIN sw : RemoveAt(sw, i)[j] = sw[k]
      BY <1>0, EraseKeeps
    <3> QED
      BY <1>1, <2>2, <3>1 DEF StandOK, Erasable
  <2>3. CASE sw' = sw
    BY <1>1, <2>3 DEF StandOK, Erasable
  <2>4. CASE BreakpointHit(t)
    <3>1. At(sw, th[t].ip - 1) # {} => Min(At(sw, th[t].ip - 1)) \in 1 .. Len(sw)
                                       /\ Min(At(sw, th[t].ip - 1)) \in DOMAIN sw
      BY HitTyped DEF TypeOK
    <3> QED
      BY <2>1, <2>2, <2>3, <2>4, <3>1 DEF BreakpointHit, KeepHit, StepOverHit, TraceToHit
  <2>5. CASE OpcodeHit(t)
    <3>1. At(sw, th[t].ip) # {} => Min(At(sw, th[t].ip)) \in DOMAIN sw
      BY HitTyped DEF TypeOK
    <3> QED
      BY <2>1, <2>3, <2>5, <3>1 DEF OpcodeHit
  <2>6. CASE sw' = Rearm(sw)
    <3>1. CASE Waiting(sw) = {}
      BY <2>3, <2>6, <3>1 DEF Rearm
    <3>2. CASE Waiting(sw) # {}
      BY <1>0, <2>1, <2>6, <3>2, RearmTyped
    <3> QED
      BY <3>1, <3>2
  <2> QED
    BY <2>3, <2>4, <2>5, <2>6
       DEF Handle, ForeignException, TraceStep, UserStep, RestoreStep, HardwareHit
<1> QED
  BY <1>4, <1>5, <1>6, <1>7 DEF StandOK

LEMMA InsertStands ==
  ASSUME TypeOK, StandOK, setup' = setup, NEW d \in Addr, NEW h \in Handle3,
         NEW p \in {"any", "this"}, Insert(d, h, p), setup.asks \cap Removing # {}
  PROVE  /\ \A a : Trap(a) => Trap(a)'
         /\ Written' /\ Erasable'
<1> DEFINE e == Entry(d, "int3", h, p)
           L == Append(sw, e)
<1>0. sw \in Seq(EntryOf(Opcode)) /\ mem \in [Addr -> Opcode \cup {"code"}]
  BY DEF TypeOK, ListsOK, DebuggeeOK
<1>1. e \in EntryOf(Opcode) /\ e.at = d
  <2>1. e \in EntryOf(Opcode)
    BY EntryTyped DEF Opcode
  <2> QED
    BY <2>1 DEF Entry
<1>2. sw' = L /\ mem' = [mem EXCEPT ![d] = "int3"]
  BY DEF Insert
<1> HIDE DEF e
<1>3. \A a : (At(sw, a) # {} \/ a = d) => At(L, a) # {}
  BY <1>0, <1>1, AppendAt
<1> HIDE DEF L
<1>4. \A a : Trap(a) \/ a = d => Trap(a)'
  <2>1. \A a : At(sw, a)' = At(L, a)
    BY <1>2 DEF At
  <2> QED
    BY <1>3, <2>1 DEF Trap
<1>5. Written'
  <2> SUFFICES ASSUME NEW a \in Addr, mem'[a] = "int3" PROVE Trap(a)'
    BY DEF Written, Trap, At
  <2> QED
    BY <1>0, <1>2, <1>4 DEF StandOK, Written
<1>6. Erasable'
  BY DEF Erasable
<1> QED
  BY <1>4, <1>5, <1>6

LEMMA UserStands ==
  ASSUME TypeOK, StandOK, User PROVE StandOK'
<1>0. setup' = setup /\ setup \in Setups
  BY DEF User, Run, action_DebugStepIn, action_DebugStepOver, StepOver, action_DebugStepOut,
         ExecuteTo, action_DebugTraceStart, SetTraceFlag, TraceTo, action_DebugTraceStop,
         TypeOK, DebuggerOK
<1> DEFINE Same == sw' = sw /\ mem' = mem
           Added == \E d \in Addr, h \in Handle3, p \in {"any", "this"} :
                      Insert(d, h, p) /\ setup.asks \cap Removing # {}
<1>1. Same \/ Added
  <2>1. {"BP_STEPOVER", "BP_TRACETO"} \subseteq Handle3
    BY DEF Handle3
  <2>2. CASE action_DebugStepOver
    BY <2>1, <2>2, AskedBreak, AddrTyped DEF action_DebugStepOver, StepOver, Removing
  <2>3. CASE action_DebugStepOut
    BY <2>1, <2>3, AskedBreak, AddrTyped DEF action_DebugStepOut, StepOver, Removing
  <2>4. ASSUME NEW d \in Addr, ExecuteTo(d) \/ TraceTo(d) PROVE Same \/ Added
    BY <2>1, <2>4, AskedBreak DEF ExecuteTo, TraceTo, Removing
  <2> QED
    BY <2>2, <2>3, <2>4
       DEF User, Run, action_DebugStepIn, action_DebugTraceStart, action_DebugTraceStop
<1>2. (\A a : Trap(a) => Trap(a)') /\ Written' /\ Erasable'
  <2>1. CASE Same
    BY <1>0, <2>1 DEF StandOK, Written, Erasable, Trap, At
  <2>2. CASE Added
    BY <1>0, <2>2, InsertStands
  <2> QED
    BY <1>1, <2>1, <2>2
<1> DEFINE Moves == /\ dbg # Loop /\ dbg.t \in Thread /\ dbg' = Loop
                    /\ th' \in [Thread -> ThreadState]
                    /\ \A t \in Thread \ {dbg.t} : th'[t] = th[t]
                    /\ th'[dbg.t].ip = ctx.ip /\ th'[dbg.t].ev = "none"
           Stays == th' = th /\ dbg' = dbg /\ ctx' = ctx
<1>3. Moves \/ Stays
  <2>0. ctx.tf \in BOOLEAN
    BY DEF TypeOK, DebuggerOK
  <2>1. ASSUME NEW kind \in Command, NEW to \in Addr \cup {ctx.ip}, NEW tf \in BOOLEAN,
               Resume(kind, to, tf), dbg # Loop
        PROVE  Moves
    <3>1. th'[dbg.t] = [ip |-> ctx.ip, tf |-> tf \/ dbg.trap, ev |-> "none"]
      BY <2>1, ResumeTyped
    <3> QED
      BY <2>1, <3>1, ResumeTyped
  <2>2. {"run", "in", "over", "out", "until", "trace", "traceTo"} \subseteq Command
    BY DEF Command
  <2>3. CASE Run
    BY <2>0, <2>1, <2>2, <2>3, AskedBreak DEF Run
  <2>4. CASE action_DebugStepIn
    BY <2>0, <2>1, <2>2, <2>4, AskedBreak, AddrTyped DEF action_DebugStepIn, StepIn
  <2>5. CASE action_DebugStepOver
    <3>1. CASE StepOver("over", Over[ctx.ip])
      BY <2>0, <2>1, <2>2, <2>5, <3>1, AskedBreak, AddrTyped DEF action_DebugStepOver, StepOver
    <3>2. CASE StepIn
      BY <2>0, <2>1, <2>2, <2>5, <3>2, AskedBreak, AddrTyped DEF action_DebugStepOver, StepIn
    <3> QED
      BY <2>5, <3>1, <3>2 DEF action_DebugStepOver
  <2>6. CASE action_DebugStepOut
    BY <2>0, <2>1, <2>2, <2>6, AskedBreak, AddrTyped DEF action_DebugStepOut, StepOver
  <2>7. ASSUME NEW d \in Addr, ExecuteTo(d) PROVE Moves
    BY <2>0, <2>1, <2>2, <2>7, AskedBreak DEF ExecuteTo
  <2>8. ASSUME NEW d \in Addr, TraceTo(d) PROVE Moves
    BY <2>0, <2>1, <2>2, <2>8, AskedBreak DEF TraceTo, SetTraceFlag
  <2>9. CASE action_DebugTraceStart
    BY <2>0, <2>1, <2>2, <2>9, AskedBreak DEF action_DebugTraceStart, SetTraceFlag
  <2>10. CASE action_DebugTraceStop
    BY <2>10 DEF action_DebugTraceStop
  <2> QED
    BY <2>3, <2>4, <2>5, <2>6, <2>7, <2>8, <2>9, <2>10 DEF User
<1>4. Trapped' /\ Stands' /\ Held'
  <2>1. CASE Stays
    <3>1. \A t \in Thread : Free(t)' <=> Free(t)
      BY <2>1 DEF Free
    <3>2. Stands' /\ Held'
      BY <2>1, <3>1 DEF StandOK, Stands, Held
    <3>3. Trapped'
      <4> SUFFICES ASSUME NEW u \in Thread, Free(u)', th'[u].ev = "int3",
                          NEW a, a = th'[u].ip - 1
                   PROVE  a \in Addr /\ Trap(a)'
        BY DEF Trapped, Trap, At
      <4> QED
        BY <1>2, <2>1, <3>1 DEF StandOK, Trapped
    <3> QED
      BY <3>2, <3>3
  <2>2. CASE Moves
    <3>1. \A t \in Thread \ {dbg.t} : Free(t)
      BY DEF Free
    <3>2. Stands' /\ Held'
      BY <2>2, <3>1 DEF StandOK, Stands, Held
    <3>3. Trapped'
      <4> SUFFICES ASSUME NEW u \in Thread, Free(u)', th'[u].ev = "int3",
                          NEW a, a = th'[u].ip - 1
                   PROVE  a \in Addr /\ Trap(a)'
        BY DEF Trapped, Trap, At
      <4>1. u # dbg.t /\ th'[u] = th[u]
        BY <2>2
      <4> QED
        BY <1>2, <3>1, <4>1 DEF StandOK, Trapped
    <3> QED
      BY <3>2, <3>3
  <2> QED
    BY <1>3, <2>1, <2>2
<1> QED
  BY <1>2, <1>4 DEF StandOK

LEMMA NextStands == TypeOK /\ StandOK /\ NothingErased /\ [Next]_vars => StandOK'
<1> SUFFICES ASSUME TypeOK, StandOK, NothingErased, [Next]_vars PROVE StandOK'
  OBVIOUS
<1>1. CASE UNCHANGED vars
  BY <1>1 DEF vars, StandOK, Written, Trapped, Stands, Held, Erasable, Trap, At, Free
<1>2. CASE OnDebuggerBreak
  <2>1. dbg # Loop /\ dbg' # Loop /\ dbg'.t = dbg.t
    <3>1. Loop.at = "loop"
      BY DEF Loop
    <3> QED
      BY <1>2, <3>1 DEF OnDebuggerBreak, TypeOK, DebuggerOK, Waits
  <2> QED
    BY <1>2, <2>1
       DEF OnDebuggerBreak, StandOK, Written, Trapped, Stands, Held, Erasable, Trap, At, Free
<1> QED
  BY <1>1, <1>2, UserStands, ExecuteStands, HandleStands DEF Next

(* No thread is resumed in the middle of an instruction.                   *)
THEOREM NoMidInstructionHolds == NothingErased => (Spec => []NoMidInstruction)
<1> SUFFICES ASSUME NothingErased PROVE Spec => []NoMidInstruction
  OBVIOUS
<1>1. TypeOK /\ StandOK /\ [Next]_vars => StandOK'
  BY NextStands
<1>2. StandOK => NoMidInstruction
  BY DEF StandOK, Stands, NoMidInstruction, Free
<1> QED
  BY <1>1, <1>2, InitTyped, NextTyped, InitStands, PTL DEF Spec

-----------------------------------------------------------------------------
(* A trace.                                                                *)

(* OnDebuggerBreak has ended the trace before the user can do anything,    *)
(* and a thread that is traced has its trap flag set.                      *)
TraceOK ==
  /\ dbg # Loop /\ dbg.shown => ~pid.trace
  /\ \A t \in Thread : dbg = Loop /\ th[t].ev = "none" /\ pid.trace /\ single /\ t = cmd.t =>
       th[t].tf /\ (seen[t] = "traced" \/ th[t].ip = cmd.from)

LEMMA InitTraces == Init => TraceOK
BY DEF Init, TraceOK, Break

LEMMA NextTraces == TypeOK /\ TraceOK /\ [Next]_vars => TraceOK'
<1> SUFFICES ASSUME TypeOK, TraceOK, [Next]_vars PROVE TraceOK'
  OBVIOUS
<1>0. th \in [Thread -> ThreadState] /\ pid \in Flags
        /\ seen \in [Thread -> {"none", "hit", "exception", "step", "traced"}]
  BY DEF TypeOK, DebuggeeOK, DebuggerOK
<1>a. Loop.at = "loop"
  BY DEF Loop
<1>1. CASE UNCHANGED vars
  BY <1>1 DEF vars, TraceOK
<1>2. CASE OnDebuggerBreak
  <2>1. dbg' # Loop
    BY <1>2, <1>a DEF OnDebuggerBreak, TypeOK, DebuggerOK, Waits
  <2>2. ~pid'.trace
    BY <1>0, <1>2 DEF OnDebuggerBreak, Flags
  <2> QED
    BY <2>1, <2>2 DEF TraceOK
<1>3. ASSUME NEW u \in Thread, Execute(u) PROVE TraceOK'
  <2>1. dbg' = dbg /\ pid' = pid /\ single' = single /\ cmd' = cmd /\ dbg = Loop /\ th[u].ev = "none"
    BY <1>3 DEF Execute
  <2> SUFFICES ASSUME NEW t \in Thread, th'[t].ev = "none", pid.trace, single, t = cmd.t
               PROVE  th'[t].tf /\ (seen'[t] = "traced" \/ th'[t].ip = cmd.from)
    BY <2>1 DEF TraceOK
  <2>2. CASE t = u
    <3>1. th[u].tf
      BY <2>1, <2>2 DEF TraceOK
    <3>2. th'[u].ev # "none"
      BY <1>0, <1>3, <3>1 DEF Execute, Raise, ThreadState
    <3> QED
      BY <2>2, <3>2
  <2>3. CASE t # u
    <3>1. th'[t] = th[t] /\ seen'[t] = seen[t]
      BY <1>0, <1>3, <2>3 DEF Execute, Raise
    <3> QED
      BY <2>1, <3>1 DEF TraceOK
  <2> QED
    BY <2>2, <2>3
<1>4. ASSUME NEW u \in Thread, Handle(u) PROVE TraceOK'
  <2>0. dbg = Loop /\ th[u].ip \in Int /\ th[u].tf \in BOOLEAN /\ cmd' = cmd
    BY <1>0, <1>4 DEF Handle, Handling, ForeignException, BreakpointHit, OpcodeHit, TraceStep,
                      UserStep, RestoreStep, HardwareHit, ThreadState
  <2>1. ASSUME NEW ip, NEW tf, NEW why, NEW trap, CallBreakDebugger(u, ip, tf, why, trap)
        PROVE  TraceOK'
    <3>1. dbg' # Loop /\ ~dbg'.shown
      BY <1>a, <2>1 DEF CallBreakDebugger, Break
    <3> QED
      BY <3>1 DEF TraceOK
  <2>2. CASE TraceStep(u)
    <3>0. dbg' = dbg /\ pid' = pid /\ single' = single
      BY <2>2 DEF TraceStep, Continue
    <3> SUFFICES ASSUME NEW t \in Thread, th'[t].ev = "none", pid.trace, single, t = cmd.t
                 PROVE  th'[t].tf /\ (seen'[t] = "traced" \/ th'[t].ip = cmd.from)
      BY <2>0, <3>0 DEF TraceOK
    <3>1. CASE t = u
      BY <1>0, <2>2, <3>1, ContinueTyped DEF TraceStep
    <3>2. CASE t # u
      <4>1. th'[t] = th[t] /\ seen'[t] = seen[t]
        BY <1>0, <2>2, <3>2, ContinueTyped DEF TraceStep
      <4> QED
        BY <2>0, <4>1 DEF TraceOK
    <3> QED
      BY <3>1, <3>2
  <2>3. CASE RestoreStep(u)
    <3>1. ~single' /\ dbg' = Loop
      BY <2>0, <2>3 DEF RestoreStep, Continue
    <3> QED
      BY <3>1 DEF TraceOK
  <2> QED
    BY <1>4, <2>1, <2>2, <2>3
       DEF Handle, ForeignException, BreakpointHit, OpcodeHit, UserStep, HardwareHit
<1>5. CASE User
  <2>1. ASSUME dbg # Loop, ~pid'.trace, dbg' = Loop PROVE TraceOK'
    BY <2>1 DEF TraceOK
  <2>2. \A c : Asked(c) => dbg # Loop /\ ~pid.trace
    BY AskedBreak DEF Asked, TraceOK
  <2>3. ASSUME NEW kind, NEW to, Asked(kind), SetTraceFlag(kind, to) PROVE TraceOK'
    <3>1. dbg' = Loop /\ dbg.t \in Thread /\ cmd'.t = dbg.t /\ cmd'.from = ctx.ip
      BY <2>2, <2>3 DEF SetTraceFlag, Resume, TypeOK, DebuggerOK, Waits
    <3>2. th'[dbg.t].tf /\ th'[dbg.t].ip = ctx.ip
      BY <1>0, <2>3, <3>1 DEF SetTraceFlag, Resume
    <3> QED
      BY <3>1, <3>2 DEF TraceOK
  <2>4. CASE action_DebugTraceStop
    <3>1. ~pid'.trace /\ dbg' = dbg
      BY <1>0, <2>4 DEF action_DebugTraceStop, Flags
    <3> QED
      BY <3>1 DEF TraceOK
  <2>5. CASE Run \/ action_DebugStepIn \/ action_DebugStepOver \/ action_DebugStepOut
    BY <2>1, <2>2, <2>5
       DEF Run, action_DebugStepIn, action_DebugStepOver, action_DebugStepOut, StepOver, StepIn, Resume
  <2>6. ASSUME NEW d \in Addr, ExecuteTo(d) PROVE TraceOK'
    BY <2>1, <2>2, <2>6 DEF ExecuteTo, Resume
  <2>7. ASSUME NEW d \in Addr, TraceTo(d) PROVE TraceOK'
    BY <2>3, <2>7 DEF TraceTo
  <2>8. CASE action_DebugTraceStart
    BY <2>3, <2>8 DEF action_DebugTraceStart
  <2> QED
    BY <1>5, <2>4, <2>5, <2>6, <2>7, <2>8 DEF User
<1> QED
  BY <1>1, <1>2, <1>3, <1>4, <1>5 DEF Next

(* While a process is traced its thread executes no instruction that is    *)
(* not in the trace, but the one it started from.                          *)
THEOREM TraceIsComplete == Spec => TraceComplete
<1>1. TraceOK => \A t \in Thread : Passes(t) /\ pid.trace /\ single /\ t = cmd.t
                                   => seen[t] = "traced" \/ th[t].ip = cmd.from
  BY DEF TraceOK, Passes
<1> QED
  BY <1>1, InitTyped, NextTyped, InitTraces, NextTraces, PTL DEF Spec, TraceComplete

-----------------------------------------------------------------------------
(* The breakpoints that are kept.                                          *)

(* What follows is about one thread, in sessions without breakpoints of    *)
(* the user or in which the user does not single-step: the step of the     *)
(* user takes the place of the step that arms a breakpoint again.          *)
OneThread == \A t, u \in Thread : t = u

NoBreakpoints(s) == s.int3 = {} /\ s.ud2 = {} /\ s.hard = {}

Unstepped(s) == /\ s.asks \cap {"in", "trace", "traceTo"} = {}
                /\ "over" \in s.asks => s.ret = {}

DistinctIn(L) == \A i, j \in DOMAIN L : L[i].at = L[j].at => i = j

Apart(L, K) == \A i \in DOMAIN L, j \in DOMAIN K : L[i].at # K[j].at

(* A kept breakpoint is written unless it waits.                           *)
WrittenIn(L, m) == \A i \in DOMAIN L : L[i].handle = "BP_KEEP" =>
                     /\ L[i].at \notin setup.own
                     /\ m[L[i].at] = IF L[i].restore THEN "code" ELSE L[i].op

HardwareIn(L, m) == \A i \in DOMAIN L : L[i].handle = "BP_KEEP" /\ m[L[i].at] = "code"

(* The thread was seen at a hit of a, and is about to make the step, or    *)
(* has made it.                                                            *)
SteppingOff(a) ==
  \A t \in Thread :
    IF dbg = Loop
    THEN \/ th[t].ev = "step"
         \/ (th[t].ev = "none" /\ th[t].ip = a /\ th[t].tf /\ seen[t] = "hit")
    ELSE ctx.ip = a /\ (ctx.tf \/ dbg.trap) /\ seen[t] = "hit"

(* At most one breakpoint waits, and for the step that is pending.         *)
WaitsFor(L, r) ==
  /\ \A a \in Addr : (\E i \in Waiting(L) : L[i].at = a) =>
                      pid.trap /\ pid.restore = r /\ SteppingOff(a)
  /\ \A i, j \in Waiting(L) : i = j

KeptOK == /\ ~single /\ ~pid.trace
          /\ DistinctIn(sw) /\ DistinctIn(hw) /\ Apart(sw, hw)
          /\ WrittenIn(sw, mem) /\ HardwareIn(hw, mem)
          /\ WaitsFor(sw, "RESTORE_BP_SOFTWARE") /\ WaitsFor(hw, "RESTORE_BP_HARDWARE")

(* The operations on a list: the entry n is marked or unmarked, ...         *)
Marked(L, K, n, b) ==
  /\ DOMAIN K = DOMAIN L
  /\ \A i \in DOMAIN L : /\ K[i].at = L[i].at /\ K[i].op = L[i].op
                         /\ K[i].handle = L[i].handle
                         /\ K[i].restore = IF i = n THEN b ELSE L[i].restore
  /\ DistinctIn(L) => DistinctIn(K)
  /\ Waiting(K) \ {n} = Waiting(L) \ {n}
  /\ n \in Waiting(K) <=> b /\ L[n].handle = "BP_KEEP"

LEMMA MarkFacts ==
  ASSUME NEW O, NEW L \in Seq(EntryOf(O)), NEW n \in DOMAIN L, NEW b \in BOOLEAN
  PROVE  Marked(L, [L EXCEPT ![n].restore = b], n, b)
<1> DEFINE K == [L EXCEPT ![n].restore = b]
<1>1. /\ DOMAIN K = DOMAIN L
      /\ \A i \in DOMAIN L : /\ K[i].at = L[i].at /\ K[i].op = L[i].op
                             /\ K[i].handle = L[i].handle /\ K[i].pid = L[i].pid
                             /\ K[i].restore = IF i = n THEN b ELSE L[i].restore
  BY MarkKeeps
<1>2. \A i \in DOMAIN L : L[i].pid # "none"
  BY ListTyped DEF EntryOf
<1> HIDE DEF K
<1>3. Marked(L, K, n, b)
  BY <1>1, <1>2 DEF DistinctIn, Waiting, Marked
<1> QED
  BY <1>3 DEF K

LEMMA EraseFacts ==
  ASSUME NEW O, NEW L \in Seq(EntryOf(O)), NEW n \in 1 .. Len(L), L[n].handle # "BP_KEEP",
         NEW K, K = RemoveAt(L, n)
  PROVE  /\ \A i \in DOMAIN K : \E j \in DOMAIN L \ {n} : K[i] = L[j]
         /\ DistinctIn(L) => DistinctIn(K)
         /\ \A i \in Waiting(K) : \E j \in Waiting(L) : K[i] = L[j]
<1>1. \A i \in DOMAIN K : \E j \in DOMAIN L \ {n} :
         j \in {i, i + 1} /\ (j = i <=> i < n) /\ K[i] = L[j]
  BY EraseKeeps
<1>2. DistinctIn(L) => DistinctIn(K)
  <2> SUFFICES ASSUME DistinctIn(L), NEW i \in DOMAIN K, NEW j \in DOMAIN K, K[i].at = K[j].at
               PROVE  i = j
    BY DEF DistinctIn
  <2>0. i \in Nat /\ j \in Nat
    <3>1. K \in Seq(EntryOf(O))
      BY EraseKeeps
    <3> QED
      BY <3>1
  <2>1. PICK k \in DOMAIN L : k \in {i, i + 1} /\ (k = i <=> i < n) /\ K[i] = L[k]
    BY <1>1
  <2>2. PICK l \in DOMAIN L : l \in {j, j + 1} /\ (l = j <=> j < n) /\ K[j] = L[l]
    BY <1>1
  <2>3. k = l
    BY <2>1, <2>2 DEF DistinctIn
  <2> QED
    BY <2>0, <2>1, <2>2, <2>3
<1>3. \A i \in Waiting(K) : \E j \in Waiting(L) : K[i] = L[j]
  BY <1>1 DEF Waiting
<1> QED
  BY <1>1, <1>2, <1>3

Appended(L, K, e) ==
  /\ \A i \in DOMAIN K : K[i] = e \/ (i \in DOMAIN L /\ K[i] = L[i])
  /\ DistinctIn(L) => DistinctIn(K)
  /\ Waiting(K) = Waiting(L)
  /\ \A i \in Waiting(L) : K[i] = L[i]

LEMMA AppendFacts ==
  ASSUME NEW O, NEW L \in Seq(EntryOf(O)), NEW e \in EntryOf(O), e.handle # "BP_KEEP",
         \A i \in DOMAIN L : L[i].at # e.at
  PROVE  Appended(L, Append(L, e), e)
<1> DEFINE K == Append(L, e)
<1>1. /\ DOMAIN K = DOMAIN L \cup {Len(L) + 1} /\ \A i \in DOMAIN L : K[i] = L[i]
      /\ K[Len(L) + 1] = e /\ Len(L) + 1 \notin DOMAIN L
  BY AppendKeeps
<1> HIDE DEF K
<1>2. \A i \in DOMAIN K : K[i] = e \/ (i \in DOMAIN L /\ K[i] = L[i])
  BY <1>1
<1>3. DistinctIn(L) => DistinctIn(K)
  BY <1>1 DEF DistinctIn
<1>4. Waiting(K) = Waiting(L) /\ \A i \in Waiting(L) : K[i] = L[i]
  BY <1>1 DEF Waiting
<1>5. Appended(L, K, e)
  BY <1>2, <1>3, <1>4 DEF Appended
<1> QED
  BY <1>5 DEF K

LEMMA InitKept == Init /\ Unstepped(setup) => KeptOK
<1> SUFFICES ASSUME Init, Unstepped(setup) PROVE KeptOK
  OBVIOUS
<1>0. setup \in Setups
  BY DEF Init
<1>1. /\ setup.int3 \cup setup.ud2 \cup setup.hard \subseteq Addr \ setup.own
      /\ setup.int3 \cap setup.ud2 = {} /\ (setup.int3 \cup setup.ud2) \cap setup.hard = {}
  BY <1>0, SetupTyped
<1>2. DistinctIn(sw) /\ DistinctIn(hw) /\ Apart(sw, hw)
  BY <1>1, SoftwareOf, HardwareOf DEF DistinctIn, Apart
<1>3. \A a \in Addr : mem[a] = IF a \in setup.int3 THEN "int3"
                               ELSE IF a \in setup.ud2 THEN "ud2" ELSE Original(a)
  BY DEF Init
<1>4. WrittenIn(sw, mem)
  BY <1>1, <1>3, SoftwareOf DEF WrittenIn
<1>5. HardwareIn(hw, mem)
  BY <1>1, <1>3, HardwareOf DEF HardwareIn, Original
<1>6. Waiting(sw) = {} /\ Waiting(hw) = {}
  BY SoftwareOf, HardwareOf DEF Waiting
<1>7. ~single /\ ~pid.trace
  BY DEF Init
<1> QED
  BY <1>2, <1>4, <1>5, <1>6, <1>7 DEF KeptOK, WaitsFor

(* An instruction is executed: off a breakpoint that waits, with the trap  *)
(* flag set.                                                               *)
LEMMA ExecuteKept ==
  ASSUME TypeOK, KeptOK, OneThread, NEW t \in Thread, Execute(t)
  PROVE  KeptOK'
<1>1. /\ sw' = sw /\ hw' = hw /\ mem' = mem /\ pid' = pid /\ single' = single /\ dbg' = dbg
      /\ setup' = setup /\ dbg = Loop /\ th[t].ev = "none"
  BY DEF Execute
<1>2. th \in [Thread -> ThreadState] /\ sw \in Seq(EntryOf(Opcode)) /\ hw \in Seq(EntryOf({"hw"}))
  BY DEF TypeOK, ListsOK, DebuggeeOK
<1>3. ASSUME NEW a, SteppingOff(a), ~HardwareAt(a), mem[a] = "code"
      PROVE  SteppingOff(a)'
  <2>1. th[t].ip = a /\ th[t].tf
    BY <1>1, <1>3 DEF SteppingOff
  <2>2. th'[t].ev = "step"
    BY <1>2, <1>3, <2>1 DEF Execute, Raise
  <2>3. \A u \in Thread : u = t
    BY DEF OneThread
  <2> QED
    BY <1>1, <2>2, <2>3 DEF SteppingOff
<1>4. ASSUME NEW a \in Addr, NEW i \in Waiting(sw), sw[i].at = a PROVE SteppingOff(a)'
  <2>1. i \in DOMAIN sw /\ sw[i].restore /\ sw[i].handle = "BP_KEEP"
    BY DEF Waiting
  <2>2. SteppingOff(a) /\ mem[a] = "code"
    BY <1>4, <2>1 DEF KeptOK, WaitsFor, WrittenIn
  <2>3. ~HardwareAt(a)
    BY <1>4, <2>1 DEF KeptOK, Apart, HardwareAt
  <2> QED
    BY <1>3, <2>2, <2>3
<1>5. ASSUME NEW a \in Addr, NEW i \in Waiting(hw), hw[i].at = a PROVE SteppingOff(a)'
  <2>1. i \in DOMAIN hw /\ hw[i].restore
    BY DEF Waiting
  <2>2. SteppingOff(a) /\ mem[a] = "code"
    BY <1>5, <2>1 DEF KeptOK, WaitsFor, HardwareIn
  <2>3. ~HardwareAt(a)
    BY <1>5, <2>1 DEF KeptOK, DistinctIn, HardwareAt
  <2> QED
    BY <1>3, <2>2, <2>3
<1>6. WaitsFor(sw, "RESTORE_BP_SOFTWARE")' /\ WaitsFor(hw, "RESTORE_BP_HARDWARE")'
  BY <1>1, <1>4, <1>5 DEF KeptOK, WaitsFor, Waiting
<1> QED
  BY <1>1, <1>6 DEF KeptOK, DistinctIn, Apart, WrittenIn, HardwareIn

LEMMA WaitsAt ==
  ASSUME NEW O, NEW L \in Seq(EntryOf(O)), NEW r, WaitsFor(L, r), NEW i \in Waiting(L)
  PROVE  /\ i \in DOMAIN L /\ L[i] \in EntryOf(O) /\ L[i].restore /\ L[i].handle = "BP_KEEP"
         /\ L[i].at \in Addr /\ pid.trap /\ pid.restore = r /\ SteppingOff(L[i].at)
<1>1. i \in DOMAIN L /\ L[i] \in EntryOf(O) /\ L[i].restore /\ L[i].handle = "BP_KEEP"
  BY ListTyped DEF Waiting
<1>2. L[i].at \in Addr
  BY <1>1 DEF EntryOf
<1> QED
  BY <1>1, <1>2 DEF WaitsFor

(* Nothing waits while no step is pending.                                 *)
LEMMA NoneWaits ==
  ASSUME TypeOK, KeptOK, NEW t \in Thread, dbg = Loop,
         \/ th[t].ev \notin {"none", "step"}
         \/ ~pid.trap
         \/ pid.restore = "RESTORE_NON"
  PROVE  Waiting(sw) = {} /\ Waiting(hw) = {}
<1>1. sw \in Seq(EntryOf(Opcode)) /\ hw \in Seq(EntryOf({"hw"}))
  BY DEF TypeOK, ListsOK
<1>2. ASSUME NEW i \in Waiting(sw) PROVE FALSE
  BY <1>1, WaitsAt DEF KeptOK, SteppingOff
<1>3. ASSUME NEW i \in Waiting(hw) PROVE FALSE
  BY <1>1, WaitsAt DEF KeptOK, SteppingOff
<1> QED
  BY <1>2, <1>3

LEMMA NothingWaiting ==
  ASSUME NEW L, NEW r, Waiting(L) = {}
  PROVE  WaitsFor(L, r)
BY DEF WaitsFor

(* A hit marks its entry and writes the instruction back.                  *)
LEMMA MarkKept ==
  ASSUME TypeOK, KeptOK, setup' = setup, hw' = hw, single' = single, ~pid'.trace,
         Waiting(sw) = {}, Waiting(hw) = {},
         NEW n \in DOMAIN sw, NEW a \in Addr, a = sw[n].at,
         sw' = [sw EXCEPT ![n].restore = TRUE], mem' = [mem EXCEPT ![a] = Original(a)],
         sw[n].handle = "BP_KEEP" => pid'.trap /\ pid'.restore = "RESTORE_BP_SOFTWARE"
                                       /\ SteppingOff(a)'
  PROVE  KeptOK'
<1>1. sw \in Seq(EntryOf(Opcode)) /\ mem \in [Addr -> Opcode \cup {"code"}]
  BY DEF TypeOK, ListsOK, DebuggeeOK
<1>2. /\ DOMAIN sw' = DOMAIN sw
      /\ \A i \in DOMAIN sw : /\ sw'[i].at = sw[i].at /\ sw'[i].op = sw[i].op
                              /\ sw'[i].handle = sw[i].handle
                              /\ sw'[i].restore = IF i = n THEN TRUE ELSE sw[i].restore
      /\ DistinctIn(sw) => DistinctIn(sw')
      /\ Waiting(sw') \ {n} = Waiting(sw) \ {n}
      /\ n \in Waiting(sw') <=> sw[n].handle = "BP_KEEP"
  <2>1. Marked(sw, [sw EXCEPT ![n].restore = TRUE], n, TRUE)
    BY <1>1, MarkFacts
  <2>2. Marked(sw, sw', n, TRUE)
    BY <2>1
  <2> QED
    BY <2>2 DEF Marked
<1>4. \A i \in DOMAIN sw : i # n => sw[i].at # a
  BY DEF KeptOK, DistinctIn
<1>5. DistinctIn(sw') /\ Apart(sw', hw)
  BY <1>2 DEF KeptOK, Apart
<1>6. WrittenIn(sw, mem)'
  <2> SUFFICES ASSUME NEW i \in DOMAIN sw, sw[i].handle = "BP_KEEP"
               PROVE  /\ sw[i].at \notin setup.own
                      /\ mem'[sw[i].at] = IF sw'[i].restore THEN "code" ELSE sw[i].op
    BY <1>2 DEF WrittenIn
  <2>1. CASE i = n
    <3>1. a \notin setup.own /\ sw'[i].restore
      BY <1>2, <2>1 DEF KeptOK, WrittenIn
    <3>2. mem'[a] = "code"
      BY <1>1, <3>1 DEF Original
    <3> QED
      BY <2>1, <3>1, <3>2
  <2>2. CASE i # n
    <3>1. sw[i].at # a /\ sw'[i].restore = sw[i].restore
      BY <1>2, <1>4, <2>2
    <3>2. mem'[sw[i].at] = mem[sw[i].at]
      BY <1>1, <3>1
    <3> QED
      BY <3>1, <3>2 DEF KeptOK, WrittenIn
  <2> QED
    BY <2>1, <2>2
<1>7. HardwareIn(hw, mem)'
  <2>1. \A i \in DOMAIN hw : hw[i].at # a
    BY DEF KeptOK, Apart
  <2> QED
    BY <1>1, <2>1 DEF KeptOK, HardwareIn
<1>8. WaitsFor(sw, "RESTORE_BP_SOFTWARE")'
  <2>1. ASSUME NEW i \in Waiting(sw') PROVE i = n
    <3>1. Waiting(sw') \ {n} = {}
      BY <1>2, Zenon
    <3> QED
      BY <3>1
  <2>2. sw'[n].at = a
    BY <1>2
  <2>3. ASSUME NEW i \in Waiting(sw')
        PROVE  i = n /\ sw[n].handle = "BP_KEEP" /\ sw'[i].at = a
    BY <1>2, <2>1, <2>2
  <2> QED
    BY <2>3 DEF WaitsFor, Waiting
<1>9. WaitsFor(hw, "RESTORE_BP_HARDWARE")'
  BY NothingWaiting DEF WaitsFor, Waiting
<1> QED
  BY <1>5, <1>6, <1>7, <1>8, <1>9 DEF KeptOK, DistinctIn, Apart

(* A hit of a breakpoint that is not kept takes its entry out.             *)
LEMMA EraseKept ==
  ASSUME TypeOK, KeptOK, setup' = setup, hw' = hw, ~single', ~pid'.trace,
         Waiting(sw) = {}, Waiting(hw) = {},
         NEW n \in 1 .. Len(sw), NEW a \in Addr, a = sw[n].at, sw[n].handle # "BP_KEEP",
         sw' = RemoveAt(sw, n), mem' = [mem EXCEPT ![a] = Original(a)]
  PROVE  KeptOK'
<1>1. sw \in Seq(EntryOf(Opcode)) /\ mem \in [Addr -> Opcode \cup {"code"}] /\ n \in DOMAIN sw
  BY DEF TypeOK, ListsOK, DebuggeeOK
<1>2. /\ \A i \in DOMAIN sw' : \E j \in DOMAIN sw \ {n} : sw'[i] = sw[j]
      /\ DistinctIn(sw) => DistinctIn(sw')
      /\ \A i \in Waiting(sw') : \E j \in Waiting(sw) : sw'[i] = sw[j]
  BY <1>1, EraseFacts
<1>3. \A j \in DOMAIN sw \ {n} : sw[j].at # a
  BY <1>1 DEF KeptOK, DistinctIn
<1>4. \A b \in Addr : b # a => mem'[b] = mem[b]
  BY <1>1
<1>5. \A j \in DOMAIN sw : sw[j].at \in Addr
  BY <1>1, ListTyped DEF EntryOf
<1>6. WrittenIn(sw, mem)'
  <2> SUFFICES ASSUME NEW i \in DOMAIN sw', sw'[i].handle = "BP_KEEP"
               PROVE  /\ sw'[i].at \notin setup.own
                      /\ mem'[sw'[i].at] = IF sw'[i].restore THEN "code" ELSE sw'[i].op
    BY DEF WrittenIn
  <2>1. PICK j \in DOMAIN sw \ {n} : sw'[i] = sw[j]
    BY <1>2
  <2>2. mem'[sw[j].at] = mem[sw[j].at]
    BY <1>3, <1>4, <1>5
  <2>3. /\ sw[j].at \notin setup.own
        /\ mem[sw[j].at] = IF sw[j].restore THEN "code" ELSE sw[j].op
    BY <2>1 DEF KeptOK, WrittenIn
  <2> QED
    BY <2>1, <2>2, <2>3
<1>7. HardwareIn(hw, mem)'
  <2>1. \A i \in DOMAIN hw : hw[i].at # a
    BY <1>1 DEF KeptOK, Apart
  <2> QED
    BY <1>1, <2>1 DEF KeptOK, HardwareIn
<1>8. Apart(sw', hw)
  BY <1>2 DEF KeptOK, Apart
<1>9. Waiting(sw') = {} /\ Waiting(hw') = {}
  BY <1>2
<1> QED
  BY <1>2, <1>6, <1>7, <1>8, <1>9 DEF KeptOK, DistinctIn, Apart, WaitsFor

(* A break that leaves the lists and the memory as they are.               *)
LEMMA SameKept ==
  ASSUME KeptOK, UNCHANGED <<setup, mem, sw, hw>>, ~single', ~pid'.trace,
         Waiting(sw) = {}, Waiting(hw) = {}
  PROVE  KeptOK'
<1>1. Waiting(sw') = {} /\ Waiting(hw') = {}
  OBVIOUS
<1> QED
  BY <1>1 DEF KeptOK, DistinctIn, Apart, WrittenIn, HardwareIn, WaitsFor

(* The break at a hit of a: ProcessContext is at a, and the step is set.   *)
LEMMA BreakStepsOff ==
  ASSUME OneThread, TypeOK, NEW t \in Thread, NEW a \in Addr, NEW tf \in BOOLEAN, NEW trap \in BOOLEAN,
         CallBreakDebugger(t, a, tf, "breakpoint", trap), tf \/ trap,
         seen' = [seen EXCEPT ![t] = "hit"]
  PROVE  SteppingOff(a)' /\ dbg' # Loop
<1>1. dbg' # Loop /\ dbg'.trap = trap /\ ctx'.ip = a /\ ctx'.tf = tf
  BY DEF CallBreakDebugger, Break, Loop
<1>2. \A u \in Thread : u = t
  BY DEF OneThread
<1>3. seen'[t] = "hit"
  BY DEF TypeOK, DebuggeeOK
<1> QED
  BY <1>1, <1>2, <1>3 DEF SteppingOff

LEMMA BreakpointHitKept ==
  ASSUME TypeOK, KeptOK, OneThread, NEW t \in Thread, BreakpointHit(t)
  PROVE  KeptOK'
<1> DEFINE ip == th[t].ip - 1
<1>1. /\ dbg = Loop /\ th[t].ev = "int3" /\ setup' = setup /\ hw' = hw
      /\ seen' = [seen EXCEPT ![t] = "hit"]
  BY DEF BreakpointHit, Handling
<1>2. Waiting(sw) = {} /\ Waiting(hw) = {}
  BY <1>1, NoneWaits
<1>3. ~single /\ ~pid.trace /\ pid \in Flags
  BY DEF KeptOK, TypeOK, DebuggerOK
<1>4. ~Cleared.trace /\ ~Pending.trace /\ Pending.trap /\ Pending.restore = "RESTORE_BP_SOFTWARE"
  BY <1>3 DEF Cleared, Pending, Flags
<1>5. HitIp("int3", th[t].ip) = ip
  BY DEF HitIp
<1>6. CASE At(sw, ip) = {}
  <2>1. pid' = Cleared /\ UNCHANGED <<mem, sw, single>>
    BY <1>6 DEF BreakpointHit
  <2> QED
    BY <1>1, <1>2, <1>3, <1>4, <2>1, SameKept
<1>7. CASE At(sw, ip) # {}
  <2>0. Min(At(sw, ip)) \in 1 .. Len(sw) /\ sw[Min(At(sw, ip))].at = ip /\ ip \in Addr
    <3> HIDE DEF ip
    <3> QED
      BY <1>7, HitTyped DEF TypeOK
  <2> PICK a \in Addr : a = ip
    BY <2>0
  <2> PICK n \in 1 .. Len(sw) : n = Min(At(sw, a))
    BY <2>0
  <2>1. n \in DOMAIN sw /\ sw[n].at = a
    BY <2>0, HitTyped, <1>7 DEF TypeOK
  <2>2. /\ mem' = [mem EXCEPT ![a] = Original(a)]
        /\ \/ sw[n].handle = "BP_KEEP" /\ KeepHit(n)
           \/ sw[n].handle = "BP_STEPOVER" /\ StepOverHit(n)
           \/ sw[n].handle = "BP_TRACETO" /\ TraceToHit(n)
        /\ CallBreakDebugger(t, a, sw[n].handle # "BP_TRACETO", "breakpoint", FALSE)
    BY <1>5, <1>7 DEF BreakpointHit
  <2>3. CASE sw[n].handle = "BP_KEEP" /\ KeepHit(n)
    <3>1. SteppingOff(a)'
      BY <1>1, <2>1, <2>2, <2>3, BreakStepsOff
    <3>2. /\ sw' = [sw EXCEPT ![n].restore = TRUE] /\ pid' = Pending /\ single' = single
      BY <2>3 DEF KeepHit
    <3>3. ~pid'.trace /\ pid'.trap /\ pid'.restore = "RESTORE_BP_SOFTWARE"
      BY <1>4, <3>2
    <3> QED
      BY <1>1, <1>2, <2>1, <2>2, <3>1, <3>2, <3>3, MarkKept
  <2>4. CASE sw[n].handle = "BP_STEPOVER" /\ StepOverHit(n)
    <3>1. sw' = RemoveAt(sw, n) /\ ~pid'.trace /\ ~single' /\ sw[n].handle # "BP_KEEP"
      BY <1>3, <1>4, <2>4 DEF StepOverHit
    <3> QED
      BY <1>1, <1>2, <2>1, <2>2, <3>1, EraseKept
  <2>5. CASE sw[n].handle = "BP_TRACETO" /\ TraceToHit(n)
    <3>1. sw' = RemoveAt(sw, n) /\ ~pid'.trace /\ ~single' /\ sw[n].handle # "BP_KEEP"
      BY <1>3, <1>4, <2>5 DEF TraceToHit
    <3> QED
      BY <1>1, <1>2, <2>1, <2>2, <3>1, EraseKept
  <2> QED
    BY <2>2, <2>3, <2>4, <2>5
<1> QED
  BY <1>6, <1>7

LEMMA OpcodeHitKept ==
  ASSUME TypeOK, KeptOK, OneThread, NEW t \in Thread, OpcodeHit(t)
  PROVE  KeptOK'
<1> DEFINE ip == th[t].ip
<1>1. /\ dbg = Loop /\ th[t].ev = "ud2" /\ setup' = setup /\ hw' = hw /\ single' = single
      /\ seen' = [seen EXCEPT ![t] = "hit"] /\ pid' = Pending
  BY DEF OpcodeHit, Handling
<1>2. Waiting(sw) = {} /\ Waiting(hw) = {}
  BY <1>1, NoneWaits
<1>3. ~single /\ ~pid.trace /\ pid \in Flags
  BY DEF KeptOK, TypeOK, DebuggerOK
<1>4. ~pid'.trace /\ pid'.trap /\ pid'.restore = "RESTORE_BP_SOFTWARE"
  BY <1>1, <1>3 DEF Pending, Flags
<1>5. CallBreakDebugger(t, ip, TRUE, "breakpoint", FALSE)
  BY DEF OpcodeHit, HitIp
<1>6. CASE At(sw, ip) = {}
  <2>1. UNCHANGED <<mem, sw>>
    BY <1>6 DEF OpcodeHit
  <2> QED
    BY <1>1, <1>2, <1>3, <1>4, <2>1, SameKept
<1>7. CASE At(sw, ip) # {}
  <2>0. Min(At(sw, ip)) \in DOMAIN sw /\ sw[Min(At(sw, ip))].at = ip /\ ip \in Addr
    <3> HIDE DEF ip
    <3> QED
      BY <1>7, HitTyped DEF TypeOK
  <2> PICK a \in Addr : a = ip
    BY <2>0
  <2> PICK n \in DOMAIN sw : n = Min(At(sw, a))
    BY <2>0
  <2>1. sw[n].at = a
    BY <2>0
  <2>2. mem' = [mem EXCEPT ![a] = Original(a)] /\ sw' = [sw EXCEPT ![n].restore = TRUE]
    BY <1>7 DEF OpcodeHit
  <2>3. SteppingOff(a)'
    BY <1>1, <1>5, <2>1, BreakStepsOff
  <2> QED
    BY <1>1, <1>2, <1>4, <2>1, <2>2, <2>3, MarkKept
<1> QED
  BY <1>6, <1>7

(* The step after a hit writes the one breakpoint that waits.              *)
LEMMA RestoreStepKept ==
  ASSUME TypeOK, KeptOK, NEW t \in Thread, RestoreStep(t)
  PROVE  KeptOK'
<1>1. /\ setup' = setup /\ single' = single /\ pid.restore # "RESTORE_NON"
      /\ pid' = [pid EXCEPT !.trap = FALSE, !.restore = "RESTORE_NON"]
  BY DEF RestoreStep, Handling
<1>2. ~single' /\ ~pid'.trace /\ pid.restore \in {"RESTORE_BP_SOFTWARE", "RESTORE_BP_HARDWARE"}
  BY <1>1 DEF KeptOK, TypeOK, DebuggerOK, Flags
<1>3. sw \in Seq(EntryOf(Opcode)) /\ hw \in Seq(EntryOf({"hw"})) /\ mem \in [Addr -> Opcode \cup {"code"}]
  BY DEF TypeOK, ListsOK, DebuggeeOK
<1>4. WaitsFor(sw, "RESTORE_BP_SOFTWARE") /\ WaitsFor(hw, "RESTORE_BP_HARDWARE")
  BY DEF KeptOK
<1>5. pid.restore # "RESTORE_BP_SOFTWARE" => Waiting(sw) = {}
  <2>1. ASSUME NEW i \in Waiting(sw) PROVE pid.restore = "RESTORE_BP_SOFTWARE"
    BY <1>3, <1>4, WaitsAt
  <2> QED
    BY <2>1
<1>6. pid.restore # "RESTORE_BP_HARDWARE" => Waiting(hw) = {}
  <2>1. ASSUME NEW i \in Waiting(hw) PROVE pid.restore = "RESTORE_BP_HARDWARE"
    BY <1>3, <1>4, WaitsAt
  <2> QED
    BY <2>1
<1>7. CASE pid.restore = "RESTORE_BP_SOFTWARE"
  <2>1. Waiting(hw) = {} /\ hw' = hw
    BY <1>6, <1>7 DEF RestoreStep
  <2>2. CASE Waiting(sw) = {}
    <3>1. sw' = sw /\ mem' = mem
      BY <1>7, <2>2 DEF RestoreStep, Rearm
    <3> QED
      BY <1>1, <1>2, <2>1, <2>2, <3>1, SameKept
  <2>3. CASE Waiting(sw) # {}
    <3>0. Min(Waiting(sw)) \in Waiting(sw)
      BY <1>3, <2>3, RearmTyped
    <3>1. PICK n \in Waiting(sw) : n = Min(Waiting(sw))
      BY <3>0
    <3>2. /\ n \in DOMAIN sw /\ sw[n] \in EntryOf(Opcode) /\ sw[n].restore
          /\ sw[n].handle = "BP_KEEP" /\ sw[n].at \in Addr
      BY <1>3, <1>4, WaitsAt
    <3>3. /\ sw' = [sw EXCEPT ![n].restore = FALSE]
          /\ mem' = [mem EXCEPT ![sw[n].at] = sw[n].op]
      BY <1>7, <2>3, <3>1 DEF RestoreStep, Rearm
    <3>4. Marked(sw, [sw EXCEPT ![n].restore = FALSE], n, FALSE)
      BY <1>3, <3>2, MarkFacts
    <3>5. Marked(sw, sw', n, FALSE)
      BY <3>3, <3>4
    <3>6. /\ DOMAIN sw' = DOMAIN sw
          /\ \A i \in DOMAIN sw : /\ sw'[i].at = sw[i].at /\ sw'[i].op = sw[i].op
                                  /\ sw'[i].handle = sw[i].handle
                                  /\ sw'[i].restore = IF i = n THEN FALSE ELSE sw[i].restore
          /\ DistinctIn(sw) => DistinctIn(sw')
          /\ Waiting(sw') \ {n} = Waiting(sw) \ {n}
          /\ n \notin Waiting(sw')
      BY <3>5 DEF Marked
    <3>7. Waiting(sw') = {}
      <4>1. Waiting(sw) \ {n} = {}
        BY <1>4 DEF WaitsFor
      <4> QED
        BY <3>6, <4>1
    <3>8. /\ \A i \in DOMAIN sw : i # n => sw[i].at # sw[n].at
          /\ \A i \in DOMAIN hw : hw[i].at # sw[n].at
      BY <3>2 DEF KeptOK, DistinctIn, Apart
    <3>9. /\ \A b \in Addr : mem'[b] = IF b = sw[n].at THEN sw[n].op ELSE mem[b]
          /\ \A i \in DOMAIN sw : sw[i].at \in Addr
          /\ \A i \in DOMAIN hw : hw[i].at \in Addr
      BY <1>3, <3>3, ListTyped DEF EntryOf
    <3>10. WrittenIn(sw, mem)'
      <4> SUFFICES ASSUME NEW i \in DOMAIN sw, sw[i].handle = "BP_KEEP"
                   PROVE  /\ sw[i].at \notin setup.own
                          /\ mem'[sw[i].at] = IF sw'[i].restore THEN "code" ELSE sw[i].op
        BY <1>1, <3>6 DEF WrittenIn
      <4>1. /\ sw[i].at \notin setup.own
            /\ mem[sw[i].at] = IF sw[i].restore THEN "code" ELSE sw[i].op
        BY DEF KeptOK, WrittenIn
      <4> QED
        BY <3>6, <3>8, <3>9, <4>1
    <3>11. HardwareIn(hw, mem)'
      BY <2>1, <3>8, <3>9 DEF KeptOK, HardwareIn
    <3>12. WaitsFor(sw, "RESTORE_BP_SOFTWARE")' /\ WaitsFor(hw, "RESTORE_BP_HARDWARE")'
      BY <2>1, <3>7 DEF WaitsFor
    <3>13. DistinctIn(sw') /\ DistinctIn(hw') /\ Apart(sw', hw')
      <4>1. DistinctIn(sw') /\ DistinctIn(hw')
        BY <2>1, <3>6 DEF KeptOK
      <4>0. DOMAIN sw' = DOMAIN sw /\ \A i \in DOMAIN sw : sw'[i].at = sw[i].at
        BY <3>5 DEF Marked
      <4>2. \A i \in DOMAIN sw' : i \in DOMAIN sw /\ sw'[i].at = sw[i].at
        BY <4>0
      <4>3. Apart(sw', hw)
        BY <4>2 DEF KeptOK, Apart
      <4> QED
        BY <2>1, <4>1, <4>3
    <3> QED
      BY <1>2, <3>10, <3>11, <3>12, <3>13 DEF KeptOK
  <2> QED
    BY <2>2, <2>3
<1>8. CASE pid.restore = "RESTORE_BP_HARDWARE"
  <2>1. Waiting(sw) = {} /\ sw' = sw /\ mem' = mem
    BY <1>5, <1>8 DEF RestoreStep
  <2>2. CASE Waiting(hw) = {}
    <3>1. hw' = hw
      BY <1>8, <2>2 DEF RestoreStep, Rearm
    <3> QED
      BY <1>1, <1>2, <2>1, <2>2, <3>1, SameKept
  <2>3. CASE Waiting(hw) # {}
    <3>0. Min(Waiting(hw)) \in Waiting(hw)
      BY <1>3, <2>3, RearmTyped
    <3>1. PICK n \in Waiting(hw) : n = Min(Waiting(hw))
      BY <3>0
    <3>2. n \in DOMAIN hw
      BY <1>3, <1>4, WaitsAt
    <3>3. hw' = [hw EXCEPT ![n].restore = FALSE]
      BY <1>8, <2>3, <3>1 DEF RestoreStep, Rearm
    <3>4. Marked(hw, [hw EXCEPT ![n].restore = FALSE], n, FALSE)
      BY <1>3, <3>2, MarkFacts
    <3>5. Marked(hw, hw', n, FALSE)
      BY <3>3, <3>4
    <3>6. /\ DOMAIN hw' = DOMAIN hw
          /\ \A i \in DOMAIN hw : hw'[i].at = hw[i].at /\ hw'[i].handle = hw[i].handle
          /\ DistinctIn(hw) => DistinctIn(hw')
          /\ Waiting(hw') \ {n} = Waiting(hw) \ {n}
          /\ n \notin Waiting(hw')
      BY <3>5 DEF Marked
    <3>7. Waiting(hw') = {}
      <4>1. Waiting(hw) \ {n} = {}
        BY <1>4 DEF WaitsFor
      <4> QED
        BY <3>6, <4>1
    <3>8. WaitsFor(sw, "RESTORE_BP_SOFTWARE")' /\ WaitsFor(hw, "RESTORE_BP_HARDWARE")'
      BY <2>1, <3>7 DEF WaitsFor
    <3>9. DistinctIn(sw)' /\ DistinctIn(hw)' /\ Apart(sw, hw)'
      BY <2>1, <3>6 DEF KeptOK, DistinctIn, Apart
    <3>10. WrittenIn(sw, mem)' /\ HardwareIn(hw, mem)'
      BY <1>1, <2>1, <3>6 DEF KeptOK, WrittenIn, HardwareIn
    <3> QED
      BY <1>2, <3>8, <3>9, <3>10 DEF KeptOK
  <2> QED
    BY <2>2, <2>3
<1> QED
  BY <1>2, <1>7, <1>8

LEMMA HardwareHitKept ==
  ASSUME TypeOK, KeptOK, OneThread, NEW t \in Thread, HardwareHit(t)
  PROVE  KeptOK'
<1>1. /\ setup' = setup /\ single' = single /\ sw' = sw /\ mem' = mem /\ dbg = Loop
      /\ seen' = [seen EXCEPT ![t] = "hit"] /\ pid.restore = "RESTORE_NON"
      /\ pid' = [pid EXCEPT !.trap = TRUE, !.restore = "RESTORE_BP_HARDWARE"]
      /\ CallBreakDebugger(t, th[t].ip, th[t].tf, "breakpoint", TRUE)
      /\ At(hw, th[t].ip) # {}
      /\ hw' = [hw EXCEPT ![Min(At(hw, th[t].ip))].restore = TRUE]
  BY DEF HardwareHit, Handling
<1>2. /\ ~single' /\ ~pid'.trace /\ pid'.trap /\ pid'.restore = "RESTORE_BP_HARDWARE"
      /\ th[t].tf \in BOOLEAN
  BY <1>1 DEF KeptOK, TypeOK, DebuggerOK, DebuggeeOK, ThreadState, Flags
<1>3. hw \in Seq(EntryOf({"hw"}))
  BY DEF TypeOK, ListsOK
<1>4. Waiting(sw) = {} /\ Waiting(hw) = {}
  BY <1>1, NoneWaits
<1>5. /\ Min(At(hw, th[t].ip)) \in DOMAIN hw
      /\ hw[Min(At(hw, th[t].ip))].at = th[t].ip /\ th[t].ip \in Addr
  <2>1. At(hw, th[t].ip) = {i \in DOMAIN hw : hw[i].at = th[t].ip}
    BY <1>3, ListTyped
  <2>2. /\ Min(At(hw, th[t].ip)) \in At(hw, th[t].ip)
        /\ hw[Min(At(hw, th[t].ip))] \in EntryOf({"hw"})
    BY <1>1, <1>3, <2>1, FirstOf
  <2> QED
    BY <2>1, <2>2 DEF EntryOf
<1> PICK a \in Addr : a = th[t].ip
  BY <1>5
<1> PICK n \in DOMAIN hw : n = Min(At(hw, a))
  BY <1>5
<1>6. hw[n].at = a /\ hw' = [hw EXCEPT ![n].restore = TRUE]
  BY <1>1, <1>5
<1>7. SteppingOff(a)'
  BY <1>1, <1>2, BreakStepsOff
<1>8. Marked(hw, hw', n, TRUE)
  <2>1. Marked(hw, [hw EXCEPT ![n].restore = TRUE], n, TRUE)
    BY <1>3, MarkFacts
  <2> QED
    BY <1>6, <2>1
<1>9. /\ DOMAIN hw' = DOMAIN hw
      /\ \A i \in DOMAIN hw : hw'[i].at = hw[i].at /\ hw'[i].handle = hw[i].handle
      /\ DistinctIn(hw) => DistinctIn(hw')
      /\ Waiting(hw') \ {n} = Waiting(hw) \ {n}
  BY <1>8 DEF Marked
<1>10. ASSUME NEW i \in Waiting(hw') PROVE i = n /\ hw'[i].at = a
  <2>1. Waiting(hw') \ {n} = {}
    BY <1>4, <1>9, Zenon
  <2> QED
    BY <1>6, <1>9, <2>1
<1>11. WaitsFor(sw, "RESTORE_BP_SOFTWARE")' /\ WaitsFor(hw, "RESTORE_BP_HARDWARE")'
  <2>1. WaitsFor(hw, "RESTORE_BP_HARDWARE")'
    BY <1>2, <1>7, <1>10 DEF WaitsFor, Waiting
  <2>2. Waiting(sw') = {}
    BY <1>1, <1>4
  <2> QED
    BY <2>1, <2>2 DEF WaitsFor
<1>12. DistinctIn(sw)' /\ DistinctIn(hw)' /\ Apart(sw, hw)'
  BY <1>1, <1>9 DEF KeptOK, DistinctIn, Apart
<1>13. WrittenIn(sw, mem)' /\ HardwareIn(hw, mem)'
  BY <1>1, <1>9 DEF KeptOK, WrittenIn, HardwareIn
<1> QED
  BY <1>2, <1>11, <1>12, <1>13 DEF KeptOK

LEMMA HandleKept ==
  ASSUME TypeOK, KeptOK, OneThread, NEW t \in Thread, Handle(t)
  PROVE  KeptOK'
<1>1. CASE ForeignException(t)
  <2>1. /\ dbg = Loop /\ th[t].ev # "none" /\ (th[t].ev = "step" => ~pid.trap)
        /\ UNCHANGED <<setup, mem, sw, hw, pid, single>>
    BY <1>1 DEF ForeignException, Handling, IsBP
  <2>2. Waiting(sw) = {} /\ Waiting(hw) = {}
    BY <2>1, NoneWaits
  <2>3. ~single' /\ ~pid'.trace
    BY <2>1 DEF KeptOK
  <2> QED
    BY <2>1, <2>2, <2>3, SameKept
<1>2. ~TraceStep(t) /\ ~UserStep(t)
  BY DEF KeptOK, TraceStep, UserStep
<1> QED
  BY <1>1, <1>2, BreakpointHitKept, OpcodeHitKept, RestoreStepKept, HardwareHitKept DEF Handle

(* The GUI thread ends a trace; the break goes on.                         *)
LEMMA ShownKept ==
  ASSUME KeptOK, TypeOK, OnDebuggerBreak
  PROVE  KeptOK'
<1>1. /\ dbg # Loop /\ dbg' # Loop /\ dbg'.trap = dbg.trap /\ ~pid'.trace
      /\ pid'.trap = pid.trap /\ pid'.restore = pid.restore
      /\ UNCHANGED <<setup, th, mem, sw, hw, single, ctx, cmd, seen>>
  <2>0. dbg # Loop
    <3>1. Loop.at # "break"
      BY DEF Loop
    <3> QED
      BY <3>1 DEF OnDebuggerBreak
  <2>1. dbg # Loop /\ dbg \in Waits /\ pid \in Flags
    BY <2>0 DEF TypeOK, DebuggerOK
  <2>2. dbg' # Loop /\ dbg'.trap = dbg.trap
    BY <2>1 DEF OnDebuggerBreak, Waits, Loop
  <2>3. ~pid'.trace /\ pid'.trap = pid.trap /\ pid'.restore = pid.restore
    BY <2>1 DEF OnDebuggerBreak, Flags
  <2> QED
    BY <2>1, <2>2, <2>3 DEF OnDebuggerBreak
<1>2. \A a \in Addr : SteppingOff(a) => SteppingOff(a)'
  BY <1>1 DEF SteppingOff
<1>3. WaitsFor(sw, "RESTORE_BP_SOFTWARE")' /\ WaitsFor(hw, "RESTORE_BP_HARDWARE")'
  BY <1>1, <1>2 DEF KeptOK, WaitsFor, Waiting
<1> QED
  BY <1>1, <1>3 DEF KeptOK, DistinctIn, Apart, WrittenIn, HardwareIn

(* The debuggee goes on with the step off the breakpoint before it.        *)
LEMMA ResumeKept ==
  ASSUME OneThread, TypeOK, dbg # Loop, NEW kind \in Command, NEW to \in Addr \cup {ctx.ip},
         Resume(kind, to, ctx.tf), seen' = seen
  PROVE  \A a \in Addr : SteppingOff(a) => SteppingOff(a)'
<1>1. ctx.tf \in BOOLEAN
  BY DEF TypeOK, DebuggerOK
<1>2. /\ dbg.t \in Thread /\ dbg' = Loop
      /\ th'[dbg.t] = [ip |-> ctx.ip, tf |-> ctx.tf \/ dbg.trap, ev |-> "none"]
  BY <1>1, ResumeTyped
<1>3. \A t \in Thread : t = dbg.t
  BY <1>2 DEF OneThread
<1>4. \A t \in Thread : /\ th'[t].ip = ctx.ip /\ th'[t].ev = "none"
                        /\ (ctx.tf \/ dbg.trap) => th'[t].tf
  <2> DEFINE b == ctx.tf \/ dbg.trap
  <2>1. th'[dbg.t] = [ip |-> ctx.ip, tf |-> b, ev |-> "none"]
    BY <1>2
  <2> HIDE DEF b
  <2>2. \A t \in Thread : th'[t].ip = ctx.ip /\ th'[t].ev = "none" /\ th'[t].tf = b
    BY <1>3, <2>1
  <2> QED
    BY <2>2 DEF b
<1> QED
  BY <1>2, <1>4 DEF SteppingOff

LEMMA InsertKept ==
  ASSUME TypeOK, KeptOK, NEW d \in Addr, ~Listed(d), NEW h \in Handle3, h # "BP_KEEP",
         NEW p \in {"any", "this"}, Insert(d, h, p), UNCHANGED <<setup, hw, pid, single>>,
         \A a \in Addr : SteppingOff(a) => SteppingOff(a)'
  PROVE  KeptOK'
<1> DEFINE e == Entry(d, "int3", h, p)
<1>1. /\ sw \in Seq(EntryOf(Opcode)) /\ hw \in Seq(EntryOf({"hw"}))
      /\ mem \in [Addr -> Opcode \cup {"code"}]
  BY DEF TypeOK, ListsOK, DebuggeeOK
<1>2. e \in EntryOf(Opcode) /\ e.at = d /\ e.handle = h
  <2>1. e \in EntryOf(Opcode)
    BY EntryTyped DEF Opcode
  <2> QED
    BY <2>1 DEF Entry
<1>3. (\A i \in DOMAIN sw : sw[i].at # d) /\ (\A i \in DOMAIN hw : hw[i].at # d)
  BY DEF Listed
<1>4. sw' = Append(sw, e) /\ mem' = [mem EXCEPT ![d] = "int3"]
  BY DEF Insert
<1> HIDE DEF e
<1>5. /\ \A i \in DOMAIN sw' : sw'[i] = e \/ (i \in DOMAIN sw /\ sw'[i] = sw[i])
      /\ DistinctIn(sw) => DistinctIn(sw')
      /\ Waiting(sw') = Waiting(sw)
      /\ \A i \in Waiting(sw) : sw'[i] = sw[i]
  <2>1. \A i \in DOMAIN sw : sw[i].at # e.at
    BY <1>2, <1>3
  <2>2. Appended(sw, Append(sw, e), e)
    BY <1>1, <1>2, <2>1, AppendFacts
  <2>3. Appended(sw, sw', e)
    BY <1>4, <2>2
  <2> QED
    BY <2>3 DEF Appended
<1>6. \A a \in Addr : a # d => mem'[a] = mem[a]
  BY <1>1, <1>4
<1>7. (\A i \in DOMAIN sw : sw[i].at \in Addr) /\ (\A i \in DOMAIN hw : hw[i].at \in Addr)
  BY <1>1, ListTyped DEF EntryOf
<1>8. WrittenIn(sw, mem)'
  <2> SUFFICES ASSUME NEW i \in DOMAIN sw', sw'[i].handle = "BP_KEEP"
               PROVE  /\ sw'[i].at \notin setup.own
                      /\ mem'[sw'[i].at] = IF sw'[i].restore THEN "code" ELSE sw'[i].op
    BY DEF WrittenIn
  <2>1. i \in DOMAIN sw /\ sw'[i] = sw[i]
    BY <1>2, <1>5
  <2>2. mem'[sw[i].at] = mem[sw[i].at]
    BY <1>3, <1>6, <1>7, <2>1
  <2>3. /\ sw[i].at \notin setup.own
        /\ mem[sw[i].at] = IF sw[i].restore THEN "code" ELSE sw[i].op
    BY <2>1 DEF KeptOK, WrittenIn
  <2> QED
    BY <2>1, <2>2, <2>3
<1>9. HardwareIn(hw, mem)'
  BY <1>3, <1>6, <1>7 DEF KeptOK, HardwareIn
<1>10. DistinctIn(sw') /\ DistinctIn(hw') /\ Apart(sw', hw')
  <2>1. Apart(sw', hw)
    BY <1>2, <1>3, <1>5 DEF KeptOK, Apart
  <2> QED
    BY <1>5, <2>1 DEF KeptOK
<1>11. WaitsFor(sw, "RESTORE_BP_SOFTWARE")' /\ WaitsFor(hw, "RESTORE_BP_HARDWARE")'
  <2>1. WaitsFor(sw, "RESTORE_BP_SOFTWARE")'
    BY <1>5 DEF KeptOK, WaitsFor
  <2>2. WaitsFor(hw, "RESTORE_BP_HARDWARE")'
    BY DEF KeptOK, WaitsFor
  <2> QED
    BY <2>1, <2>2
<1> QED
  BY <1>8, <1>9, <1>10, <1>11 DEF KeptOK

LEMMA UserKept ==
  ASSUME TypeOK, KeptOK, OneThread, Unstepped(setup), User
  PROVE  KeptOK'
<1>0. setup.asks \cap {"in", "trace", "traceTo"} = {} /\ ("over" \in setup.asks => setup.ret = {})
  BY DEF Unstepped
<1>1. CASE Run
  <2>1. /\ dbg # Loop /\ Resume("run", ctx.ip, ctx.tf)
        /\ UNCHANGED <<setup, mem, sw, hw, pid, single, seen>>
    BY <1>1, AskedBreak DEF Run
  <2>2. \A a \in Addr : SteppingOff(a) => SteppingOff(a)'
    BY <2>1, ResumeKept DEF Command
  <2> QED
    BY <2>1, <2>2 DEF KeptOK, DistinctIn, Apart, WrittenIn, HardwareIn, WaitsFor, Waiting
<1>2. ASSUME NEW kind \in {"over", "out", "until"}, NEW d \in Addr, NEW p \in {"any", "this"},
             dbg # Loop, ~Listed(d), Insert(d, "BP_STEPOVER", p), Resume(kind, d, ctx.tf),
             UNCHANGED <<setup, hw, pid, single, seen>>
      PROVE  KeptOK'
  <2>1. \A a \in Addr : SteppingOff(a) => SteppingOff(a)'
    BY <1>2, ResumeKept DEF Command
  <2> QED
    BY <1>2, <2>1, InsertKept DEF Handle3
<1>3. CASE action_DebugStepOver
  <2>1. ctx.ip \in Addr /\ "over" \in setup.asks /\ dbg # Loop
    BY <1>3, AskedBreak DEF action_DebugStepOver
  <2>2. StepOver("over", Over[ctx.ip]) /\ Over[ctx.ip] \in Addr
    BY <1>0, <1>3, <2>1, AddrTyped DEF action_DebugStepOver
  <2> QED
    BY <1>2, <2>1, <2>2 DEF StepOver
<1>4. CASE action_DebugStepOut
  <2>1. /\ dbg # Loop /\ StepOver("out", Return[ctx.ip]) /\ Return[ctx.ip] \in Addr
    BY <1>4, AskedBreak, AddrTyped DEF action_DebugStepOut
  <2> QED
    BY <1>2, <2>1 DEF StepOver
<1>5. ASSUME NEW d \in Addr, ExecuteTo(d) PROVE KeptOK'
  BY <1>2, <1>5, AskedBreak DEF ExecuteTo
<1>6. ~action_DebugStepIn /\ ~action_DebugTraceStart /\ ~action_DebugTraceStop
        /\ \A d \in Addr : ~TraceTo(d)
  BY <1>0, AskedBreak DEF action_DebugStepIn, action_DebugTraceStart, action_DebugTraceStop,
                          TraceTo, KeptOK
<1> QED
  BY <1>1, <1>3, <1>4, <1>5, <1>6 DEF User

LEMMA NextKept == TypeOK /\ KeptOK /\ OneThread /\ Unstepped(setup) /\ [Next]_vars => KeptOK'
<1> SUFFICES ASSUME TypeOK, KeptOK, OneThread, Unstepped(setup), [Next]_vars PROVE KeptOK'
  OBVIOUS
<1>1. CASE UNCHANGED vars
  BY <1>1 DEF vars, KeptOK, DistinctIn, Apart, WrittenIn, HardwareIn, WaitsFor, Waiting, SteppingOff
<1>2. CASE Next
  BY <1>2, ShownKept, UserKept, ExecuteKept, HandleKept DEF Next
<1> QED
  BY <1>1, <1>2

(* In a session without breakpoints of the user none is ever kept.         *)
NoneKept == hw = <<>> /\ \A i \in DOMAIN sw : sw[i].handle # "BP_KEEP"

LEMMA InitNone == Init /\ NoBreakpoints(setup) => NoneKept
<1> SUFFICES ASSUME Init, NoBreakpoints(setup) PROVE NoneKept
  OBVIOUS
<1>1. setup.int3 = {} /\ setup.ud2 = {} /\ setup.hard = {}
  BY DEF NoBreakpoints
<1>2. DOMAIN hw = {} /\ DOMAIN sw = {}
  BY <1>1, HardwareOf, SoftwareOf
<1>3. hw = <<>>
  BY <1>2, HardwareOf
<1> QED
  BY <1>2, <1>3 DEF NoneKept

LEMMA NextNone == TypeOK /\ NoneKept /\ [Next]_vars => NoneKept'
<1> SUFFICES ASSUME TypeOK, NoneKept, [Next]_vars PROVE NoneKept'
  OBVIOUS
<1>1. /\ sw \in Seq(EntryOf(Opcode)) /\ hw = <<>>
      /\ \A i \in DOMAIN sw : sw[i].handle # "BP_KEEP"
  BY DEF TypeOK, ListsOK, NoneKept
<1>2. \A a : At(hw, a) = {} /\ Waiting(hw) = {} /\ Waiting(sw) = {}
  BY <1>1 DEF At, Waiting
<1>3. ASSUME NEW n \in DOMAIN sw, NEW b \in BOOLEAN, sw' = [sw EXCEPT ![n].restore = b], hw' = hw
      PROVE  NoneKept'
  <2>1. Marked(sw, [sw EXCEPT ![n].restore = b], n, b)
    BY <1>1, MarkFacts
  <2>2. Marked(sw, sw', n, b)
    BY <1>3, <2>1
  <2> QED
    BY <1>1, <1>3, <2>2 DEF Marked, NoneKept
<1>4. ASSUME NEW n \in 1 .. Len(sw), sw' = RemoveAt(sw, n), hw' = hw
      PROVE  NoneKept'
  <2>1. \A i \in DOMAIN RemoveAt(sw, n) : \E j \in DOMAIN sw : RemoveAt(sw, n)[i] = sw[j]
    BY <1>1, EraseKeeps
  <2>2. \A i \in DOMAIN sw' : \E j \in DOMAIN sw : sw'[i] = sw[j]
    BY <1>4, <2>1
  <2> QED
    BY <1>1, <1>4, <2>2 DEF NoneKept
<1>5. ASSUME NEW d \in Addr, NEW h \in Handle3, h # "BP_KEEP", NEW p \in {"any", "this"},
             Insert(d, h, p), hw' = hw
      PROVE  NoneKept'
  <2> DEFINE e == Entry(d, "int3", h, p)
  <2>1. e \in EntryOf(Opcode) /\ e.handle = h
    <3>1. e \in EntryOf(Opcode)
      BY EntryTyped DEF Opcode
    <3> QED
      BY <3>1 DEF Entry
  <2>2. sw' = Append(sw, e)
    BY <1>5 DEF Insert
  <2> HIDE DEF e
  <2>3. \A i \in DOMAIN Append(sw, e) : Append(sw, e)[i] = e \/ (i \in DOMAIN sw /\ Append(sw, e)[i] = sw[i])
    BY <1>1, <2>1, AppendKeeps
  <2>4. \A i \in DOMAIN sw' : sw'[i] = e \/ (i \in DOMAIN sw /\ sw'[i] = sw[i])
    BY <2>2, <2>3
  <2> QED
    BY <1>1, <1>5, <2>1, <2>4 DEF NoneKept
<1>6. UNCHANGED <<sw, hw>> => NoneKept'
  BY DEF NoneKept
<1>7. ASSUME NEW t \in Thread, Handle(t) PROVE NoneKept'
  <2>1. CASE BreakpointHit(t)
    <3> DEFINE a == th[t].ip - 1
               n == Min(At(sw, a))
    <3>1. CASE At(sw, a) = {}
      BY <1>6, <2>1, <3>1 DEF BreakpointHit
    <3>2. CASE At(sw, a) # {}
      <4>1. n \in 1 .. Len(sw) /\ n \in DOMAIN sw
        <5> HIDE DEF a
        <5> QED
          BY <3>2, HitTyped DEF TypeOK
      <4>2. hw' = hw /\ (sw' = [sw EXCEPT ![n].restore = TRUE] \/ sw' = RemoveAt(sw, n))
        BY <2>1, <3>2 DEF BreakpointHit, KeepHit, StepOverHit, TraceToHit
      <4> HIDE DEF n
      <4> QED
        BY <1>3, <1>4, <4>1, <4>2
    <3> QED
      BY <3>1, <3>2
  <2>2. CASE OpcodeHit(t)
    <3> DEFINE a == th[t].ip
               n == Min(At(sw, a))
    <3>1. CASE At(sw, a) = {}
      BY <1>6, <2>2, <3>1 DEF OpcodeHit
    <3>2. CASE At(sw, a) # {}
      <4>1. n \in 1 .. Len(sw) /\ n \in DOMAIN sw
        <5> HIDE DEF a
        <5> QED
          BY <3>2, HitTyped DEF TypeOK
      <4>2. hw' = hw /\ sw' = [sw EXCEPT ![n].restore = TRUE]
        BY <2>2, <3>2 DEF OpcodeHit
      <4> HIDE DEF n
      <4> QED
        BY <1>3, <4>1, <4>2
    <3> QED
      BY <3>1, <3>2
  <2>3. CASE RestoreStep(t)
    BY <1>2, <1>6, <2>3 DEF RestoreStep, Rearm
  <2>4. ~HardwareHit(t)
    BY <1>2 DEF HardwareHit
  <2>5. CASE ForeignException(t) \/ TraceStep(t) \/ UserStep(t)
    BY <1>6, <2>5 DEF ForeignException, TraceStep, UserStep
  <2> QED
    BY <1>7, <2>1, <2>2, <2>3, <2>4, <2>5 DEF Handle
<1>8. CASE User
  <2>1. CASE Run \/ action_DebugStepIn \/ action_DebugTraceStart \/ action_DebugTraceStop
    BY <1>6, <2>1 DEF Run, action_DebugStepIn, action_DebugTraceStart, SetTraceFlag,
                      action_DebugTraceStop
  <2>2. CASE action_DebugStepOver
    <3>1. ctx.ip \in Addr /\ Over[ctx.ip] \in Addr
      BY <2>2, AddrTyped DEF action_DebugStepOver
    <3>2. \/ (UNCHANGED <<sw, hw>>)
          \/ (Insert(Over[ctx.ip], "BP_STEPOVER", "this") /\ hw' = hw)
      BY <2>2 DEF action_DebugStepOver, StepOver
    <3> QED
      BY <1>5, <1>6, <3>1, <3>2 DEF Handle3
  <2>3. CASE action_DebugStepOut
    <3>1. Return[ctx.ip] \in Addr /\ Insert(Return[ctx.ip], "BP_STEPOVER", "this") /\ hw' = hw
      BY <2>3, AddrTyped DEF action_DebugStepOut, StepOver
    <3> QED
      BY <1>5, <3>1 DEF Handle3
  <2>4. ASSUME NEW d \in Addr, ExecuteTo(d) PROVE NoneKept'
    BY <1>5, <2>4 DEF ExecuteTo, Handle3
  <2>5. ASSUME NEW d \in Addr, TraceTo(d) PROVE NoneKept'
    BY <1>5, <1>6, <2>5 DEF TraceTo, SetTraceFlag, Handle3
  <2> QED
    BY <1>8, <2>1, <2>2, <2>3, <2>4, <2>5 DEF User
<1>9. CASE OnDebuggerBreak
  BY <1>6, <1>9 DEF OnDebuggerBreak
<1>10. ASSUME NEW t \in Thread, Execute(t) PROVE NoneKept'
  BY <1>6, <1>10 DEF Execute
<1>11. CASE UNCHANGED vars
  BY <1>6, <1>11 DEF vars
<1> QED
  BY <1>7, <1>8, <1>9, <1>10, <1>11 DEF Next

(* No thread gets past a kept breakpoint but from its hit: only a          *)
(* breakpoint that waits is not written, and it waits for the step off it. *)
KeptInv == /\ setup \in Setups
           /\ Unstepped(setup) => KeptOK
           /\ NoBreakpoints(setup) => NoneKept

LEMMA KeptPasses ==
  ASSUME TypeOK, KeptOK \/ NoneKept, [Next]_vars, NEW t \in Thread, Passes(t), Kept(th[t].ip)
  PROVE  seen[t] = "hit"
<1>1. /\ th \in [Thread -> ThreadState] /\ dbg = Loop /\ th[t].ev = "none" /\ th[t].ip # th'[t].ip
      /\ th'[t].ev # "int3"
  BY DEF TypeOK, DebuggeeOK, Passes
<1>2. KeptOK
  BY DEF NoneKept, Kept
<1>3. Execute(t)
  <2>1. ASSUME NEW u \in Thread, Execute(u), u # t PROVE FALSE
    BY <1>1, <2>1 DEF Execute, Raise
  <2>2. ASSUME NEW u \in Thread, Handle(u) PROVE FALSE
    <3>1. th' = th \/ \E b \in BOOLEAN : th' = [th EXCEPT ![u].tf = b, ![u].ev = "none"]
      <4>1. th[u].tf \in BOOLEAN
        BY <1>1 DEF ThreadState
      <4> QED
        BY <2>2, <4>1 DEF Handle, ForeignException, BreakpointHit, OpcodeHit, TraceStep, UserStep,
                    RestoreStep, HardwareHit, CallBreakDebugger, Continue
    <3>2. CASE th' = th
      BY <1>1, <3>2
    <3>3. CASE \E b \in BOOLEAN : th' = [th EXCEPT ![u].tf = b, ![u].ev = "none"]
      BY <1>1, <3>3 DEF ThreadState
    <3> QED
      BY <3>1, <3>2, <3>3
  <2>3. ~UNCHANGED vars
    BY <1>1 DEF vars
  <2>4. ~OnDebuggerBreak
    <3>1. Loop.at # "break"
      BY DEF Loop
    <3> QED
      BY <1>1, <3>1 DEF OnDebuggerBreak
  <2>5. ASSUME User PROVE FALSE
    <3>1. action_DebugTraceStop
      BY <1>1, <2>5, AskedBreak DEF User, Run, action_DebugStepIn, action_DebugStepOver, StepOver,
         action_DebugStepOut, ExecuteTo, TraceTo, action_DebugTraceStart
    <3> QED
      BY <1>1, <3>1 DEF action_DebugTraceStop
  <2> QED
    BY <2>1, <2>2, <2>3, <2>4, <2>5 DEF Next
<1>4. ~HardwareAt(th[t].ip) /\ mem[th[t].ip] = "code" /\ th[t].ip \in Addr
  <2>1. ASSUME NEW ip, NEW ev, Raise(t, ip, ev)
        PROVE  th'[t].ip = ip /\ th'[t].ev = ev
    BY <1>1, <2>1 DEF Raise, ThreadState
  <2>2. ~Raise(t, th[t].ip, "step") /\ ~Raise(t, th[t].ip + 1, "int3") /\ ~Raise(t, th[t].ip, "ud2")
    BY <1>1, <2>1
  <2> QED
    BY <1>3, <2>2 DEF Execute
<1>5. ASSUME NEW i \in DOMAIN sw, sw[i].at = th[t].ip, sw[i].handle = "BP_KEEP"
      PROVE  SteppingOff(th[t].ip)
  <2>1. sw[i].op # "code" /\ sw[i].pid # "none"
    <3>1. sw[i] \in EntryOf(Opcode)
      BY DEF TypeOK, ListsOK
    <3> QED
      BY <3>1 DEF EntryOf, Opcode
  <2>2. sw[i].restore
    BY <1>2, <1>4, <1>5, <2>1 DEF KeptOK, WrittenIn
  <2>3. i \in Waiting(sw)
    BY <1>5, <2>1, <2>2 DEF Waiting
  <2> QED
    BY <1>2, <1>4, <1>5, <2>3 DEF KeptOK, WaitsFor
<1>6. ASSUME NEW i \in DOMAIN hw, hw[i].at = th[t].ip, hw[i].handle = "BP_KEEP"
      PROVE  SteppingOff(th[t].ip)
  <2>1. hw[i].pid # "none"
    BY ListTyped DEF TypeOK, ListsOK, EntryOf
  <2>2. hw[i].restore
    BY <1>4, <1>6 DEF HardwareAt
  <2>3. i \in Waiting(hw)
    BY <1>6, <2>1, <2>2 DEF Waiting
  <2> QED
    BY <1>2, <1>4, <1>6, <2>3 DEF KeptOK, WaitsFor
<1>7. SteppingOff(th[t].ip)
  BY <1>5, <1>6 DEF Kept
<1> QED
  BY <1>1, <1>7 DEF SteppingOff

(* The session, and with it what the user has and may ask for, is fixed.   *)
LEMMA NextSession == [Next]_vars => setup' = setup
BY DEF Next, vars, Execute, Handle, Handling, ForeignException, BreakpointHit, OpcodeHit, TraceStep,
       UserStep, RestoreStep, HardwareHit, OnDebuggerBreak, User, Run, action_DebugStepIn,
       action_DebugStepOver, StepOver, action_DebugStepOut, ExecuteTo, TraceTo, SetTraceFlag,
       action_DebugTraceStart, action_DebugTraceStop

(* One thread, in a session without breakpoints of the user, or in which   *)
(* the user asks for no single step and no trace: a kept breakpoint that   *)
(* the thread goes past has been hit there.  The hypothesis leaves out     *)
(* what the branches for the single step do not tell apart: a step of the  *)
(* user takes the place of the one that writes the breakpoint again.       *)
THEOREM PassStopsHolds ==
  OneThread /\ (\A s \in Setups : NoBreakpoints(s) \/ Unstepped(s)) => (Spec => PassStops)
<1> SUFFICES ASSUME OneThread, \A s \in Setups : NoBreakpoints(s) \/ Unstepped(s)
             PROVE  Spec => PassStops
  OBVIOUS
<1>1. Init => KeptInv
  BY InitKept, InitNone DEF Init, KeptInv
<1>2. TypeOK /\ KeptInv /\ [Next]_vars => KeptInv'
  BY NextKept, NextNone, NextSession DEF KeptInv
<1>3. TypeOK /\ KeptInv /\ [Next]_vars
        => [\A t \in Thread : Passes(t) /\ Kept(th[t].ip) => seen[t] = "hit"]_vars
  BY KeptPasses DEF KeptInv
<1> QED
  BY <1>1, <1>2, <1>3, InitTyped, NextTyped, PTL DEF Spec, PassStops

-----------------------------------------------------------------------------
(* The steps of the user.                                                  *)

(* A session without breakpoints, the user's or the program's own; a trace *)
(* that the user stops is not mixed with commands that set a breakpoint.   *)
Plain(s) == /\ NoBreakpoints(s) /\ s.own = {}
            /\ "traceStop" \notin s.asks \/ s.asks \cap {"over", "out", "until"} = {}

Ending == {"run", "over", "out", "until"}

ToTrace == \A i \in DOMAIN sw : sw[i].handle = "BP_TRACETO"

(* While the debuggee runs, m_singleStepFlag is set only for a trace or    *)
(* for the step of the user, of which this is all that can come.           *)
LoopOK ==
  \A t \in Thread :
    /\ cmd.t = t /\ cmd.kind # "traceStop"
    /\ cmd.kind \in Ending => ~single
    /\ ~single /\ (th[t].tf \/ th[t].ev = "step") => pid.trap
    /\ cmd.kind = "in" =>
         /\ single /\ ~pid.trace /\ cmd.from \in Addr /\ cmd.to = Flow[cmd.from]
         /\ \/ th[t].ev = "none" /\ th[t].ip = cmd.from /\ th[t].tf
            \/ th[t].ev = "step" /\ th[t].ip = cmd.to
            \/ th[t].ev = "int3"

BreakOK == ~single /\ ~dbg.trap /\ (ctx.tf => pid.trap) /\ (dbg.shown => ~pid.trace)

(* The breakpoint of a command goes with the break that ends the command.  *)
OwnOK ==
  IF "traceStop" \in setup.asks
  THEN ToTrace
  ELSE /\ Len(sw) <= 1 /\ (dbg # Loop \/ cmd.kind \in {"in", "trace"} => sw = <<>>)
       /\ dbg = Loop /\ cmd.kind \in {"trace", "traceTo"} => single /\ pid.trace
       /\ dbg = Loop /\ cmd.kind = "traceTo" => ToTrace

RaisedOK == /\ \A a \in Addr : mem[a] # "ud2"
            /\ \A t \in Thread : th[t].ev # "ud2" /\ (th[t].ev = "step" => ~th[t].tf)

StepOK == /\ NoneKept /\ RaisedOK /\ OwnOK
          /\ dbg # Loop => BreakOK
          /\ dbg = Loop => LoopOK

LEMMA InitSteps == Init /\ Plain(setup) => StepOK
<1> SUFFICES ASSUME Init, Plain(setup) PROVE StepOK
  OBVIOUS
<1>1. NoneKept
  BY InitNone DEF Plain
<1>2. RaisedOK
  BY DEF Init, RaisedOK, Plain, NoBreakpoints, Original
<1>3. dbg # Loop /\ BreakOK
  <2>1. Loop.at # "break"
    BY DEF Loop
  <2> QED
    BY <2>1 DEF Init, BreakOK, Break
<1>4. DOMAIN sw = {}
  BY SoftwareOf DEF Plain, NoBreakpoints
<1>5. sw = <<>>
  BY <1>4, SoftwareOf
<1>6. OwnOK
  BY <1>3, <1>4, <1>5 DEF OwnOK, ToTrace
<1> QED
  BY <1>1, <1>2, <1>3, <1>6 DEF StepOK

LEMMA ExecuteSteps ==
  ASSUME TypeOK, StepOK, OneThread, NEW t \in Thread, Execute(t)
  PROVE  StepOK'
<1>1. /\ dbg = Loop /\ th[t].ev = "none" /\ LoopOK /\ th[t].ip \in Addr /\ hw = <<>>
      /\ UNCHANGED <<setup, mem, sw, hw, pid, single, dbg, ctx, cmd>>
  BY DEF Execute, StepOK, NoneKept
<1>2. th \in [Thread -> ThreadState] /\ \A u \in Thread : u = t
  BY DEF TypeOK, DebuggeeOK, OneThread
<1>3. ~HardwareAt(th[t].ip) /\ mem[th[t].ip] # "ud2"
  BY <1>1 DEF HardwareAt, StepOK, RaisedOK
<1>4. \/ th'[t].ev = "int3" /\ th'[t].tf = th[t].tf
      \/ /\ th'[t].ip = Flow[th[t].ip] /\ th'[t].tf = FALSE
         /\ \/ th[t].tf /\ th'[t].ev = "step"
            \/ ~th[t].tf /\ th'[t].ev = "none"
  BY <1>2, <1>3 DEF Execute, Raise, ThreadState
<1>5. RaisedOK'
  BY <1>1, <1>2, <1>4 DEF StepOK, RaisedOK
<1>6. LoopOK'
  <2>1. CASE th'[t].ev = "int3" /\ th'[t].tf = th[t].tf
    BY <1>1, <1>2, <2>1 DEF LoopOK
  <2>2. CASE /\ th'[t].ip = Flow[th[t].ip] /\ th'[t].tf = FALSE
             /\ th[t].tf /\ th'[t].ev = "step"
    BY <1>1, <1>2, <2>2 DEF LoopOK
  <2>3. CASE /\ th'[t].ip = Flow[th[t].ip] /\ th'[t].tf = FALSE
             /\ ~th[t].tf /\ th'[t].ev = "none"
    BY <1>1, <1>2, <2>3 DEF LoopOK
  <2> QED
    BY <1>4, <2>1, <2>2, <2>3
<1>7. NoneKept' /\ OwnOK'
  BY <1>1 DEF StepOK, NoneKept, OwnOK, ToTrace
<1> QED
  BY <1>1, <1>5, <1>6, <1>7 DEF StepOK

(* The only exceptions are breakpoints of the commands and single steps.   *)
LEMMA BreakpointHitSteps ==
  ASSUME TypeOK, StandOK, StepOK, OneThread, Plain(setup), NEW t \in Thread, BreakpointHit(t),
         NoneKept'
  PROVE  StepOK'
<1> DEFINE a == th[t].ip - 1
           n == Min(At(sw, a))
<1>0. dbg = Loop /\ th[t].ev = "int3" /\ setup' = setup /\ cmd' = cmd
  BY DEF BreakpointHit, Handling
<1>1. At(sw, a) # {} /\ a \in Addr
  BY <1>0 DEF StandOK, Trapped, Trap, Free, Plain
<1>2. n \in 1 .. Len(sw) /\ n \in DOMAIN sw /\ sw[n].handle # "BP_KEEP"
  <2>1. n \in 1 .. Len(sw) /\ n \in DOMAIN sw
    <3> HIDE DEF a
    <3> QED
      BY <1>1, HitTyped DEF TypeOK
  <2> QED
    BY <2>1 DEF StepOK, NoneKept
<1>3. /\ mem' = [mem EXCEPT ![a] = Original(a)] /\ sw' = RemoveAt(sw, n)
      /\ CallBreakDebugger(t, HitIp("int3", th[t].ip), sw[n].handle # "BP_TRACETO", "breakpoint", FALSE)
      /\ \/ sw[n].handle = "BP_STEPOVER" /\ pid' = Pending /\ single' = single
         \/ sw[n].handle = "BP_TRACETO" /\ pid' = Cleared /\ single' = FALSE
  BY <1>1, <1>2 DEF BreakpointHit, StepOverHit, TraceToHit
<1>4. pid \in Flags /\ sw \in Seq(EntryOf(Opcode)) /\ mem \in [Addr -> Opcode \cup {"code"}]
  BY DEF TypeOK, ListsOK, DebuggeeOK, DebuggerOK
<1>5. /\ dbg' # Loop /\ ~dbg'.trap /\ ~dbg'.shown /\ th' = th
      /\ ctx'.tf = (sw[n].handle # "BP_TRACETO")
  BY <1>3 DEF CallBreakDebugger, Break, Loop
<1>6. Original(a) = "code"
  BY <1>1 DEF Original, Plain
<1>7. RaisedOK'
  BY <1>1, <1>3, <1>4, <1>5, <1>6 DEF StepOK, RaisedOK
<1>8. ~single \/ sw[n].handle = "BP_TRACETO"
  <2>1. CASE "traceStop" \in setup.asks
    BY <1>2, <2>1 DEF StepOK, OwnOK, ToTrace
  <2>2. CASE "traceStop" \notin setup.asks
    <3>1. sw # <<>>
      BY <1>2
    <3>2. cmd.kind \notin {"in", "trace"}
      BY <1>0, <2>2, <3>1 DEF StepOK, OwnOK
    <3>3. CASE cmd.kind = "traceTo"
      BY <1>0, <1>2, <2>2, <3>3 DEF StepOK, OwnOK, ToTrace
    <3>4. CASE cmd.kind # "traceTo"
      <4>1. LoopOK
        BY <1>0 DEF StepOK
      <4>2. cmd.kind \in Ending
        BY <3>2, <3>4, <4>1 DEF TypeOK, DebuggerOK, Command, Ending, LoopOK
      <4> QED
        BY <4>1, <4>2 DEF LoopOK
    <3> QED
      BY <3>3, <3>4
  <2> QED
    BY <2>1, <2>2
<1>9. BreakOK'
  <2>1. CASE sw[n].handle = "BP_STEPOVER" /\ pid' = Pending /\ single' = single
    <3>1. pid'.trap
      BY <1>4, <2>1 DEF Pending, Flags
    <3> QED
      BY <1>5, <1>8, <2>1, <3>1 DEF BreakOK
  <2>2. CASE sw[n].handle = "BP_TRACETO" /\ pid' = Cleared /\ single' = FALSE
    BY <1>5, <2>2 DEF BreakOK
  <2> QED
    BY <1>3, <2>1, <2>2
<1>10. OwnOK'
  <2>1. /\ \A i \in DOMAIN RemoveAt(sw, n) : \E j \in DOMAIN sw : RemoveAt(sw, n)[i] = sw[j]
        /\ RemoveAt(sw, n) \in Seq(EntryOf(Opcode)) /\ Len(RemoveAt(sw, n)) = Len(sw) - 1
    BY <1>2, <1>4, EraseKeeps, RemoveAtProperties
  <2> HIDE DEF n
  <2>2. /\ \A i \in DOMAIN sw' : \E j \in DOMAIN sw : sw'[i] = sw[j]
        /\ sw' \in Seq(EntryOf(Opcode)) /\ Len(sw') = Len(sw) - 1 /\ Len(sw) \in Nat
    BY <1>3, <1>4, <2>1
  <2>3. CASE "traceStop" \in setup.asks
    BY <1>0, <2>2, <2>3 DEF StepOK, OwnOK, ToTrace
  <2>4. CASE "traceStop" \notin setup.asks
    <3>1. Len(sw) <= 1
      BY <2>4 DEF StepOK, OwnOK
    <3>2. Len(sw') = 0
      BY <2>2, <3>1
    <3>3. sw' = <<>>
      BY <2>2, <3>2
    <3> QED
      BY <1>0, <1>5, <2>4, <3>2, <3>3 DEF OwnOK
  <2> QED
    BY <2>3, <2>4
<1> QED
  BY <1>5, <1>7, <1>9, <1>10 DEF StepOK

LEMMA HandleSteps ==
  ASSUME TypeOK, StandOK, StepOK, OneThread, Plain(setup), NEW t \in Thread, Handle(t), NoneKept'
  PROVE  StepOK'
<1>1. /\ dbg = Loop /\ th[t].ev # "none" /\ LoopOK /\ hw = <<>>
      /\ setup' = setup /\ cmd' = cmd /\ th[t].ev # "ud2"
  BY DEF Handle, Handling, ForeignException, BreakpointHit, OpcodeHit, TraceStep, UserStep,
         RestoreStep, HardwareHit, StepOK, NoneKept, RaisedOK
<1>2. /\ th \in [Thread -> ThreadState] /\ pid \in Flags
      /\ \A u \in Thread : u = t
  BY DEF TypeOK, DebuggeeOK, DebuggerOK, OneThread
<1>3. ~OpcodeHit(t) /\ ~HardwareHit(t)
  <2>1. \A a : At(hw, a) = {}
    BY <1>1 DEF At
  <2> QED
    BY <1>1, <2>1 DEF OpcodeHit, Handling, HardwareHit
<1>4. ~ForeignException(t)
  <2>1. CASE th[t].ev = "int3"
    <3>1. At(sw, th[t].ip - 1) # {}
      BY <1>1, <2>1 DEF StandOK, Trapped, Trap, Free, Plain
    <3> QED
      BY <2>1, <3>1 DEF ForeignException, IsBP
  <2>2. CASE th[t].ev = "step"
    BY <1>1, <2>2 DEF ForeignException, IsBP, LoopOK
  <2> QED
    BY <1>1, <1>2, <2>1, <2>2 DEF ThreadState, Opcode
<1>5. CASE TraceStep(t)
  <2>1. /\ UNCHANGED <<mem, sw, hw, pid, single, dbg, ctx>> /\ pid.trace /\ single
        /\ th' = [th EXCEPT ![t].tf = TRUE, ![t].ev = "none"]
    BY <1>5 DEF TraceStep, Continue
  <2>2. th'[t].ev = "none"
    BY <1>2, <2>1 DEF ThreadState
  <2>3. LoopOK'
    BY <1>1, <1>2, <2>1, <2>2 DEF LoopOK
  <2>4. RaisedOK'
    BY <1>2, <2>1, <2>2 DEF StepOK, RaisedOK
  <2>5. OwnOK'
    BY <1>1, <2>1 DEF StepOK, OwnOK, ToTrace
  <2> QED
    BY <1>1, <2>1, <2>3, <2>4, <2>5 DEF StepOK
<1>6. CASE UserStep(t)
  <2>1. /\ UNCHANGED <<mem, sw, hw, pid>> /\ ~pid.trace /\ single /\ ~single' /\ th[t].ev = "step"
        /\ CallBreakDebugger(t, th[t].ip, th[t].tf, "step", FALSE)
    BY <1>6 DEF UserStep, Handling
  <2>2. ~th[t].tf
    BY <2>1 DEF StepOK, RaisedOK
  <2>3. dbg' # Loop /\ ~dbg'.trap /\ ~dbg'.shown /\ th' = th /\ ~ctx'.tf
    BY <2>1, <2>2 DEF CallBreakDebugger, Break, Loop
  <2>4. BreakOK'
    BY <2>1, <2>3 DEF BreakOK
  <2>5. RaisedOK'
    BY <2>1, <2>3 DEF StepOK, RaisedOK
  <2>6. OwnOK'
    <3>1. CASE "traceStop" \in setup.asks
      BY <1>1, <2>1, <3>1 DEF StepOK, OwnOK, ToTrace
    <3>2. CASE "traceStop" \notin setup.asks
      <4>1. cmd.kind \notin {"trace", "traceTo"} /\ cmd.kind \notin Ending
        BY <1>1, <2>1, <3>2 DEF StepOK, OwnOK, LoopOK
      <4>2. cmd.kind = "in"
        BY <1>1, <4>1 DEF Ending, TypeOK, DebuggerOK, Command, LoopOK
      <4>3. sw = <<>>
        BY <1>1, <3>2, <4>2 DEF StepOK, OwnOK
      <4> QED
        BY <1>1, <2>1, <2>3, <3>2, <4>3 DEF OwnOK
    <3> QED
      BY <3>1, <3>2
  <2> QED
    BY <2>3, <2>4, <2>5, <2>6 DEF StepOK
<1>7. CASE RestoreStep(t)
  <2>1. /\ ~single /\ th[t].ev = "step" /\ UNCHANGED <<single, dbg, ctx>>
        /\ th' = [th EXCEPT ![t].tf = th[t].tf, ![t].ev = "none"] /\ pid'.trace = pid.trace
    BY <1>2, <1>7 DEF RestoreStep, Handling, Continue, Flags
  <2>2. sw' = sw /\ mem' = mem
    <3>1. Waiting(sw) = {}
      BY DEF StepOK, NoneKept, Waiting
    <3> QED
      BY <1>7, <3>1 DEF RestoreStep, Rearm
  <2>3. ~th[t].tf
    BY <2>1 DEF StepOK, RaisedOK
  <2>4. th'[t].ev = "none" /\ ~th'[t].tf
    BY <1>2, <2>1, <2>3 DEF ThreadState
  <2>5. LoopOK'
    BY <1>1, <1>2, <2>1, <2>4 DEF LoopOK
  <2>6. RaisedOK'
    BY <1>2, <2>2, <2>4 DEF StepOK, RaisedOK
  <2>7. OwnOK'
    BY <1>1, <2>1, <2>2 DEF StepOK, OwnOK, ToTrace
  <2> QED
    BY <1>1, <2>1, <2>5, <2>6, <2>7 DEF StepOK
<1> QED
  BY <1>3, <1>4, <1>5, <1>6, <1>7, BreakpointHitSteps DEF Handle

(* What the user does in a break, with the list and the flags it leaves.   *)
LEMMA ResumeSteps ==
  ASSUME TypeOK, StepOK, OneThread, dbg # Loop, NEW kind \in Command, NEW to \in Addr \cup {ctx.ip},
         NEW tf \in BOOLEAN, Resume(kind, to, tf), kind # "traceStop", setup' = setup,
         NoneKept', \A a \in Addr : mem'[a] # "ud2", pid'.trap = pid.trap,
         kind \in Ending => ~single' /\ tf = ctx.tf,
         kind \notin Ending => single' /\ tf,
         kind = "in" => ~pid'.trace /\ to = Flow[ctx.ip] /\ ctx.ip \in Addr, OwnOK'
  PROVE  StepOK'
<1>1. /\ dbg' = Loop /\ dbg.t \in Thread /\ th \in [Thread -> ThreadState]
      /\ th'[dbg.t] = [ip |-> ctx.ip, tf |-> tf \/ dbg.trap, ev |-> "none"]
      /\ cmd' = [kind |-> kind, t |-> dbg.t, from |-> ctx.ip, to |-> to]
  BY ResumeTyped DEF TypeOK, DebuggeeOK
<1>2. \A t \in Thread : t = dbg.t
  BY <1>1 DEF OneThread
<1>3. ~dbg.trap /\ (ctx.tf => pid.trap)
  BY DEF StepOK, BreakOK
<1>4. \A t \in Thread : th'[t] = [ip |-> ctx.ip, tf |-> tf, ev |-> "none"]
  <2>1. (tf \/ dbg.trap) = tf
    BY <1>3
  <2> QED
    BY <1>1, <1>2, <2>1
<1>5. RaisedOK'
  BY <1>4 DEF RaisedOK
<1>6. LoopOK'
  <2> SUFFICES ASSUME NEW t \in Thread
               PROVE  /\ cmd'.t = t /\ cmd'.kind # "traceStop"
                      /\ cmd'.kind \in Ending => ~single'
                      /\ ~single' /\ (th'[t].tf \/ th'[t].ev = "step") => pid'.trap
                      /\ cmd'.kind = "in" =>
                           /\ single' /\ ~pid'.trace /\ cmd'.from \in Addr /\ cmd'.to = Flow[cmd'.from]
                           /\ th'[t].ev = "none" /\ th'[t].ip = cmd'.from /\ th'[t].tf
    BY DEF LoopOK
  <2>1. th'[t].ip = ctx.ip /\ th'[t].ev = "none" /\ th'[t].tf = tf
    BY <1>4
  <2>2. /\ cmd'.t = t /\ cmd'.kind = kind /\ cmd'.from = ctx.ip /\ cmd'.to = to
    BY <1>1, <1>2
  <2>3. "in" \notin Ending
    BY DEF Ending
  <2>4. ~single' => kind \in Ending /\ (tf => pid'.trap)
    BY <1>3
  <2> QED
    BY <2>1, <2>2, <2>3, <2>4
<1> QED
  BY <1>1, <1>5, <1>6 DEF StepOK

LEMMA UserSteps ==
  ASSUME TypeOK, StepOK, OneThread, Plain(setup), User, NoneKept'
  PROVE  StepOK'
<1>0. /\ pid \in Flags /\ ctx.tf \in BOOLEAN /\ sw \in Seq(EntryOf(Opcode)) /\ hw = <<>>
      /\ mem \in [Addr -> Opcode \cup {"code"}] /\ \A a \in Addr : mem[a] # "ud2"
  BY DEF TypeOK, ListsOK, DebuggerOK, DebuggeeOK, StepOK, NoneKept, RaisedOK
<1>1. ASSUME NEW c, Asked(c)
      PROVE  /\ dbg # Loop /\ c \in setup.asks /\ ~single /\ ~pid.trace
             /\ "traceStop" \notin setup.asks => sw = <<>>
             /\ "traceStop" \in setup.asks => ToTrace /\ c \notin {"over", "out", "until"}
  <2>1. dbg # Loop /\ c \in setup.asks /\ BreakOK /\ dbg.shown
    BY <1>1, AskedBreak DEF Asked, StepOK
  <2>2. "traceStop" \in setup.asks => ToTrace
    BY DEF StepOK, OwnOK
  <2>3. "traceStop" \notin setup.asks => sw = <<>>
    BY <2>1 DEF StepOK, OwnOK
  <2> QED
    BY <2>1, <2>2, <2>3 DEF BreakOK, Plain
<1>2. CASE Run
  <2>1. Asked("run") /\ Resume("run", ctx.ip, ctx.tf) /\ UNCHANGED <<setup, mem, sw, hw, pid, single>>
    BY <1>2 DEF Run
  <2>2. dbg' = Loop /\ cmd'.kind = "run"
    BY <2>1 DEF Resume
  <2>3. OwnOK'
    BY <1>1, <2>1, <2>2 DEF OwnOK, ToTrace
  <2> QED
    BY <1>0, <1>1, <2>1, <2>3, ResumeSteps DEF Command, Ending
<1>3. ASSUME Asked("in") \/ Asked("over"), ctx.ip \in Addr, StepIn, UNCHANGED <<setup, mem, sw, hw, pid>>
      PROVE  StepOK'
  <2>1. single' /\ Resume("in", Flow[ctx.ip], TRUE) /\ Flow[ctx.ip] \in Addr
    BY <1>3, AddrTyped DEF StepIn
  <2>2. dbg' = Loop /\ cmd'.kind = "in"
    BY <2>1 DEF Resume
  <2>3. OwnOK'
    BY <1>1, <1>3, <2>2 DEF OwnOK, ToTrace
  <2>4. dbg # Loop /\ ~pid.trace
    BY <1>1, <1>3
  <2> QED
    BY <1>0, <1>3, <2>1, <2>3, <2>4, ResumeSteps DEF Command, Ending
<1>4. ASSUME NEW kind \in {"over", "out", "until"}, Asked(kind), NEW d \in Addr, NEW p \in {"any", "this"},
             Insert(d, "BP_STEPOVER", p), Resume(kind, d, ctx.tf), UNCHANGED <<setup, hw, pid, single>>
      PROVE  StepOK'
  <2>1. dbg # Loop /\ ~single /\ "traceStop" \notin setup.asks /\ sw = <<>>
    BY <1>1, <1>4
  <2>2. dbg' = Loop /\ cmd'.kind = kind
    BY <1>4 DEF Resume
  <2>3. Len(sw') = 1 /\ mem' = [mem EXCEPT ![d] = "int3"]
    BY <1>4, <2>1 DEF Insert
  <2>4. OwnOK'
    BY <1>4, <2>1, <2>2, <2>3 DEF OwnOK
  <2>5. \A a \in Addr : mem'[a] # "ud2"
    BY <1>0, <2>3
  <2> QED
    BY <1>0, <1>4, <2>1, <2>4, <2>5, ResumeSteps DEF Command, Ending
<1>5. CASE action_DebugStepOver
  <2>1. Asked("over") /\ ctx.ip \in Addr /\ Over[ctx.ip] \in Addr
    BY <1>5, AddrTyped DEF action_DebugStepOver
  <2>2. CASE StepOver("over", Over[ctx.ip])
    BY <1>4, <2>1, <2>2 DEF StepOver
  <2>3. CASE StepIn /\ UNCHANGED <<setup, mem, sw, hw, pid, seen>>
    BY <1>3, <2>1, <2>3
  <2> QED
    BY <1>5, <2>2, <2>3 DEF action_DebugStepOver
<1>6. CASE action_DebugStepOut
  <2>1. Asked("out") /\ Return[ctx.ip] \in Addr /\ StepOver("out", Return[ctx.ip])
    BY <1>6, AddrTyped DEF action_DebugStepOut
  <2> QED
    BY <1>4, <2>1 DEF StepOver
<1>7. ASSUME NEW d \in Addr, ExecuteTo(d) PROVE StepOK'
  BY <1>4, <1>7 DEF ExecuteTo
<1>8. ASSUME NEW kind \in {"trace", "traceTo"}, Asked(kind), NEW to \in Addr \cup {ctx.ip}, SetTraceFlag(kind, to),
             OwnOK', \A a \in Addr : mem'[a] # "ud2"
      PROVE  StepOK'
  <2>1. single' /\ Resume(kind, to, TRUE) /\ setup' = setup /\ pid'.trap = pid.trap
    BY <1>0, <1>8 DEF SetTraceFlag, Flags
  <2> QED
    BY <1>1, <1>8, <2>1, ResumeSteps DEF Command, Ending
<1>9. ASSUME NEW kind \in {"trace", "traceTo"}, NEW to, SetTraceFlag(kind, to)
      PROVE  dbg' = Loop /\ cmd'.kind = kind /\ single' /\ pid'.trace /\ setup' = setup
  BY <1>0, <1>9 DEF SetTraceFlag, Resume, Flags
<1>10. CASE action_DebugTraceStart
  <2>1. Asked("trace") /\ SetTraceFlag("trace", ctx.ip) /\ UNCHANGED <<mem, sw>>
    BY <1>10 DEF action_DebugTraceStart
  <2>2. OwnOK'
    BY <1>1, <1>9, <2>1 DEF OwnOK, ToTrace
  <2> QED
    BY <1>0, <1>8, <2>1, <2>2
<1>11. ASSUME NEW d \in Addr, TraceTo(d) PROVE StepOK'
  <2>1. Asked("traceTo") /\ SetTraceFlag("traceTo", d)
    BY <1>11 DEF TraceTo
  <2> DEFINE e == Entry(d, "int3", "BP_TRACETO", "this")
  <2>2. \/ (UNCHANGED <<mem, sw>>)
        \/ (sw' = Append(sw, e) /\ mem' = [mem EXCEPT ![d] = "int3"])
    BY <1>11 DEF TraceTo, Insert
  <2>3. e.handle = "BP_TRACETO"
    BY DEF Entry
  <2> HIDE DEF e
  <2>4. ToTrace => ToTrace'
    BY <1>0, <2>2, <2>3 DEF ToTrace
  <2>5. sw = <<>> => Len(sw') <= 1 /\ ToTrace'
    <3>1. CASE sw' = sw
      BY <3>1 DEF ToTrace
    <3>2. CASE sw' = Append(sw, e) /\ sw = <<>>
      <4>1. Len(sw') = 1 /\ DOMAIN sw' = {1} /\ sw'[1] = e
        BY <3>2
      <4> QED
        BY <2>3, <4>1 DEF ToTrace
    <3> QED
      BY <2>2, <3>1, <3>2
  <2>6. OwnOK'
    BY <1>1, <1>9, <2>1, <2>4, <2>5 DEF OwnOK
  <2>7. \A a \in Addr : mem'[a] # "ud2"
    BY <1>0, <2>2
  <2> QED
    BY <1>8, <2>1, <2>6, <2>7
<1>12. CASE action_DebugTraceStop
  <2>1. /\ UNCHANGED <<setup, th, mem, sw, hw, single, dbg, ctx, cmd>> /\ "traceStop" \in setup.asks
        /\ ~pid'.trace /\ pid'.trap = pid.trap
    BY <1>0, <1>12 DEF action_DebugTraceStop, Flags
  <2>2. OwnOK'
    BY <2>1 DEF StepOK, OwnOK, ToTrace
  <2>3. RaisedOK' /\ (dbg # Loop => BreakOK') /\ (dbg = Loop => LoopOK')
    BY <2>1 DEF StepOK, RaisedOK, BreakOK, LoopOK
  <2> QED
    BY <2>1, <2>2, <2>3 DEF StepOK
<1> QED
  BY <1>2, <1>3, <1>5, <1>6, <1>7, <1>10, <1>11, <1>12 DEF User, action_DebugStepIn

LEMMA NextSteps ==
  TypeOK /\ StandOK /\ StepOK /\ OneThread /\ Plain(setup) /\ [Next]_vars => StepOK'
<1> SUFFICES ASSUME TypeOK, StandOK, StepOK, OneThread, Plain(setup), [Next]_vars PROVE StepOK'
  OBVIOUS
<1>1. NoneKept'
  BY NextNone DEF StepOK
<1>2. CASE UNCHANGED vars
  BY <1>2 DEF vars, StepOK, NoneKept, RaisedOK, OwnOK, ToTrace, BreakOK, LoopOK
<1>3. CASE OnDebuggerBreak
  <2>1. /\ dbg # Loop /\ dbg' # Loop /\ dbg'.trap = dbg.trap /\ dbg \in Waits
        /\ UNCHANGED <<setup, th, mem, sw, hw, single, ctx, cmd>>
    <3>1. Loop.at # "break"
      BY DEF Loop
    <3>2. dbg # Loop /\ dbg \in Waits
      BY <1>3, <3>1 DEF OnDebuggerBreak, TypeOK, DebuggerOK
    <3>3. dbg'.at = "break" /\ dbg'.trap = dbg.trap
      BY <1>3, <3>2 DEF OnDebuggerBreak, Waits
    <3> QED
      BY <1>3, <3>1, <3>2, <3>3 DEF OnDebuggerBreak
  <2>2. ~pid'.trace /\ pid'.trap = pid.trap
    BY <1>3 DEF OnDebuggerBreak, TypeOK, DebuggerOK, Flags
  <2>3. BreakOK'
    BY <2>1, <2>2 DEF StepOK, BreakOK
  <2>4. RaisedOK' /\ OwnOK'
    BY <2>1 DEF StepOK, RaisedOK, OwnOK, ToTrace
  <2> QED
    BY <1>1, <2>1, <2>3, <2>4 DEF StepOK
<1> QED
  BY <1>1, <1>2, <1>3, UserSteps, ExecuteSteps, HandleSteps DEF Next

StepInv == /\ setup \in Setups
           /\ Unstepped(setup) => KeptOK
           /\ Plain(setup) => StepOK

(* Only the branch for the step of the user says that it is a step.        *)
LEMMA StopsForStep ==
  ASSUME TypeOK, [Next]_vars, Stops, dbg'.why = "step"
  PROVE  \E t \in Thread : UserStep(t) /\ dbg'.t = t /\ ctx'.ip = th[t].ip /\ th[t].ev = "step"
<1>1. Loop.at # "break" /\ dbg = Loop /\ dbg'.at = "break"
  BY DEF Loop, Stops
<1>2. dbg' # dbg
  BY <1>1
<1>3. ~User
  BY <1>1, <1>2, AskedBreak DEF User, Run, action_DebugStepIn, action_DebugStepOver, StepOver,
     action_DebugStepOut, ExecuteTo, TraceTo, action_DebugTraceStart, action_DebugTraceStop
<1>4. PICK t \in Thread : Handle(t)
  BY <1>1, <1>2, <1>3 DEF Next, vars, OnDebuggerBreak, Execute
<1>5. ASSUME NEW ip, NEW tf, NEW why, NEW trap, CallBreakDebugger(t, ip, tf, why, trap)
      PROVE  dbg'.why = why /\ dbg'.t = t /\ ctx'.ip = ip
  BY <1>5 DEF CallBreakDebugger, Break
<1>6. ~TraceStep(t) /\ ~RestoreStep(t)
  BY <1>2 DEF TraceStep, RestoreStep, Continue
<1>7. ~ForeignException(t) /\ ~HardwareHit(t)
  BY DEF ForeignException, HardwareHit, CallBreakDebugger, Break
<1>8. ~BreakpointHit(t) /\ ~OpcodeHit(t)
  BY DEF BreakpointHit, OpcodeHit, CallBreakDebugger, Break
<1>9. UserStep(t)
  BY <1>4, <1>6, <1>7, <1>8 DEF Handle
<1> QED
  BY <1>5, <1>9 DEF UserStep, Handling

LEMMA StepAnswers ==
  ASSUME TypeOK, StepInv, Unstepped(setup) \/ Plain(setup), [Next]_vars, Stops, dbg'.why = "step"
  PROVE  /\ cmd.kind \notin Ending
         /\ dbg'.t = cmd.t /\ (cmd.kind = "in" => ctx'.ip = cmd.to)
<1>1. PICK t \in Thread : UserStep(t) /\ dbg'.t = t /\ ctx'.ip = th[t].ip /\ th[t].ev = "step"
  BY StopsForStep
<1>2. single /\ dbg = Loop
  BY <1>1 DEF UserStep, Stops
<1>3. LoopOK
  BY <1>2 DEF StepInv, KeptOK, StepOK
<1> QED
  BY <1>1, <1>2, <1>3 DEF LoopOK

LEMMA StepInvHolds ==
  OneThread /\ (\A s \in Setups : Unstepped(s) \/ Plain(s))
    => (Spec => [](TypeOK /\ StandOK /\ StepInv))
<1> SUFFICES ASSUME OneThread PROVE Spec => [](TypeOK /\ StandOK /\ StepInv)
  OBVIOUS
<1>1. NothingErased
  BY DEF OneThread, NothingErased
<1>2. Init => StepInv
  BY InitKept, InitSteps DEF Init, StepInv
<1>3. TypeOK /\ StandOK /\ StepInv /\ [Next]_vars => StandOK' /\ StepInv'
  BY <1>1, NextKept, NextSteps, NextStands, NextSession DEF StepInv
<1> QED
  BY <1>2, <1>3, InitTyped, NextTyped, InitStands, PTL DEF Spec

(* One thread, in a session in which the user asks for no single step and  *)
(* no trace, or a session without breakpoints, whose traces are not        *)
(* stopped half way to a breakpoint of another command: after "continue",  *)
(* "execute to" or a step that ends at a breakpoint the debugger does not  *)
(* break for a single step.  Outside of that m_singleStepFlag may be left  *)
(* set by a hit that comes before the step.                                *)
THEOREM ContinueContinuesHolds ==
  OneThread /\ (\A s \in Setups : Unstepped(s) \/ Plain(s)) => (Spec => ContinueContinues)
<1> SUFFICES ASSUME OneThread, \A s \in Setups : Unstepped(s) \/ Plain(s)
             PROVE  Spec => ContinueContinues
  OBVIOUS
<1>1. TypeOK /\ StepInv /\ [Next]_vars
        => [Stops /\ cmd.kind \in {"run", "until", "over", "out"} => dbg'.why # "step"]_vars
  BY StepAnswers DEF StepInv, Ending
<1> QED
  BY <1>1, StepInvHolds, PTL DEF Spec, ContinueContinues

(* Under the same hypothesis, a break for a single step is in the thread   *)
(* the user stepped, and after "step in" one instruction further.          *)
THEOREM StepIsOneHolds ==
  OneThread /\ (\A s \in Setups : Unstepped(s) \/ Plain(s)) => (Spec => StepIsOne)
<1> SUFFICES ASSUME OneThread, \A s \in Setups : Unstepped(s) \/ Plain(s)
             PROVE  Spec => StepIsOne
  OBVIOUS
<1>1. TypeOK /\ StepInv /\ [Next]_vars
        => [Stops /\ dbg'.why = "step" =>
              dbg'.t = cmd.t /\ (cmd.kind = "in" => ctx'.ip = cmd.to)]_vars
  BY StepAnswers DEF StepInv
<1> QED
  BY <1>1, StepInvHolds, PTL DEF Spec, StepIsOne
=============================================================================
