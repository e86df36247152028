----------------------- MODULE MemoryBreakpointProofs -----------------------
(***************************************************************************)
(* Page protections and memory breakpoints for any pages, program,         *)
(* breakpoints and readers: on a page where one change of protection is    *)
(* under way at a time, what is saved is the program's own protection      *)
(* (PageInv), and one breakpoint waits for one single step (WaitInv).      *)
(***************************************************************************)
EXTENDS MemoryBreakpoint, SequenceTheorems, FiniteSetTheorems, TLAPS

(* The naturals are well ordered: the initial segments up to the elements  *)
(* of S are finite sets, and inclusion is well founded on these.           *)
LEMMA LeastExists ==
  ASSUME NEW S \in SUBSET Nat, S # {}
  PROVE  \E x \in S : \A y \in S : x <= y
<1> DEFINE T == {0 .. x : x \in S}
<1>1. T \subseteq FiniteSubsetsOf(Nat) /\ T # {}
  <2>1. \A x \in S : IsFiniteSet(0 .. x) /\ 0 .. x \subseteq Nat
    BY FS_Interval
  <2> QED
    BY <2>1 DEF FiniteSubsetsOf
<1>2. PICK I \in T : \A J \in T : <<J, I>> \notin StrictSubsetOrdering(Nat)
  <2> HIDE DEF T
  <2> QED
    BY <1>1, FS_StrictSubsetOrderingWellFounded, WFMin
<1>3. PICK x \in S : I = 0 .. x
  OBVIOUS
<1>4. ASSUME NEW y \in S, y < x PROVE FALSE
  <2>1. 0 .. y \subseteq 0 .. x /\ 0 .. y # 0 .. x /\ 0 .. x \subseteq Nat
    BY <1>4
  <2>2. <<0 .. y, 0 .. x>> \in StrictSubsetOrdering(Nat)
    BY <2>1 DEF StrictSubsetOrdering
  <2> QED
    BY <1>2, <1>3, <2>2
<1> QED
  BY <1>4

LEMMA MinLeast ==
  ASSUME NEW S \in SUBSET Nat, S # {}
  PROVE  Min(S) \in S /\ \A y \in S : Min(S) <= y
BY LeastExists DEF Min

(* A set of indices of a list has a greatest one.                          *)
LEMMA MaxGreatest ==
  ASSUME NEW n \in Nat, NEW S \in SUBSET (1 .. n), S # {}
  PROVE  Max(S) \in S /\ \A y \in S : Max(S) >= y
<1> DEFINE T == {n - x : x \in S}
<1>1. T \in SUBSET Nat /\ T # {}
  <2>1. \A x \in S : x \in Nat /\ n - x \in Nat
    OBVIOUS
  <2>2. PICK x \in S : TRUE
    OBVIOUS
  <2>3. n - x \in T
    OBVIOUS
  <2> QED
    BY <2>1, <2>3
<1>2. PICK t \in T : \A y \in T : t <= y
  BY <1>1, LeastExists
<1>3. PICK x \in S : t = n - x
  BY <1>2
<1>4. \A y \in S : x >= y
  <2> SUFFICES ASSUME NEW y \in S PROVE x >= y
    OBVIOUS
  <2>1. n - y \in T
    OBVIOUS
  <2>2. n - x <= n - y
    BY <1>2, <1>3, <2>1
  <2>3. x \in Int /\ y \in Int
    OBVIOUS
  <2> QED
    BY <2>2, <2>3
<1> QED
  BY <1>4 DEF Max

(* A finite set of naturals has a bound: the least set without one would   *)
(* get one from a subset with one element less.                            *)
LEMMA FiniteBounded ==
  ASSUME NEW S \in SUBSET Nat, IsFiniteSet(S)
  PROVE  \E n \in Nat : \A x \in S : x <= n
<1> DEFINE Bounded(I) == \E n \in Nat : \A x \in I : x <= n
<1> DEFINE T == {I \in FiniteSubsetsOf(Nat) : ~Bounded(I)}
<1>1. SUFFICES ASSUME S \in T PROVE FALSE
  BY DEF FiniteSubsetsOf
<1>2. T \subseteq FiniteSubsetsOf(Nat) /\ T # {}
  BY <1>1
<1>3. PICK I \in T : \A J \in T : <<J, I>> \notin StrictSubsetOrdering(Nat)
  <2> HIDE DEF T
  <2> QED
    BY <1>2, FS_StrictSubsetOrderingWellFounded, WFMin
<1>4. I \in SUBSET Nat /\ IsFiniteSet(I) /\ ~Bounded(I)
  BY <1>3 DEF FiniteSubsetsOf
<1>5. PICK x \in I : TRUE
  BY <1>4
<1>6. IsFiniteSet(I \ {x}) /\ I \ {x} \in FiniteSubsetsOf(Nat)
  BY <1>4, FS_Subset DEF FiniteSubsetsOf
<1>7. <<I \ {x}, I>> \in StrictSubsetOrdering(Nat)
  BY <1>4, <1>5 DEF StrictSubsetOrdering
<1>8. Bounded(I \ {x})
  BY <1>3, <1>6, <1>7
<1>9. PICK n \in Nat : \A y \in I \ {x} : y <= n
  BY <1>8
<1>10. \E m \in Nat : m >= n /\ m >= x
  BY <1>4, <1>5, <1>9
<1>11. PICK m \in Nat : m >= n /\ m >= x
  BY <1>10
<1>12. \A y \in I : y <= m
  BY <1>4, <1>9, <1>11
<1> QED
  BY <1>4, <1>12

(* Where the entries of a list are after the one at n has been erased.     *)
LEMMA RemoveAtProperties ==
  ASSUME NEW E, NEW L \in Seq(E), NEW n \in 1 .. Len(L)
  PROVE  /\ RemoveAt(L, n) \in Seq(E)
         /\ Len(RemoveAt(L, n)) = Len(L) - 1
         /\ \A j \in 1 .. Len(L) - 1 :
              RemoveAt(L, n)[j] = IF j < n THEN L[j] ELSE L[j + 1]
<1> DEFINE A == SubSeq(L, 1, n - 1)
           B == SubSeq(L, n + 1, Len(L))
<1>0. Len(L) \in Nat /\ n \in Int /\ \A j \in 1 .. Len(L) : L[j] \in E
  OBVIOUS
<1>1. A \in Seq(E) /\ Len(A) = n - 1 /\ \A j \in 1 .. n - 1 : A[j] = L[j]
  BY <1>0, SubSeqProperties
<1>2. B \in Seq(E) /\ Len(B) = Len(L) - n
        /\ \A j \in 1 .. Len(L) - n : B[j] = L[n + j]
  BY <1>0, SubSeqProperties
<1> HIDE DEF A, B
<1>3. /\ A \o B \in Seq(E) /\ Len(A \o B) = Len(A) + Len(B)
      /\ \A j \in 1 .. Len(A) + Len(B) :
           (A \o B)[j] = IF j <= Len(A) THEN A[j] ELSE B[j - Len(A)]
  BY <1>1, <1>2, ConcatProperties
<1>4. RemoveAt(L, n) = A \o B
  BY DEF RemoveAt, A, B
<1>5. \A j \in 1 .. Len(L) - 1 : (A \o B)[j] = IF j < n THEN L[j] ELSE L[j + 1]
  <2> SUFFICES ASSUME NEW j \in 1 .. Len(L) - 1
               PROVE  (A \o B)[j] = IF j < n THEN L[j] ELSE L[j + 1]
    OBVIOUS
  <2>1. CASE j < n
    BY <1>0, <1>1, <1>2, <1>3, <2>1
  <2>2. CASE ~(j < n)
    <3>1. j - (n - 1) \in 1 .. Len(L) - n /\ n + (j - (n - 1)) = j + 1
      BY <1>0, <2>2
    <3>2. B[j - (n - 1)] = L[j + 1]
      BY <1>2, <3>1
    <3>3. j \in 1 .. Len(A) + Len(B) /\ ~(j <= Len(A))
      BY <1>0, <1>1, <1>2, <2>2
    <3> QED
      BY <1>1, <1>3, <2>2, <3>2, <3>3
  <2> QED
    BY <2>1, <2>2
<1>6. Len(A \o B) = Len(L) - 1
  BY <1>0, <1>1, <1>2, <1>3
<1> QED
  BY <1>3, <1>4, <1>5, <1>6

-----------------------------------------------------------------------------

GUARD == "EXCEPTION_GUARD_PAGE"
AV    == "EXCEPTION_ACCESS_VIOLATION"
STEP  == "EXCEPTION_SINGLE_STEP"

Protection == [acc : SUBSET {"x", "r", "w"}, guard : BOOLEAN]
Type       == {"BP_ACCESS", "BP_WRITE", "BP_EXEC"}
Element    == [offset : Nat, type : Type, restore : BOOLEAN, old : Protection]
Entry      == {e \in Element : PageOf(e.offset) \in Page}
Somewhere  == Page \cup {0} \cup {PageOf(Ins[c].at) : c \in Code}
Exception  == [code : {"none", STEP, GUARD, AV}, page : Somewhere]

TypeOK ==
  /\ prot \in [Page -> Protection] /\ own \in [Page -> Unguarded] /\ bps \in Seq(Entry)
  /\ th \in [ip : Code, tf : BOOLEAN, exc : Exception]
  /\ pid \in [trap : BOOLEAN, flag : {"RESTORE_NON", "RESTORE_BP_MEMORY"}]
  /\ dbg \in {"idle", "create", "run", "broke"}
  /\ open \in [Reader -> [pages : SUBSET Page, old : Protection]]
  /\ rows \subseteq SUBSET Page /\ mixed \subseteq Page /\ seen \in Nat

-----------------------------------------------------------------------------
(* A hit asks for a single step, and the flags of the process say so until *)
(* it has come.                                                            *)
StepInv ==
  /\ pid.trap <=> pid.flag = "RESTORE_BP_MEMORY"
  /\ pid.trap <=> th.tf \/ th.exc.code = STEP
  /\ ~(th.tf /\ th.exc.code = STEP)
  /\ th.exc.code = GUARD => th.exc.page = PageOf(th.ip) \/ {th.exc.page, PageOf(th.ip)} \subseteq mixed
  /\ dbg = "create" => ~pid.trap /\ th.exc.code = "none" /\ Covered = {} /\ seen = 0

Waiting == {i \in DOMAIN bps : bps[i].restore}

(* What waits was blamed for a fault of the instruction that is to be      *)
(* stepped; where nothing is mixed up it is the only one.                  *)
WaitInv ==
  /\ th.tf => \A i \in Waiting : \/ PageOf(bps[i].offset) = PageOf(th.ip)
                                 \/ PageOf(bps[i].offset) \in mixed /\ PageOf(th.ip) \in mixed
  /\ \A i, j \in Waiting : i = j \/ PageOf(bps[i].offset) \in mixed
  /\ ~pid.trap => Waiting = {} \/ Page \subseteq mixed

GuardOn(q) == th.exc.code = GUARD /\ th.exc.page = q

(* v is the protection page q has, or will have when a reader is done.     *)
PageGood(q, v) ==
  /\ On(q) = {} => v = own[q]
  /\ \A i \in On(q) :
       /\ bps[i].old = own[q] /\ (bps[i].restore => pid.trap)
       /\ v = IF bps[i].restore \/ GuardOn(q) THEN own[q]
              ELSE NewProtection(bps[i].type, own[q])

PageInv(q) ==
  /\ \A i, j \in On(q) : i = j
  /\ q \notin Covered => PageGood(q, prot[q])
  /\ \A r \in Reader : q \in open[r].pages =>
       /\ prot[q] = PAGE_READWRITE /\ PageGood(q, open[r].old)
       /\ \A s \in Reader : q \in open[s].pages => r = s

(* Since the break the thread has not left the line, and its page is as    *)
(* the program wants it.                                                   *)
SeenInv ==
  InSession /\ seen # 0 =>
    /\ seen = th.ip /\ th.tf
    /\ PageOf(th.ip) \notin mixed =>
         /\ PageOf(th.ip) \notin Covered /\ prot[PageOf(th.ip)] = own[PageOf(th.ip)]
         /\ th.exc.code # "none" => FaultsAnyway(th.ip)

MemInv ==
  /\ TypeOK /\ StepInv /\ WaitInv /\ SeenInv
  /\ dbg # "idle" => \A q \in Page \ mixed : PageInv(q)

-----------------------------------------------------------------------------
(* Pages and regions.                                                      *)

LEMMA PageBounds ==
  ASSUME NEW c \in Nat
  PROVE  PageOf(c) \in Nat /\ FirstCell(PageOf(c)) <= c /\ c < (PageOf(c) + 1) * PageSize
BY DEF PageOf, FirstCell, PageSize

LEMMA MaxOfPages ==
  ASSUME NEW S \in SUBSET Page, S # {}
  PROVE  Max(S) \in S /\ \A y \in S : Max(S) >= y
<1>1. IsFiniteSet(S) /\ S \subseteq Nat
  BY ConstantsOK, FS_Subset
<1>2. \E n \in Nat : \A x \in S : x <= n
  BY <1>1, FiniteBounded
<1>3. PICK n \in Nat : S \subseteq 0 .. n
  BY <1>1, <1>2
<1>4. S \in SUBSET (1 .. n)
  BY <1>3, ConstantsOK
<1> QED
  BY <1>4, MaxGreatest

LEMMA RegionStart ==
  ASSUME NEW q \in Page, NEW pr
  PROVE  q \in Region(q, pr) /\ Max(Region(q, pr)) \in Nat /\ Max(Region(q, pr)) >= q
<1>1. q \in Region(q, pr) /\ Region(q, pr) \in SUBSET Page
  BY ConstantsOK DEF Region
<1> QED
  BY <1>1, MaxOfPages, ConstantsOK

(* The elements of a page are in the region of each of its instructions.   *)
LEMMA PageInRegion ==
  ASSUME NEW c \in Code, NEW pr, bps \in Seq(Entry), NEW i \in On(PageOf(c))
  PROVE  i \in InRegion(c, pr)
<1>1. PICK q, m : q = PageOf(c) /\ m = Max(Region(q, pr))
  OBVIOUS
<1>2. q \in Page /\ q \in Nat /\ m \in Nat /\ m >= q
  BY <1>1, RegionStart, ConstantsOK
<1>3. i \in DOMAIN bps /\ bps[i].offset \in Nat /\ PageOf(bps[i].offset) = q
  BY <1>1 DEF On, Entry, Element
<1>4. FirstCell(q) <= bps[i].offset /\ bps[i].offset < (q + 1) * PageSize
  BY <1>3, PageBounds
<1>5. bps[i].offset <= (m + 1) * PageSize
  BY <1>2, <1>3, <1>4 DEF PageSize
<1> QED
  BY <1>1, <1>3, <1>4, <1>5 DEF InRegion, EndOfRegion

-----------------------------------------------------------------------------
(* BreakpointInit.                                                         *)

LEMMA InitDefined ==
  ASSUME NEW pr, bps \in Seq(Entry)
  PROVE  \E A : /\ A = [i \in 0 .. Len(bps) |-> IF i = 0 THEN pr ELSE wMemoryBP(bps[i], A[i - 1]).prot]
                /\ BreakpointInit(pr) = [bps  |-> [i \in DOMAIN bps |-> wMemoryBP(bps[i], A[i - 1]).bp],
                                         prot |-> A[Len(bps)]]
<1> DEFINE Is(f, n) == f = [i \in 0 .. n |-> IF i = 0 THEN pr ELSE wMemoryBP(bps[i], f[i - 1]).prot]
<1>1. Len(bps) \in Nat
  OBVIOUS
<1>2. ASSUME NEW n \in Nat PROVE \E f : Is(f, n)
  <2> DEFINE S == {m \in Nat : ~\E f : Is(f, m)}
  <2>1. SUFFICES ASSUME S # {} PROVE FALSE
    OBVIOUS
  <2>2. PICK m \in S : \A k \in S : m <= k
    BY <2>1, LeastExists
  <2>3. m # 0
    <3>1. Is([i \in 0 .. 0 |-> pr], 0)
      OBVIOUS
    <3> QED
      BY <3>1
  <2>4. m - 1 \in Nat /\ m - 1 \notin S
    <3>1. m \in Nat /\ m - 1 < m
      OBVIOUS
    <3> HIDE DEF S
    <3> QED
      BY <2>2, <2>3, <3>1
  <2>5. PICK g : Is(g, m - 1)
    BY <2>4
  <2> DEFINE f == [i \in 0 .. m |-> IF i = m THEN wMemoryBP(bps[m], g[m - 1]).prot ELSE g[i]]
  <2>6. Is(f, m)
    <3>1. \A i \in 0 .. m - 1 : f[i] = g[i]
      BY <2>4
    <3>2. \A i \in 0 .. m - 1 : g[i] = IF i = 0 THEN pr ELSE wMemoryBP(bps[i], g[i - 1]).prot
      BY <2>5
    <3>3. \A i \in 0 .. m : f[i] = IF i = 0 THEN pr ELSE wMemoryBP(bps[i], f[i - 1]).prot
      <4> SUFFICES ASSUME NEW i \in 0 .. m PROVE f[i] = IF i = 0 THEN pr ELSE wMemoryBP(bps[i], f[i - 1]).prot
        OBVIOUS
      <4>1. CASE i = m
        BY <2>3, <2>4, <3>1, <4>1
      <4>2. CASE i # m
        <5>1. i \in 0 .. m - 1 /\ (i # 0 => i - 1 \in 0 .. m - 1)
          BY <4>2
        <5> QED
          BY <3>1, <3>2, <5>1
      <4> QED
        BY <4>1, <4>2
    <3> QED
      BY <3>3
  <2> QED
    BY <2>2, <2>6
<1>3. Is(CHOOSE f : Is(f, Len(bps)), Len(bps))
  BY <1>1, <1>2
<1>4. PICK A : A = (CHOOSE f : Is(f, Len(bps)))
  OBVIOUS
<1>5. BreakpointInit(pr) = [bps  |-> [i \in DOMAIN bps |-> wMemoryBP(bps[i], A[i - 1]).bp],
                            prot |-> A[Len(bps)]]
  BY <1>4 DEF BreakpointInit
<1> QED
  BY <1>3, <1>4, <1>5

LEMMA ProtectionFacts ==
  /\ Unguarded \subseteq Protection /\ PAGE_READWRITE \in Unguarded /\ PAGE_EXECUTE_READ \in Unguarded
  /\ \A p \in Unguarded : ~p.guard
  /\ \A p, r \in Protection : p.acc = r.acc /\ p.guard = r.guard => p = r
  /\ \A p \in Protection, t \in Type : NewProtection(t, p) \in Protection
<1>1. Unguarded \subseteq Protection /\ PAGE_READWRITE \in Unguarded /\ PAGE_EXECUTE_READ \in Unguarded
  <2>1. \A a \in SUBSET {"x", "r", "w"} : Prot(a, FALSE) \in Unguarded
    BY DEF Unguarded
  <2>2. {"r", "w"} \in SUBSET {"x", "r", "w"} /\ {"x", "r"} \in SUBSET {"x", "r", "w"}
    OBVIOUS
  <2>3. PAGE_READWRITE \in Unguarded /\ PAGE_EXECUTE_READ \in Unguarded
    BY <2>1, <2>2 DEF PAGE_READWRITE, PAGE_EXECUTE_READ
  <2>4. ASSUME NEW p \in Unguarded PROVE p \in Protection
    <3>1. PICK a \in SUBSET {"x", "r", "w"} : p = [acc |-> a, guard |-> FALSE]
      BY DEF Unguarded, Prot
    <3> QED
      BY <3>1 DEF Protection
  <2> QED
    BY <2>3, <2>4
<1>2. ASSUME NEW p \in Unguarded PROVE ~p.guard
  BY DEF Unguarded, Prot
<1>4. ASSUME NEW p \in Protection, NEW r \in Protection, p.acc = r.acc, p.guard = r.guard PROVE p = r
  BY <1>4 DEF Protection
<1>3. ASSUME NEW p \in Protection, NEW t \in Type PROVE NewProtection(t, p) \in Protection
  <2>1. [p EXCEPT !.guard = TRUE] \in Protection
    BY DEF Protection
  <2> QED
    BY <1>1, <2>1 DEF NewProtection, Type
<1> QED
  BY <1>1, <1>2, <1>3, <1>4

LEMMA WriteFacts ==
  ASSUME NEW e \in Entry, NEW pr \in [Page -> Protection], NEW w, w = wMemoryBP(e, pr)
  PROVE  /\ w.bp \in Entry
         /\ w.bp.offset = e.offset /\ w.bp.type = e.type /\ w.bp.restore = e.restore
         /\ w.bp.old = pr[PageOf(e.offset)] /\ w.prot \in [Page -> Protection]
         /\ \A q \in Page : w.prot[q] = IF q = PageOf(e.offset) THEN NewProtection(e.type, pr[q])
                                                               ELSE pr[q]
<1>1. e \in Element /\ PageOf(e.offset) \in Page
  BY DEF Entry
<1>2. pr[PageOf(e.offset)] \in Protection /\ e.type \in Type
  BY <1>1 DEF Element
<1>3. PICK b : b = [e EXCEPT !.old = pr[PageOf(e.offset)]]
  OBVIOUS
<1>4. b \in Element /\ b.offset = e.offset /\ b.type = e.type /\ b.restore = e.restore
      /\ b.old = pr[PageOf(e.offset)]
  BY <1>1, <1>2, <1>3 DEF Element
<1>5. b \in Entry
  BY <1>1, <1>4 DEF Entry
<1>6. w.bp = b /\ w.prot = [pr EXCEPT ![PageOf(e.offset)] = NewProtection(e.type, @)]
  BY <1>3 DEF wMemoryBP
<1>7. NewProtection(e.type, pr[PageOf(e.offset)]) \in Protection
  BY <1>2, ProtectionFacts
<1>8. w.prot \in [Page -> Protection]
  BY <1>6, <1>7
<1>9. \A q \in Page : w.prot[q] = IF q = PageOf(e.offset) THEN NewProtection(e.type, pr[q]) ELSE pr[q]
  BY <1>6
<1> QED
  BY <1>3, <1>4, <1>5, <1>6, <1>8, <1>9

(* BreakpointInit writes the breakpoint of a page over what is there and   *)
(* saves that; a page without one stays as it is.                          *)
LEMMA InitFacts ==
  ASSUME bps \in Seq(Entry), NEW pr \in [Page -> Protection], NEW B, B = BreakpointInit(pr)
  PROVE  /\ B.prot \in [Page -> Protection] /\ B.bps \in Seq(Entry) /\ DOMAIN B.bps = DOMAIN bps
         /\ \A i \in DOMAIN bps : /\ B.bps[i].offset = bps[i].offset /\ B.bps[i].type = bps[i].type
                                  /\ B.bps[i].restore = bps[i].restore
         /\ \A q \in Page : On(q) = {} => B.prot[q] = pr[q]
         /\ \A q \in Page : \A i \in On(q) : (\A j \in On(q) : j = i) =>
              B.bps[i].old = pr[q] /\ B.prot[q] = NewProtection(bps[i].type, pr[q])
<1> DEFINE n == Len(bps)
<1>1. PICK A : /\ A = [i \in 0 .. n |-> IF i = 0 THEN pr ELSE wMemoryBP(bps[i], A[i - 1]).prot]
               /\ B = [bps |-> [i \in DOMAIN bps |-> wMemoryBP(bps[i], A[i - 1]).bp], prot |-> A[n]]
  BY InitDefined
<1>2. n \in Nat /\ DOMAIN bps = 1 .. n /\ \A i \in DOMAIN bps : bps[i] \in Entry
  OBVIOUS
<1>3. /\ A[0] = pr
      /\ \A i \in 1 .. n : A[i] = wMemoryBP(bps[i], A[i - 1]).prot
  <2> HIDE DEF n
  <2>1. \A i \in 0 .. n : A[i] = IF i = 0 THEN pr ELSE wMemoryBP(bps[i], A[i - 1]).prot
    BY <1>1
  <2>2. 0 \in 0 .. n /\ \A i \in 1 .. n : i \in 0 .. n /\ i # 0
    BY <1>2
  <2> QED
    BY <2>1, <2>2
<1> DEFINE Fits(i) ==
      /\ A[i] \in [Page -> Protection]
      /\ \A q \in Page : (\A j \in On(q) : j > i) => A[i][q] = pr[q]
      /\ \A q \in Page : \A k \in On(q) :
           (k <= i /\ \A j \in On(q) : j = k) => A[i][q] = NewProtection(bps[k].type, pr[q])
<1>4. \A q : On(q) \subseteq 1 .. n
  BY <1>2 DEF On
<1>5. ASSUME NEW i \in 1 .. n, Fits(i - 1) PROVE Fits(i)
  <2> HIDE DEF n
  <2>1. PICK e, P, w : e = bps[i] /\ P = A[i - 1] /\ w = wMemoryBP(e, P)
    OBVIOUS
  <2>2. P \in [Page -> Protection] /\ e \in Entry /\ A[i] = w.prot
    BY <1>2, <1>3, <1>5, <2>1
  <2>3. /\ A[i] \in [Page -> Protection]
        /\ \A q \in Page : A[i][q] = IF q = PageOf(e.offset) THEN NewProtection(e.type, P[q]) ELSE P[q]
    <3>1. /\ w.prot \in [Page -> Protection]
          /\ \A q \in Page : w.prot[q] = IF q = PageOf(e.offset) THEN NewProtection(e.type, P[q]) ELSE P[q]
      <4> HIDE DEF Fits
      <4> QED
        BY <2>1, <2>2, WriteFacts
    <3> QED
      BY <2>2, <3>1
  <2>4. \A q : i \in On(q) <=> q = PageOf(e.offset)
    BY <1>2, <2>1 DEF On
  <2>5. ASSUME NEW q \in Page, \A j \in On(q) : j > i PROVE A[i][q] = pr[q]
    <3>1. q # PageOf(e.offset)
      BY <2>4, <2>5
    <3>2. \A j \in On(q) : j > i - 1
      BY <1>4, <2>5
    <3>3. P[q] = pr[q]
      BY <1>5, <2>1, <3>2
    <3> QED
      BY <2>3, <3>1, <3>3
  <2>6. ASSUME NEW q \in Page, NEW k \in On(q), k <= i, \A j \in On(q) : j = k
        PROVE  A[i][q] = NewProtection(bps[k].type, pr[q])
    <3>1. CASE k = i
      <4>1. q = PageOf(e.offset) /\ \A j \in On(q) : j > i - 1
        BY <2>4, <2>6, <3>1
      <4>2. P[q] = pr[q]
        BY <1>5, <2>1, <4>1
      <4> QED
        BY <2>1, <2>3, <3>1, <4>1, <4>2
    <3>2. CASE k # i
      <4>1. k <= i - 1 /\ q # PageOf(e.offset)
        BY <1>4, <2>4, <2>6, <3>2
      <4>2. P[q] = NewProtection(bps[k].type, pr[q])
        BY <1>5, <2>1, <2>6, <4>1
      <4> QED
        BY <2>3, <4>1, <4>2
    <3> QED
      BY <3>1, <3>2
  <2> QED
    BY <2>3, <2>5, <2>6
<1>6. Fits(0)
  <2>1. \A q : \A k \in On(q) : ~(k <= 0)
    BY <1>4
  <2> QED
    BY <1>3, <2>1
<1>7. \A i \in 0 .. n : Fits(i)
  <2> DEFINE S == {i \in 0 .. n : ~Fits(i)}
  <2> HIDE DEF Fits, n
  <2>1. SUFFICES ASSUME S # {} PROVE FALSE
    OBVIOUS
  <2>2. S \in SUBSET Nat
    BY <1>2
  <2>3. PICK m \in S : \A k \in S : m <= k
    BY <2>1, <2>2, LeastExists
  <2>4. m \in 0 .. n /\ ~Fits(m) /\ m # 0
    BY <1>6, <2>3
  <2>5. m \in 1 .. n /\ m - 1 \in 0 .. n /\ m - 1 \notin S
    <3>1. m \in Nat /\ m - 1 < m
      BY <1>2, <2>4
    <3>2. m - 1 \in 0 .. n /\ m \in 1 .. n
      BY <1>2, <2>4
    <3> HIDE DEF S
    <3> QED
      BY <2>3, <3>1, <3>2
  <2> QED
    BY <1>5, <2>4, <2>5
<1>8. /\ B.prot = A[n] /\ DOMAIN B.bps = DOMAIN bps
      /\ \A i \in DOMAIN bps : B.bps[i] = wMemoryBP(bps[i], A[i - 1]).bp
  BY <1>1
<1>9. ASSUME NEW i \in DOMAIN bps
      PROVE  /\ B.bps[i] \in Entry /\ B.bps[i].offset = bps[i].offset /\ B.bps[i].type = bps[i].type
             /\ B.bps[i].restore = bps[i].restore /\ B.bps[i].old = A[i - 1][PageOf(bps[i].offset)]
  <2> HIDE DEF n
  <2>1. PICK e, P : e = bps[i] /\ P = A[i - 1]
    OBVIOUS
  <2>2. i - 1 \in 0 .. n
    BY <1>2
  <2>3. P \in [Page -> Protection] /\ e \in Entry
    BY <1>2, <1>7, <2>1, <2>2
  <2>4. PICK w : w = wMemoryBP(e, P)
    OBVIOUS
  <2>5. /\ w.bp \in Entry /\ w.bp.offset = e.offset /\ w.bp.type = e.type
        /\ w.bp.restore = e.restore /\ w.bp.old = P[PageOf(e.offset)]
    <3> HIDE DEF Fits
    <3> QED
      BY <2>3, <2>4, WriteFacts
  <2>6. B.bps[i] = w.bp
    BY <1>8, <2>1, <2>4
  <2> QED
    BY <2>1, <2>5, <2>6
<1>10. B.bps \in Seq(Entry) /\ B.prot \in [Page -> Protection]
  <2>1. B.prot \in [Page -> Protection]
    BY <1>2, <1>7, <1>8
  <2>2. B.bps = [i \in 1 .. n |-> B.bps[i]] /\ \A i \in 1 .. n : B.bps[i] \in Entry
    <3>1. B.bps = [i \in DOMAIN bps |-> wMemoryBP(bps[i], A[i - 1]).bp]
      BY <1>1
    <3>2. DOMAIN bps = 1 .. n /\ \A i \in 1 .. n : B.bps[i] \in Entry
      BY <1>2, <1>9
    <3>3. B.bps = [i \in 1 .. n |-> B.bps[i]]
      BY <3>1, <3>2
    <3> QED
      BY <3>2, <3>3
  <2> HIDE DEF n
  <2>3. B.bps \in Seq(Entry)
    BY <1>2, <2>2
  <2> QED
    BY <2>1, <2>3
<1>11. ASSUME NEW q \in Page, On(q) = {} PROVE B.prot[q] = pr[q]
  BY <1>2, <1>7, <1>8, <1>11
<1>12. ASSUME NEW q \in Page, NEW i \in On(q), \A j \in On(q) : j = i
       PROVE  B.bps[i].old = pr[q] /\ B.prot[q] = NewProtection(bps[i].type, pr[q])
  <2> HIDE DEF n
  <2>1. i \in 1 .. n /\ q = PageOf(bps[i].offset) /\ i - 1 \in 0 .. n /\ n \in 0 .. n /\ i <= n
    BY <1>2, <1>4 DEF On
  <2>2. \A j \in On(q) : j > i - 1
    BY <1>12, <2>1
  <2>3. A[i - 1][q] = pr[q]
    BY <1>7, <2>1, <2>2
  <2>4. A[n][q] = NewProtection(bps[i].type, pr[q])
    BY <1>7, <1>12, <2>1
  <2> QED
    BY <1>2, <1>8, <1>9, <2>1, <2>3, <2>4
<1> QED
  BY <1>8, <1>9, <1>10, <1>11, <1>12

-----------------------------------------------------------------------------
(* Types.                                                                  *)

LEMMA TypeFacts ==
  ASSUME TypeOK
  PROVE  /\ prot \in [Page -> Protection] /\ own \in [Page -> Unguarded] /\ own \in [Page -> Protection]
         /\ bps \in Seq(Entry) /\ th.ip \in Code /\ PageOf(th.ip) \in Page /\ th.ip \in Nat
         /\ th.exc.code \in {"none", STEP, GUARD, AV} /\ th.exc.page \in Somewhere
         /\ pid.trap \in BOOLEAN /\ th.tf \in BOOLEAN
         /\ (\A i \in DOMAIN bps : /\ bps[i] \in Entry /\ bps[i].offset \in Nat /\ bps[i].type \in Type
                                   /\ bps[i].restore \in BOOLEAN /\ bps[i].old \in Protection
                                   /\ PageOf(bps[i].offset) \in Page)
         /\ \A r \in Reader : open[r].pages \in SUBSET Page /\ open[r].old \in Protection
<1>1. own \in [Page -> Protection]
  BY ProtectionFacts DEF TypeOK
<1>2. \A i \in DOMAIN bps : bps[i] \in Entry
  BY DEF TypeOK
<1>3. \A i \in DOMAIN bps : /\ bps[i].offset \in Nat /\ bps[i].type \in Type /\ bps[i].restore \in BOOLEAN
                            /\ bps[i].old \in Protection /\ PageOf(bps[i].offset) \in Page
  BY <1>2 DEF Entry, Element
<1>4. th.ip \in Code /\ th.exc \in Exception /\ th.tf \in BOOLEAN
  BY DEF TypeOK
<1>5. PageOf(th.ip) \in Page /\ th.ip \in Nat
  BY <1>4, ConstantsOK
<1>6. th.exc.code \in {"none", STEP, GUARD, AV} /\ th.exc.page \in Somewhere
  BY <1>4 DEF Exception
<1>7. pid.trap \in BOOLEAN /\ \A r \in Reader : open[r].pages \in SUBSET Page /\ open[r].old \in Protection
  BY DEF TypeOK
<1> QED
  BY <1>1, <1>2, <1>3, <1>4, <1>5, <1>6, <1>7 DEF TypeOK

LEMMA ExceptionFacts ==
  None \in Exception /\ [code |-> STEP, page |-> 0] \in Exception /\ None.code = "none"
BY DEF None, Exception, Somewhere, STEP

(* The thread: each event gives it one of the three fields anew.           *)
LEMMA ThreadTypes ==
  ASSUME TypeOK, NEW c \in Code, NEW t \in BOOLEAN, NEW e \in Exception
  PROVE  /\ [ip |-> c, tf |-> t, exc |-> e] \in [ip : Code, tf : BOOLEAN, exc : Exception]
         /\ [th EXCEPT !.exc = e] \in [ip : Code, tf : BOOLEAN, exc : Exception]
         /\ [th EXCEPT !.ip = c, !.exc = e] \in [ip : Code, tf : BOOLEAN, exc : Exception]
         /\ [th EXCEPT !.tf = t, !.exc = e] \in [ip : Code, tf : BOOLEAN, exc : Exception]
BY DEF TypeOK

LEMMA FirstCode == Min(Code) \in Code /\ Min(Code) \in Nat
BY ConstantsOK, MinLeast

LEMMA FaultFacts ==
  ASSUME NEW c \in Code, NEW pr \in [Page -> Protection], NEW f, f = Fault(c, pr)
  PROVE  /\ f \in Exception
         /\ f # None => f.code \in {GUARD, AV}
         /\ f.code = GUARD => f.page \in Page /\ pr[f.page].guard
<1>1. \A q, acc : FaultOn(q, acc, pr) \in {"none", GUARD, AV}
  BY DEF FaultOn, GUARD, AV
<1>2. \A q, acc : FaultOn(q, acc, pr) = GUARD => q \in Page /\ pr[q].guard
  BY DEF FaultOn, GUARD
<1>3. PageOf(c) \in Somewhere /\ PageOf(Ins[c].at) \in Somewhere
  BY ConstantsOK DEF Somewhere
<1>4. PICK x, y : /\ x = FaultOn(PageOf(c), "x", pr)
                  /\ y = IF Ins[c].acc = "none" THEN "none" ELSE FaultOn(PageOf(Ins[c].at), Ins[c].acc, pr)
  OBVIOUS
<1>5. f = IF x # "none" THEN [code |-> x, page |-> PageOf(c)]
          ELSE IF y # "none" THEN [code |-> y, page |-> PageOf(Ins[c].at)] ELSE None
  BY <1>4 DEF Fault
<1>6. x \in {"none", GUARD, AV} /\ y \in {"none", GUARD, AV}
  BY <1>1, <1>4
<1>7. /\ x = GUARD => PageOf(c) \in Page /\ pr[PageOf(c)].guard
      /\ y = GUARD => PageOf(Ins[c].at) \in Page /\ pr[PageOf(Ins[c].at)].guard
  <2>1. x = GUARD => PageOf(c) \in Page /\ pr[PageOf(c)].guard
    BY <1>2, <1>4
  <2>2. y = GUARD => PageOf(Ins[c].at) \in Page /\ pr[PageOf(Ins[c].at)].guard
    BY <1>2, <1>4 DEF GUARD
  <2> QED
    BY <2>1, <2>2
<1>8. CASE x # "none"
  BY <1>3, <1>5, <1>6, <1>7, <1>8 DEF Exception, None
<1>9. CASE x = "none" /\ y # "none"
  BY <1>3, <1>5, <1>6, <1>7, <1>9 DEF Exception, None
<1>10. CASE x = "none" /\ y = "none"
  BY <1>5, <1>10, ExceptionFacts DEF GUARD
<1> QED
  BY <1>8, <1>9, <1>10

LEMMA RowsTyped == ASSUME NEW pr PROVE Regions(pr) \subseteq SUBSET Page
BY DEF Regions, Region

LEMMA InitTyped == Init => TypeOK
<1> SUFFICES ASSUME Init PROVE TypeOK
  OBVIOUS
<1>1. /\ prot = Own /\ own = Own /\ bps = <<>> /\ dbg = "idle" /\ rows = {} /\ mixed = {} /\ seen = 0
      /\ th = [ip |-> Min(Code), tf |-> FALSE, exc |-> None]
      /\ pid = [trap |-> FALSE, flag |-> "RESTORE_NON"] /\ open = [r \in Reader |-> Closed]
  BY DEF Init
<1>2. Own \in [Page -> Unguarded] /\ Own \in [Page -> Protection]
  BY ConstantsOK, ProtectionFacts
<1>3. th \in [ip : Code, tf : BOOLEAN, exc : Exception]
  BY <1>1, FirstCode, ExceptionFacts
<1>4. open \in [Reader -> [pages : SUBSET Page, old : Protection]]
  BY <1>1, ProtectionFacts DEF Closed
<1>5. pid \in [trap : BOOLEAN, flag : {"RESTORE_NON", "RESTORE_BP_MEMORY"}]
  BY <1>1
<1> QED
  BY <1>1, <1>2, <1>3, <1>4, <1>5 DEF TypeOK

LEMMA CreateTyped == ASSUME TypeOK, CreateProcess PROVE TypeOK'
<1>1. PICK B : B = BreakpointInit(Own)
  OBVIOUS
<1>2. Own \in [Page -> Unguarded] /\ Own \in [Page -> Protection]
  BY ConstantsOK, ProtectionFacts
<1>3. bps' \in Seq(Entry) /\ prot' \in [Page -> Protection] /\ own' \in [Page -> Unguarded]
  BY <1>1, <1>2, InitFacts, TypeFacts DEF CreateProcess
<1>4. th' \in [ip : Code, tf : BOOLEAN, exc : Exception]
  BY FirstCode, ExceptionFacts DEF CreateProcess
<1>5. open' \in [Reader -> [pages : SUBSET Page, old : Protection]]
  BY ProtectionFacts DEF Closed, CreateProcess
<1>6. pid' \in [trap : BOOLEAN, flag : {"RESTORE_NON", "RESTORE_BP_MEMORY"}] /\ mixed' \subseteq Page
      /\ dbg' = "create" /\ seen' = 0 /\ rows' = rows
  BY DEF CreateProcess
<1> QED
  BY <1>3, <1>4, <1>5, <1>6 DEF TypeOK

LEMMA EntryTyped == ASSUME TypeOK, EntryPoint PROVE TypeOK'
<1>1. PICK B : B = BreakpointInit(prot)
  OBVIOUS
<1>2. bps' \in Seq(Entry) /\ prot' \in [Page -> Protection]
  BY <1>1, InitFacts, TypeFacts DEF EntryPoint
<1>3. UNCHANGED <<own, th, pid, open, rows, seen>> /\ mixed' \subseteq Page /\ dbg' = "run"
  BY DEF EntryPoint, Meet, TypeOK
<1> QED
  BY <1>2, <1>3 DEF TypeOK

LEMMA ExecuteTyped == ASSUME TypeOK, Execute PROVE TypeOK'
<1>1. PICK f : f = Fault(th.ip, prot)
  OBVIOUS
<1>2. f \in Exception /\ (f.code = GUARD => f.page \in Page)
  BY <1>1, TypeFacts, FaultFacts
<1>3. CASE f = None
  <2>1. prot' = prot /\ seen' = 0 /\ UNCHANGED <<own, bps, pid, dbg, open, rows, mixed>>
    BY <1>1, <1>3 DEF Execute
  <2>2. PICK c \in Code : th' = [ip |-> c, tf |-> FALSE,
                                 exc |-> IF th.tf THEN [code |-> STEP, page |-> 0] ELSE None]
    BY <1>1, <1>3 DEF Execute, STEP
  <2>3. th' \in [ip : Code, tf : BOOLEAN, exc : Exception]
    BY <2>2, ExceptionFacts
  <2> QED
    BY <2>1, <2>3 DEF TypeOK
<1>4. CASE f # None
  <2>1. /\ seen' = seen /\ UNCHANGED <<own, bps, pid, dbg, open, rows>> /\ th' = [th EXCEPT !.exc = f]
        /\ prot' = IF f.code = GUARD THEN [prot EXCEPT ![f.page].guard = FALSE] ELSE prot
        /\ mixed' = mixed \cup IF Misplaced(f) = {} THEN {} ELSE Misplaced(f) \cup {PageOf(th.ip)}
    BY <1>1, <1>4 DEF Execute, GUARD, Meet
  <2>2. prot' \in [Page -> Protection]
    <3>1. CASE f.code = GUARD
      <4>1. prot[f.page] \in Protection
        BY <1>2, <3>1, TypeFacts
      <4>2. [prot[f.page] EXCEPT !.guard = FALSE] \in Protection
        BY <4>1 DEF Protection
      <4> QED
        BY <1>2, <2>1, <3>1, <4>2, TypeFacts
    <3> QED
      BY <2>1, <3>1, TypeFacts
  <2>3. th' \in [ip : Code, tf : BOOLEAN, exc : Exception]
    BY <1>2, <2>1 DEF TypeOK
  <2>4. mixed' \subseteq Page
    BY <2>1, TypeFacts DEF Misplaced, TypeOK
  <2> QED
    BY <2>1, <2>2, <2>3, <2>4 DEF TypeOK
<1> QED
  BY <1>3, <1>4

LEMMA ElementSet ==
  ASSUME NEW S, NEW L \in Seq(S), NEW i \in DOMAIN L, NEW x \in S
  PROVE  [L EXCEPT ![i] = x] \in Seq(S) /\ DOMAIN [L EXCEPT ![i] = x] = DOMAIN L
<1>1. PICK K : K = [L EXCEPT ![i] = x]
  OBVIOUS
<1>2. K \in [DOMAIN L -> S] /\ DOMAIN L = 1 .. Len(L) /\ Len(L) \in Nat
  BY <1>1
<1>3. K \in Seq(S)
  BY <1>2
<1> QED
  BY <1>1, <1>2, <1>3

(* An element that waits, or stops waiting.                                *)
LEMMA RestoreTyped ==
  ASSUME TypeOK, NEW i \in DOMAIN bps, NEW b \in BOOLEAN, NEW L, L = [bps EXCEPT ![i].restore = b]
  PROVE  /\ L \in Seq(Entry) /\ DOMAIN L = DOMAIN bps /\ \A j \in DOMAIN bps : j # i => L[j] = bps[j]
         /\ L[i].restore = b /\ L[i].offset = bps[i].offset /\ L[i].type = bps[i].type
         /\ L[i].old = bps[i].old
<1>1. PICK e, x : e = bps[i] /\ x = [e EXCEPT !.restore = b]
  OBVIOUS
<1>2. e \in Element /\ PageOf(e.offset) \in Page
  BY <1>1, TypeFacts DEF Entry
<1>3. x \in Element /\ x.offset = e.offset /\ x.restore = b /\ x.type = e.type /\ x.old = e.old
  BY <1>1, <1>2 DEF Element
<1>4. x \in Entry
  BY <1>2, <1>3 DEF Entry
<1>5. L = [bps EXCEPT ![i] = x]
  BY <1>1
<1>6. L \in Seq(Entry) /\ DOMAIN L = DOMAIN bps
  <2>1. bps \in Seq(Entry)
    BY TypeFacts
  <2> QED
    BY <1>4, <1>5, <2>1, ElementSet
<1>7. L[i] = x /\ \A j \in DOMAIN bps : j # i => L[j] = bps[j]
  BY <1>5
<1> QED
  BY <1>1, <1>3, <1>6, <1>7

(* The breakpoint a fault is put down to, if there is one, waits then.     *)
HitAt(k) ==
  /\ k \in DOMAIN bps /\ k \in Blamed(th.ip, prot) /\ (At(th.ip) # {} => bps[k].offset = th.ip)
  /\ bps' = [bps EXCEPT ![k].restore = TRUE]
  /\ prot' = IF th.exc.code = AV THEN [prot EXCEPT ![PageOf(th.ip)] = bps[k].old] ELSE prot
  /\ mixed' = mixed \cup ({PageOf(th.ip), PageOf(bps[k].offset)} \cap
                (Covered \cup IF PageOf(th.ip) # PageOf(bps[k].offset) THEN Page ELSE {}))

LEMMA HitFacts ==
  ASSUME TypeOK, MemoryHit
  PROVE  \/ Blamed(th.ip, prot) = {} /\ bps' = bps /\ prot' = prot /\ mixed' = mixed
         \/ \E k \in DOMAIN bps : HitAt(k)
<1>1. PICK I, k : I = Blamed(th.ip, prot) /\ k = Min(I)
  OBVIOUS
<1>2. I \in SUBSET Nat /\ I \subseteq DOMAIN bps
  BY <1>1, TypeFacts DEF Blamed, At, InRegion
<1>3. CASE I = {}
  BY <1>1, <1>3 DEF MemoryHit
<1>4. CASE I # {}
  <2>1. k \in I
    BY <1>1, <1>2, <1>4, MinLeast
  <2>2. At(th.ip) # {} => bps[k].offset = th.ip
    BY <1>1, <2>1 DEF Blamed, At
  <2>3. /\ bps' = [bps EXCEPT ![k].restore = TRUE] /\ prot' = Unprotected(bps[k])
        /\ mixed' = mixed \cup ({PageOf(th.ip), PageOf(bps[k].offset)} \cap
                      (Covered \cup IF PageOf(th.ip) # PageOf(bps[k].offset) THEN Page ELSE {}))
    BY <1>1, <1>4 DEF MemoryHit, Meet
  <2>4. prot' = IF th.exc.code = AV THEN [prot EXCEPT ![PageOf(th.ip)] = bps[k].old] ELSE prot
    BY <2>3 DEF Unprotected, AV
  <2>5. HitAt(k)
    BY <1>1, <1>2, <2>1, <2>2, <2>3, <2>4 DEF HitAt
  <2> QED
    BY <1>2, <2>1, <2>5
<1> QED
  BY <1>3, <1>4

(* The first breakpoint that waits is written again; if another one waits, *)
(* all is mixed up.                                                        *)
SetAgain(k, x) ==
  /\ k \in Waiting /\ x \in Entry /\ x.offset = bps[k].offset /\ x.type = bps[k].type
  /\ ~x.restore /\ x.old = prot[PageOf(bps[k].offset)]
  /\ bps' = [bps EXCEPT ![k] = x] /\ prot' \in [Page -> Protection]
  /\ \A q \in Page : prot'[q] = IF q = PageOf(bps[k].offset) THEN NewProtection(bps[k].type, prot[q])
                                                              ELSE prot[q]
  /\ IF Waiting = {k} THEN mixed' = mixed \cup ({PageOf(bps[k].offset)} \cap Covered)
                      ELSE mixed' = mixed \cup Page

LEMMA StepFacts ==
  ASSUME TypeOK, SingleStep
  PROVE  \/ /\ Waiting = {} \/ pid.flag # "RESTORE_BP_MEMORY"
            /\ bps' = bps /\ prot' = prot /\ mixed' = mixed
         \/ \E k \in DOMAIN bps, x \in Entry : SetAgain(k, x)
<1>1. PICK W, k, w : W = Waiting /\ k = Min(W) /\ w = wMemoryBP(bps[k], prot)
  OBVIOUS
<1>2. W \in SUBSET Nat /\ W \subseteq DOMAIN bps
  BY <1>1, TypeFacts DEF Waiting
<1>3. CASE W = {} \/ pid.flag # "RESTORE_BP_MEMORY"
  BY <1>1, <1>3 DEF SingleStep, Waiting
<1>4. CASE ~(W = {} \/ pid.flag # "RESTORE_BP_MEMORY")
  <2>1. k \in W /\ k \in DOMAIN bps
    BY <1>1, <1>2, <1>4, MinLeast
  <2>2. /\ bps' = [bps EXCEPT ![k] = [w.bp EXCEPT !.restore = FALSE]] /\ prot' = w.prot
        /\ mixed' = mixed \cup IF W = {k} THEN {PageOf(w.bp.offset)} \cap Covered ELSE Page
    BY <1>1, <1>4 DEF SingleStep, Meet, Waiting
  <2>3. PICK e, x : e = bps[k] /\ x = [w.bp EXCEPT !.restore = FALSE]
    OBVIOUS
  <2>4. e \in Entry /\ prot \in [Page -> Protection] /\ w = wMemoryBP(e, prot)
    BY <1>1, <2>1, <2>3, TypeFacts
  <2>5. /\ w.bp \in Entry /\ w.bp.offset = e.offset /\ w.bp.type = e.type
        /\ w.bp.old = prot[PageOf(e.offset)] /\ w.prot \in [Page -> Protection]
        /\ \A q \in Page : w.prot[q] = IF q = PageOf(e.offset) THEN NewProtection(e.type, prot[q])
                                                              ELSE prot[q]
    BY <2>4, WriteFacts
  <2>6. x \in Element /\ x.offset = e.offset /\ x.type = e.type /\ ~x.restore
        /\ x.old = prot[PageOf(e.offset)]
    BY <2>3, <2>5 DEF Entry, Element
  <2>7. x \in Entry
    BY <2>4, <2>6 DEF Entry
  <2>8. bps' = [bps EXCEPT ![k] = x]
    BY <2>2, <2>3
  <2>9. SetAgain(k, x)
    BY <1>1, <2>1, <2>2, <2>3, <2>5, <2>6, <2>7, <2>8 DEF SetAgain
  <2> QED
    BY <2>1, <2>7, <2>9
<1> QED
  BY <1>3, <1>4

LEMMA HitTyped == ASSUME TypeOK, MemoryHit PROVE TypeOK'
<1>1. bps' \in Seq(Entry) /\ prot' \in [Page -> Protection] /\ mixed' \subseteq Page
  <2>1. CASE bps' = bps /\ prot' = prot /\ mixed' = mixed
    BY <2>1 DEF TypeOK
  <2>2. ASSUME NEW k \in DOMAIN bps, HitAt(k)
        PROVE  bps' \in Seq(Entry) /\ prot' \in [Page -> Protection] /\ mixed' \subseteq Page
    <3>1. bps' \in Seq(Entry)
      BY <2>2, RestoreTyped DEF HitAt
    <3>2. bps[k].old \in Protection /\ PageOf(th.ip) \in Page /\ PageOf(bps[k].offset) \in Page
          /\ mixed \subseteq Page
      BY TypeFacts DEF TypeOK
    <3>3. prot' \in [Page -> Protection]
      BY <2>2, <3>2, TypeFacts DEF HitAt
    <3> QED
      BY <2>2, <3>1, <3>2, <3>3 DEF HitAt
  <2> QED
    BY <2>1, <2>2, HitFacts
<1>2. /\ th' = [th EXCEPT !.tf = TRUE, !.exc = None] /\ pid' = [trap |-> TRUE, flag |-> "RESTORE_BP_MEMORY"]
      /\ dbg' \in {dbg, "broke"} /\ seen' \in {seen, th.ip} /\ UNCHANGED <<own, open, rows>>
  BY DEF MemoryHit
<1>3. th' \in [ip : Code, tf : BOOLEAN, exc : Exception] /\ seen' \in Nat
  BY <1>2, ExceptionFacts, ThreadTypes, TypeFacts DEF TypeOK
<1> QED
  BY <1>1, <1>2, <1>3 DEF TypeOK

LEMMA StepTyped == ASSUME TypeOK, SingleStep PROVE TypeOK'
<1>1. bps' \in Seq(Entry) /\ prot' \in [Page -> Protection] /\ mixed' \subseteq Page
  <2>1. CASE bps' = bps /\ prot' = prot /\ mixed' = mixed
    BY <2>1 DEF TypeOK
  <2>2. ASSUME NEW k \in DOMAIN bps, NEW x \in Entry, SetAgain(k, x)
        PROVE  bps' \in Seq(Entry) /\ prot' \in [Page -> Protection] /\ mixed' \subseteq Page
    <3>1. bps' \in Seq(Entry)
      BY <2>2, ElementSet DEF SetAgain, TypeOK
    <3>2. PageOf(bps[k].offset) \in Page /\ mixed \subseteq Page
      BY TypeFacts DEF TypeOK
    <3> QED
      BY <2>2, <3>1, <3>2 DEF SetAgain
  <2> QED
    BY <2>1, <2>2, StepFacts
<1>2. /\ th' = [th EXCEPT !.exc = None] /\ pid' = [trap |-> FALSE, flag |-> "RESTORE_NON"]
      /\ UNCHANGED <<own, dbg, open, rows, seen>>
  BY DEF SingleStep
<1>3. th' \in [ip : Code, tf : BOOLEAN, exc : Exception]
  BY <1>2, ExceptionFacts, ThreadTypes, TypeFacts
<1> QED
  BY <1>1, <1>2, <1>3 DEF TypeOK

LEMMA ForeignTyped == ASSUME TypeOK, ForeignException PROVE TypeOK'
<1>1. PICK c \in Code : th' = [th EXCEPT !.ip = c, !.exc = None]
  BY DEF ForeignException
<1>2. th' \in [ip : Code, tf : BOOLEAN, exc : Exception]
  BY <1>1, ExceptionFacts, ThreadTypes, TypeFacts
<1> QED
  BY <1>2 DEF TypeOK, ForeignException

LEMMA ShapeFacts ==
  ASSUME NEW s \in Shape
  PROVE  /\ s.offset \in Nat /\ s.type \in Type /\ PageOf(s.offset) \in Page
         /\ [offset |-> s.offset, type |-> s.type, restore |-> FALSE, old |-> PAGE_READWRITE] \in Entry
<1>1. s.offset \in Nat /\ s.type \in Type /\ PageOf(s.offset) \in Page
  BY ConstantsOK DEF Type
<1>2. PAGE_READWRITE \in Protection
  BY ProtectionFacts
<1> QED
  BY <1>1, <1>2 DEF Entry, Element

(* A new element saves the protection of its page and changes it.          *)
Added(s, x) ==
  /\ x \in Entry /\ x.offset = s.offset /\ x.type = s.type /\ ~x.restore
  /\ x.old = prot[PageOf(s.offset)] /\ bps' = Append(bps, x) /\ prot' \in [Page -> Protection]
  /\ \A q \in Page : prot'[q] = IF q = PageOf(s.offset) THEN NewProtection(s.type, prot[q]) ELSE prot[q]

LEMMA AddFacts == ASSUME TypeOK, NEW s \in Shape, BreakpointAdd(s) PROVE \E x \in Entry : Added(s, x)
<1>1. PICK e, w : /\ e = [offset |-> s.offset, type |-> s.type, restore |-> FALSE, old |-> PAGE_READWRITE]
                  /\ w = wMemoryBP(e, prot)
  OBVIOUS
<1>2. e \in Entry /\ prot \in [Page -> Protection] /\ w = wMemoryBP(e, prot)
  BY <1>1, ShapeFacts, TypeFacts
<1>3. /\ w.bp \in Entry /\ w.bp.offset = e.offset /\ w.bp.type = e.type /\ w.bp.restore = e.restore
      /\ w.bp.old = prot[PageOf(e.offset)] /\ w.prot \in [Page -> Protection]
      /\ \A q \in Page : w.prot[q] = IF q = PageOf(e.offset) THEN NewProtection(e.type, prot[q])
                                                            ELSE prot[q]
  BY <1>2, WriteFacts
<1>4. e.offset = s.offset /\ e.type = s.type /\ e.restore = FALSE
  BY <1>1
<1>5. bps' = Append(bps, w.bp) /\ prot' = w.prot
  BY <1>1 DEF BreakpointAdd
<1> QED
  BY <1>3, <1>4, <1>5 DEF Added

LEMMA AddTyped == ASSUME TypeOK, NEW s \in Shape, BreakpointAdd(s) PROVE TypeOK'
<1>1. PICK x \in Entry : Added(s, x)
  BY AddFacts
<1>2. bps' \in Seq(Entry) /\ prot' \in [Page -> Protection]
  BY <1>1 DEF Added, TypeOK
<1>3. mixed' \subseteq Page /\ seen' = 0 /\ UNCHANGED <<own, th, pid, dbg, open, rows>>
  BY ShapeFacts DEF BreakpointAdd, Meet, Edit, TypeOK
<1> QED
  BY <1>2, <1>3 DEF TypeOK

(* What is left keeps its order.                                           *)
Removed(k) ==
  /\ k \in DOMAIN bps /\ bps' \in Seq(Entry)
  /\ prot' = [prot EXCEPT ![PageOf(bps[k].offset)] = bps[k].old]
  /\ \A j \in DOMAIN bps' : IF j < k THEN j \in DOMAIN bps /\ bps'[j] = bps[j]
                                    ELSE j + 1 \in DOMAIN bps /\ bps'[j] = bps[j + 1]
  /\ \A j \in DOMAIN bps : IF j < k THEN j \in DOMAIN bps' /\ bps'[j] = bps[j]
                                   ELSE j > k => j - 1 \in DOMAIN bps' /\ bps'[j - 1] = bps[j]

LEMMA RemoveFacts ==
  ASSUME TypeOK, NEW c, BreakpointRemove(c)
  PROVE  \E k \in DOMAIN bps : Removed(k) /\ bps[k].offset = c
<1>1. PICK k : k = Min(At(c))
  OBVIOUS
<1>2. At(c) \in SUBSET Nat /\ At(c) \subseteq DOMAIN bps /\ At(c) # {}
  BY TypeFacts DEF At, BreakpointRemove
<1>3. k \in DOMAIN bps /\ bps[k].offset = c
  BY <1>1, <1>2, MinLeast DEF At
<1>4. bps' = RemoveAt(bps, k) /\ prot' = [prot EXCEPT ![PageOf(bps[k].offset)] = bps[k].old]
  BY <1>1 DEF BreakpointRemove, dMemoryBP
<1>5. PICK K, n : K = bps' /\ n = Len(bps)
  OBVIOUS
<1>6. bps \in Seq(Entry) /\ n \in Nat /\ k \in 1 .. n /\ DOMAIN bps = 1 .. n
  BY <1>3, <1>5, TypeFacts
<1>7. /\ K \in Seq(Entry) /\ Len(K) = n - 1
      /\ \A j \in 1 .. n - 1 : K[j] = IF j < k THEN bps[j] ELSE bps[j + 1]
  BY <1>4, <1>5, <1>6, RemoveAtProperties
<1>8. DOMAIN K = 1 .. n - 1
  BY <1>7
<1>9. \A j \in DOMAIN K : IF j < k THEN j \in DOMAIN bps /\ K[j] = bps[j]
                                  ELSE j + 1 \in DOMAIN bps /\ K[j] = bps[j + 1]
  BY <1>6, <1>7, <1>8
<1>10. \A j \in DOMAIN bps : IF j < k THEN j \in DOMAIN K /\ K[j] = bps[j]
                                     ELSE j > k => j - 1 \in DOMAIN K /\ K[j - 1] = bps[j]
  BY <1>6, <1>7, <1>8
<1>11. Removed(k)
  BY <1>3, <1>4, <1>5, <1>7, <1>9, <1>10 DEF Removed
<1> QED
  BY <1>3, <1>11

LEMMA RemoveTyped == ASSUME TypeOK, NEW c, BreakpointRemove(c) PROVE TypeOK'
<1>1. PICK k \in DOMAIN bps : Removed(k) /\ bps[k].offset = c
  BY RemoveFacts
<1>2. bps[k].old \in Protection /\ PageOf(c) \in Page
  BY <1>1, TypeFacts
<1>3. bps' \in Seq(Entry) /\ prot' \in [Page -> Protection]
  BY <1>1, <1>2, TypeFacts DEF Removed
<1>4. mixed' \subseteq Page /\ seen' = 0 /\ UNCHANGED <<own, th, pid, dbg, open, rows>>
  BY <1>2 DEF BreakpointRemove, Meet, Edit, TypeOK
<1> QED
  BY <1>3, <1>4 DEF TypeOK

LEMMA PageSetTyped ==
  ASSUME TypeOK, NEW row \in SUBSET Page, NEW pr \in Unguarded, SetPageProtection(row, pr)
  PROVE  TypeOK'
<1>1. pr \in Protection
  BY ProtectionFacts
<1>2. prot' = [q \in Page |-> IF q \in row THEN pr ELSE prot[q]]
      /\ own' = [q \in Page |-> IF q \in row THEN pr ELSE own[q]]
  BY DEF SetPageProtection
<1>3. prot' \in [Page -> Protection] /\ own' \in [Page -> Unguarded]
  BY <1>1, <1>2, TypeFacts
<1>4. rows' \subseteq SUBSET Page
  BY RowsTyped DEF SetPageProtection
<1>5. mixed' \subseteq Page /\ seen' = 0 /\ UNCHANGED <<bps, th, pid, dbg, open>>
  BY DEF SetPageProtection, Meet, Edit, TypeOK
<1> QED
  BY <1>3, <1>4, <1>5 DEF TypeOK

(* What opening a protector does, and closing one.                         *)
Opened(r, Q) ==
  /\ Q \in SUBSET Page /\ Q # {} /\ InSession /\ open[r] = Closed
  /\ open' = [open EXCEPT ![r] = [pages |-> Q, old |-> prot[Min(Q)]]]
  /\ prot' = [q \in Page |-> IF q \in Q THEN PAGE_READWRITE ELSE prot[q]]
  /\ mixed' = mixed \cup {q \in Q : q \in Busy \/ prot[q] # prot[Min(Q)]}
  /\ seen' = 0 /\ UNCHANGED <<own, bps, th, pid, dbg, rows>>

LEMMA OpenFacts ==
  ASSUME TypeOK, NEW r \in Reader, NEW Q \in SUBSET Page, Protect(r, Q)
  PROVE  Opened(r, Q) /\ Min(Q) \in Q
<1>1. Q \in SUBSET Nat /\ Q # {}
  BY ConstantsOK DEF Protect
<1> QED
  BY <1>1, MinLeast DEF Protect, Opened, Meet, Edit

LEMMA OpenTyped ==
  ASSUME TypeOK, NEW r \in Reader, NEW Q \in SUBSET Page, Protect(r, Q)
  PROVE  TypeOK'
<1>1. Opened(r, Q) /\ Min(Q) \in Q
  BY OpenFacts
<1>2. PICK o : o = prot[Min(Q)]
  OBVIOUS
<1>3. o \in Protection
  BY <1>1, <1>2, TypeFacts
<1>4. open' = [open EXCEPT ![r] = [pages |-> Q, old |-> o]]
  BY <1>1, <1>2 DEF Opened
<1>5. open' \in [Reader -> [pages : SUBSET Page, old : Protection]]
  BY <1>3, <1>4 DEF TypeOK
<1>6. prot' \in [Page -> Protection]
  BY <1>1, ProtectionFacts, TypeFacts DEF Opened
<1> QED
  BY <1>1, <1>5, <1>6 DEF Opened, TypeOK

LEMMA CloseTyped == ASSUME TypeOK, NEW r \in Reader, Unprotect(r) PROVE TypeOK'
<1>1. Closed \in [pages : SUBSET Page, old : Protection]
  BY ProtectionFacts DEF Closed
<1>2. open' \in [Reader -> [pages : SUBSET Page, old : Protection]]
  BY <1>1 DEF Unprotect, TypeOK
<1>3. prot' \in [Page -> Protection]
  BY TypeFacts DEF Unprotect
<1>4. mixed' \subseteq Page /\ seen' = 0 /\ UNCHANGED <<own, bps, th, pid, dbg, rows>>
  BY TypeFacts DEF Unprotect, Meet, TypeOK
<1> QED
  BY <1>2, <1>3, <1>4 DEF TypeOK

(* The readers and the menu of the memory view.                            *)
LEMMA ReadFacts ==
  ASSUME TypeOK, OnCustomContextMenuRequested \/ \E q \in Page : DisassemblerReads(q)
  PROVE  \/ \E r \in Reader, Q \in SUBSET Page : Protect(r, Q)
         \/ \E row \in SUBSET Page, pr \in Unguarded : SetPageProtection(row, pr)
<1>1. ASSUME NEW q \in Page, DisassemblerReads(q)
      PROVE  \E r \in Reader, Q \in SUBSET Page : Protect(r, Q)
  <2>1. "disassembler" \in Reader /\ Protect("disassembler", Region(q, prot))
    BY <1>1 DEF DisassemblerReads
  <2>2. Region(q, prot) \in SUBSET Page
    BY DEF Region
  <2> QED
    BY <2>1, <2>2
<1>2. ASSUME NEW row \in rows, MenuCallback(row)
      PROVE  \/ \E r \in Reader, Q \in SUBSET Page : Protect(r, Q)
             \/ \E ro \in SUBSET Page, pr \in Unguarded : SetPageProtection(ro, pr)
  <2>1. row \in SUBSET Page
    BY DEF TypeOK
  <2>2. CASE MemDump(row)
    BY <2>1, <2>2 DEF MemDump
  <2>3. CASE \E pr \in Menu : SetPageProtection(row, pr)
    BY <2>1, <2>3, ConstantsOK
  <2> QED
    BY <1>2, <2>2, <2>3 DEF MenuCallback
<1> QED
  BY <1>1, <1>2 DEF OnCustomContextMenuRequested

LEMMA NextTyped == TypeOK /\ [Next]_vars => TypeOK'
<1> SUFFICES ASSUME TypeOK, [Next]_vars PROVE TypeOK'
  OBVIOUS
<1>1. CASE CreateProcess \/ EntryPoint \/ Execute \/ MemoryHit \/ SingleStep \/ ForeignException
  BY <1>1, CreateTyped, EntryTyped, ExecuteTyped, HitTyped, StepTyped, ForeignTyped
<1>2. CASE ExitProcess
  BY <1>2 DEF ExitProcess, TypeOK
<1>3. CASE ResumeDebugging
  BY <1>3 DEF ResumeDebugging, TypeOK
<1>4. CASE DisplayMemory
  BY <1>4, RowsTyped DEF DisplayMemory, TypeOK
<1>5. ASSUME NEW s \in Shape, BreakpointAdd(s) \/ BreakpointRemove(s.offset) PROVE TypeOK'
  BY <1>5, AddTyped, RemoveTyped
<1>6. CASE OnCustomContextMenuRequested \/ \E q \in Page : DisassemblerReads(q)
  BY <1>6, ReadFacts, OpenTyped, PageSetTyped
<1>7. ASSUME NEW r \in Reader, Unprotect(r) PROVE TypeOK'
  BY <1>7, CloseTyped
<1>8. CASE UNCHANGED vars
  BY <1>8 DEF vars, TypeOK
<1> QED
  BY <1>1, <1>2, <1>3, <1>4, <1>5, <1>6, <1>7, <1>8 DEF Next, Loop, GUI, Reads

(* Whatever the pages, the program, the breakpoints and the readers are,   *)
(* protections, the list, the thread and the protectors keep their types.  *)
THEOREM Typed == Spec => []TypeOK
<1> QED
  BY InitTyped, NextTyped, PTL DEF Spec

-----------------------------------------------------------------------------
(* Flags and steps.                                                        *)

LEMMA InitStep == Init => StepInv
BY DEF Init, StepInv, None, STEP, GUARD

(* A guard is the debugger's.                                              *)
LEMMA GuardPage ==
  ASSUME TypeOK, NEW f, f = Fault(th.ip, prot), f.code = GUARD, f.page # PageOf(th.ip)
  PROVE  f.page \in Misplaced(f)
<1>1. f.page \in Page /\ prot[f.page].guard
  BY TypeFacts, FaultFacts
<1>2. ~own[f.page].guard
  BY <1>1, ProtectionFacts, TypeFacts
<1> QED
  BY <1>1, <1>2 DEF Misplaced

LEMMA NextStepInv == TypeOK /\ StepInv /\ [Next]_vars => StepInv'
<1> SUFFICES ASSUME TypeOK, StepInv, [Next]_vars PROVE StepInv'
  OBVIOUS
<1>1. CASE UNCHANGED <<th, pid, dbg, open, seen, mixed>>
  BY <1>1 DEF StepInv, Covered
<1>2. ASSUME UNCHANGED <<th, pid, dbg>>, mixed \subseteq mixed', dbg # "create" PROVE StepInv'
  BY <1>2 DEF StepInv
<1>3. CASE CreateProcess
  <2>1. th' = [ip |-> Min(Code), tf |-> FALSE, exc |-> None] /\ seen' = 0
        /\ pid' = [trap |-> FALSE, flag |-> "RESTORE_NON"] /\ open' = [r \in Reader |-> Closed]
    BY <1>3 DEF CreateProcess
  <2>2. Covered' = {}
    BY <2>1 DEF Covered, Closed
  <2> QED
    BY <2>1, <2>2 DEF StepInv, None, STEP, GUARD
<1>4. CASE EntryPoint
  BY <1>4 DEF EntryPoint, StepInv, Meet
<1>5. CASE ExitProcess
  BY <1>5 DEF ExitProcess, StepInv
<1>6. CASE Execute
  <2>1. PICK f : f = Fault(th.ip, prot)
    OBVIOUS
  <2>2. f \in Exception /\ (f # None => f.code \in {GUARD, AV})
        /\ (f.code = GUARD => f.page = PageOf(th.ip) \/ f.page \in Misplaced(f))
    BY <2>1, TypeFacts, FaultFacts, GuardPage
  <2>3. dbg' = "run" /\ pid' = pid /\ th.exc.code = "none"
    BY <1>6 DEF Execute, None
  <2>4. CASE f = None
    <3>1. PICK c \in Code : th' = [ip |-> c, tf |-> FALSE,
                                   exc |-> IF th.tf THEN [code |-> STEP, page |-> 0] ELSE None]
      BY <1>6, <2>1, <2>4 DEF Execute, STEP
    <3> QED
      BY <2>3, <3>1 DEF StepInv, None, STEP, GUARD
  <2>5. CASE f # None
    <3>1. /\ th' = [th EXCEPT !.exc = f]
          /\ mixed' = mixed \cup IF Misplaced(f) = {} THEN {} ELSE Misplaced(f) \cup {PageOf(th.ip)}
      BY <1>6, <2>1, <2>5 DEF Execute, Meet
    <3>2. th'.exc = f /\ th'.tf = th.tf /\ th'.ip = th.ip
      BY <3>1 DEF TypeOK
    <3>3. f.code # STEP /\ STEP # "none"
      BY <2>2, <2>5 DEF GUARD, AV, STEP
    <3>4. f.code = GUARD => f.page = PageOf(th.ip) \/ {f.page, PageOf(th.ip)} \subseteq mixed'
      BY <2>2, <3>1
    <3> QED
      BY <2>3, <3>2, <3>3, <3>4 DEF StepInv
  <2> QED
    BY <2>4, <2>5
<1>7. CASE MemoryHit
  <2>1. th' = [th EXCEPT !.tf = TRUE, !.exc = None] /\ dbg = "run" /\ dbg' \in {dbg, "broke"}
        /\ pid' = [trap |-> TRUE, flag |-> "RESTORE_BP_MEMORY"]
    BY <1>7 DEF MemoryHit
  <2>2. th'.tf /\ th'.exc = None
    BY <2>1 DEF TypeOK
  <2> QED
    BY <2>1, <2>2 DEF StepInv, None, STEP, GUARD
<1>8. CASE SingleStep
  <2>1. th' = [th EXCEPT !.exc = None] /\ dbg = "run" /\ dbg' = dbg /\ th.exc.code = STEP
        /\ pid' = [trap |-> FALSE, flag |-> "RESTORE_NON"]
    BY <1>8 DEF SingleStep, STEP
  <2>2. th'.tf = th.tf /\ th'.exc = None
    BY <2>1 DEF TypeOK
  <2> QED
    BY <2>1, <2>2 DEF StepInv, None, STEP, GUARD
<1>9. CASE ForeignException
  <2>1. PICK c \in Code : th' = [th EXCEPT !.ip = c, !.exc = None]
    BY <1>9 DEF ForeignException
  <2>2. th'.tf = th.tf /\ th'.exc = None
    BY <2>1 DEF TypeOK
  <2>3. dbg = "run" /\ dbg' = dbg /\ pid' = pid /\ th.exc.code \in {GUARD, AV}
    BY <1>9 DEF ForeignException, MemoryFault, GUARD, AV
  <2> QED
    BY <2>2, <2>3 DEF StepInv, None, STEP, GUARD, AV
<1>10. CASE ResumeDebugging
  BY <1>10 DEF ResumeDebugging, StepInv
<1>11. CASE DisplayMemory
  BY <1>1, <1>11 DEF DisplayMemory
<1>12. ASSUME NEW s \in Shape, BreakpointAdd(s) \/ BreakpointRemove(s.offset) PROVE StepInv'
  BY <1>2, <1>12 DEF BreakpointAdd, BreakpointRemove, InSession, Meet
<1>13. CASE OnCustomContextMenuRequested \/ \E q \in Page : DisassemblerReads(q)
  BY <1>2, <1>13, ReadFacts DEF Protect, SetPageProtection, InSession, Meet
<1>14. ASSUME NEW r \in Reader, Unprotect(r) PROVE StepInv'
  <2>1. UNCHANGED <<th, pid, dbg>> /\ mixed \subseteq mixed'
    BY <1>14 DEF Unprotect, Meet
  <2>2. CASE dbg = "create"
    <3>1. open[r].pages = {}
      BY <2>2 DEF StepInv, Covered
    <3>2. seen' = 0 /\ open' = [open EXCEPT ![r] = Closed]
      BY <1>14 DEF Unprotect
    <3>3. \A s \in Reader : open'[s].pages \subseteq open[s].pages
      BY <3>2 DEF TypeOK, Closed
    <3>4. Covered' \subseteq Covered
      BY <3>3 DEF Covered
    <3> QED
      BY <2>1, <3>2, <3>4 DEF StepInv
  <2> QED
    BY <1>2, <2>1, <2>2
<1>15. CASE UNCHANGED vars
  BY <1>1, <1>15 DEF vars
<1> QED
  BY <1>3, <1>4, <1>5, <1>6, <1>7, <1>8, <1>9, <1>10, <1>11, <1>12, <1>13, <1>14, <1>15
     DEF Next, Loop, GUI, Reads

-----------------------------------------------------------------------------
(* Pages.                                                                  *)

PagesOK == dbg # "idle" => \A q \in Page \ mixed : PageInv(q)

(* Page q has the elements it had.                                         *)
KeepsElements(q) ==
  /\ On(q)' = {} => On(q) = {}
  /\ \A i \in On(q)' : \E j \in On(q) : bps'[i] = bps[j]
  /\ \A i, j \in On(q)' : i = j

LEMMA SameElements ==
  ASSUME NEW q, \A i, j \in On(q) : i = j, bps' = bps PROVE KeepsElements(q)
BY DEF KeepsElements, On

(* Page q has the readers it had.                                          *)
KeepsReaders(q) ==
  \A r \in Reader : /\ q \in open'[r].pages <=> q \in open[r].pages
                    /\ q \in open[r].pages => open'[r].old = open[r].old

(* What page q waits for is still to come, and no guard of a breakpoint    *)
(* has been raised or answered.                                            *)
KeepsFlags(q) ==
  /\ pid.trap => pid'.trap \/ \A i \in On(q) : ~bps[i].restore
  /\ On(q) = {} \/ (GuardOn(q)' <=> GuardOn(q))

LEMMA GoodStays ==
  ASSUME NEW q, NEW v, PageGood(q, v), KeepsElements(q), own'[q] = own[q], KeepsFlags(q)
  PROVE  PageGood(q, v)'
<1>1. On(q)' = {} => v = own'[q]
  BY DEF PageGood, KeepsElements
<1>2. ASSUME NEW i \in On(q)'
      PROVE  /\ bps'[i].old = own'[q] /\ (bps'[i].restore => pid'.trap)
             /\ v = IF bps'[i].restore \/ GuardOn(q)' THEN own'[q]
                    ELSE NewProtection(bps'[i].type, own'[q])
  <2>1. PICK j \in On(q) : bps'[i] = bps[j]
    BY DEF KeepsElements
  <2>2. GuardOn(q)' <=> GuardOn(q)
    BY <2>1 DEF KeepsFlags
  <2>3. bps[j].restore => pid'.trap
    BY DEF PageGood, KeepsFlags
  <2> QED
    BY <2>1, <2>2, <2>3 DEF PageGood
<1> QED
  BY <1>1, <1>2 DEF PageGood

LEMMA PageStays ==
  ASSUME NEW q, PageInv(q), KeepsElements(q), KeepsReaders(q), KeepsFlags(q),
         own'[q] = own[q], prot'[q] = prot[q]
  PROVE  PageInv(q)'
<1>1. \A i, j \in On(q)' : i = j
  BY DEF KeepsElements
<1>2. q \in Covered' <=> q \in Covered
  BY DEF Covered, KeepsReaders
<1>3. ASSUME q \notin Covered PROVE PageGood(q, prot[q])'
  <2>1. PICK v : v = prot[q]
    OBVIOUS
  <2>2. PageGood(q, v)
    BY <1>3, <2>1 DEF PageInv
  <2>3. PageGood(q, v)'
    BY <2>2, GoodStays
  <2> QED
    BY <2>1, <2>3
<1>4. ASSUME NEW r \in Reader, q \in open[r].pages
      PROVE  /\ prot'[q] = PAGE_READWRITE /\ PageGood(q, open[r].old)'
             /\ \A s \in Reader : q \in open'[s].pages => r = s
  <2>1. PICK v : v = open[r].old
    OBVIOUS
  <2>2. PageGood(q, v) /\ open'[r].old = v
    BY <1>4, <2>1 DEF PageInv, KeepsReaders
  <2>3. PageGood(q, v)'
    BY <2>2, GoodStays
  <2>4. PageGood(q, open[r].old)'
    BY <2>2, <2>3
  <2> QED
    BY <1>4, <2>4 DEF PageInv, KeepsReaders
<1>5. \A r \in Reader : q \in open'[r].pages => q \in open[r].pages
  BY DEF KeepsReaders
<1> QED
  BY <1>1, <1>2, <1>3, <1>4, <1>5 DEF PageInv

LEMMA PagesCreate == ASSUME TypeOK, CreateProcess, NEW q \in Page \ mixed' PROVE PageInv(q)'
<1>1. PICK B : B = BreakpointInit(Own)
  OBVIOUS
<1>2. /\ bps' = B.bps /\ prot' = B.prot /\ own' = Own /\ open' = [r \in Reader |-> Closed]
      /\ th' = [ip |-> Min(Code), tf |-> FALSE, exc |-> None]
      /\ mixed' = IF \E i \in DOMAIN bps : bps[i].restore THEN Page
                  ELSE {p \in Page : \E i, j \in On(p) : i # j}
  BY <1>1 DEF CreateProcess
<1>3. Own \in [Page -> Protection] /\ bps \in Seq(Entry)
  BY ConstantsOK, ProtectionFacts, TypeFacts
<1>4. /\ DOMAIN B.bps = DOMAIN bps
      /\ \A i \in DOMAIN bps : /\ B.bps[i].offset = bps[i].offset /\ B.bps[i].type = bps[i].type
                               /\ B.bps[i].restore = bps[i].restore
      /\ On(q) = {} => B.prot[q] = Own[q]
      /\ \A i \in On(q) : (\A j \in On(q) : j = i) =>
           B.bps[i].old = Own[q] /\ B.prot[q] = NewProtection(bps[i].type, Own[q])
  BY <1>1, <1>3, InitFacts
<1>5. (\A i \in DOMAIN bps : ~bps[i].restore) /\ \A i, j \in On(q) : i = j
  BY <1>2
<1>6. On(q)' = On(q) /\ \A i \in On(q) : i \in DOMAIN bps
  BY <1>2, <1>4 DEF On
<1>7. q \notin Covered' /\ \A r \in Reader : q \notin open'[r].pages
  BY <1>2 DEF Covered, Closed
<1>8. ~GuardOn(q)'
  BY <1>2 DEF GuardOn, None, GUARD
<1>9. PageGood(q, prot[q])'
  <2>1. On(q)' = {} => prot'[q] = own'[q]
    BY <1>2, <1>4, <1>6
  <2>2. ASSUME NEW i \in On(q)'
        PROVE  /\ bps'[i].old = own'[q] /\ ~bps'[i].restore
               /\ prot'[q] = NewProtection(bps'[i].type, own'[q])
    BY <1>2, <1>4, <1>5, <1>6
  <2> QED
    BY <1>8, <2>1, <2>2 DEF PageGood
<1> QED
  BY <1>5, <1>6, <1>7, <1>9 DEF PageInv

LEMMA PagesEntry ==
  ASSUME TypeOK, StepInv, PagesOK, EntryPoint, NEW q \in Page \ mixed' PROVE PageInv(q)'
<1>1. PICK B : B = BreakpointInit(prot)
  OBVIOUS
<1>2. /\ bps' = B.bps /\ prot' = B.prot /\ own' = own /\ open' = open /\ th' = th /\ pid' = pid
      /\ mixed' = mixed \cup {p \in Page : On(p) # {}} /\ dbg = "create"
  BY <1>1 DEF EntryPoint, Meet
<1>3. /\ DOMAIN B.bps = DOMAIN bps /\ \A i \in DOMAIN bps : B.bps[i].offset = bps[i].offset
      /\ On(q) = {} => B.prot[q] = prot[q]
  BY <1>1, InitFacts, TypeFacts
<1>4. On(q) = {} /\ On(q)' = {} /\ PageInv(q)
  BY <1>2, <1>3 DEF On, PagesOK
<1>5. KeepsElements(q) /\ KeepsReaders(q) /\ KeepsFlags(q) /\ prot'[q] = prot[q]
  BY <1>2, <1>3, <1>4 DEF KeepsElements, KeepsReaders, KeepsFlags
<1> QED
  BY <1>2, <1>4, <1>5, PageStays

LEMMA NewGuarded ==
  ASSUME NEW p \in Unguarded, NEW t \in Type, NEW r, r = NewProtection(t, p), r.guard
  PROVE  [r EXCEPT !.guard = FALSE] = p
<1>1. t = "BP_ACCESS" /\ r = [p EXCEPT !.guard = TRUE]
  BY ProtectionFacts DEF NewProtection, Type
<1>2. p \in Protection /\ ~p.guard
  BY ProtectionFacts
<1>3. r \in Protection /\ r.acc = p.acc
  BY <1>1, <1>2 DEF Protection
<1>4. PICK n : n = [r EXCEPT !.guard = FALSE]
  OBVIOUS
<1>5. n \in Protection /\ n.acc = p.acc /\ ~n.guard
  BY <1>3, <1>4 DEF Protection
<1>6. n.guard = p.guard
  BY <1>2, <1>5 DEF Protection
<1>7. n = p
  BY <1>2, <1>5, <1>6, ProtectionFacts
<1> QED
  BY <1>4, <1>7

LEMMA PagesExecute ==
  ASSUME TypeOK, StepInv, PagesOK, Execute, NEW q \in Page \ mixed' PROVE PageInv(q)'
<1>1. PICK f : f = Fault(th.ip, prot)
  OBVIOUS
<1>2. f \in Exception /\ (f.code = GUARD => f.page \in Page /\ prot[f.page].guard)
  BY <1>1, TypeFacts, FaultFacts
<1>3. /\ bps' = bps /\ own' = own /\ open' = open /\ pid' = pid /\ mixed \subseteq mixed'
      /\ dbg = "run" /\ th.exc.code = "none"
  BY DEF Execute, None, Meet
<1>4. PageInv(q) /\ ~GuardOn(q)
  BY <1>3 DEF PagesOK, GuardOn, GUARD
<1>5. KeepsElements(q) /\ KeepsReaders(q) /\ (~GuardOn(q)' => KeepsFlags(q))
  BY <1>3, <1>4, SameElements DEF PageInv, KeepsReaders, KeepsFlags
<1>6. CASE f = None
  <2>1. prot' = prot /\ ~GuardOn(q)'
    BY <1>1, <1>6 DEF Execute, GuardOn, None, GUARD
  <2> QED
    BY <1>3, <1>4, <1>5, <2>1, PageStays
<1>7. CASE f # None
  <2>1. th' = [th EXCEPT !.exc = f]
        /\ prot' = IF f.code = GUARD THEN [prot EXCEPT ![f.page].guard = FALSE] ELSE prot
    BY <1>1, <1>7 DEF Execute, GUARD
  <2>2. th'.exc = f
    BY <2>1 DEF TypeOK
  <2>3. CASE ~(f.code = GUARD /\ f.page = q)
    <3>1. ~GuardOn(q)' /\ prot'[q] = prot[q]
      BY <1>2, <2>1, <2>2, <2>3, TypeFacts DEF GuardOn
    <3> QED
      BY <1>3, <1>4, <1>5, <3>1, PageStays
  <2>4. CASE f.code = GUARD /\ f.page = q
    <3>1. GuardOn(q)' /\ prot'[q] = [prot[q] EXCEPT !.guard = FALSE] /\ prot[q].guard
      BY <1>2, <2>1, <2>2, <2>4, TypeFacts DEF GuardOn
    <3>2. own[q] \in Unguarded /\ ~own[q].guard /\ ~PAGE_READWRITE.guard
      BY ProtectionFacts, TypeFacts
    <3>3. q \notin Covered
      BY <1>4, <3>1, <3>2 DEF PageInv, Covered
    <3>4. PageGood(q, prot[q])
      BY <1>4, <3>3 DEF PageInv
    <3>5. On(q) # {} /\ \A i \in On(q) : ~bps[i].restore /\ prot[q] = NewProtection(bps[i].type, own[q])
      BY <1>4, <3>1, <3>2, <3>4 DEF PageGood
    <3>6. prot'[q] = own[q]
      <4>1. PICK i \in On(q) : prot[q] = NewProtection(bps[i].type, own[q])
        BY <3>5
      <4>2. bps[i].type \in Type
        BY TypeFacts DEF On
      <4> QED
        BY <3>1, <3>2, <4>1, <4>2, NewGuarded
    <3>7. On(q)' = On(q) /\ Covered' = Covered
      BY <1>3 DEF On, Covered
    <3>8. PageGood(q, prot[q])'
      BY <1>3, <3>1, <3>4, <3>5, <3>6, <3>7 DEF PageGood
    <3>9. \A r \in Reader : q \notin open'[r].pages
      BY <1>3, <3>3 DEF Covered
    <3> QED
      BY <1>4, <3>7, <3>8, <3>9 DEF PageInv
  <2> QED
    BY <2>3, <2>4
<1> QED
  BY <1>6, <1>7

LEMMA HitElements ==
  ASSUME TypeOK, NEW k \in DOMAIN bps, bps' = [bps EXCEPT ![k].restore = TRUE], NEW q
  PROVE  /\ On(q)' = On(q)
         /\ k \notin On(q) /\ (\A i, j \in On(q) : i = j) => KeepsElements(q)
<1>1. /\ DOMAIN bps' = DOMAIN bps /\ bps'[k].offset = bps[k].offset
      /\ \A j \in DOMAIN bps : j # k => bps'[j] = bps[j]
  BY RestoreTyped
<1>2. On(q)' = On(q)
  BY <1>1 DEF On
<1> QED
  BY <1>1, <1>2 DEF KeepsElements, On

(* A hit is on a page of its own: the page gets what its breakpoint saved, *)
(* or has lost the guard.                                                  *)
LEMMA PagesHit ==
  ASSUME TypeOK, StepInv, PagesOK, MemoryHit, NEW q \in Page \ mixed' PROVE PageInv(q)'
<1>1. /\ th' = [th EXCEPT !.tf = TRUE, !.exc = None] /\ pid'.trap /\ own' = own /\ open' = open
      /\ dbg = "run" /\ th.exc.code \in {GUARD, AV}
  BY DEF MemoryHit, MemoryFault, GUARD, AV
<1>2. ~GuardOn(q)'
  <2>1. th'.exc = None
    BY <1>1 DEF TypeOK
  <2> QED
    BY <2>1 DEF GuardOn, None, GUARD
<1>3. GuardOn(q) => q = PageOf(th.ip)
  <2>1. q \notin mixed
    BY DEF MemoryHit, Meet
  <2> QED
    BY <2>1 DEF GuardOn, StepInv
<1>4. KeepsReaders(q) /\ (On(q) = {} \/ ~GuardOn(q) => KeepsFlags(q))
  BY <1>1, <1>2 DEF KeepsReaders, KeepsFlags
<1>5. CASE Blamed(th.ip, prot) = {} /\ bps' = bps /\ prot' = prot /\ mixed' = mixed
  <2>1. On(PageOf(th.ip)) = {}
    BY <1>5, PageInRegion, TypeFacts DEF Blamed
  <2>2. PageInv(q)
    BY <1>1, <1>5 DEF PagesOK
  <2>3. KeepsElements(q) /\ KeepsFlags(q)
    BY <1>3, <1>4, <1>5, <2>1, <2>2, SameElements DEF PageInv
  <2> QED
    BY <1>1, <1>4, <1>5, <2>2, <2>3, PageStays
<1>6. ASSUME NEW k \in DOMAIN bps, HitAt(k) PROVE PageInv(q)'
  <2>1. PICK p, m : p = PageOf(th.ip) /\ m = PageOf(bps[k].offset)
    OBVIOUS
  <2>2. /\ bps' = [bps EXCEPT ![k].restore = TRUE]
        /\ prot' = IF th.exc.code = AV THEN [prot EXCEPT ![p] = bps[k].old] ELSE prot
        /\ mixed' = mixed \cup ({p, m} \cap (Covered \cup IF p # m THEN Page ELSE {}))
    BY <1>6, <2>1 DEF HitAt
  <2>3. PageInv(q) /\ p \in Page
    BY <1>1, <2>1, <2>2, TypeFacts DEF PagesOK
  <2>4. CASE q \notin {p, m}
    <3>1. prot'[q] = prot[q]
      BY <2>2, <2>4, TypeFacts
    <3>2. k \notin On(q)
      BY <2>1, <2>4 DEF On
    <3>3. KeepsElements(q) /\ KeepsFlags(q)
      BY <1>3, <1>4, <2>1, <2>2, <2>3, <2>4, <3>2, HitElements DEF PageInv
    <3> QED
      BY <1>1, <1>4, <2>3, <3>1, <3>3, PageStays
  <2>5. CASE q \in {p, m}
    <3>1. q = p /\ q = m /\ q \notin Covered
      BY <2>2, <2>5
    <3>2. On(q) = {k} /\ PageGood(q, prot[q])
      BY <2>1, <2>3, <3>1 DEF On, PageInv
    <3>3. bps[k].old = own[q] /\ prot'[q] = own[q]
      <4>1. bps[k].old = own[q]
        BY <3>2 DEF PageGood
      <4>2. CASE th.exc.code = AV
        BY <2>2, <2>3, <3>1, <4>1, <4>2, TypeFacts
      <4>3. CASE th.exc.code = GUARD
        <5>1. GuardOn(q) /\ prot' = prot
          BY <2>1, <2>2, <3>1, <4>3 DEF GuardOn, StepInv, GUARD, AV
        <5> QED
          BY <3>2, <4>1, <5>1 DEF PageGood
      <4> QED
        BY <1>1, <4>1, <4>2, <4>3
    <3>4. On(q)' = {k} /\ bps'[k].restore /\ bps'[k].old = own[q]
      <4>1. On(q)' = On(q)
        BY <2>2, HitElements
      <4>2. bps'[k].restore = TRUE /\ bps'[k].old = bps[k].old
        BY <2>2, RestoreTyped
      <4> QED
        BY <3>2, <3>3, <4>1, <4>2
    <3>5. PageGood(q, prot[q])'
      BY <1>1, <1>2, <3>3, <3>4 DEF PageGood
    <3>6. \A r \in Reader : q \notin open'[r].pages
      BY <1>1, <3>1 DEF Covered
    <3>7. q \notin Covered'
      BY <3>6 DEF Covered
    <3> QED
      BY <3>4, <3>5, <3>6, <3>7 DEF PageInv
  <2> QED
    BY <2>4, <2>5
<1> QED
  BY <1>5, <1>6, HitFacts

(* The step arms the one breakpoint that waits.                            *)
LEMMA PagesStep ==
  ASSUME TypeOK, StepInv, PagesOK, SingleStep, NEW q \in Page \ mixed' PROVE PageInv(q)'
<1>1. /\ th' = [th EXCEPT !.exc = None] /\ ~pid'.trap /\ own' = own /\ open' = open
      /\ dbg = "run" /\ th.exc.code = STEP /\ pid.flag = "RESTORE_BP_MEMORY"
  BY DEF SingleStep, StepInv, STEP
<1>2. ~GuardOn(q) /\ ~GuardOn(q)'
  <2>1. th'.exc = None
    BY <1>1 DEF TypeOK
  <2> QED
    BY <1>1, <2>1 DEF GuardOn, None, GUARD, STEP
<1>3. KeepsReaders(q) /\ ((\A i \in On(q) : ~bps[i].restore) => KeepsFlags(q))
  BY <1>1, <1>2 DEF KeepsReaders, KeepsFlags
<1>4. CASE Waiting = {} /\ bps' = bps /\ prot' = prot /\ mixed' = mixed
  <2>1. PageInv(q)
    BY <1>1, <1>4 DEF PagesOK
  <2>2. KeepsElements(q) /\ KeepsFlags(q)
    BY <1>3, <1>4, <2>1, SameElements DEF PageInv, Waiting, On
  <2> QED
    BY <1>1, <1>3, <1>4, <2>1, <2>2, PageStays
<1>5. ASSUME NEW k \in DOMAIN bps, NEW x \in Entry, SetAgain(k, x) PROVE PageInv(q)'
  <2>1. PICK m : m = PageOf(bps[k].offset)
    OBVIOUS
  <2>2. /\ Waiting = {k} /\ mixed' = mixed \cup ({m} \cap Covered) /\ PageOf(x.offset) = m
        /\ bps[k].restore /\ ~x.restore /\ x.old = prot[m] /\ x.type = bps[k].type
        /\ prot'[q] = IF q = m THEN NewProtection(x.type, prot[q]) ELSE prot[q]
    BY <1>5, <2>1 DEF SetAgain, Waiting
  <2>3. DOMAIN bps' = DOMAIN bps /\ bps'[k] = x /\ \A j \in DOMAIN bps : j # k => bps'[j] = bps[j]
    BY <1>5 DEF SetAgain
  <2>4. PageInv(q) /\ On(q)' = On(q)
    BY <1>1, <2>1, <2>2, <2>3 DEF PagesOK, On
  <2>5. CASE q # m
    <3>1. k \notin On(q) /\ \A i \in On(q) : i \in DOMAIN bps
      BY <2>1, <2>5 DEF On
    <3>2. KeepsElements(q)
      BY <2>3, <2>4, <3>1 DEF KeepsElements, PageInv
    <3>3. KeepsFlags(q)
      BY <1>3, <2>2, <3>1 DEF Waiting
    <3> QED
      BY <1>1, <1>3, <2>2, <2>4, <2>5, <3>2, <3>3, PageStays
  <2>6. CASE q = m
    <3>1. q \notin Covered
      BY <2>2, <2>6
    <3>2. On(q) = {k} /\ PageGood(q, prot[q])
      BY <2>1, <2>4, <2>6, <3>1 DEF On, PageInv
    <3>3. prot[q] = own[q]
      BY <2>2, <3>2 DEF PageGood
    <3>4. PageGood(q, prot[q])'
      BY <1>1, <1>2, <2>2, <2>3, <2>4, <2>6, <3>2, <3>3 DEF PageGood
    <3>5. \A r \in Reader : q \notin open'[r].pages
      BY <1>1, <3>1 DEF Covered
    <3>6. q \notin Covered'
      BY <3>5 DEF Covered
    <3> QED
      BY <2>4, <3>2, <3>4, <3>5, <3>6 DEF PageInv
  <2> QED
    BY <2>5, <2>6
<1> QED
  BY <1>1, <1>4, <1>5, StepFacts

LEMMA PagesForeign ==
  ASSUME TypeOK, StepInv, PagesOK, ForeignException, NEW q \in Page \ mixed' PROVE PageInv(q)'
<1>1. PICK c \in Code : th' = [th EXCEPT !.ip = c, !.exc = None]
  BY DEF ForeignException
<1>2. /\ dbg = "run" /\ UNCHANGED <<prot, own, bps, pid, open, mixed>> /\ InRegion(th.ip, prot) = {}
  BY DEF ForeignException, IsBP
<1>3. PageInv(q) /\ On(PageOf(th.ip)) = {}
  BY <1>2, PageInRegion, TypeFacts DEF PagesOK
<1>4. th'.exc = None
  BY <1>1 DEF TypeOK
<1>5. ~GuardOn(q)' /\ (GuardOn(q) => q = PageOf(th.ip))
  BY <1>2, <1>4 DEF GuardOn, None, GUARD, StepInv
<1>6. KeepsElements(q) /\ KeepsReaders(q) /\ KeepsFlags(q)
  BY <1>2, <1>3, <1>5, SameElements DEF PageInv, KeepsReaders, KeepsFlags
<1> QED
  BY <1>2, <1>3, <1>6, PageStays

LEMMA PagesAdd ==
  ASSUME TypeOK, PagesOK, NEW s \in Shape, BreakpointAdd(s), NEW q \in Page \ mixed'
  PROVE  PageInv(q)'
<1>1. PICK x \in Entry : Added(s, x)
  BY AddFacts
<1>2. PICK m : m = PageOf(s.offset)
  OBVIOUS
<1>3. /\ UNCHANGED <<own, th, pid, open>> /\ dbg # "idle"
      /\ mixed' = mixed \cup IF On(m) # {} \/ m \in Busy THEN {m} ELSE {}
  BY <1>2 DEF BreakpointAdd, Meet, InSession
<1>4. /\ PageOf(x.offset) = m /\ ~x.restore /\ x.old = prot[m] /\ bps' = Append(bps, x)
      /\ prot'[q] = IF q = m THEN NewProtection(x.type, prot[q]) ELSE prot[q]
  BY <1>1, <1>2 DEF Added
<1>5. PICK n : n = Len(bps)
  OBVIOUS
<1>6. /\ n \in Nat /\ DOMAIN bps = 1 .. n /\ DOMAIN bps' = 1 .. n + 1 /\ bps'[n + 1] = x
      /\ \A j \in 1 .. n : bps'[j] = bps[j]
  BY <1>4, <1>5, TypeFacts
<1>7. PageInv(q) /\ GuardOn(q)' = GuardOn(q) /\ Covered' = Covered
  BY <1>3 DEF PagesOK, GuardOn, Covered
<1>8. CASE q # m
  <2>1. On(q)' = On(q) /\ On(q) \subseteq 1 .. n
    BY <1>4, <1>6, <1>8 DEF On
  <2>2. KeepsElements(q)
    BY <1>6, <1>7, <2>1 DEF KeepsElements, PageInv
  <2>3. KeepsReaders(q) /\ KeepsFlags(q)
    BY <1>3, <1>7 DEF KeepsReaders, KeepsFlags
  <2> QED
    BY <1>3, <1>4, <1>7, <1>8, <2>2, <2>3, PageStays
<1>9. CASE q = m
  <2>1. On(q) = {} /\ q \notin Covered /\ ~GuardOn(q)
    <3>1. On(q) = {} /\ q \notin Busy
      BY <1>3, <1>9
    <3> QED
      BY <3>1 DEF Busy, GuardOn, MemoryFault, GUARD
  <2>2. prot[q] = own[q]
    BY <1>7, <2>1 DEF PageInv, PageGood
  <2>3. On(q)' = {n + 1}
    <3>1. n + 1 \in On(q)'
      BY <1>4, <1>6, <1>9 DEF On
    <3>2. \A j \in On(q)' : j = n + 1
      BY <1>6, <2>1 DEF On
    <3> QED
      BY <3>1, <3>2
  <2>4. PageGood(q, prot[q])'
    BY <1>3, <1>4, <1>6, <1>7, <1>9, <2>1, <2>2, <2>3 DEF PageGood
  <2>5. q \notin Covered' /\ \A r \in Reader : q \notin open'[r].pages
    BY <1>3, <1>7, <2>1 DEF Covered
  <2> QED
    BY <2>3, <2>4, <2>5 DEF PageInv
<1> QED
  BY <1>8, <1>9

LEMMA PagesRemove ==
  ASSUME TypeOK, PagesOK, NEW c, BreakpointRemove(c), NEW q \in Page \ mixed' PROVE PageInv(q)'
<1>1. PICK k \in DOMAIN bps : Removed(k) /\ bps[k].offset = c
  BY RemoveFacts
<1>2. PICK m : m = PageOf(c)
  OBVIOUS
<1>3. UNCHANGED <<own, th, pid, open>> /\ dbg # "idle" /\ mixed' = mixed \cup ({m} \cap Busy)
  BY <1>2 DEF BreakpointRemove, Meet, InSession
<1>4. /\ prot'[q] = IF q = m THEN bps[k].old ELSE prot[q]
      /\ \A j \in DOMAIN bps' : IF j < k THEN j \in DOMAIN bps /\ bps'[j] = bps[j]
                                        ELSE j + 1 \in DOMAIN bps /\ bps'[j] = bps[j + 1]
      /\ \A j \in DOMAIN bps : IF j < k THEN j \in DOMAIN bps' /\ bps'[j] = bps[j]
                                       ELSE j > k => j - 1 \in DOMAIN bps' /\ bps'[j - 1] = bps[j]
  BY <1>1, <1>2, TypeFacts DEF Removed
<1>5. k \in Nat /\ DOMAIN bps \subseteq Nat /\ DOMAIN bps' \subseteq Nat
  BY <1>1, TypeFacts DEF Removed
<1>6. PageInv(q) /\ GuardOn(q)' = GuardOn(q) /\ Covered' = Covered
  BY <1>3 DEF PagesOK, GuardOn, Covered
<1>7. \A i \in On(q)' : /\ i \in Nat
                        /\ IF i < k THEN i \in On(q) /\ bps'[i] = bps[i]
                                    ELSE i + 1 \in On(q) /\ bps'[i] = bps[i + 1]
  BY <1>4, <1>5 DEF On
<1>8. CASE q # m
  <2>1. k \notin On(q)
    BY <1>1, <1>2, <1>8 DEF On
  <2>2. \A j \in On(q) : \E i : i \in On(q)'
    <3> SUFFICES ASSUME NEW j \in On(q) PROVE \E i : i \in On(q)'
      OBVIOUS
    <3>1. j \in DOMAIN bps /\ j # k /\ j \in Nat /\ PageOf(bps[j].offset) = q
      BY <1>5, <2>1 DEF On
    <3>2. \E i \in DOMAIN bps' : bps'[i] = bps[j]
      BY <1>4, <1>5, <3>1
    <3> QED
      BY <3>1, <3>2 DEF On
  <2>3. \A i, j \in On(q)' : i = j
    <3> SUFFICES ASSUME NEW i \in On(q)', NEW j \in On(q)', i < j PROVE FALSE
      BY <1>7
    <3>1. (IF i < k THEN i ELSE i + 1) = (IF j < k THEN j ELSE j + 1)
      BY <1>6, <1>7 DEF PageInv
    <3> QED
      BY <1>5, <1>7, <3>1
  <2>4. KeepsElements(q)
    BY <1>7, <2>2, <2>3 DEF KeepsElements
  <2>5. KeepsReaders(q) /\ KeepsFlags(q)
    BY <1>3, <1>6 DEF KeepsReaders, KeepsFlags
  <2> QED
    BY <1>3, <1>4, <1>6, <1>8, <2>4, <2>5, PageStays
<1>9. CASE q = m
  <2>1. On(q) = {k} /\ q \notin Covered
    <3>1. q \notin Busy /\ k \in On(q)
      BY <1>1, <1>2, <1>3, <1>9 DEF On
    <3> QED
      BY <1>6, <3>1 DEF Busy, PageInv
  <2>2. bps[k].old = own[q]
    BY <1>6, <2>1 DEF PageInv, PageGood
  <2>3. On(q)' = {}
    BY <1>5, <1>7, <2>1
  <2>4. PageGood(q, prot[q])'
    BY <1>3, <1>4, <1>9, <2>2, <2>3 DEF PageGood
  <2>5. q \notin Covered' /\ \A r \in Reader : q \notin open'[r].pages
    BY <1>3, <1>6, <2>1 DEF Covered
  <2> QED
    BY <2>3, <2>4, <2>5 DEF PageInv
<1> QED
  BY <1>8, <1>9

LEMMA PagesMenu ==
  ASSUME TypeOK, PagesOK, NEW row \in SUBSET Page, NEW pr, SetPageProtection(row, pr),
         NEW q \in Page \ mixed'
  PROVE  PageInv(q)'
<1>1. /\ UNCHANGED <<bps, th, pid, open>> /\ dbg # "idle"
      /\ mixed' = mixed \cup {p \in row : On(p) # {} \/ p \in Busy}
      /\ prot'[q] = IF q \in row THEN pr ELSE prot[q]
      /\ own'[q] = IF q \in row THEN pr ELSE own[q]
  BY DEF SetPageProtection, Meet, InSession
<1>2. PageInv(q) /\ GuardOn(q)' = GuardOn(q) /\ Covered' = Covered /\ On(q)' = On(q)
  BY <1>1 DEF PagesOK, GuardOn, Covered, On
<1>3. CASE q \notin row
  <2>1. KeepsElements(q) /\ KeepsReaders(q) /\ KeepsFlags(q)
    BY <1>1, <1>2, SameElements DEF PageInv, KeepsReaders, KeepsFlags
  <2> QED
    BY <1>1, <1>2, <1>3, <2>1, PageStays
<1>4. CASE q \in row
  <2>1. On(q) = {} /\ q \notin Covered
    BY <1>1, <1>4 DEF Busy
  <2>2. PageGood(q, prot[q])'
    BY <1>1, <1>2, <1>4, <2>1 DEF PageGood
  <2>3. q \notin Covered' /\ \A r \in Reader : q \notin open'[r].pages
    BY <1>1, <1>2, <2>1 DEF Covered
  <2> QED
    BY <1>2, <2>1, <2>2, <2>3 DEF PageInv
<1> QED
  BY <1>3, <1>4

LEMMA PagesOpen ==
  ASSUME TypeOK, PagesOK, NEW r \in Reader, NEW Q \in SUBSET Page, Protect(r, Q),
         NEW q \in Page \ mixed'
  PROVE  PageInv(q)'
<1>1. Opened(r, Q) /\ Min(Q) \in Q
  BY OpenFacts
<1>2. PICK o : o = prot[Min(Q)]
  OBVIOUS
<1>3. /\ UNCHANGED <<own, bps, th, pid>> /\ dbg # "idle" /\ open[r].pages = {}
      /\ mixed' = mixed \cup {p \in Q : p \in Busy \/ prot[p] # o}
      /\ prot'[q] = IF q \in Q THEN PAGE_READWRITE ELSE prot[q]
  BY <1>1, <1>2 DEF Opened, InSession, Closed
<1>4. /\ open'[r].pages = Q /\ open'[r].old = o
      /\ \A s \in Reader : s # r => open'[s] = open[s]
  BY <1>1, <1>2 DEF Opened, TypeOK
<1>5. PageInv(q) /\ GuardOn(q)' = GuardOn(q)
  BY <1>3 DEF PagesOK, GuardOn
<1>6. KeepsElements(q) /\ KeepsFlags(q)
  BY <1>3, <1>5, SameElements DEF PageInv, KeepsFlags
<1>7. CASE q \notin Q
  <2>1. KeepsReaders(q)
    BY <1>3, <1>4, <1>7 DEF KeepsReaders
  <2> QED
    BY <1>3, <1>5, <1>6, <1>7, <2>1, PageStays
<1>8. CASE q \in Q
  <2>1. q \notin Covered /\ prot[q] = o
    BY <1>3, <1>8 DEF Busy
  <2>2. PageGood(q, o)
    BY <1>5, <2>1 DEF PageInv
  <2>3. PageGood(q, o)'
    BY <1>3, <1>6, <2>2, GoodStays
  <2>4. PICK n : n = open'[r].old
    OBVIOUS
  <2>5. n = o
    BY <1>4, <2>4
  <2>6. PageGood(q, open[r].old)'
    BY <1>4, <2>3
  <2>7. \A s \in Reader : q \in open'[s].pages => s = r
    BY <1>4, <2>1 DEF Covered
  <2>8. q \in Covered'
    BY <1>4, <1>8 DEF Covered
  <2>9. \A i, j \in On(q)' : i = j
    BY <1>6 DEF KeepsElements
  <2>10. \A s \in Reader : q \in open'[s].pages =>
           /\ prot'[q] = PAGE_READWRITE /\ PageGood(q, open[s].old)'
           /\ \A t \in Reader : q \in open'[t].pages => s = t
    BY <1>3, <1>8, <2>6, <2>7
  <2> QED
    BY <2>8, <2>9, <2>10 DEF PageInv
<1> QED
  BY <1>7, <1>8

LEMMA PagesClose ==
  ASSUME TypeOK, StepInv, PagesOK, NEW r \in Reader, Unprotect(r), dbg # "idle", NEW q \in Page \ mixed'
  PROVE  PageInv(q)'
<1>1. /\ UNCHANGED <<own, bps, th, pid>> /\ open' = [open EXCEPT ![r] = Closed]
      /\ mixed' = mixed \cup (open[r].pages \cap UNION {open[s].pages : s \in Reader \ {r}})
      /\ prot'[q] = IF InSession /\ q \in open[r].pages THEN open[r].old ELSE prot[q]
  BY TypeFacts DEF Unprotect, Meet
<1>2. open'[r].pages = {} /\ \A s \in Reader : s # r => open'[s] = open[s]
  BY <1>1 DEF Closed, TypeOK
<1>3. PageInv(q) /\ GuardOn(q)' = GuardOn(q)
  BY <1>1 DEF PagesOK, GuardOn
<1>4. KeepsElements(q) /\ KeepsFlags(q)
  BY <1>1, <1>3, SameElements DEF PageInv, KeepsFlags
<1>5. CASE q \notin open[r].pages
  <2>1. KeepsReaders(q)
    BY <1>2, <1>5 DEF KeepsReaders
  <2> QED
    BY <1>1, <1>3, <1>4, <1>5, <2>1, PageStays
<1>6. CASE q \in open[r].pages
  <2>1. InSession
    <3>1. dbg # "create"
      BY <1>6 DEF StepInv, Covered
    <3> QED
      BY <3>1 DEF InSession, TypeOK
  <2>2. PICK o : o = open[r].old
    OBVIOUS
  <2>3. PageGood(q, o) /\ prot'[q] = o
    BY <1>1, <1>3, <1>6, <2>1, <2>2 DEF PageInv
  <2>4. PageGood(q, o)'
    BY <1>1, <1>4, <2>3, GoodStays
  <2>5. PageGood(q, prot[q])'
    BY <2>3, <2>4
  <2>6. \A s \in Reader : q \notin open'[s].pages
    BY <1>1, <1>2, <1>6
  <2>7. \A i, j \in On(q)' : i = j
    BY <1>4 DEF KeepsElements
  <2> QED
    BY <2>5, <2>6, <2>7 DEF PageInv
<1> QED
  BY <1>5, <1>6

LEMMA NextPages == TypeOK /\ StepInv /\ PagesOK /\ [Next]_vars => PagesOK'
<1> SUFFICES ASSUME TypeOK, StepInv, PagesOK, [Next]_vars, dbg' # "idle", NEW q \in Page \ mixed'
             PROVE  PageInv(q)'
  BY DEF PagesOK
<1>1. ASSUME UNCHANGED <<prot, own, bps, th, pid, open, mixed>>, dbg # "idle" PROVE PageInv(q)'
  <2>1. PageInv(q) /\ GuardOn(q)' = GuardOn(q)
    BY <1>1 DEF PagesOK, GuardOn
  <2>2. KeepsElements(q) /\ KeepsReaders(q) /\ KeepsFlags(q)
    BY <1>1, <2>1, SameElements DEF PageInv, KeepsReaders, KeepsFlags
  <2> QED
    BY <1>1, <2>1, <2>2, PageStays
<1>2. CASE CreateProcess
  BY <1>2, PagesCreate
<1>3. CASE EntryPoint \/ Execute \/ MemoryHit \/ SingleStep \/ ForeignException
  BY <1>3, PagesEntry, PagesExecute, PagesHit, PagesStep, PagesForeign
<1>4. CASE ExitProcess
  BY <1>4 DEF ExitProcess
<1>5. CASE ResumeDebugging
  BY <1>1, <1>5 DEF ResumeDebugging
<1>6. CASE DisplayMemory
  BY <1>1, <1>6 DEF DisplayMemory, InSession
<1>7. ASSUME NEW s \in Shape, BreakpointAdd(s) \/ BreakpointRemove(s.offset) PROVE PageInv(q)'
  BY <1>7, PagesAdd, PagesRemove
<1>8. CASE OnCustomContextMenuRequested \/ \E p \in Page : DisassemblerReads(p)
  BY <1>8, ReadFacts, PagesOpen, PagesMenu
<1>9. ASSUME NEW r \in Reader, Unprotect(r) PROVE PageInv(q)'
  <2>1. dbg' = dbg
    BY <1>9 DEF Unprotect
  <2> QED
    BY <1>9, <2>1, PagesClose
<1>10. CASE UNCHANGED vars
  BY <1>1, <1>10 DEF vars
<1> QED
  BY <1>2, <1>3, <1>4, <1>5, <1>6, <1>7, <1>8, <1>9, <1>10 DEF Next, Loop, GUI, Reads

-----------------------------------------------------------------------------
(* Waiting breakpoints.                                                    *)

(* Each that waits is one that waited, f[i], and the thread still has to   *)
(* do its step.                                                            *)
LEMMA WaitStays ==
  ASSUME WaitInv, mixed \subseteq mixed', pid'.trap = pid.trap, th'.tf => th.tf /\ th'.ip = th.ip,
         NEW f, \A i \in Waiting' : f[i] \in Waiting /\ bps'[i].offset = bps[f[i]].offset,
         \A i, j \in Waiting' : f[i] = f[j] => i = j
  PROVE  WaitInv'
<1>1. ASSUME th'.tf, NEW i \in Waiting'
      PROVE  \/ PageOf(bps'[i].offset) = PageOf(th'.ip)
             \/ PageOf(bps'[i].offset) \in mixed' /\ PageOf(th'.ip) \in mixed'
  BY <1>1 DEF WaitInv
<1>2. ASSUME NEW i \in Waiting', NEW j \in Waiting' PROVE i = j \/ PageOf(bps'[i].offset) \in mixed'
  BY DEF WaitInv
<1>3. ~pid'.trap => Waiting' = {} \/ Page \subseteq mixed'
  BY DEF WaitInv
<1> QED
  BY <1>1, <1>2, <1>3 DEF WaitInv

LEMMA WaitSame ==
  ASSUME WaitInv, mixed \subseteq mixed', pid'.trap = pid.trap, th'.tf => th.tf /\ th'.ip = th.ip,
         \A i \in Waiting' : i \in Waiting /\ bps'[i].offset = bps[i].offset
  PROVE  WaitInv'
<1>1. PICK f : f = [i \in Waiting' |-> i]
  OBVIOUS
<1>2. \A i \in Waiting' : f[i] = i
  BY <1>1
<1> QED
  BY <1>2, WaitStays

LEMMA WaitHit == ASSUME TypeOK, StepInv, WaitInv, PagesOK, MemoryHit PROVE WaitInv'
<1>1. PICK p : p = PageOf(th.ip)
  OBVIOUS
<1>2. /\ th' = [th EXCEPT !.tf = TRUE, !.exc = None] /\ pid'.trap
      /\ dbg = "run" /\ th.exc.code \in {GUARD, AV}
  BY DEF MemoryHit, MemoryFault, GUARD, AV
<1>3. th'.tf /\ th'.ip = th.ip
  BY <1>2 DEF TypeOK
<1>4. \A i \in Waiting : \/ PageOf(bps[i].offset) = p
                         \/ PageOf(bps[i].offset) \in mixed /\ p \in mixed
  <2>1. CASE pid.trap
    <3>1. th.tf
      BY <1>2, <2>1 DEF StepInv, GUARD, AV, STEP
    <3> QED
      BY <1>1, <2>1, <3>1 DEF WaitInv
  <2>2. CASE ~pid.trap
    <3>1. \A i \in Waiting : PageOf(bps[i].offset) \in Page
      BY TypeFacts DEF Waiting
    <3> QED
      BY <1>1, <2>2, <3>1, TypeFacts DEF WaitInv
  <2> QED
    BY <2>1, <2>2
<1>5. CASE bps' = bps /\ mixed' = mixed
  <2>1. Waiting' = Waiting
    BY <1>5 DEF Waiting
  <2> QED
    BY <1>1, <1>2, <1>3, <1>4, <1>5, <2>1 DEF WaitInv
<1>6. ASSUME NEW k \in DOMAIN bps, HitAt(k) PROVE WaitInv'
  <2>1. PICK m : m = PageOf(bps[k].offset)
    OBVIOUS
  <2>2. /\ bps' = [bps EXCEPT ![k].restore = TRUE] /\ m \in Page /\ p \in Page
        /\ mixed' = mixed \cup ({p, m} \cap (Covered \cup IF p # m THEN Page ELSE {}))
    BY <1>1, <1>6, <2>1, TypeFacts DEF HitAt
  <2>3. /\ DOMAIN bps' = DOMAIN bps /\ bps'[k].offset = bps[k].offset
        /\ \A j \in DOMAIN bps : j # k => bps'[j] = bps[j]
    BY <2>2, RestoreTyped
  <2>4. \A j \in Waiting' : j = k \/ j \in Waiting
    BY <2>3 DEF Waiting
  <2>5. \A j \in Waiting' : PageOf(bps'[j].offset) = PageOf(bps[j].offset)
    BY <2>3 DEF Waiting
  <2>6. \A j \in Waiting' : \/ PageOf(bps'[j].offset) = p
                            \/ PageOf(bps'[j].offset) \in mixed' /\ p \in mixed'
    BY <1>4, <2>1, <2>2, <2>4, <2>5
  <2>7. ASSUME NEW j \in Waiting, j # k
        PROVE  m \in mixed' /\ PageOf(bps[j].offset) \in mixed'
    <3>1. CASE p # m
      BY <1>4, <2>2, <3>1
    <3>2. CASE p = m
      <4>1. CASE PageOf(bps[j].offset) = p
        <5>1. j \in On(p) /\ k \in On(p)
          BY <2>1, <3>2, <4>1 DEF On, Waiting
        <5>2. p \in mixed
          BY <1>2, <2>2, <2>7, <5>1 DEF PagesOK, PageInv
        <5> QED
          BY <2>2, <3>2, <4>1, <5>2
      <4>2. CASE PageOf(bps[j].offset) # p
        BY <1>4, <2>2, <3>2, <4>2
      <4> QED
        BY <4>1, <4>2
    <3> QED
      BY <3>1, <3>2
  <2>8. \A i, j \in Waiting' : i = j \/ PageOf(bps'[i].offset) \in mixed'
    <3> SUFFICES ASSUME NEW i \in Waiting', NEW j \in Waiting', i # j
                 PROVE  PageOf(bps'[i].offset) \in mixed'
      OBVIOUS
    <3>1. CASE i = k
      BY <2>1, <2>4, <2>5, <2>7, <3>1
    <3>2. CASE i # k
      BY <2>4, <2>5, <2>7, <3>2
    <3> QED
      BY <3>1, <3>2
  <2> QED
    BY <1>1, <1>2, <1>3, <2>6, <2>8 DEF WaitInv
<1> QED
  BY <1>5, <1>6, HitFacts

LEMMA WaitStep == ASSUME TypeOK, StepInv, WaitInv, SingleStep PROVE WaitInv'
<1>1. /\ th' = [th EXCEPT !.exc = None] /\ ~pid'.trap /\ th.exc.code = STEP
      /\ pid.flag = "RESTORE_BP_MEMORY" /\ ~th.tf
  BY DEF SingleStep, StepInv, STEP
<1>2. ~th'.tf
  BY <1>1 DEF TypeOK
<1>3. CASE Waiting = {} /\ bps' = bps
  <2>1. Waiting' = {}
    BY <1>3 DEF Waiting
  <2> QED
    BY <1>2, <2>1 DEF WaitInv
<1>4. ASSUME NEW k \in DOMAIN bps, NEW x \in Entry, SetAgain(k, x) PROVE WaitInv'
  <2>1. DOMAIN bps' = DOMAIN bps /\ bps'[k] = x /\ ~x.restore
        /\ \A j \in DOMAIN bps : j # k => bps'[j] = bps[j]
    BY <1>4 DEF SetAgain
  <2>2. CASE Waiting = {k}
    <3>1. Waiting' = {}
      BY <2>1, <2>2 DEF Waiting
    <3> QED
      BY <1>2, <3>1 DEF WaitInv
  <2>3. CASE Waiting # {k}
    <3>1. Page \subseteq mixed'
      BY <1>4, <2>3 DEF SetAgain
    <3>2. Waiting' \subseteq Waiting /\ \A j \in Waiting' : bps'[j] = bps[j]
      BY <2>1 DEF Waiting
    <3>3. \A j \in Waiting' : PageOf(bps'[j].offset) \in mixed'
      BY <3>1, <3>2, TypeFacts DEF Waiting
    <3> QED
      BY <1>2, <3>1, <3>3 DEF WaitInv
  <2> QED
    BY <2>2, <2>3
<1> QED
  BY <1>1, <1>3, <1>4, StepFacts

LEMMA WaitCreate == ASSUME TypeOK, CreateProcess PROVE WaitInv'
<1>1. PICK B : B = BreakpointInit(Own)
  OBVIOUS
<1>2. /\ bps' = B.bps /\ th' = [ip |-> Min(Code), tf |-> FALSE, exc |-> None]
      /\ mixed' = IF \E i \in DOMAIN bps : bps[i].restore THEN Page
                  ELSE {q \in Page : \E i, j \in On(q) : i # j}
  BY <1>1 DEF CreateProcess
<1>3. Own \in [Page -> Protection] /\ bps \in Seq(Entry)
  BY ConstantsOK, ProtectionFacts, TypeFacts
<1>4. /\ DOMAIN B.bps = DOMAIN bps
      /\ \A i \in DOMAIN bps : B.bps[i].offset = bps[i].offset /\ B.bps[i].restore = bps[i].restore
  BY <1>1, <1>3, InitFacts
<1>5. Waiting' = {} \/ Page \subseteq mixed'
  BY <1>2, <1>4 DEF Waiting
<1>6. \A i \in Waiting' : PageOf(bps'[i].offset) \in Page
  BY <1>2, <1>4, TypeFacts DEF Waiting
<1> QED
  BY <1>2, <1>5, <1>6 DEF WaitInv

LEMMA WaitRemove == ASSUME TypeOK, WaitInv, NEW c, BreakpointRemove(c) PROVE WaitInv'
<1>1. PICK k \in DOMAIN bps : Removed(k) /\ bps[k].offset = c
  BY RemoveFacts
<1>2. UNCHANGED <<th, pid>> /\ mixed \subseteq mixed'
  BY DEF BreakpointRemove, Meet
<1>3. PICK f : f = [i \in Waiting' |-> IF i < k THEN i ELSE i + 1]
  OBVIOUS
<1>4. k \in Nat /\ Waiting' \subseteq Nat /\ Waiting' \subseteq DOMAIN bps'
  BY <1>1, TypeFacts DEF Removed, Waiting
<1>5. \A i \in Waiting' : f[i] \in DOMAIN bps /\ bps'[i] = bps[f[i]]
  BY <1>1, <1>3, <1>4 DEF Removed
<1>6. \A i \in Waiting' : f[i] \in Waiting /\ bps'[i].offset = bps[f[i]].offset
  BY <1>5 DEF Waiting
<1>7. \A i, j \in Waiting' : f[i] = f[j] => i = j
  BY <1>3, <1>4
<1> QED
  BY <1>2, <1>6, <1>7, WaitStays

LEMMA NextWait == TypeOK /\ StepInv /\ WaitInv /\ PagesOK /\ [Next]_vars => WaitInv'
<1> SUFFICES ASSUME TypeOK, StepInv, WaitInv, PagesOK, [Next]_vars PROVE WaitInv'
  OBVIOUS
<1>1. ASSUME UNCHANGED <<bps, pid>>, mixed \subseteq mixed', th'.tf => th.tf /\ th'.ip = th.ip
      PROVE  WaitInv'
  <2>1. Waiting' = Waiting
    BY <1>1 DEF Waiting
  <2> QED
    BY <1>1, <2>1, WaitSame
<1>2. CASE CreateProcess
  BY <1>2, WaitCreate
<1>3. CASE EntryPoint
  <2>1. PICK B : B = BreakpointInit(prot)
    OBVIOUS
  <2>2. bps' = B.bps /\ UNCHANGED <<th, pid>> /\ mixed \subseteq mixed'
    BY <1>3, <2>1 DEF EntryPoint, Meet
  <2>3. /\ DOMAIN B.bps = DOMAIN bps
        /\ \A i \in DOMAIN bps : B.bps[i].offset = bps[i].offset /\ B.bps[i].restore = bps[i].restore
    BY <2>1, InitFacts, TypeFacts
  <2>4. \A i \in Waiting' : i \in Waiting /\ bps'[i].offset = bps[i].offset
    BY <2>2, <2>3 DEF Waiting
  <2> QED
    BY <2>2, <2>4, WaitSame
<1>4. CASE ExitProcess \/ ResumeDebugging \/ DisplayMemory \/ UNCHANGED vars
  BY <1>1, <1>4 DEF ExitProcess, ResumeDebugging, DisplayMemory, vars
<1>5. CASE Execute
  <2>1. UNCHANGED <<bps, pid>> /\ mixed \subseteq mixed'
    BY <1>5 DEF Execute, Meet
  <2>2. PICK f : f = Fault(th.ip, prot)
    OBVIOUS
  <2>3. CASE f = None
    <3>1. ~th'.tf
      BY <1>5, <2>2, <2>3 DEF Execute
    <3> QED
      BY <1>1, <2>1, <3>1
  <2>4. CASE f # None
    <3>1. th' = [th EXCEPT !.exc = f]
      BY <1>5, <2>2, <2>4 DEF Execute
    <3>2. th'.tf = th.tf /\ th'.ip = th.ip
      BY <3>1 DEF TypeOK
    <3> QED
      BY <1>1, <2>1, <3>2
  <2> QED
    BY <2>3, <2>4
<1>6. CASE MemoryHit \/ SingleStep
  BY <1>6, WaitHit, WaitStep
<1>7. CASE ForeignException
  <2>1. PICK c \in Code : th' = [th EXCEPT !.ip = c, !.exc = None]
    BY <1>7 DEF ForeignException
  <2>2. ~pid.trap /\ UNCHANGED <<bps, pid, mixed>>
    BY <1>7 DEF ForeignException, IsBP
  <2>3. ~th'.tf
    BY <2>1, <2>2 DEF TypeOK, StepInv
  <2> QED
    BY <1>1, <2>2, <2>3
<1>8. ASSUME NEW s \in Shape, BreakpointAdd(s) PROVE WaitInv'
  <2>1. PICK x \in Entry : Added(s, x)
    BY <1>8, AddFacts
  <2>2. bps' = Append(bps, x) /\ ~x.restore /\ bps \in Seq(Entry)
    BY <2>1, TypeFacts DEF Added
  <2>3. PICK n : n = Len(bps)
    OBVIOUS
  <2>4. /\ n \in Nat /\ DOMAIN bps = 1 .. n /\ DOMAIN bps' = 1 .. n + 1 /\ bps'[n + 1] = x
        /\ \A j \in 1 .. n : bps'[j] = bps[j]
    BY <2>2, <2>3
  <2>5. \A i \in Waiting' : i \in Waiting /\ bps'[i].offset = bps[i].offset
    BY <2>2, <2>4 DEF Waiting
  <2>6. UNCHANGED <<th, pid>> /\ mixed \subseteq mixed'
    BY <1>8 DEF BreakpointAdd, Meet
  <2> QED
    BY <2>5, <2>6, WaitSame
<1>9. ASSUME NEW s \in Shape, BreakpointRemove(s.offset) PROVE WaitInv'
  BY <1>9, WaitRemove
<1>10. CASE OnCustomContextMenuRequested \/ \E q \in Page : DisassemblerReads(q)
  <2>1. UNCHANGED <<bps, pid, th>> /\ mixed \subseteq mixed'
    BY <1>10, ReadFacts DEF Protect, SetPageProtection, Meet
  <2> QED
    BY <1>1, <2>1
<1>11. ASSUME NEW r \in Reader, Unprotect(r) PROVE WaitInv'
  BY <1>1, <1>11 DEF Unprotect, Meet
<1> QED
  BY <1>2, <1>3, <1>4, <1>5, <1>6, <1>7, <1>8, <1>9, <1>10, <1>11 DEF Next, Loop, GUI, Reads

-----------------------------------------------------------------------------
(* The line of the last break.                                             *)

(* A fault the debugger has no part in.                                    *)
LEMMA FaultOfOwn ==
  ASSUME NEW f, f = Fault(th.ip, prot), f # None, Misplaced(f) = {},
         prot[PageOf(th.ip)] = own[PageOf(th.ip)]
  PROVE  Fault(th.ip, own) = f
<1>1. PICK c, x, y : /\ c = th.ip /\ x = FaultOn(PageOf(c), "x", prot)
                     /\ y = FaultOn(PageOf(Ins[c].at), Ins[c].acc, prot)
  OBVIOUS
<1>2. FaultOn(PageOf(c), "x", own) = x
  BY <1>1 DEF FaultOn
<1>3. CASE x # "none"
  BY <1>1, <1>2, <1>3 DEF Fault
<1>4. CASE x = "none"
  <2>1. Ins[c].acc # "none" /\ y # "none" /\ f.page = PageOf(Ins[c].at)
    BY <1>1, <1>4 DEF Fault
  <2>2. FaultOn(PageOf(Ins[c].at), Ins[c].acc, own) = y
    BY <1>1, <2>1 DEF FaultOn, Misplaced
  <2> QED
    BY <1>1, <1>2, <1>4, <2>1, <2>2 DEF Fault
<1> QED
  BY <1>3, <1>4

LEMMA SeenExecute == ASSUME TypeOK, SeenInv, Execute PROVE SeenInv'
<1>1. PICK f, p : f = Fault(th.ip, prot) /\ p = PageOf(th.ip)
  OBVIOUS
<1>2. /\ f \in Exception /\ p \in Page
      /\ f.code = GUARD => prot[f.page].guard /\ (f.page = p \/ f.page \in Misplaced(f))
  BY <1>1, TypeFacts, FaultFacts, GuardPage
<1>3. UNCHANGED <<own, open, dbg>> /\ Covered' = Covered /\ dbg = "run"
  BY DEF Execute, Covered
<1>4. CASE f = None
  BY <1>1, <1>4 DEF Execute, SeenInv
<1>5. CASE f # None
  <2>1. /\ th' = [th EXCEPT !.exc = f] /\ seen' = seen
        /\ prot' = IF f.code = GUARD THEN [prot EXCEPT ![f.page].guard = FALSE] ELSE prot
        /\ mixed' = mixed \cup IF Misplaced(f) = {} THEN {} ELSE Misplaced(f) \cup {p}
    BY <1>1, <1>5 DEF Execute, GUARD, Meet
  <2>2. th'.ip = th.ip /\ th'.tf = th.tf /\ th'.exc = f
    BY <2>1 DEF TypeOK
  <2>3. ASSUME seen # 0, p \notin mixed'
        PROVE  p \notin Covered' /\ prot'[p] = own'[p] /\ FaultsAnyway(th.ip)'
    <3>1. p \notin Covered /\ prot[p] = own[p] /\ Misplaced(f) = {}
      BY <1>1, <1>3, <2>1, <2>3 DEF SeenInv, InSession
    <3>2. ~own[p].guard
      BY <1>2, ProtectionFacts, TypeFacts
    <3>3. prot' = prot
      BY <1>2, <2>1, <3>1, <3>2
    <3>4. Fault(th.ip, own) = f
      BY <1>1, <1>5, <3>1, FaultOfOwn
    <3>5. FaultsAnyway(th.ip)'
      BY <1>3, <1>5, <2>2, <3>4 DEF FaultsAnyway
    <3> QED
      BY <1>3, <3>1, <3>3, <3>5
  <2>4. ASSUME seen # 0 PROVE seen = th.ip /\ th.tf
    BY <1>3, <2>4 DEF SeenInv, InSession
  <2> QED
    BY <1>1, <1>3, <2>1, <2>2, <2>3, <2>4 DEF SeenInv, FaultsAnyway
<1> QED
  BY <1>4, <1>5

LEMMA SeenHit == ASSUME TypeOK, StepInv, SeenInv, PagesOK, MemoryHit PROVE SeenInv'
<1>1. PICK p : p = PageOf(th.ip)
  OBVIOUS
<1>2. /\ th' = [th EXCEPT !.tf = TRUE, !.exc = None] /\ UNCHANGED <<own, open>> /\ dbg = "run"
      /\ (At(th.ip) = {} => seen' = seen) /\ seen' \in {seen, th.ip} /\ Covered' = Covered
  BY DEF MemoryHit, Covered
<1>3. th'.ip = th.ip /\ th'.tf /\ th'.exc.code = "none" /\ p \in Page
  BY <1>1, <1>2, TypeFacts, ExceptionFacts DEF TypeOK
<1>4. ASSUME seen' # 0, p \notin mixed' PROVE p \notin Covered /\ prot'[p] = own[p]
  <2>1. CASE Blamed(th.ip, prot) = {} /\ prot' = prot /\ mixed' = mixed
    BY <1>1, <1>2, <1>4, <2>1 DEF Blamed, SeenInv, InSession
  <2>2. ASSUME NEW k \in DOMAIN bps, HitAt(k) PROVE p \notin Covered /\ prot'[p] = own[p]
    <3>1. PICK m : m = PageOf(bps[k].offset)
      OBVIOUS
    <3>2. /\ bps' = [bps EXCEPT ![k].restore = TRUE]
          /\ mixed' = mixed \cup ({p, m} \cap (Covered \cup IF p # m THEN Page ELSE {}))
      BY <1>1, <2>2, <3>1 DEF HitAt
    <3>3. p = m /\ p \notin Covered
      BY <1>3, <1>4, <3>2
    <3>4. PageInv(p)'
      BY <1>3, <1>4, PagesHit
    <3>5. k \in On(p)'
      <4>1. k \in On(p)
        BY <3>1, <3>3 DEF On
      <4> QED
        BY <3>2, <4>1, HitElements
    <3>6. bps'[k].restore = TRUE
      BY <3>2, RestoreTyped
    <3>7. p \notin Covered'
      BY <1>2, <3>3
    <3>8. PageGood(p, prot[p])'
      BY <3>4, <3>7 DEF PageInv
    <3>9. prot'[p] = own'[p]
      BY <3>5, <3>6, <3>8 DEF PageGood
    <3> QED
      BY <1>2, <3>3, <3>9
  <2> QED
    BY <2>1, <2>2, HitFacts
<1>5. seen' # 0 => seen' = th.ip
  BY <1>2 DEF SeenInv, InSession
<1> QED
  BY <1>1, <1>2, <1>3, <1>4, <1>5 DEF SeenInv

LEMMA NextSeen ==
  TypeOK /\ StepInv /\ SeenInv /\ PagesOK /\ [Next]_vars => SeenInv'
<1> SUFFICES ASSUME TypeOK, StepInv, SeenInv, PagesOK, [Next]_vars PROVE SeenInv'
  OBVIOUS
<1>1. ASSUME UNCHANGED <<prot, own, th, open, mixed, seen>>, InSession' => InSession PROVE SeenInv'
  BY <1>1 DEF SeenInv, FaultsAnyway, Covered
<1>2. ASSUME seen' = 0 PROVE SeenInv'
  BY <1>2 DEF SeenInv
<1>3. CASE CreateProcess
  BY <1>2, <1>3 DEF CreateProcess
<1>4. CASE EntryPoint
  BY <1>2, <1>4 DEF EntryPoint, StepInv
<1>5. CASE ExitProcess
  BY <1>5 DEF ExitProcess, SeenInv, InSession
<1>6. CASE Execute \/ MemoryHit
  BY <1>6, SeenExecute, SeenHit
<1>7. CASE SingleStep
  <2>1. dbg = "run" /\ th.exc.code = STEP /\ seen' = seen
    BY <1>7 DEF SingleStep, STEP
  <2> QED
    BY <1>2, <2>1 DEF SeenInv, StepInv, InSession
<1>8. CASE ForeignException
  <2>1. dbg = "run" /\ ~pid.trap /\ seen' = seen
    BY <1>8 DEF ForeignException, IsBP
  <2> QED
    BY <1>2, <2>1 DEF SeenInv, StepInv, InSession
<1>9. CASE ResumeDebugging
  BY <1>1, <1>9 DEF ResumeDebugging, InSession
<1>10. CASE DisplayMemory \/ UNCHANGED vars
  BY <1>1, <1>10 DEF DisplayMemory, vars, InSession
<1>11. ASSUME NEW s \in Shape, BreakpointAdd(s) \/ BreakpointRemove(s.offset) PROVE SeenInv'
  BY <1>2, <1>11 DEF BreakpointAdd, BreakpointRemove, Edit
<1>12. CASE OnCustomContextMenuRequested \/ \E q \in Page : DisassemblerReads(q)
  BY <1>2, <1>12, ReadFacts DEF Protect, SetPageProtection, Edit
<1>13. ASSUME NEW r \in Reader, Unprotect(r) PROVE SeenInv'
  BY <1>2, <1>13 DEF Unprotect
<1> QED
  BY <1>3, <1>4, <1>5, <1>6, <1>7, <1>8, <1>9, <1>10, <1>11, <1>12, <1>13 DEF Next, Loop, GUI, Reads

-----------------------------------------------------------------------------
(* The invariant and what it promises.                                     *)

LEMMA InitMem == Init => MemInv
<1> SUFFICES ASSUME Init PROVE MemInv
  OBVIOUS
<1>1. TypeOK /\ StepInv
  BY InitTyped, InitStep
<1>2. Waiting = {} /\ seen = 0 /\ dbg = "idle" /\ ~th.tf
  BY DEF Init, Waiting
<1> QED
  BY <1>1, <1>2 DEF MemInv, WaitInv, SeenInv

LEMMA NextMem == MemInv /\ [Next]_vars => MemInv'
<1> SUFFICES ASSUME MemInv, [Next]_vars PROVE MemInv'
  OBVIOUS
<1>1. TypeOK /\ StepInv /\ WaitInv /\ SeenInv /\ PagesOK
  BY DEF MemInv, PagesOK
<1>2. TypeOK' /\ StepInv' /\ PagesOK'
  BY <1>1, NextTyped, NextStepInv, NextPages
<1>3. WaitInv' /\ SeenInv'
  BY <1>1, NextWait, NextSeen
<1> QED
  BY <1>2, <1>3 DEF MemInv, PagesOK

(* Where one change of protection is under way at a time, what breakpoints *)
(* save and what pages without one have is what the program wants.         *)
THEOREM Returns == Spec => []ProtectionReturns
<1>1. MemInv => ProtectionReturns
  <2> SUFFICES ASSUME MemInv, InSession, NEW q \in Page, Free(q)
               PROVE  (On(q) = {} => prot[q] = own[q]) /\ \A i \in On(q) : bps[i].old = own[q]
    BY DEF ProtectionReturns
  <2>1. PageGood(q, prot[q])
    BY DEF MemInv, InSession, Free, PageInv
  <2> QED
    BY <2>1 DEF PageGood
<1>2. Init => MemInv
  BY InitMem
<1>3. MemInv /\ [Next]_vars => MemInv'
  BY NextMem
<1> QED
  BY <1>1, <1>2, <1>3, PTL DEF Spec

(* A breakpoint of a page of its own is armed, or a step that arms it      *)
(* again is to come.                                                       *)
THEOREM Armed == Spec => []ArmedOrStepping
<1>1. MemInv => ArmedOrStepping
  <2> SUFFICES ASSUME MemInv, InSession, NEW i \in DOMAIN bps, Free(PageOf(bps[i].offset))
               PROVE  \/ prot[PageOf(bps[i].offset)] =
                           NewProtection(bps[i].type, own[PageOf(bps[i].offset)])
                      \/ bps[i].restore /\ pid.flag = "RESTORE_BP_MEMORY" /\ th.tf
                      \/ bps[i].restore /\ th.exc.code = STEP
                      \/ th.exc.code = GUARD /\ th.exc.page = PageOf(bps[i].offset)
    BY DEF ArmedOrStepping, STEP, GUARD
  <2>1. PICK q : q = PageOf(bps[i].offset)
    OBVIOUS
  <2>2. q \in Page /\ i \in On(q)
    BY <2>1, TypeFacts DEF MemInv, On
  <2>3. PageGood(q, prot[q])
    BY <2>1, <2>2 DEF MemInv, InSession, Free, PageInv
  <2>4. bps[i].restore => pid.flag = "RESTORE_BP_MEMORY" /\ (th.tf \/ th.exc.code = STEP)
    BY <2>2, <2>3 DEF PageGood, MemInv, StepInv
  <2>5. bps[i].restore \/ GuardOn(q) \/ prot[q] = NewProtection(bps[i].type, own[q])
    BY <2>2, <2>3 DEF PageGood
  <2> QED
    BY <2>1, <2>4, <2>5 DEF GuardOn
<1>2. Init => MemInv
  BY InitMem
<1>3. MemInv /\ [Next]_vars => MemInv'
  BY NextMem
<1> QED
  BY <1>1, <1>2, <1>3, PTL DEF Spec

(* An instruction the debugger broke at is executed before it breaks there *)
(* again.                                                                  *)
THEOREM Passes == Spec => HitsPass
<1>1. MemInv /\ [Next]_vars =>
        [(MemoryHit /\ dbg' = "broke" /\ th.ip = seen)
            => FaultsAnyway(th.ip) \/ PageOf(th.ip) \in mixed]_vars
  <2> SUFFICES ASSUME MemInv, MemoryHit, th.ip = seen, PageOf(th.ip) \notin mixed
               PROVE  FaultsAnyway(th.ip)
    OBVIOUS
  <2>1. dbg = "run" /\ th.exc.code # "none"
    BY DEF MemoryHit, MemoryFault
  <2>2. seen # 0
    <3>1. PageOf(seen) \in Page /\ PageOf(0) = 0
      BY TypeFacts DEF MemInv, PageOf, PageSize
    <3> QED
      BY <3>1, ConstantsOK
  <2> QED
    BY <2>1, <2>2 DEF MemInv, SeenInv, InSession
<1>2. Init => MemInv
  BY InitMem
<1>3. MemInv /\ [Next]_vars => MemInv'
  BY NextMem
<1> QED
  BY <1>1, <1>2, <1>3, PTL DEF Spec, HitsPass
=============================================================================
