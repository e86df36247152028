--------------------------- MODULE MemoryBreakpoint ---------------------------
(***************************************************************************)
(* Page protections of one debuggee and the parts of the debugger that     *)
(* change them: clsBreakpointMemory and the memory branches of the debug   *)
(* loop, clsMemoryProtector around the reads of the disassembler and the   *)
(* memory dump, and the protection menu of the memory view.                *)
(*                                                                         *)
(* An instruction is fetched from its page and may access one cell; a      *)
(* fault is reported with the address of the instruction, whichever page   *)
(* it is about.  A guard flag is taken off by the fault it raises.  Every  *)
(* breakpoint is a kept one of one page; software and hardware breakpoints *)
(* are in other modules.                                                   *)
(***************************************************************************)
EXTENDS Integers, FiniteSets, SequencesExt

CONSTANTS
  Page,       \* pages that are mapped, by number
  Own,        \* what the program's loader protects each page as
  Ins,        \* instructions: a cell and the access each makes
  Shape,      \* breakpoints the user sets: cell and dwTypeFlag
  Menu,       \* protections the user picks in the memory view
  Reader,     \* who reads under a clsMemoryProtector: "disassembler", "dump"
  Session,    \* bound: debugging sessions, 1 .. Session
  Edits       \* bound: changes by the user and the readers in all

PageSize  == 10
PageOf(c) == c \div PageSize
Code      == DOMAIN Ins

Prot(acc, guard) == [acc |-> acc, guard |-> guard]
PAGE_EXECUTE_READ == Prot({"x", "r"}, FALSE)
PAGE_READWRITE    == Prot({"r", "w"}, FALSE)

(* What a loader and the menu protect a page as.                           *)
Unguarded == {Prot(a, FALSE) : a \in SUBSET {"x", "r", "w"}}

None    == [code |-> "none", page |-> 0]
Closed  == [pages |-> {}, old |-> PAGE_READWRITE]

ASSUME ConstantsOK ==
  /\ Page \subseteq Nat \ {0} /\ IsFiniteSet(Page) /\ Code \subseteq Nat /\ Code # {}
  /\ Own \in [Page -> Unguarded] /\ Menu \subseteq Unguarded
  /\ \A c \in Code : PageOf(c) \in Page /\ Ins[c].acc \in {"none", "r", "w"}
  /\ \A s \in Shape : /\ s.offset \in Nat /\ PageOf(s.offset) \in Page
                      /\ s.type \in {"BP_ACCESS", "BP_WRITE", "BP_EXEC"}
  /\ Reader \subseteq {"disassembler", "dump"} /\ Session \in Nat /\ Edits \in Nat

VARIABLES
  prot,    \* the protection of each page, as VirtualQueryEx tells it
  own,     \* what the program, or the user's menu, wants it to be
  bps,     \* MemoryBPs
  th,      \* the thread: ip, trap flag, exception to be handled
  pid,     \* bTrapFlag and dwBPRestoreFlag of PIDStruct
  dbg,     \* the debug loop: "idle", "create", "run", "broke"
  open,    \* the protector each reader holds open
  rows,    \* the regions the memory view shows
  mixed,   \* pages on which two changes have met, or a fault is put down to another page
  seen,    \* the line of the last break, until it is executed or something changes
  session, \* sessions started
  edits    \* changes made

vars == <<prot, own, bps, th, pid, dbg, open, rows, mixed, seen, session, edits>>

-----------------------------------------------------------------------------
(* Windows.                                                                *)

(* VirtualQueryEx: the page and those behind it that are protected alike.  *)
Region(q, pr) == {k \in Page : k >= q /\ \A j \in q .. k : j \in Page /\ pr[j] = pr[q]}

(* The base of the region and base + size, which is the next cell.         *)
FirstCell(q)      == q * PageSize
EndOfRegion(q, pr) == (Max(Region(q, pr)) + 1) * PageSize

FaultOn(q, acc, pr) ==
  IF q \notin Page THEN "EXCEPTION_ACCESS_VIOLATION"
  ELSE IF pr[q].guard THEN "EXCEPTION_GUARD_PAGE"
  ELSE IF acc \notin pr[q].acc THEN "EXCEPTION_ACCESS_VIOLATION" ELSE "none"

(* The fetch comes before the access.                                      *)
Fault(c, pr) ==
  LET fetch  == FaultOn(PageOf(c), "x", pr)
      access == IF Ins[c].acc = "none" THEN "none"
                ELSE FaultOn(PageOf(Ins[c].at), Ins[c].acc, pr)
  IN  IF fetch # "none" THEN [code |-> fetch, page |-> PageOf(c)]
      ELSE IF access # "none" THEN [code |-> access, page |-> PageOf(Ins[c].at)]
      ELSE None

(* An instruction the program itself cannot execute.                       *)
FaultsAnyway(c) == Fault(c, own) # None

-----------------------------------------------------------------------------
(* clsBreakpointMemory.                                                    *)

NewProtection(type, now) ==
  CASE type = "BP_WRITE" -> PAGE_EXECUTE_READ
    [] type = "BP_EXEC"  -> PAGE_READWRITE
    [] OTHER             -> [now EXCEPT !.guard = TRUE]

(* With the new protection saved for the old one.                          *)
wMemoryBPSavesNew(bp, pr) ==
  LET q == PageOf(bp.offset)
  IN  [bp   |-> [bp EXCEPT !.old = NewProtection(bp.type, pr[q])],
       prot |-> [pr EXCEPT ![q] = NewProtection(bp.type, @)]]

(* wMemoryBP saves what VirtualQueryEx said before the change.             *)
wMemoryBP(bp, pr) ==
  LET q == PageOf(bp.offset)
  IN  [bp   |-> [bp EXCEPT !.old = pr[q]],
       prot |-> [pr EXCEPT ![q] = NewProtection(bp.type, @)]]

dMemoryBP(bp, pr) == [pr EXCEPT ![PageOf(bp.offset)] = bp.old]

(* CheckIfExceptionIsBP without a trap flag: the breakpoints whose offset  *)
(* lies in the region of the instruction, both ends included.              *)
InRegion(c, pr) ==
  {i \in DOMAIN bps : /\ FirstCell(PageOf(c)) <= bps[i].offset
                      /\ bps[i].offset <= EndOfRegion(PageOf(c), pr)}

At(c) == {i \in DOMAIN bps : bps[i].offset = c}
On(q) == {i \in DOMAIN bps : PageOf(bps[i].offset) = q}

(* The breakpoint a fault at c is put down to: the one at c, else the      *)
(* first of the region.                                                    *)
Blamed(c, pr) == IF At(c) # {} THEN At(c) ELSE InRegion(c, pr)

-----------------------------------------------------------------------------
Covered == UNION {open[r].pages : r \in Reader}

MemoryFault == th.exc.code \in {"EXCEPTION_ACCESS_VIOLATION", "EXCEPTION_GUARD_PAGE"}

(* Pages a reader has open, or a fault is on its way about.                *)
Busy == Covered \cup (IF MemoryFault THEN {th.exc.page} ELSE {})

(* Pages that get two protections nobody will take back in order.          *)
Meet(Q) == mixed' = mixed \cup Q

(* A change that is not the debug loop's.                                  *)
Edit == edits < Edits /\ edits' = edits + 1 /\ seen' = 0

Init ==
  /\ prot = Own /\ own = Own /\ bps = <<>>
  /\ th = [ip |-> Min(Code), tf |-> FALSE, exc |-> None]
  /\ pid = [trap |-> FALSE, flag |-> "RESTORE_NON"]
  /\ dbg = "idle" /\ open = [r \in Reader |-> Closed] /\ rows = {}
  /\ mixed = {} /\ seen = 0 /\ session = 0 /\ edits = 0

(* BreakpointInit: wMemoryBP for each element in the order of the list.    *)
BreakpointInit(pr) ==
  LET after[i \in 0 .. Len(bps)] ==
        IF i = 0 THEN pr ELSE wMemoryBP(bps[i], after[i - 1]).prot
  IN  [bps  |-> [i \in DOMAIN bps |-> wMemoryBP(bps[i], after[i - 1]).bp],
       prot |-> after[Len(bps)]]

(* CREATE_PROCESS_DEBUG_EVENT of a session.  What the list has is set in   *)
(* the new process.  A restore flag left by the last process may take the  *)
(* place of any other.                                                     *)
CreateProcess ==
  LET B == BreakpointInit(Own)
  IN  /\ dbg = "idle" /\ session < Session /\ session' = session + 1
      /\ dbg' = "create" /\ bps' = B.bps /\ prot' = B.prot /\ own' = Own
      /\ th' = [ip |-> Min(Code), tf |-> FALSE, exc |-> None]
      /\ pid' = [trap |-> FALSE, flag |-> "RESTORE_NON"]
      /\ open' = [r \in Reader |-> Closed]
      /\ mixed' = IF \E i \in DOMAIN bps : bps[i].restore THEN Page
                  ELSE {q \in Page : \E i, j \in On(q) : i # j}
      /\ seen' = 0 /\ UNCHANGED <<rows, edits>>

(* EXCEPTION_BREAKPOINT at the entry point: BreakpointInit once more, so a *)
(* breakpoint of an earlier session saves its own protection as the old    *)
(* one.                                                                    *)
EntryPoint ==
  LET B == BreakpointInit(prot)
  IN  /\ dbg = "create" /\ dbg' = "run" /\ bps' = B.bps /\ prot' = B.prot
      /\ Meet({q \in Page : On(q) # {}})
      /\ UNCHANGED <<own, th, pid, open, rows, seen, session, edits>>

(* EXIT_PROCESS_DEBUG_EVENT; the list stays.                               *)
ExitProcess ==
  /\ dbg = "run" /\ th.exc = None /\ dbg' = "idle" /\ rows' = {}
  /\ UNCHANGED <<prot, own, bps, th, pid, open, mixed, seen, session, edits>>

-----------------------------------------------------------------------------
(* A fault the debugger has made on another page than the instruction's    *)
(* will be put down to the wrong page.                                     *)
Misplaced(f) == {q \in Page : q = f.page /\ q # PageOf(th.ip) /\ prot[q] # own[q]}

(* The debuggee executes the instruction at its ip, or faults.             *)
Execute ==
  LET f == Fault(th.ip, prot)
  IN  /\ dbg = "run" /\ th.exc = None
      /\ IF f = None
         THEN /\ prot' = prot /\ seen' = 0 /\ mixed' = mixed
              /\ \E c \in Code : th' =
                   [ip |-> c, tf |-> FALSE,
                    exc |-> IF th.tf THEN [code |-> "EXCEPTION_SINGLE_STEP", page |-> 0] ELSE None]
         ELSE /\ th' = [th EXCEPT !.exc = f] /\ seen' = seen
              /\ Meet(IF Misplaced(f) = {} THEN {} ELSE Misplaced(f) \cup {PageOf(th.ip)})
              /\ prot' = IF f.code = "EXCEPTION_GUARD_PAGE"
                         THEN [prot EXCEPT ![f.page].guard = FALSE] ELSE prot
      /\ UNCHANGED <<own, bps, pid, dbg, open, rows, session, edits>>

(* CheckIfExceptionIsBP for the two codes of a memory breakpoint.          *)
IsBP == pid.trap \/ InRegion(th.ip, prot) # {}

(* With the protection left on when the debugger breaks.                   *)
UnprotectedToPassOnly(bp) ==
  IF th.exc.code = "EXCEPTION_ACCESS_VIOLATION" /\ bp.offset # th.ip
  THEN [prot EXCEPT ![PageOf(th.ip)] = bp.old] ELSE prot

(* The old protection of the breakpoint, for the page of the instruction.  *)
Unprotected(bp) ==
  IF th.exc.code = "EXCEPTION_ACCESS_VIOLATION"
  THEN [prot EXCEPT ![PageOf(th.ip)] = bp.old] ELSE prot

(* EXCEPTION_ACCESS_VIOLATION and EXCEPTION_GUARD_PAGE: break if a         *)
(* breakpoint has this very offset, else let the instruction pass.         *)
MemoryHit ==
  LET I == Blamed(th.ip, prot)
      i == Min(I)
  IN  /\ dbg = "run" /\ MemoryFault /\ IsBP
      /\ pid' = [trap |-> TRUE, flag |-> "RESTORE_BP_MEMORY"]
      /\ th' = [th EXCEPT !.tf = TRUE, !.exc = None]
      /\ IF At(th.ip) # {} THEN dbg' = "broke" /\ seen' = th.ip ELSE UNCHANGED <<dbg, seen>>
      /\ IF I = {} THEN UNCHANGED <<bps, prot, mixed>>
         ELSE /\ bps' = [bps EXCEPT ![i].restore = TRUE]
              /\ prot' = Unprotected(bps[i])
              /\ Meet({PageOf(th.ip), PageOf(bps[i].offset)} \cap
                      (Covered \cup IF PageOf(th.ip) # PageOf(bps[i].offset) THEN Page ELSE {}))
      /\ UNCHANGED <<own, open, rows, session, edits>>

(* With the protection left off.                                           *)
SingleStepNoRestore ==
  /\ dbg = "run" /\ th.exc.code = "EXCEPTION_SINGLE_STEP"
  /\ th' = [th EXCEPT !.exc = None]
  /\ pid' = [trap |-> FALSE, flag |-> "RESTORE_NON"]
  /\ bps' = [i \in DOMAIN bps |-> [bps[i] EXCEPT !.restore = FALSE]]
  /\ UNCHANGED <<prot, own, dbg, open, rows, mixed, seen, session, edits>>

(* EXCEPTION_SINGLE_STEP with RESTORE_BP_MEMORY: the first element that    *)
(* waits is set again.  Another one that waits, because the instruction    *)
(* faulted twice, may take the place of any other later.                   *)
SingleStep ==
  LET W == {i \in DOMAIN bps : bps[i].restore}
      w == wMemoryBP(bps[Min(W)], prot)
  IN  /\ dbg = "run" /\ th.exc.code = "EXCEPTION_SINGLE_STEP"
      /\ th' = [th EXCEPT !.exc = None]
      /\ pid' = [trap |-> FALSE, flag |-> "RESTORE_NON"]
      /\ IF W = {} \/ pid.flag # "RESTORE_BP_MEMORY" THEN UNCHANGED <<bps, prot, mixed>>
         ELSE /\ bps' = [bps EXCEPT ![Min(W)] = [w.bp EXCEPT !.restore = FALSE]]
              /\ prot' = w.prot
              /\ Meet(IF W = {Min(W)} THEN {PageOf(w.bp.offset)} \cap Covered ELSE Page)
      /\ UNCHANGED <<own, dbg, open, rows, seen, session, edits>>

(* A fault that is no breakpoint goes to the exception handlers and, with  *)
(* whatever they answer, to the program, which goes on somewhere.          *)
ForeignException ==
  /\ dbg = "run" /\ MemoryFault /\ ~IsBP
  /\ \E c \in Code : th' = [th EXCEPT !.ip = c, !.exc = None]
  /\ UNCHANGED <<prot, own, bps, pid, dbg, open, rows, mixed, seen, session, edits>>

(* The user ends the break; the exception is handled.                      *)
ResumeDebugging ==
  /\ dbg = "broke" /\ dbg' = "run"
  /\ UNCHANGED <<prot, own, bps, th, pid, open, rows, mixed, seen, session, edits>>

-----------------------------------------------------------------------------
(* GUI thread.                                                             *)

InSession == dbg \in {"run", "broke"}

BreakpointAdd(s) ==
  LET q == PageOf(s.offset)
      w == wMemoryBP([offset |-> s.offset, type |-> s.type, restore |-> FALSE,
                      old |-> PAGE_READWRITE], prot)
  IN  /\ InSession /\ At(s.offset) = {}
      /\ bps' = Append(bps, w.bp) /\ prot' = w.prot
      /\ Meet(IF On(q) # {} \/ q \in Busy THEN {q} ELSE {})
      /\ Edit /\ UNCHANGED <<own, th, pid, dbg, open, rows, session>>

BreakpointRemove(c) ==
  LET i == Min(At(c))
  IN  /\ InSession /\ At(c) # {}
      /\ bps' = RemoveAt(bps, i) /\ prot' = dMemoryBP(bps[i], prot)
      /\ Meet({PageOf(c)} \cap Busy)
      /\ Edit /\ UNCHANGED <<own, th, pid, dbg, open, rows, session>>

(* DisplayMemory: a row for each region.                                   *)
Regions(pr) == {Region(q, pr) : q \in {k \in Page : k - 1 \notin Page \/ pr[k - 1] # pr[k]}}

DisplayMemory ==
  /\ InSession /\ rows' = Regions(prot)
  /\ UNCHANGED <<prot, own, bps, th, pid, dbg, open, mixed, seen, session, edits>>

(* SetPageProctection: the whole region of the row, as it was displayed,   *)
(* and a new display.                                                      *)
SetPageProtection(row, pr) ==
  LET new == [q \in Page |-> IF q \in row THEN pr ELSE prot[q]]
  IN  /\ InSession
      /\ prot' = new /\ rows' = Regions(new)
      /\ own' = [q \in Page |-> IF q \in row THEN pr ELSE own[q]]
      /\ Meet({q \in row : On(q) # {} \/ q \in Busy})
      /\ Edit /\ UNCHANGED <<bps, th, pid, dbg, open, session>>

-----------------------------------------------------------------------------
(* clsMemoryProtector: the constructor learns the old protection of the    *)
(* first page, the destructor gives it to all.                             *)

Protect(r, Q) ==
  /\ InSession /\ open[r] = Closed /\ Q # {}
  /\ open' = [open EXCEPT ![r] = [pages |-> Q, old |-> prot[Min(Q)]]]
  /\ prot' = [q \in Page |-> IF q \in Q THEN PAGE_READWRITE ELSE prot[q]]
  /\ Meet({q \in Q : q \in Busy \/ prot[q] # prot[Min(Q)]})
  /\ Edit /\ UNCHANGED <<own, bps, th, pid, dbg, rows, session>>

(* clsDisassembler::run reads from the start of a page on, clsMemDump the  *)
(* region of a row, and holds it while the user picks a file.              *)
DisassemblerReads(q) ==
  "disassembler" \in Reader /\ "x" \in prot[q].acc /\ Protect("disassembler", Region(q, prot))
MemDump(row)         == "dump" \in Reader /\ Protect("dump", row)

(* The menu of a row: dump to file, or one of the protections.             *)
MenuCallback(row) == MemDump(row) \/ \E pr \in Menu : SetPageProtection(row, pr)

OnCustomContextMenuRequested == \E row \in rows : MenuCallback(row)

Unprotect(r) ==
  /\ open[r] # Closed
  /\ open' = [open EXCEPT ![r] = Closed]
  /\ prot' = IF InSession THEN [q \in Page |-> IF q \in open[r].pages THEN open[r].old ELSE prot[q]]
                          ELSE prot
  /\ Meet(open[r].pages \cap UNION {open[s].pages : s \in Reader \ {r}})
  /\ seen' = 0 /\ UNCHANGED <<own, bps, th, pid, dbg, rows, session, edits>>

-----------------------------------------------------------------------------
Loop == CreateProcess \/ EntryPoint \/ ExitProcess
        \/ MemoryHit \/ SingleStep \/ ForeignException

GUI == \/ \E s \in Shape : BreakpointAdd(s) \/ BreakpointRemove(s.offset)
       \/ DisplayMemory \/ OnCustomContextMenuRequested

Reads == \/ \E q \in Page : DisassemblerReads(q)
         \/ \E r \in Reader : Unprotect(r)

Next == Execute \/ Loop \/ ResumeDebugging \/ GUI \/ Reads

Spec == Init /\ [][Next]_vars

-----------------------------------------------------------------------------
(* Where only one change of protection is under way a page is protected as *)
(* its program wants it, unless a breakpoint or a reader holds it.         *)
Free(q) == q \notin mixed \cup Covered

(* What a breakpoint has saved, and what a page without one has, is what   *)
(* the program wants: hits, restores, removals and readers leave no        *)
(* protection of the debugger's behind.                                    *)
ProtectionReturns ==
  InSession => \A q \in Page : Free(q) =>
    /\ On(q) = {} => prot[q] = own[q]
    /\ \A i \in On(q) : bps[i].old = own[q]

(* A breakpoint is armed, or the step that arms it again is to come.       *)
ArmedOrStepping ==
  InSession => \A i \in DOMAIN bps : Free(PageOf(bps[i].offset)) =>
    \/ prot[PageOf(bps[i].offset)] = NewProtection(bps[i].type, own[PageOf(bps[i].offset)])
    \/ bps[i].restore /\ pid.flag = "RESTORE_BP_MEMORY" /\ th.tf
    \/ bps[i].restore /\ th.exc.code = "EXCEPTION_SINGLE_STEP"
    \/ th.exc.code = "EXCEPTION_GUARD_PAGE" /\ th.exc.page = PageOf(bps[i].offset)

(* A hit is passed: with the old protection back, or the guard gone, the   *)
(* instruction is executed before the debugger breaks on it again, unless  *)
(* the user or a reader has changed something, or the program itself       *)
(* cannot execute it.                                                      *)
HitsPass ==
  [][(MemoryHit /\ dbg' = "broke" /\ th.ip = seen)
       => FaultsAnyway(th.ip) \/ PageOf(th.ip) \in mixed]_vars

=============================================================================
