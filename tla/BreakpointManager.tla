-------------------------- MODULE BreakpointManager --------------------------
(***************************************************************************)
(* clsBreakpointManager: the three breakpoint lists, what they do to the   *)
(* bytes and debug registers of the debuggees, and the events of a         *)
(* debugging session that rebase, re-arm, hit, restore and drop them.      *)
(*                                                                         *)
(* Three actors share the lists without a lock: the debugger thread        *)
(* (session events, hits, clean-up), the GUI thread (add, remove, clear,   *)
(* project files) and the disassembler worker, which takes the software    *)
(* breakpoints out of the debuggee while it reads code.  One list          *)
(* operation is one step; the two loops that other threads can watch half  *)
(* done, BreakpointClear and BreakpointCleanup, take one step per element. *)
(*                                                                         *)
(* Every debuggee runs the one image whose offsets are Rva, loaded at a    *)
(* base of Bases, and maps Heap, memory of no module.  The threads of a    *)
(* process have the same debug registers.  Page protections (memory        *)
(* breakpoints) and the single-step flags of several threads are not here. *)
(***************************************************************************)
EXTENDS Integers, SequencesExt

CONSTANTS
  Setups,    \* what the sessions of a behaviour are like, one of them chosen at Init
  AnyPid,    \* dwPID = -1, "every process"
  NoPid,     \* no process
  NoBackup,  \* bOrgByte == NULL
  EntryRva,  \* offset of the entry point
  Size       \* sizes offered for a software breakpoint

Kind    == {"SOFTWARE_BP", "MEMORY_BP", "HARDWARE_BP"}
OneShot == {"BP_DONOTKEEP", "BP_STEPOVER", "BP_TRACETO"}
Handle  == OneShot \cup {"BP_KEEP"}
Slot    == 0..3

ASSUME ConstantsOK ==
  /\ Size \subseteq {1, 2, 4} /\ 1 \in Size
  /\ AnyPid # NoPid
  /\ \A s \in Setups :
       /\ AnyPid \notin s.pids /\ NoPid \notin s.pids
       /\ EntryRva \in s.rvas
       /\ s.rvas \cup s.bases \cup s.heap \subseteq Nat \ {0}
       /\ "int3" \in s.opcodes /\ s.opcodes \subseteq {"int3", "hlt", "ud2"}
       /\ s.kinds \subseteq Kind /\ s.handles \subseteq Handle
       /\ s.users \subseteq s.pids \cup {AnyPid}
       /\ s.max \in Nat /\ s.sessions \in Nat /\ s.top \in Nat
       /\ s.may \subseteq {"childs", "project", "detach", "read", "race"}
  /\ \A n \in {1, 2, 4} : NoBackup \notin [0 .. n - 1 -> {"code", "int3", "hlt", "ud2"}]

VARIABLES
  setup,     \* one of Setups
  bps,       \* SoftwareBPs, MemoryBPs and HardwareBPs
  proc,      \* per pid: image base, memory and debug registers
  pids,      \* the processes of the list PIDs
  main,      \* m_dbgPI.dwProcessId, the first process of the session
  flag,      \* PIDStruct::dwBPRestoreFlag, with the trap flag of its thread
  dbg,       \* where the debugger thread is
  it,        \* iterator of BreakpointCleanup
  clr,       \* progress of BreakpointClear in the GUI thread
  stop,      \* m_stopDebugging
  hidden,    \* the process the disassembler worker is reading
  sessions   \* sessions started

vars == <<setup, bps, proc, pids, main, flag, dbg, it, clr, stop, hidden, sessions>>

(* What the setup says.                                                    *)
Pid           == setup.pids      \* process ids of debuggees
Rva           == setup.rvas      \* offsets of the image the user can pick
Bases         == setup.bases     \* addresses the loader may put the image at
Heap          == setup.heap      \* mapped addresses of no module
Opcode        == setup.opcodes   \* what a software breakpoint writes
UserKind      == setup.kinds     \* kinds of breakpoint the user adds
UserPid       == setup.users     \* pids the user gives a breakpoint
UserHandle    == setup.handles   \* handle types the user's commands add
MaxBPs        == setup.max       \* bound: length of a list
MaxSessions   == setup.sessions  \* bound: debugging sessions
MaxOffset     == setup.top       \* bound: an address a rebase may compute
DebugChilds   == "childs" \in setup.may   \* bDebugChilds: child processes are debugged too
ProjectFiles  == "project" \in setup.may  \* the user may load a project file
Detaching     == "detach" \in setup.may   \* the user may detach
Disassembling == "read" \in setup.may     \* the disassembler worker runs
EditsRace     == "race" \in setup.may     \* edits while BreakpointCleanup walks a list

-----------------------------------------------------------------------------
(* A debuggee.                                                             *)

Image(b) == {b + r : r \in Rva}

DeadProcess == [base |-> 0, mem |-> <<>>, dr |-> [s \in Slot |-> 0], on |-> {}]

NewProcess(b) == [base |-> b, mem |-> [a \in Image(b) \cup Heap |-> "code"],
                  dr |-> [s \in Slot |-> 0], on |-> {}]

Alive(pr) == DOMAIN pr.mem # {}
Running   == {p \in pids : Alive(proc[p])}

(* GetCurrentProcessHandle: a pid that is not in PIDs, -1 included, means  *)
(* the first process of the session.                                       *)
HandleOf(p) == IF p \in pids THEN p ELSE main
Accessed(h) == IF h \in Pid THEN proc[h] ELSE DeadProcess

-----------------------------------------------------------------------------
(* clsBreakpointSoftware and clsBreakpointHardware on one process.         *)

Cells(bp) == bp.offset .. (bp.offset + bp.size - 1)

Writable(bp, pr) == Cells(bp) \subseteq DOMAIN pr.mem

(* With the bytes read behind the write of its own.                        *)
BackupBehindWrite(bp, pr) == IF bp.org # NoBackup THEN bp.org
                             ELSE [k \in 0 .. bp.size - 1 |-> bp.data]

(* wSoftwareBP reads the bytes before it writes its own, and keeps an      *)
(* earlier backup.                                                         *)
Backup(bp, pr) == IF bp.org # NoBackup THEN bp.org
                  ELSE [k \in 0 .. bp.size - 1 |-> pr.mem[bp.offset + k]]

Armed(bp, op, pr) ==
  [pr EXCEPT !.mem = [a \in DOMAIN pr.mem |->
                        IF a \in Cells(bp) THEN op ELSE pr.mem[a]]]

wSoftwareBP(bp, op, pr) == IF Writable(bp, pr) THEN Armed(bp, op, pr) ELSE pr

(* With nothing written back.                                              *)
dSoftwareBPIdle(bp, pr) == pr

(* dSoftwareBP and the WriteProcessMemory of a hit put the backup back.    *)
dSoftwareBP(bp, pr) ==
  IF bp.org = NoBackup \/ ~Writable(bp, pr) THEN pr
  ELSE [pr EXCEPT !.mem = [a \in DOMAIN pr.mem |->
                             IF a \in Cells(bp) THEN bp.org[a - bp.offset]
                                                ELSE pr.mem[a]]]

(* With the register that is enabled taken for slot 0.                     *)
wHardwareBPSlotZero(bp, pr) ==
  IF Alive(pr) THEN [pr EXCEPT !.dr[bp.slot] = bp.offset, !.on = @ \cup {0}] ELSE pr

(* The enable bit of Dr7 goes by slot, the address register is the first   *)
(* one that holds the offset.                                              *)
wHardwareBP(bp, pr) ==
  IF Alive(pr) THEN [pr EXCEPT !.dr[bp.slot] = bp.offset, !.on = @ \cup {bp.slot}]
               ELSE pr

dHardwareBP(bp, pr) ==
  LET holding == {s \in Slot : pr.dr[s] = bp.offset}
  IN  [pr EXCEPT !.dr = [s \in Slot |-> IF holding # {} /\ s = Min(holding)
                                        THEN 0 ELSE pr.dr[s]],
                 !.on = @ \ {bp.slot}]

-----------------------------------------------------------------------------
(* CalcOffsetForModule: the base of the named module, or of the one the    *)
(* offset lies in, which it then names; else the offset it was given.      *)
CalcOffsetForModule(named, off, pr) ==
  IF Alive(pr) /\ (named \/ off \in Image(pr.base))
  THEN [base |-> pr.base, named |-> TRUE]
  ELSE [base |-> off, named |-> named]

(* With the base assigned before the old one is subtracted.                *)
RebasedBaseFirst(bp, pr) ==
  LET c == CalcOffsetForModule(bp.named, bp.offset, pr)
  IN  IF bp.handle # "BP_KEEP" THEN bp
      ELSE [bp EXCEPT !.offset = (@ - c.base) + c.base, !.base = c.base, !.named = c.named]

(* BreakpointRebase, for the elements BreakpointUpdateOffsets visits.      *)
Rebased(bp, pr) ==
  LET c == CalcOffsetForModule(bp.named, bp.offset, pr)
  IN  IF bp.handle # "BP_KEEP" THEN bp
      ELSE [bp EXCEPT !.offset = (@ - bp.base) + c.base,
                      !.base = c.base, !.named = c.named]

UpdateOffsets(B) ==
  [k \in Kind |-> [i \in DOMAIN B[k] |->
                     Rebased(B[k][i], Accessed(HandleOf(B[k][i].pid)))]]

(* BreakpointInit: arms in p every breakpoint that has a base.  It passes  *)
(* no dwDataType, so wSoftwareBP writes its default, an int3.              *)
Eligible(bp, p) == bp.base # 0 /\ bp.pid \in {AnyPid, p}

InitSoftware(L, p, pr) ==
  LET I == {i \in DOMAIN L : Eligible(L[i], p) /\ Writable(L[i], pr)}
      At(i, a) == IF \E j \in I : j < i /\ a \in Cells(L[j]) THEN "int3"
                                                              ELSE pr.mem[a]
  IN  [list |-> [i \in DOMAIN L |->
                   IF i \in I /\ L[i].org = NoBackup
                   THEN [L[i] EXCEPT !.org = [k \in 0 .. L[i].size - 1 |->
                                                At(i, L[i].offset + k)]]
                   ELSE L[i]],
       mem  |-> [a \in DOMAIN pr.mem |->
                   IF \E i \in I : a \in Cells(L[i]) THEN "int3" ELSE pr.mem[a]]]

InitHardware(L, p, pr) ==
  LET I(s) == {i \in DOMAIN L : Eligible(L[i], p) /\ L[i].slot = s}
  IN  [pr EXCEPT !.dr = [s \in Slot |-> IF I(s) = {} THEN pr.dr[s]
                                        ELSE L[Max(I(s))].offset],
                 !.on = @ \cup {s \in Slot : I(s) # {}}]

BreakpointInit(B, P, p) ==
  LET sw == InitSoftware(B["SOFTWARE_BP"], p, P[p])
  IN  [bps  |-> [B EXCEPT !["SOFTWARE_BP"] = sw.list],
       proc |-> [P EXCEPT ![p] = InitHardware(B["HARDWARE_BP"], p,
                                              [@ EXCEPT !.mem = sw.mem])]]

-----------------------------------------------------------------------------
(* The list operations.  B and P stand for bps and proc; h is the process  *)
(* a pid means at the call.                                                *)

Exists(B, off) == \E k \in Kind : \E i \in DOMAIN B[k] : B[k][i].offset = off

Matching(L, off) == {i \in DOMAIN L : L[i].offset = off}

(* BreakpointFind with takeAll.                                            *)
Found(L, off, p) == {i \in Matching(L, off) : L[i].pid \in {AnyPid, p}}

FreeSlots(L) == Slot \ {L[i].slot : i \in DOMAIN L}

NewBP(pid, off, size, hd, op, pr) ==
  LET c == IF hd = "BP_KEEP" THEN CalcOffsetForModule(FALSE, off, pr)
                             ELSE [base |-> 0, named |-> FALSE]
  IN  [offset |-> off, base |-> c.base, named |-> c.named, pid |-> pid,
       handle |-> hd, size |-> IF op = "ud2" THEN 2 ELSE size, data |-> op,
       org |-> NoBackup, slot |-> 0, restore |-> FALSE]

(* BreakpointAdd.  cur is GetCurrentPID, the process wHardwareBP takes for *)
(* pid -1; it reports success whether or not it met a thread.              *)
BreakpointAdd(B, P, k, pid, h, cur, off, size, hd, op) ==
  LET pr == IF h \in Pid THEN P[h] ELSE DeadProcess
      bp == NewBP(pid, off, size, hd, op, pr)
      hw == IF FreeSlots(B[k]) = {} THEN bp
            ELSE [bp EXCEPT !.slot = Max(FreeSlots(B[k]))]
      t  == IF pid = AnyPid THEN cur ELSE pid
      Appended(x) == [B EXCEPT ![k] = Append(@, x)]
      Failed == [bps |-> B, proc |-> P]
  IN  IF Exists(B, off) THEN Failed
      ELSE CASE k = "SOFTWARE_BP" ->
                  IF ~Writable(bp, pr) THEN Failed
                  ELSE [bps  |-> Appended([bp EXCEPT !.org = Backup(bp, pr)]),
                        proc |-> [P EXCEPT ![h] = Armed(bp, op, @)]]
             [] k = "MEMORY_BP" ->
                  IF off \notin DOMAIN pr.mem THEN Failed
                  ELSE [bps |-> Appended(bp), proc |-> P]
             [] OTHER ->
                  IF Len(B[k]) = 4 THEN Failed
                  ELSE [bps  |-> Appended(hw),
                        proc |-> IF t \in Pid THEN [P EXCEPT ![t] = wHardwareBP(hw, @)]
                                              ELSE P]

(* BreakpointRemove: the first element with the offset, whatever its pid.  *)
(* dHardwareBP does not translate pid -1 and meets no thread for it.       *)
BreakpointRemove(B, P, k, off) ==
  LET i  == Min(Matching(B[k], off))
      bp == B[k][i]
      h  == HandleOf(bp.pid)
  IN  IF Matching(B[k], off) = {} THEN [bps |-> B, proc |-> P]
      ELSE [bps  |-> [B EXCEPT ![k] = RemoveAt(@, i)],
            proc |-> CASE k = "SOFTWARE_BP" /\ h \in Pid ->
                            [P EXCEPT ![h] = dSoftwareBP(bp, @)]
                       [] k = "HARDWARE_BP" /\ bp.pid \in Pid ->
                            [P EXCEPT ![bp.pid] = dHardwareBP(bp, @)]
                       [] OTHER -> P]

-----------------------------------------------------------------------------
NotClearing == [kind |-> "none", i |-> 0]

Init ==
  /\ setup \in Setups
  /\ bps = [k \in Kind |-> <<>>]
  /\ proc = [p \in Pid |-> DeadProcess]
  /\ pids = {} /\ main = NoPid
  /\ flag = [p \in Pid |-> "RESTORE_NON"]
  /\ dbg = "idle" /\ it = 1 /\ stop = FALSE
  /\ clr = NotClearing /\ hidden = NoPid /\ sessions = 0

(* What a step of the lists and the debuggees leaves alone.                *)
KeepSession == UNCHANGED <<setup, pids, main, dbg, it, stop, sessions>>

(* --- debugger thread: run, DebuggingLoop, CleanWorkSpace --------------- *)

(* With no CleanWorkSpace before the debuggee is created.  The GUI thread  *)
(* starts a session, so not in the middle of its own RemoveAllBreakpoints. *)
StartSessionUnclean ==
  /\ dbg = "idle" /\ clr = NotClearing /\ sessions < MaxSessions
  /\ dbg' = "loop" /\ it' = 1 /\ stop' = FALSE /\ sessions' = sessions + 1
  /\ UNCHANGED <<setup, bps, proc, pids, main, flag, clr, hidden>>

(* run: m_stopDebugging = false, then CleanWorkSpace before the debuggee   *)
(* is created.                                                             *)
StartSession ==
  /\ dbg = "idle" /\ clr = NotClearing /\ sessions < MaxSessions
  /\ dbg' = "enter" /\ it' = 1 /\ stop' = FALSE /\ sessions' = sessions + 1
  /\ UNCHANGED <<setup, bps, proc, pids, main, flag, clr, hidden>>

(* BreakpointCleanup: erase restarts the iterator, which the loop then     *)
(* increments; the new head is not looked at.                              *)
CleanupStep ==
  LET L == bps["SOFTWARE_BP"]
  IN  /\ dbg \in {"enter", "leave"} /\ it <= Len(L)
      /\ IF L[it].handle = "BP_KEEP"
         THEN it' = it + 1 /\ bps' = bps
         ELSE /\ bps' = [bps EXCEPT !["SOFTWARE_BP"] = RemoveAt(@, it)]
              /\ it' = IF Len(L) = 1 THEN 1 ELSE 2
      /\ UNCHANGED <<setup, proc, pids, main, flag, dbg, clr, stop, hidden, sessions>>

CleanWorkSpaceDone ==
  /\ dbg \in {"enter", "leave"} /\ it > Len(bps["SOFTWARE_BP"])
  /\ dbg' = IF dbg = "enter" THEN "loop" ELSE "idle"
  /\ pids' = {} /\ main' = NoPid /\ flag' = [p \in Pid |-> "RESTORE_NON"]
  /\ UNCHANGED <<setup, bps, proc, it, clr, stop, hidden, sessions>>

(* CREATE_PROCESS_DEBUG_EVENT, with bBreakOnTLS off: the debuggee of the   *)
(* session, or a child of a debuggee.                                      *)
CreateProcess(p, b) ==
  LET fresh == [proc EXCEPT ![p] = NewProcess(b)]
      R     == BreakpointInit(bps, fresh, p)
      A     == BreakpointAdd(R.bps, R.proc, "SOFTWARE_BP", p, p, p, b + EntryRva,
                             1, "BP_DONOTKEEP", "int3")
  IN  /\ dbg = "loop" /\ ~stop /\ ~Alive(proc[p]) /\ p \notin pids
      /\ pids = {} \/ (DebugChilds /\ Running # {})
      /\ Len(bps["SOFTWARE_BP"]) < MaxBPs
      /\ bps' = A.bps /\ proc' = A.proc
      /\ pids' = pids \cup {p}
      /\ main' = IF main = NoPid THEN p ELSE main
      /\ UNCHANGED <<setup, flag, dbg, it, clr, stop, hidden, sessions>>

(* EXIT_PROCESS_DEBUG_EVENT: the entry stays in PIDs; the loop ends with   *)
(* the last running process.                                               *)
ExitProcess(p) ==
  /\ dbg = "loop" /\ ~stop /\ p \in Running
  /\ proc' = [proc EXCEPT ![p] = DeadProcess]
  /\ IF Running = {p} THEN dbg' = "leave" /\ it' = 1 ELSE UNCHANGED <<dbg, it>>
  /\ UNCHANGED <<setup, bps, pids, main, flag, clr, stop, hidden, sessions>>

(* The first debug event after DetachFromProcess set m_stopDebugging       *)
(* detaches, whether or not BreakpointClear is done.                       *)
StopLoop ==
  /\ dbg = "loop" /\ stop /\ Running # {}
  /\ dbg' = "leave" /\ it' = 1 /\ stop' = FALSE
  /\ UNCHANGED <<setup, bps, proc, pids, main, flag, clr, hidden, sessions>>

(* With the flag forgotten at the entry point.                             *)
RestoreFlagNotAtEntry(p, keep, isEP, bp) ==
  IF ~isEP /\ (keep \/ bp.handle \in {"BP_DONOTKEEP", "BP_STEPOVER"})
  THEN [flag EXCEPT ![p] = "RESTORE_BP_SOFTWARE"] ELSE flag

(* dwBPRestoreFlag and the trap flag after a hit of bp: in the int3 branch *)
(* also for the one-shot breakpoints but trace-to.                         *)
RestoreFlag(p, keep, isEP, bp) ==
  IF keep \/ (~isEP /\ bp.handle \in {"BP_DONOTKEEP", "BP_STEPOVER"})
  THEN [flag EXCEPT ![p] = "RESTORE_BP_SOFTWARE"] ELSE flag

(* A software breakpoint is executed in p: EXCEPTION_BREAKPOINT, or for    *)
(* hlt and ud2 the privileged and illegal instruction exceptions.  At the  *)
(* entry point the int3 branch first rebases and re-arms every breakpoint. *)
SoftwareHit(p, a) ==
  LET isEP == a = proc[p].base + EntryRva /\ proc[p].mem[a] = "int3"
      B1   == UpdateOffsets(bps)
      R    == IF isEP THEN BreakpointInit(B1, proc, p)
                      ELSE [bps |-> bps, proc |-> proc]
      L    == R.bps["SOFTWARE_BP"]
      i    == Min(Found(L, a, p))
      back == [R.proc EXCEPT ![p] = dSoftwareBP(L[i], @)]
      keep == L[i].handle = "BP_KEEP" \/ proc[p].mem[a] # "int3"
      rem  == BreakpointRemove(R.bps, back, "SOFTWARE_BP", a)
  IN  /\ dbg = "loop" /\ ~stop /\ p \in Running /\ flag[p] = "RESTORE_NON"
      /\ a \in DOMAIN proc[p].mem /\ proc[p].mem[a] # "code"
      /\ isEP => \A k \in Kind : \A j \in DOMAIN B1[k] : B1[k][j].offset <= MaxOffset
      /\ IF Found(L, a, p) = {}
         THEN bps' = R.bps /\ proc' = R.proc /\ flag' = flag
         ELSE /\ IF keep
                 THEN /\ bps' = [R.bps EXCEPT !["SOFTWARE_BP"][i].restore = TRUE]
                      /\ proc' = back
                 ELSE bps' = rem.bps /\ proc' = rem.proc
              /\ flag' = RestoreFlag(p, keep, isEP, L[i])
      /\ KeepSession /\ UNCHANGED <<clr, hidden>>

(* A hardware breakpoint on execution fires in p.                          *)
HardwareHit(p, s) ==
  LET L == bps["HARDWARE_BP"]
      i == Min(Found(L, proc[p].dr[s], p))
  IN  /\ dbg = "loop" /\ ~stop /\ p \in Running /\ flag[p] = "RESTORE_NON"
      /\ s \in proc[p].on /\ Found(L, proc[p].dr[s], p) # {}
      /\ bps' = [bps EXCEPT !["HARDWARE_BP"][i].restore = TRUE]
      /\ proc' = [proc EXCEPT ![p] = dHardwareBP(L[i], @)]
      /\ flag' = [flag EXCEPT ![p] = "RESTORE_BP_HARDWARE"]
      /\ KeepSession /\ UNCHANGED <<clr, hidden>>

(* The single step after a hit: the first kept breakpoint of the kind that *)
(* waits for it is armed again, in the process its own dwPID means.        *)
SingleStep(p) ==
  LET k == IF flag[p] = "RESTORE_BP_SOFTWARE" THEN "SOFTWARE_BP" ELSE "HARDWARE_BP"
      L == bps[k]
      W == {i \in DOMAIN L : /\ L[i].restore /\ L[i].handle = "BP_KEEP"
                             /\ L[i].pid \in {AnyPid, p}}
      bp == L[Min(W)]
      h == HandleOf(bp.pid)
  IN  /\ dbg = "loop" /\ ~stop /\ p \in Running /\ flag[p] # "RESTORE_NON"
      /\ flag' = [flag EXCEPT ![p] = "RESTORE_NON"]
      /\ IF W = {} THEN UNCHANGED <<bps, proc>>
         ELSE /\ bps' = [bps EXCEPT ![k][Min(W)].restore = FALSE,
                            ![k][Min(W)].org =
                               IF k = "SOFTWARE_BP" /\ Writable(bp, Accessed(h))
                               THEN Backup(bp, Accessed(h)) ELSE @]
              /\ proc' = CASE k = "HARDWARE_BP" -> [proc EXCEPT ![p] = wHardwareBP(bp, @)]
                           [] k = "SOFTWARE_BP" /\ h \in Pid ->
                                [proc EXCEPT ![h] = wSoftwareBP(bp, bp.data, @)]
                           [] OTHER -> proc
      /\ KeepSession /\ UNCHANGED <<clr, hidden>>

(* --- GUI thread -------------------------------------------------------- *)

(* A QList that is edited while another thread walks it has no defined     *)
(* behaviour; the step the model gives it is the one where indices shift.  *)
MayEdit == clr = NotClearing /\ (dbg \in {"idle", "loop"} \/ EditsRace)

(* F2, F4, step over, trace-to and the breakpoint manager dialog.          *)
GUIAdd(k, pid, off, size, hd, op) ==
  \E cur \in IF Running = {} THEN {main} ELSE Running :
    LET A == BreakpointAdd(bps, proc, k, pid, HandleOf(pid), cur, off, size, hd, op)
    IN  /\ MayEdit /\ Len(bps[k]) < MaxBPs
        /\ hd # "BP_KEEP" => k = "SOFTWARE_BP" /\ Running # {}
        /\ bps' = A.bps /\ proc' = A.proc
        /\ KeepSession /\ UNCHANGED <<flag, clr, hidden>>

GUIRemove(k, off) ==
  LET R == BreakpointRemove(bps, proc, k, off)
  IN  /\ MayEdit
      /\ bps' = R.bps /\ proc' = R.proc
      /\ KeepSession /\ UNCHANGED <<flag, clr, hidden>>

(* DetachFromProcess: the stop flag is up before the lists are cleared.    *)
Detach ==
  /\ Detaching /\ clr = NotClearing /\ dbg = "loop" /\ ~stop /\ Running # {}
  /\ stop' = TRUE
  /\ clr' = [kind |-> "SOFTWARE_BP", i |-> 1]
  /\ UNCHANGED <<setup, bps, proc, pids, main, flag, dbg, it, hidden, sessions>>

(* ClearDebugData before a project file is read or a new file is opened.   *)
StartClear ==
  /\ ProjectFiles /\ clr = NotClearing /\ dbg = "idle"
  /\ clr' = [kind |-> "SOFTWARE_BP", i |-> 1]
  /\ UNCHANGED <<setup, bps, proc, pids, main, flag, dbg, it, stop, hidden, sessions>>

(* BreakpointClear: BreakpointRemove shortens the list the index runs      *)
(* over; after the third loop the lists are emptied.                       *)
ClearStep ==
  LET k == clr.kind
      R == BreakpointRemove(bps, proc, k, bps[k][clr.i].offset)
      next == IF k = "SOFTWARE_BP" THEN "MEMORY_BP" ELSE "HARDWARE_BP"
  IN  /\ clr # NotClearing
      /\ IF clr.i <= Len(bps[k])
         THEN bps' = R.bps /\ proc' = R.proc /\ clr' = [clr EXCEPT !.i = @ + 1]
         ELSE /\ proc' = proc
              /\ IF k = "HARDWARE_BP"
                 THEN bps' = [kk \in Kind |-> <<>>] /\ clr' = NotClearing
                 ELSE bps' = bps /\ clr' = [kind |-> next, i |-> 1]
      /\ KeepSession /\ UNCHANGED <<flag, hidden>>

(* BreakpointInsertFromProjectFile for one entry: dwOffset is the offset   *)
(* in the module, dwPID is -1, and base, slot and backup are zero.         *)
InsertFromProjectFile(k, r, size, op) ==
  /\ ProjectFiles /\ clr = NotClearing /\ dbg = "idle"
  /\ \A kk \in Kind : \A i \in DOMAIN bps[kk] :
       bps[kk][i].base = 0 /\ bps[kk][i].offset # r
  /\ Len(bps[k]) < MaxBPs
  /\ bps' = [bps EXCEPT ![k] = Append(@,
       [offset |-> r, base |-> 0, named |-> TRUE, pid |-> AnyPid,
        handle |-> "BP_KEEP", size |-> IF op = "ud2" THEN 2 ELSE size,
        data |-> op, org |-> NoBackup, slot |-> 0, restore |-> FALSE])]
  /\ KeepSession /\ UNCHANGED <<proc, flag, clr, hidden>>

(* --- disassembler worker: RemoveSBPFromMemory around its read ---------- *)

(* The elements it visits, and the last of them to touch a cell of h.      *)
Visited(p) == {i \in DOMAIN bps["SOFTWARE_BP"] :
                 /\ bps["SOFTWARE_BP"][i].pid \in {AnyPid, p}
                 /\ ~bps["SOFTWARE_BP"][i].restore
                 /\ Writable(bps["SOFTWARE_BP"][i],
                             Accessed(HandleOf(bps["SOFTWARE_BP"][i].pid)))}
LastOver(I, h, a) == {i \in I : /\ HandleOf(bps["SOFTWARE_BP"][i].pid) = h
                                /\ a \in Cells(bps["SOFTWARE_BP"][i])
                                /\ \A j \in I : j > i =>
                                     \/ HandleOf(bps["SOFTWARE_BP"][j].pid) # h
                                     \/ a \notin Cells(bps["SOFTWARE_BP"][j])}

Hide(p) ==
  LET L == bps["SOFTWARE_BP"]
      I == {i \in Visited(p) : L[i].org # NoBackup}
  IN  /\ Disassembling /\ hidden = NoPid /\ p \in Running
      /\ hidden' = p
      /\ proc' = [h \in Pid |-> [proc[h] EXCEPT !.mem =
           [a \in DOMAIN proc[h].mem |->
              IF LastOver(I, h, a) = {} THEN proc[h].mem[a]
              ELSE LET i == Min(LastOver(I, h, a)) IN L[i].org[a - L[i].offset]]]]
      /\ KeepSession /\ UNCHANGED <<bps, flag, clr>>

(* wSoftwareBP for each of them: one without a backup keeps the bytes it   *)
(* finds, which an earlier one may have written.                           *)
Show ==
  LET L == bps["SOFTWARE_BP"]
      I == Visited(hidden)
      Written(J, h, a) == IF LastOver(J, h, a) = {} THEN proc[h].mem[a]
                          ELSE L[Min(LastOver(J, h, a))].data
      Before(i, a) == Written({j \in I : j < i}, HandleOf(L[i].pid), a)
  IN  /\ hidden # NoPid
      /\ hidden' = NoPid
      /\ bps' = [bps EXCEPT !["SOFTWARE_BP"] = [i \in DOMAIN L |->
           IF i \in I /\ L[i].org = NoBackup
           THEN [L[i] EXCEPT !.org = [k \in 0 .. L[i].size - 1 |-> Before(i, L[i].offset + k)]]
           ELSE L[i]]]
      /\ proc' = [h \in Pid |-> [proc[h] EXCEPT !.mem =
           [a \in DOMAIN proc[h].mem |-> Written(I, h, a)]]]
      /\ KeepSession /\ UNCHANGED <<flag, clr>>

-----------------------------------------------------------------------------
(* What the GUI offers.  Sizes and opcodes tell only software breakpoints  *)
(* apart; a one-shot breakpoint is a software int3 of one byte.            *)
Shape == {[kind |-> "SOFTWARE_BP", size |-> s, handle |-> "BP_KEEP", op |-> o]
            : s \in Size, o \in Opcode}
         \cup [kind : {"SOFTWARE_BP"}, size : {1}, handle : OneShot, op : {"int3"}]
         \cup [kind : {"MEMORY_BP", "HARDWARE_BP"}, size : {1}, handle : {"BP_KEEP"},
               op : {"int3"}]

Offered == {s \in Shape : s.kind \in UserKind /\ s.handle \in UserHandle}

Address == (UNION {Image(b) : b \in Bases}) \cup Heap
Offsets(L) == {L[i].offset : i \in DOMAIN L}

Debugger == \/ StartSession \/ CleanupStep \/ CleanWorkSpaceDone \/ StopLoop
            \/ \E p \in Pid :
                 \/ \E b \in Bases : CreateProcess(p, b)
                 \/ ExitProcess(p) \/ SingleStep(p)
                 \/ \E a \in Address : SoftwareHit(p, a)
                 \/ \E s \in Slot : HardwareHit(p, s)

GUI == \/ \E s \in Offered, pid \in UserPid, off \in Address :
            GUIAdd(s.kind, pid, off, s.size, s.handle, s.op)
       \/ \E k \in UserKind : \E off \in Offsets(bps[k]) : GUIRemove(k, off)
       \/ Detach \/ StartClear \/ ClearStep
       \/ \E s \in Offered, r \in Rva :
            s.handle = "BP_KEEP" /\ InsertFromProjectFile(s.kind, r, s.size, s.op)

Disassembler == Show \/ \E p \in Pid : Hide(p)

Next == Debugger \/ GUI \/ Disassembler

Spec == Init /\ [][Next]_vars

-----------------------------------------------------------------------------
(* Safety.                                                                 *)

SW == bps["SOFTWARE_BP"]
HW == bps["HARDWARE_BP"]

(* Every opcode a debuggee would trap on belongs to a software breakpoint  *)
(* of the list that applies to it: nothing the debugger wrote outlives its *)
(* list entry, whatever the order of adds, removes, hits and restores.     *)
(* Detaching and project files are left out: DetachFromProcess clears half *)
(* of the traps, and a project breakpoint can save the debugger's own.     *)
NoStrayTrap ==
  ~(Detaching \/ ProjectFiles) =>
    \A p \in Running : \A a \in DOMAIN proc[p].mem :
      proc[p].mem[a] # "code" =>
        \E i \in DOMAIN SW : a \in Cells(SW[i]) /\ SW[i].pid \in {AnyPid, p}

(* A backup holds the program's own bytes, never another breakpoint's.     *)
BackupsAreOriginal ==
  ~ProjectFiles =>
    \A i \in DOMAIN SW :
      SW[i].org # NoBackup => \A k \in DOMAIN SW[i].org : SW[i].org[k] = "code"

Disarmed(p) == {i \in DOMAIN SW :
                  /\ SW[i].handle = "BP_KEEP" /\ SW[i].base # 0
                  /\ SW[i].pid \in {AnyPid, p} /\ Writable(SW[i], proc[p])
                  /\ \A j \in DOMAIN SW : SW[j].offset = SW[i].offset => j = i
                  /\ \E a \in Cells(SW[i]) : proc[p].mem[a] = "code"}

(* A kept software breakpoint whose bytes are mapped is armed in every     *)
(* running debuggee it applies to, unless it waits for a single step, the  *)
(* disassembler has taken it out or its offset is in the list twice: hits, *)
(* restores, re-arming after a rebase and the worker's read leave none     *)
(* disarmed by accident.  And the step it waits for is really to come:     *)
(* DebuggingLoop has set the trap flag of the process and "Restore         *)
(* SoftwareBP" is next.  Left out are children, which lose a breakpoint of *)
(* every process at its first hit, and a second session, whose rebase may  *)
(* put two breakpoints on one offset and which may find a mark of the      *)
(* first.                                                                  *)
ArmedUnlessWaiting ==
  (hidden = NoPid /\ ~DebugChilds /\ MaxSessions = 1) =>
    \A p \in Running : Disarmed(p) # {} =>
      /\ \A i \in Disarmed(p) : SW[i].restore
      /\ flag[p] = "RESTORE_BP_SOFTWARE"

(* When the debugger waits for the first event of a session, the one-shot  *)
(* breakpoints of earlier sessions are gone.  One pass of                  *)
(* BreakpointCleanup can miss the head of the list; two passes, at the end *)
(* of a session and at the start of the next, do not.                      *)
OneShotsGone ==
  (dbg = "loop" /\ pids = {}) => \A i \in DOMAIN SW : SW[i].handle = "BP_KEEP"

(* There are four debug registers; a hardware breakpoint of one process is *)
(* enabled there in a register of its own, unless the process is between   *)
(* its hit and its single step.  Those of a project file are left out: they *)
(* all get slot 0; and so are those of no cell of Rva: the entry point     *)
(* moves all that were set before there was a process onto the base, and   *)
(* removing one of them then takes the register of another.                *)
HardwareArmed ==
  ~ProjectFiles =>
    /\ Len(HW) <= 4
    /\ \A i, j \in DOMAIN HW : HW[i].slot = HW[j].slot => i = j
    /\ \A p \in Running : \A i \in DOMAIN HW :
         (HW[i].pid = p /\ ~HW[i].restore /\ HW[i].offset \in Image(proc[p].base))
           => HW[i].slot \in proc[p].on /\ proc[p].dr[HW[i].slot] = HW[i].offset

Rearmed(p) ==
  \A i \in DOMAIN SW' :
    LET bp == SW'[i]
    IN  (bp.handle = "BP_KEEP" /\ bp.named /\ bp.pid \in {AnyPid, p}
         /\ bp.offset # proc[p].base + EntryRva)
           => /\ bp.offset \in Image(proc[p].base)
              /\ Writable(bp, proc[p]) => proc'[p].mem[bp.offset] # "code"

(* At the entry point, where all modules are mapped, BreakpointUpdateOffsets *)
(* runs before BreakpointInit: when the debuggee stops there, every kept   *)
(* breakpoint of the module is at its place in it, and armed there.  A     *)
(* breakpoint of every process is placed by the image of the first one,    *)
(* which has to be there still.                                            *)
RearmedAtEntry ==
  [][\A p \in Pid : (/\ SoftwareHit(p, proc[p].base + EntryRva)
                     /\ proc[p].mem[proc[p].base + EntryRva] = "int3"
                     /\ main \in Running) => Rearmed(p)]_vars

=============================================================================
