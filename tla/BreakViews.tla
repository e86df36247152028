------------------------------- MODULE BreakViews -------------------------------
(***************************************************************************)
(* The register, stack and call stack views, and the registers they edit.  *)
(*                                                                         *)
(* CallBreakDebugger copies the registers of the thread that broke into    *)
(* one of two global records, ProcessContext or wowProcessContext, waits,  *)
(* and writes the record back.  The GUI thread shows and changes the       *)
(* record meanwhile: the flags of the register view, the dialog of         *)
(* qtDLGRegEdit, "Set R/EIP to this", StepIn, and the hardware breakpoints *)
(* through SetNewThreadContext.  The call stack is walked on the pool.     *)
(*                                                                         *)
(* A register's value is the number of the break it was read at, or 0 if   *)
(* the user typed it; one register, one flag, the trap flag, one debug     *)
(* register and the instruction pointer stand for all.                     *)
(***************************************************************************)
EXTENDS Integers, SequencesExt

CONSTANTS
  Process, Main,  \* the processes, the one that was started
  Bits,           \* Bits[p]: "wow" if IsWow64Process, else "x64"
  Thread, Owner,  \* Owner[t]: the process of the thread
  First,          \* the main thread of Main
  Breaks,         \* bound: breaks in all
  Edits           \* bound: changes made by the user

ASSUME ConstantsOK ==
  /\ Main \in Process /\ Bits \in [Process -> {"wow", "x64"}]
  /\ Owner \in [Thread -> Process] /\ First \in Thread /\ Owner[First] = Main
  /\ Breaks \in Nat /\ Edits \in Nat

VARIABLES
  pc,       \* the debugger thread
  cur,      \* m_currentTID; First when not in a break
  brk,      \* breaks so far
  real,     \* registers of each thread
  context,  \* wowProcessContext and ProcessContext
  queue,    \* signals for the GUI thread
  regs, stack, callstack,  \* the three views
  dialog,   \* qtDLGRegEdit, modal
  hwCall,   \* wHardwareBP between SetThreadContext and SetNewThreadContext
  data,     \* m_processingData of the call stack worker
  walks,    \* its runs, queued or walking
  wanted,   \* registers of the break, with the user's changes
  spoilt,   \* the record was overwritten with other registers, see Overwrites
  overlap,  \* the last walk was started while another was under way
  edits

thread == <<pc, cur, brk, real>>
views  == <<regs, stack, callstack>>
worker == <<data, walks, overlap>>
vars   == <<thread, context, queue, views, dialog, hwCall, worker, wanted, spoilt, edits>>

None   == [none |-> TRUE]
Queued == [queued |-> TRUE]
Zero == [ip |-> 0, ax |-> 0, flag |-> FALSE, tf |-> FALSE, dr |-> FALSE]

InBreak == pc \in {"enter", "got", "parked", "pulsed", "left"}  \* m_debuggerBreak
Holds   == pc \in {"got", "parked", "pulsed"}                   \* the record is the thread's
Live    == pc # "gone"                                          \* GetDebuggingState

(* GetCurrentProcessHandle and GetCurrentTID: the main process and thread  *)
(* when nothing is broken.                                                 *)
CurrentTID     == IF InBreak THEN cur ELSE First
CurrentProcess == Owner[CurrentTID]
Wow            == Bits[CurrentProcess]

-----------------------------------------------------------------------------
(* The views.                                                              *)

(* The rows of LoadRegView: the registers of a record, by PrintValueInTable, *)
(* and the bits of EFlags; the debug registers are not among them.         *)
Registers(r)     == [ip |-> r.ip, ax |-> r.ax]
EFlags(r)        == [flag |-> r.flag, tf |-> r.tf]
LoadRegView(ctx) == [bits |-> Wow, rows |-> Registers(ctx[Wow]), flags |-> EFlags(ctx[Wow])]

(* ToggleFlag and SetEFlag.                                                *)
SetEFlag(r) == [r EXCEPT !.flag = ~@]

(* LoadStackView: rows of four or eight bytes; they stay what they were if *)
(* the memory cannot be read, which the stack of a break can.              *)
LoadStackView == Wow

(* setCallstackData without the wow registers.                             *)
ShowCallStackX64(ctx) ==
  /\ data' = [process |-> CurrentProcess, thread |-> CurrentTID, ip |-> ctx["x64"].ip]
  /\ walks' = Append(walks, Queued)
  /\ overlap' = (walks # <<>>)

(* setCallstackData, and a run of the one worker.                          *)
ShowCallStack(ctx) ==
  /\ data' = [process |-> CurrentProcess, thread |-> CurrentTID, ip |-> ctx[Wow].ip]
  /\ walks' = Append(walks, Queued)
  /\ overlap' = (walks # <<>>)

(* qtDLGNanomite::OnDebuggerBreak; the bar and the disassembler are        *)
(* modelled elsewhere.                                                     *)
OnDebuggerBreak(ctx) ==
  IF Live
  THEN /\ ShowCallStack(ctx)
       /\ regs' = LoadRegView(ctx)
       /\ stack' = LoadStackView
       /\ UNCHANGED callstack
  ELSE UNCHANGED <<views, worker>>

Init ==
  /\ pc = "run" /\ cur = First /\ brk = 0 /\ real = [t \in Thread |-> Zero]
  /\ context = [b \in {"wow", "x64"} |-> Zero] /\ queue = <<>>
  /\ regs = None /\ stack = "none" /\ callstack = None
  /\ dialog = None /\ hwCall = None
  /\ data = None /\ walks = <<>> /\ wanted = Zero /\ spoilt = FALSE
  /\ overlap = FALSE /\ edits = 0

-----------------------------------------------------------------------------
(* CallBreakDebugger.                                                      *)

(* A thread reaches a breakpoint: everything but the debug registers has   *)
(* changed; what the others are about is not told apart.                   *)
Enter(t) ==
  /\ pc = "run" /\ brk < Breaks
  /\ pc' = "enter" /\ cur' = t /\ brk' = brk + 1
  /\ real' = [x \in Thread |->
                [Zero EXCEPT !.dr = real[x].dr, !.ip = IF x = t THEN brk + 1 ELSE 0,
                             !.ax = IF x = t THEN brk + 1 ELSE 0]]
  /\ UNCHANGED <<context, queue, views, dialog, hwCall, worker, wanted, spoilt, edits>>

GetContext ==
  /\ pc = "enter" /\ pc' = "got"
  /\ context' = [context EXCEPT ![Wow] = real[cur]]
  /\ queue' = Append(queue, [sig |-> "OnDebuggerBreak"])
  /\ wanted' = real[cur] /\ spoilt' = FALSE
  /\ UNCHANGED <<cur, brk, real, views, dialog, hwCall, worker, edits>>

(* WaitForSingleObject(m_debugEvent, INFINITE).                            *)
Wait ==
  /\ pc = "got" /\ pc' = "parked"
  /\ UNCHANGED <<cur, brk, real, context, queue, views, dialog, hwCall, worker, wanted,
                 spoilt, edits>>

(* SetThreadContext.                                                       *)
SetContext ==
  /\ pc = "pulsed" /\ pc' = "left"
  /\ real' = [real EXCEPT ![cur] = context[Wow]]
  /\ wanted' = Zero /\ spoilt' = FALSE
  /\ UNCHANGED <<cur, brk, context, queue, views, dialog, hwCall, worker, edits>>

(* m_debuggerBreak = false: nothing is current any more.                   *)
BreakOver ==
  /\ pc = "left" /\ pc' = "run" /\ cur' = First
  /\ UNCHANGED <<brk, real, context, queue, views, dialog, hwCall, worker, wanted, spoilt,
                 edits>>

Terminated ==
  /\ pc = "run" /\ pc' = "gone"
  /\ queue' = Append(queue, [sig |-> "OnDebuggerTerminated"])
  /\ UNCHANGED <<cur, brk, real, context, views, dialog, hwCall, worker, wanted, spoilt,
                 edits>>

CallBreakDebugger ==
  \/ \E t \in Thread : Enter(t)
  \/ GetContext \/ Wait \/ SetContext \/ BreakOver \/ Terminated

-----------------------------------------------------------------------------
(* clsCallstackWorker::run: the registers and the thread are read from     *)
(* m_processingData when it starts, the process handle with every frame.   *)
Walk(i) ==
  /\ walks[i] = Queued
  /\ walks' = [walks EXCEPT ![i] = data]
  /\ UNCHANGED <<thread, context, queue, views, dialog, hwCall, data, overlap, wanted,
                 spoilt, edits>>

Walked(i) ==
  /\ walks[i] # Queued
  /\ walks' = RemoveAt(walks, i)
  /\ queue' = Append(queue, [sig |-> "OnCallstackFinished", ip |-> walks[i].ip,
                             thread |-> walks[i].thread, process |-> data.process])
  /\ UNCHANGED <<thread, context, views, dialog, hwCall, data, overlap, wanted, spoilt,
                 edits>>

Worker == \E i \in DOMAIN walks : Walk(i) \/ Walked(i)

-----------------------------------------------------------------------------
(* The GUI thread.                                                         *)

(* CleanGUI, for the three views: the FPU, MMX and SSE tables are kept.    *)
CleanGUI == regs' = None /\ stack' = "none" /\ callstack' = None

(* qtDLGCallstack::OnCallstack.                                            *)
OnCallstack(e) ==
  /\ callstack' = [ip |-> e.ip, thread |-> e.thread, process |-> e.process]
  /\ UNCHANGED <<regs, stack>>

Deliver ==
  /\ queue # <<>> /\ queue' = Tail(queue)
  /\ LET e == Head(queue)
     IN  CASE e.sig = "OnDebuggerBreak"      -> OnDebuggerBreak(context)
           [] e.sig = "OnDebuggerTerminated" -> CleanGUI /\ UNCHANGED worker
           [] e.sig = "OnCallstackFinished"  -> OnCallstack(e) /\ UNCHANGED worker
  /\ UNCHANGED <<thread, context, dialog, hwCall, wanted, spoilt, edits>>

(* No modal dialog, no call under way.                                     *)
Idle == dialog = None /\ hwCall = None

User == Idle /\ Live /\ edits < Edits /\ edits' = edits + 1

(* What the user meant for the thread that is broken.                      *)
Meant(w) == wanted' = IF Holds THEN w ELSE wanted

(* OnContextMenu: a row of the register view.                              *)
HasRow == regs # None

(* MenuCallback without LoadRegView.                                       *)
ToggleFlagUnseen ==
  /\ User /\ HasRow
  /\ context' = [context EXCEPT ![Wow] = SetEFlag(@)]
  /\ Meant(SetEFlag(wanted))
  /\ UNCHANGED <<thread, queue, views, dialog, hwCall, worker, spoilt>>

(* MenuCallback, "Toggle ... flag" on the row of the flag.                 *)
ToggleFlag ==
  /\ User /\ HasRow
  /\ context' = [context EXCEPT ![Wow] = SetEFlag(@)]
  /\ Meant(SetEFlag(wanted))
  /\ regs' = LoadRegView(context')
  /\ UNCHANGED <<thread, queue, stack, callstack, dialog, hwCall, worker, spoilt>>

(* "Set R/EIP to this", which also calls OnDebuggerBreak.                  *)
SetIP ==
  /\ User /\ brk > 0
  /\ context' = [context EXCEPT ![Wow].ip = 0]
  /\ Meant([wanted EXCEPT !.ip = 0])
  /\ OnDebuggerBreak(context')
  /\ UNCHANGED <<thread, queue, dialog, hwCall, spoilt>>

(* "Send to StackView" of the register view, OnStackScroll by the scroll   *)
(* bar, the wheel and the keys, and resizeEvent.                           *)
OnStackScroll ==
  /\ User /\ stack' = LoadStackView
  /\ UNCHANGED <<thread, context, queue, regs, callstack, dialog, hwCall, worker, wanted, spoilt>>

(* With the 64-bit record for every process.                               *)
EditsX64 == "x64"
Edited   == Wow

(* OnChangeRequest and FillGUI: the dialog copies the record.              *)
FillGUI(r) == [ip |-> r.ip, ax |-> r.ax, flag |-> r.flag, tf |-> r.tf]

OnChangeRequest ==
  /\ User /\ HasRow
  /\ dialog' = [bits |-> Edited, of |-> FillGUI(context[Edited]), at |-> IF Holds THEN brk ELSE 0]
  /\ UNCHANGED <<thread, context, queue, views, hwCall, worker, wanted, spoilt>>

(* OnSaveAndExit: all the registers of the dialog, one of which the user   *)
(* may have changed, are stored in the record.                             *)
OnSaveAndExit ==
  /\ dialog # None
  /\ \E typed \in BOOLEAN :
       LET of    == dialog.of
           value == IF typed THEN 0 ELSE of.ax
           saved == [context[dialog.bits] EXCEPT !.ip = of.ip, !.ax = value, !.flag = of.flag,
                                                 !.tf = of.tf]
       IN  /\ context' = [context EXCEPT ![dialog.bits] = saved]
           /\ IF Holds /\ dialog.at = brk
              THEN wanted' = [wanted EXCEPT !.ax = value] /\ UNCHANGED spoilt
              ELSE spoilt' = Holds /\ UNCHANGED wanted
  /\ regs' = LoadRegView(context')
  /\ dialog' = None
  /\ UNCHANGED <<thread, queue, stack, callstack, hwCall, worker, edits>>

OnExit ==
  /\ dialog # None /\ dialog' = None
  /\ UNCHANGED <<thread, context, queue, views, hwCall, worker, wanted, spoilt, edits>>

(* PulseEvent is lost on a debugger thread that does not wait.             *)
Pulse == pc' = IF pc = "parked" THEN "pulsed" ELSE pc

ResumeDebugging ==
  /\ Idle /\ Live /\ Pulse
  /\ UNCHANGED <<cur, brk, real, context, queue, views, dialog, hwCall, worker, wanted,
                 spoilt, edits>>

StepIn ==
  /\ User /\ Pulse
  /\ context' = [context EXCEPT ![Wow].tf = TRUE]
  /\ Meant([wanted EXCEPT !.tf = TRUE])
  /\ spoilt' = (spoilt \/ pc = "got")
  /\ UNCHANGED <<cur, brk, real, queue, views, dialog, hwCall, worker>>

-----------------------------------------------------------------------------
(* wHardwareBP and dHardwareBP from the GUI: the debug registers of every  *)
(* thread of a process, then the record of the current one.                *)
HardwareBP(p, on) ==
  LET set == [t \in Thread |-> IF Owner[t] = p THEN [real[t] EXCEPT !.dr = on] ELSE real[t]]
  IN  /\ User /\ real' = set
      /\ hwCall' = [process |-> p, of |-> set]
      /\ UNCHANGED <<pc, cur, brk, context, queue, views, dialog, worker, wanted, spoilt>>

(* Without the call of SetNewThreadContext.                                *)
NoNewThreadContext ==
  /\ hwCall # None /\ hwCall' = None
  /\ UNCHANGED <<thread, context, queue, views, dialog, worker, wanted, spoilt, edits>>

(* The registers the call has read replace the ones of the record: the     *)
(* user's changes are gone, or the thread has run since.                   *)
SetNewThreadContext ==
  /\ hwCall # None /\ hwCall' = None
  /\ LET new == hwCall.of[CurrentTID]
     IN  IF Owner[CurrentTID] = hwCall.process
         THEN /\ context' = [context EXCEPT ![Bits[hwCall.process]] = new]
              /\ Meant([wanted EXCEPT !.dr = new.dr])
              /\ spoilt' = (spoilt \/ (Holds /\ new # [context[Bits[hwCall.process]] EXCEPT !.dr = new.dr]))
         ELSE UNCHANGED <<context, wanted, spoilt>>
  /\ UNCHANGED <<thread, queue, views, dialog, worker, edits>>

Gui ==
  \/ Deliver \/ ToggleFlag \/ SetIP \/ OnStackScroll \/ OnChangeRequest \/ OnSaveAndExit
  \/ OnExit \/ ResumeDebugging \/ StepIn \/ SetNewThreadContext
  \/ \E p \in Process, on \in BOOLEAN : HardwareBP(p, on)

Next == CallBreakDebugger \/ Worker \/ Gui

Spec == Init /\ [][Next]_vars

-----------------------------------------------------------------------------
(* Properties.                                                             *)

(* The OnDebuggerBreak of the current break has been shown.                *)
Shown == pc = "parked" /\ \A i \in DOMAIN queue : queue[i].sig # "OnDebuggerBreak"

(* While a break is shown the register view shows what the thread would    *)
(* get, whichever of the two records it is kept in, and the rows of the    *)
(* stack have the width of its process.                                    *)
ViewsShowTheBreak ==
  LET now == context[Wow]
  IN  Shown /\ ~spoilt =>
        /\ regs.bits = Wow /\ stack = Wow
        /\ now.ip = regs.rows.ip /\ now.ax = regs.rows.ax
        /\ now.flag = regs.flags.flag /\ now.tf = regs.flags.tf

(* A thread goes on with the registers it had at the break and the changes *)
(* the user made during that break, and nothing else, unless a dialog that *)
(* was opened before the break was saved in it, or the call of a hardware  *)
(* breakpoint replaced the record.                                         *)
EditsReachTheThread ==
  [][pc = "pulsed" /\ pc' = "left" /\ ~spoilt /\ hwCall = None => real'[cur] = wanted]_vars

(* Writing the record back never changes the debug registers: a hardware   *)
(* breakpoint set during a break is not lost when it ends, one that was    *)
(* removed does not return, unless the call was under way when the break   *)
(* began or ended.                                                         *)
HardwareStays ==
  [][pc = "pulsed" /\ pc' = "left" /\ ~spoilt /\ hwCall = None
       => real'[cur].dr = real[cur].dr]_vars

(* When a break is shown and no walk is left, the call stack is that of    *)
(* the thread and the break, unless the last walk was started while        *)
(* another was under way.                                                  *)
CallStackIsCurrent ==
  Shown /\ walks = <<>> /\ queue = <<>> /\ ~overlap /\ ~spoilt
    => /\ callstack.thread = cur /\ callstack.process = Owner[cur]
       /\ callstack.ip \in {brk, 0}

=============================================================================
