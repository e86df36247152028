------------------------------ MODULE Stepping ------------------------------
(***************************************************************************)
(* The exception branches of DebuggingLoop, the breaks in which the user   *)
(* steps or traces, and what they leave in the flags of the process, in    *)
(* m_singleStepFlag and in the trap flag of each thread.                   *)
(*                                                                         *)
(* One debuggee runs a program of a few instructions: Flow says which is   *)
(* executed next, Over where a step over of it ends.  An instruction       *)
(* stands at its address; an int3 is one byte long, so a thread that       *)
(* executed one at a stands at a + 1.  The processor clears the trap flag  *)
(* when it raises a single step.  An exception waits in its thread until   *)
(* WaitForDebugEvent returns it; meanwhile the other threads go on.        *)
(*                                                                         *)
(* The lists as such, several processes and rebasing are in                *)
(* BreakpointManager; memory breakpoints and access violations are not     *)
(* here, nor are the other debug events.                                   *)
(***************************************************************************)
EXTENDS Integers, SequencesExt

CONSTANTS
  Thread,   \* threads of the debuggee
  NoThread, \* no thread
  Addr,     \* addresses of instructions
  Start,    \* address at which the threads start
  Flow,     \* the instruction executed after the one at an address
  Over,     \* offset that action_DebugStepOver picks, unless it is a return
  Return,   \* the return address on top of the call stack, in a function
  Setups    \* what a session has: breakpoints, own int3s, returns, commands

Command == {"run", "in", "over", "out", "until", "trace", "traceTo", "traceStop"}

ASSUME ProgramOK ==
  /\ Addr \subseteq Nat \ {0} /\ Start \in Addr
  /\ Flow \in [Addr -> Addr]
  /\ Over \in [Addr -> Addr]
  /\ DOMAIN Return \subseteq Addr /\ \A a \in DOMAIN Return : Return[a] \in Addr
  /\ NoThread \notin Thread
  /\ \A s \in Setups : /\ s.asks \subseteq Command /\ s.own \cup s.ret \subseteq Addr
                       /\ \A a \in s.own : Flow[a] = a + 1
                       /\ s.int3 \cup s.ud2 \cup s.hard \subseteq Addr \ s.own
                       /\ IsFiniteSet(s.int3 \cup s.ud2 \cup s.hard)
                       /\ s.int3 \cap s.ud2 = {} /\ (s.int3 \cup s.ud2) \cap s.hard = {}

VARIABLES
  setup,   \* the session, constant
  th,      \* per thread: ip, trap flag, exception that waits to be handled
  mem,     \* per address: "code" or the opcode written over it
  sw, hw,  \* SoftwareBPs and HardwareBPs
  pid,     \* bTrapFlag, dwBPRestoreFlag and bTraceFlag of the process
  single,  \* m_singleStepFlag
  dbg,     \* the break the debugger thread waits in, if any
  ctx,     \* ProcessContext: ip and trap flag
  cmd,     \* what the user asked for last, and where
  seen     \* per thread: how it was seen at its instruction

vars == <<setup, th, mem, sw, hw, pid, single, dbg, ctx, cmd, seen>>

-----------------------------------------------------------------------------
(* Breakpoints.  dwPID is the process, "any" (-1) or "none" (0, which is   *)
(* m_currentPID while nothing is broken).                                  *)

Entry(a, op, h, p) == [at |-> a, op |-> op, handle |-> h, pid |-> p, restore |-> FALSE]

(* BreakpointFind and the comparison in CheckIfExceptionIsBP.              *)
At(L, a) == {i \in DOMAIN L : L[i].at = a /\ L[i].pid # "none"}

Listed(a) == \E L \in {sw, hw} : \E i \in DOMAIN L : L[i].at = a

(* The first entry of a list that waits to be written again.               *)
Waiting(L) == {i \in DOMAIN L : L[i].restore /\ L[i].handle = "BP_KEEP" /\ L[i].pid # "none"}

Original(a) == IF a \in setup.own THEN "int3" ELSE "code"

(* Armed hardware breakpoints are those that do not wait.                  *)
HardwareAt(a) == \E i \in DOMAIN hw : hw[i].at = a /\ ~hw[i].restore

-----------------------------------------------------------------------------
Loop == [at |-> "loop", t |-> NoThread, why |-> "", trap |-> FALSE, shown |-> TRUE]

Break(t, why, trap) ==
  [at |-> "break", t |-> t, why |-> why, trap |-> trap, shown |-> FALSE]

(* The break at the system entry point.                                    *)
Init ==
  /\ setup \in Setups
  /\ th = [t \in Thread |-> [ip |-> Start, tf |-> FALSE, ev |-> "none"]]
  /\ sw = SetToSeq({Entry(a, "int3", "BP_KEEP", "any") : a \in setup.int3}
                   \cup {Entry(a, "ud2", "BP_KEEP", "any") : a \in setup.ud2})
  /\ hw = SetToSeq({Entry(a, "hw", "BP_KEEP", "any") : a \in setup.hard})
  /\ mem = [a \in Addr |-> IF a \in setup.int3 THEN "int3"
                           ELSE IF a \in setup.ud2 THEN "ud2" ELSE Original(a)]
  /\ pid = [trap |-> FALSE, restore |-> "RESTORE_NON", trace |-> FALSE]
  /\ single = FALSE
  /\ \E t \in Thread : dbg = Break(t, "system", FALSE)
  /\ ctx = [ip |-> Start, tf |-> FALSE]
  /\ cmd = [kind |-> "run", t |-> NoThread, from |-> Start, to |-> Start]
  /\ seen = [t \in Thread |-> "none"]

-----------------------------------------------------------------------------
(* The debuggee.                                                           *)

Raise(t, ip, ev) ==
  th' = [th EXCEPT ![t].ip = ip, ![t].ev = ev] /\ seen' = seen

Execute(t) ==
  LET a == th[t].ip
  IN  /\ dbg = Loop /\ th[t].ev = "none" /\ a \in Addr
      /\ \/ HardwareAt(a) /\ Raise(t, a, "step")
         \/ ~HardwareAt(a) /\ mem[a] = "int3" /\ Raise(t, a + 1, "int3")
         \/ ~HardwareAt(a) /\ mem[a] = "ud2" /\ Raise(t, a, "ud2")
         \/ /\ ~HardwareAt(a) /\ mem[a] = "code"
            /\ th' = [th EXCEPT ![t] = [ip |-> Flow[a], tf |-> FALSE,
                                        ev |-> IF @.tf THEN "step" ELSE "none"]]
            /\ seen' = [seen EXCEPT ![t] = "none"]
      /\ UNCHANGED <<setup, mem, sw, hw, pid, single, dbg, ctx, cmd>>

-----------------------------------------------------------------------------
(* The debugger thread: one exception per step.                            *)

(* With the ip left behind an int3.                                        *)
HitIpBehind(ev, ip) == ip

(* The address of the exception, and the ip after SetThreadContextHelper   *)
(* with bDecIP: an int3 leaves the ip behind it.                           *)
HitIp(ev, ip) == IF ev = "int3" THEN ip - 1 ELSE ip

(* CheckIfExceptionIsBP; it also clears bTrapFlag.                         *)
IsBP(ev, a) ==
  \/ pid.trap
  \/ ev \in {"int3", "ud2"} /\ At(sw, a) # {}
  \/ ev = "step" /\ At(hw, a) # {}

(* CallBreakDebugger: ProcessContext is read, the GUI is told, and the     *)
(* thread waits.  After a first hit of a hardware breakpoint the trap flag *)
(* is set when the wait is over.                                           *)
CallBreakDebugger(t, ip, tf, why, trap) ==
  /\ dbg' = Break(t, why, trap)
  /\ ctx' = [ip |-> ip, tf |-> tf]
  /\ th' = th

Continue(t, tf) ==
  /\ th' = [th EXCEPT ![t].tf = tf, ![t].ev = "none"]
  /\ UNCHANGED <<dbg, ctx>>

Handling(t, ev) ==
  /\ dbg = Loop /\ th[t].ev = ev
  /\ UNCHANGED <<setup, cmd>>

Cleared == [pid EXCEPT !.trap = FALSE]

Pending == [pid EXCEPT !.trap = TRUE, !.restore = "RESTORE_BP_SOFTWARE"]

(* An exception that is no breakpoint, with no handler for it, no          *)
(* exception assistant and the default mode: the debugger breaks, and the  *)
(* exception counts as handled.                                            *)
ForeignException(t) ==
  /\ th[t].ev # "none" /\ Handling(t, th[t].ev)
  /\ ~IsBP(th[t].ev, th[t].ip - IF th[t].ev = "int3" THEN 1 ELSE 0)
  /\ th[t].ev = "step" => ~single
  /\ CallBreakDebugger(t, th[t].ip, th[t].tf, "exception", FALSE)
  /\ seen' = [seen EXCEPT ![t] = "exception"]
  /\ UNCHANGED <<mem, sw, hw, pid, single>>

(* With a kept breakpoint not marked for the step after the hit.           *)
KeepHitUnmarked(i) == sw' = sw /\ pid' = Pending /\ single' = single

(* What a hit of the entry leaves in the list and in the flags.            *)
KeepHit(i) ==
  /\ sw' = [sw EXCEPT ![i].restore = TRUE]
  /\ pid' = Pending /\ single' = single

StepOverHit(i) ==
  /\ sw' = RemoveAt(sw, i)
  /\ pid' = Pending /\ single' = single

(* With the step flag of the trace left set.                               *)
TraceToHitSteps(i) == sw' = RemoveAt(sw, i) /\ pid' = Cleared /\ single' = single

TraceToHit(i) ==
  /\ sw' = RemoveAt(sw, i)
  /\ pid' = Cleared /\ single' = FALSE

(* EXCEPTION_BREAKPOINT: the ip is set back to the breakpoint.             *)
BreakpointHit(t) ==
  LET a == th[t].ip - 1
      i == Min(At(sw, a))
      h == sw[i].handle
  IN  /\ Handling(t, "int3") /\ IsBP("int3", a)
      /\ IF At(sw, a) = {}
         THEN /\ pid' = Cleared
              /\ CallBreakDebugger(t, HitIp("int3", th[t].ip), FALSE, "breakpoint", FALSE)
              /\ UNCHANGED <<mem, sw, single>>
         ELSE /\ mem' = [mem EXCEPT ![a] = Original(a)]
              /\ \/ h = "BP_KEEP" /\ KeepHit(i)
                 \/ h = "BP_STEPOVER" /\ StepOverHit(i)
                 \/ h = "BP_TRACETO" /\ TraceToHit(i)
              /\ CallBreakDebugger(t, HitIp("int3", th[t].ip), h # "BP_TRACETO",
                                   "breakpoint", FALSE)
      /\ seen' = [seen EXCEPT ![t] = "hit"]
      /\ UNCHANGED hw

(* STATUS_PRIVILEGED_INSTRUCTION and STATUS_ILLEGAL_INSTRUCTION: the ip is *)
(* at the breakpoint already, and whatever the handle it is kept.          *)
OpcodeHit(t) ==
  LET a == th[t].ip
      i == Min(At(sw, a))
  IN  /\ Handling(t, "ud2") /\ IsBP("ud2", a)
      /\ IF At(sw, a) = {}
         THEN UNCHANGED <<mem, sw>>
         ELSE /\ mem' = [mem EXCEPT ![a] = Original(a)]
              /\ sw' = [sw EXCEPT ![i].restore = TRUE]
      /\ pid' = Pending
      /\ CallBreakDebugger(t, HitIp("ud2", a), TRUE, "breakpoint", FALSE)
      /\ seen' = [seen EXCEPT ![t] = "hit"]
      /\ UNCHANGED <<hw, single>>

(* With the trap flag of the thread not set again.                         *)
TraceStepOnce(t) ==
  /\ Handling(t, "step") /\ pid.trace /\ single
  /\ Continue(t, FALSE)
  /\ seen' = [seen EXCEPT ![t] = "traced"]
  /\ UNCHANGED <<mem, sw, hw, pid, single>>

(* EXCEPTION_SINGLE_STEP, in the order of its branches: a traced step, ... *)
TraceStep(t) ==
  /\ Handling(t, "step") /\ pid.trace /\ single
  /\ Continue(t, TRUE)
  /\ seen' = [seen EXCEPT ![t] = "traced"]
  /\ UNCHANGED <<mem, sw, hw, pid, single>>

(* ... the step the user asked for, ...                                    *)
UserStep(t) ==
  /\ Handling(t, "step") /\ ~pid.trace /\ single
  /\ single' = FALSE
  /\ CallBreakDebugger(t, th[t].ip, th[t].tf, "step", FALSE)
  /\ seen' = [seen EXCEPT ![t] = "step"]
  /\ UNCHANGED <<mem, sw, hw, pid>>

(* ... the step after a hit, which writes one breakpoint again, ...        *)
Rearm(L) == IF Waiting(L) = {} THEN L ELSE [L EXCEPT ![Min(Waiting(L))].restore = FALSE]

RestoreStep(t) ==
  /\ Handling(t, "step") /\ ~single /\ IsBP("step", th[t].ip)
  /\ pid.restore # "RESTORE_NON"
  /\ IF pid.restore = "RESTORE_BP_SOFTWARE"
     THEN /\ sw' = Rearm(sw) /\ hw' = hw
          /\ mem' = IF Waiting(sw) = {} THEN mem
                    ELSE LET bp == sw[Min(Waiting(sw))] IN [mem EXCEPT ![bp.at] = bp.op]
     ELSE hw' = Rearm(hw) /\ UNCHANGED <<sw, mem>>
  /\ pid' = [pid EXCEPT !.trap = FALSE, !.restore = "RESTORE_NON"]
  /\ Continue(t, th[t].tf)
  /\ UNCHANGED <<single, seen>>

(* ... or a hardware breakpoint.  (Whoever sets bTrapFlag has something    *)
(* to restore, so that branch never finds nothing.)                        *)
HardwareHit(t) ==
  LET a == th[t].ip
  IN  /\ Handling(t, "step") /\ ~single /\ IsBP("step", a)
      /\ pid.restore = "RESTORE_NON" /\ At(hw, a) # {}
      /\ hw' = [hw EXCEPT ![Min(At(hw, a))].restore = TRUE]
      /\ pid' = [pid EXCEPT !.trap = TRUE, !.restore = "RESTORE_BP_HARDWARE"]
      /\ CallBreakDebugger(t, a, th[t].tf, "breakpoint", TRUE)
      /\ seen' = [seen EXCEPT ![t] = "hit"]
      /\ UNCHANGED <<mem, sw, single>>

-----------------------------------------------------------------------------
(* The GUI thread.                                                         *)

(* With the trace not ended.                                               *)
OnDebuggerBreakTraces ==
  /\ dbg.at = "break" /\ ~dbg.shown
  /\ dbg' = [dbg EXCEPT !.shown = TRUE]
  /\ UNCHANGED <<setup, th, mem, sw, hw, pid, single, ctx, cmd, seen>>

(* The slot OnDebuggerBreak ends a trace of the process.                   *)
OnDebuggerBreak ==
  /\ dbg.at = "break" /\ ~dbg.shown
  /\ dbg' = [dbg EXCEPT !.shown = TRUE]
  /\ pid' = [pid EXCEPT !.trace = FALSE]
  /\ UNCHANGED <<setup, th, mem, sw, hw, single, ctx, cmd, seen>>

(* PulseEvent in a break: CallBreakDebugger writes ProcessContext back and *)
(* the debug event is continued.                                           *)
Resume(kind, to, tf) ==
  /\ th' = [th EXCEPT ![dbg.t] = [ip |-> ctx.ip, tf |-> tf \/ dbg.trap, ev |-> "none"]]
  /\ ctx' = [ctx EXCEPT !.tf = tf]
  /\ dbg' = Loop
  /\ cmd' = [kind |-> kind, t |-> dbg.t, from |-> ctx.ip, to |-> to]

Asked(c) == dbg.at = "break" /\ dbg.shown /\ c \in setup.asks

Run ==
  /\ Asked("run")
  /\ Resume("run", ctx.ip, ctx.tf)
  /\ UNCHANGED <<setup, mem, sw, hw, pid, single, seen>>

(* With the trap flag of the thread not set.                               *)
StepInUntrapped ==
  /\ single' = TRUE
  /\ Resume("in", Flow[ctx.ip], ctx.tf)

StepIn ==
  /\ single' = TRUE
  /\ Resume("in", Flow[ctx.ip], TRUE)

action_DebugStepIn ==
  /\ Asked("in") /\ ctx.ip \in Addr
  /\ StepIn
  /\ UNCHANGED <<setup, mem, sw, hw, pid, seen>>

(* BreakpointAdd refuses an offset that has a breakpoint of any kind.      *)
Insert(a, h, p) == sw' = Append(sw, Entry(a, "int3", h, p)) /\ mem' = [mem EXCEPT ![a] = "int3"]

(* clsDebugger::StepOver; when the breakpoint cannot be added the debuggee *)
(* stays where it is.                                                      *)
StepOver(kind, d) ==
  /\ ~Listed(d)
  /\ Insert(d, "BP_STEPOVER", "this")
  /\ Resume(kind, d, ctx.tf)
  /\ UNCHANGED <<setup, hw, pid, single, seen>>

(* A return is stepped into.                                               *)
action_DebugStepOver ==
  /\ Asked("over") /\ ctx.ip \in Addr
  /\ \/ ctx.ip \notin setup.ret /\ StepOver("over", Over[ctx.ip])
     \/ /\ ctx.ip \in setup.ret /\ StepIn
        /\ UNCHANGED <<setup, mem, sw, hw, pid, seen>>

action_DebugStepOut ==
  /\ Asked("out") /\ ctx.ip \in DOMAIN Return
  /\ StepOver("out", Return[ctx.ip])

(* OnF4ExecuteTo.                                                          *)
ExecuteTo(d) ==
  /\ Asked("until") /\ ~Listed(d)
  /\ Insert(d, "BP_STEPOVER", "any")
  /\ Resume("until", d, ctx.tf)
  /\ UNCHANGED <<setup, hw, pid, single, seen>>

(* SetTraceFlagForPID(pid, true).                                          *)
SetTraceFlag(kind, to) ==
  /\ pid' = [pid EXCEPT !.trace = TRUE]
  /\ single' = TRUE
  /\ Resume(kind, to, TRUE)
  /\ UNCHANGED <<setup, hw, seen>>

action_DebugTraceStart ==
  /\ Asked("trace") /\ SetTraceFlag("trace", ctx.ip) /\ UNCHANGED <<mem, sw>>

(* "Trace to this": whether the breakpoint was added is not looked at.     *)
TraceTo(d) ==
  /\ Asked("traceTo") /\ SetTraceFlag("traceTo", d)
  /\ IF Listed(d) THEN UNCHANGED <<mem, sw>> ELSE Insert(d, "BP_TRACETO", "this")

action_DebugTraceStop ==
  /\ "traceStop" \in setup.asks /\ pid.trace
  /\ pid' = [pid EXCEPT !.trace = FALSE]
  /\ UNCHANGED <<setup, th, mem, sw, hw, single, dbg, ctx, cmd, seen>>

-----------------------------------------------------------------------------
Handle(t) == \/ ForeignException(t) \/ BreakpointHit(t) \/ OpcodeHit(t)
             \/ TraceStep(t) \/ UserStep(t) \/ RestoreStep(t) \/ HardwareHit(t)

User == \/ Run \/ action_DebugStepIn \/ action_DebugStepOver \/ action_DebugStepOut
        \/ \E d \in Addr : ExecuteTo(d) \/ TraceTo(d)
        \/ action_DebugTraceStart \/ action_DebugTraceStop

Next == OnDebuggerBreak \/ User \/ \E t \in Thread : Execute(t) \/ Handle(t)

(* The threads of the debuggee are scheduled, the debugger thread takes    *)
(* the events and the GUI thread serves its signals; the user need not do  *)
(* anything.                                                               *)
Fairness == /\ WF_vars(OnDebuggerBreak)
            /\ \A t \in Thread : WF_vars(Execute(t)) /\ WF_vars(Handle(t))

Spec == Init /\ [][Next]_vars /\ Fairness
-----------------------------------------------------------------------------
(* No thread is resumed in the middle of an instruction: SetThreadContext- *)
(* Helper sets the ip back after an int3 of a breakpoint and only then.    *)
NoMidInstruction == \A t \in Thread : dbg = Loop /\ th[t].ev = "none" => th[t].ip \in Addr

Passes(t) == dbg = Loop /\ th[t].ev = "none" /\ th[t].ip # th'[t].ip /\ th'[t].ev # "int3"

Kept(a) == \E L \in {sw, hw} : \E i \in DOMAIN L : L[i].at = a /\ L[i].handle = "BP_KEEP"

(* No thread gets past an instruction with a breakpoint unless the         *)
(* debugger has broken for it there: a breakpoint that is taken out for    *)
(* the step over it is back before the thread comes round again.           *)
PassStops == [][\A t \in Thread : Passes(t) /\ Kept(th[t].ip) => seen[t] = "hit"]_vars

Stops == dbg = Loop /\ dbg'.at = "break"

(* After "continue", "execute to" or a step that ends at a breakpoint, the *)
(* debugger does not break for a single step: neither the step after a hit *)
(* nor what a trace left in m_singleStepFlag is taken for a step of the    *)
(* user (changelog: "a break when continue was used after a trace").       *)
ContinueContinues ==
  [][Stops /\ cmd.kind \in {"run", "until", "over", "out"} => dbg'.why # "step"]_vars

(* When it breaks for a single step, that is in the thread the user        *)
(* stepped, and after "step in" it is one instruction further.             *)
StepIsOne ==
  [][Stops /\ dbg'.why = "step" =>
       dbg'.t = cmd.t /\ (cmd.kind = "in" => ctx'.ip = cmd.to)]_vars

(* While a process is traced, its thread executes no instruction that is   *)
(* not in the trace, but the one it started from.                          *)
TraceComplete ==
  [][\A t \in Thread : Passes(t) /\ pid.trace /\ single /\ t = cmd.t
                       => seen[t] = "traced" \/ th[t].ip = cmd.from]_vars

(* A step, "execute to" and "trace to this" end in a break.                *)
StepEnds == (dbg = Loop /\ cmd.kind \in {"in", "over", "out", "until", "traceTo"})
              ~> (dbg.at = "break")
=============================================================================
