------------------------------ MODULE Session ------------------------------
(***************************************************************************)
(* A debugging session: the GUI thread, the debugger thread (the QThread   *)
(* clsDebugger), the debuggees, and the signals the debugger thread queues *)
(* for the GUI.                                                            *)
(*                                                                         *)
(* The two threads meet in three ways.  The debugger thread emits a queued *)
(* signal and then waits on an event; the GUI releases it with PulseEvent, *)
(* which wakes a thread that is waiting and is forgotten otherwise; and    *)
(* both read and write the plain flags below.  start() on a thread that    *)
(* has not returned from run() does nothing.                               *)
(*                                                                         *)
(* Windows names the places where the debugger thread has said something   *)
(* and not yet done what the GUI will rely on; GUIRuns is the set of those *)
(* in which the GUI may be scheduled.  An empty GUIRuns is a GUI slower    *)
(* than the debugger thread.                                               *)
(*                                                                         *)
(* Breakpoints, tracing and the break-on-event options are elsewhere: here *)
(* a debuggee stops by itself ("break") or raises an exception nobody      *)
(* handles.                                                                *)
(***************************************************************************)
EXTENDS Naturals, FiniteSets, SequencesExt

CONSTANTS
  Pid,            \* processes
  DebugChilds,    \* bDebugChilds
  SuspendThreads, \* dwSuspendType = 1: suspend the threads, no break-in
  Unhandled,      \* what the options make of an exception: "break", "ask", "pass"
  GUIRuns,        \* see above
  MaxSessions,    \* bound: debugging sessions
  MaxQueue,       \* bound: queue length up to which debuggee and user go on
  MaxSuspend      \* bound: suspend count of a thread

Windows == {"run", "launch", "announce", "ask", "leave", "exit", "queued", "event"}

ASSUME ConstantsOK ==
  /\ Pid # {} /\ IsFiniteSet(Pid)
  /\ DebugChilds \in BOOLEAN /\ SuspendThreads \in BOOLEAN
  /\ Unhandled \subseteq {"break", "ask", "pass"}
  /\ GUIRuns \subseteq Windows
  /\ MaxSessions \in Nat /\ MaxQueue \in Nat /\ MaxSuspend \in Nat \ {0}

VARIABLES
  pc,          \* where the debugger thread is
  isDebugging, \* m_isDebugging
  stop,        \* m_stopDebugging
  normal,      \* m_normalDebugging
  attach,      \* m_attachPID # 0
  target,      \* m_targetFile is set
  isRestart,   \* m_IsRestart
  PIDs,        \* the list PIDs
  proc,        \* the processes
  queue,       \* signals for the GUI thread
  dialog,      \* the exception dialog is open
  clearing,    \* DetachFromProcess is in BreakpointClear
  bar,         \* what the state bar shows
  session      \* sessions begun

thread == <<pc, isDebugging, stop, normal, PIDs, session>>
user   == <<attach, target, isRestart, dialog, clearing, bar>>
vars   == <<thread, user, proc, queue>>

(* What the debugger thread queues for the GUI, and what the dialog does.  *)
Question == {"ask", "answer break", "answer go"}
Signal   == {"break", "info", "terminated"} \cup Question

-----------------------------------------------------------------------------
(* Processes.  "new" is one whose CREATE_PROCESS_DEBUG_EVENT is not read   *)
(* yet, "left" one the debugger has detached from.  breakIn is the thread  *)
(* DebugBreakProcess adds, which runs whatever the others do.              *)

Gone == [st |-> "gone", dying |-> FALSE, breakIn |-> FALSE, susp |-> 0]

Alive(p)    == proc[p].st \in {"new", "run"}
Present(p)  == proc[p].st # "gone"    \* a process that was detached from still runs
Runs(p)     == proc[p].st = "run" /\ proc[p].susp = 0
Released    == [p \in Pid |-> IF Alive(p) THEN Gone ELSE proc[p]]

(* DebugBreakProcess, TerminateProcess and SuspendProcess on a set.  A     *)
(* process that is being terminated takes no new thread.                   *)
BreakIn(S)   == [p \in Pid |-> IF p \in S /\ Alive(p) /\ ~proc[p].dying
                               THEN [proc[p] EXCEPT !.breakIn = TRUE] ELSE proc[p]]
Terminate(S) == [p \in Pid |-> IF p \in S /\ Alive(p)
                               THEN [proc[p] EXCEPT !.dying = TRUE] ELSE proc[p]]
Suspended(S) == [p \in Pid |-> IF p \in S /\ Alive(p)
                               THEN [proc[p] EXCEPT !.susp = @ + 1] ELSE proc[p]]
(* With ResumeThread on a thread nobody suspended taken at its word.       *)
ResumedUnchecked(S) == [p \in Pid |-> IF p \in S THEN [proc[p] EXCEPT !.susp = @ - 1]
                                                ELSE proc[p]]

(* SuspendProcess(false): no count goes below zero.                        *)
Resumed(S) == [p \in Pid |-> IF p \in S /\ proc[p].susp > 0
                               THEN [proc[p] EXCEPT !.susp = @ - 1] ELSE proc[p]]

(* With one event for both waits of the debugger thread.                   *)
PulsedAny == IF pc \in {"parked", "askparked"} THEN "loop" ELSE pc

(* PulseEvent on m_debugEvent: CallBreakDebugger returns and the loop goes *)
(* on with ContinueDebugEvent, if the debugger thread is waiting.          *)
Pulsed == IF pc = "parked" THEN "loop" ELSE pc

(* start(): nothing if the thread is still in run().                       *)
Started == IF pc = "none" THEN "run" ELSE pc

-----------------------------------------------------------------------------
Init ==
  /\ pc = "none" /\ isDebugging = FALSE /\ stop = FALSE /\ normal = TRUE
  /\ PIDs = <<>> /\ session = 0
  /\ attach = FALSE /\ target = FALSE /\ isRestart = FALSE
  /\ dialog = FALSE /\ clearing = FALSE /\ bar = "TERMINATE"
  /\ proc = [p \in Pid |-> Gone] /\ queue = <<>>

(* --- debugger thread --------------------------------------------------- *)

Attaching == attach /\ ~normal

Run ==
  /\ pc = "run" /\ stop' = FALSE
  /\ IF Attaching \/ (target /\ ~isDebugging)
     THEN /\ pc' = "launch" /\ isDebugging' = TRUE /\ PIDs' = <<>>
          /\ session' = session + 1
     ELSE pc' = "none" /\ UNCHANGED <<isDebugging, PIDs, session>>
  /\ UNCHANGED <<normal, user, proc, queue>>

(* CreateProcess or DebugActiveProcess, which puts the first events in the *)
(* queue of the debuggee.                                                  *)
Launch(p) ==
  /\ pc = "launch" /\ ~Alive(p)
  /\ proc' = [proc EXCEPT ![p] = [Gone EXCEPT !.st = "new"]]
  /\ pc' = "loop"
  /\ UNCHANGED <<isDebugging, stop, normal, PIDs, session, user, queue>>

(* With m_isDebugging left as it is.                                       *)
LaunchFailsStillOn ==
  /\ pc = "launch" /\ pc' = "exit" /\ queue' = Append(queue, "terminated")
  /\ UNCHANGED <<isDebugging, stop, normal, PIDs, session, user, proc>>

LaunchFails ==
  /\ pc = "launch"
  /\ isDebugging' = FALSE /\ pc' = "exit" /\ queue' = Append(queue, "terminated")
  /\ UNCHANGED <<stop, normal, PIDs, session, user, proc>>

(* The debuggees' side of a step of DebuggingLoop: WaitForDebugEvent       *)
(* returns an event of p and m_stopDebugging is not set.                   *)
Waiting(p) == pc = "loop" /\ ~stop /\ Alive(p)

CreateEvent(p) ==
  /\ Waiting(p) /\ proc[p].st = "new"
  /\ proc' = [proc EXCEPT ![p].st = "run"]
  /\ PIDs' = Append(PIDs, p) /\ normal' = TRUE
  /\ queue' = Append(queue, "info")
  /\ UNCHANGED <<pc, isDebugging, stop, session, user>>

(* Threads that start and end, modules that come and go: OnThread, OnDll.  *)
OtherEvent(p) ==
  /\ Waiting(p) /\ Runs(p) /\ Len(queue) < MaxQueue
  /\ queue' = Append(queue, "info")
  /\ UNCHANGED <<thread, user, proc>>

(* A debuggee starts another process.                                      *)
Child(p) ==
  /\ DebugChilds /\ Waiting(p) /\ Runs(p) /\ ~proc[p].dying
  /\ \E c \in Pid : /\ ~Alive(c) /\ c \notin Range(PIDs)
                    /\ proc' = [proc EXCEPT ![c] = [Gone EXCEPT !.st = "new"]]
  /\ UNCHANGED <<thread, user, queue>>

Announce == pc' = "announce" /\ queue' = Append(queue, "break")

(* What is done with an exception no breakpoint takes, after OnException:  *)
(* the handler for its code or the default mode decides, and the user may  *)
(* change both at any time.                                                *)
Report ==
  \/ "break" \in Unhandled /\ pc' = "announce" /\ queue' = queue \o <<"info", "break">>
  \/ "ask" \in Unhandled /\ pc' = "ask" /\ queue' = queue \o <<"info", "ask">>
  \/ "pass" \in Unhandled /\ pc' = pc /\ queue' = Append(queue, "info")

(* A thread of p hits a breakpoint, or raises an exception.  One that did  *)
(* so before TerminateProcess is still reported.                           *)
Raises(p) == proc[p].dying => "event" \in GUIRuns

StopEvent(p) ==
  /\ Waiting(p) /\ Runs(p) /\ Raises(p) /\ Len(queue) <= MaxQueue
  /\ Announce \/ Report
  /\ UNCHANGED <<isDebugging, stop, normal, PIDs, session, user, proc>>

BreakInEvent(p) ==
  /\ Waiting(p) /\ proc[p].st = "run" /\ proc[p].breakIn /\ Raises(p)
  /\ proc' = [proc EXCEPT ![p].breakIn = FALSE]
  /\ Report
  /\ UNCHANGED <<isDebugging, stop, normal, PIDs, session, user>>

ExitEvent(p) ==
  /\ Waiting(p) /\ proc[p].st = "run" /\ (proc[p].dying \/ Runs(p))
  /\ proc' = [proc EXCEPT ![p] = Gone]
  /\ IF \E q \in Range(PIDs) \ {p} : Alive(q)
     THEN UNCHANGED <<pc, isDebugging>>
     ELSE pc' = "leave" /\ isDebugging' = FALSE
  /\ queue' = Append(queue, "info")
  /\ UNCHANGED <<stop, normal, PIDs, session, user>>

(* The first event after m_stopDebugging was set: DebugActiveProcessStop   *)
(* for the process it came from, and the loop is left.                     *)
DetachEvent(p) ==
  /\ pc = "loop" /\ stop /\ Alive(p)
  /\ proc[p].st = "new" \/ proc[p].dying \/ proc[p].breakIn \/ Runs(p)
  /\ stop' = FALSE /\ isDebugging' = FALSE /\ pc' = "leave"
  /\ proc' = [proc EXCEPT ![p] = IF @.dying THEN Gone ELSE [@ EXCEPT !.st = "left"]]
  /\ UNCHANGED <<normal, PIDs, session, user, queue>>

(* After the emit, WaitForSingleObject.                                    *)
Park ==
  /\ \/ pc = "announce" /\ pc' = "parked"
     \/ pc = "ask" /\ pc' = "askparked"
  /\ UNCHANGED <<isDebugging, stop, normal, PIDs, session, user, proc, queue>>

(* CleanWorkSpace, then OnDebuggerTerminated.                              *)
Leave ==
  /\ pc = "leave" /\ pc' = "exit"
  /\ PIDs' = <<>> /\ queue' = Append(queue, "terminated")
  /\ UNCHANGED <<isDebugging, stop, normal, session, user, proc>>

(* run() returns.  AttachedDebugging sets m_normalDebugging behind the     *)
(* loop, as PBProcInfo and DetachFromProcess have done before (an attach   *)
(* between the end of a session and this moment is lost, start() included, *)
(* so that the flag it reset is not looked at).  The system ends or        *)
(* releases what the thread still debugs.                                  *)
Return ==
  /\ pc = "exit" /\ pc' = "none" /\ proc' = Released
  /\ UNCHANGED <<isDebugging, stop, normal, PIDs, session, user, queue>>

-----------------------------------------------------------------------------
(* --- GUI thread -------------------------------------------------------- *)

Settled ==
  /\ pc \in Windows => pc \in GUIRuns
  /\ (pc = "loop" /\ PIDs = <<>>) => "launch" \in GUIRuns

(* The user can reach the main window.                                     *)
Free == /\ ~dialog /\ ~clearing /\ Settled
        /\ queue # <<>> => ("queued" \in GUIRuns /\ Len(queue) <= MaxQueue)

(* action_DebugStart without a session, b being what the bar shows: a file *)
(* is asked for if there is no target, one that is not valid is dropped.   *)
StartDebuggee(b) ==
  /\ \/ /\ target' = TRUE /\ normal' = (normal \/ ~target)
        /\ pc' = Started /\ bar' = "RUN"
     \/ /\ target' = FALSE /\ normal' \in {normal, normal \/ ~target}
        /\ bar' = b /\ UNCHANGED <<pc>>
  /\ proc' = proc

ResumeDebugging ==
  /\ proc' = Resumed(Range(PIDs)) /\ pc' = Pulsed /\ bar' = "RUN"
  /\ UNCHANGED <<target, normal>>

action_DebugStart(b) == IF isDebugging THEN ResumeDebugging ELSE StartDebuggee(b)

DebugStart ==
  /\ Free /\ (~isDebugging => session < MaxSessions)
  /\ action_DebugStart(bar)
  /\ UNCHANGED <<isDebugging, stop, PIDs, session, attach, isRestart, dialog,
                 clearing, queue>>

(* AttachToProcess cleans the lists on the GUI thread, whatever the        *)
(* debugger thread is doing with them.                                     *)
AttachStart ==
  /\ Free /\ ~isDebugging /\ session < MaxSessions
  /\ target' = TRUE /\ attach' = TRUE /\ normal' = FALSE /\ PIDs' = <<>>
  /\ pc' = Started /\ bar' = "RUN"
  /\ UNCHANGED <<isDebugging, stop, session, isRestart, dialog, clearing, proc, queue>>

(* With no PulseEvent behind TerminateProcess.                             *)
StopDebuggingAllNoPulse == proc' = Terminate(Range(PIDs)) /\ pc' = pc

StopDebuggingAll == proc' = Terminate(Range(PIDs)) /\ pc' = Pulsed

DebugStop ==
  /\ Free
  /\ IF isDebugging THEN StopDebuggingAll ELSE UNCHANGED <<proc, pc>>
  /\ UNCHANGED <<isDebugging, stop, normal, PIDs, session, user, queue>>

DebugRestart ==
  /\ Free /\ session < MaxSessions
  /\ IF isDebugging
     THEN isRestart' = TRUE /\ StopDebuggingAll /\ UNCHANGED <<target, normal, bar>>
     ELSE isRestart' = isRestart /\ action_DebugStart(bar)
  /\ UNCHANGED <<isDebugging, stop, PIDs, session, attach, dialog, clearing, queue>>

(* action_FileOpenNewFile drops the target; without a session it asks for  *)
(* a new one at once.                                                      *)
OpenNewFile ==
  /\ Free /\ session < MaxSessions
  /\ IF isDebugging
     THEN /\ isRestart' = TRUE /\ StopDebuggingAll /\ target' = FALSE
          /\ UNCHANGED <<normal, bar>>
     ELSE /\ \/ /\ target' = TRUE /\ normal' = TRUE
                /\ pc' = Started /\ bar' = "RUN"
             \/ target' = FALSE /\ UNCHANGED <<normal, pc, bar>>
          /\ UNCHANGED <<isRestart, proc>>
  /\ UNCHANGED <<isDebugging, stop, PIDs, session, attach, dialog, clearing, queue>>

(* action_DebugSuspend: GenerateMenu offers the running processes when     *)
(* there are several, and takes the first of PIDs when there are not.      *)
DebugSuspend ==
  /\ Free /\ isDebugging /\ PIDs # <<>>
  /\ \E S \in LET live == {p \in Range(PIDs) : proc[p].st = "run"}
              IN IF Cardinality(live) > 1 THEN {{p} : p \in live} \cup {{}, live}
                 ELSE {{PIDs[1]}} :
       /\ \A p \in S : proc[p].susp < MaxSuspend
       /\ proc' = IF SuspendThreads THEN Suspended(S) ELSE BreakIn(S)
  /\ bar' = "SUSPEND"
  /\ UNCHANGED <<thread, attach, target, isRestart, dialog, clearing, queue>>

(* Step in, over, out and run-to: the debugger thread is let go.           *)
Step ==
  /\ Free /\ isDebugging /\ pc' = Pulsed
  /\ UNCHANGED <<isDebugging, stop, normal, PIDs, session, user, proc, queue>>

(* DetachFromProcess raises the flag, clears the breakpoints, and then     *)
(* breaks into and releases the processes of PIDs up to the first that is  *)
(* no longer there.                                                        *)
Detach ==
  /\ Free /\ isDebugging
  /\ normal' = TRUE /\ stop' = TRUE /\ clearing' = TRUE
  /\ UNCHANGED <<pc, isDebugging, PIDs, session, attach, target, isRestart, dialog, bar,
                 proc, queue>>

(* With the loop over PIDs started at 1.                                   *)
ReachedButFirst == {PIDs[i] : i \in {i \in DOMAIN PIDs : i > 1 /\ \A j \in 1 .. i : Present(PIDs[j])}}

Reached == {PIDs[i] : i \in {i \in DOMAIN PIDs : \A j \in 1 .. i : Present(PIDs[j])}}

DetachWake ==
  /\ clearing /\ Settled
  /\ clearing' = FALSE /\ bar' = "TERMINATE"
  /\ proc' = BreakIn(Reached)
  /\ pc' = IF Reached = {} THEN pc ELSE Pulsed
  /\ UNCHANGED <<isDebugging, stop, normal, PIDs, session, attach, target, isRestart,
                 dialog, queue>>

(* --- queued signals: the slots that change the session ----------------- *)

Slot(name) == ~clearing /\ Settled /\ queue # <<>> /\ Head(queue) = name

(* With no UpdateStateBar.                                                 *)
OnDebuggerBreakSilent ==
  /\ Slot("break") /\ queue' = Tail(queue)
  /\ UNCHANGED <<thread, user, proc>>

OnDebuggerBreak ==
  /\ Slot("break") /\ queue' = Tail(queue)
  /\ bar' = IF isDebugging THEN "SUSPEND" ELSE "TERMINATE"
  /\ UNCHANGED <<thread, attach, target, isRestart, dialog, clearing, proc>>

(* With m_IsRestart reset before it is looked at.                          *)
OnDebuggerTerminatedForgets ==
  /\ Slot("terminated") /\ queue' = Tail(queue)
  /\ isRestart' = FALSE /\ bar' = "TERMINATE"
  /\ UNCHANGED <<thread, attach, target, dialog, clearing, proc>>

(* The state bar goes to "Terminated" first, and action_DebugStart follows *)
(* if a restart is pending.                                                *)
OnDebuggerTerminated ==
  /\ Slot("terminated") /\ queue' = Tail(queue)
  /\ isRestart' = FALSE
  /\ IF isRestart THEN action_DebugStart("TERMINATE")
     ELSE bar' = "TERMINATE" /\ UNCHANGED <<target, normal, pc, proc>>
  /\ UNCHANGED <<isDebugging, stop, PIDs, session, attach, dialog, clearing>>

(* OnPID, OnThread, OnDll and OnException report a running debuggee.       *)
OnInfo ==
  /\ Slot("info") /\ queue' = Tail(queue) /\ bar' = "RUN"
  /\ UNCHANGED <<thread, attach, target, isRestart, dialog, clearing, proc>>

(* AskForException opens a modal dialog; its event loop serves the queue.  *)
AskForException ==
  /\ Slot("ask") /\ queue' = Tail(queue) /\ dialog' = TRUE
  /\ UNCHANGED <<thread, attach, target, isRestart, clearing, bar, proc>>

CloseDialog ==
  /\ dialog /\ dialog' = FALSE
  /\ \E a \in {"answer break", "answer go"} : queue' = Append(queue, a)
  /\ UNCHANGED <<thread, attach, target, isRestart, clearing, bar, proc>>

(* With the pulse given to m_debugEvent.                                   *)
HandleForExceptionWrongEvent(a) ==
  /\ Slot(a) /\ queue' = Tail(queue) /\ pc' = Pulsed
  /\ UNCHANGED <<isDebugging, stop, normal, PIDs, session, user, proc>>

(* HandleForException: m_continueWithException, then PulseEvent on         *)
(* m_waitForGUI.  The answer 0 breaks, the others continue the debuggee.   *)
HandleForException(a) ==
  /\ Slot(a)
  /\ IF pc # "askparked" THEN pc' = pc /\ queue' = Tail(queue)
     ELSE IF a = "answer break"
     THEN pc' = "announce" /\ queue' = Append(Tail(queue), "break")
     ELSE pc' = "loop" /\ queue' = Tail(queue)
  /\ UNCHANGED <<isDebugging, stop, normal, PIDs, session, user, proc>>

-----------------------------------------------------------------------------
Thread == \/ Run \/ LaunchFails \/ Park \/ Leave \/ Return
          \/ \E p \in Pid : Launch(p)

(* Events that are on their way: nothing the debuggee does can hold them   *)
(* back.                                                                   *)
Pending(p) == \/ CreateEvent(p) \/ BreakInEvent(p)
              \/ (proc[p].dying /\ ExitEvent(p))
              \/ ((proc[p].st = "new" \/ proc[p].dying \/ proc[p].breakIn) /\ DetachEvent(p))

Debuggee == \E p \in Pid : Pending(p) \/ StopEvent(p) \/ ExitEvent(p) \/ DetachEvent(p)
                           \/ OtherEvent(p) \/ Child(p)

Slots == \/ OnDebuggerBreak \/ OnDebuggerTerminated \/ AskForException \/ OnInfo
         \/ \E a \in {"answer break", "answer go"} : HandleForException(a)

Commands == \/ DebugStart \/ AttachStart \/ DebugStop \/ DebugRestart \/ OpenNewFile
            \/ DebugSuspend \/ Step \/ Detach

Next == Thread \/ Debuggee \/ Slots \/ CloseDialog \/ DetachWake \/ Commands

(* Both threads are scheduled, the system delivers the events it has, the  *)
(* event loop of the GUI serves its queue however busy the user is (hence  *)
(* SF), and the user closes a dialog that blocks the program.  Nobody has  *)
(* to press a key, and no debuggee has to do anything by itself.           *)
Fairness == /\ WF_vars(Thread)
            /\ \A p \in Pid : WF_vars(Pending(p))
            /\ SF_vars(Slots) /\ WF_vars(CloseDialog) /\ WF_vars(DetachWake)

Spec == Init /\ [][Next]_vars /\ Fairness

-----------------------------------------------------------------------------
Process == [st : {"gone", "new", "run", "left"}, dying : BOOLEAN, breakIn : BOOLEAN,
            susp : 0 .. MaxSuspend]

FlagsOK ==
  /\ isDebugging \in BOOLEAN /\ stop \in BOOLEAN /\ normal \in BOOLEAN
  /\ attach \in BOOLEAN /\ target \in BOOLEAN /\ isRestart \in BOOLEAN
  /\ dialog \in BOOLEAN /\ clearing \in BOOLEAN

DataOK ==
  /\ pc \in {"none", "run", "launch", "loop", "announce", "parked", "ask", "askparked",
             "leave", "exit"}
  /\ PIDs \in Seq(Pid)
  /\ proc \in [Pid -> Process]
  /\ queue \in Seq(Signal)
  /\ bar \in {"RUN", "SUSPEND", "TERMINATE"} /\ session \in Nat

(* Every variable keeps its type; no thread is suspended more often than   *)
(* the user asked for, and none less than never.                           *)
TypeOK == FlagsOK /\ DataOK

-----------------------------------------------------------------------------
(* Safety.                                                                 *)

AskedIn(q) == {i \in DOMAIN q : q[i] \in Question}
Asked      == AskedIn(queue)

(* One question at a time: from the AskForException signal to the answer's *)
(* pulse, the debugger thread stays where it asked, so that an answer can  *)
(* never release it from a later exception.                                *)
OneQuestion ==
  /\ \A i, j \in Asked : i = j
  /\ dialog => Asked = {}
  /\ (dialog \/ Asked # {}) => pc \in {"ask", "askparked"}

(* No session without its thread: m_isDebugging, by which every command of *)
(* the GUI chooses between starting and resuming, is true only while       *)
(* run() is in its loop.                                                   *)
NoGhostSession ==
  isDebugging <=> pc \in {"launch", "loop", "announce", "parked", "ask", "askparked"}

(* Nothing is on its way between the threads.                              *)
Quiet == /\ queue = <<>> /\ ~clearing
         /\ pc \in {"none", "parked"} \/ (pc = "loop" /\ PIDs # <<>>)
         /\ \A p \in Pid : Alive(p) => ~proc[p].dying /\ ~proc[p].breakIn

(* What the state bar says is so when nothing is on its way: a stopped     *)
(* debuggee is shown as suspended, a session that is over as terminated,   *)
(* one that is not as anything else, and "Running" is never a debuggee     *)
(* whose threads are suspended.                                            *)
StateShown ==
  Quiet => /\ pc = "parked" => bar = "SUSPEND"
           /\ pc = "none" <=> bar = "TERMINATE"
           /\ (pc = "loop" /\ bar = "RUN") => \A p \in Range(PIDs) : proc[p].susp = 0

(* --- liveness --- *)

(* A session the user stops comes to its end.                              *)
StopEnds == (\E p \in Pid : proc[p].dying) ~> ~isDebugging

(* A restart really starts the debuggee again, unless there is no file.    *)
RestartStarts == \A n \in 0 .. MaxSessions :
                   (isRestart /\ session = n) ~> (session > n \/ ~target)

(* A session the user detaches from comes to its end.                      *)
DetachEnds == (stop /\ isDebugging) ~> ~isDebugging

(* The answer of the Exception Assistant releases the debugger thread.     *)
AnswerReaches ==
  (\E a \in {"answer break", "answer go"} : a \in Range(queue))
    ~> pc \notin {"ask", "askparked"}

=============================================================================
