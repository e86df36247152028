--------------------------- MODULE SessionProofs ---------------------------
(***************************************************************************)
(* Session for any set of processes, any options and any scheduling of the *)
(* two threads: its types, the bond between m_isDebugging and the debugger *)
(* thread, and the single open question of the Exception Assistant; and,   *)
(* under the conditions named Truthful, the truth of the state bar.        *)
(***************************************************************************)
EXTENDS Session, SequenceTheorems, TLAPS

-----------------------------------------------------------------------------
(* What the operations on processes return.                                *)

(* DebugBreakProcess, TerminateProcess, ResumeThread and the end of the    *)
(* debugger thread keep every process well formed.                         *)
LEMMA ProcessesKept ==
  ASSUME proc \in [Pid -> Process], NEW S
  PROVE  /\ BreakIn(S) \in [Pid -> Process]
         /\ Terminate(S) \in [Pid -> Process]
         /\ Resumed(S) \in [Pid -> Process]
         /\ Released \in [Pid -> Process]
<1>0. MaxSuspend \in Nat /\ 0 \in 0 .. MaxSuspend
  BY ConstantsOK
<1>1. BreakIn(S) \in [Pid -> Process]
  BY DEF BreakIn, Process
<1>2. Terminate(S) \in [Pid -> Process]
  BY DEF Terminate, Process
<1>3. Resumed(S) \in [Pid -> Process]
  <2>1. ASSUME NEW p \in Pid, proc[p].susp > 0
        PROVE  proc[p].susp - 1 \in 0 .. MaxSuspend
    BY <1>0, <2>1 DEF Process
  <2> QED
    BY <2>1 DEF Resumed, Process
<1>4. Released \in [Pid -> Process]
  BY <1>0 DEF Released, Gone, Process
<1> QED
  BY <1>1, <1>2, <1>3, <1>4

(* SuspendThread on processes whose count is below the bound.              *)
LEMMA SuspendKept ==
  ASSUME proc \in [Pid -> Process], NEW S, \A p \in S : proc[p].susp < MaxSuspend
  PROVE  Suspended(S) \in [Pid -> Process]
<1>0. MaxSuspend \in Nat
  BY ConstantsOK
<1>1. ASSUME NEW p \in Pid, p \in S
      PROVE  proc[p].susp + 1 \in 0 .. MaxSuspend
  BY <1>0, <1>1 DEF Process
<1> QED
  BY <1>1 DEF Suspended, Process

-----------------------------------------------------------------------------
(* The questions in a queue: how Append and Tail move them.                *)

LEMMA AppendOther ==
  ASSUME NEW q \in Seq(Signal), NEW x \in Signal \ Question
  PROVE  AskedIn(Append(q, x)) = AskedIn(q)
BY DEF AskedIn

LEMMA AppendQuestion ==
  ASSUME NEW q \in Seq(Signal), NEW x \in Question, AskedIn(q) = {}
  PROVE  AskedIn(Append(q, x)) = {Len(q) + 1}
BY DEF AskedIn, Signal

LEMMA TailQuestion ==
  ASSUME NEW q \in Seq(Signal), q # <<>>
  PROVE  AskedIn(Tail(q)) = {i - 1 : i \in AskedIn(q) \ {1}}
BY DEF AskedIn

(* The only question of a queue is taken off its head.                     *)
LEMMA QuestionAtHead ==
  ASSUME NEW q \in Seq(Signal), q # <<>>, Head(q) \in Question,
         \A i, j \in AskedIn(q) : i = j
  PROVE  1 \in AskedIn(q) /\ AskedIn(Tail(q)) = {}
<1>1. 1 \in AskedIn(q)
  BY DEF AskedIn
<1> QED
  BY <1>1, TailQuestion

-----------------------------------------------------------------------------
(* Types.                                                                  *)

LEMMA InitTyped == Init => TypeOK
<1> SUFFICES ASSUME Init PROVE TypeOK
  OBVIOUS
<1>1. FlagsOK
  BY DEF Init, FlagsOK
<1>2. DataOK
  BY ConstantsOK DEF Init, DataOK, Gone, Process
<1> QED
  BY <1>1, <1>2 DEF TypeOK

(* The Boolean flags, by any step.                                         *)
LEMMA FlagsKept == TypeOK /\ [Next]_vars => FlagsOK'
<1> SUFFICES ASSUME FlagsOK, [Next]_vars PROVE FlagsOK'
  BY DEF TypeOK
<1> USE DEF FlagsOK
<1>1. CASE UNCHANGED vars
  BY <1>1 DEF vars, thread, user
<1>2. CASE Thread
  <2>1. CASE Run BY <2>1 DEF Run, user
  <2>2. CASE LaunchFails BY <2>2 DEF LaunchFails, user
  <2>3. CASE Park BY <2>3 DEF Park, user
  <2>4. CASE Leave BY <2>4 DEF Leave, user
  <2>5. CASE Return BY <2>5 DEF Return, user
  <2>6. ASSUME NEW p \in Pid, Launch(p) PROVE FlagsOK'
    BY <2>6 DEF Launch, user
  <2> QED
    BY <1>2, <2>1, <2>2, <2>3, <2>4, <2>5, <2>6 DEF Thread
<1>3. CASE Debuggee
  <2> SUFFICES ASSUME NEW p \in Pid,
                      Pending(p) \/ StopEvent(p) \/ ExitEvent(p) \/ DetachEvent(p)
                        \/ OtherEvent(p) \/ Child(p)
               PROVE  FlagsOK'
    BY <1>3 DEF Debuggee
  <2>1. CASE CreateEvent(p) BY <2>1 DEF CreateEvent, user
  <2>2. CASE BreakInEvent(p) BY <2>2 DEF BreakInEvent, user
  <2>3. CASE ExitEvent(p) BY <2>3 DEF ExitEvent, user
  <2>4. CASE DetachEvent(p) BY <2>4 DEF DetachEvent, user
  <2>5. CASE StopEvent(p) BY <2>5 DEF StopEvent, user
  <2>6. CASE OtherEvent(p) BY <2>6 DEF OtherEvent, thread, user
  <2>7. CASE Child(p) BY <2>7 DEF Child, thread, user
  <2> QED
    BY <2>1, <2>2, <2>3, <2>4, <2>5, <2>6, <2>7 DEF Pending
<1>4. CASE Commands
  <2>1. CASE DebugStart
    BY <2>1 DEF DebugStart, action_DebugStart, StartDebuggee, ResumeDebugging
  <2>2. CASE AttachStart BY <2>2 DEF AttachStart
  <2>3. CASE DebugStop BY <2>3 DEF DebugStop, user
  <2>4. CASE DebugRestart
    BY <2>4 DEF DebugRestart, action_DebugStart, StartDebuggee, ResumeDebugging
  <2>5. CASE OpenNewFile BY <2>5 DEF OpenNewFile
  <2>6. CASE DebugSuspend BY <2>6 DEF DebugSuspend, thread
  <2>7. CASE Step BY <2>7 DEF Step, user
  <2>8. CASE Detach BY <2>8 DEF Detach
  <2> QED
    BY <1>4, <2>1, <2>2, <2>3, <2>4, <2>5, <2>6, <2>7, <2>8 DEF Commands
<1>5. CASE Slots
  <2>1. CASE OnDebuggerBreak BY <2>1 DEF OnDebuggerBreak, thread
  <2>2. CASE OnDebuggerTerminated
    BY <2>2 DEF OnDebuggerTerminated, action_DebugStart, StartDebuggee, ResumeDebugging
  <2>3. CASE AskForException BY <2>3 DEF AskForException, thread
  <2>4. CASE OnInfo BY <2>4 DEF OnInfo, thread
  <2>5. ASSUME NEW a, HandleForException(a) PROVE FlagsOK'
    BY <2>5 DEF HandleForException, user
  <2> QED
    BY <1>5, <2>1, <2>2, <2>3, <2>4, <2>5 DEF Slots
<1>6. CASE CloseDialog
  BY <1>6 DEF CloseDialog, thread
<1>7. CASE DetachWake
  BY <1>7 DEF DetachWake
<1> QED
  BY <1>1, <1>2, <1>3, <1>4, <1>5, <1>6, <1>7 DEF Next

(* A step of the debugger thread.                                          *)
LEMMA ThreadTyped == DataOK /\ Thread => DataOK'
<1> SUFFICES ASSUME DataOK, Thread PROVE DataOK'
  OBVIOUS
<1>0. MaxSuspend \in Nat /\ 0 \in 0 .. MaxSuspend
  BY ConstantsOK
<1>1. CASE Run
  <2>1. /\ session' = session \/ session' = session + 1
        /\ PIDs' = PIDs \/ PIDs' = <<>>
    BY <1>1 DEF Run
  <2>2. session \in Nat /\ PIDs \in Seq(Pid) /\ <<>> \in Seq(Pid)
    BY DEF DataOK
  <2>3. session' \in Nat
    BY <2>1, <2>2
  <2>4. PIDs' \in Seq(Pid)
    BY <2>1, <2>2
  <2>5. pc' \in {"launch", "none"}
    BY <1>1 DEF Run
  <2> QED
    BY <1>1, <2>3, <2>4, <2>5 DEF Run, DataOK, user
<1>2. CASE LaunchFails
  BY <1>2 DEF LaunchFails, DataOK, user, Signal
<1>3. CASE Park
  BY <1>3 DEF Park, DataOK, user
<1>4. CASE Leave
  BY <1>4 DEF Leave, DataOK, user, Signal
<1>5. CASE Return
  BY <1>5, ProcessesKept DEF Return, DataOK, user
<1>6. ASSUME NEW p \in Pid, Launch(p) PROVE DataOK'
  BY <1>0, <1>6 DEF Launch, DataOK, user, Gone, Process
<1> QED
  BY <1>1, <1>2, <1>3, <1>4, <1>5, <1>6 DEF Thread

(* A breakpoint or an exception that is shown to the user.                 *)
LEMMA ReportData ==
  ASSUME queue \in Seq(Signal), Announce \/ Report
  PROVE  queue' \in Seq(Signal) /\ pc' \in {pc, "announce", "ask"}
<1>1. {"break", "info", "ask"} \subseteq Signal
  BY DEF Signal, Question
<1>2. CASE Announce
  BY <1>1, <1>2 DEF Announce
<1>3. CASE Report
  <2>1. <<"info", "break">> \in Seq(Signal) /\ <<"info", "ask">> \in Seq(Signal)
    BY <1>1
  <2>2. \A t \in Seq(Signal) : queue \o t \in Seq(Signal)
    OBVIOUS
  <2>3. Append(queue, "info") \in Seq(Signal)
    BY <1>1
  <2> QED
    BY <1>3, <2>1, <2>2, <2>3 DEF Report
<1> QED
  BY <1>2, <1>3

(* An event of a debuggee.                                                 *)
LEMMA DebuggeeTyped == DataOK /\ Debuggee => DataOK'
<1> SUFFICES ASSUME DataOK, NEW p \in Pid,
                    Pending(p) \/ StopEvent(p) \/ ExitEvent(p) \/ DetachEvent(p)
                      \/ OtherEvent(p) \/ Child(p)
             PROVE  DataOK'
  BY DEF Debuggee
<1>0. MaxSuspend \in Nat /\ 0 \in 0 .. MaxSuspend /\ Gone \in Process
  BY ConstantsOK DEF Gone, Process
<1>1. CASE CreateEvent(p)
  <2>1. proc' \in [Pid -> Process]
    BY <1>1 DEF CreateEvent, DataOK, Process
  <2>2. queue' \in Seq(Signal) /\ PIDs' \in Seq(Pid)
    BY <1>1 DEF CreateEvent, DataOK, Signal
  <2> QED
    BY <1>1, <2>1, <2>2 DEF CreateEvent, DataOK, user
<1>2. CASE BreakInEvent(p)
  <2>1. proc' \in [Pid -> Process]
    BY <1>2 DEF BreakInEvent, DataOK, Process
  <2>2. queue' \in Seq(Signal) /\ pc' \in {pc, "announce", "ask"}
    BY <1>2, ReportData DEF BreakInEvent, DataOK
  <2> QED
    BY <1>2, <2>1, <2>2 DEF BreakInEvent, DataOK, user
<1>3. CASE ExitEvent(p)
  BY <1>0, <1>3 DEF ExitEvent, DataOK, user, Signal
<1>4. CASE DetachEvent(p)
  <2>1. proc' \in [Pid -> Process]
    BY <1>0, <1>4 DEF DetachEvent, DataOK, Process
  <2> QED
    BY <1>4, <2>1 DEF DetachEvent, DataOK, user
<1>5. CASE StopEvent(p)
  <2>1. queue' \in Seq(Signal) /\ pc' \in {pc, "announce", "ask"}
    BY <1>5, ReportData DEF StopEvent, DataOK
  <2> QED
    BY <1>5, <2>1 DEF StopEvent, DataOK, user
<1>6. CASE OtherEvent(p)
  BY <1>6 DEF OtherEvent, DataOK, thread, user, Signal
<1>7. CASE Child(p)
  <2>1. PICK c \in Pid : proc' = [proc EXCEPT ![c] = [Gone EXCEPT !.st = "new"]]
    BY <1>7 DEF Child
  <2>2. proc' \in [Pid -> Process]
    BY <1>0, <2>1 DEF DataOK, Gone, Process
  <2> QED
    BY <1>7, <2>2 DEF Child, DataOK, thread, user
<1> QED
  BY <1>1, <1>2, <1>3, <1>4, <1>5, <1>6, <1>7 DEF Pending

(* What F9 does, from the menu or for a restart.                           *)
LEMMA StartData ==
  ASSUME DataOK, NEW b \in {"RUN", "SUSPEND", "TERMINATE"}, action_DebugStart(b)
  PROVE  /\ pc' \in {"none", "run", "launch", "loop", "announce", "parked", "ask",
                     "askparked", "leave", "exit"}
         /\ bar' \in {"RUN", "SUSPEND", "TERMINATE"}
         /\ proc' \in [Pid -> Process]
<1>1. CASE StartDebuggee(b)
  BY <1>1 DEF StartDebuggee, Started, DataOK
<1>2. CASE ResumeDebugging
  BY <1>2, ProcessesKept DEF ResumeDebugging, Pulsed, DataOK
<1> QED
  BY <1>1, <1>2 DEF action_DebugStart

(* A command of the user.                                                  *)
LEMMA CommandsTyped == DataOK /\ Commands => DataOK'
<1> SUFFICES ASSUME DataOK, Commands PROVE DataOK'
  OBVIOUS
<1>1. CASE DebugStart
  <2>1. action_DebugStart(bar)
    BY <1>1 DEF DebugStart
  <2> QED
    BY <1>1, <2>1, StartData DEF DebugStart, DataOK
<1>2. CASE AttachStart
  BY <1>2 DEF AttachStart, Started, DataOK
<1>3. CASE DebugStop
  BY <1>3, ProcessesKept DEF DebugStop, StopDebuggingAll, Pulsed, DataOK, user
<1>4. CASE DebugRestart
  <2>1. CASE isDebugging
    BY <1>4, <2>1, ProcessesKept DEF DebugRestart, StopDebuggingAll, Pulsed, DataOK
  <2>2. CASE ~isDebugging
    <3>1. action_DebugStart(bar)
      BY <1>4, <2>2 DEF DebugRestart
    <3> QED
      BY <1>4, <2>2, <3>1, StartData DEF DebugRestart, DataOK
  <2> QED
    BY <2>1, <2>2
<1>5. CASE OpenNewFile
  BY <1>5, ProcessesKept DEF OpenNewFile, StopDebuggingAll, Pulsed, Started, DataOK
<1>6. CASE DebugSuspend
  <2>1. PICK S : /\ \A p \in S : proc[p].susp < MaxSuspend
                 /\ proc' = IF SuspendThreads THEN Suspended(S) ELSE BreakIn(S)
    BY <1>6 DEF DebugSuspend
  <2>2. proc' \in [Pid -> Process]
    BY <2>1, ProcessesKept, SuspendKept DEF DataOK
  <2> QED
    BY <1>6, <2>2 DEF DebugSuspend, DataOK, thread
<1>7. CASE Step
  BY <1>7 DEF Step, Pulsed, DataOK, user
<1>8. CASE Detach
  BY <1>8 DEF Detach, DataOK
<1> QED
  BY <1>1, <1>2, <1>3, <1>4, <1>5, <1>6, <1>7, <1>8 DEF Commands

(* A queued slot, the dialog, and the second half of a detach.             *)
LEMMA SlotsTyped == DataOK /\ (Slots \/ CloseDialog \/ DetachWake) => DataOK'
<1> SUFFICES ASSUME DataOK, Slots \/ CloseDialog \/ DetachWake PROVE DataOK'
  OBVIOUS
<1>1. CASE OnDebuggerBreak
  BY <1>1 DEF OnDebuggerBreak, Slot, DataOK, thread
<1>2. CASE OnDebuggerTerminated
  <2>1. Tail(queue) \in Seq(Signal)
    BY <1>2 DEF OnDebuggerTerminated, Slot, DataOK
  <2>2. CASE isRestart
    <3>1. action_DebugStart("TERMINATE")
      BY <1>2, <2>2 DEF OnDebuggerTerminated
    <3> QED
      BY <1>2, <2>1, <3>1, StartData DEF OnDebuggerTerminated, DataOK
  <2>3. CASE ~isRestart
    BY <1>2, <2>1, <2>3 DEF OnDebuggerTerminated, DataOK
  <2> QED
    BY <2>2, <2>3
<1>3. CASE AskForException
  BY <1>3 DEF AskForException, Slot, DataOK, thread
<1>4. CASE OnInfo
  BY <1>4 DEF OnInfo, Slot, DataOK, thread
<1>5. ASSUME NEW a, HandleForException(a) PROVE DataOK'
  <2>0. queue \in Seq(Signal) /\ queue # <<>> /\ "break" \in Signal
    BY <1>5 DEF HandleForException, Slot, DataOK, Signal
  <2>1. Tail(queue) \in Seq(Signal) /\ Append(Tail(queue), "break") \in Seq(Signal)
    <3>1. Tail(queue) \in Seq(Signal)
      BY <2>0
    <3> QED
      BY <2>0, <3>1
  <2>2. queue' \in Seq(Signal) /\ pc' \in {pc, "announce", "loop"}
    BY <1>5, <2>1 DEF HandleForException
  <2> QED
    BY <1>5, <2>2 DEF HandleForException, DataOK, user
<1>6. CASE CloseDialog
  <2>1. {"answer break", "answer go"} \subseteq Signal
    BY DEF Signal, Question
  <2>2. queue' \in Seq(Signal)
    <3>1. queue \in Seq(Signal)
      BY DEF DataOK
    <3>2. \A a \in Signal : Append(queue, a) \in Seq(Signal)
      BY <3>1
    <3>3. PICK a \in Signal : queue' = Append(queue, a)
      BY <1>6, <2>1 DEF CloseDialog
    <3> QED
      BY <3>2, <3>3, Zenon
  <2> QED
    BY <1>6, <2>2 DEF CloseDialog, DataOK, thread
<1>7. CASE DetachWake
  BY <1>7, ProcessesKept DEF DetachWake, Pulsed, DataOK
<1> QED
  BY <1>1, <1>2, <1>3, <1>4, <1>5, <1>6, <1>7 DEF Slots

LEMMA NextTyped == TypeOK /\ [Next]_vars => TypeOK'
<1> SUFFICES ASSUME TypeOK, [Next]_vars PROVE TypeOK'
  OBVIOUS
<1>1. FlagsOK'
  BY FlagsKept
<1>2. DataOK'
  <2>1. CASE UNCHANGED vars
    BY <2>1 DEF vars, thread, user, TypeOK, DataOK
  <2> QED
    BY <2>1, ThreadTyped, DebuggeeTyped, CommandsTyped, SlotsTyped DEF Next, TypeOK
<1> QED
  BY <1>1, <1>2 DEF TypeOK

(* Every variable keeps its type in every behaviour of the session.        *)
THEOREM TypeCorrect == Spec => []TypeOK
BY InitTyped, NextTyped, PTL DEF Spec

-----------------------------------------------------------------------------
(* No session without its thread.                                          *)

LEMMA GhostInit == Init => NoGhostSession
BY DEF Init, NoGhostSession

LEMMA GhostNext == NoGhostSession /\ [Next]_vars => NoGhostSession'
<1> SUFFICES ASSUME NoGhostSession, [Next]_vars PROVE NoGhostSession'
  OBVIOUS
<1> USE DEF NoGhostSession
<1>1. CASE UNCHANGED vars
  BY <1>1 DEF vars, thread
<1>2. CASE Thread
  <2>1. CASE Run BY <2>1 DEF Run
  <2>2. CASE LaunchFails BY <2>2 DEF LaunchFails
  <2>3. CASE Park BY <2>3 DEF Park
  <2>4. CASE Leave BY <2>4 DEF Leave
  <2>5. CASE Return BY <2>5 DEF Return
  <2>6. ASSUME NEW p \in Pid, Launch(p) PROVE NoGhostSession'
    BY <2>6 DEF Launch
  <2> QED
    BY <1>2, <2>1, <2>2, <2>3, <2>4, <2>5, <2>6 DEF Thread
<1>3. CASE Debuggee
  <2> SUFFICES ASSUME NEW p \in Pid,
                      Pending(p) \/ StopEvent(p) \/ ExitEvent(p) \/ DetachEvent(p)
                        \/ OtherEvent(p) \/ Child(p)
               PROVE  NoGhostSession'
    BY <1>3 DEF Debuggee
  <2>1. CASE CreateEvent(p) BY <2>1 DEF CreateEvent, Waiting
  <2>2. CASE BreakInEvent(p) BY <2>2 DEF BreakInEvent, Report, Waiting
  <2>3. CASE ExitEvent(p) BY <2>3 DEF ExitEvent, Waiting
  <2>4. CASE DetachEvent(p) BY <2>4 DEF DetachEvent
  <2>5. CASE StopEvent(p) BY <2>5 DEF StopEvent, Announce, Report, Waiting
  <2>6. CASE OtherEvent(p) BY <2>6 DEF OtherEvent, thread
  <2>7. CASE Child(p) BY <2>7 DEF Child, thread
  <2> QED
    BY <2>1, <2>2, <2>3, <2>4, <2>5, <2>6, <2>7 DEF Pending
<1>4. CASE Commands
  <2>1. CASE DebugStart
    BY <2>1 DEF DebugStart, action_DebugStart, StartDebuggee, ResumeDebugging, Started, Pulsed
  <2>2. CASE AttachStart BY <2>2 DEF AttachStart, Started
  <2>3. CASE DebugStop BY <2>3 DEF DebugStop, StopDebuggingAll, Pulsed
  <2>4. CASE DebugRestart
    BY <2>4 DEF DebugRestart, StopDebuggingAll, action_DebugStart, StartDebuggee,
                ResumeDebugging, Started, Pulsed
  <2>5. CASE OpenNewFile BY <2>5 DEF OpenNewFile, StopDebuggingAll, Started, Pulsed
  <2>6. CASE DebugSuspend BY <2>6 DEF DebugSuspend, thread
  <2>7. CASE Step BY <2>7 DEF Step, Pulsed
  <2>8. CASE Detach BY <2>8 DEF Detach
  <2> QED
    BY <1>4, <2>1, <2>2, <2>3, <2>4, <2>5, <2>6, <2>7, <2>8 DEF Commands
<1>5. CASE Slots
  <2>1. CASE OnDebuggerBreak BY <2>1 DEF OnDebuggerBreak, thread
  <2>2. CASE OnDebuggerTerminated
    BY <2>2 DEF OnDebuggerTerminated, action_DebugStart, StartDebuggee, ResumeDebugging,
                Started, Pulsed
  <2>3. CASE AskForException BY <2>3 DEF AskForException, thread
  <2>4. CASE OnInfo BY <2>4 DEF OnInfo, thread
  <2>5. ASSUME NEW a, HandleForException(a) PROVE NoGhostSession'
    BY <2>5 DEF HandleForException
  <2> QED
    BY <1>5, <2>1, <2>2, <2>3, <2>4, <2>5 DEF Slots
<1>6. CASE CloseDialog
  BY <1>6 DEF CloseDialog, thread
<1>7. CASE DetachWake
  BY <1>7 DEF DetachWake, Pulsed
<1> QED
  BY <1>1, <1>2, <1>3, <1>4, <1>5, <1>6, <1>7 DEF Next

(* m_isDebugging, by which the GUI chooses between starting and resuming,  *)
(* is true exactly while the debugger thread is in its loop, whatever the  *)
(* interleaving of the two threads.                                        *)
THEOREM GhostFree == Spec => []NoGhostSession
BY GhostInit, GhostNext, PTL DEF Spec

-----------------------------------------------------------------------------
(* One question at a time.                                                 *)

(* What keeps it: no question is added, the dialog is not opened, and the  *)
(* debugger thread leaves the place where it asks only if it has not.      *)
LEMMA QuestionFrame ==
  ASSUME OneQuestion, dialog' => dialog,
         \A i, j \in Asked' : i = j,
         Asked = {} => Asked' = {},
         pc \in {"ask", "askparked"} => pc' \in {"ask", "askparked"}
  PROVE  OneQuestion'
BY DEF OneQuestion

(* A step that leaves the queue alone, or adds a signal that asks nothing. *)
LEMMA QuestionKept ==
  ASSUME OneQuestion, dialog' => dialog, queue \in Seq(Signal),
         queue' = queue \/ \E x \in Signal \ Question : queue' = Append(queue, x),
         pc \in {"ask", "askparked"} => pc' \in {"ask", "askparked"}
  PROVE  OneQuestion'
<1>1. Asked' = Asked
  BY AppendOther DEF Asked
<1> QED
  BY <1>1, QuestionFrame DEF OneQuestion

(* A slot takes its signal off the queue.                                  *)
LEMMA QuestionTaken ==
  ASSUME OneQuestion, queue \in Seq(Signal), queue # <<>>, queue' = Tail(queue)
  PROVE  /\ \A i, j \in Asked' : i = j
         /\ Asked = {} => Asked' = {}
         /\ Head(queue) \in Question => Asked # {} /\ Asked' = {}
<1>1. Asked' = {i - 1 : i \in Asked \ {1}}
  BY TailQuestion DEF Asked
<1>2. \A i, j \in Asked : i = j
  BY DEF OneQuestion
<1>3. Head(queue) \in Question => 1 \in Asked
  BY DEF Asked, AskedIn
<1> QED
  BY <1>1, <1>2, <1>3

(* Behind a queue without a question.                                      *)
LEMMA QuestionAdded ==
  ASSUME queue \in Seq(Signal), Asked = {}, NEW x \in Question, queue' = Append(queue, x)
  PROVE  Asked' # {} /\ \A i, j \in Asked' : i = j
BY AppendQuestion DEF Asked

(* The debugger thread reports an exception from its loop.                 *)
LEMMA QuestionReported ==
  ASSUME OneQuestion, dialog' = dialog, queue \in Seq(Signal), pc = "loop",
         Announce \/ Report
  PROVE  OneQuestion'
<1>1. Asked = {} /\ ~dialog /\ ~dialog'
  BY DEF OneQuestion
<1>2. {"break", "info"} \subseteq Signal \ Question /\ "ask" \in Question
  BY DEF Signal, Question
<1>3. CASE Announce
  BY <1>1, <1>2, <1>3, QuestionKept DEF Announce
<1>4. CASE Report
  <2> DEFINE told == Append(queue, "info")
  <2>1. told \in Seq(Signal) /\ AskedIn(told) = {}
    BY <1>1, <1>2, AppendOther DEF Asked
  <2>2. \A x : queue \o <<"info", x>> = Append(told, x)
    OBVIOUS
  <2>3. CASE queue' = told /\ pc' = pc
    BY <1>1, <1>2, <2>3, QuestionKept
  <2>4. CASE queue' = Append(told, "break") /\ pc' = "announce"
    <3>1. Asked' = {}
      BY <1>2, <2>1, <2>4, AppendOther DEF Asked
    <3> QED
      BY <1>1, <3>1 DEF OneQuestion
  <2>5. CASE queue' = Append(told, "ask") /\ pc' = "ask"
    <3>1. AskedIn(Append(told, "ask")) = {Len(told) + 1}
      BY <1>2, <2>1, AppendQuestion
    <3>2. Asked' = {Len(told) + 1}
      BY <2>5, <3>1 DEF Asked
    <3> QED
      BY <1>1, <2>5, <3>2 DEF OneQuestion
  <2> QED
    BY <1>4, <2>2, <2>3, <2>4, <2>5 DEF Report
<1> QED
  BY <1>3, <1>4

LEMMA QuestionInit == Init => OneQuestion
BY DEF Init, OneQuestion, Asked, AskedIn

LEMMA QuestionNext == TypeOK /\ OneQuestion /\ [Next]_vars => OneQuestion'
<1> SUFFICES ASSUME OneQuestion, queue \in Seq(Signal), [Next]_vars PROVE OneQuestion'
  BY DEF TypeOK, DataOK
<1>0. {"break", "info", "terminated"} \subseteq Signal \ Question
  BY DEF Signal, Question
<1>1. CASE UNCHANGED vars
  BY <1>1, QuestionKept DEF vars, thread, user
<1>2. CASE Thread
  <2>1. CASE Run BY <2>1, QuestionKept DEF Run, user
  <2>2. CASE LaunchFails BY <1>0, <2>2, QuestionKept DEF LaunchFails, user
  <2>3. CASE Park BY <2>3, QuestionKept DEF Park, user
  <2>4. CASE Leave BY <1>0, <2>4, QuestionKept DEF Leave, user
  <2>5. CASE Return BY <2>5, QuestionKept DEF Return, user
  <2>6. ASSUME NEW p \in Pid, Launch(p) PROVE OneQuestion'
    BY <2>6, QuestionKept DEF Launch, user
  <2> QED
    BY <1>2, <2>1, <2>2, <2>3, <2>4, <2>5, <2>6 DEF Thread
<1>3. CASE Debuggee
  <2> SUFFICES ASSUME NEW p \in Pid,
                      Pending(p) \/ StopEvent(p) \/ ExitEvent(p) \/ DetachEvent(p)
                        \/ OtherEvent(p) \/ Child(p)
               PROVE  OneQuestion'
    BY <1>3 DEF Debuggee
  <2>1. CASE CreateEvent(p) BY <1>0, <2>1, QuestionKept DEF CreateEvent, user
  <2>2. CASE BreakInEvent(p) BY <2>2, QuestionReported DEF BreakInEvent, Waiting, user
  <2>3. CASE ExitEvent(p) BY <1>0, <2>3, QuestionKept DEF ExitEvent, Waiting, user
  <2>4. CASE DetachEvent(p) BY <2>4, QuestionKept DEF DetachEvent, user
  <2>5. CASE StopEvent(p) BY <2>5, QuestionReported DEF StopEvent, Waiting, user
  <2>6. CASE OtherEvent(p) BY <1>0, <2>6, QuestionKept DEF OtherEvent, thread, user
  <2>7. CASE Child(p) BY <2>7, QuestionKept DEF Child, thread, user
  <2> QED
    BY <2>1, <2>2, <2>3, <2>4, <2>5, <2>6, <2>7 DEF Pending
<1>4. CASE Commands
  <2> USE DEF Pulsed, Started
  <2>1. CASE DebugStart
    BY <2>1, QuestionKept
       DEF DebugStart, action_DebugStart, StartDebuggee, ResumeDebugging
  <2>2. CASE AttachStart BY <2>2, QuestionKept DEF AttachStart
  <2>3. CASE DebugStop BY <2>3, QuestionKept DEF DebugStop, StopDebuggingAll, user
  <2>4. CASE DebugRestart
    BY <2>4, QuestionKept
       DEF DebugRestart, StopDebuggingAll, action_DebugStart, StartDebuggee, ResumeDebugging
  <2>5. CASE OpenNewFile BY <2>5, QuestionKept DEF OpenNewFile, StopDebuggingAll
  <2>6. CASE DebugSuspend BY <2>6, QuestionKept DEF DebugSuspend, thread
  <2>7. CASE Step BY <2>7, QuestionKept DEF Step, user
  <2>8. CASE Detach BY <2>8, QuestionKept DEF Detach
  <2> QED
    BY <1>4, <2>1, <2>2, <2>3, <2>4, <2>5, <2>6, <2>7, <2>8 DEF Commands
<1>5. CASE Slots
  <2> USE DEF Slot
  <2>1. CASE OnDebuggerBreak
    BY <2>1, QuestionTaken, QuestionFrame DEF OnDebuggerBreak, thread
  <2>2. CASE OnDebuggerTerminated
    BY <2>2, QuestionTaken, QuestionFrame
       DEF OnDebuggerTerminated, action_DebugStart, StartDebuggee, ResumeDebugging,
           Started, Pulsed
  <2>3. CASE AskForException
    <3>1. Asked # {} /\ Asked' = {}
      BY <2>3, QuestionTaken DEF AskForException, Question
    <3> QED
      BY <2>3, <3>1 DEF AskForException, OneQuestion, thread
  <2>4. CASE OnInfo
    BY <2>4, QuestionTaken, QuestionFrame DEF OnInfo, thread
  <2>5. ASSUME NEW a \in {"answer break", "answer go"}, HandleForException(a)
        PROVE  OneQuestion'
    <3>1. Asked # {} /\ AskedIn(Tail(queue)) = {} /\ Tail(queue) \in Seq(Signal)
      <4>1. queue # <<>> /\ Head(queue) \in Question
        BY <2>5 DEF HandleForException, Question
      <4>2. Tail(queue) \in Seq(Signal)
        BY <4>1, HeadTailProperties
      <4> QED
        BY <4>1, <4>2, QuestionAtHead DEF OneQuestion, Asked
    <3>2. ~dialog /\ ~dialog'
      BY <2>5, <3>1 DEF HandleForException, OneQuestion, user
    <3>3. AskedIn(queue') = {}
      <4>1. AskedIn(Append(Tail(queue), "break")) = {}
        BY <1>0, <3>1, AppendOther
      <4>2. queue' \in {Tail(queue), Append(Tail(queue), "break")}
        BY <2>5 DEF HandleForException
      <4> QED
        BY <3>1, <4>1, <4>2
    <3> QED
      BY <3>2, <3>3 DEF OneQuestion, Asked
  <2> QED
    BY <1>5, <2>1, <2>2, <2>3, <2>4, <2>5 DEF Slots
<1>6. CASE CloseDialog
  <2>1. Asked = {} /\ pc \in {"ask", "askparked"} /\ pc' = pc /\ ~dialog'
    BY <1>6 DEF CloseDialog, OneQuestion, thread
  <2>2. PICK a \in Question : queue' = Append(queue, a)
    BY <1>6 DEF CloseDialog, Question
  <2> QED
    BY <2>1, <2>2, QuestionAdded DEF OneQuestion
<1>7. CASE DetachWake
  BY <1>7, QuestionKept DEF DetachWake, Pulsed
<1> QED
  BY <1>1, <1>2, <1>3, <1>4, <1>5, <1>6, <1>7 DEF Next

(* From the AskForException signal to the pulse of its answer there is one *)
(* question, and the debugger thread waits where it asked: no answer       *)
(* releases it from another exception than its own.                        *)
THEOREM QuestionsOneByOne == Spec => []OneQuestion
<1>1. Init => TypeOK /\ OneQuestion
  BY InitTyped, QuestionInit
<1>2. TypeOK /\ OneQuestion /\ [Next]_vars => (TypeOK /\ OneQuestion)'
  BY NextTyped, QuestionNext
<1> QED
  BY <1>1, <1>2, PTL DEF Spec

-----------------------------------------------------------------------------
(* What the state bar says.                                                *)

(* The runs of the GUI, the options and the suspensions for which the bar  *)
(* tells the truth: one debuggee, a GUI that is not scheduled between an   *)
(* emit and what goes with it, and no thread suspended twice.              *)
Truthful == /\ ~DebugChilds
            /\ GUIRuns \subseteq {"launch", "ask", "leave", "event"}
            /\ SuspendThreads => MaxSuspend = 1

InLoop == {"loop", "announce", "parked", "ask", "askparked"}
Asking == {"ask", "askparked"}

(* The last signal of the queue is x.                                      *)
EndsIn(q, x) == q # <<>> /\ q[Len(q)] = x

(* An answer that found the debugger thread not yet waiting is lost, and   *)
(* the thread waits for ever.                                              *)
Lost == pc \in Asking /\ queue = <<>> /\ ~dialog

(* A session has one process, which is in PIDs once its first event is     *)
(* read, and there is none without a session.                              *)
OneDebuggee ==
  /\ \A p \in Pid : Alive(p) =>
       /\ pc \in InLoop /\ \A q \in Pid : Alive(q) => q = p
       /\ proc[p].st = "new" => pc = "loop" /\ PIDs = <<>>
       /\ proc[p].st = "run" => PIDs = <<p>>
  /\ pc \in InLoop => \E p \in Pid : Alive(p)
  /\ pc = "launch" => PIDs = <<>>
  /\ pc = "run" => target /\ ~clearing

(* What a detach leaves to do: first to wake the debugger thread, then the *)
(* event that ends the session.                                            *)
DetachOn ==
  /\ pc = "announce" => ~stop
  /\ pc = "parked" /\ stop => clearing
  /\ clearing => stop \/ pc \in {"leave", "exit", "none"}
  /\ pc = "loop" /\ stop /\ ~clearing /\ PIDs # <<>> =>
       \A p \in Pid : Alive(p) => proc[p].dying \/ proc[p].breakIn

(* A thread is suspended only where the bar says so and nothing is on its  *)
(* way that would change it.                                               *)
SuspendOn ==
  \A p \in Pid :
    /\ ~SuspendThreads => proc[p].susp = 0
    /\ proc[p].st = "new" => proc[p].susp = 0
    /\ Alive(p) /\ proc[p].breakIn => ~SuspendThreads \/ stop \/ Lost
    /\ Alive(p) /\ proc[p].susp > 0 =>
         Lost \/ stop \/ (pc \in {"loop", "parked"} /\ queue = <<>> /\ bar = "SUSPEND")

(* The bar is right, or the signal that makes it right is the last one.    *)
BarOn ==
  /\ pc \in {"announce", "parked"} =>
       EndsIn(queue, "break") \/ (queue = <<>> /\ bar = "SUSPEND")
  /\ pc = "none" => EndsIn(queue, "terminated") \/ (queue = <<>> /\ bar = "TERMINATE")
  /\ pc = "exit" => EndsIn(queue, "terminated")
  /\ pc = "loop" /\ PIDs # <<>> /\ ~stop =>
       EndsIn(queue, "info") \/ (queue = <<>> /\ bar # "TERMINATE")

(* While a question is open the user can do nothing else, and the bar says *)
(* what it said when the exception was reported.                           *)
AskOn ==
  pc \in Asking /\ ~Lost =>
    /\ ~stop /\ ~clearing
    /\ IF queue = <<>> \/ Len(queue) = 1 THEN bar = "RUN"
       ELSE EndsIn(queue, "ask") /\ queue[Len(queue) - 1] = "info"
    /\ dialog => queue = <<>>
    /\ ~dialog => queue[Len(queue)] \in Question

(* The end of a session is the last thing said of it, and the next one     *)
(* does not begin before the GUI has heard it.                             *)
EndOn == \A i \in DOMAIN queue :
           queue[i] = "terminated" => i = Len(queue) /\ pc \in {"exit", "none"}

Base     == TypeOK /\ NoGhostSession /\ OneQuestion
ShownInv == Base /\ OneDebuggee /\ DetachOn /\ SuspendOn /\ BarOn /\ AskOn /\ EndOn

-----------------------------------------------------------------------------
(* The ends of a queue, by Append and Tail.                                *)

LEMMA EndsAppend ==
  ASSUME NEW q \in Seq(Signal), NEW x \in Signal
  PROVE  /\ Append(q, x) \in Seq(Signal) /\ EndsIn(Append(q, x), x)
         /\ \A y : EndsIn(Append(Append(q, y), x), x)
         /\ \A y : EndsIn(q \o <<y, x>>, x)
         /\ \A y : LET t == q \o <<y, x>> IN t # <<>> /\ Len(t) > 1 /\ t[Len(t) - 1] = y
BY DEF EndsIn

LEMMA EndsTail ==
  ASSUME NEW q \in Seq(Signal), q # <<>>
  PROVE  /\ Tail(q) \in Seq(Signal) /\ Len(Tail(q)) = Len(q) - 1
         /\ Tail(q) = <<>> <=> Len(q) = 1
         /\ Tail(q) = <<>> => q[Len(q)] = Head(q)
         /\ Tail(q) # <<>> => Tail(q)[Len(Tail(q))] = q[Len(q)]
         /\ Len(q) > 2 => Tail(q)[Len(Tail(q)) - 1] = q[Len(q) - 1]
         /\ Len(q) = 2 => q[Len(q) - 1] = Head(q)
<1>1. Tail(q) \in Seq(Signal) /\ Len(Tail(q)) = Len(q) - 1
  BY HeadTailProperties
<1>2. \A i \in 1 .. Len(Tail(q)) : Tail(q)[i] = q[i + 1]
  BY <1>1, HeadTailProperties
<1>3. Tail(q) = <<>> <=> Len(Tail(q)) = 0
  BY <1>1, EmptySeq
<1>4. Len(q) \in Nat \ {0} /\ Head(q) = q[1]
  BY EmptySeq
<1> QED
  BY <1>1, <1>2, <1>3, <1>4

(* A slot keeps the last signal, unless it takes it.                       *)
LEMMA EndsKept ==
  ASSUME NEW q \in Seq(Signal), NEW x, EndsIn(q, x)
  PROVE  EndsIn(Tail(q), x) \/ (Tail(q) = <<>> /\ Head(q) = x)
BY EndsTail DEF EndsIn

-----------------------------------------------------------------------------
(* What a step of the GUI comes to.                                        *)

(* The debugger thread is started, or the user has named no file.          *)
StartUp ==
  /\ ~isDebugging /\ proc' = proc /\ stop' = stop /\ clearing' = clearing
  /\ \/ pc' = Started /\ target' /\ bar' = "RUN" /\ PIDs' \in {PIDs, <<>>}
     \/ pc' = pc /\ bar' = bar /\ PIDs' = PIDs

(* The debuggee is let go: resumed, terminated, or for a step.             *)
LetGo ==
  /\ isDebugging /\ pc' = Pulsed /\ stop' = stop /\ clearing' = clearing /\ PIDs' = PIDs
  /\ \/ proc' = Resumed(Range(PIDs)) /\ bar' = "RUN"
     \/ proc' \in {proc, Terminate(Range(PIDs))} /\ bar' = bar

(* Threads are suspended, or a thread is put in that breaks.               *)
Halt ==
  /\ isDebugging /\ PIDs # <<>> /\ bar' = "SUSPEND"
  /\ pc' = pc /\ stop' = stop /\ clearing' = clearing /\ PIDs' = PIDs
  /\ \E S : proc' = IF SuspendThreads THEN Suspended(S) ELSE BreakIn(S)

LEMMA CommandShape ==
  ASSUME TypeOK, Truthful, Commands
  PROVE  /\ queue = <<>> /\ queue' = queue /\ ~dialog /\ ~dialog' /\ ~clearing
         /\ pc \notin {"run", "announce", "exit"}
         /\ StartUp \/ LetGo \/ Halt \/ Detach
<1>1. Free
  BY DEF Commands, DebugStart, AttachStart, DebugStop, DebugRestart, OpenNewFile,
         DebugSuspend, Step, Detach
<1>2. queue = <<>> /\ ~dialog /\ ~clearing /\ pc \notin {"run", "announce", "exit"}
  BY <1>1 DEF Free, Settled, Windows, Truthful
<1> USE DEF StartUp, LetGo, Halt
<1>3. CASE DebugStart
  BY <1>2, <1>3 DEF DebugStart, action_DebugStart, StartDebuggee, ResumeDebugging
<1>4. CASE AttachStart
  BY <1>2, <1>4 DEF AttachStart
<1>5. CASE DebugStop
  BY <1>2, <1>5 DEF DebugStop, StopDebuggingAll, user
<1>6. CASE DebugRestart
  BY <1>2, <1>6 DEF DebugRestart, StopDebuggingAll, action_DebugStart, StartDebuggee,
                    ResumeDebugging
<1>7. CASE OpenNewFile
  BY <1>2, <1>7 DEF OpenNewFile, StopDebuggingAll
<1>8. CASE DebugSuspend
  BY <1>2, <1>8 DEF DebugSuspend, thread
<1>9. CASE Step
  BY <1>2, <1>9 DEF Step, user
<1>10. CASE Detach
  BY <1>2, <1>10 DEF Detach
<1> QED
  BY <1>2, <1>3, <1>4, <1>5, <1>6, <1>7, <1>8, <1>9, <1>10 DEF Commands

(* The signal that a session is over finds no debugger thread.             *)
LEMMA TerminatedShape ==
  ASSUME TypeOK, NoGhostSession, EndOn, Truthful, OnDebuggerTerminated
  PROVE  /\ pc = "none" /\ queue' = <<>> /\ dialog' = dialog /\ ~clearing
         /\ stop' = stop /\ proc' = proc /\ PIDs' = PIDs /\ clearing' = clearing
         /\ (pc' = "run" /\ target') \/ (pc' = pc /\ bar' = "TERMINATE")
<1>1. queue \in Seq(Signal) /\ queue # <<>> /\ queue[1] = "terminated" /\ 1 \in DOMAIN queue
  BY EmptySeq DEF TypeOK, DataOK, OnDebuggerTerminated, Slot
<1>2. Len(queue) = 1 /\ pc \in {"exit", "none"}
  BY <1>1 DEF EndOn
<1>3. pc = "none" /\ ~clearing /\ ~isDebugging
  BY <1>2 DEF OnDebuggerTerminated, Slot, Settled, Windows, Truthful, NoGhostSession
<1>4. queue' = <<>>
  BY <1>1, <1>2, EndsTail DEF OnDebuggerTerminated
<1> QED
  BY <1>3, <1>4 DEF OnDebuggerTerminated, action_DebugStart, StartDebuggee, Started

(* What the operations on processes leave as it is.                        *)
LEMMA ProcessEffects ==
  ASSUME proc \in [Pid -> Process], NEW S, NEW p \in Pid
  PROVE  /\ LET q == BreakIn(S)[p] IN
              /\ q.st = proc[p].st /\ q.dying = proc[p].dying /\ q.susp = proc[p].susp
              /\ proc[p].breakIn => q.breakIn
              /\ p \in S /\ Alive(p) => q.dying \/ q.breakIn
         /\ LET q == Terminate(S)[p] IN
              /\ q.st = proc[p].st /\ q.breakIn = proc[p].breakIn /\ q.susp = proc[p].susp
              /\ proc[p].dying => q.dying
         /\ LET q == Resumed(S)[p] IN
              /\ q.st = proc[p].st /\ q.dying = proc[p].dying /\ q.breakIn = proc[p].breakIn
              /\ proc[p].susp = 0 => q.susp = 0
              /\ p \in S /\ proc[p].susp <= 1 => q.susp = 0
         /\ LET q == Suspended(S)[p] IN
              /\ q.st = proc[p].st /\ q.dying = proc[p].dying /\ q.breakIn = proc[p].breakIn
              /\ ~Alive(p) => q.susp = proc[p].susp
<1>1. proc[p] \in Process
  OBVIOUS
<1> USE <1>1 DEF Process
<1>2. LET q == BreakIn(S)[p] IN
        /\ q.st = proc[p].st /\ q.dying = proc[p].dying /\ q.susp = proc[p].susp
        /\ proc[p].breakIn => q.breakIn
        /\ p \in S /\ Alive(p) => q.dying \/ q.breakIn
  BY DEF BreakIn
<1>3. LET q == Terminate(S)[p] IN
        /\ q.st = proc[p].st /\ q.breakIn = proc[p].breakIn /\ q.susp = proc[p].susp
        /\ proc[p].dying => q.dying
  BY DEF Terminate
<1>4. LET q == Resumed(S)[p] IN
        /\ q.st = proc[p].st /\ q.dying = proc[p].dying /\ q.breakIn = proc[p].breakIn
        /\ proc[p].susp = 0 => q.susp = 0
        /\ p \in S /\ proc[p].susp <= 1 => q.susp = 0
  BY ConstantsOK DEF Resumed
<1>5. LET q == Suspended(S)[p] IN
        /\ q.st = proc[p].st /\ q.dying = proc[p].dying /\ q.breakIn = proc[p].breakIn
        /\ ~Alive(p) => q.susp = proc[p].susp
  BY DEF Suspended
<1> QED
  BY <1>2, <1>3, <1>4, <1>5

-----------------------------------------------------------------------------
(* One debuggee.                                                           *)

LEMMA OneFrame ==
  ASSUME OneDebuggee, PIDs' = PIDs, \A p \in Pid : proc'[p].st = proc[p].st,
         pc' \in InLoop <=> pc \in InLoop,
         (pc = "loop" /\ \E p \in Pid : proc[p].st = "new") => pc' = "loop",
         pc' = "launch" => pc = "launch", pc' = "run" => target' /\ ~clearing'
  PROVE  OneDebuggee'
BY DEF OneDebuggee, Alive

LEMMA OneThread ==
  ASSUME Base, OneDebuggee, EndOn, Truthful, Thread
  PROVE  OneDebuggee'
<1> USE DEF Base, TypeOK, DataOK
<1>1. CASE Run
  BY <1>1 DEF Run, OneDebuggee, InLoop, Alive, user
<1>2. CASE LaunchFails
  BY <1>2 DEF LaunchFails, OneDebuggee, InLoop, Alive, user
<1>3. CASE Park
  BY <1>3, OneFrame DEF Park, InLoop, user
<1>4. CASE Leave
  BY <1>4 DEF Leave, OneDebuggee, InLoop, Alive, user
<1>5. CASE Return
  BY <1>5 DEF Return, Released, Gone, OneDebuggee, InLoop, Alive, user
<1>6. ASSUME NEW p \in Pid, Launch(p) PROVE OneDebuggee'
  <2>1. proc'[p].st = "new" /\ \A q \in Pid \ {p} : proc'[q] = proc[q]
    BY <1>6 DEF Launch, Gone
  <2> QED
    BY <1>6, <2>1 DEF Launch, OneDebuggee, InLoop, Alive, user
<1> QED
  BY <1>1, <1>2, <1>3, <1>4, <1>5, <1>6 DEF Thread

LEMMA OneEvent ==
  ASSUME Base, OneDebuggee, Truthful, Debuggee
  PROVE  OneDebuggee'
<1> SUFFICES ASSUME NEW p \in Pid,
                    Pending(p) \/ StopEvent(p) \/ ExitEvent(p) \/ DetachEvent(p)
                      \/ OtherEvent(p) \/ Child(p)
             PROVE  OneDebuggee'
  BY DEF Debuggee
<1> USE DEF Base, TypeOK, DataOK
<1>0. \A q \in Pid : Alive(p) /\ Alive(q) => q = p
  BY DEF OneDebuggee
<1>1. CASE CreateEvent(p)
  <2>1. proc'[p].st = "run" /\ \A q \in Pid \ {p} : proc'[q] = proc[q]
    BY <1>1 DEF CreateEvent, Process
  <2>2. PIDs' = <<p>>
    <3>1. PIDs = <<>>
      BY <1>1 DEF CreateEvent, Waiting, OneDebuggee
    <3> QED
      BY <1>1, <3>1 DEF CreateEvent
  <2> QED
    BY <1>0, <1>1, <2>1, <2>2 DEF CreateEvent, Waiting, OneDebuggee, InLoop, Alive, user
<1>2. CASE BreakInEvent(p)
  <2>1. \A q \in Pid : proc'[q].st = proc[q].st
    BY <1>2 DEF BreakInEvent, Process
  <2>2. ~ \E q \in Pid : proc[q].st = "new"
    BY <1>0, <1>2 DEF BreakInEvent, Alive
  <2> QED
    BY <1>2, <2>1, <2>2, OneFrame DEF BreakInEvent, Waiting, Report, InLoop, user
<1>3. CASE ExitEvent(p)
  <2>1. proc'[p].st = "gone" /\ \A q \in Pid \ {p} : proc'[q] = proc[q]
    BY <1>3 DEF ExitEvent, Gone
  <2>2. pc' = "leave"
    <3>1. Range(PIDs) \subseteq Pid
      BY DEF Range
    <3> QED
      BY <1>0, <1>3, <3>1 DEF ExitEvent, Waiting
  <2> QED
    BY <1>0, <1>3, <2>1, <2>2 DEF ExitEvent, Waiting, OneDebuggee, InLoop, Alive, user
<1>4. CASE DetachEvent(p)
  <2>1. proc'[p].st \in {"gone", "left"} /\ \A q \in Pid \ {p} : proc'[q] = proc[q]
    BY <1>4 DEF DetachEvent, Gone, Process
  <2> QED
    BY <1>0, <1>4, <2>1 DEF DetachEvent, OneDebuggee, InLoop, Alive, user
<1>5. CASE StopEvent(p)
  <2>1. ~ \E q \in Pid : proc[q].st = "new"
    BY <1>0, <1>5 DEF StopEvent, Runs, Alive
  <2> QED
    BY <1>5, <2>1, OneFrame DEF StopEvent, Waiting, Announce, Report, InLoop, user
<1>6. CASE OtherEvent(p)
  BY <1>6, OneFrame DEF OtherEvent, Waiting, thread, user
<1>7. ~Child(p)
  BY DEF Child, Truthful
<1> QED
  BY <1>1, <1>2, <1>3, <1>4, <1>5, <1>6, <1>7 DEF Pending

LEMMA OneCommand ==
  ASSUME Base, OneDebuggee, Truthful, Commands
  PROVE  OneDebuggee'
<1> USE DEF Base, TypeOK, DataOK
<1>0. /\ ~clearing /\ pc \notin {"run", "announce", "exit"}
      /\ StartUp \/ LetGo \/ Halt \/ Detach
  BY CommandShape
<1>1. CASE StartUp
  <2>1. pc \notin InLoop \cup {"launch"}
    BY <1>1 DEF StartUp, NoGhostSession, InLoop
  <2> QED
    BY <1>0, <1>1, <2>1 DEF StartUp, Started, OneDebuggee, InLoop, Alive
<1>2. CASE LetGo
  <2>1. \A p \in Pid : proc'[p].st = proc[p].st
    BY <1>2, ProcessEffects DEF LetGo
  <2> QED
    BY <1>0, <1>2, <2>1, OneFrame DEF LetGo, Pulsed, InLoop
<1>3. CASE Halt
  <2>1. \A p \in Pid : proc'[p].st = proc[p].st
    BY <1>3, ProcessEffects DEF Halt
  <2> QED
    BY <1>0, <1>3, <2>1, OneFrame DEF Halt
<1>4. CASE Detach
  BY <1>0, <1>4, OneFrame DEF Detach
<1> QED
  BY <1>0, <1>1, <1>2, <1>3, <1>4

LEMMA OneSlot ==
  ASSUME Base, OneDebuggee, EndOn, Truthful, Slots \/ CloseDialog \/ DetachWake
  PROVE  OneDebuggee'
<1> USE DEF Base, TypeOK, DataOK
<1>1. CASE OnDebuggerBreak
  BY <1>1, OneFrame DEF OnDebuggerBreak, Slot, OneDebuggee, thread
<1>2. CASE OnDebuggerTerminated
  BY <1>2, TerminatedShape DEF OneDebuggee, InLoop, Alive
<1>3. CASE AskForException
  BY <1>3, OneFrame DEF AskForException, OneDebuggee, thread
<1>4. CASE OnInfo
  BY <1>4, OneFrame DEF OnInfo, OneDebuggee, thread
<1>5. ASSUME NEW a, HandleForException(a) PROVE OneDebuggee'
  BY <1>5, OneFrame DEF HandleForException, OneDebuggee, InLoop, user
<1>6. CASE CloseDialog
  BY <1>6, OneFrame DEF CloseDialog, OneDebuggee, thread
<1>7. CASE DetachWake
  <2>1. \A p \in Pid : proc'[p].st = proc[p].st
    BY <1>7, ProcessEffects DEF DetachWake
  <2> QED
    BY <1>7, <2>1, OneFrame DEF DetachWake, Pulsed, OneDebuggee, InLoop
<1> QED
  BY <1>1, <1>2, <1>3, <1>4, <1>5, <1>6, <1>7 DEF Slots

-----------------------------------------------------------------------------
(* The end of a session is said once, and last.                            *)

LEMMA EndFrame ==
  ASSUME EndOn, queue' = queue, (queue # <<>> /\ pc \in {"exit", "none"}) => pc' \in {"exit", "none"},
         queue \in Seq(Signal)
  PROVE  EndOn'
<1>1. ASSUME queue = <<>> PROVE EndOn'
  BY <1>1 DEF EndOn
<1> QED
  BY <1>1 DEF EndOn

LEMMA EndAdded ==
  ASSUME EndOn, queue \in Seq(Signal), pc \notin {"exit", "none"}, NEW x \in Signal,
         queue' = Append(queue, x), x # "terminated" \/ pc' \in {"exit", "none"}
  PROVE  EndOn'
<1>1. ASSUME NEW i \in DOMAIN queue', queue'[i] = "terminated"
      PROVE  i = Len(queue') /\ x = "terminated"
  BY <1>1 DEF EndOn
<1> QED
  BY <1>1 DEF EndOn

LEMMA EndTaken ==
  ASSUME EndOn, queue \in Seq(Signal), queue # <<>>, queue' = Tail(queue), pc' = pc
  PROVE  EndOn'
<1>1. ASSUME NEW i \in DOMAIN queue', queue'[i] = "terminated"
      PROVE  i = Len(queue') /\ pc \in {"exit", "none"}
  <2>1. /\ queue' \in Seq(Signal) /\ Len(queue') = Len(queue) - 1 /\ Len(queue) \in Nat
        /\ i \in 1 .. Len(queue')
    BY HeadTailProperties
  <2>2. queue[i + 1] = "terminated" /\ i + 1 \in DOMAIN queue
    BY <1>1, <2>1, HeadTailProperties
  <2> QED
    BY <2>1, <2>2 DEF EndOn
<1> QED
  BY <1>1 DEF EndOn

(* Two signals are added as one after the other.                           *)
LEMMA EndReported ==
  ASSUME EndOn, queue \in Seq(Signal), pc = "loop", Announce \/ Report
  PROVE  EndOn'
<1>1. {"break", "info", "ask"} \subseteq Signal
  BY DEF Signal, Question
<1>2. ASSUME NEW x \in {"break", "ask"}, queue' = queue \o <<"info", x>> PROVE EndOn'
  <2>1. ASSUME NEW i \in DOMAIN queue' PROVE queue'[i] # "terminated"
    BY <1>2, <2>1 DEF EndOn
  <2> QED
    BY <2>1 DEF EndOn
<1> QED
  BY <1>1, <1>2, EndAdded DEF Announce, Report

LEMMA EndNext ==
  ASSUME ShownInv, Truthful, Next
  PROVE  EndOn'
<1> USE DEF ShownInv, Base, TypeOK, DataOK
<1>0. {"break", "info", "terminated"} \cup Question \subseteq Signal
  BY DEF Signal
<1>1. CASE Thread
  <2>1. CASE Run BY <2>1, EndFrame DEF Run
  <2>2. CASE LaunchFails BY <1>0, <2>2, EndAdded DEF LaunchFails
  <2>3. CASE Park BY <2>3, EndFrame DEF Park
  <2>4. CASE Leave BY <1>0, <2>4, EndAdded DEF Leave
  <2>5. CASE Return BY <2>5, EndFrame DEF Return
  <2>6. ASSUME NEW p \in Pid, Launch(p) PROVE EndOn'
    BY <2>6, EndFrame DEF Launch
  <2> QED
    BY <1>1, <2>1, <2>2, <2>3, <2>4, <2>5, <2>6 DEF Thread
<1>2. CASE Debuggee
  <2> SUFFICES ASSUME NEW p \in Pid,
                      Pending(p) \/ StopEvent(p) \/ ExitEvent(p) \/ DetachEvent(p)
                        \/ OtherEvent(p) \/ Child(p)
               PROVE  EndOn'
    BY <1>2 DEF Debuggee
  <2>1. CASE CreateEvent(p) BY <1>0, <2>1, EndAdded DEF CreateEvent, Waiting
  <2>2. CASE BreakInEvent(p) BY <2>2, EndReported DEF BreakInEvent, Waiting
  <2>3. CASE ExitEvent(p) BY <1>0, <2>3, EndAdded DEF ExitEvent, Waiting
  <2>4. CASE DetachEvent(p) BY <2>4, EndFrame DEF DetachEvent
  <2>5. CASE StopEvent(p) BY <2>5, EndReported DEF StopEvent, Waiting
  <2>6. CASE OtherEvent(p) BY <1>0, <2>6, EndAdded DEF OtherEvent, Waiting
  <2>7. ~Child(p) BY DEF Child, Truthful
  <2> QED
    BY <2>1, <2>2, <2>3, <2>4, <2>5, <2>6, <2>7 DEF Pending
<1>3. CASE Commands
  BY <1>3, CommandShape DEF EndOn
<1>4. CASE Slots
  <2>1. CASE OnDebuggerBreak BY <2>1, EndTaken DEF OnDebuggerBreak, Slot, thread
  <2>2. CASE OnDebuggerTerminated BY <2>2, TerminatedShape DEF EndOn
  <2>3. CASE AskForException BY <2>3, EndTaken DEF AskForException, Slot, thread
  <2>4. CASE OnInfo BY <2>4, EndTaken DEF OnInfo, Slot, thread
  <2>5. ASSUME NEW a, HandleForException(a) PROVE EndOn'
    <3>1. CASE pc # "askparked"
      BY <2>5, <3>1, EndTaken DEF HandleForException, Slot
    <3>2. CASE pc = "askparked"
      <4>1. queue # <<>> /\ Tail(queue) \in Seq(Signal)
        BY <2>5, EndsTail DEF HandleForException, Slot
      <4>2. \A i \in DOMAIN Tail(queue) : Tail(queue)[i] # "terminated"
        <5>1. ASSUME NEW i \in DOMAIN Tail(queue) PROVE Tail(queue)[i] # "terminated"
          <6>1. i \in 1 .. Len(Tail(queue)) /\ i + 1 \in DOMAIN queue
            BY <4>1, EndsTail
          <6> QED
            BY <3>2, <4>1, <6>1, HeadTailProperties DEF EndOn
        <5> QED
          BY <5>1
      <4>3. queue' \in {Tail(queue), Append(Tail(queue), "break")}
        BY <2>5 DEF HandleForException
      <4>4. \A i \in DOMAIN queue' : queue'[i] # "terminated"
        <5>1. CASE queue' = Tail(queue)
          BY <4>2, <5>1
        <5>2. CASE queue' = Append(Tail(queue), "break")
          <6>1. \A i \in DOMAIN queue' : i \in DOMAIN Tail(queue) \/ i = Len(Tail(queue)) + 1
            BY <4>1, <5>2
          <6>2. queue'[Len(Tail(queue)) + 1] = "break"
            BY <4>1, <5>2
          <6>3. \A i \in DOMAIN Tail(queue) : queue'[i] = Tail(queue)[i]
            BY <4>1, <5>2
          <6> QED
            BY <4>2, <6>1, <6>2, <6>3
        <5> QED
          BY <4>3, <5>1, <5>2
      <4> QED
        BY <4>4 DEF EndOn
    <3> QED
      BY <3>1, <3>2
  <2> QED
    BY <1>4, <2>1, <2>2, <2>3, <2>4, <2>5 DEF Slots
<1>5. CASE CloseDialog
  <2>1. PICK a \in Question : queue' = Append(queue, a)
    BY <1>5 DEF CloseDialog, Question
  <2>2. pc \in {"ask", "askparked"} /\ a # "terminated"
    BY <1>5 DEF CloseDialog, OneQuestion, Question
  <2> QED
    BY <1>0, <2>1, <2>2, EndAdded
<1>6. CASE DetachWake
  BY <1>6, EndFrame DEF DetachWake, Pulsed
<1> QED
  BY <1>1, <1>2, <1>3, <1>4, <1>5, <1>6 DEF Next

-----------------------------------------------------------------------------
(* The detach that is under way.                                           *)

LEMMA DetachNext ==
  ASSUME ShownInv, Truthful, Next
  PROVE  DetachOn'
<1> USE DEF ShownInv, Base, TypeOK, DataOK
<1>1. CASE Thread
  <2>1. CASE Run BY <2>1 DEF Run, DetachOn, OneDebuggee, user
  <2>2. CASE LaunchFails BY <2>2 DEF LaunchFails, DetachOn, user
  <2>3. CASE Park BY <2>3 DEF Park, DetachOn, user
  <2>4. CASE Leave BY <2>4 DEF Leave, DetachOn, user
  <2>5. CASE Return BY <2>5 DEF Return, DetachOn, user
  <2>6. ASSUME NEW p \in Pid, Launch(p) PROVE DetachOn'
    BY <2>6 DEF Launch, DetachOn, OneDebuggee, user
  <2> QED
    BY <1>1, <2>1, <2>2, <2>3, <2>4, <2>5, <2>6 DEF Thread
<1>2. CASE Debuggee
  <2> SUFFICES ASSUME NEW p \in Pid,
                      Pending(p) \/ StopEvent(p) \/ ExitEvent(p) \/ DetachEvent(p)
                        \/ OtherEvent(p) \/ Child(p)
               PROVE  DetachOn'
    BY <1>2 DEF Debuggee
  <2>1. CASE CreateEvent(p) BY <2>1 DEF CreateEvent, Waiting, DetachOn, user
  <2>2. CASE BreakInEvent(p) BY <2>2 DEF BreakInEvent, Waiting, Report, DetachOn, user
  <2>3. CASE ExitEvent(p) BY <2>3 DEF ExitEvent, Waiting, DetachOn, user
  <2>4. CASE DetachEvent(p) BY <2>4 DEF DetachEvent, DetachOn, user
  <2>5. CASE StopEvent(p) BY <2>5 DEF StopEvent, Waiting, Announce, Report, DetachOn, user
  <2>6. CASE OtherEvent(p) BY <2>6 DEF OtherEvent, Waiting, DetachOn, thread, user
  <2>7. ~Child(p) BY DEF Child, Truthful
  <2> QED
    BY <2>1, <2>2, <2>3, <2>4, <2>5, <2>6, <2>7 DEF Pending
<1>3. CASE Commands
  <2>0. /\ ~clearing /\ pc \notin {"run", "announce", "exit"}
        /\ StartUp \/ LetGo \/ Halt \/ Detach
    BY <1>3, CommandShape
  <2>1. CASE StartUp
    BY <2>0, <2>1 DEF StartUp, Started, DetachOn, NoGhostSession
  <2>2. CASE LetGo
    <3>1. \A p \in Pid : /\ proc'[p].st = proc[p].st
                         /\ proc[p].dying => proc'[p].dying
                         /\ proc[p].breakIn => proc'[p].breakIn
      BY <2>2, ProcessEffects DEF LetGo
    <3> QED
      BY <2>0, <2>2, <3>1 DEF LetGo, Pulsed, DetachOn, Alive
  <2>3. CASE Halt
    <3>1. \A p \in Pid : /\ proc'[p].st = proc[p].st
                         /\ proc[p].dying => proc'[p].dying
                         /\ proc[p].breakIn => proc'[p].breakIn
      BY <2>3, ProcessEffects DEF Halt
    <3> QED
      BY <2>0, <2>3, <3>1 DEF Halt, DetachOn, Alive
  <2>4. CASE Detach
    BY <2>0, <2>4 DEF Detach, DetachOn
  <2> QED
    BY <2>0, <2>1, <2>2, <2>3, <2>4
<1>4. CASE Slots
  <2>1. CASE OnDebuggerBreak BY <2>1 DEF OnDebuggerBreak, DetachOn, Alive, thread
  <2>2. CASE OnDebuggerTerminated
    <3>1. pc' \in {"run", "none"} /\ ~clearing'
      BY <2>2, TerminatedShape
    <3> QED
      BY <3>1 DEF DetachOn
  <2>3. CASE AskForException BY <2>3 DEF AskForException, DetachOn, Alive, thread
  <2>4. CASE OnInfo BY <2>4 DEF OnInfo, DetachOn, Alive, thread
  <2>5. ASSUME NEW a, HandleForException(a) PROVE DetachOn'
    <3>1. pc = "askparked" => ~stop /\ ~clearing
      BY <2>5 DEF HandleForException, Slot, AskOn, Asking, Lost
    <3> QED
      BY <2>5, <3>1 DEF HandleForException, DetachOn, Alive, user
  <2> QED
    BY <1>4, <2>1, <2>2, <2>3, <2>4, <2>5 DEF Slots
<1>5. CASE CloseDialog
  BY <1>5 DEF CloseDialog, DetachOn, Alive, thread
<1>6. CASE DetachWake
  <2>1. ASSUME NEW p \in Pid, Alive(p), pc = "parked" \/ PIDs # <<>>
        PROVE  p \in Reached
    <3>1. PIDs = <<p>>
      BY <2>1 DEF OneDebuggee, Alive
    <3> QED
      BY <2>1, <3>1 DEF Reached, Present, Alive
  <2>2. pc = "parked" => pc' = "loop"
    BY <1>6, <2>1 DEF DetachWake, OneDebuggee, InLoop, Pulsed
  <2>3. \A p \in Pid : Alive(p) /\ p \in Reached => proc'[p].dying \/ proc'[p].breakIn
    BY <1>6, ProcessEffects DEF DetachWake
  <2>4. \A p \in Pid : proc'[p].st = proc[p].st
    BY <1>6, ProcessEffects DEF DetachWake
  <2>5. \A p \in Pid : Alive(p)' => Alive(p)
    BY <2>4 DEF Alive
  <2> QED
    BY <1>6, <2>1, <2>2, <2>3, <2>5 DEF DetachWake, DetachOn, Pulsed
<1> QED
  BY <1>1, <1>2, <1>3, <1>4, <1>5, <1>6 DEF Next

-----------------------------------------------------------------------------
(* Suspended threads.                                                      *)

(* No process lives outside the loop.                                      *)
LEMMA NobodyThere ==
  ASSUME OneDebuggee, pc \notin InLoop
  PROVE  \A p \in Pid : ~Alive(p)
BY DEF OneDebuggee

(* A step that changes no process, and none of what a suspended one needs. *)
LEMMA SuspendFrame ==
  ASSUME SuspendOn, proc' = proc,
         \/ \A p \in Pid : ~Alive(p)
         \/ /\ Lost => Lost' \/ stop'
            /\ stop => stop'
            /\ \/ \A p \in Pid : Alive(p) => proc[p].susp = 0
               \/ Lost \/ stop
  PROVE  SuspendOn'
BY DEF SuspendOn, Alive

(* Behind a signal that is on its way nobody is suspended, or the session  *)
(* is being left.                                                          *)
LEMMA NobodySuspended ==
  ASSUME proc \in [Pid -> Process], SuspendOn, queue # <<>>
  PROVE  ~Lost /\ (stop \/ \A p \in Pid : Alive(p) => proc[p].susp = 0)
<1>1. \A p \in Pid : proc[p].susp \in Nat
  BY ConstantsOK DEF Process
<1> QED
  BY <1>1 DEF SuspendOn, Lost

LEMMA SuspendThread ==
  ASSUME ShownInv, Truthful, Thread
  PROVE  SuspendOn'
<1> USE DEF ShownInv, Base, TypeOK, DataOK
<1>1. CASE Run
  BY <1>1, NobodyThere, SuspendFrame DEF Run, InLoop
<1>2. CASE LaunchFails
  BY <1>2, NobodyThere, SuspendFrame DEF LaunchFails, InLoop
<1>3. CASE Park
  <2>1. Lost => Lost'
    BY <1>3 DEF Park, Lost, Asking, user
  <2>2. pc = "announce" => \A p \in Pid : Alive(p) => proc[p].susp = 0 \/ stop
    <3>1. \A p \in Pid : proc[p].susp \in Nat
      BY ConstantsOK DEF Process
    <3> QED
      BY <3>1 DEF SuspendOn, Lost, Asking
  <2>3. pc = "ask" => \A p \in Pid : Alive(p) => proc[p].susp = 0 \/ stop \/ Lost
    <3>1. \A p \in Pid : proc[p].susp \in Nat
      BY ConstantsOK DEF Process
    <3> QED
      BY <3>1 DEF SuspendOn
  <2> QED
    BY <1>3, <2>1, <2>2, <2>3, SuspendFrame DEF Park
<1>4. CASE Leave
  BY <1>4, NobodyThere, SuspendFrame DEF Leave, InLoop
<1>5. CASE Return
  <2>1. \A p \in Pid : proc'[p] = proc[p]
    BY <1>5, NobodyThere DEF Return, Released, InLoop
  <2>2. \A p \in Pid : ~Alive(p)
    BY <1>5, NobodyThere DEF Return, InLoop
  <2> QED
    BY <2>1, <2>2 DEF SuspendOn, Alive
<1>6. ASSUME NEW p \in Pid, Launch(p) PROVE SuspendOn'
  <2>1. \A q \in Pid : ~Alive(q)
    BY <1>6, NobodyThere DEF Launch, InLoop
  <2>2. /\ proc'[p].susp = 0 /\ ~proc'[p].breakIn
        /\ \A q \in Pid \ {p} : proc'[q] = proc[q]
    BY <1>6 DEF Launch, Gone
  <2> QED
    BY <2>1, <2>2 DEF SuspendOn, Alive
<1> QED
  BY <1>1, <1>2, <1>3, <1>4, <1>5, <1>6 DEF Thread

LEMMA SuspendEvent ==
  ASSUME ShownInv, Truthful, Debuggee
  PROVE  SuspendOn'
<1> SUFFICES ASSUME NEW p \in Pid,
                    Pending(p) \/ StopEvent(p) \/ ExitEvent(p) \/ DetachEvent(p)
                      \/ OtherEvent(p) \/ Child(p)
             PROVE  SuspendOn'
  BY DEF Debuggee
<1> USE DEF ShownInv, Base, TypeOK, DataOK
<1>0. Alive(p) => \A q \in Pid : Alive(q) => q = p
  BY DEF OneDebuggee
<1>1. CASE CreateEvent(p)
  <2>1. /\ proc'[p].susp = proc[p].susp /\ proc'[p].breakIn = proc[p].breakIn
        /\ \A q \in Pid \ {p} : proc'[q] = proc[q]
    BY <1>1 DEF CreateEvent, Process
  <2>2. proc[p].susp = 0 /\ (proc[p].breakIn => ~SuspendThreads)
    BY <1>1 DEF CreateEvent, Waiting, SuspendOn, Lost, Asking
  <2> QED
    BY <1>0, <1>1, <2>1, <2>2 DEF CreateEvent, Waiting, SuspendOn, Alive
<1>2. CASE BreakInEvent(p)
  <2>1. /\ proc'[p].susp = proc[p].susp /\ proc'[p].breakIn = FALSE
        /\ proc'[p].st = proc[p].st /\ \A q \in Pid \ {p} : proc'[q] = proc[q]
    BY <1>2 DEF BreakInEvent, Process
  <2>2. ~SuspendThreads
    BY <1>2 DEF BreakInEvent, Waiting, SuspendOn, Lost, Asking
  <2>3. proc[p].susp = 0
    BY <2>2 DEF SuspendOn
  <2> QED
    BY <1>0, <1>2, <2>1, <2>2, <2>3 DEF BreakInEvent, Waiting, SuspendOn, Alive
<1>3. CASE ExitEvent(p)
  <2>1. /\ proc'[p].susp = 0 /\ proc'[p].st = "gone"
        /\ \A q \in Pid \ {p} : proc'[q] = proc[q]
    BY <1>3 DEF ExitEvent, Gone
  <2> QED
    BY <1>0, <1>3, <2>1 DEF ExitEvent, Waiting, SuspendOn, Alive
<1>4. CASE DetachEvent(p)
  <2>1. /\ proc'[p].susp = 0 \/ proc'[p].susp = proc[p].susp
        /\ proc'[p].st \in {"gone", "left"} /\ \A q \in Pid \ {p} : proc'[q] = proc[q]
    BY <1>4 DEF DetachEvent, Gone, Process
  <2> QED
    BY <1>0, <1>4, <2>1 DEF DetachEvent, SuspendOn, Alive
<1>5. ASSUME StopEvent(p) \/ OtherEvent(p) PROVE SuspendOn'
  <2>1. /\ pc = "loop" /\ proc' = proc /\ stop' = stop
        /\ \A q \in Pid : Alive(q) => proc[q].susp = 0
    BY <1>0, <1>5 DEF StopEvent, OtherEvent, Waiting, Runs, thread
  <2> QED
    BY <2>1, SuspendFrame DEF Lost, Asking
<1>6. ~Child(p)
  BY DEF Child, Truthful
<1> QED
  BY <1>1, <1>2, <1>3, <1>4, <1>5, <1>6 DEF Pending

LEMMA SuspendCommand ==
  ASSUME ShownInv, Truthful, Commands
  PROVE  SuspendOn'
<1> USE DEF ShownInv, Base, TypeOK, DataOK
<1>0. /\ queue = <<>> /\ queue' = queue /\ ~dialog /\ ~dialog' /\ ~clearing
      /\ pc \notin {"run", "announce", "exit"}
      /\ StartUp \/ LetGo \/ Halt \/ Detach
  BY CommandShape
<1>1. CASE StartUp
  BY <1>1, NobodyThere, SuspendFrame DEF StartUp, NoGhostSession, InLoop
<1>a. ASSUME pc' \in {pc, Pulsed} PROVE Lost <=> Lost'
  BY <1>0, <1>a DEF Lost, Asking, Pulsed
<1>2. CASE LetGo
  <2>1. \A p \in Pid : /\ proc'[p].st = proc[p].st /\ proc'[p].breakIn = proc[p].breakIn
                       /\ proc[p].susp = 0 => proc'[p].susp = 0
    BY <1>2, ProcessEffects DEF LetGo
  <2>2. CASE bar' = "RUN" /\ proc' = Resumed(Range(PIDs))
    <3>1. ASSUME NEW p \in Pid, Alive(p) PROVE proc'[p].susp = 0
      <4>1. CASE proc[p].susp = 0
        BY <2>1, <4>1
      <4>2. CASE proc[p].susp # 0
        <5>1. p \in Range(PIDs)
          <6>1. PIDs = <<p>>
            BY <3>1, <4>2 DEF SuspendOn, OneDebuggee, Alive
          <6> QED
            BY <6>1 DEF Range
        <5>2. proc[p].susp <= 1
          BY <4>2, ConstantsOK DEF SuspendOn, Truthful, Process
        <5> QED
          BY <2>2, <5>1, <5>2, ProcessEffects
      <4> QED
        BY <4>1, <4>2
    <3> QED
      BY <1>2, <1>a, <2>1, <3>1 DEF LetGo, SuspendOn, Alive
  <2>3. CASE bar' = bar /\ proc' \in {proc, Terminate(Range(PIDs))}
    <3>1. \A p \in Pid : proc'[p].susp = proc[p].susp
      BY <2>3, ProcessEffects
    <3> QED
      BY <1>0, <1>2, <1>a, <2>1, <2>3, <3>1 DEF LetGo, Pulsed, SuspendOn, Alive
  <2> QED
    BY <1>2, <2>2, <2>3 DEF LetGo
<1>3. CASE Halt
  <2>1. \A p \in Pid : proc'[p].st = proc[p].st
    BY <1>3, ProcessEffects DEF Halt
  <2>2. \A p \in Pid : proc[p].st # "new"
    BY <1>3 DEF Halt, OneDebuggee, Alive
  <2>3. \A p \in Pid : ~SuspendThreads => proc'[p].susp = proc[p].susp
    BY <1>3, ProcessEffects DEF Halt
  <2>4. \A p \in Pid : SuspendThreads => proc'[p].breakIn = proc[p].breakIn
    BY <1>3, ProcessEffects DEF Halt
  <2>5. \A p \in Pid : Alive(p) => Lost \/ pc \in {"loop", "parked"}
    BY <1>0, <1>3 DEF OneDebuggee, InLoop, Lost, Asking
  <2> QED
    BY <1>0, <1>3, <1>a, <2>1, <2>2, <2>3, <2>4, <2>5 DEF Halt, SuspendOn, Alive
<1>4. CASE Detach
  BY <1>4 DEF Detach, SuspendOn, Alive
<1> QED
  BY <1>0, <1>1, <1>2, <1>3, <1>4

LEMMA SuspendSlot ==
  ASSUME ShownInv, Truthful, Slots \/ CloseDialog \/ DetachWake
  PROVE  SuspendOn'
<1> USE DEF ShownInv, Base, TypeOK, DataOK
<1>1. CASE OnDebuggerTerminated
  BY <1>1, TerminatedShape, NobodyThere, SuspendFrame DEF InLoop
<1>2. CASE Slots /\ ~OnDebuggerTerminated
  <2>1. queue # <<>> /\ proc' = proc /\ stop' = stop
    BY <1>2 DEF Slots, OnDebuggerBreak, AskForException, OnInfo, HandleForException, Slot,
                thread
  <2> QED
    BY <2>1, NobodySuspended, SuspendFrame
<1>3. CASE CloseDialog
  <2>1. ~Lost /\ pc \in Asking /\ proc' = proc /\ stop' = stop
    BY <1>3 DEF CloseDialog, OneQuestion, Lost, Asking, thread
  <2>2. \A p \in Pid : Alive(p) => proc[p].susp = 0 \/ stop
    <3>1. \A p \in Pid : proc[p].susp \in Nat
      BY ConstantsOK DEF Process
    <3> QED
      BY <2>1, <3>1 DEF SuspendOn, Asking
  <2> QED
    BY <2>1, <2>2, SuspendFrame
<1>4. CASE DetachWake
  <2>1. \A p \in Pid : proc'[p].st = proc[p].st /\ proc'[p].susp = proc[p].susp
    BY <1>4, ProcessEffects DEF DetachWake
  <2>2. \A p \in Pid : Alive(p) => stop'
    BY <1>4 DEF DetachWake, DetachOn, OneDebuggee, InLoop
  <2> QED
    BY <2>1, <2>2 DEF SuspendOn, Alive
<1> QED
  BY <1>1, <1>2, <1>3, <1>4

-----------------------------------------------------------------------------
(* The state bar.                                                          *)

LEMMA BarThread ==
  ASSUME ShownInv, Truthful, Thread
  PROVE  BarOn'
<1> USE DEF ShownInv, Base, TypeOK, DataOK
<1>0. "terminated" \in Signal
  BY DEF Signal
<1>1. CASE Run
  BY <1>1 DEF Run, BarOn, OneDebuggee, NoGhostSession
<1>2. CASE LaunchFails
  BY <1>0, <1>2, EndsAppend DEF LaunchFails, BarOn
<1>3. CASE Park
  BY <1>3 DEF Park, BarOn, user
<1>4. CASE Leave
  BY <1>0, <1>4, EndsAppend DEF Leave, BarOn
<1>5. CASE Return
  BY <1>5 DEF Return, BarOn
<1>6. ASSUME NEW p \in Pid, Launch(p) PROVE BarOn'
  BY <1>6 DEF Launch, BarOn, OneDebuggee
<1> QED
  BY <1>1, <1>2, <1>3, <1>4, <1>5, <1>6 DEF Thread

LEMMA BarEvent ==
  ASSUME ShownInv, Truthful, Debuggee
  PROVE  BarOn'
<1> SUFFICES ASSUME NEW p \in Pid,
                    Pending(p) \/ StopEvent(p) \/ ExitEvent(p) \/ DetachEvent(p)
                      \/ OtherEvent(p) \/ Child(p)
             PROVE  BarOn'
  BY DEF Debuggee
<1> USE DEF ShownInv, Base, TypeOK, DataOK
<1>0. {"break", "info", "ask"} \subseteq Signal
  BY DEF Signal, Question
<1>a. /\ EndsIn(Append(queue, "info"), "info") /\ EndsIn(Append(queue, "break"), "break")
      /\ EndsIn(queue \o <<"info", "break">>, "break")
  BY <1>0, EndsAppend
<1>b. ASSUME Announce \/ Report, pc = "loop" PROVE BarOn'
  BY <1>a, <1>b DEF Announce, Report, BarOn
<1>1. CASE CreateEvent(p)
  BY <1>1, <1>a DEF CreateEvent, Waiting, BarOn
<1>2. CASE BreakInEvent(p)
  BY <1>2, <1>b DEF BreakInEvent, Waiting
<1>3. CASE ExitEvent(p)
  BY <1>3, <1>a DEF ExitEvent, Waiting, BarOn
<1>4. CASE DetachEvent(p)
  BY <1>4 DEF DetachEvent, BarOn
<1>5. CASE StopEvent(p)
  BY <1>5, <1>b DEF StopEvent, Waiting
<1>6. CASE OtherEvent(p)
  BY <1>6, <1>a DEF OtherEvent, Waiting, BarOn, thread
<1>7. ~Child(p)
  BY DEF Child, Truthful
<1> QED
  BY <1>1, <1>2, <1>3, <1>4, <1>5, <1>6, <1>7 DEF Pending

LEMMA BarCommand ==
  ASSUME ShownInv, Truthful, Commands
  PROVE  BarOn'
<1> USE DEF ShownInv, Base, TypeOK, DataOK
<1>0. /\ queue = <<>> /\ queue' = queue /\ ~clearing
      /\ pc \notin {"run", "announce", "exit"}
      /\ StartUp \/ LetGo \/ Halt \/ Detach
  BY CommandShape
<1> USE DEF BarOn, EndsIn
<1>1. CASE StartUp
  BY <1>0, <1>1 DEF StartUp, Started, NoGhostSession
<1>2. CASE LetGo
  BY <1>0, <1>2 DEF LetGo, Pulsed, NoGhostSession
<1>3. CASE Halt
  BY <1>0, <1>3 DEF Halt, NoGhostSession
<1>4. CASE Detach
  BY <1>0, <1>4 DEF Detach, NoGhostSession
<1> QED
  BY <1>0, <1>1, <1>2, <1>3, <1>4

(* The signal a slot takes.                                                *)
LEMMA SlotFacts ==
  ASSUME queue \in Seq(Signal), NEW x, Slot(x)
  PROVE  /\ queue # <<>> /\ Len(queue) \in Nat \ {0}
         /\ 1 \in DOMAIN queue /\ Len(queue) \in DOMAIN queue
         /\ queue[1] = x /\ Head(queue) = x
<1>1. queue # <<>> /\ Head(queue) = x
  BY DEF Slot
<1>2. Len(queue) \in Nat \ {0} /\ DOMAIN queue = 1 .. Len(queue)
  BY <1>1, EmptySeq
<1> QED
  BY <1>1, <1>2

(* A question or an answer at the head of the queue is alone there.        *)
LEMMA AnswerAlone ==
  ASSUME ShownInv, NEW a \in {"answer break", "answer go", "ask"}, Slot(a)
  PROVE  /\ pc \in Asking /\ ~Lost /\ ~dialog /\ bar = "RUN"
         /\ queue \in Seq(Signal) /\ queue # <<>> /\ Tail(queue) = <<>>
<1>0. queue \in Seq(Signal) /\ OneQuestion /\ AskOn /\ a \in Question
  BY DEF ShownInv, Base, TypeOK, DataOK, Question
<1>1. /\ queue # <<>> /\ Len(queue) \in Nat \ {0} /\ 1 \in DOMAIN queue
      /\ queue[1] = a /\ Len(queue) \in DOMAIN queue
  BY <1>0, SlotFacts
<1>2. 1 \in Asked
  BY <1>0, <1>1 DEF Asked, AskedIn
<1>3. pc \in Asking /\ ~dialog
  BY <1>0, <1>2 DEF OneQuestion, Asking
<1>4. ~Lost
  BY <1>1 DEF Lost
<1>5. Len(queue) = 1
  <2>1. queue[Len(queue)] \in Question
    BY <1>0, <1>3, <1>4 DEF AskOn
  <2>2. Len(queue) \in Asked
    BY <1>1, <2>1 DEF Asked, AskedIn
  <2> QED
    BY <1>0, <1>2, <2>2 DEF OneQuestion
<1>6. bar = "RUN"
  BY <1>0, <1>3, <1>4, <1>5 DEF AskOn
<1> QED
  BY <1>0, <1>1, <1>3, <1>4, <1>5, <1>6, EndsTail

LEMMA BarSlot ==
  ASSUME ShownInv, Truthful, Slots \/ CloseDialog \/ DetachWake
  PROVE  BarOn'
<1> USE DEF ShownInv, Base, TypeOK, DataOK
<1>0. Settled => pc \notin {"run", "announce", "exit"}
  BY DEF Settled, Windows, Truthful
<1>a. ASSUME NEW x, Slot(x)
      PROVE  /\ Settled /\ queue # <<>> /\ Head(queue) = x
             /\ \A y : EndsIn(queue, y) => EndsIn(Tail(queue), y) \/ (Tail(queue) = <<>> /\ x = y)
  BY <1>a, EndsKept DEF Slot
<1>1. CASE OnDebuggerBreak
  BY <1>0, <1>1, <1>a DEF OnDebuggerBreak, BarOn, NoGhostSession, thread
<1>2. CASE OnDebuggerTerminated
  <2>1. pc' \in {"run", "none"} /\ queue' = <<>> /\ (pc' = "none" => bar' = "TERMINATE")
    BY <1>2, TerminatedShape
  <2> QED
    BY <2>1 DEF BarOn
<1>3. CASE AskForException
  <2>1. pc \in Asking
    BY <1>3, AnswerAlone DEF AskForException
  <2> QED
    BY <1>3, <2>1 DEF AskForException, BarOn, Asking, thread
<1>4. CASE OnInfo
  BY <1>0, <1>4, <1>a DEF OnInfo, BarOn, thread
<1>5. ASSUME NEW a \in {"answer break", "answer go"}, HandleForException(a) PROVE BarOn'
  <2>1. pc \in Asking /\ bar = "RUN" /\ Tail(queue) = <<>>
    BY <1>5, AnswerAlone DEF HandleForException
  <2>2. EndsIn(Append(Tail(queue), "break"), "break")
    <3>1. "break" \in Signal /\ <<>> \in Seq(Signal)
      BY EmptySeq DEF Signal
    <3> QED
      BY <2>1, <3>1, EndsAppend
  <2> QED
    BY <1>5, <2>1, <2>2 DEF HandleForException, BarOn, Asking, user
<1>6. CASE CloseDialog
  BY <1>6 DEF CloseDialog, BarOn, OneQuestion, thread
<1>7. CASE DetachWake
  <2>1. /\ bar' = "TERMINATE" /\ queue' = queue /\ stop' = stop /\ PIDs' = PIDs
        /\ pc' \in {pc, Pulsed} /\ pc \notin {"run", "announce", "exit"} /\ clearing
    BY <1>0, <1>7 DEF DetachWake
  <2>2. stop \/ pc \in {"leave", "none"}
    BY <2>1 DEF DetachOn
  <2>3. pc # "parked" \/ pc' = "loop"
    <3>1. ASSUME pc = "parked" PROVE Reached # {}
      <4>1. PICK p \in Pid : Alive(p) /\ PIDs = <<p>>
        BY <3>1 DEF OneDebuggee, InLoop, Alive
      <4> QED
        BY <4>1 DEF Reached, Present, Alive
    <3> QED
      BY <1>7, <3>1 DEF DetachWake, Pulsed
  <2> QED
    BY <2>1, <2>2, <2>3 DEF BarOn, Pulsed
<1> QED
  BY <1>1, <1>2, <1>3, <1>4, <1>5, <1>6, <1>7 DEF Slots

-----------------------------------------------------------------------------
(* The open question.                                                      *)

LEMMA AskThread ==
  ASSUME ShownInv, Truthful, Thread
  PROVE  AskOn'
<1> USE DEF ShownInv, Base, TypeOK, DataOK
<1>1. CASE Park
  BY <1>1 DEF Park, AskOn, Asking, Lost, user
<1>2. CASE ~Park
  <2>1. pc' \notin Asking
    BY <1>2 DEF Thread, Run, LaunchFails, Leave, Return, Launch, Asking
  <2> QED
    BY <2>1 DEF AskOn
<1> QED
  BY <1>1, <1>2

LEMMA AskEvent ==
  ASSUME ShownInv, Truthful, Debuggee
  PROVE  AskOn'
<1> SUFFICES ASSUME NEW p \in Pid,
                    Pending(p) \/ StopEvent(p) \/ ExitEvent(p) \/ DetachEvent(p)
                      \/ OtherEvent(p) \/ Child(p)
             PROVE  AskOn'
  BY DEF Debuggee
<1> USE DEF ShownInv, Base, TypeOK, DataOK
<1>1. ASSUME Report, pc = "loop", ~stop, stop' = stop, UNCHANGED user PROVE AskOn'
  <2>1. CASE pc' = "ask" /\ queue' = queue \o <<"info", "ask">>
    <3> DEFINE t == queue \o <<"info", "ask">>
    <3>1. /\ EndsIn(t, "ask") /\ t # <<>> /\ Len(t) > 1 /\ t[Len(t) - 1] = "info"
      BY EndsAppend DEF Signal, Question
    <3>2. t # <<>> /\ Len(t) # 1 /\ t[Len(t)] \in Question
      <4>1. t \in Seq(Signal)
        <5>1. "info" \in Signal /\ "ask" \in Signal
          BY DEF Signal, Question
        <5>2. <<"info", "ask">> \in Seq(Signal)
          BY <5>1
        <5> QED
          BY <5>2, ConcatProperties
      <4>2. Len(t) \in Nat /\ t[Len(t)] = "ask"
        BY <3>1, <4>1, LenProperties DEF EndsIn
      <4>3. "ask" \in Question
        BY DEF Question
      <4>4. t # <<>> /\ Len(t) # 1
        BY <3>1, <4>2
      <4> QED
        BY <4>2, <4>3, <4>4
    <3>3. ~dialog' /\ ~stop' /\ ~clearing'
      BY <1>1 DEF OneQuestion, DetachOn, user
    <3> HIDE DEF t
    <3>4. queue' = t
      BY <2>1 DEF t
    <3> QED
      BY <3>1, <3>2, <3>3, <3>4 DEF AskOn
  <2>2. CASE pc' \notin Asking
    BY <2>2 DEF AskOn
  <2> QED
    BY <1>1, <2>1, <2>2 DEF Report, Asking
<1>2. CASE BreakInEvent(p)
  BY <1>1, <1>2 DEF BreakInEvent, Waiting
<1>3. CASE StopEvent(p)
  <2>1. CASE Report
    BY <1>1, <1>3, <2>1 DEF StopEvent, Waiting
  <2>2. CASE Announce
    BY <2>2 DEF Announce, AskOn, Asking
  <2> QED
    BY <1>3, <2>1, <2>2 DEF StopEvent
<1>4. ASSUME CreateEvent(p) \/ ExitEvent(p) \/ DetachEvent(p) \/ OtherEvent(p)
      PROVE  AskOn'
  <2>1. pc' \notin Asking
    BY <1>4 DEF CreateEvent, ExitEvent, DetachEvent, OtherEvent, Waiting, thread, Asking
  <2> QED
    BY <2>1 DEF AskOn
<1>5. ~Child(p)
  BY DEF Child, Truthful
<1> QED
  BY <1>2, <1>3, <1>4, <1>5 DEF Pending

LEMMA AskCommand ==
  ASSUME ShownInv, Truthful, Commands
  PROVE  AskOn'
<1> USE DEF ShownInv, Base, TypeOK, DataOK
<1>0. /\ queue' = <<>> /\ ~dialog'
      /\ StartUp \/ LetGo \/ Halt \/ Detach
  BY CommandShape
<1> QED
  BY <1>0 DEF AskOn, Lost

(* While a question is open, behind what was said before it.               *)
LEMMA AskBehind ==
  ASSUME ShownInv, NEW x \in {"break", "info"}, Slot(x), pc \in Asking
  PROVE  /\ ~dialog /\ ~stop /\ ~clearing
         /\ Tail(queue) # <<>> /\ EndsIn(Tail(queue), "ask")
         /\ IF Len(Tail(queue)) = 1 THEN x = "info"
            ELSE Tail(queue)[Len(Tail(queue)) - 1] = "info"
<1>0. queue \in Seq(Signal) /\ AskOn
  BY DEF ShownInv, Base, TypeOK, DataOK
<1>1. /\ queue # <<>> /\ Len(queue) \in Nat \ {0} /\ queue[1] = x /\ Head(queue) = x
  BY <1>0, SlotFacts
<1>2. ~Lost /\ ~dialog /\ ~stop /\ ~clearing /\ queue[Len(queue)] \in Question
  BY <1>0, <1>1 DEF Lost, AskOn
<1>3. Len(queue) # 1
  <2>1. x \notin Question
    BY DEF Question
  <2> QED
    BY <1>1, <1>2, <2>1
<1>4. queue[Len(queue)] = "ask" /\ queue[Len(queue) - 1] = "info"
  BY <1>0, <1>1, <1>2, <1>3 DEF AskOn, EndsIn
<1>5. Len(Tail(queue)) = Len(queue) - 1 /\ Tail(queue) # <<>>
  BY <1>0, <1>1, <1>3, EndsTail
<1>6. EndsIn(Tail(queue), "ask")
  BY <1>0, <1>1, <1>4, <1>5, EndsTail DEF EndsIn
<1>7. Len(queue) = 2 => x = "info"
  BY <1>1, <1>4
<1>8. Len(queue) > 2 => Tail(queue)[Len(Tail(queue)) - 1] = "info"
  BY <1>0, <1>1, <1>4, EndsTail
<1> QED
  BY <1>1, <1>2, <1>3, <1>5, <1>6, <1>7, <1>8

LEMMA AskSlot ==
  ASSUME ShownInv, Truthful, Slots \/ CloseDialog \/ DetachWake
  PROVE  AskOn'
<1>0. OneQuestion /\ AskOn /\ DetachOn
  BY DEF ShownInv, Base
<1>a. ASSUME NEW x \in {"break", "info"}, Slot(x), queue' = Tail(queue), pc' = pc,
             dialog' = dialog, stop' = stop, clearing' = clearing,
             IF x = "info" THEN bar' = "RUN" ELSE TRUE
      PROVE  AskOn'
  <2>1. CASE pc \in Asking
    <3> DEFINE t == Tail(queue)
    <3>1. /\ ~dialog /\ ~stop /\ ~clearing /\ t # <<>> /\ EndsIn(t, "ask")
          /\ IF Len(t) = 1 THEN x = "info" ELSE t[Len(t) - 1] = "info"
      BY <1>a, <2>1, AskBehind
    <3>2. t[Len(t)] \in Question
      BY <3>1 DEF EndsIn, Question
    <3> HIDE DEF t
    <3>3. queue' = t
      BY <1>a DEF t
    <3> QED
      BY <1>a, <3>1, <3>2, <3>3 DEF AskOn
  <2>2. CASE pc \notin Asking
    BY <1>a, <2>2 DEF AskOn
  <2> QED
    BY <2>1, <2>2
<1>1. CASE OnDebuggerBreak
  BY <1>1, <1>a DEF OnDebuggerBreak, thread
<1>2. CASE OnDebuggerTerminated
  <2>1. pc' \notin Asking
    BY <1>2, TerminatedShape DEF ShownInv, Base, Asking
  <2> QED
    BY <2>1 DEF AskOn
<1>3. CASE AskForException
  <2>1. bar = "RUN" /\ Tail(queue) = <<>> /\ ~Lost /\ pc \in Asking
    BY <1>3, AnswerAlone DEF AskForException
  <2>2. ~stop /\ ~clearing
    BY <1>0, <2>1 DEF AskOn
  <2>3. /\ queue' = <<>> /\ dialog' = TRUE /\ bar' = "RUN" /\ ~stop' /\ ~clearing'
    BY <1>3, <2>1, <2>2 DEF AskForException, thread
  <2> QED
    BY <2>3 DEF AskOn
<1>4. CASE OnInfo
  BY <1>4, <1>a DEF OnInfo, thread
<1>5. ASSUME NEW a \in {"answer break", "answer go"}, HandleForException(a) PROVE AskOn'
  <2>1. Tail(queue) = <<>> /\ ~dialog
    BY <1>5, AnswerAlone DEF HandleForException
  <2> QED
    BY <1>5, <2>1 DEF HandleForException, AskOn, Lost, Asking, user
<1>6. CASE CloseDialog
  <2>1. pc \in Asking /\ ~Lost /\ dialog
    BY <1>0, <1>6 DEF CloseDialog, OneQuestion, Asking, Lost
  <2>2. queue = <<>>
    BY <1>0, <2>1 DEF AskOn
  <2>3. bar = "RUN" /\ ~stop /\ ~clearing
    BY <1>0, <2>1, <2>2 DEF AskOn
  <2>4. PICK a \in Question : queue' = Append(queue, a)
    BY <1>6 DEF CloseDialog, Question
  <2>5. Len(queue') = 1 /\ queue'[1] = a
    <3>1. a \in Signal /\ queue \in Seq(Signal) /\ Len(queue) = 0
      BY <2>2, EmptySeq DEF Signal, ShownInv, Base, TypeOK, DataOK
    <3>2. Len(queue') = Len(queue) + 1 /\ queue'[Len(queue) + 1] = a
      BY <2>4, <3>1, AppendProperties
    <3> QED
      BY <3>1, <3>2
  <2>6. queue'[Len(queue')] \in Question
    BY <2>5 DEF Question
  <2> QED
    BY <1>6, <2>3, <2>5, <2>6 DEF CloseDialog, AskOn, thread
<1>7. CASE DetachWake
  <2>1. pc \in Asking => Lost /\ pc' = pc
    BY <1>0, <1>7 DEF DetachWake, AskOn, Asking, Pulsed
  <2>2. pc \notin Asking => pc' \notin Asking
    BY <1>7 DEF DetachWake, Asking, Pulsed
  <2> QED
    BY <1>7, <2>1, <2>2 DEF DetachWake, AskOn, Lost
<1> QED
  BY <1>1, <1>2, <1>3, <1>4, <1>5, <1>6, <1>7 DEF Slots

-----------------------------------------------------------------------------
LEMMA ShownInit == Init => ShownInv
<1> SUFFICES ASSUME Init PROVE ShownInv
  OBVIOUS
<1>1. Base
  BY InitTyped, GhostInit, QuestionInit DEF Base
<1>2. \A p \in Pid : ~Alive(p) /\ proc[p].st = "gone" /\ proc[p].susp = 0
  BY DEF Init, Gone, Alive
<1> QED
  BY <1>1, <1>2 DEF Init, ShownInv, OneDebuggee, DetachOn, SuspendOn, BarOn, AskOn, EndOn,
                    InLoop, Asking, EndsIn

LEMMA ShownNext ==
  ASSUME Truthful, ShownInv, [Next]_vars
  PROVE  ShownInv'
<1>1. Base'
  BY NextTyped, GhostNext, QuestionNext DEF ShownInv, Base
<1>2. CASE UNCHANGED vars
  BY <1>1, <1>2 DEF ShownInv, OneDebuggee, DetachOn, SuspendOn, BarOn, AskOn, EndOn, Lost,
                    Alive, vars, thread, user
<1>3. CASE Next
  <2>1. OneDebuggee'
    BY <1>3, OneThread, OneEvent, OneCommand, OneSlot DEF Next, ShownInv
  <2>2. DetachOn'
    BY <1>3, DetachNext
  <2>3. SuspendOn'
    BY <1>3, SuspendThread, SuspendEvent, SuspendCommand, SuspendSlot DEF Next
  <2>4. BarOn'
    BY <1>3, BarThread, BarEvent, BarCommand, BarSlot DEF Next
  <2>5. AskOn'
    BY <1>3, AskThread, AskEvent, AskCommand, AskSlot DEF Next
  <2>6. EndOn'
    BY <1>3, EndNext
  <2> QED
    BY <1>1, <2>1, <2>2, <2>3, <2>4, <2>5, <2>6 DEF ShownInv
<1> QED
  BY <1>2, <1>3

LEMMA ShownEnough == ShownInv => StateShown
<1> SUFFICES ASSUME ShownInv, Quiet PROVE
      /\ pc = "parked" => bar = "SUSPEND"
      /\ pc = "none" <=> bar = "TERMINATE"
      /\ (pc = "loop" /\ bar = "RUN") => \A p \in Range(PIDs) : proc[p].susp = 0
  BY DEF StateShown
<1> USE DEF ShownInv, Base, TypeOK, DataOK, Quiet
<1>1. pc = "loop" => ~stop /\ bar # "TERMINATE"
  BY DEF DetachOn, OneDebuggee, BarOn, EndsIn, InLoop
<1>2. pc = "parked" => bar = "SUSPEND"
  BY DEF BarOn, EndsIn
<1>3. pc = "none" => bar = "TERMINATE"
  BY DEF BarOn, EndsIn
<1>4. ASSUME pc = "loop", bar = "RUN", NEW p \in Range(PIDs) PROVE proc[p].susp = 0
  <2>1. PICK q \in Pid : Alive(q) /\ PIDs = <<q>>
    BY <1>4 DEF OneDebuggee, InLoop, Alive
  <2>2. p = q
    BY <2>1 DEF Range
  <2>3. proc[q].susp \in Nat
    BY ConstantsOK DEF Process
  <2> QED
    BY <1>1, <1>4, <2>1, <2>2, <2>3 DEF SuspendOn, Lost, Asking
<1> QED
  BY <1>1, <1>2, <1>3, <1>4

(* With one debuggee, a GUI that is not scheduled between an emit and what *)
(* goes with it, and no thread suspended twice, the state bar tells the    *)
(* truth whenever nothing is on its way, in every behaviour.               *)
THEOREM BarTellsTheTruth ==
  ASSUME Truthful
  PROVE  Spec => []StateShown
<1>1. Init => ShownInv
  BY ShownInit
<1>2. ShownInv /\ [Next]_vars => ShownInv'
  BY ShownNext
<1>3. ShownInv => StateShown
  BY ShownEnough
<1> QED
  BY <1>1, <1>2, <1>3, PTL DEF Spec

=============================================================================
