------------------------------- MODULE DataViews -------------------------------
(***************************************************************************)
(* The windows opened for a process of the session, one at a time.         *)
(*                                                                         *)
(* Heaps, handles, windows and privileges (qtDLGHeapView, qtDLGHandleView, *)
(* qtDLGWindowView, qtDLGProcessPrivilege) are read at once, when they are *)
(* opened and by F5.  Functions (qtDLGFunctions with                       *)
(* clsFunctionsViewWorker), strings (qtDLGStringView with                  *)
(* clsStringViewWorker) and memory (qtDLGHexView with clsHexViewWorker)    *)
(* are found by a thread of their own, which appends to a list the window  *)
(* reads; its finished signal is queued for the GUI thread.  The window    *)
(* puts part of the list into its rows when the scroll bar moves, the      *)
(* window is resized or the list is done.                                  *)
(*                                                                         *)
(* A process is chosen from a menu while the debugger thread goes on; the  *)
(* window keeps the place it had in PIDs.                                  *)
(***************************************************************************)
EXTENDS FunctionScan, SequencesExt

CONSTANTS
  Setups,     \* the window opened, what it works on, and how much happens
  Height,     \* rows a window may have room for
  DefaultMax  \* maximum of a new scroll bar (99)

ASSUME ConstantsOK ==
  /\ Trash \in Nat \ {0} /\ Dword \in Nat /\ Dword > Trash
  /\ Height \subseteq Nat \ {0} /\ DefaultMax \in Nat
  /\ \A s \in Setups : /\ s.kind \in {"functions", "module", "strings", "hex", "snapshot"}
                       /\ s.events \in Nat /\ s.procs \in 0 .. 8 /\ s.all \in BOOLEAN
                       /\ s.lines \in Nat /\ s.height \in Height /\ s.readable \in BOOLEAN

VARIABLES
  setup,    \* one of Setups
  worker,   \* its place "init", "call", "sweep", "list", "done", and its list
  view,     \* the window: rows, scroll bar, m_isFinished, the row of the menu,
            \* the process asked for, in which session, and its place in PIDs
  dbg,      \* GetDebuggingState, PIDs, sessions begun
  queued,   \* finished signals on their way to the window
  state,    \* "none", "menu", "open", "closed", "crashed"
  events    \* bound: what the user and the debuggee have done

vars == <<setup, worker, view, dbg, queued, state, events>>

Functions == setup.kind \in {"functions", "module"}
Snapshot  == setup.kind = "snapshot"
All       == 0   \* what the entry "All" reads as a number
List      == worker.list
Count     == Len(List)
Blank     == [off |-> 0, size |-> 0]
Least(a, b) == IF a < b THEN a ELSE b
Most(a, b)  == IF a < b THEN b ELSE a

-----------------------------------------------------------------------------
(* The window.                                                             *)

(* The rows of the table, m_maxRows + 1: the room for functions and        *)
(* strings, one more for memory.                                           *)
RowsFor(h)   == IF setup.kind = "hex" THEN h + 1 ELSE h

(* The greatest position; DisplayStrings allows one more than a resize.    *)
LastAtResize(n, h)  == n - RowsFor(h)
LastAtDisplay(n, h) == IF setup.kind = "strings" THEN n - h + 1 ELSE n - RowsFor(h)

(* Whatever m_isFinished says.                                             *)
InsertAlways(v, list, position) ==
  IF position < 0 THEN v
  ELSE LET n    == RowsFor(v.height)
           kept == IF Len(v.rows) = n THEN v.rows ELSE [k \in 1 .. n |-> Blank]
       IN  [v EXCEPT !.rows = [k \in 1 .. n |-> IF position + k <= Len(list) THEN list[position + k]
                                                ELSE kept[k]]]

InsertDataFrom(v, list, position) ==
  IF ~v.finished THEN v ELSE InsertAlways(v, list, position)

(* QScrollBar: the minimum follows a maximum that falls below it and never *)
(* rises again; a value that changes is told to InsertDataFrom.            *)
Bounded(v, list, value) ==
  LET x == Most(v.min, Least(v.max, value))
  IN  IF x = v.value THEN v ELSE InsertDataFrom([v EXCEPT !.value = x], list, x)

SetValue(v, list, value) == Bounded(v, list, value)

SetMaximum(v, list, max) ==
  Bounded([v EXCEPT !.min = Least(@, max), !.max = max], list, v.value)

(* DisplayFunctionLists, DisplayStrings, DisplayData.                      *)
Display(v, list) ==
  IF list = <<>> /\ setup.kind # "hex" THEN v
  ELSE LET w == SetValue([v EXCEPT !.finished = TRUE], list, 0)
       IN  InsertDataFrom(SetMaximum(w, list, LastAtDisplay(Len(list), w.height)), list, 0)

(* Without the last call: what the scroll bar does is enough when its      *)
(* value changes.                                                          *)
ResizedByScroll(v, list, h) ==
  SetMaximum([v EXCEPT !.height = h], list, LastAtResize(Len(list), h))

Resized(v, list, h) ==
  LET w == SetMaximum([v EXCEPT !.height = h], list, LastAtResize(Len(list), h))
  IN  InsertDataFrom(w, list, w.value)

-----------------------------------------------------------------------------
(* The worker.                                                             *)

(* What the constructor, or F5, gives the worker to do: the processes of   *)
(* the window; strings the first one as often as there are.                *)
Jobs(entry, end) ==
  [i \in 1 .. end - entry + 1 |->
     dbg.pids[IF setup.kind = "strings" THEN entry ELSE entry + i - 1].pid]

NewWorker(entry, end) ==
  [at |-> "init", jobs |-> Jobs(entry, end), list |-> <<>>, left |-> setup.lines]

(* Processes by number, those of a session after those of the last.        *)
Process(session, n, running) == [pid |-> 10 * session + n, running |-> running]

Init ==
  /\ setup \in Setups
  /\ dbg = [on |-> TRUE, session |-> 1, pids |-> [i \in 1 .. setup.procs |-> Process(1, i, TRUE)]]
  /\ worker = [at |-> "done", jobs |-> <<>>, list |-> <<>>, left |-> 0]
  /\ view \in [rows : {<<>>}, height : {setup.height}, min : {0}, max : {DefaultMax}, value : {0}, menu : {0},
               finished : IF setup.kind = "module" THEN BOOLEAN ELSE {FALSE},
               choices : {{}}, session : {0}, asked : {All}, entry : {1}, end : {0}]
  /\ queued = 0 /\ state = "none" /\ events = 0

Running == worker.at # "done"
Step(w) == worker' = w /\ UNCHANGED <<setup, view, dbg, queued, state, events>>

OffsetLessThan(f, g) == f.off < g.off

(* qSort by offset.                                                        *)
RECURSIVE Sorted(_)
Sorted(list) ==
  IF list = <<>> THEN list
  ELSE LET i == CHOOSE i \in DOMAIN list :
                  \A j \in DOMAIN list : ~OffsetLessThan(list[j], list[i])
       IN  <<list[i]>> \o Sorted(SubSeq(list, 1, i - 1) \o SubSeq(list, i + 1, Len(list)))

(* GetValidMemoryParts for a module of one executable region.  A region    *)
(* that cannot be read is queried again, without end.                      *)
ParseCalls ==
  /\ state = "open" /\ Functions /\ worker.at = "init" /\ worker.jobs # <<>> /\ setup.readable
  /\ Step([worker EXCEPT !.at = "sweep",
             !.list = Sorted(CallPass(setup.code, setup.base, setup.end, setup.base, @))])

ParseFunctions ==
  /\ state = "open" /\ Functions /\ worker.at = "sweep"
  /\ Step([worker EXCEPT !.at = "init", !.jobs = Tail(@),
             !.list = FunctionPass(setup.code, setup.base, setup.end, setup.base, @)])

(* clsStringViewWorker::run: a string of the file; the offset stands for   *)
(* it.  A file that does not open ends the work, after a message.          *)
AppendString ==
  /\ state = "open" /\ setup.kind = "strings" /\ worker.at = "init"
  /\ worker.jobs # <<>> /\ setup.readable
  /\ Step(IF worker.left = 0 THEN [worker EXCEPT !.jobs = Tail(@), !.left = setup.lines]
          ELSE [worker EXCEPT !.left = @ - 1,
                  !.list = Append(@, [off |-> setup.lines - worker.left + 1,
                                      size |-> Head(worker.jobs)])])

(* clsHexViewWorker::run: a line of 16 bytes, the bytes behind the last    *)
(* whole line left out.                                                    *)
AppendLine ==
  /\ state = "open" /\ setup.kind = "hex" /\ worker.at = "init"
  /\ setup.readable /\ worker.left # 0
  /\ Step([worker EXCEPT !.left = @ - 1,
             !.list = Append(@, [off |-> setup.lines - worker.left + 1, size |-> 16])])

AllDone ==
  CASE Functions              -> worker.jobs = <<>>
    [] setup.kind = "strings" -> worker.jobs = <<>> \/ ~setup.readable
    [] OTHER                  -> worker.left = 0 \/ ~setup.readable

(* run returns: functions are sorted; finished is emitted.                 *)
WorkerFinished ==
  /\ state = "open" /\ worker.at = "init" /\ AllDone
  /\ worker' = [worker EXCEPT !.at = "done", !.list = IF Functions THEN Sorted(@) ELSE @]
  /\ queued' = queued + 1
  /\ UNCHANGED <<setup, view, dbg, state, events>>

-----------------------------------------------------------------------------
(* What reaches the window.                                                *)

Show(v) == view' = v /\ UNCHANGED <<setup, worker, dbg, state>>

DisplayData ==
  /\ state = "open" /\ queued > 0
  /\ Show(Display(view, List)) /\ queued' = queued - 1 /\ UNCHANGED events

Event  == events < setup.events /\ events' = events + 1
ByUser == state = "open" /\ ~Snapshot /\ Event

ResizeEvent(h) ==
  ByUser /\ Show(Resized(view, List, h)) /\ UNCHANGED queued

(* The scroll bar drawn to a position, or moved by the wheel, which puts   *)
(* the rows once more.                                                     *)
ScrollTo(x) ==
  /\ ByUser /\ x \in view.min .. view.max /\ x # view.value
  /\ Show(SetValue(view, List, x)) /\ UNCHANGED queued

WheelEvent(d) ==
  /\ ByUser
  /\ LET w == SetValue(view, List, view.value + d)
     IN  Show(InsertDataFrom(w, List, w.value)) /\ UNCHANGED queued

(* The menu keeps a row; the entry is chosen while signals are delivered.  *)
OnCustomContextMenu(row) ==
  /\ ByUser /\ Functions /\ row \in DOMAIN view.rows
  /\ Show([view EXCEPT !.menu = row]) /\ UNCHANGED queued

(* Send to Disassembler: a row without an item has no text.                *)
SendToDisassembler ==
  /\ state = "open" /\ view.menu # 0
  /\ view' = [view EXCEPT !.menu = 0]
  /\ state' = IF view.menu \in DOMAIN view.rows /\ view.rows[view.menu] # Blank THEN state
              ELSE "crashed"
  /\ UNCHANGED <<setup, worker, dbg, queued, events>>

(* F5 in the window of strings: the old worker is deleted, which ends the  *)
(* program when it runs; m_isFinished stays; the process is looked up by   *)
(* the index it had.                                                       *)
DataProcessing ==
  /\ ByUser /\ setup.kind = "strings"
  /\ IF Running \/ (view.entry > Len(dbg.pids) /\ view.entry <= view.end)
     THEN state' = "crashed" /\ UNCHANGED worker
     ELSE worker' = NewWorker(view.entry, view.end) /\ UNCHANGED state
  /\ UNCHANGED <<setup, view, dbg, queued>>

(* WA_DeleteOnClose: the worker is deleted with the window.                *)
Close ==
  /\ state = "open" /\ Event /\ state' = (IF Running THEN "crashed" ELSE "closed")
  /\ UNCHANGED <<setup, worker, view, dbg, queued>>

-----------------------------------------------------------------------------
(* How a window is opened.                                                 *)

Active == {p \in Range(dbg.pids) : p.running}
Pids(P) == {p.pid : p \in P}

(* The place of the process in PIDs; all of them when it is not there, as  *)
(* 0 never is.                                                             *)
Entry(p) == IF p \in Pids(Range(dbg.pids)) THEN CHOOSE i \in DOMAIN dbg.pids : dbg.pids[i].pid = p ELSE 1
End(p)   == IF p \in Pids(Range(dbg.pids)) THEN Entry(p) ELSE Len(dbg.pids)

(* The loop over the places: a process that has ended has nothing left to  *)
(* be listed.                                                              *)
OutOfRange(v) == v.entry <= v.end /\ v.end > Len(dbg.pids)
DisplayAll(v) ==
  [v EXCEPT !.rows = FoldLeft(LAMBDA rows, i : IF dbg.pids[i].running THEN Append(rows, dbg.pids[i].pid) ELSE rows,
                              <<>>, [k \in 1 .. v.end - v.entry + 1 |-> v.entry + k - 1])]

Opened(v, p) ==
  LET w == [v EXCEPT !.asked = p, !.entry = Entry(p), !.end = End(p)]
  IN  /\ state' = "open"
      /\ IF Snapshot THEN view' = DisplayAll(w) /\ UNCHANGED worker
         ELSE view' = w /\ worker' = NewWorker(w.entry, w.end)

(* action_WindowShow...: a menu of the processes that run, if there are    *)
(* several, else the first one, whether it runs or not.                    *)
GenerateMenu ==
  /\ state = "none" /\ setup.kind \notin {"module", "hex"} /\ dbg.on
  /\ LET v == [view EXCEPT !.session = dbg.session]
     IN  IF Cardinality(Active) > 1
         THEN /\ state' = "menu" /\ UNCHANGED worker
              /\ view' = [v EXCEPT !.choices = Pids(Active) \cup (IF setup.all THEN {All} ELSE {})]
         ELSE IF dbg.pids = <<>> THEN state' = "crashed" /\ UNCHANGED <<view, worker>>
         ELSE Opened(v, dbg.pids[1].pid)
  /\ UNCHANGED <<setup, dbg, queued, events>>

GenerateMenuCallback(p) ==
  /\ state = "menu" /\ p \in view.choices /\ Opened(view, p)
  /\ UNCHANGED <<setup, dbg, queued, events>>

(* The menu is left: m_iMenuProcessID is still -1.                         *)
MenuLeft ==
  /\ state = "menu" /\ state' = "closed"
  /\ UNCHANGED <<setup, worker, view, dbg, queued, events>>

(* From a row of the memory or heap view, of the PE editor or the details. *)
OpenFromRow(p) ==
  /\ state = "none" /\ setup.kind \in {"module", "hex"} /\ Opened([view EXCEPT !.session = dbg.session], p)
  /\ UNCHANGED <<setup, dbg, queued, events>>

(* F5 in a window that is read at once.                                    *)
Refresh ==
  /\ state = "open" /\ Snapshot /\ Event
  /\ IF OutOfRange(view) THEN state' = "crashed" /\ UNCHANGED view
     ELSE view' = DisplayAll(view) /\ UNCHANGED state
  /\ UNCHANGED <<setup, worker, dbg, queued>>

-----------------------------------------------------------------------------
(* The debugger thread.                                                    *)

Debuggee(d) == Event /\ dbg' = d /\ UNCHANGED <<setup, worker, view, queued, state>>

(* PBProcInfo for a new process, the first or a child.                     *)
NewProcess ==
  /\ dbg.on /\ (dbg.pids = <<>> \/ Active # {})
  /\ Debuggee([dbg EXCEPT !.pids = Append(@, Process(dbg.session, Len(@) + 1, TRUE))])

(* With the entry taken off the list.                                      *)
ProcessErased(i) ==
  /\ dbg.on /\ dbg.pids[i].running /\ Cardinality(Active) > 1
  /\ Debuggee([dbg EXCEPT !.pids = RemoveAt(@, i)])

(* PBProcInfo for one that has ended, while another runs.                  *)
ProcessExits(i) ==
  /\ dbg.on /\ dbg.pids[i].running /\ Cardinality(Active) > 1
  /\ Debuggee([dbg EXCEPT !.pids[i].running = FALSE])

(* The last one ends, and with it the session: CleanWorkSpace.             *)
ProcessesGone == dbg.on /\ dbg.pids # <<>> /\ Debuggee([dbg EXCEPT !.on = FALSE, !.pids = <<>>])

(* run of another session; its process comes with the first event.         *)
NewSession ==
  ~dbg.on /\ Debuggee([dbg EXCEPT !.on = TRUE, !.session = @ + 1])

Debugger == \/ NewProcess \/ ProcessesGone \/ NewSession
            \/ \E i \in DOMAIN dbg.pids : ProcessExits(i)

Next ==
  \/ ParseCalls \/ ParseFunctions \/ AppendString \/ AppendLine \/ WorkerFinished
  \/ DisplayData \/ SendToDisassembler \/ DataProcessing \/ Close
  \/ GenerateMenu \/ MenuLeft \/ Refresh \/ Debugger
  \/ \E p \in view.choices : GenerateMenuCallback(p)
  \/ \E p \in Pids(Active) : OpenFromRow(p)
  \/ \E h \in Height : ResizeEvent(h)
  \/ \E x \in view.min .. view.max : ScrollTo(x)
  \/ \E d \in {1, -1} : WheelEvent(d)
  \/ \E row \in DOMAIN view.rows : OnCustomContextMenu(row)

Spec == Init /\ [][Next]_vars

-----------------------------------------------------------------------------
(* Properties.                                                             *)

(* The finished list is in order, no address begins two functions, and     *)
(* every instruction that is not padding, and that no other decoding       *)
(* overlaps, lies in one - though calls lead into the middle of what the   *)
(* size of another covers, sizes may be 0, and the second pass leaps over  *)
(* what it has found.  Code with a zero byte in it is left out: zeros are  *)
(* decoded in pairs by the second pass only, which can miss the first byte *)
(* behind them.                                                            *)
Instructions ==
  {a \in setup.base .. setup.end - 1 :
     /\ \A b \in setup.base .. a - 1 : b + setup.code[b].len <= a
     /\ a + setup.code[a].len <= setup.end /\ setup.code[a].k \notin Padding \cup {"bad"}}
FunctionsFound ==
  (state = "open" /\ Functions /\ worker.at = "done" /\ view.entry = view.end) =>
    /\ \A i, j \in DOMAIN List : i < j => List[i].off < List[j].off
    /\ (\A a \in setup.base .. setup.end - 1 : setup.code[a].k # "zero") =>
         \A a \in Instructions : Contained(List, a)

(* Once the list is shown, its window shows the part of it the scroll bar  *)
(* points at, however it was resized and scrolled in between, as long as   *)
(* the bar has not been pushed below the first line.                       *)
Settled == state = "open" /\ ~Running /\ queued = 0
RowsAreThePage ==
  (Settled /\ view.finished /\ view.value >= 0 /\ view.rows # <<>>) =>
    /\ Len(view.rows) = RowsFor(view.height)
    /\ \A k \in DOMAIN view.rows :
         view.value + k <= Count => view.rows[k] = List[view.value + k]

(* The window does not read a list its worker is still appending to, but   *)
(* for strings read again, and the functions of a single module, whose     *)
(* window leaves m_isFinished unset.                                       *)
ReadsFinished ==
  [][(view'.rows # view.rows /\ setup.kind \in {"functions", "hex"}) => ~Running]_vars

(* A window shows the process it was opened for and no other, as long as   *)
(* its session lasts: which place it has in PIDs was decided when it was   *)
(* opened, and processes come and go until it is read again.  One opened   *)
(* for all shows only processes of the session, none of them twice.        *)
ShowsItsProcess ==
  (state = "open" /\ Snapshot /\ view.session = dbg.session) =>
    /\ view.asked # All => Range(view.rows) \subseteq {view.asked}
    /\ \A i, j \in DOMAIN view.rows : i < j => view.rows[i] < view.rows[j]
    /\ Range(view.rows) \subseteq {Process(view.session, n, TRUE).pid : n \in 1 .. setup.procs + setup.events}

=============================================================================
