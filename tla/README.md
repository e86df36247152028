# Nanomite: a TLA+ model of the debugger

Nanomite is a debugger for Windows with a Qt interface. This directory holds
TLA+ modules that model its core, the TLC configurations that check them, and
theorems about them that TLAPS proves. Paths below are relative to
`src/qtNanomite/`. `PROJECT.json` is the index: components, runs, which lines
each definition stands for, what a mutated definition breaks, hazards, findings
and theorems.

## The system

Three kinds of threads run in the program.

* The **GUI thread** runs the main window (`qtDLGNanomite*.cpp`), every dialog
  and view, and the public API of the debugger (`clsDebuggerPublicAPI.cpp`).
* The **debugger thread** is the `QThread` `clsDebugger`: `run` starts or
  attaches to a debuggee and stays in `DebuggingLoop`, which takes one debug
  event of Windows after the other until the last process is gone or the user
  detaches.
* **Workers** disassemble, walk the call stack, search strings and functions and
  read memory; what they find goes to the views by queued signals.

The debugger thread talks to the GUI by queued signals; it waits for the GUI on
two events, `m_debugEvent` (stopped at a breakpoint) and `m_waitForGUI` (asked
what to do with an exception), which the GUI signals with `PulseEvent`. Besides,
all threads read and write the same lists (`PIDs`, `TIDs`, the three lists of
breakpoints) and flags (`m_isDebugging`, `m_stopDebugging`, `m_singleStepFlag`,
...) with no lock.

| component | state | operations | what makes it correct | modelled in |
|---|---|---|---|---|
| session: `clsDebugger`, main window | place of the thread, flags, `PIDs`, signal queue, state bar | start, attach, stop, restart, suspend, step, detach, debug events, slots | commands take effect, no answer or wake-up lost, state bar tells the truth | `Session` |
| exceptions of the loop, stepping, tracing | trap flag per thread; `bTrapFlag`, `dwBPRestoreFlag`, `bTraceFlag` per process; `m_singleStepFlag`; `ProcessContext` | hit, restore, traced step, user's step; continue, step in, over, out, execute to, trace | stops at every breakpoint and nowhere else, a step is one instruction, a breakpoint taken out comes back | `Stepping` |
| breakpoint manager | three lists; bytes and debug registers of debuggees | add, remove, clear, clean-up, init, rebase, hit, restore, project files | no trap without list entry, backups original, armed unless waiting, four registers | `BreakpointManager` |
| memory manager | two pools, malloc | new, delete | no unit handed out twice, pointers go home | `MemPool`, `MemManager`, `Allocator` |
| patch manager | list of patches, bytes of the debuggee, patched copies | add, (un)do, remove, rebase, save | the list tells what is in memory, original bytes come back | `Workspace` |
| bookmarks, PE file cache | tables | add, remove, edit, rebase; open, close | they follow the module; a process is known by its file | `Workspace` |
| project files | entries of the tables | save, load | a round trip puts everything back in place | `BreakpointManager`, `Workspace` |
| memory breakpoints, protector, memory view | page protections, saved protections, regions shown | set, hit, pass, restore; protect, unprotect; set a protection | the program's own protection comes back, breakpoints stay armed, a hit is passed | `MemoryBreakpoint` |
| disassembler and its view | cache of lines, state of the worker, rows, history | request, read, insert, finish; scroll, go to, back | every request is served, the view shows the code | `Disassembly`; that it takes breakpoints out while it reads: `BreakpointManager` |
| views of a process | list of a worker or snapshot, rows, scroll bar, place in `PIDs` | open from a menu, scroll, resize, refresh | complete lists, rows of the position, the process asked for | `DataViews`, `FunctionScan` |
| views of a break | the two global contexts, register, stack and call stack tables | show, edit, step in, set a hardware breakpoint | the break's registers are shown, edits reach its thread | `BreakViews` |
| options and exception handlers | registry, `AeDebug`, `dbgSettings`, `ExceptionHandler`, the dialog | load, edit, save, remember | what is saved is what is loaded, the registered debugger is kept | `Options`; the default modes: `Session` |
| dialogs, dumps, PE parser | input, files | | none that another part depends on | not modelled |

What is hard here: three kinds of threads that share state without locks; a
wake-up (`PulseEvent`) that is forgotten when nobody waits; signals that are
served after the state they report is over; flags that say per process, or for
the whole program, what is true of one thread; backups of bytes and of page
protections that are taken once and used across sessions, relocations and each
other; lists in which an operation finds "the first" element; one worker and
one context record for everybody who asks; places in a list that are kept while
the list changes. `PROJECT.json` lists each hazard at its line with the
properties that would show it going wrong.

## The modules

The components share few variables, so each has a module of its own, and what a
neighbour does to it appears as an action of that module: sessions begin and end
in `BreakpointManager` and `Workspace` by actions that do what `Session`'s loop
does to their state; the disassembler worker appears in `BreakpointManager` as
`Hide` and `Show`, and in `MemoryBreakpoint` as a reader with a protector.
`DataViews` uses the algorithm of `FunctionScan`. `MemManager` composes two instances of `MemPool`, and
implements `Allocator`.

Definitions named for a bug (`...Idle`, `...Twice`, `With ... left out` in the
comment) are mutated forms of the definition that follows them. Nothing uses
them but `PROJECT.json`, which says which property each must break.

### Session

`pc` is where the debugger thread is: `run`, `launch`, `loop` (inside
`WaitForDebugEvent` and the handlers), `announce` (between the emit of
`OnDebuggerBreak` and `WaitForSingleObject`), `parked` (waiting on
`m_debugEvent`), `ask` and `askparked` (the same for `AskForException` and
`m_waitForGUI`), `leave` (behind the loop, before `OnDebuggerTerminated`), `exit`
(signal emitted, `run` not returned), `none`. `queue` holds the signals the GUI
has not served; `proc` the debuggees with their suspend counts, pending
break-ins and terminations. `bar` is the state bar, `isRestart` is
`m_IsRestart`.

Commands (`DebugStart`, `AttachStart`, `DebugStop`, `DebugRestart`,
`OpenNewFile`, `DebugSuspend`, `Step`, `Detach`) are the menu actions with all
the API calls they make; `DetachWake` is the second half of `DetachFromProcess`,
behind the clearing of breakpoints. Slots (`OnDebuggerBreak`,
`OnDebuggerTerminated`, `AskForException`, `OnInfo`) take the head of the queue.
A pulse releases the thread only from `parked` or `askparked`, a `start()` only
from `none`.

`Windows` names the places where the debugger thread has said something and not
yet done what the GUI relies on; `GUIRuns` is the set of those in which the GUI
thread may be scheduled. It is how a run says which races it allows: the empty
set is a GUI slower than the debugger thread, the full set any interleaving.

Fairness: weak for the debugger thread (`Thread`), for events that are already
on their way (`Pending`), for the rest of a detach that has begun and for the
user's answer to a modal dialog; strong for the slots, since the event loop of
the GUI serves its queue however often the user acts in between. Nothing obliges
the user to press a key or a debuggee to run into anything, so the liveness
properties are about commands that have been given.

### Stepping

One debuggee runs a program given by `Flow` (the next instruction) and `Over`
(the line after, which `action_DebugStepOver` picks). `th` holds each thread's
ip, trap flag and pending exception; `mem` the opcode at each address; `sw` and
`hw` the breakpoints; `pid` the three flags of `PIDStruct`; `single` is
`m_singleStepFlag`; `ctx` is `ProcessContext`, read at the break and written
back when the wait is over. `cmd` and `seen` are history for the properties.

The branches of `EXCEPTION_BREAKPOINT`, the hlt/ud2 codes and
`EXCEPTION_SINGLE_STEP` are an action each, in the order of the code by their
guards: a traced step, the user's step, a restore, a first hit of a hardware
breakpoint; `ForeignException` is what is left when no branch takes it. What
`SetThreadContextHelper` does before or behind the break makes the difference
between software breakpoints (trap flag set before `ProcessContext` is read) and
hardware ones (set when the wait is over, `dbg.trap`). Commands are those of the
toolbar and the disassembler's menu, allowed at a break the GUI has served.

`Setups` says what a session has: its kept breakpoints, int3s of the program's
own, returns (which are stepped into, not over), and the commands the user
gives. The run has every set of int3, ud2 and hardware breakpoints on three of
six lines with continue, step over, step out and execute to; and, without kept
breakpoints, all steps, traces, and traces to a line. It leaves out a step in or
a trace *from a kept breakpoint*, and a second thread, because there the code
does not do what the properties say (see the deviations). `SteppingRunning` adds
the steps the GUI lets the user ask for while nothing is broken.

Fairness: weak for the GUI's slot, for the processor and for the handling of a
pending exception; the user owes nothing. Memory breakpoints, access violations,
the breakpoint at the entry point (in `BreakpointManager`) and "run to user
code" are not here; which branch a conditional jump takes is part of `Over`.

### BreakpointManager

`bps` holds the three lists with the fields of `BPStruct`; `proc` each process's
image base, bytes and debug registers; `flag` the restore flag together with the
trap flag of the thread that will make the step. List operations
(`BreakpointAdd`, `BreakpointRemove`, `BreakpointInit`, `UpdateOffsets`) are
operators on lists and processes, and the actions of three actors use them: the
debugger thread (`StartSession`, `CleanupStep`, `CreateProcess`, `SoftwareHit`,
`HardwareHit`, `SingleStep`, `ExitProcess`, ...), the GUI (`GUIAdd`,
`GUIRemove`, `StartClear`, `ClearStep`, `Detach`, `InsertFromProjectFile`) and
the disassembler worker (`Hide`, `Show`). One list operation is one step; the
loops another thread can watch half done, `BreakpointClear` and
`BreakpointCleanup`, take one step per element. The user's single steps are not
here, so that a step after a hit is always the restoring one: what a step in
does to a pending restore is in `Stepping`. Page protections are left out: memory
breakpoints are list entries only.

`Setups` says what the sessions of a behaviour are like: the processes, bases
and cells, which kinds and handles the user adds, how many, and in `may` whether
there are children, project files, a detach, a worker that reads, edits during
the clean-up. `Init` chooses one. `MCBreakpointManager` has five: `Session` (one
session with all interleavings), `Restart` (two sessions, two bases, one-shot
breakpoints), `Hardware` (one breakpoint more than registers), `Project`
(entries of a project file, a child, detach), `Unrebased` (an entry of a project
file whose offset in the module is mapped as it stands, and a worker that reads
before the entry point moves it). A hit is one step from the trap to the
handler's end: that a breakpoint is removed or hidden between the trap and its
handler is not an interleaving of the model.

### MemoryBreakpoint

`prot` is the protection of each page as Windows has it, `own` what the program,
or the user's menu, wants it to be. `Execute` fetches an instruction from its
page and makes its access; a fault goes to `MemoryHit`, if
`CheckIfExceptionIsBP` finds a breakpoint in the *region* of the instruction, or
to `ForeignException`. A hit marks the breakpoint, takes its protection off for
the page of the instruction and sets the trap flag; `SingleStep` arms the first
marked one again. `wMemoryBP` and `dMemoryBP` save and restore a protection,
`BreakpointInit` does the former for the whole list, at the creation of the
process and again at its entry point. `Protect` and `Unprotect` are the
constructor and destructor of `clsMemoryProtector`, held by the disassembler
worker for a read and by the memory dump while the user picks a file, so that
they nest with hits and with each other in any order. `DisplayMemory` and
`SetPageProtection` are the memory view and its menu, which works on a region as
it was displayed.

`mixed` is history: the pages on which two changes of protection have met, and
those a fault is attributed to wrongly. The code keeps one old protection per
breakpoint and per protector and gives each back without looking, and looks a
fault up by the address of the instruction, so nothing can be promised there (see
the deviations); `Meet` names the cases one by one, and the properties hold on
the other pages.

### Disassembly

`dis` is `clsDisassembler`: the map `section`, the stretch it covers, the offset
searched for and `m_isWorking`. `InsertNewDisassembly` with `Request`,
`IsNewInsertNeeded` and `Stretch` decide on the GUI thread whether a request is
refused, needless or handed to the worker; `Read`, `Insert` and `Finish` are the
worker, one row a step; `Deliver` serves its two queued signals. `view` holds the
rows and the history; `OnDisplayDisassembly` looks a line up in whatever the map
is at that time, and asks again where it ends. Requests come from the user
(scroll, keys, return, back, other windows), from breaks, patches and bookmarks.

`lost` is history: the last request met a busy worker, or an answer on its way;
`failed` that a read failed, `crashed` that a row without an item was read.
Fairness is weak for the worker and for the delivery of its signals: the thread
pool runs what it was given and the GUI thread returns to its event loop.

### DataViews, FunctionScan

The windows of one process. `worker` is the thread that makes the list of a
functions, strings or hex view, `queued` its `finished` signals that the window
has not served, `view` the rows, the scroll bar with its minimum, maximum and
value, `m_isFinished`, and the place in `PIDs` the window was opened for. A
snapshot window (heaps, handles, windows, privileges) is read when it is opened
and by F5. `GenerateMenu` and its callback choose a process while processes come
and go (`NewProcess`, `ProcessExits`, `ProcessesGone`, `NewSession`).
`SetMaximum` and `SetValue` are what Qt's scroll bar does, with the signal back
into the view. `FunctionScan` is the pure part: the sizes of functions from call
points, the pass over the calls and the pass over everything.

### Options

`reg` is the user's registry key, `aeDebug` the machine's; `set` and `handler`
are `dbgSettings` and `ExceptionHandler`; `dlg` is what the open dialog shows.
`gui` is the GUI thread: the handler it is in (the start, `OnReload`, `OnSave`,
the destructor of the main window) and the key or row it has come to. Settings
are written one key a step (`WriteSetting`), the old exceptions removed one key
a step (`RemoveKey`) and the new ones written (`WriteKey`), `LoadSettings` and
`LoadKey` empty and refill `handler`, `OnSave` writes `AeDebug`, empties
`handler`, puts the rows back (`SaveRow`) and ends with `SaveDefaultJITDebugger`.
The program may be killed between any two of these, and meanwhile the debugger
thread scans `handler` a row a step, may ask, and may remember the answer. A
behaviour starts with no key at all or with two exceptions of an earlier run.
`orig` is history: what a restore should give back. `raced` says that `AeDebug`
changed behind the open dialog or that `OnSave` was cut short, `cut` that the
program was killed with some of the old exceptions removed and others left,
`unsaved` that an answer was remembered since settings were loaded or saved.

### BreakViews

`context` is the pair of global records, `real` the registers of each thread.
`Enter`, `GetContext`, `Wait`, `SetContext` and `BreakOver` are
`CallBreakDebugger`: the record is written back before `m_debuggerBreak` and
`m_currentTID` are cleared, so that a call in between still finds the thread
broken. Between them the GUI toggles a flag, sets the instruction pointer, opens the register
editor (which copies the record it finds and writes it back when saved), steps
in or sets a hardware breakpoint (`HardwareBP` writes the threads' debug
registers, `SetNewThreadContext` then the record). Walks of the call stack are
queued on the pool, read `m_processingData` when they start and answer by a
signal. A register's value is the number of its break, so that a stale value is
seen. `wanted` is history: the registers of the break with what the user changed
in it; `spoilt` and `overlap` mark the cases where the code loses it (see the
deviations).

### MemPool, MemManager, Allocator

A unit is its index in the block, `prev` and `next` are the links in its header.
`PoolAlloc` and `PoolFree` are the two calls with their pointer writes, in the
critical section of the pool; a write through a NULL link goes nowhere.
`PoolFree` does what the code does to the allocated list, which is not to unlink
the unit from it. `MemManager` picks a pool by size in `Alloc` and by address in
`Free`, with the ends of the ranges as in the code; addresses are numbers so
that the tests at the ends of a block mean something. `Allocator` is the promise
of malloc and free; `KeepsPromise` says that the pools and malloc together keep
it, `held` being the same variable in both.

### Workspace

Patches, bookmarks, project file and the list of PE files. The debugger thread
(`CreateProcess`, `EntryPoint`, `ExitProcess`) opens and closes PE files and
queues the signals on which the GUI moves patches and bookmarks and writes the
patches again; the user adds, undoes, redoes, removes and saves patches, adds,
edits and removes bookmarks, saves and loads project files, restarts and opens
new targets. A patch covers one cell; a patch's handle is its process with the
session it was opened in, so a handle of an earlier session reaches nothing.
`QueuedInput` lets the user act while signals are queued, `EarlyPatches` patch a
process before the signal of its entry point is served, `Heap` gives cells of no
module. Detaching, the entries the PE editor opens and two bytes per patch are
not here; the slots of patches and bookmarks on one signal are one step.

## The runs

States are distinct states. Deadlock is checked in the runs of `Session`,
`BreakpointManager`, `MemManager` and `Stepping`. In the other runs the user may
have used up the bound on his actions, and what is left then (a window that is
closed, a session that is over) really stops.

| run | instance | what it shows |
|---|---|---|
| `SessionOrder` | one process, suspend by threads, all three ways to treat an exception, GUI scheduled behind `leave` only, three sessions; 1 771 states | with a GUI slower than the debugger thread, the state bar tells the truth whenever nothing is on its way (`StateShown`); a stop ends the session (`StopEnds`), a detach too (`DetachEnds`), a restart starts (`RestartStarts`), an answer of the Exception Assistant releases the debugger thread (`AnswerReaches`) |
| `SessionRaces` | two processes with children, suspend by break-in, every window, two sessions; 152 745 states | under any interleaving of the two threads there is one question at a time (`OneQuestion`) and `m_isDebugging` is true exactly while the thread is in its loop (`NoGhostSession`); `TypeOK` |
| `Breakpoints` | the five setups above; 950 901 states | no trap without a list entry (`NoStrayTrap`), backups are the program's bytes (`BackupsAreOriginal`), a kept breakpoint is armed or its restoring step is to come (`ArmedUnlessWaiting`), one-shot breakpoints do not reach the next session (`OneShotsGone`), each hardware breakpoint is enabled in a register of its own (`HardwareArmed`), and at the entry point all are at their place and armed (`RearmedAtEntry`) |
| `MemManager` | two pools of two units, two malloc blocks, one directly behind a pool; 35 721 states | pointers go home (`ReturnedHome`), the whole implements `Allocator` (`KeepsPromise`) |
| `Workspace` | a program at two bases with its DLL and two patches; a program with a child and one patch, or one bookmark; two sessions; 1 694 774 states | memory is the program with the patches shown as written and nothing else (`MemoryIsPatched`); at an entry point patches are written and bookmarks moved (`ReappliedAtEntry`) |
| `Stepping` | one thread, a loop with a call, 131 kinds of session; 360 655 states | no thread goes on inside an instruction (`NoMidInstruction`), none passes a breakpoint unseen (`PassStops`), continue continues (`ContinueContinues`), a step is one instruction (`StepIsOne`) and ends (`StepEnds`), a trace has no gaps (`TraceComplete`) |
| `MemoryBreakpoint` | two adjacent pages, a line at the start of each, the second reading the first page, and one that reads where nothing is mapped, access and execute breakpoints, both readers, two sessions, three changes; 286 729 states | the program gets its protection back (`ProtectionReturns`), a breakpoint is armed or its step is to come (`ArmedOrStepping`), a hit is passed before it is hit again (`HitsPass`) |
| `Disassembly` | a region of twelve lines, one of two bytes, a datum, three rows, two sessions, three requests; 186 740 states | the line asked for is shown once the worker has answered (`WantedIsShown`), the rows are the code as it is now, without gaps (`RowsAreTheCode`), a request that was taken is answered (`WorkerComesBack`) |
| `DataViews` | every program of three addresses over 18 instructions and of four over 9; each kind of window on three lines; up to two processes and six events; 349 562 states | found functions cover the code (`FunctionsFound`), rows follow the scroll bar (`RowsAreThePage`), an unfinished list is not read (`ReadsFinished`), a window shows the process it was opened for (`ShowsItsProcess`) |
| `Options` | two exceptions, two actions, two other debuggers, eight requests, every key a step; 2 344 624 states (up to symmetry of exceptions and debuggers) | whatever the program is killed in, what is in force is what the next start loads, entry for entry, or comes first in it where a kill has left old keys behind a gap (`SavedIsLoaded`); the registered debugger that was replaced is kept (`OriginalKept`) |
| `BreakViews` | a 64-bit process and a 32-bit child, two breaks, two edits; 3 465 169 states | views show the break (`ViewsShowTheBreak`, `CallStackIsCurrent`), edits reach the thread and nothing else does (`EditsReachTheThread`), the debug registers survive the writing back (`HardwareStays`) |
| `SteppingRunning` | steps while nothing is broken; violation expected | the breakpoint of a step over is not recognised, and a thread goes on in the middle of an instruction (finding) |

Why the bounds are enough. A race of two threads needs two sessions at most (one
signal of the first served in the second), a third lets a restart follow a
restart. Two processes are the least in which a pid can mean the wrong one, two
bases the least in which something has to move, two sessions the least for
something to be left over. Three software breakpoints allow two that collide in
a list operation and one beside them; five hardware ones are one more than the
registers. Two patches can meet on one cell or lie in one file. In `MemManager`
a pool of two units can be empty, half used and full, and the theorems hold for
any number. In `Stepping` the loop has a call, a breakpoint before it, inside
the function and behind it, so that a one-shot breakpoint of a step can be
overtaken by another. Two adjacent pages are the least that merge into one
region; three changes are two breakpoints and a reader, or a breakpoint set,
removed and set. The region of `Disassembly` is longer than what one request
reaches to both sides, so that there is code beyond each end of the map, and
three requests are one that fills, one that meets the worker and one behind it.
Three addresses hold a call into the middle of a function, a jump back over a
return, two paddings that end a function; four hold a call behind each. Eight
requests in `Options` are two starts, two visits to the dialog with a change and
a save, or a start, a kill among the keys, a start and two visits; the two
exceptions a behaviour may start with are the least that leave a gap. In `BreakViews` two breaks are the least in which a value can be of the
wrong one, and the two edits can be one in each or both in one. `MaxQueue` stops
the debuggee and the user, never the debugger thread. `MaxOffset` cuts a session
off at the entry point when a rebase computes an address far outside both bases.

## What is proved

`MemPoolProofs`, for every number and size of units, header and base address
that satisfy `PoolConstants`:

* `FreeListStaysExact`: `PoolSpec => []FreeListExact`. `FreeListExact` says that
  a chain exists; alone it is not inductive, because it says nothing when the
  block could not be allocated (`Base = 0`). The inductive invariant `IInv` adds
  the types of the links (`PoolTypeOK`) and that then nothing is free or held
  (`NoBlock`). `Alloc` removes the head of the chain, `Free` puts a unit in
  front; the proofs give the new chain, and show that the writes into the
  allocated list do not touch `next` of a unit of the chain.
* `NeverHandedOutTwice`: the head of the free list is held by nobody.

`MemManagerProofs`, for two pools of any sizes at any addresses, any requests
and any blocks malloc may return:

* `PointersGoHome`: `Spec => []ReturnedHome`.
* `PromiseKept`: `Spec => KeepsPromise`, the refinement of `Allocator`.

  Both rest on one inductive invariant: the invariant of each pool
  (`MemPoolProofs` instantiated twice), `ReturnedHome`, that malloc's blocks lie
  outside the pools (`HeapOK`) and that no unit is lent to a request larger than
  it (`SizesOK`). `HeldOf50`, `HeldOf200` and `HeldOfHeap` say where a pointer of
  each kind lies; since the ranges are disjoint, the range tests of `Free`,
  although one includes the ends and the other does not, tell the three kinds
  apart (`TellsOf50`, ...), so that `Free` reaches the unit that `Alloc` took.
  For the promise, a unit just taken overlaps no other unit by arithmetic on the
  stride (`UnitsApart`), no unit of the other pool and none of malloc's blocks by
  their ranges. Assumed are `MemManagerConstants`, that the blocks of the two
  pools do not overlap, and in `Outside` that malloc keeps its own promise,
  also towards the blocks of the pools, which are malloc's too.

`SessionProofs`, for any set of processes, options, windows and bounds:

* `TypeCorrect`: `Spec => []TypeOK`, one lemma per group of actions. That a
  suspend count stays between zero and the bound is the part that can fail.
* `GhostFree`: `NoGhostSession` is inductive as it stands.
* `QuestionsOneByOne`: `OneQuestion` is inductive relative to `TypeOK`, which
  gives the queue its type. Its argument is where the question is: in the queue,
  in the dialog, or answered and still queued, and in each case the debugger
  thread is in `ask` or `askparked`; every action either keeps the questions of
  the queue (`QuestionKept`), takes the one at its head (`QuestionTaken`) or adds
  one when there is none (`QuestionAdded`).
* `BarTellsTheTruth`: `Truthful` implies `Spec => []StateShown`. `StateShown` speaks
  of quiet states only; the inductive invariant `ShownInv` says what is on its way
  in the others. Its parts: the session has one process, in `PIDs` once its first
  event is read (`OneDebuggee`); a detach under way still has to wake the debugger
  thread, or to be seen by it in an event that will come (`DetachOn`); a thread is
  suspended only where the bar says so and the queue is empty, or the session is
  being detached (`SuspendOn`); the bar is right or the last signal of the queue
  makes it right (`BarOn`); while a question is open nothing else can be done
  (`AskOn`); and the end of a session is the last thing said of it (`EndOn`), so
  that a restart, which resumes instead of starting when it finds a session, never
  lets go of a debuggee whose break is still queued. `Lost` is the state in which
  an answer came too early: it is stable, and not quiet.

  `Truthful` asks for one debuggee, for a GUI that is not scheduled in `"run"`,
  `"announce"`, `"exit"` and `"queued"`, and for no thread that is suspended twice.
  Each is needed: TLC finds the bar wrong when one of them is dropped. The user
  presses F9 between the emit and the wait, or before the thread is back from
  `run()`; suspends while an `OnPID` is queued that will show "Running", or while a
  child is about to report itself; or suspends twice and resumes once. It allows
  `"launch"`, `"ask"` and `"event"`, which `SessionOrder` leaves out for the sake of
  its liveness properties.

`BreakViewsProofs`, for any processes of either width, any threads of theirs and
any number of breaks and edits:

* `EditsArrive`: `Spec => EditsReachTheThread`.
* `HardwareKept`: `Spec => HardwareStays`.

  Both rest on `RecordInv`, with one lemma per action. Its core is
  `RecordIsMeant`: while a thread is broken the record of its process's width is
  what the user meant for it. It is not inductive as it stands: saving the
  register editor writes all registers, so a dialog opened in this break must
  hold the record (`DialogOK`), and one opened earlier must be known to be of an
  earlier break. `DebugRegisters`, that what is written back has the debug
  registers of the thread, is suspended while a hardware breakpoint of the
  process is being set; what that call then puts into the record is either still
  the thread's (`Fresh`) or of an earlier break, which shows in its instruction
  pointer (`Stale`, and `NotAhead`: no register is of a break to come), so that
  writing it counts as an overwritten record (`spoilt`).
* `ViewsShow`: `Spec => []ViewsShowTheBreak`, from `TablesShow`: from the delivery
  of `OnDebuggerBreak` until the thread is resumed the tables are what
  `LoadRegView` makes of the record. Its lemmas say what each signal that is
  appended or delivered leaves in the queue (`AppendSignal`, `TailSignal`).
* `CallStackShows`: `Spec => []CallStackIsCurrent`, from `WalksShow`: since that
  delivery the worker has the broken thread as its task, and its one walk is
  queued, under way, or finished, in which case the last `OnCallstackFinished`
  of the queue, or the window if there is none left, has its result
  (`WillShow`). `AppendWalk` and `TailWalk` are its two lemmas on the queue.

`SteppingProofs`, for any program (addresses, flow, calls and returns, the
program's own traps) and any sessions (breakpoints of the three kinds, commands)
that satisfy `ProgramOK`. As in the other modules about lists, the facts on
`Min`, `RemoveAt` and `SetToSeq` that the proofs use come first.

* `Typed`: `Spec => []TypeOK`.
* `NoMidInstructionHolds`: `Spec => []NoMidInstruction`. The strengthening
  `StandOK` relates memory, lists and threads: every int3 in memory is the
  program's own or of an entry (`Written`), and a thread whose int3 is not handled
  yet stands behind such a place (`Trapped`), so that the hit finds the entry and
  takes the thread back. With several threads an entry may be erased between the
  trap of one and its event; the theorem therefore assumes `NothingErased`: one
  thread, or no command that sets a breakpoint its hit erases.
* `TraceIsComplete`: `Spec => TraceComplete`, from `TraceOK`: a traced thread has
  its trap flag set and is marked, or its single step is reported already.
* `PassStopsHolds`, from `KeptOK`: with one thread, a kept breakpoint is in
  memory unless it is marked for restore; one at most is marked, the restore flag
  of the process is its kind and the trap flag is set, so the step that writes
  it again comes before the thread can pass it.
* `ContinueContinuesHolds` and `StepIsOneHolds`, from `KeptOK` where the user does
  not step and from `StepOK` where nothing is kept: `m_singleStepFlag` is set only
  for the user's step or a trace, and every other single step is one that
  `dwBPRestoreFlag` claims.

  The last three assume one thread and, of every session, `Unstepped` (no step in,
  no trace, no step over that becomes a step in) or `NoBreakpoints`; the last two
  `Plain` for the latter, which also excludes the program's own traps and a trace
  that is stopped before the breakpoint of another command. What they leave out
  are the deviations of the stepping commands listed below; the sessions of the
  run satisfy them.

`BreakpointProofs`, for any processes, images, heaps, opcodes and numbers of
breakpoints and sessions that satisfy `ConstantsOK`:

* `Typed`: `Spec => []TypeOK`. `TypeOK` gives the lists and the processes the
  types that the other proofs need: an entry is of one of three sizes and its
  backup, if it has one, is as long as the entry (`EntryOf`).
* `World` says where the session is and what lives then: no process before the
  loop, only the first one without children, none left when the loop is being
  left. It and `TypeOK` are used by each of the following.
* `NoOneShotSurvives`: `Spec => []OneShotsGone`, from `OneShotInv`: the pass of
  `BreakpointCleanup` has looked at everything before its iterator except the
  head, which an erase puts there unseen; the pass at the end of a session leaves
  at most the head, and the one at the next start begins with it. `OneShotSetups`
  excludes edits during the clean-up where a second session follows: with both, a
  removal shifts two entries past the iterator and one-shots do survive.
* `HardwareStaysArmed`: `Spec => []HardwareArmed`, from `HardwareInv`: at most four
  entries, no two with one slot, no two at one address, and each enabled in its
  slot in the running process. It needs where the entries are (`HwPlaced`),
  because a rebase must neither move one off its register nor two together.
  `HardwareSetups` therefore excludes a second base and children (after the first
  process died, `BreakpointRebase` takes an offset for a base).
* `TrapsAreListed` and `BackupsStayOriginal`: `Spec => []NoStrayTrap` and
  `Spec => []BackupsAreOriginal`, from `TrapInv`. `NoStrayTrap` alone is not
  inductive: taking a breakpoint out puts its backup back, so a backup must not
  itself be a trap; and that a new backup is not one follows from every trap being
  at the address of an entry (`Covered`), since `BreakpointAdd` refuses such an
  address. Entries must also be where the last rebase or add left them (`Homed`),
  or a rebase would move an entry away from the byte it wrote. `TrapSetups` asks
  for breakpoints of one byte and, where there is no project file, for no child
  processes and no detach, images of different bases that do not overlap, and one
  process or breakpoints for all of them. Without these TLC finds states that
  violate the two properties: a child keeps the byte of what is removed from the
  first process, a second process meets the breakpoints that belong to the first,
  and overlapping breakpoints back up each other's bytes.
* `HitsAreRestored`: `Spec => []ArmedUnlessWaiting`, from `ArmedInv`, on top of
  `TrapInv`. `Guarded` says of the one process that no two breakpoints are at one
  place, all are in its memory, at most one waits for a single step, for the one
  its flag announces, and every kept one that does not wait is armed, unless the
  disassembler's read has taken them out. "At most one" is what makes it
  inductive: `DebuggingLoop` arms only the first breakpoint that waits. `FreshOK`
  adds that the list is empty until the process is there, so that no mark is left
  from before. Beyond `TrapSetups` the theorem asks (`ArmedSetups`) that a single
  session without children, which is what the property is about, has no project
  file.
* `EntryPointRearms`: `Spec => RearmedAtEntry`, an action property, from `FitInv`: a
  kept breakpoint of the module is at the offset of a cell from its base, wherever
  adds, project files and rebases without a process have moved both, and one of no
  module is its own base. `EntrySetups` allows project files, several sessions,
  detaching and children; it asks for breakpoints of one byte, for an image and a
  heap that lie apart, and, with children, for one base: in a child with another
  base, a breakpoint of every process is at the place it has in the first one.

  The setups of `Breakpoints` satisfy the hypotheses of all of these theorems.

`MemoryBreakpointProofs`, for any finite set of pages, any program, breakpoints,
menu and readers, and any number of sessions and changes that satisfy
`ConstantsOK`, without further hypotheses:

* `Typed`: `Spec => []TypeOK`. `InitFacts` says what `BreakpointInit` leaves on a
  page with one breakpoint and on one without; `PageInRegion` that no element of
  the instruction's page is outside the region that is searched.
* `Returns`, `Armed` and `Passes`: `Spec => []ProtectionReturns`,
  `Spec => []ArmedOrStepping` and `Spec => HitsPass`, from one inductive invariant,
  `MemInv`. Its core is `PageInv` for each page that is not mixed up: it has one
  breakpoint at most, which has saved the program's protection, and the page has
  that protection while the breakpoint waits or its guard has been raised, and the
  breakpoint's otherwise; while one reader holds the page open, the same is true
  of the protection the reader will put back (`PageGood`). Neither of the two
  invariants is inductive without the other, since a hit puts back what is saved
  and a restore saves what is there.
* A restore that arms the wrong breakpoint would break `PageInv`, so `WaitInv` says
  who waits: a breakpoint of the page of the instruction to be stepped, and
  it alone unless its page is mixed up. `StepInv` ties waiting to the flags of the
  process and the trap flag: while `bTrapFlag` is set a single step is owed or has
  been reported. `SeenInv` is for `HitsPass`: after a break the thread stands on
  the line with the protection of the program on its page, so that any fault
  before it gets on is the program's own (`FaultOfOwn`).

`WorkspaceProofs`, for any files, bases, cells, processes, rows of the two tables
and sessions that satisfy `ConstantsOK` and `WorkspaceSetups`:

* `WorkspaceTyped`: `Spec => []IInv`, the types and the inductive invariant. It is
  one lemma per action; those that loop over `m_patches` rest on lemmas about the
  loop alone (`RemoveKeeps`, `DeleteKeeps`, `RewriteKeeps`, `UpdateKeeps`,
  `ClearKeeps`, `AddKeeps`), which take a list and a memory that agree to a list and
  a memory that agree (`StateOK`).
* `MemoryStaysPatched`: `Spec => []MemoryIsPatched`. The property alone is not
  inductive: `RemovePatch`, `DeletePatch` and `AddNewPatch` find a row by its
  offset alone, so a row of another process, of one that is gone, or that no
  signal has moved yet may stand at an offset that is in use now, and be undone,
  erased or written instead. The core is `AloneAtOffset`: nothing else is at the
  offset of a row whose process can be reached. A row of another file cannot be
  there (`CellsApart`); one of the same file belongs to the same process
  (`Together`), has the base of its module there (`PatchHere`) and is then the same
  cell of the same file, which only one row is for (`Distinct`). The bytes under a
  patch must be the program's (`PatchFits`), or undoing it would bring back
  another patch.
* A new patch must not meet an old one of the same cell that has not been moved
  yet. `ServedOK` says that once the signal of its entry point has been served, a
  process has every row of its file; with the test for a row at this offset the
  new row is then the only one for its cell. `SignalOK` of every queued signal is
  what the slots need: it is of this session, "closed" is of a process that is
  gone, and "terminated" is the last. `Family` says which process a file entry
  belongs to: each live process has the entry of its file, and only that one
  (`getFilenameFromPID` takes any).
* `EntryReapplies`: `Spec => ReappliedAtEntry`, an action property, from the same
  invariant: no two rows are moved onto one cell, so that what the loop writes
  for one is not overwritten for another.

  `WorkspaceSetups` is what the code needs: the user acts when no signal is queued
  and patches after the entry point has been served, no cell lies outside the
  modules (see the deviations below), and `OneFileEach` and `ImagesApart`. The
  former asks for DLLs or a child, not both, and for one child at most, not of the
  target's file: patches in a DLL of two processes, or in two processes of one
  file, go to the process whose entry point came last, and the other keeps the
  bytes. The latter keeps the addresses of different modules apart, those of
  different processes included, and with a child also addresses from distances,
  where a row of a project file stands until it is moved: "Redo" on one of two
  rows at one offset takes the bytes of the other for the original ones. TLC
  finds `MemoryIsPatched` violated as soon as one of these is dropped. One module
  may be loaded at bases that overlap from session to session. The setups of the
  run satisfy all of it, with a DLL in one and a child in the others.

The assumptions on the constants (`MemManagerConstants`, which contains
`PoolConstants` of both pools, `ConstantsOK` of `Session`, `BreakViews`,
`MemoryBreakpoint`, `BreakpointManager` and `Workspace`, and `ProgramOK` of
`Stepping`) are evaluated by the runs. All other properties are model-checked on
the instances above only:

* liveness under fairness, which the prover does not reach (`StopEnds`,
  `DetachEnds`, `RestartStarts`, `AnswerReaches`, `StepEnds`, `WorkerComesBack`);
* `FunctionsFound`, `RowsAreThePage`, `ShowsItsProcess` and `ReadsFinished` of
  `DataViews`, whose function search and sorting are recursive operators, which
  the prover cannot handle;
* `SavedIsLoaded` and `OriginalKept` of `Options`, whose removal of rows is
  recursive;
* `WantedIsShown` and `RowsAreTheCode` of `Disassembly`: whether a view finds the
  lines it needs in the map depends on how `Reach`, `Back`, `MaxRows` and the
  lengths of the lines go together, and the condition under which the two hold
  for every region has not been worked out.

## Findings and known deviations

One disagreement with the changelog is a run of its own, `SteppingRunning`. The
following are deviations of the code met while modelling; each is the reason why
a run has the bound or option it has, or why a property excepts a case. Those
with a constant or a history variable in parentheses are behaviours of the
modules that TLC shows when the constant allows them.

Session.

* A pulse between the emit of `OnDebuggerBreak` and `WaitForSingleObject` is
  forgotten (`clsDebuggerPublicAPI.cpp:41`, `clsDebugger.cpp:864`): with
  `"announce"` in `GUIRuns` `DetachEnds` fails, with `"ask"` `AnswerReaches`
  (changelog: "fixed a dead lock when using detach").
* `OnDebuggerTerminated` is emitted before `run()` returns; served first, its
  `start()` does nothing and a restart is lost: `"exit"` or `"launch"` break
  `RestartStarts` (changelog: "incorrect restarts on slow systems").
* Two suspends need two resumes, and the bar shows "Running" after the first;
  with `"queued"` a suspend is followed by the "Running" of a signal that was
  queued before it, and with `DebugChilds` by that of a child: `StateShown` fails.
  A detach resumes no thread (`clsDebuggerPublicAPI.cpp:36`;
  changelog: "detaching from a suspended process didn't resume the process").
* A failed attach leaves `m_attachPID` and `m_normalDebugging` as they were: the
  next F9 attaches again.
* `DetachFromProcess` ends its loop at the first process that is gone; its
  children are not broken into.

Breakpoints.

* `BreakpointInit` re-arms every software breakpoint with an int3, whatever
  opcode was chosen (`clsBreakpointManager.cpp:65`; changelog: "you can now
  choose between int3, hlt and ud2").
* A rebase may put two breakpoints on one offset (`clsBreakpointManager.cpp:384`),
  and removing that offset then reaches the first only; a session that ends
  between a hit and its single step leaves `bRestoreBP` set. That is why
  `ArmedUnlessWaiting` is about one session.
* Hardware breakpoints set before there is a process are all moved onto the base
  of the module at the entry point; removing one then clears the register of
  another, since `dHardwareBP` takes the first that holds the offset
  (`HardwareArmed` excepts them). Those of a project file all have slot 0.
* A breakpoint of two bytes over an armed one backs up its trap: with sizes 1 and
  2 `NoStrayTrap` fails.
* A breakpoint of all processes that is hit in a child is written back into the
  first process (`clsDebugger.cpp:597`): with `DebugChilds` `ArmedUnlessWaiting`
  would fail.
* `BreakpointClear` skips every second entry, whose trap stays in a process that
  is detached from (`clsBreakpointManager.cpp:96`): with `Detaching` `NoStrayTrap`
  would fail.
* A project breakpoint on the entry point backs up the debugger's own int3
  (`BackupsAreOriginal` excepts project files).
* A project breakpoint holds the offset in its module until the entry point. If
  that is mapped, a read of the disassembler arms it there and keeps the byte of
  the wrong place as its backup, which is written back at the right one later
  (`clsBreakpointManager.cpp:423`; the same exceptions).
* A hardware breakpoint on memory of no module is moved when a module is loaded
  over it.

Memory breakpoints and protectors (`mixed`, unless said otherwise).

* At the entry point `BreakpointInit` sets every memory breakpoint a second time,
  so one kept from an earlier session saves its own armed protection as the old
  one, and its first hit restores that.
* Two breakpoints on one page: the second saves the first one's protection.
* Adjacent pages that are protected alike are one region; the first breakpoint
  of the region is blamed for a hit in it, and the cell behind the region counts
  as in it. Its old protection goes to the page of the instruction, not to its
  own.
* Two protectors on one page, or a protector and a breakpoint, restore in the
  order they end. While one is open, a running program has no execute right on
  the page: its access violation is taken for a hit, or for a fault of its own
  (changelog, beta 11).
* A restore flag left by an interrupted step survives the session, and the wrong
  breakpoint is armed by the next single step. So it is within a session when an
  instruction faults twice before its step, as when a breakpoint is added on its
  page meanwhile: two breakpoints wait for one single step, which arms the first,
  and the other takes the place of a third one later. With three pages that
  breaks `ArmedOrStepping` on the page of the third; the proof of its invariant
  found it.
* A fault the program would raise itself is swallowed when it lies in the region
  of a breakpoint (`FaultsAnyway`).
* Breakpoints for writing or access on a page of data are not recognised when
  the page is accessed from another one: the region looked up is that of the
  instruction, not of the address accessed. The fault goes to the program, or is
  taken for the hit of a breakpoint on the instruction's page, and a guard is
  gone for good (`Misplaced`).
* A software and a memory breakpoint on one page share the restore flag of the
  process, and the memory breakpoint loses its restore. Not in the instance.
* `clsMemDump.cpp:33` combines its two results with `&&`, and dumps an
  uninitialised buffer when only one call failed; it holds the protector while
  its file dialog is open. The breakpoint dialog gives memory breakpoints the
  size 0.

Stepping.

* A step in, or a trace, right after the hit of a kept breakpoint: the next
  single step takes the branch of `m_singleStepFlag`, which restores nothing; the
  breakpoint stays out until another restore (`PassStops`).
* A trace, or a step in, that ends at an ordinary breakpoint leaves
  `m_singleStepFlag` set; the single step of the restore is then a break
  (`ContinueContinues`). The changelog entry "fixed a bug which caused a break
  when continue was used after a trace" holds for a trace to a line only.
* With two threads, the other one runs through a line while its breakpoint is out
  (`PassStops`), a second single step is taken for a foreign exception, and of
  two threads at a one-shot breakpoint one goes on in the middle of the
  instruction (`NoMidInstruction`).
* A step over a `ret` is a step in; a step over to a line that has a breakpoint
  does nothing at all, since `BreakpointAdd` refuses.

Disassembler.

* A read that fails leaves `m_isWorking` set for ever, in later sessions too
  (`failed`).
* A request that meets the worker is refused and nobody repeats it; an answer of
  an earlier request that is served late shows the earlier line (`lost`).
* Asking for the last line of the map shows the line that row had before, or
  reads a row without an item; a map of a single line makes the iterator pass
  the end (`crashed`). When fewer lines than rows lie ahead, the view asks for
  more without end.
* A session that ends while the worker fills the map leaves its rows for the
  next one. An offset refused once as not code is refused again, as
  `m_searchedOffset` is already set.

Views of a process.

* Deleting a window, or F5 in the strings view, while its worker runs destroys a
  running thread; "Send to Disassembler" on an empty row reads an item that is
  not there (`state = "crashed"`).
* A resize before the list is done gives the scroll bar a negative minimum, which
  stays; the last position of the strings view leaves a row of another position.
  F5 leaves `m_isFinished` set, and the detail view of a module never sets it.
* The place in `PIDs` is used later: in a session that has ended and begun again
  a window shows another process or reads behind the list. The menu takes the
  first process when only one is active, even if that one has exited; before the
  first event of a session there is none. A process that is gone when its entry
  is chosen opens a window for all; `DataProcessing` takes the first process for
  each. With two windows of `qtDLGWindowView`, F5 fills the newest.
* Functions: a region that cannot be read is tried for ever; two paddings after
  a call point give a size below zero, as a DWORD; zeros are decoded in pairs in
  the second pass only; a call to the end decodes behind the buffer; erasing a
  jump passes over the next.
* The hex worker gives `malloc`'s buffer to `clsMemManager::CFree`.

Options.

* "Reload defaults" writes them at once, whatever is done with the dialog then.
* While `OnSave` refills `ExceptionHandler`, the debugger thread scans it: an
  exception listed before and after may find no handler (and the `QVector` is
  read while it is reallocated). An answer remembered while the dialog is open is
  lost by its save, or is in the list twice (`unsaved`).
* `OnExceptionRemove` compares with the text of an item it has freed, and passes
  over the row behind each removed one.
* The exceptions are removed key by key up to the first that is missing
  (`clsAppSettings.cpp:103-110`, 270-277). Killed between two removals, the
  program leaves keys behind a gap: the next start loads none of them, and a
  later, shorter list fills the gap and gets the old entries back behind its own
  (`cut`).
* `IsFirstRun` is written before the defaults (`clsAppSettings.cpp:217`): killed
  in between, the program never writes them, and what has no key reads as off.
* Without a key under `AeDebug` the text "0" is written back; a change of it by
  another program while the dialog is open is overwritten, and a kill between the
  writes of `AeDebug` and of `defaultJIT` loses the original (`raced`).

Views of a break.

* A register dialog opened before a break and saved in it writes the registers of
  the old break into the new thread (`spoilt`).
* A hardware breakpoint set in a break replaces the record by the thread's real
  registers, and with it the user's edits (`spoilt`); a call that spans the start
  of a break writes the registers of before, one that spans its end loses the
  debug register (`hwCall`). A toggle while nothing is broken is lost.
* Two walks of the one call stack worker mix their rows (`overlap`); a late one
  fills the table again after the session is over. `OnCallstack` sets column 2
  where the fifth is meant.
* A step in whose pulse comes too early leaves the trap flag set; "Toggle
  Interrupt flag" does nothing; the call stack and the disassembler do not follow
  an instruction pointer changed in the dialog; scrolling the stack of a running
  child uses the width of the main process.

Patches, bookmarks, PE files.

* Input while signals are queued (`QueuedInput`) breaks both properties of
  `Workspace`: `OnDebuggerTerminated` of one session then empties what the next
  has opened.
* A patch made before the signal of the entry point is served (`EarlyPatches`),
  or outside all modules (`Heap`), breaks `MemoryIsPatched`: patches are found by
  their offset alone, and the base of an address of no module is the address.
* A child of the same file takes no entry of its own.
* Saving twice: a patch that does not fit the copy deletes the copy, and every
  second one is lost while its row shows it as saved.
* Redo marks a patch as written whether or not the write worked. The table of
  patches is not refilled after a clear or a load.
* A bookmark without a comment is not read back from a project file
  (`clsProjectFile.cpp:315`).

Memory manager.

* When the block of the 200 pool could not be allocated, its range is
  `[0, BlockSize]`, and a unit of the other pool that lay so low would be given to
  `free`. Windows hands out no memory there; `MemManagerConstants` says so.

## What is not modelled

Hits of several threads in one process (outside `Stepping`, which is written for
them), breakpoints of different kinds on one page, "run to user code", access
violations while a trap flag is set, the breakpoint manager's window beside its
lists. Left aside for good: the PEB, TIB, PE, source, log and debug string
views, which fill a table from one read; input dialogs that hand a value to an
operation modelled here; the PE parser, symbol lookup, API imports, the crash
handler, the disassembly engine and the debug help headers: input, output and
decoding that no other component's state depends on. The text of a line, of a
log entry or of a register is left out everywhere. Data races on a single list
(one thread reads while another appends) are taken as atomic accesses.

## Plan

1. `Workspace` with a DLL in two processes: which rows keep their process, and what
   `MemoryIsPatched` says of the others; the condition on the distances of
   `Disassembly`, and the proof of `WantedIsShown` from it.
2. `Stepping` with two threads: which properties hold with kept breakpoints only,
   and a run for them; the conditions of `action_DebugStepOver`; run to user code.
3. Software and memory breakpoints on one page: `MemoryBreakpoint` and the
   software part of `BreakpointManager` composed over the shared restore flag.
4. An abstract session (commands and their effects) that `Session` refines when
   the GUI is slower than the debugger thread.
5. The breakpoint window beside the lists.
