----------------------------- MODULE Workspace -----------------------------
(***************************************************************************)
(* What the user leaves behind in a program and wants back in the next     *)
(* run of it: the patches (qtDLGPatchManager), the bookmarks               *)
(* (qtDLGBookmark), the project file that stores both, and the list of     *)
(* open PE files (clsPEManager), which says what file a process runs.      *)
(*                                                                         *)
(* The debugger thread opens a process's file when it sees it, and at the  *)
(* entry point queues the signal on which the GUI moves patches and        *)
(* bookmarks to the addresses of this run and writes the patches again.    *)
(* When a session starts and ends is the business of Session: here a       *)
(* session is over when its last process is.                               *)
(*                                                                         *)
(* A patch covers one cell of memory.  A cell of a module is given by its  *)
(* distance from the base of the module; Org is what the file has there.   *)
(***************************************************************************)
EXTENDS Integers, FiniteSets, SequencesExt

CONSTANTS
  Setups,        \* what the debuggee is like, one of them chosen at Init
  NoPid,         \* 0
  File, NoFile,  \* modules and the files they are loaded from; ""
  Target,        \* m_targetFile
  Bases,         \* [File -> set of addresses it may be loaded at]
  Heap,          \* addresses of cells outside the modules
  Byte, Org,     \* what a cell may hold
  QueuedInput,   \* the user acts while signals are queued
  EarlyPatches,  \* the user patches before the entry point is served
  MaxSessions    \* bound: sessions

ASSUME ConstantsOK ==
  /\ NoFile \notin File /\ Target \in File
  /\ \A s \in Setups :
       /\ NoPid \notin s.pids /\ s.childs \subseteq File
       /\ s.libs \subseteq File \ {Target} /\ s.rvas \subseteq Nat \ {0}
       /\ s.patches \in Nat /\ s.bookmarks \in Nat
  /\ Bases \in [File -> SUBSET (Nat \ {0})]
  /\ Heap \subseteq Nat \ {0}
  /\ Org \in Byte /\ QueuedInput \in BOOLEAN /\ EarlyPatches \in BOOLEAN
  /\ MaxSessions \in Nat

VARIABLES
  setup,     \* one of Setups
  pe,        \* PEFiles: file -> process it was opened for
  proc,      \* the live processes: file, modules, memory, at the entry point
  PIDs,      \* every process of the session so far
  session,   \* sessions begun
  active,    \* GetDebuggingState()
  target,    \* IsTargetSet()
  isRestart, \* m_IsRestart
  queue,     \* signals for the GUI thread
  patches,   \* m_patches
  bookmarks, \* m_bookmarkData
  copy,      \* the patched copies on disk: file -> its cells
  project    \* what the project file holds

debugger == <<pe, proc, PIDs, session, active, target, isRestart, queue>>
vars     == <<setup, debugger, patches, bookmarks, copy, project>>

(* What the setup says.                                                    *)
Pid          == setup.pids       \* processes
ChildFiles   == setup.childs     \* what the debuggee may start
Libs         == setup.libs       \* DLLs every process loads
Rva          == setup.rvas       \* cells of a module, as distances from its base
MaxPatches   == setup.patches    \* bound: rows of the patch table
MaxBookmarks == setup.bookmarks  \* bound: rows of the bookmark table

Live   == DOMAIN proc
NoFun  == [x \in {} |-> x]
Without(f, S) == [x \in DOMAIN f \ S |-> f[x]]

-----------------------------------------------------------------------------
(* clsPEManager.  OpenFile refuses a name it has; CloseFile takes the first *)
(* entry with the name or the process.                                      *)

getFilenameFromPID(p) ==
  IF \E f \in DOMAIN pe : pe[f] = p THEN CHOOSE f \in DOMAIN pe : pe[f] = p ELSE NoFile

OpenFile(f, p) == IF f \in DOMAIN pe THEN pe
                  ELSE [g \in DOMAIN pe \cup {f} |-> IF g = f THEN p ELSE pe[g]]
CloseFile(p)   == Without(pe, {f \in DOMAIN pe : pe[f] = p})

(* QString::contains, which is true of the empty string.                   *)
NameContains(f, g) == g \in {f, NoFile}

(* clsHelperClass::CalcOffsetForModule: the base of the named module in p, *)
(* or of the one around off; off itself when there is none.                *)
ModuleAt(p, off) == {m \in DOMAIN proc[p].at : off - proc[p].at[m] \in Rva}
CalcOffsetForModule(name, off, p) ==
  IF p \notin Live THEN [name |-> name, base |-> off]
  ELSE IF name # NoFile
       THEN [name |-> name, base |-> IF name \in DOMAIN proc[p].at
                                     THEN proc[p].at[name] ELSE off]
  ELSE IF ModuleAt(p, off) = {} THEN [name |-> NoFile, base |-> off]
  ELSE LET m == CHOOSE m \in ModuleAt(p, off) : TRUE
       IN [name |-> m, base |-> proc[p].at[m]]

-----------------------------------------------------------------------------
(* qtDLGPatchManager.  A process handle is the process and the session it  *)
(* was opened in.  st is a pair of the list and the processes' memory, on   *)
(* which the loops over m_patches work.                                     *)

State      == [ps |-> patches, mem |-> [p \in Live |-> proc[p].mem]]
Reached(x) == x.pid \in Live /\ x.h = session
Writes(x)  == Reached(x) /\ x.off \in DOMAIN proc[x.pid].mem

(* WritePatchToProc, which fails on a cell or a process that is not there. *)
Poke(st, x, b) == IF Writes(x) THEN [st.mem EXCEPT ![x.pid][x.off] = b] ELSE st.mem

SameOffset(ps, off) == {i \in DOMAIN ps : ps[i].off = off}
First(I) == CHOOSE i \in I : \A j \in I : i <= j

(* With bWritten left as it is.                                            *)
RemovePatchStillShown(st, off) ==
  LET I == {i \in SameOffset(st.ps, off) : Writes(st.ps[i])} IN
  IF I = {} THEN st ELSE [st EXCEPT !.mem = Poke(st, st.ps[First(I)], st.ps[First(I)].org)]

RemovePatch(st, off) ==
  LET I == {i \in SameOffset(st.ps, off) : Writes(st.ps[i])} IN
  IF I = {} THEN st
  ELSE LET i == First(I) IN
       [ps |-> [st.ps EXCEPT ![i].written = FALSE], mem |-> Poke(st, st.ps[i], st.ps[i].org)]

DeletePatch(st, off) ==
  IF SameOffset(st.ps, off) = {} THEN st
  ELSE [st EXCEPT !.ps = RemoveAt(@, First(SameOffset(@, off)))]

(* What a loop over the list leaves in memory when the entries I write: in *)
(* each cell what the last of them wrote there.                            *)
Pokes(mem, ps, I, b(_)) ==
  [p \in DOMAIN mem |-> [a \in DOMAIN mem[p] |->
     LET J == {i \in I : ps[i].pid = p /\ ps[i].off = a} IN
     IF J = {} THEN mem[p][a] ELSE b(ps[Max(J)])]]

(* RemovePatch for each entry, which undoes the first it can at an offset. *)
ClearAllPatches ==
  LET W == {i \in DOMAIN patches : Writes(patches[i])}
      I == {i \in W : \A j \in W : patches[j].off = patches[i].off => i <= j}
  IN [ps |-> <<>>, mem |-> Pokes(State.mem, patches, I, LAMBDA x : x.org)]

(* AddNewPatch with reWrite: the bytes under the patch are read again.     *)
Rewritten(st, off) ==
  LET i == First(SameOffset(st.ps, off))  x == st.ps[i] IN
  [ps  |-> [st.ps EXCEPT ![i].written = TRUE,
                         ![i].org = IF Writes(x) THEN st.mem[x.pid][x.off] ELSE @],
   mem |-> Poke(st, x, x.new)]

(* UpdateOffsetPatch: every patch of the file p runs goes to p, undone or  *)
(* not.                                                                    *)
Rebased(x, p, h) ==
  LET base == CalcOffsetForModule(x.name, 0, p).base
      y    == [x EXCEPT !.off = (@ - x.base) + base, !.base = base, !.pid = p, !.h = h]
  IN [y EXCEPT !.written = Writes(y)]

RebasedThose(st, I, p, h) ==
  LET ps == [i \in DOMAIN st.ps |-> IF i \in I THEN Rebased(st.ps[i], p, h) ELSE st.ps[i]]
  IN [ps |-> ps, mem |-> Pokes(st.mem, ps, {i \in I : Writes(ps[i])}, LAMBDA x : x.new)]

OfFile(ps, p) == {i \in DOMAIN ps : NameContains(getFilenameFromPID(p), ps[i].pmod)}

(* With the patches the table shows as not written passed over.           *)
UpdateOffsetPatchWritten(st, p, h) ==
  RebasedThose(st, {i \in OfFile(st.ps, p) : st.ps[i].written}, p, h)

UpdateOffsetPatch(st, p, h) == RebasedThose(st, OfFile(st.ps, p), p, h)

NewPatch(p, off, b) ==
  LET m == CalcOffsetForModule(NoFile, off, p) IN
  [pid |-> p, h |-> session, off |-> off, base |-> m.base, name |-> m.name,
   pmod |-> getFilenameFromPID(p), new |-> b, org |-> proc[p].mem[off],
   written |-> TRUE, saved |-> FALSE]

Added(x) == UpdateOffsetPatch([ps |-> Append(patches, x), mem |-> Poke(State, x, x.new)],
                              x.pid, x.h)

Took(st) ==
  /\ patches' = st.ps
  /\ proc' = [p \in Live |-> [proc[p] EXCEPT !.mem = st.mem[p]]]

(* GetModuleFileNameEx: base 0 is the program itself.                      *)
FileOf(x) == IF x.base = 0 THEN proc[x.pid].file ELSE x.name

(* SavePatch and SavePatchToFile.  seen is fileMapping; the first failure  *)
(* to name the module ends the loop.  A patch goes into the copy when the  *)
(* copy has the bytes that were under it; when it does not, and its file   *)
(* is new in this call, the copy is deleted.                               *)
SaveOne(s, x) ==
  LET f    == FileOf(x)
      cell == x.off - x.base
      c    == IF f \in DOMAIN s.copy THEN s.copy[f] ELSE [r \in Rva |-> Org]
      ok   == cell \in Rva /\ c[cell] = x.org
  IN [saved |-> ok, seen |-> IF ok \/ f \in s.seen THEN s.seen \cup {f} ELSE s.seen,
      copy  |-> IF ok THEN [g \in DOMAIN s.copy \cup {f} |->
                              IF g = f THEN [c EXCEPT ![cell] = x.new] ELSE s.copy[g]]
                ELSE IF f \in s.seen THEN s.copy ELSE Without(s.copy, {f})]

Saved(I) ==
  FoldLeftDomain(LAMBDA s, i :
    IF s.over \/ i \notin I THEN s
    ELSE IF ~Reached(patches[i]) THEN [s EXCEPT !.over = TRUE]
    ELSE LET r == SaveOne(s, patches[i]) IN
         [s EXCEPT !.saved = IF r.saved THEN @ \cup {i} ELSE @ \ {i},
                   !.seen = r.seen, !.copy = r.copy],
    [saved |-> {i \in DOMAIN patches : patches[i].saved}, copy |-> copy,
     seen |-> {}, over |-> FALSE], patches)

ResetPatches == [i \in DOMAIN patches |-> [patches[i] EXCEPT !.saved = FALSE, !.written = FALSE]]

-----------------------------------------------------------------------------
(* qtDLGBookmark.                                                          *)

UpdateBookmarks(f, p) ==
  LET I == {i \in DOMAIN bookmarks : NameContains(f, bookmarks[i].name)} IN
  IF I = {} THEN bookmarks ELSE [bookmarks EXCEPT ![First(I)].pid = p]

BookmarkUpdateOffsets(p) ==
  [i \in DOMAIN bookmarks |->
    LET x    == bookmarks[i]
        base == CalcOffsetForModule(x.name, x.off, p).base
    IN IF NameContains(getFilenameFromPID(p), x.pmod) /\ base # x.base
       THEN [x EXCEPT !.off = base + (x.off - x.base), !.base = base,
                      !.pid = IF @ = NoPid THEN p ELSE @]
       ELSE x]

-----------------------------------------------------------------------------
(* Project files.  An entry holds its distance from the base.              *)

NoProject == [patches |-> <<>>, bookmarks |-> <<>>]
Stored(x) == [x EXCEPT !.off = @ - x.base, !.base = 0, !.pid = NoPid]
StoredPatch(x) == [Stored(x) EXCEPT !.h = 0, !.written = FALSE, !.saved = FALSE]

(* ReadPatchDataFromFile and ReadBookmarkDataFromFile leave an entry out   *)
(* when one of its texts is empty.                                         *)
ReadPatchData(x)    == x.name # NoFile /\ x.pmod # NoFile
ReadBookmarkData(x) == x.comment # "" /\ x.name # NoFile /\ x.pmod # NoFile

(* The entries I of a list, in their order.                                *)
Nth(I, k)       == CHOOSE i \in I : Cardinality({j \in I : j <= i}) = k
Picked(list, I) == [k \in 1 .. Cardinality(I) |-> list[Nth(I, k)]]
Read(list, Is(_)) == Picked(list, {i \in DOMAIN list : Is(list[i])})

-----------------------------------------------------------------------------
Init ==
  /\ setup \in Setups
  /\ pe = NoFun /\ proc = NoFun /\ PIDs = {} /\ session = 0
  /\ active = FALSE /\ target = FALSE /\ isRestart = FALSE /\ queue = <<>>
  /\ patches = <<>> /\ bookmarks = <<>> /\ copy = NoFun /\ project = NoProject

(* --- debugger thread --------------------------------------------------- *)

Sig(sig, f, p) == [sig |-> sig, file |-> f, pid |-> p, h |-> session]

(* The cells of a process with its modules at those bases.                 *)
CellsOf(at) == Heap \cup {at[m] + r : m \in DOMAIN at, r \in Rva}

(* CREATE_PROCESS_DEBUG_EVENT of the target, then of its children.         *)
CreateProcess(p, f, at) ==
  /\ active /\ p \notin PIDs
  /\ IF PIDs = {} THEN f = Target ELSE Live # {} /\ f \in ChildFiles
  /\ DOMAIN at = {f} \cup Libs
  /\ proc' = [q \in Live \cup {p} |->
       IF q # p THEN proc[q]
       ELSE [file |-> f, at |-> at, ep |-> FALSE,
             mem |-> [a \in CellsOf(at) |-> Org]]]
  /\ PIDs' = PIDs \cup {p} /\ pe' = OpenFile(f, p)
  /\ queue' = Append(queue, Sig("newpid", f, p))
  /\ UNCHANGED <<setup, session, active, target, isRestart, patches, bookmarks, copy, project>>

(* The breakpoint at the entry point: the file is closed and opened again. *)
EntryPoint(p) ==
  /\ p \in Live /\ ~proc[p].ep
  /\ proc' = [proc EXCEPT ![p].ep = TRUE]
  /\ pe' = [f \in DOMAIN pe \cup {proc[p].file} |-> IF f = proc[p].file THEN p ELSE pe[f]]
  /\ queue' = Append(queue, Sig("offsets", NoFile, p))
  /\ UNCHANGED <<setup, PIDs, session, active, target, isRestart, patches, bookmarks, copy, project>>

(* EXIT_PROCESS_DEBUG_EVENT; the last one ends the session.                *)
ExitProcess(p) ==
  /\ p \in Live /\ proc' = Without(proc, {p})
  /\ active' = (Live # {p})
  /\ queue' = queue \o <<Sig("closed", NoFile, p)>> \o
              (IF active' THEN <<>> ELSE <<Sig("terminated", NoFile, NoPid)>>)
  /\ UNCHANGED <<setup, pe, PIDs, session, target, isRestart, patches, bookmarks, copy, project>>

(* --- GUI thread -------------------------------------------------------- *)

(* action_DebugStart.  Without a target the user opens one and             *)
(* ClearDebugData empties the tables; a target PEFiles still holds is      *)
(* refused.  S is the tables as the caller leaves them.                    *)
Start(S) ==
  /\ session < MaxSessions /\ isRestart' = FALSE
  /\ IF S.target /\ Target \in DOMAIN S.pe
     THEN /\ pe' = Without(S.pe, {Target}) /\ target' = FALSE
          /\ UNCHANGED <<PIDs, session, active>>
     ELSE /\ pe' = NoFun /\ target' = TRUE /\ PIDs' = {}
          /\ session' = session + 1 /\ active' = TRUE
  /\ patches' = IF S.target THEN S.patches ELSE <<>>
  /\ bookmarks' = IF S.target THEN S.bookmarks ELSE <<>>

Tables == [pe |-> pe, target |-> target, patches |-> patches, bookmarks |-> bookmarks]

OnNewPID ==
  /\ queue # <<>> /\ Head(queue).sig = "newpid" /\ queue' = Tail(queue)
  /\ bookmarks' = UpdateBookmarks(Head(queue).file, Head(queue).pid)
  /\ UNCHANGED <<setup, pe, proc, PIDs, session, active, target, isRestart, patches, copy, project>>

OnUpdateOffsets ==
  /\ queue # <<>> /\ Head(queue).sig = "offsets" /\ queue' = Tail(queue)
  /\ Took(UpdateOffsetPatch(State, Head(queue).pid, Head(queue).h))
  /\ bookmarks' = BookmarkUpdateOffsets(Head(queue).pid)
  /\ UNCHANGED <<setup, pe, PIDs, session, active, target, isRestart, copy, project>>

OnProcessClosed ==
  /\ queue # <<>> /\ Head(queue).sig = "closed" /\ queue' = Tail(queue)
  /\ pe' = CloseFile(Head(queue).pid)
  /\ UNCHANGED <<setup, proc, PIDs, session, active, target, isRestart, patches, bookmarks, copy, project>>

OnDebuggerTerminated ==
  /\ queue # <<>> /\ Head(queue).sig = "terminated" /\ queue' = Tail(queue)
  /\ IF isRestart /\ ~active
     THEN Start([Tables EXCEPT !.pe = NoFun, !.patches = ResetPatches])
     ELSE /\ pe' = NoFun /\ patches' = ResetPatches /\ isRestart' = FALSE
          /\ UNCHANGED <<PIDs, session, active, target, bookmarks>>
  /\ UNCHANGED <<setup, proc, copy, project>>

Free == QueuedInput \/ queue = <<>>

DebugStart ==
  /\ Free /\ ~active /\ Start(Tables) /\ UNCHANGED <<setup, proc, queue, copy, project>>

Restart ==
  /\ Free /\ active /\ session < MaxSessions /\ ~isRestart /\ isRestart' = TRUE
  /\ UNCHANGED <<setup, pe, proc, PIDs, session, active, target, queue, patches, bookmarks, copy, project>>

(* action_FileOpenNewFile: the target is forgotten.                        *)
OpenNewFile ==
  /\ Free /\ target /\ session < MaxSessions
  /\ IF active THEN /\ target' = FALSE /\ isRestart' = TRUE
                    /\ UNCHANGED <<pe, PIDs, session, active, patches, bookmarks>>
     ELSE Start([Tables EXCEPT !.target = FALSE])
  /\ UNCHANGED <<setup, proc, queue, copy, project>>

SaveProject ==
  /\ Free /\ active
  /\ project' = [patches   |-> [i \in DOMAIN patches |-> StoredPatch(patches[i])],
                 bookmarks |-> [i \in DOMAIN bookmarks |-> Stored(bookmarks[i])]]
  /\ UNCHANGED <<setup, debugger, patches, bookmarks, copy>>

(* action_FileLoad: ClearDebugData, the entries, then action_DebugStart.   *)
LoadProject ==
  /\ Free /\ ~active /\ project # NoProject
  /\ Start([pe |-> NoFun, target |-> TRUE,
            patches   |-> Read(project.patches, ReadPatchData),
            bookmarks |-> Read(project.bookmarks, ReadBookmarkData)])
  /\ UNCHANGED <<setup, proc, queue, copy, project>>

AddNewPatch(p, off, b) ==
  /\ Free /\ p \in Live /\ off \in DOMAIN proc[p].mem /\ b # Org
  /\ EarlyPatches \/ proc[p].ep
  /\ Len(patches) < MaxPatches /\ SameOffset(patches, off) = {}
  /\ Took(Added(NewPatch(p, off, b)))
  /\ UNCHANGED <<setup, pe, PIDs, session, active, target, isRestart, queue, bookmarks, copy, project>>

(* The menu of the patch table, on the row of an offset.                   *)
Redo(off) ==
  /\ Free /\ \E i \in SameOffset(patches, off) : ~patches[i].written
  /\ Took(Rewritten(State, off))
  /\ UNCHANGED <<setup, pe, PIDs, session, active, target, isRestart, queue, bookmarks, copy, project>>

Undo(off) ==
  /\ Free /\ \E i \in SameOffset(patches, off) : patches[i].written
  /\ Took(RemovePatch(State, off))
  /\ UNCHANGED <<setup, pe, PIDs, session, active, target, isRestart, queue, bookmarks, copy, project>>

OnPatchRemove(off) ==
  /\ Free /\ SameOffset(patches, off) # {}
  /\ Took(DeletePatch(RemovePatch(State, off), off))
  /\ UNCHANGED <<setup, pe, PIDs, session, active, target, isRestart, queue, bookmarks, copy, project>>

RemoveAllPatches ==
  /\ Free /\ patches # <<>> /\ Took(ClearAllPatches)
  /\ UNCHANGED <<setup, pe, PIDs, session, active, target, isRestart, queue, bookmarks, copy, project>>

SavePatch(I) ==
  /\ Free /\ I # {} /\ copy' = Saved(I).copy
  /\ patches' = [i \in DOMAIN patches |-> [patches[i] EXCEPT !.saved = i \in Saved(I).saved]]
  /\ UNCHANGED <<setup, debugger, bookmarks, project>>

BookmarkAdd(p, off, comment) ==
  /\ Free /\ p \in Live /\ off \in DOMAIN proc[p].mem /\ Len(bookmarks) < MaxBookmarks
  /\ ~\E i \in DOMAIN bookmarks : bookmarks[i].off = off /\ bookmarks[i].pid = p
  /\ LET m == CalcOffsetForModule(NoFile, off, p) IN
     bookmarks' = Append(bookmarks, [off |-> off, base |-> m.base, name |-> m.name, pid |-> p,
                                     pmod |-> getFilenameFromPID(p), comment |-> comment])
  /\ UNCHANGED <<setup, debugger, patches, copy, project>>

BookmarkRemove(off) ==
  /\ Free /\ SameOffset(bookmarks, off) # {}
  /\ bookmarks' = RemoveAt(bookmarks, First(SameOffset(bookmarks, off)))
  /\ UNCHANGED <<setup, debugger, patches, copy, project>>

(* A comment typed into the table: column 2 of CellDataChanged.            *)
CellDataChanged(off, name, comment) ==
  LET I == {i \in SameOffset(bookmarks, off) : NameContains(bookmarks[i].name, name)} IN
  /\ Free /\ I # {} /\ bookmarks' = [bookmarks EXCEPT ![First(I)].comment = comment]
  /\ UNCHANGED <<setup, debugger, patches, copy, project>>

-----------------------------------------------------------------------------
Loads(f) == {at \in [{f} \cup Libs -> UNION {Bases[m] : m \in File}] :
               \A m \in DOMAIN at : at[m] \in Bases[m]}
Offsets(list) == {list[i].off : i \in DOMAIN list}
Comment == {"", "note"}

Debugger ==
  \/ \E p \in Pid, f \in {Target} \cup ChildFiles : \E at \in Loads(f) : CreateProcess(p, f, at)
  \/ \E p \in Pid : EntryPoint(p) \/ ExitProcess(p)

Slots == OnNewPID \/ OnUpdateOffsets \/ OnProcessClosed \/ OnDebuggerTerminated

User ==
  \/ DebugStart \/ Restart \/ OpenNewFile \/ SaveProject \/ LoadProject \/ RemoveAllPatches
  \/ \E p \in Live : \E off \in DOMAIN proc[p].mem :
       \/ \E b \in Byte : AddNewPatch(p, off, b)
       \/ \E comment \in Comment : BookmarkAdd(p, off, comment)
  \/ \E off \in Offsets(patches) :
       Redo(off) \/ Undo(off) \/ OnPatchRemove(off) \/ SavePatch(SameOffset(patches, off))
  \/ SavePatch(DOMAIN patches)
  \/ \E off \in Offsets(bookmarks) :
       \/ BookmarkRemove(off)
       \/ \E name \in File, comment \in Comment : CellDataChanged(off, name, comment)

Next == Debugger \/ Slots \/ User

Spec == Init /\ [][Next]_vars

-----------------------------------------------------------------------------
(* The memory of every process is the program with the patches the table   *)
(* shows as written, and nothing else, across undo, redo, removal, rebase  *)
(* and restart: AddNewPatch, RemovePatch, UpdateOffsetPatch.               *)
MemoryIsPatched ==
  \A p \in Live : \A a \in DOMAIN proc[p].mem :
    LET I == {i \in SameOffset(patches, a) : /\ Reached(patches[i]) /\ patches[i].pid = p
                                              /\ patches[i].written}
    IN proc[p].mem[a] = IF I = {} THEN Org ELSE patches[First(I)].new

(* Once the signal of a process's entry point is served, every patch and   *)
(* every bookmark of its file is at its distance from the base of its      *)
(* module in this run, the patch also in memory, whatever session or       *)
(* project file it comes from: UpdateOffsetPatch, BookmarkUpdateOffsets.   *)
ReappliedAtEntry ==
  [][OnUpdateOffsets /\ Head(queue).pid \in Live =>
     LET p == Head(queue).pid IN
     /\ \A i \in DOMAIN patches : patches[i].pmod = proc[p].file =>
          proc'[p].mem[proc[p].at[patches[i].name] + (patches[i].off - patches[i].base)]
            = patches[i].new
     /\ \A i \in DOMAIN bookmarks : bookmarks[i].pmod = proc[p].file =>
          /\ bookmarks'[i].base = proc[p].at[bookmarks[i].name]
          /\ bookmarks'[i].off - bookmarks'[i].base = bookmarks[i].off - bookmarks[i].base]_vars

=============================================================================
