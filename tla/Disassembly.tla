------------------------------ MODULE Disassembly ------------------------------
(***************************************************************************)
(* The disassembler and its view: clsDisassembler, whose worker decodes a  *)
(* stretch of code into SectionDisAs on a thread of the pool, and          *)
(* qtDLGDisassembler, which shows lines of it and asks for others.         *)
(*                                                                         *)
(* A request is made and a line looked up on the GUI thread, while the     *)
(* worker inserts its rows one by one; the worker's two signals are queued *)
(* for the GUI thread.  The text of a line is the session and whether the  *)
(* line has been patched in it.  The distances of the source are scaled:   *)
(* Back for 5 lines, Reach for 300 bytes.                                  *)
(***************************************************************************)
EXTENDS Integers, SequencesExt

CONSTANTS
  Line,       \* addresses where an instruction starts
  Target,     \* addresses that are asked for; those that are no line are data
  Region,     \* regions that are code: base, end
  Reach,      \* bytes decoded on either side of a request
  Back,       \* lines shown above the one asked for
  MaxRows,    \* m_maxRows: the view has one row more
  Session,    \* bound: debugging sessions
  History,    \* bound: length of m_offsetWalkHistory
  Asks        \* bound: requests of the user and breaks in all

ASSUME ConstantsOK ==
  /\ Line \subseteq Nat \ {0} /\ Target \subseteq Nat \ {0}
  /\ \A r \in Region : r.base \in Line /\ r.base < r.end
  /\ \A l \in Line : \E r \in Region : r.base <= l /\ l < r.end
  /\ Reach \in Nat \ {0} /\ Back \in Nat \ {0} /\ MaxRows >= 2 * Back
  /\ Session \in Nat /\ History \in Nat /\ Asks \in Nat

VARIABLES
  dis,      \* clsDisassembler
  job,      \* the worker: "idle", "queued", "fill", and what it has read
  events,   \* queued for the GUI thread
  view,     \* rows, m_lastEIP, m_offsetWalkHistory
  dbg,      \* "none", "run", "broke"
  session,  \* debugging sessions started
  patched,  \* lines whose code has been changed in the session
  wanted,   \* the last line the user or a break asked for
  lost,     \* the last request, or a change, came where the code loses it
  failed,   \* a read has failed
  crashed,  \* a row without an item, or the end of the map, was read
  asks      \* requests made

vars == <<dis, job, events, view, dbg, session, patched, wanted, lost, failed, crashed, asks>>

Blank == [off |-> 0, s |-> 0, p |-> FALSE]
Text(l) == [off |-> l, s |-> session, p |-> l \in patched]

(* SectionDisAs, in the order of its keys, which is the worker's.          *)
Keys(section) == {section[i].off : i \in DOMAIN section}

-----------------------------------------------------------------------------
(* clsDisassembler, on the GUI thread.                                     *)

RegionOf(o) == {r \in Region : r.base <= o /\ o < r.end}
IsCode(o)   == RegionOf(o) # {}

(* IsNewInsertPossible: the stretch to decode, and the page it is read     *)
(* from.                                                                   *)
Stretch(o) ==
  LET r     == CHOOSE s \in RegionOf(o) : TRUE
      below == IF o - Reach <= r.base /\ ~IsCode(o - Reach) THEN r.base ELSE o - Reach
      above == IF o + Reach >= r.end /\ ~IsCode(o + Reach) THEN r.end ELSE o + Reach
  IN  [from |-> below, to |-> above]

(* Without the end of what is known.                                       *)
InsertNeededBelow(d, o) == o <= d.start \/ d.section = <<>>

IsNewInsertNeeded(d, o) == o <= d.start \/ o >= d.end \/ d.section = <<>>

Refused(d) == [dis |-> d, ok |-> FALSE, started |-> FALSE, lost |-> d.working]

(* IsNewInsertNeeded and IsNewInsertPossible; the worker is started.       *)
Request(d, o, bClear) ==
  LET asked == [d EXCEPT !.searched = o, !.proc = session,
                         !.section = IF bClear THEN <<>> ELSE @]
  IN  IF IsNewInsertNeeded(asked, o) /\ IsCode(o)
      THEN [dis |-> [asked EXCEPT !.section = <<>>, !.working = TRUE,
                                  !.start = Stretch(o).from, !.end = Stretch(o).to],
            ok |-> TRUE, started |-> TRUE, lost |-> FALSE]
      ELSE Refused(asked)

NoProcess(o) == dbg = "none" \/ o = 0
Again(d, o)  == d.searched = o /\ d.section # <<>>

(* With a line that was asked for before refused even for a clear.         *)
InsertOnce(d, o, bClear) ==
  IF NoProcess(o) \/ d.working \/ Again(d, o) THEN Refused(d) ELSE Request(d, o, bClear)

InsertNewDisassembly(d, o, bClear) ==
  IF NoProcess(o) \/ d.working \/ (Again(d, o) /\ ~bClear) THEN Refused(d)
  ELSE Request(d, o, bClear)

-----------------------------------------------------------------------------
(* qtDLGDisassembler::OnDisplayDisassembly.                                *)

(* What a slot leaves: the disassembler, the view, and what happened.      *)
Done(r, v)    == [dis |-> r.dis, view |-> v, started |-> r.started, lost |-> r.lost, crash |-> FALSE]
Crash(d, v)   == [dis |-> d, view |-> v, started |-> FALSE, lost |-> d.working, crash |-> TRUE]
Quietly(d, v) == [dis |-> d, view |-> v, started |-> FALSE, lost |-> d.working, crash |-> FALSE]

(* The rows from line i of the sorted map on, the last line left out; rows *)
(* that are not reached keep what they show.                               *)
Rows(v, lines, i) ==
  [k \in 1 .. MaxRows + 1 |->
     IF i + k - 1 < Len(lines) THEN lines[i + k - 1]
     ELSE IF Len(v.rows) = MaxRows + 1 THEN v.rows[k] ELSE Blank]

(* From a line on: a full view, or the end of the map and a new request    *)
(* for the row that should be the line asked for.                          *)
ShowFrom(d, v, lines, i) ==
  LET w == [v EXCEPT !.rows = Rows(v, lines, i)]
  IN  IF i = Len(lines) THEN Crash(d, v)
      ELSE IF Len(lines) - i > MaxRows + 1 THEN Quietly(d, w)
      ELSE IF w.rows[Back + 1] = Blank THEN Crash(d, w)
      ELSE [Done(InsertNewDisassembly(d, w.rows[Back + 1].off, TRUE), w)
              EXCEPT !.lost = @ \/ i + Back = Len(lines)]

OnDisplayDisassembly(d, v, o) ==
  LET lines == d.section
      w     == [v EXCEPT !.last = o]
      i     == CHOOSE k \in DOMAIN lines : lines[k].off = o
      first == InsertNewDisassembly(d, o, FALSE)
  IN  IF d.section = <<>> \/ o = 0 THEN Done(first, v)
      ELSE IF o \notin Keys(d.section) THEN Done(first, w)
      ELSE IF i = 1 THEN IF first.ok THEN Done(first, w) ELSE ShowFrom(first.dis, w, lines, 1)
      ELSE ShowFrom(d, w, lines, IF i > Back THEN i - Back ELSE 1)

(* The callers that ask first and show what they have if refused.          *)
Seek(d, v, o) ==
  LET r == InsertNewDisassembly(d, o, FALSE)
  IN  IF r.ok THEN Done(r, v) ELSE OnDisplayDisassembly(r.dis, v, o)

-----------------------------------------------------------------------------
Init ==
  /\ dis = [section |-> <<>>, start |-> 0, end |-> 0, searched |-> 0, working |-> FALSE, proc |-> 0]
  /\ job = [at |-> "idle", text |-> <<>>] /\ events = <<>>
  /\ view = [rows |-> <<>>, last |-> 0, walk |-> <<>>]
  /\ dbg = "none" /\ session = 0 /\ patched = {} /\ wanted = 0
  /\ lost = FALSE /\ failed = FALSE /\ crashed = FALSE /\ asks = 0

(* The effect of a slot.  A request is lost on a worker at work, behind an *)
(* answer on its way, and on the last line of the map: row Back + 1 is not *)
(* reached then, and the line it had before is asked for.                  *)
Effect(S) ==
  /\ dis' = S.dis /\ view' = S.view
  /\ job' = IF S.started THEN [at |-> "queued", text |-> <<>>] ELSE job
  /\ crashed' = S.crash

Slot(S) ==
  /\ Effect(S)
  /\ lost' = (S.lost \/ (~S.started /\ (lost \/ events # <<>>)))

Alive == ~crashed
InSession == Alive /\ dbg # "none"
Rest == UNCHANGED <<events, dbg, session, patched, failed>>

(* A new process; the lines are those of the same file.                    *)
Start ==
  /\ Alive /\ dbg = "none" /\ session < Session
  /\ dbg' = "run" /\ session' = session + 1 /\ patched' = {}
  /\ UNCHANGED <<dis, job, events, view, wanted, lost, failed, crashed>>

(* OnDebuggerBreak at a line, after a break or "Set R/EIP to this".        *)
OnDebuggerBreak(l) ==
  /\ InSession /\ dbg' = "broke" /\ wanted' = l
  /\ Slot(OnDisplayDisassembly(dis, view, l))
  /\ UNCHANGED <<events, session, patched, failed>>

Resume == InSession /\ dbg = "broke" /\ dbg' = "run"
          /\ UNCHANGED <<dis, job, events, view, session, patched, wanted, lost, failed, crashed>>

(* OnDebuggerTerminated: the map is cleared, whoever fills it, and the     *)
(* rows are taken off the view.                                            *)
OnDebuggerTerminated ==
  /\ InSession /\ dbg' = "none" /\ dis' = [dis EXCEPT !.section = <<>>]
  /\ view' = [view EXCEPT !.rows = <<>>] /\ wanted' = 0
  /\ lost' = (lost \/ dis.working)
  /\ UNCHANGED <<job, events, session, patched, failed, crashed>>

(* A breakpoint, a bookmark, a register or another window sends an offset. *)
ShowInDisassembler(o) ==
  InSession /\ wanted' = o /\ Slot(OnDisplayDisassembly(dis, view, o)) /\ Rest

(* Return on a selected line, and "Goto Offset / Function".                *)
OnDisAsReturnPressed(k, o) ==
  /\ InSession /\ k \in DOMAIN view.rows /\ Len(view.walk) < History
  /\ wanted' = o
  /\ Slot(Seek(dis, [view EXCEPT !.walk = Append(@, view.rows[k].off)], o)) /\ Rest

(* Backspace.                                                              *)
OnDisAsReturn ==
  /\ InSession /\ view.walk # <<>> /\ wanted' = Last(view.walk)
  /\ Slot(Seek(dis, [view EXCEPT !.walk = Front(@)], Last(view.walk))) /\ Rest

(* The scroll bar, the wheel and the keys ask for the line of a row.       *)
AskRow(k) ==
  /\ InSession /\ wanted' = view.rows[k].off
  /\ IF view.rows[k] = Blank THEN Slot(Crash(dis, view))
     ELSE Slot(OnDisplayDisassembly(dis, view, view.rows[k].off))
  /\ Rest

OnDisAsScroll(up) == Len(view.rows) >= 2 * Back /\ AskRow(IF up THEN 1 ELSE 2 * Back + 1)

(* The selected row is the first, or the last; a page is a scroll.         *)
OnMoveUpOrDown(up) ==
  view.rows # <<>> /\ AskRow(IF up THEN Back ELSE Back + 2)

(* AddNewPatch, or a patch removed: the code changes, and the line is      *)
(* asked for with the map cleared.                                         *)
Patch(l) ==
  LET r == InsertNewDisassembly(dis, l, TRUE)
  IN  /\ InSession /\ dbg = "broke" /\ wanted' = l
      /\ patched' = IF l \in patched THEN patched \ {l} ELSE patched \cup {l}
      /\ Slot(Done(r, view)) /\ UNCHANGED <<events, dbg, session, failed>>

(* CleanIfOffsetLoaded of the bookmarks, and a patch list cleared.          *)
CleanIfOffsetLoaded(l) ==
  /\ InSession /\ l \in Keys(dis.section)
  /\ LET d == [dis EXCEPT !.section = <<>>]
     IN  /\ wanted' = l /\ Slot(OnDisplayDisassembly(d, view, l))
  /\ Rest

(* resizeEvent, with room for the same rows.                               *)
ResizeEvent == InSession /\ view.last # 0 /\ wanted' = view.last
               /\ Slot(OnDisplayDisassembly(dis, view, view.last)) /\ Rest

-----------------------------------------------------------------------------
(* clsDisassembler::run.                                                   *)
WorkerRest == UNCHANGED <<view, dbg, session, patched, wanted, lost, crashed>>

(* The lines the worker inserts, those at the end that are cut excluded.   *)
LineEnd(l) == LET above == {k \in Line : k > l}
              IN  IF above = {} THEN Max({r.end : r \in RegionOf(l)}) ELSE Min(above)
Inserted(l) == dis.start <= l /\ LineEnd(l) <= dis.end
Rank(l)     == Cardinality({k \in Line : k <= l /\ Inserted(k)})
Buffer      == [i \in 1 .. Cardinality({l \in Line : Inserted(l)}) |->
                  Text(CHOOSE l \in Line : Inserted(l) /\ Rank(l) = i)]

(* The process is read: a buffer, or the message box and no signal.        *)
Read ==
  /\ Alive /\ job.at = "queued"
  /\ IF dis.proc = session /\ dbg # "none"
     THEN job' = [at |-> "fill", text |-> Buffer]
          /\ UNCHANGED failed
     ELSE job' = [at |-> "idle", text |-> <<>>] /\ failed' = TRUE
  /\ UNCHANGED <<dis, events>> /\ WorkerRest

Insert ==
  /\ Alive /\ job.at = "fill" /\ job.text # <<>>
  /\ dis' = [dis EXCEPT !.section = Append(@, Head(job.text))]
  /\ job' = [job EXCEPT !.text = Tail(@)]
  /\ UNCHANGED <<events, failed>> /\ WorkerRest

(* The map as far as it has been filled.                                   *)
Known == IF dis.section = <<>> THEN [dis EXCEPT !.end = 0, !.start = 0]
         ELSE [dis EXCEPT !.end = Last(dis.section).off, !.start = dis.section[1].off]

(* Without the signal that ends the work.                                  *)
FinishSilently ==
  /\ Alive /\ job.at = "fill" /\ job.text = <<>>
  /\ dis' = Known
  /\ job' = [at |-> "idle", text |-> <<>>]
  /\ events' = Append(events, [ev |-> "DisAsFinished", off |-> dis.searched])
  /\ UNCHANGED failed /\ WorkerRest

Finish ==
  /\ Alive /\ job.at = "fill" /\ job.text = <<>>
  /\ dis' = Known
  /\ job' = [at |-> "idle", text |-> <<>>]
  /\ events' = events \o << [ev |-> "finished", off |-> 0], [ev |-> "DisAsFinished", off |-> dis.searched] >>
  /\ UNCHANGED failed /\ WorkerRest

(* OnThreadFinished, and the view's slot for DisAsFinished.                *)
Deliver ==
  LET e == Head(events)
  IN  /\ Alive /\ events # <<>> /\ events' = Tail(events)
      /\ IF e.ev = "finished"
         THEN /\ dis' = [dis EXCEPT !.working = FALSE]
              /\ UNCHANGED <<view, job, lost, crashed>>
         ELSE Effect(OnDisplayDisassembly(dis, view, e.off)) /\ UNCHANGED lost
      /\ UNCHANGED <<dbg, session, patched, wanted, failed>>

-----------------------------------------------------------------------------
Worker == Read \/ Insert \/ Finish

User == \/ \E o \in Target : ShowInDisassembler(o)
        \/ \E o \in Target : OnDisAsReturnPressed(1, o)
        \/ OnDisAsReturn
        \/ \E up \in BOOLEAN : OnDisAsScroll(up) \/ OnMoveUpOrDown(up)
        \/ \E l \in Target \cap Line : Patch(l) \/ CleanIfOffsetLoaded(l)
        \/ ResizeEvent

Ask == asks < Asks /\ asks' = asks + 1

Next == \/ (Worker \/ Deliver \/ Start \/ Resume \/ OnDebuggerTerminated) /\ UNCHANGED asks
        \/ (User \/ \E l \in Target \cap Line : OnDebuggerBreak(l)) /\ Ask

Spec == Init /\ [][Next]_vars /\ WF_vars(Worker /\ UNCHANGED asks) /\ WF_vars(Deliver /\ UNCHANGED asks)

-----------------------------------------------------------------------------
Quiet == job.at = "idle" /\ events = <<>>

(* With nothing lost to a busy worker, the line that was asked for is in   *)
(* the view once the worker has answered.                                  *)
WantedIsShown ==
  (Alive /\ dbg # "none" /\ Quiet /\ ~lost /\ ~failed /\ wanted \in Line)
    => \E k \in DOMAIN view.rows : view.rows[k].off = wanted

(* And then the view shows one line after the other, as they are in memory *)
(* now.                                                                    *)
RowsAreTheCode ==
  (Alive /\ dbg # "none" /\ Quiet /\ ~lost /\ ~failed /\ wanted \in Line)
    => /\ \A k \in DOMAIN view.rows : view.rows[k] = Text(view.rows[k].off)
       /\ \A k \in 1 .. Len(view.rows) - 1 : view.rows[k + 1].off = LineEnd(view.rows[k].off)

(* A request that the worker took is answered.                             *)
WorkerComesBack == dis.working ~> (~dis.working \/ failed \/ crashed)

=============================================================================
