-------------------------------- MODULE Options --------------------------------
(***************************************************************************)
(* The options: clsAppSettings, which keeps them in the registry, the      *)
(* dialog qtDLGOption with qtDLGExceptionEdit, and the debugger thread,    *)
(* which looks an exception up in ExceptionHandler, may ask what to do     *)
(* (qtDLGExceptionAsk) and may remember the answer.                        *)
(*                                                                         *)
(* Of the settings the model keeps the two that depend on each other and   *)
(* what is done with an exception nobody listed; the others and the colours*)
(* are copied with them.  Every key of the registry is written or removed  *)
(* on its own, and the program may be killed between two of them;          *)
(* ExceptionHandler is emptied and refilled entry by entry, while the      *)
(* debugger thread reads it.                                               *)
(***************************************************************************)
EXTENDS Integers, FiniteSets, SequencesExt

CONSTANTS
  Code,       \* exception codes
  Action,     \* 0 break, 1 pass to the program, 2 ignore
  Jit,        \* debuggers that may be registered, as text; "0" when there is none
  Nanomite,   \* the text that registers this program
  Requests    \* bound: what the user does, exceptions and changes from outside

ASSUME ConstantsOK ==
  /\ Nanomite \notin Jit /\ "" \notin Jit /\ Nanomite # ""
  /\ Requests \in Nat

VARIABLES
  reg,       \* the user's key: settings, EXCEPTION0.., defaultJIT, IsFirstRun
  aeDebug,   \* Debugger under AeDebug, of the machine
  admin,     \* whether this user may write it
  app,       \* "up" or "down"
  set,       \* dbgSettings
  handler,   \* ExceptionHandler
  dlg,       \* the dialog: its boxes, its table, its lines, m_originalJIT
  gui,       \* the GUI thread: what it is doing, for which handler, at which key
  thr,       \* the debugger thread: place and exception
  orig,      \* the debugger that was registered before this one
  raced,     \* AeDebug changed behind the open dialog, or OnSave was cut short
  cut,       \* the program was killed with the exceptions half removed
  unsaved,   \* an answer was remembered since settings were loaded or saved
  requests

stored == <<reg, aeDebug, admin, orig, raced, cut>>
vars == <<stored, app, set, handler, dlg, gui, thr, unsaved, requests>>

-----------------------------------------------------------------------------
(* clsAppSettings.                                                         *)

(* The keys in the order they are written; the default of each, and what   *)
(* is read where there is no key.                                          *)
Fields == <<"sym", "ms", "assist", "ignore">>
Defaults == [sym |-> TRUE, ms |-> FALSE, assist |-> FALSE, ignore |-> FALSE]
NoKeys == [f \in Range(Fields) |-> FALSE]

(* The first n without a key EXCEPTIONn.                                   *)
First(exc) == CHOOSE n \in 0 .. Cardinality(DOMAIN exc) :
                n \notin DOMAIN exc /\ 0 .. n - 1 \subseteq DOMAIN exc

(* A key behind the first that is missing is never read.                   *)
Gapped(exc) == \E n \in DOMAIN exc : n > First(exc)

WithKey(exc, n)    == exc    \* the old key is left where it is
WithoutKey(exc, n) == Restrict(exc, DOMAIN exc \ {n})

LoadedExceptions(r) == [i \in 1 .. First(r.exc) |-> r.exc[i - 1]]

-----------------------------------------------------------------------------
(* The dialog.                                                             *)

Closed == [open |-> FALSE, set |-> Defaults, table |-> <<>>, org |-> "", current |-> "",
           original |-> ""]

(* OnLoad, whatever debugger is registered.                                *)
LoadedAny(r, s, list) ==
  [open |-> TRUE, set |-> s, table |-> list, original |-> aeDebug, org |-> aeDebug,
   current |-> aeDebug]

OnLoad(r, s, list) ==
  LET original == IF aeDebug = Nanomite THEN r.jit ELSE aeDebug
  IN  [open |-> TRUE, set |-> s, table |-> list, original |-> original, org |-> original,
       current |-> aeDebug]

Idle == [at |-> "idle", for |-> "none", n |-> 0]
Running == [at |-> "run", code |-> "none", row |-> 1, answer |-> 0, always |-> FALSE]

(* The key of a user who never ran the program, or of one who has, with    *)
(* two exceptions listed.                                                  *)
Fresh == [set |-> NoKeys, exc |-> [n \in {} |-> 0], jit |-> "", first |-> FALSE]
Used(c, d, a) ==
  [set |-> Defaults, jit |-> "", first |-> TRUE,
   exc |-> (0 :> [code |-> c, action |-> a]) @@ (1 :> [code |-> d, action |-> a])]

Init ==
  /\ reg \in {Fresh} \cup {Used(c, d, a) : <<c, d, a>> \in
                           {x \in Code \X Code \X Action : x[1] # x[2]}}
  /\ aeDebug \in Jit /\ orig = aeDebug /\ admin \in BOOLEAN
  /\ app = "down" /\ set = Defaults /\ handler = <<>> /\ dlg = Closed /\ gui = Idle
  /\ thr = Running /\ raced = FALSE /\ cut = FALSE /\ unsaved = FALSE /\ requests = 0

Request == requests < Requests /\ requests' = requests + 1

(* The GUI thread is free: no handler is running, and no exception is      *)
(* being asked about, which is modal.                                      *)
Free == app = "up" /\ gui = Idle /\ thr.at # "asking"
InDialog == Free /\ dlg.open /\ Request

Does(at, for) == gui' = [at |-> at, for |-> for, n |-> 0]

-----------------------------------------------------------------------------
(* The registry, a key a step.                                             *)

(* The constructor of the main window: CheckIfFirstRun, then               *)
(* LoadDebuggerSettings.                                                   *)
Start ==
  /\ app = "down" /\ app' = "up" /\ Request
  /\ reg' = [reg EXCEPT !.first = TRUE]
  /\ Does(IF reg.first THEN "load" ELSE "setting", "start")
  /\ UNCHANGED <<aeDebug, admin, orig, raced, cut, set, handler, dlg, thr, unsaved>>

(* SaveDebuggerSettings or WriteDefaultSettings, the settings.             *)
WriteSetting ==
  LET f == Fields[gui.n + 1]
      source == IF gui.for \in {"start", "reload"} THEN Defaults ELSE set
  IN  /\ gui.at = "setting"
      /\ reg' = [reg EXCEPT !.set[f] = source[f]]
      /\ IF gui.n + 1 = Len(Fields) THEN Does("remove", gui.for)
         ELSE gui' = [gui EXCEPT !.n = @ + 1]
      /\ UNCHANGED <<aeDebug, admin, orig, raced, cut, app, set, handler, dlg, thr, unsaved,
                     requests>>

(* Both remove the exceptions up to the first key that is missing.         *)
RemoveKey ==
  /\ gui.at = "remove"
  /\ IF gui.n \in DOMAIN reg.exc
     THEN /\ reg' = [reg EXCEPT !.exc = WithoutKey(@, gui.n)]
          /\ gui' = [gui EXCEPT !.n = @ + 1]
     ELSE /\ Does(IF gui.for \in {"start", "reload"} THEN "load" ELSE "write", gui.for)
          /\ UNCHANGED reg
  /\ UNCHANGED <<aeDebug, admin, orig, raced, cut, app, set, handler, dlg, thr, unsaved, requests>>

(* SaveDebuggerSettings, the entries there are by now.                     *)
WriteKey ==
  /\ gui.at = "write"
  /\ IF gui.n < Len(handler)
     THEN /\ reg' = [reg EXCEPT !.exc = (gui.n :> handler[gui.n + 1]) @@ @]
          /\ gui' = [gui EXCEPT !.n = @ + 1] /\ UNCHANGED unsaved
     ELSE Does("saved", gui.for) /\ unsaved' = FALSE /\ UNCHANGED reg
  /\ UNCHANGED <<aeDebug, admin, orig, raced, cut, app, set, handler, dlg, thr, requests>>

(* LoadDebuggerSettings: the settings, CustomExceptionRemoveAll, then the  *)
(* entries one by one.                                                     *)
LoadSettings ==
  /\ gui.at = "load" /\ Does("key", gui.for)
  /\ set' = reg.set /\ handler' = <<>> /\ unsaved' = FALSE
  /\ UNCHANGED <<stored, app, dlg, thr, requests>>

LoadKey ==
  /\ gui.at = "key"
  /\ IF gui.n \in DOMAIN reg.exc
     THEN /\ handler' = Append(handler, reg.exc[gui.n])
          /\ gui' = [gui EXCEPT !.n = @ + 1] /\ UNCHANGED dlg
     ELSE /\ gui' = Idle /\ UNCHANGED handler
          /\ dlg' = IF gui.for = "reload" THEN OnLoad(reg, set, handler) ELSE dlg
  /\ UNCHANGED <<stored, app, set, thr, unsaved, requests>>

Gone == /\ app' = "down" /\ dlg' = Closed /\ gui' = Idle /\ set' = Defaults
        /\ handler' = <<>> /\ thr' = Running /\ unsaved' = FALSE

(* The destructor of the main window saves what is in force.               *)
Exit ==
  /\ Free /\ ~dlg.open /\ Does("setting", "exit")
  /\ UNCHANGED <<stored, app, set, handler, dlg, thr, unsaved, requests>>

Exited == gui.at = "saved" /\ gui.for = "exit" /\ Gone /\ UNCHANGED <<stored, requests>>

Killed ==
  /\ app = "up" /\ Request /\ Gone
  /\ raced' = (raced \/ gui.for = "save") /\ cut' = (cut \/ Gapped(reg.exc))
  /\ UNCHANGED <<reg, aeDebug, admin, orig>>

(* Another program registers a debugger.                                   *)
Registered(j) ==
  /\ Request /\ aeDebug # j /\ aeDebug' = j /\ orig' = j /\ raced' = (raced \/ dlg.open)
  /\ UNCHANGED <<reg, admin, cut, app, set, handler, dlg, gui, thr, unsaved>>

action_OptionsOptions ==
  /\ Free /\ ~dlg.open /\ Request /\ dlg' = OnLoad(reg, set, handler)
  /\ UNCHANGED <<stored, app, set, handler, gui, thr, unsaved>>

Shown(d) ==
  /\ InDialog /\ dlg' = d
  /\ UNCHANGED <<stored, app, set, handler, gui, thr, unsaved>>

OnClose == Shown(Closed)

SetUseSym(s, on) == [s EXCEPT !.sym = on, !.ms = on /\ @]

CheckSym(on)    == dlg.set.sym # on /\ Shown([dlg EXCEPT !.set = SetUseSym(@, on)])
CheckMSSym(on)  == dlg.set.sym /\ dlg.set.ms # on /\ Shown([dlg EXCEPT !.set.ms = on])
CheckAssist(on) == dlg.set.assist # on /\ Shown([dlg EXCEPT !.set.assist = on])
CheckIgEx(on)   == dlg.set.ignore # on /\ Shown([dlg EXCEPT !.set.ignore = on])

OnSetNanomiteDefault == Shown([dlg EXCEPT !.current = Nanomite])
OnRestoreOrg         == Shown([dlg EXCEPT !.current = dlg.org])

(* qtDLGExceptionEdit's answer: the first row of the code, or a new one.   *)
RowOf(table, c) == SelectInSeq(table, LAMBDA e : e.code = c)
OnInsertNewException(c, a) ==
  Shown([dlg EXCEPT !.table =
    IF RowOf(@, c) # 0 THEN [@ EXCEPT ![RowOf(@, c)].action = a]
    ELSE Append(@, [code |-> c, action |-> a])])

(* A removed row is not examined again, so the row that moves into its     *)
(* place is passed over; what is compared with after the selected row has  *)
(* gone is freed memory, which may still hold the code.                    *)
RECURSIVE Removes(_, _, _, _)
Removes(table, i, c, fresh) ==
  IF i > Len(table) THEN {table}
  ELSE IF table[i].code # c THEN Removes(table, i + 1, c, fresh)
  ELSE Removes(RemoveAt(table, i), i + 1, c, FALSE)
       \cup (IF fresh THEN {} ELSE Removes(table, i + 1, c, fresh))

OnExceptionRemove(row) ==
  \E t \in Removes(dlg.table, 1, dlg.table[row].code, TRUE) : Shown([dlg EXCEPT !.table = t])

(* The defaults replace what was saved, in the registry and in force.      *)
OnReload ==
  /\ InDialog /\ Does("setting", "reload")
  /\ UNCHANGED <<stored, app, set, handler, dlg, thr, unsaved>>

(* OnSave: AeDebug first, when the user may; the settings; then the        *)
(* exceptions are dropped and the rows of the table added.                 *)
OnSave ==
  /\ InDialog /\ Does("row", "save")
  /\ aeDebug' = IF admin THEN dlg.current ELSE aeDebug
  /\ orig' = IF admin /\ dlg.current # Nanomite THEN dlg.current ELSE orig
  /\ set' = dlg.set /\ handler' = <<>>
  /\ UNCHANGED <<reg, admin, app, dlg, thr, raced, cut, unsaved>>

SaveRow ==
  /\ gui.at = "row"
  /\ IF gui.n < Len(dlg.table)
     THEN handler' = Append(handler, dlg.table[gui.n + 1]) /\ gui' = [gui EXCEPT !.n = @ + 1]
     ELSE Does("setting", "save") /\ UNCHANGED handler
  /\ UNCHANGED <<stored, app, set, dlg, thr, unsaved, requests>>

SaveDefaultJITDebugger ==
  /\ gui.at = "saved" /\ gui.for = "save" /\ gui' = Idle
  /\ reg' = [reg EXCEPT !.jit = dlg.original]
  /\ UNCHANGED <<aeDebug, admin, orig, raced, cut, app, set, handler, dlg, thr, unsaved, requests>>

-----------------------------------------------------------------------------
(* The debugger thread.                                                    *)

Thread(t) ==
  /\ app = "up" /\ thr' = t
  /\ UNCHANGED <<stored, app, set, dlg, gui>>

(* Nothing is debugged before the main window is there.                    *)
Raise(c) ==
  /\ thr.at = "run" /\ gui.for # "start" /\ Request /\ Thread([thr EXCEPT !.at = "scan", !.code = c, !.row = 1])
  /\ UNCHANGED <<handler, unsaved>>

(* The first entry of the code decides.                                    *)
ScanRow ==
  /\ thr.at = "scan" /\ thr.row \in DOMAIN handler
  /\ Thread(IF handler[thr.row].code = thr.code THEN [thr EXCEPT !.at = "run"]
            ELSE [thr EXCEPT !.row = @ + 1])
  /\ UNCHANGED <<handler, unsaved, requests>>

NotListed ==
  /\ thr.at = "scan" /\ thr.row \notin DOMAIN handler
  /\ Thread([thr EXCEPT !.at = IF set.assist /\ ~set.ignore THEN "emitted" ELSE "run"])
  /\ UNCHANGED <<handler, unsaved, requests>>

AskForException ==
  /\ Free /\ thr.at = "emitted" /\ Thread([thr EXCEPT !.at = "asking"])
  /\ UNCHANGED <<handler, unsaved, requests>>

(* closeEvent of the question; HandleForException wakes the thread.        *)
ContinueException(a, always) ==
  /\ thr.at = "asking" /\ Thread([thr EXCEPT !.at = "answered", !.answer = a, !.always = always])
  /\ UNCHANGED <<handler, unsaved, requests>>

Remember ==
  /\ thr.at = "answered"
  /\ Thread([thr EXCEPT !.at = "run"])
  /\ handler' = IF thr.always THEN Append(handler, [code |-> thr.code, action |-> thr.answer])
                ELSE handler
  /\ unsaved' = (unsaved \/ thr.always)
  /\ UNCHANGED requests

Next ==
  \/ Start \/ Exit \/ Exited \/ Killed \/ action_OptionsOptions \/ OnClose \/ OnReload
  \/ WriteSetting \/ RemoveKey \/ WriteKey \/ LoadSettings \/ LoadKey
  \/ OnSave \/ SaveRow \/ SaveDefaultJITDebugger \/ OnSetNanomiteDefault \/ OnRestoreOrg
  \/ ScanRow \/ NotListed \/ AskForException \/ Remember
  \/ \E j \in Jit : Registered(j)
  \/ \E on \in BOOLEAN : CheckSym(on) \/ CheckMSSym(on) \/ CheckAssist(on) \/ CheckIgEx(on)
  \/ \E c \in Code, a \in Action : OnInsertNewException(c, a)
  \/ \E row \in DOMAIN dlg.table : OnExceptionRemove(row)
  \/ \E c \in Code : Raise(c)
  \/ \E a \in Action, always \in BOOLEAN : ContinueException(a, always)

Spec == Init /\ [][Next]_vars

-----------------------------------------------------------------------------
(* Properties.                                                             *)

(* What the next start loads is what is in force, entry for entry and in   *)
(* the order that decides, whenever no handler runs and when one has just  *)
(* saved, unless an answer was remembered since: saving a shorter list     *)
(* leaves no entry of a longer one behind, no entry is loaded twice, and a *)
(* program killed between two keys leaves a list that later saves replace. *)
(* When it was killed with some of the old keys removed and others behind  *)
(* them left, those may come back with a later, shorter list, but only     *)
(* behind its entries, where an entry of the same code decides before.     *)
SavedIsLoaded ==
  (app = "up" /\ gui.at \in {"idle", "saved"} /\ ~unsaved) =>
    /\ reg.set = set
    /\ IsPrefix(handler, LoadedExceptions(reg))
    /\ ~cut => handler = LoadedExceptions(reg)

(* While this program is the registered debugger, the one it replaced is   *)
(* kept, however often it is registered, restored, reloaded and restarted. *)
OriginalKept ==
  (aeDebug = Nanomite /\ gui.for # "save" /\ ~raced) => reg.jit = orig
=============================================================================
