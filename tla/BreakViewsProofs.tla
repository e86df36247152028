---------------------------- MODULE BreakViewsProofs ----------------------------
(***************************************************************************)
(* The registers of a break, for any processes, threads and number of      *)
(* breaks and edits: the record is the thread's, the views show it, and    *)
(* the thread goes on with it.                                             *)
(***************************************************************************)
EXTENDS BreakViews, TLAPS

Reg   == [ip : Nat, ax : Nat, flag : BOOLEAN, tf : BOOLEAN, dr : BOOLEAN]
Width == {"wow", "x64"}

ThreadOK ==
  /\ pc \in {"run", "enter", "got", "parked", "pulsed", "left", "gone"}
  /\ cur \in Thread /\ brk \in Nat /\ spoilt \in BOOLEAN
  /\ real \in [Thread -> Reg] /\ context \in [Width -> Reg] /\ wanted \in Reg

(* No register is of a break to come.                                      *)
NotAhead ==
  /\ \A t \in Thread : real[t].ip <= brk
  /\ \A b \in Width : context[b].ip <= brk
  /\ pc = "enter" => real[cur].ip = brk /\ brk # 0
  /\ Holds /\ ~spoilt => context[Wow].ip \in {brk, 0}

(* While a thread is broken its record is what the user meant for it.      *)
RecordIsMeant == Holds /\ ~spoilt => context[Wow] = wanted

(* A dialog of this break holds the record.                                *)
DialogOK ==
  /\ dialog = None \/ hwCall = None
  /\ dialog # None =>
       /\ dialog.bits \in Width /\ dialog.at \in Nat /\ dialog.at <= brk
       /\ dialog.of \in [ip : Nat, ax : Nat, flag : BOOLEAN, tf : BOOLEAN]
       /\ dialog.of.ip <= brk
       /\ pc = "enter" => dialog.at < brk
       /\ Holds /\ dialog.at = brk => dialog.bits = Wow /\ dialog.of = FillGUI(context[Wow])

(* A call of a hardware breakpoint that is under way has the debug         *)
(* registers of its threads, or registers of an earlier break.             *)
Fresh == \A t \in Thread : Owner[t] = hwCall.process => hwCall.of[t].dr = real[t].dr
Stale ==
  \/ pc \in {"run", "left", "gone"}
  \/ pc = "enter" /\ \A t \in Thread : hwCall.of[t].ip < brk
  \/ Holds /\ (\A t \in Thread : hwCall.of[t].ip < brk) /\ (spoilt \/ context[Wow].ip = brk)
CallOK ==
  hwCall # None => /\ hwCall.process \in Process
                   /\ hwCall.of \in [Thread -> Reg] /\ \A t \in Thread : hwCall.of[t].ip <= brk
                   /\ Fresh \/ Stale

DebugRegisters ==
  (Holds /\ ~spoilt /\ (hwCall # None => Owner[cur] # hwCall.process)) => wanted.dr = real[cur].dr

RecordInv == ThreadOK /\ NotAhead /\ RecordIsMeant /\ DialogOK /\ CallOK /\ DebugRegisters

-----------------------------------------------------------------------------
LEMMA WidthOfCurrent ==
  ASSUME ThreadOK
  PROVE  /\ CurrentTID \in Thread /\ CurrentProcess \in Process /\ Wow \in Width
         /\ Wow = IF InBreak THEN Bits[Owner[cur]] ELSE Bits[Owner[First]]
BY ConstantsOK DEF ThreadOK, CurrentTID, CurrentProcess, Wow, Width

(* A record that is left alone, with pc moving inside the break or to the   *)
(* end of the session.                                                     *)
LEMMA OnlyPcMoves ==
  ASSUME RecordInv, UNCHANGED <<cur, brk, real, context, dialog, hwCall, wanted, spoilt>>,
         pc' = pc \/ (Holds /\ Holds') \/ (pc = "run" /\ pc' = "gone")
  PROVE  RecordInv'
<1>1. ThreadOK'
  BY DEF RecordInv, ThreadOK, Holds
<1>2. Holds' => Holds /\ Wow' = Wow
  BY DEF Holds, Wow, CurrentProcess, CurrentTID, InBreak
<1>3. pc' = "enter" => pc = "enter"
  BY DEF Holds
<1>4. NotAhead' /\ RecordIsMeant' /\ DebugRegisters'
  BY <1>2, <1>3 DEF RecordInv, NotAhead, RecordIsMeant, DebugRegisters
<1>5. DialogOK'
  BY <1>2, <1>3 DEF RecordInv, DialogOK
<1>6. CallOK'
  BY <1>2 DEF RecordInv, CallOK, Fresh, Stale, Holds
<1> QED
  BY <1>1, <1>4, <1>5, <1>6 DEF RecordInv

LEMMA EnterRecord == ASSUME RecordInv, NEW t \in Thread, Enter(t) PROVE RecordInv'
<1>1. ASSUME NEW x \in Thread
      PROVE  /\ real'[x] \in Reg /\ real'[x].dr = real[x].dr
             /\ real'[x].ip = IF x = t THEN brk + 1 ELSE 0
  <2>1. real'[x] = [Zero EXCEPT !.dr = real[x].dr, !.ip = IF x = t THEN brk + 1 ELSE 0,
                                !.ax = IF x = t THEN brk + 1 ELSE 0]
    BY DEF Enter
  <2>2. real[x].dr \in BOOLEAN /\ (IF x = t THEN brk + 1 ELSE 0) \in Nat
    BY DEF RecordInv, ThreadOK, Reg
  <2> QED
    BY <2>1, <2>2 DEF Reg, Zero
<1>2. /\ pc = "run" /\ pc' = "enter" /\ cur' = t /\ brk' = brk + 1 /\ brk \in Nat
      /\ DOMAIN real' = Thread /\ real' = [x \in Thread |-> real'[x]]
      /\ UNCHANGED <<context, dialog, hwCall, wanted, spoilt>>
  BY DEF Enter, RecordInv, ThreadOK
<1>3. ThreadOK'
  BY <1>1, <1>2 DEF RecordInv, ThreadOK
<1>4. NotAhead'
  BY <1>1, <1>2 DEF RecordInv, ThreadOK, NotAhead, Holds, Reg
<1>5. RecordIsMeant' /\ DebugRegisters'
  BY <1>2 DEF RecordIsMeant, DebugRegisters, Holds
<1>6. DialogOK'
  BY <1>2 DEF RecordInv, DialogOK
<1>7. CallOK'
  <2> SUFFICES ASSUME hwCall # None
               PROVE  /\ hwCall.process \in Process /\ hwCall.of \in [Thread -> Reg]
                      /\ \A x \in Thread : hwCall.of[x].ip <= brk + 1 /\ hwCall.of[x].ip < brk + 1
    BY <1>2 DEF CallOK, Stale
  <2> QED
    BY <1>2 DEF RecordInv, CallOK, Reg
<1> QED
  BY <1>3, <1>4, <1>5, <1>6, <1>7 DEF RecordInv

LEMMA GetContextRecord == ASSUME RecordInv, GetContext PROVE RecordInv'
<1>1. /\ pc = "enter" /\ pc' = "got" /\ Wow' = Wow /\ Wow \in Width /\ ~spoilt'
      /\ context' = [context EXCEPT ![Wow] = real[cur]] /\ wanted' = real[cur]
      /\ UNCHANGED <<cur, brk, real, dialog, hwCall>>
  BY WidthOfCurrent DEF GetContext, RecordInv, Wow, CurrentProcess, CurrentTID, InBreak
<1>2. ThreadOK'
  BY <1>1 DEF GetContext, RecordInv, ThreadOK
<1>3. NotAhead' /\ RecordIsMeant' /\ DebugRegisters'
  BY <1>1 DEF RecordInv, ThreadOK, NotAhead, RecordIsMeant, DebugRegisters
<1>4. DialogOK'
  BY <1>1 DEF RecordInv, ThreadOK, DialogOK
<1>5. CallOK'
  BY <1>1 DEF RecordInv, ThreadOK, NotAhead, CallOK, Fresh, Stale, Holds
<1> QED
  BY <1>2, <1>3, <1>4, <1>5 DEF RecordInv

LEMMA SetContextRecord == ASSUME RecordInv, SetContext PROVE RecordInv'
<1>1. /\ pc' = "left" /\ Wow \in Width /\ spoilt' = FALSE /\ wanted' = Zero
      /\ real' = [real EXCEPT ![cur] = context[Wow]]
      /\ UNCHANGED <<cur, brk, context, dialog, hwCall>>
  BY WidthOfCurrent DEF SetContext, RecordInv
<1>2. ThreadOK'
  BY <1>1, ConstantsOK DEF RecordInv, ThreadOK, Zero, Reg
<1>3. NotAhead'
  BY <1>1 DEF RecordInv, NotAhead, Holds
<1>4. RecordIsMeant' /\ DebugRegisters'
  BY <1>1 DEF RecordIsMeant, DebugRegisters, Holds
<1>5. DialogOK'
  BY <1>1 DEF RecordInv, DialogOK, Holds
<1>6. CallOK'
  BY <1>1 DEF RecordInv, CallOK, Stale
<1> QED
  BY <1>2, <1>3, <1>4, <1>5, <1>6 DEF RecordInv

LEMMA BreakOverRecord == ASSUME RecordInv, BreakOver PROVE RecordInv'
<1>1. /\ pc = "left" /\ pc' = "run" /\ cur' = First
      /\ UNCHANGED <<brk, real, context, dialog, hwCall, wanted, spoilt>>
  BY DEF BreakOver
<1> QED
  BY <1>1, ConstantsOK DEF RecordInv, ThreadOK, NotAhead, RecordIsMeant, DialogOK, CallOK, Fresh,
     Stale, DebugRegisters, Holds

LEMMA OnExitRecord == ASSUME RecordInv, OnExit PROVE RecordInv'
<1>1. dialog' = None /\ UNCHANGED <<pc, cur, brk, real, context, hwCall, wanted, spoilt>>
  BY DEF OnExit, thread
<1>2. Wow' = Wow
  BY <1>1 DEF Wow, CurrentProcess, CurrentTID, InBreak
<1> QED
  BY <1>1, <1>2 DEF RecordInv, ThreadOK, NotAhead, RecordIsMeant, DialogOK, CallOK, Fresh,
     Stale, DebugRegisters, Holds

LEMMA StepInRecord == ASSUME RecordInv, StepIn PROVE RecordInv'
<1>1. /\ Wow \in Width /\ context \in [Width -> Reg] /\ wanted \in Reg
      /\ hwCall = None /\ dialog = None /\ context' = [context EXCEPT ![Wow].tf = TRUE]
      /\ wanted' = IF Holds THEN [wanted EXCEPT !.tf = TRUE] ELSE wanted
      /\ UNCHANGED <<cur, brk, real, dialog, hwCall>>
      /\ pc' = IF pc = "parked" THEN "pulsed" ELSE pc
      /\ spoilt' = (spoilt \/ pc = "got")
  BY WidthOfCurrent DEF StepIn, User, Idle, Meant, Pulse, RecordInv, ThreadOK
<1>2. Wow' = Wow
  BY <1>1 DEF Wow, CurrentProcess, CurrentTID, InBreak
<1>3. \A r \in Reg : /\ [r EXCEPT !.tf = TRUE] \in Reg /\ [r EXCEPT !.tf = TRUE].ip = r.ip
                     /\ [r EXCEPT !.tf = TRUE].dr = r.dr
  BY DEF Reg
<1>4. /\ \A b \in Width : context'[b] = IF b = Wow THEN [context[b] EXCEPT !.tf = TRUE] ELSE context[b]
      /\ context' = [b \in Width |-> context'[b]]
  BY <1>1
<1>5. (Holds' <=> Holds) /\ (~spoilt' => ~spoilt) /\ (pc' = "enter" => pc = "enter")
  <2>1. CASE pc = "parked"
    BY <1>1, <2>1 DEF Holds
  <2>2. CASE pc # "parked"
    BY <1>1, <2>2 DEF Holds
  <2>3. ~spoilt' => ~spoilt
    BY <1>1 DEF RecordInv, ThreadOK
  <2> QED
    BY <2>1, <2>2, <2>3
<1>6. ThreadOK'
  BY <1>1, <1>3, <1>4 DEF RecordInv, ThreadOK
<1>7. NotAhead' /\ RecordIsMeant' /\ DebugRegisters'
  BY <1>1, <1>2, <1>3, <1>4, <1>5 DEF RecordInv, NotAhead, RecordIsMeant, DebugRegisters
<1>8. DialogOK' /\ CallOK'
  BY <1>1 DEF DialogOK, CallOK
<1> QED
  BY <1>6, <1>7, <1>8 DEF RecordInv

LEMMA ToggleFlagRecord == ASSUME RecordInv, ToggleFlag PROVE RecordInv'
<1>1. /\ Wow \in Width /\ Wow' = Wow /\ context \in [Width -> Reg] /\ wanted \in Reg
      /\ hwCall = None /\ dialog = None /\ context' = [context EXCEPT ![Wow] = SetEFlag(context[Wow])]
      /\ wanted' = IF Holds THEN SetEFlag(wanted) ELSE wanted
      /\ UNCHANGED <<pc, cur, brk, real, dialog, hwCall, spoilt>>
  BY WidthOfCurrent DEF ToggleFlag, thread, User, Idle, Meant, RecordInv, ThreadOK, CurrentTID,
     CurrentProcess, Wow, InBreak
<1>2. \A r \in Reg : /\ SetEFlag(r) \in Reg /\ SetEFlag(r).ip = r.ip /\ SetEFlag(r).dr = r.dr
  BY DEF Reg, SetEFlag
<1>3. ThreadOK'
  BY <1>1, <1>2 DEF RecordInv, ThreadOK
<1>4. NotAhead'
  BY <1>1, <1>2 DEF RecordInv, NotAhead, Holds
<1>5. RecordIsMeant' /\ DebugRegisters'
  BY <1>1, <1>2 DEF RecordInv, RecordIsMeant, DebugRegisters, Holds
<1>6. DialogOK' /\ CallOK'
  BY <1>1 DEF DialogOK, CallOK
<1> QED
  BY <1>3, <1>4, <1>5, <1>6 DEF RecordInv

LEMMA SetIPRecord == ASSUME RecordInv, SetIP PROVE RecordInv'
<1>1. /\ Wow \in Width /\ Wow' = Wow /\ context \in [Width -> Reg] /\ wanted \in Reg
      /\ hwCall = None /\ dialog = None /\ context' = [context EXCEPT ![Wow].ip = 0]
      /\ wanted' = IF Holds THEN [wanted EXCEPT !.ip = 0] ELSE wanted
      /\ UNCHANGED <<pc, cur, brk, real, dialog, hwCall, spoilt>>
  BY WidthOfCurrent DEF SetIP, thread, User, Idle, Meant, RecordInv, ThreadOK, CurrentTID,
     CurrentProcess, Wow, InBreak
<1>2. /\ \A b \in Width : context'[b] = IF b = Wow THEN [context[b] EXCEPT !.ip = 0] ELSE context[b]
      /\ context' = [b \in Width |-> context'[b]]
  BY <1>1
<1>3. \A r \in Reg : /\ [r EXCEPT !.ip = 0] \in Reg /\ [r EXCEPT !.ip = 0].ip = 0
                     /\ [r EXCEPT !.ip = 0].dr = r.dr
  BY DEF Reg
<1>4. ThreadOK'
  BY <1>1, <1>2, <1>3 DEF RecordInv, ThreadOK
<1>5. NotAhead'
  BY <1>1, <1>2, <1>3 DEF RecordInv, ThreadOK, NotAhead
<1>6. RecordIsMeant' /\ DebugRegisters'
  BY <1>1, <1>2, <1>3 DEF RecordInv, RecordIsMeant, DebugRegisters, Holds
<1>7. DialogOK' /\ CallOK'
  BY <1>1 DEF DialogOK, CallOK
<1> QED
  BY <1>4, <1>5, <1>6, <1>7 DEF RecordInv

LEMMA OnChangeRequestRecord == ASSUME RecordInv, OnChangeRequest PROVE RecordInv'
<1>1. /\ Wow \in Width /\ Wow' = Wow /\ context \in [Width -> Reg] /\ hwCall = None
      /\ dialog' = [bits |-> Wow, of |-> FillGUI(context[Wow]), at |-> IF Holds THEN brk ELSE 0]
      /\ UNCHANGED <<pc, cur, brk, real, context, hwCall, wanted, spoilt>>
      /\ brk \in Nat
  BY WidthOfCurrent DEF OnChangeRequest, thread, User, Idle, RecordInv, ThreadOK, Edited,
     CurrentTID, CurrentProcess, Wow, InBreak
<1>2. ThreadOK' /\ NotAhead' /\ RecordIsMeant' /\ CallOK' /\ DebugRegisters'
  BY <1>1 DEF RecordInv, ThreadOK, NotAhead, RecordIsMeant, CallOK, DebugRegisters, Holds
<1>3. /\ FillGUI(context[Wow]) \in [ip : Nat, ax : Nat, flag : BOOLEAN, tf : BOOLEAN]
      /\ FillGUI(context[Wow]).ip <= brk
  BY <1>1 DEF FillGUI, Reg, RecordInv, NotAhead
<1>4. pc = "enter" => dialog'.at < brk
  <2>1. pc = "enter" => brk # 0
    BY DEF RecordInv, NotAhead
  <2> QED
    BY <1>1, <2>1 DEF Holds, InBreak
<1>5. DialogOK'
  BY <1>1, <1>3, <1>4 DEF DialogOK, Holds, InBreak
<1> QED
  BY <1>2, <1>5 DEF RecordInv

LEMMA OnSaveAndExitRecord == ASSUME RecordInv, OnSaveAndExit PROVE RecordInv'
<1>1. /\ Wow \in Width /\ Wow' = Wow /\ context \in [Width -> Reg] /\ wanted \in Reg /\ brk \in Nat
      /\ dialog # None /\ hwCall = None /\ dialog' = None
      /\ UNCHANGED <<pc, cur, brk, real, hwCall>>
  BY WidthOfCurrent DEF OnSaveAndExit, thread, RecordInv, ThreadOK, DialogOK, CurrentTID,
     CurrentProcess, Wow, InBreak
<1>2. /\ dialog.bits \in Width /\ dialog.of.ip \in Nat /\ dialog.of.ax \in Nat
      /\ dialog.of.flag \in BOOLEAN /\ dialog.of.tf \in BOOLEAN /\ dialog.of.ip <= brk
  BY <1>1 DEF RecordInv, DialogOK
<1>3. PICK typed \in BOOLEAN :
       LET of    == dialog.of
           value == IF typed THEN 0 ELSE of.ax
           saved == [context[dialog.bits] EXCEPT !.ip = of.ip, !.ax = value, !.flag = of.flag,
                                                 !.tf = of.tf]
       IN  /\ context' = [context EXCEPT ![dialog.bits] = saved]
           /\ IF Holds /\ dialog.at = brk
              THEN wanted' = [wanted EXCEPT !.ax = value] /\ UNCHANGED spoilt
              ELSE spoilt' = Holds /\ UNCHANGED wanted
  BY DEF OnSaveAndExit
<1> DEFINE value == IF typed THEN 0 ELSE dialog.of.ax
           saved == [context[dialog.bits] EXCEPT !.ip = dialog.of.ip, !.ax = value,
                       !.flag = dialog.of.flag, !.tf = dialog.of.tf]
<1>4. value \in Nat /\ saved \in Reg /\ saved.ip = dialog.of.ip
  BY <1>1, <1>2 DEF Reg
<1>5. context' = [context EXCEPT ![dialog.bits] = saved]
  BY <1>3
<1>6. /\ Holds /\ dialog.at = brk => wanted' = [wanted EXCEPT !.ax = value] /\ spoilt' = spoilt
      /\ ~(Holds /\ dialog.at = brk) => spoilt' = Holds /\ wanted' = wanted
  BY <1>3
<1>7. [wanted EXCEPT !.ax = value] \in Reg /\ [wanted EXCEPT !.ax = value].dr = wanted.dr
  BY <1>1, <1>4 DEF Reg
<1>8. ThreadOK'
  <2>1. spoilt' \in BOOLEAN
    <3>1. (Holds /\ dialog.at = brk) \/ ~(Holds /\ dialog.at = brk)
      OBVIOUS
    <3>2. spoilt \in BOOLEAN /\ Holds \in BOOLEAN
      BY DEF RecordInv, ThreadOK, Holds
    <3> QED
      BY <1>6, <3>1, <3>2
  <2>2. context' \in [Width -> Reg] /\ wanted' \in Reg
    BY <1>1, <1>2, <1>4, <1>5, <1>6, <1>7
  <2> QED
    BY <1>1, <2>1, <2>2 DEF RecordInv, ThreadOK
<1>9. Holds /\ ~spoilt' => /\ dialog.bits = Wow /\ dialog.of = FillGUI(context[Wow])
                          /\ ~spoilt /\ wanted' = [wanted EXCEPT !.ax = value]
  BY <1>1, <1>6 DEF RecordInv, DialogOK
<1>10. NotAhead'
  <2>1. \A b \in Width : context'[b].ip <= brk
    BY <1>1, <1>2, <1>4, <1>5 DEF RecordInv, NotAhead
  <2>2. Holds /\ ~spoilt' => context'[Wow].ip \in {brk, 0}
    BY <1>1, <1>4, <1>5, <1>9 DEF RecordInv, NotAhead, FillGUI
  <2> QED
    BY <1>1, <2>1, <2>2 DEF RecordInv, NotAhead, Holds
<1>11. RecordIsMeant'
  <2>1. Holds /\ ~spoilt' => saved = [context[Wow] EXCEPT !.ax = value]
    <3> SUFFICES ASSUME Holds, ~spoilt' PROVE saved = [context[Wow] EXCEPT !.ax = value]
      OBVIOUS
    <3>1. \A r \in Reg : [r EXCEPT !.ip = r.ip, !.ax = value, !.flag = r.flag, !.tf = r.tf]
                           = [r EXCEPT !.ax = value]
      BY DEF Reg
    <3>2. /\ dialog.of.ip = context[Wow].ip /\ dialog.of.flag = context[Wow].flag
          /\ dialog.of.tf = context[Wow].tf
      BY <1>9 DEF FillGUI
    <3> QED
      BY <1>1, <1>9, <3>1, <3>2
  <2>2. Holds /\ ~spoilt' => context'[Wow] = wanted'
    BY <1>1, <1>5, <1>9, <2>1 DEF RecordInv, RecordIsMeant
  <2> QED
    BY <1>1, <2>2 DEF RecordIsMeant, Holds, InBreak
<1>12. DialogOK' /\ CallOK'
  BY <1>1 DEF DialogOK, CallOK
<1>13. DebugRegisters'
  BY <1>1, <1>7, <1>9 DEF RecordInv, DebugRegisters, Holds
<1> QED
  BY <1>8, <1>10, <1>11, <1>12, <1>13 DEF RecordInv

LEMMA HardwareBPRecord ==
  ASSUME RecordInv, NEW p \in Process, NEW on \in BOOLEAN, HardwareBP(p, on) PROVE RecordInv'
<1>1. /\ hwCall = None /\ dialog = None /\ hwCall' = [process |-> p, of |-> real']
      /\ UNCHANGED <<pc, cur, brk, context, dialog, wanted, spoilt>>
  BY DEF HardwareBP, User, Idle
<1>2. /\ real' = [t \in Thread |-> real'[t]]
      /\ \A t \in Thread : real'[t] = IF Owner[t] = p THEN [real[t] EXCEPT !.dr = on] ELSE real[t]
  BY DEF HardwareBP
<1>3. \A r \in Reg : [r EXCEPT !.dr = on] \in Reg /\ [r EXCEPT !.dr = on].ip = r.ip
  BY DEF Reg
<1>4. hwCall' # None
  BY <1>1 DEF None
<1>5. ThreadOK'
  BY <1>1, <1>2, <1>3 DEF RecordInv, ThreadOK
<1>6. Wow' = Wow /\ Holds' = Holds
  BY <1>1 DEF Wow, CurrentProcess, CurrentTID, InBreak, Holds
<1>7. NotAhead'
  <2>1. \A t \in Thread : real'[t].ip = real[t].ip
    BY <1>2, <1>3 DEF RecordInv, ThreadOK
  <2> QED
    BY <1>1, <1>6, <2>1 DEF RecordInv, ThreadOK, NotAhead
<1>8. RecordIsMeant' /\ DialogOK'
  BY <1>1, <1>6 DEF RecordInv, RecordIsMeant, DialogOK
<1>9. CallOK'
  BY <1>1, <1>5, <1>7 DEF ThreadOK, NotAhead, CallOK, Fresh
<1>10. DebugRegisters'
  BY <1>1, <1>2, <1>4, <1>6 DEF RecordInv, ThreadOK, DebugRegisters
<1> QED
  BY <1>5, <1>7, <1>8, <1>9, <1>10 DEF RecordInv

LEMMA SetNewThreadContextRecord == ASSUME RecordInv, SetNewThreadContext PROVE RecordInv'
<1> DEFINE new == hwCall.of[CurrentTID]
<1>1. /\ hwCall # None /\ hwCall' = None /\ dialog = None
      /\ UNCHANGED <<pc, cur, brk, real, dialog>>
  BY DEF SetNewThreadContext, thread, RecordInv, DialogOK
<1>2. /\ Wow' = Wow /\ Holds' = Holds /\ Wow = Bits[Owner[CurrentTID]]
      /\ CurrentTID \in Thread /\ Wow \in Width
      /\ Holds => CurrentTID = cur
  BY <1>1, WidthOfCurrent DEF RecordInv, Wow, CurrentProcess, CurrentTID, InBreak, Holds
<1>3. new \in Reg /\ new.ip <= brk
  BY <1>1, <1>2 DEF RecordInv, CallOK
<1>4. CASE Owner[CurrentTID] = hwCall.process
  <2>1. /\ context' = [context EXCEPT ![Wow] = new]
        /\ wanted' = IF Holds THEN [wanted EXCEPT !.dr = new.dr] ELSE wanted
        /\ spoilt' = (spoilt \/ (Holds /\ new # [context[Wow] EXCEPT !.dr = new.dr]))
    BY <1>2, <1>4 DEF SetNewThreadContext, Meant
  <2>2. context \in [Width -> Reg] /\ wanted \in Reg /\ brk \in Nat /\ new.dr \in BOOLEAN
    BY <1>3 DEF RecordInv, ThreadOK, Reg
  <2>3. [wanted EXCEPT !.dr = new.dr] \in Reg /\ [wanted EXCEPT !.dr = new.dr].dr = new.dr
    BY <2>2 DEF Reg
  <2>4. Holds /\ ~spoilt' => ~spoilt /\ new = [context[Wow] EXCEPT !.dr = new.dr] /\ new.ip = context[Wow].ip
    BY <2>1, <2>2, <1>2 DEF Reg
  <2>5. ThreadOK'
    BY <1>1, <1>3, <2>1, <2>2, <2>3 DEF RecordInv, ThreadOK, Holds
  <2>6. NotAhead'
    BY <1>1, <1>2, <1>3, <2>1, <2>2, <2>4 DEF RecordInv, NotAhead
  <2>7. RecordIsMeant'
    BY <1>1, <1>2, <2>1, <2>2, <2>4 DEF RecordInv, RecordIsMeant
  <2>8. Holds /\ ~spoilt' => new.dr = real[cur].dr
    <3>1. Fresh => (Holds => new.dr = real[cur].dr)
      BY <1>2, <1>4 DEF Fresh
    <3>2. Stale /\ Holds => spoilt'
      BY <1>2, <1>3, <2>2, <2>4 DEF Stale, Holds, Reg
    <3> QED
      BY <1>1, <3>1, <3>2 DEF RecordInv, CallOK
  <2>9. DebugRegisters'
    BY <1>1, <1>2, <2>1, <2>3, <2>8 DEF DebugRegisters
  <2> QED
    BY <1>1, <2>5, <2>6, <2>7, <2>9 DEF RecordInv, DialogOK, CallOK
<1>5. CASE Owner[CurrentTID] # hwCall.process
  <2>1. UNCHANGED <<context, wanted, spoilt>>
    BY <1>5 DEF SetNewThreadContext
  <2>2. DebugRegisters'
    BY <1>1, <1>2, <1>5, <2>1 DEF RecordInv, DebugRegisters
  <2> QED
    BY <1>1, <1>2, <2>1, <2>2
    DEF RecordInv, ThreadOK, NotAhead, RecordIsMeant, DialogOK, CallOK
<1> QED
  BY <1>4, <1>5

LEMMA NextRecord == RecordInv /\ [Next]_vars => RecordInv'
<1> SUFFICES ASSUME RecordInv, [Next]_vars PROVE RecordInv'
  OBVIOUS
<1>1. CASE UNCHANGED vars
  BY <1>1, OnlyPcMoves DEF vars, thread
<1>2. CASE CallBreakDebugger
  <2>1. CASE Wait \/ Terminated
    BY <2>1, OnlyPcMoves DEF Wait, Terminated, Holds
  <2> QED
    BY <1>2, <2>1, EnterRecord, GetContextRecord, SetContextRecord,
       BreakOverRecord DEF CallBreakDebugger
<1>3. CASE Worker
  BY <1>3, OnlyPcMoves DEF Worker, Walk, Walked, thread
<1>4. CASE Gui
  <2>1. CASE Deliver \/ OnStackScroll
    BY <2>1, OnlyPcMoves DEF Deliver, OnStackScroll, thread
  <2>2. CASE ResumeDebugging
    BY <2>2, OnlyPcMoves DEF ResumeDebugging, Pulse, Holds
  <2> QED
    BY <1>4, <2>1, <2>2, ToggleFlagRecord, SetIPRecord, OnChangeRequestRecord, OnSaveAndExitRecord,
       OnExitRecord, StepInRecord, SetNewThreadContextRecord, HardwareBPRecord DEF Gui
<1> QED
  BY <1>1, <1>2, <1>3, <1>4 DEF Next

LEMMA InitRecord == Init => RecordInv
<1> SUFFICES ASSUME Init PROVE RecordInv
  OBVIOUS
<1>1. Zero \in Reg /\ Zero.ip = 0
  BY DEF Zero, Reg
<1>2. ThreadOK
  BY <1>1, ConstantsOK DEF Init, ThreadOK, Width
<1>3. NotAhead
  BY <1>1 DEF Init, NotAhead, Holds, Width
<1>4. RecordIsMeant /\ DialogOK /\ CallOK /\ DebugRegisters
  BY DEF Init, RecordIsMeant, DialogOK, CallOK, DebugRegisters, Holds
<1> QED
  BY <1>2, <1>3, <1>4 DEF RecordInv

LEMMA OnlySetContextLeaves == ASSUME Next, pc = "pulsed", pc' = "left" PROVE SetContext
<1>1. ~Gui
  BY DEF Gui, Deliver, ToggleFlag, SetIP, OnStackScroll, OnChangeRequest, OnSaveAndExit, OnExit,
     ResumeDebugging, StepIn, SetNewThreadContext, HardwareBP, Pulse, thread
<1>2. ~Worker
  BY DEF Worker, Walk, Walked, thread
<1> QED
  BY <1>1, <1>2 DEF Next, CallBreakDebugger, Enter, GetContext, Wait, BreakOver, Terminated

(* A thread goes on with the registers it had at the break and what the    *)
(* user changed during that break.                                         *)
THEOREM EditsArrive == Spec => EditsReachTheThread
<1>1. ASSUME RecordInv, [Next]_vars
      PROVE  [pc = "pulsed" /\ pc' = "left" /\ ~spoilt /\ hwCall = None => real'[cur] = wanted]_vars
  <2> SUFFICES ASSUME Next, pc = "pulsed", pc' = "left", ~spoilt PROVE real'[cur] = wanted
    BY <1>1
  <2>1. SetContext
    BY OnlySetContextLeaves
  <2>2. context[Wow] = wanted /\ cur \in Thread /\ real \in [Thread -> Reg]
    BY <1>1 DEF RecordInv, RecordIsMeant, ThreadOK, Holds
  <2> QED
    BY <2>1, <2>2 DEF SetContext
<1> QED
  BY <1>1, InitRecord, NextRecord, PTL DEF Spec, EditsReachTheThread

(* And its debug registers are those that were set, also during the break. *)
THEOREM HardwareKept == Spec => HardwareStays
<1>1. ASSUME RecordInv, [Next]_vars
      PROVE  [pc = "pulsed" /\ pc' = "left" /\ ~spoilt /\ hwCall = None
                => real'[cur].dr = real[cur].dr]_vars
  <2> SUFFICES ASSUME Next, pc = "pulsed", pc' = "left", ~spoilt, hwCall = None
               PROVE  real'[cur].dr = real[cur].dr
    BY <1>1
  <2>1. SetContext
    BY OnlySetContextLeaves
  <2>2. /\ context[Wow] = wanted /\ wanted.dr = real[cur].dr
        /\ cur \in Thread /\ real \in [Thread -> Reg]
    BY <1>1 DEF RecordInv, RecordIsMeant, DebugRegisters, ThreadOK, Holds
  <2> QED
    BY <2>1, <2>2 DEF SetContext
<1> QED
  BY <1>1, InitRecord, NextRecord, PTL DEF Spec, HardwareStays

-----------------------------------------------------------------------------
(* The views.                                                              *)

Data   == [process : Process, thread : Thread, ip : Nat]
Signal == [sig : {"OnDebuggerBreak", "OnDebuggerTerminated"}]
          \cup [sig : {"OnCallstackFinished"}, ip : Nat, thread : Thread, process : Process]

Unsaid(q, sig) == \A i \in DOMAIN q : q[i].sig # sig

(* What is queued for the GUI thread, and the walks of the call stack.     *)
QueueOK ==
  /\ queue \in Seq(Signal) /\ walks \in Seq({Queued} \cup Data)
  /\ walks # <<>> => data \in Data
  /\ pc # "gone" => Unsaid(queue, "OnDebuggerTerminated")

(* The tables show the record from the delivery of OnDebuggerBreak until   *)
(* the thread is resumed.                                                  *)
Delivered  == pc \in {"got", "parked"} /\ ~spoilt /\ Unsaid(queue, "OnDebuggerBreak")
TablesShow == Delivered => regs = LoadRegView(context) /\ stack = Wow

LEMMA AppendSignal ==
  ASSUME NEW q \in Seq(Signal), NEW e \in Signal
  PROVE  /\ Append(q, e) \in Seq(Signal)
         /\ \A s : Unsaid(Append(q, e), s) <=> Unsaid(q, s) /\ e.sig # s
<1>1. Append(q, e) \in Seq(Signal)
  OBVIOUS
<1>2. ASSUME NEW s PROVE Unsaid(Append(q, e), s) <=> Unsaid(q, s) /\ e.sig # s
  <2>1. /\ Len(Append(q, e)) = Len(q) + 1 /\ Append(q, e)[Len(q) + 1] = e
        /\ \A i \in 1 .. Len(q) : Append(q, e)[i] = q[i]
        /\ DOMAIN q = 1 .. Len(q) /\ DOMAIN Append(q, e) = 1 .. Len(q) + 1 /\ Len(q) \in Nat
    OBVIOUS
  <2> QED
    BY <2>1 DEF Unsaid
<1> QED
  BY <1>1, <1>2

LEMMA TailSignal ==
  ASSUME NEW q \in Seq(Signal), q # <<>>
  PROVE  /\ Head(q) \in Signal /\ Tail(q) \in Seq(Signal)
         /\ \A s : Unsaid(q, s) <=> Unsaid(Tail(q), s) /\ Head(q).sig # s
<1>1. Head(q) \in Signal /\ Tail(q) \in Seq(Signal)
  OBVIOUS
<1>2. ASSUME NEW s PROVE Unsaid(q, s) <=> Unsaid(Tail(q), s) /\ Head(q).sig # s
  <2>1. /\ Len(q) \in Nat \ {0} /\ Len(Tail(q)) = Len(q) - 1 /\ Head(q) = q[1]
        /\ \A i \in 1 .. Len(q) - 1 : Tail(q)[i] = q[i + 1]
        /\ DOMAIN q = 1 .. Len(q) /\ DOMAIN Tail(q) = 1 .. Len(q) - 1
    OBVIOUS
  <2>2. Unsaid(q, s) => Unsaid(Tail(q), s) /\ Head(q).sig # s
    BY <2>1 DEF Unsaid
  <2>3. ASSUME Unsaid(Tail(q), s), Head(q).sig # s PROVE Unsaid(q, s)
    <3> SUFFICES ASSUME NEW i \in 1 .. Len(q) PROVE q[i].sig # s
      BY <2>1 DEF Unsaid
    <3>1. CASE i = 1
      BY <2>1, <2>3, <3>1
    <3>2. CASE i # 1
      <4>1. i - 1 \in 1 .. Len(q) - 1
        BY <2>1, <3>2
      <4>2. Tail(q)[i - 1] = q[i]
        BY <2>1, <4>1
      <4> QED
        BY <2>1, <2>3, <4>1, <4>2 DEF Unsaid
    <3> QED
      BY <3>1, <3>2
  <2> QED
    BY <2>2, <2>3
<1> QED
  BY <1>1, <1>2

(* setCallstackData gives the worker a break and queues a walk.            *)
LEMMA CallStackShown ==
  ASSUME RecordInv, QueueOK, NEW ctx \in [Width -> Reg], ShowCallStack(ctx)
  PROVE  data' \in Data /\ walks' \in Seq({Queued} \cup Data)
<1>1. CurrentTID \in Thread /\ CurrentProcess \in Process /\ Wow \in Width
  BY WidthOfCurrent DEF RecordInv
<1>2. data' \in Data
  BY <1>1 DEF ShowCallStack, Data, Reg
<1>3. walks' \in Seq({Queued} \cup Data)
  BY DEF ShowCallStack, QueueOK
<1> QED
  BY <1>2, <1>3

LEMMA DebuggerQueue == ASSUME RecordInv, QueueOK, TablesShow, CallBreakDebugger PROVE QueueOK' /\ TablesShow'
<1>1. CASE \E t \in Thread : Enter(t)
  BY <1>1 DEF Enter, worker, QueueOK, TablesShow, Delivered
<1>2. CASE GetContext
  <2>1. [sig |-> "OnDebuggerBreak"] \in Signal
    BY DEF Signal
  <2> QED
    BY <1>2, <2>1, AppendSignal DEF GetContext, worker, QueueOK, TablesShow, Delivered
<1>3. CASE Wait
  BY <1>3 DEF Wait, worker, views, QueueOK, TablesShow, Delivered, LoadRegView, Wow,
     CurrentProcess, CurrentTID, InBreak
<1>4. CASE SetContext \/ BreakOver
  BY <1>4 DEF SetContext, BreakOver, worker, QueueOK, TablesShow, Delivered
<1>5. CASE Terminated
  <2>1. [sig |-> "OnDebuggerTerminated"] \in Signal
    BY DEF Signal
  <2> QED
    BY <1>5, <2>1, AppendSignal DEF Terminated, worker, QueueOK, TablesShow, Delivered
<1> QED
  BY <1>1, <1>2, <1>3, <1>4, <1>5 DEF CallBreakDebugger

LEMMA WorkerQueue == ASSUME RecordInv, QueueOK, TablesShow, Worker PROVE QueueOK' /\ TablesShow'
<1>1. PICK i \in DOMAIN walks : Walk(i) \/ Walked(i)
  BY DEF Worker
<1>2. /\ walks \in Seq({Queued} \cup Data) /\ walks # <<>> /\ data \in Data
      /\ i \in 1 .. Len(walks)
  BY <1>1 DEF QueueOK
<1>3. UNCHANGED <<thread, context, views, spoilt, data>>
  BY <1>1 DEF Walk, Walked
<1>4. CASE Walk(i)
  BY <1>2, <1>3, <1>4 DEF Walk, thread, views, QueueOK, TablesShow, Delivered, LoadRegView, Wow,
     CurrentProcess, CurrentTID, InBreak
<1>5. CASE Walked(i)
  <2> DEFINE e == [sig |-> "OnCallstackFinished", ip |-> walks[i].ip,
                   thread |-> walks[i].thread, process |-> data.process]
  <2>1. e \in Signal
    <3>1. walks[i] \in Data
      BY <1>2, <1>5 DEF Walked
    <3> QED
      BY <1>2, <3>1 DEF Data, Signal
  <2>2. walks' \in Seq({Queued} \cup Data)
    BY <1>2, <1>5 DEF Walked, RemoveAt
  <2>3. /\ queue' \in Seq(Signal)
        /\ \A s : s # "OnCallstackFinished" => (Unsaid(queue', s) <=> Unsaid(queue, s))
    BY <1>5, <2>1, AppendSignal DEF Walked, QueueOK
  <2>4. QueueOK'
    BY <1>2, <1>3, <2>2, <2>3 DEF thread, QueueOK
  <2>5. TablesShow'
    BY <1>3, <2>3 DEF thread, views, TablesShow, Delivered, LoadRegView, Wow, CurrentProcess,
       CurrentTID, InBreak
  <2> QED
    BY <2>4, <2>5
<1> QED
  BY <1>1, <1>4, <1>5

LEMMA DeliverQueue == ASSUME RecordInv, QueueOK, TablesShow, Deliver PROVE QueueOK' /\ TablesShow'
<1> DEFINE e == Head(queue)
<1>1. /\ queue # <<>> /\ queue' = Tail(queue) /\ UNCHANGED <<thread, context, spoilt>>
  BY DEF Deliver
<1>2. /\ e \in Signal /\ queue' \in Seq(Signal)
      /\ \A s : Unsaid(queue, s) <=> Unsaid(queue', s) /\ e.sig # s
  BY <1>1, TailSignal DEF QueueOK
<1>3. e.sig \in {"OnDebuggerBreak", "OnDebuggerTerminated", "OnCallstackFinished"}
  BY <1>2 DEF Signal
<1>4. Wow' = Wow /\ (LoadRegView(context))' = LoadRegView(context)
  BY <1>1 DEF thread, LoadRegView, Wow, CurrentProcess, CurrentTID, InBreak
<1>5. pc' = pc /\ (pc # "gone" => e.sig # "OnDebuggerTerminated" /\ Unsaid(queue', "OnDebuggerTerminated"))
  BY <1>1, <1>2 DEF QueueOK, thread
<1>6. CASE e.sig = "OnDebuggerBreak"
  <2>1. OnDebuggerBreak(context)
    BY <1>6 DEF Deliver
  <2>2. context \in [Width -> Reg]
    BY DEF RecordInv, ThreadOK
  <2>3. CASE Live
    BY <2>1, <2>2, <2>3, <1>1, <1>2, <1>4, <1>5, CallStackShown
    DEF OnDebuggerBreak, LoadStackView, QueueOK, TablesShow
  <2>4. CASE ~Live
    BY <2>1, <2>4, <1>1, <1>2, <1>5 DEF OnDebuggerBreak, Live, worker, QueueOK, TablesShow,
       Delivered
  <2> QED
    BY <2>3, <2>4
<1>7. CASE e.sig = "OnDebuggerTerminated"
  BY <1>1, <1>2, <1>5, <1>7 DEF Deliver, worker, QueueOK, TablesShow, Delivered
<1>8. CASE e.sig = "OnCallstackFinished"
  <2>1. UNCHANGED <<regs, stack, data, walks>>
    BY <1>8 DEF Deliver, OnCallstack, worker
  <2>2. QueueOK'
    BY <1>2, <1>5, <2>1 DEF QueueOK
  <2>3. Delivered' => Delivered
    BY <1>1, <1>2, <1>8 DEF thread, Delivered
  <2> QED
    BY <1>4, <2>1, <2>2, <2>3 DEF TablesShow
<1> QED
  BY <1>3, <1>6, <1>7, <1>8

LEMMA GuiQueue ==
  ASSUME RecordInv, QueueOK, TablesShow, Gui, ~Deliver
  PROVE  QueueOK' /\ TablesShow'
<1>1. CASE ToggleFlag
  <2>1. UNCHANGED <<pc, queue, stack, worker, spoilt>> /\ Wow' = Wow /\ regs' = (LoadRegView(context))'
    BY <1>1 DEF ToggleFlag, thread, LoadRegView, Wow, CurrentProcess, CurrentTID, InBreak
  <2> QED
    BY <2>1 DEF QueueOK, TablesShow, Delivered, worker
<1>2. CASE SetIP
  <2>1. /\ UNCHANGED <<pc, queue, spoilt>> /\ Wow' = Wow /\ regs' = (LoadRegView(context))'
        /\ stack' = Wow /\ ShowCallStack(context')
    BY <1>2 DEF SetIP, User, OnDebuggerBreak, LoadStackView, thread, LoadRegView, Wow,
       CurrentProcess, CurrentTID, InBreak
  <2>2. context' \in [Width -> Reg]
    BY <1>2, SetIPRecord DEF RecordInv, ThreadOK
  <2>3. QueueOK'
    BY <2>1, <2>2, CallStackShown DEF QueueOK
  <2> QED
    BY <2>1, <2>3 DEF TablesShow
<1>3. CASE OnStackScroll
  <2>1. UNCHANGED <<pc, queue, regs, context, worker, spoilt>> /\ Wow' = Wow /\ stack' = Wow
        /\ (LoadRegView(context))' = LoadRegView(context)
    BY <1>3 DEF OnStackScroll, LoadStackView, thread, LoadRegView, Wow, CurrentProcess,
       CurrentTID, InBreak
  <2> QED
    BY <2>1 DEF QueueOK, TablesShow, Delivered, worker
<1>4. CASE OnChangeRequest \/ OnExit \/ \E p \in Process, on \in BOOLEAN : HardwareBP(p, on)
  <2>1. UNCHANGED <<pc, cur, queue, regs, stack, context, worker, spoilt>>
    BY <1>4 DEF OnChangeRequest, OnExit, HardwareBP, thread, views
  <2>2. Wow' = Wow /\ (LoadRegView(context))' = LoadRegView(context)
    BY <2>1 DEF LoadRegView, Wow, CurrentProcess, CurrentTID, InBreak
  <2> QED
    BY <2>1, <2>2 DEF QueueOK, TablesShow, Delivered, worker
<1>5. CASE OnSaveAndExit
  <2>1. UNCHANGED <<pc, queue, stack, worker>> /\ Wow' = Wow /\ regs' = (LoadRegView(context))'
    BY <1>5 DEF OnSaveAndExit, thread, LoadRegView, Wow, CurrentProcess, CurrentTID, InBreak
  <2>2. Holds /\ ~spoilt' => ~spoilt
    <3>1. (Holds /\ dialog.at = brk) \/ ~(Holds /\ dialog.at = brk)
      OBVIOUS
    <3> QED
      BY <1>5, <3>1 DEF OnSaveAndExit
  <2>3. Delivered' => Delivered
    BY <2>1, <2>2 DEF Delivered, Holds
  <2> QED
    BY <2>1, <2>3 DEF QueueOK, TablesShow, worker
<1>6. CASE ResumeDebugging
  <2>1. /\ UNCHANGED <<cur, queue, regs, stack, context, worker, spoilt>>
        /\ pc' = IF pc = "parked" THEN "pulsed" ELSE pc
    BY <1>6 DEF ResumeDebugging, Pulse, views
  <2>2. Delivered' => Delivered
    BY <2>1 DEF Delivered
  <2>3. Wow' = Wow /\ (LoadRegView(context))' = LoadRegView(context)
    BY <2>1 DEF LoadRegView, Wow, CurrentProcess, CurrentTID, InBreak
  <2> QED
    BY <2>1, <2>2, <2>3 DEF QueueOK, TablesShow, worker
<1>7. CASE StepIn
  <2>1. /\ UNCHANGED <<queue, worker>> /\ pc' = IF pc = "parked" THEN "pulsed" ELSE pc
        /\ pc = "got" => spoilt'
    BY <1>7 DEF StepIn, Pulse
  <2> QED
    BY <2>1 DEF QueueOK, TablesShow, Delivered, worker
<1>8. CASE SetNewThreadContext
  <2>1. UNCHANGED <<pc, cur, queue, regs, stack, worker>> /\ Wow' = Wow
    BY <1>8 DEF SetNewThreadContext, thread, views, Wow, CurrentProcess, CurrentTID, InBreak
  <2>2. Holds /\ ~spoilt' => ~spoilt /\ (LoadRegView(context))' = LoadRegView(context)
    <3> DEFINE new == hwCall.of[CurrentTID]
    <3> SUFFICES ASSUME Holds, ~spoilt' PROVE ~spoilt /\ (LoadRegView(context))' = LoadRegView(context)
      OBVIOUS
    <3>1. CASE Owner[CurrentTID] = hwCall.process
      <4>1. /\ context' = [context EXCEPT ![Wow] = new]
            /\ ~spoilt /\ new = [context[Wow] EXCEPT !.dr = new.dr]
        BY <1>8, <3>1 DEF SetNewThreadContext, Wow, CurrentProcess
      <4>2. /\ new.ip = context[Wow].ip /\ new.ax = context[Wow].ax
            /\ new.flag = context[Wow].flag /\ new.tf = context[Wow].tf
        BY <4>1, WidthOfCurrent DEF RecordInv, ThreadOK, Reg
      <4>3. context'[Wow] = new
        BY <4>1, WidthOfCurrent DEF RecordInv, ThreadOK
      <4> QED
        BY <2>1, <4>1, <4>2, <4>3 DEF LoadRegView, Registers, EFlags
    <3>2. CASE Owner[CurrentTID] # hwCall.process
      BY <1>8, <2>1, <3>2 DEF SetNewThreadContext, LoadRegView
    <3> QED
      BY <3>1, <3>2
  <2>3. Delivered' => Delivered
    BY <2>1, <2>2 DEF Delivered, Holds
  <2>4. TablesShow'
    BY <2>1, <2>2, <2>3 DEF TablesShow, Delivered, Holds
  <2> QED
    BY <2>1, <2>4 DEF QueueOK, worker
<1> QED
  BY <1>1, <1>2, <1>3, <1>4, <1>5, <1>6, <1>7, <1>8 DEF Gui

LEMMA NextView == RecordInv /\ QueueOK /\ TablesShow /\ [Next]_vars => QueueOK' /\ TablesShow'
<1> SUFFICES ASSUME RecordInv, QueueOK, TablesShow, [Next]_vars PROVE QueueOK' /\ TablesShow'
  OBVIOUS
<1>1. CASE UNCHANGED vars
  BY <1>1 DEF vars, thread, views, worker, QueueOK, TablesShow, Delivered, LoadRegView, Wow,
     CurrentProcess, CurrentTID, InBreak
<1>2. CASE Deliver
  BY <1>2, DeliverQueue
<1>3. CASE Gui /\ ~Deliver
  BY <1>3, GuiQueue
<1> QED
  BY <1>1, <1>2, <1>3, DebuggerQueue, WorkerQueue DEF Next

LEMMA InitView == Init => QueueOK /\ TablesShow
BY DEF Init, QueueOK, TablesShow, Delivered, Unsaid

(* While a break is shown the register view shows what the thread would    *)
(* get, and the stack has the width of its process.                        *)
THEOREM ViewsShow == Spec => []ViewsShowTheBreak
<1>1. TablesShow => ViewsShowTheBreak
  <2> SUFFICES ASSUME TablesShow, Shown, ~spoilt
               PROVE  regs = LoadRegView(context) /\ stack = Wow
    BY DEF ViewsShowTheBreak, LoadRegView, Registers, EFlags
  <2> QED
    BY DEF TablesShow, Delivered, Shown, Unsaid
<1> QED
  BY <1>1, InitRecord, NextRecord, InitView, NextView, PTL DEF Spec

-----------------------------------------------------------------------------
(* The call stack.                                                         *)

Finished(d) == [sig |-> "OnCallstackFinished", ip |-> d.ip, thread |-> d.thread,
                process |-> d.process]

IsWalk(e) == e.sig = "OnCallstackFinished"

LastIn(q, i) == i \in DOMAIN q /\ IsWalk(q[i]) /\ \A j \in DOMAIN q : j > i => ~IsWalk(q[j])

(* Once q is delivered to a window that shows w, it shows the walk of d.   *)
WillShow(q, w, d) ==
  /\ \A i \in DOMAIN q : LastIn(q, i) => q[i] = Finished(d)
  /\ Unsaid(q, "OnCallstackFinished") =>
       w = [ip |-> d.ip, thread |-> d.thread, process |-> d.process]

Walking == Len(walks) = 1 /\ walks[1] \in {Queued, data}
Walkless == walks = <<>> /\ WillShow(queue, callstack, data)

(* Since the delivery of OnDebuggerBreak the worker has the thread that is *)
(* broken, and its one walk is queued, under way, queued for the GUI or    *)
(* shown.                                                                  *)
WalksShow ==
  Delivered /\ ~overlap =>
    /\ data.process = Owner[cur] /\ data.thread = cur /\ data.ip \in {brk, 0}
    /\ Walking \/ Walkless

LEMMA AppendWalk ==
  ASSUME NEW q \in Seq(Signal), NEW d \in Data, NEW w
  PROVE  WillShow(Append(q, Finished(d)), w, d)
<1> DEFINE n == Len(q) + 1
           r == Append(q, Finished(d))
<1>1. Finished(d) \in Signal /\ IsWalk(Finished(d))
  BY DEF Finished, Signal, Data, IsWalk
<1>2. DOMAIN r = 1 .. n /\ r[n] = Finished(d) /\ n \in DOMAIN r /\ n \in Nat
  BY <1>1
<1> HIDE DEF n, r
<1>3. ASSUME NEW i \in DOMAIN r, LastIn(r, i) PROVE r[i] = Finished(d)
  BY <1>1, <1>2, <1>3 DEF LastIn
<1>4. ~Unsaid(r, "OnCallstackFinished")
  BY <1>1, <1>2 DEF Unsaid, IsWalk
<1> QED
  BY <1>3, <1>4 DEF WillShow, r

LEMMA TailWalk ==
  ASSUME NEW q \in Seq(Signal), q # <<>>, NEW d, NEW w, WillShow(q, w, d)
  PROVE  WillShow(Tail(q), IF IsWalk(Head(q))
                           THEN [ip |-> Head(q).ip, thread |-> Head(q).thread,
                                 process |-> Head(q).process]
                           ELSE w, d)
<1> DEFINE t == Tail(q)
<1>1. /\ Len(q) \in Nat \ {0} /\ Head(q) = q[1] /\ t \in Seq(Signal)
      /\ DOMAIN q = 1 .. Len(q) /\ DOMAIN t = 1 .. Len(q) - 1
      /\ \A i \in 1 .. Len(q) - 1 : t[i] = q[i + 1]
  OBVIOUS
<1> HIDE DEF t
<1>2. ASSUME NEW i \in DOMAIN t, LastIn(t, i) PROVE t[i] = Finished(d)
  <2>1. i + 1 \in DOMAIN q /\ q[i + 1] = t[i]
    BY <1>1
  <2>2. ASSUME NEW j \in DOMAIN q, j > i + 1 PROVE ~IsWalk(q[j])
    <3>1. j - 1 \in DOMAIN t /\ j - 1 > i /\ t[j - 1] = q[j]
      BY <1>1, <2>2
    <3> QED
      BY <1>2, <3>1 DEF LastIn
  <2>3. LastIn(q, i + 1)
    BY <1>2, <2>1, <2>2 DEF LastIn
  <2> QED
    BY <2>1, <2>3 DEF WillShow
<1>3. CASE IsWalk(Head(q))
  <2>1. ASSUME Unsaid(t, "OnCallstackFinished") PROVE q[1] = Finished(d)
    <3>1. ASSUME NEW j \in DOMAIN q, j > 1 PROVE ~IsWalk(q[j])
      <4>1. j - 1 \in DOMAIN t /\ t[j - 1] = q[j]
        BY <1>1, <3>1
      <4> QED
        BY <2>1, <4>1 DEF Unsaid, IsWalk
    <3>2. 1 \in DOMAIN q
      BY <1>1
    <3>3. LastIn(q, 1)
      BY <1>1, <1>3, <3>1, <3>2 DEF LastIn
    <3> QED
      BY <3>2, <3>3 DEF WillShow
  <2>2. ASSUME Unsaid(t, "OnCallstackFinished")
        PROVE  [ip |-> Head(q).ip, thread |-> Head(q).thread, process |-> Head(q).process]
                 = [ip |-> d.ip, thread |-> d.thread, process |-> d.process]
    BY <1>1, <2>1, <2>2 DEF Finished
  <2> QED
    BY <1>2, <1>3, <2>2 DEF WillShow, t
<1>4. CASE ~IsWalk(Head(q))
  <2>1. Unsaid(t, "OnCallstackFinished") => Unsaid(q, "OnCallstackFinished")
    BY <1>4, TailSignal DEF t, IsWalk
  <2> QED
    BY <1>2, <1>4, <2>1 DEF WillShow, t
<1> QED
  BY <1>3, <1>4

LEMMA WalksKept ==
  ASSUME WalksShow, UNCHANGED <<cur, brk, queue, callstack, worker>>, Delivered' => Delivered
  PROVE  WalksShow'
BY DEF WalksShow, Walking, Walkless, worker

(* A walk that is queued while there is none is the walk of the break.     *)
LEMMA CallStackAsked ==
  ASSUME RecordInv, QueueOK, NEW ctx, ShowCallStack(ctx), Holds, UNCHANGED <<cur, brk>>,
         ctx[Wow].ip \in {brk, 0}
  PROVE  WalksShow'
<1> SUFFICES ASSUME ~overlap' PROVE /\ data'.process = Owner[cur] /\ data'.thread = cur
                                    /\ data'.ip \in {brk, 0} /\ Walking'
  BY DEF WalksShow
<1>1. CurrentTID = cur /\ CurrentProcess = Owner[cur]
  BY DEF CurrentProcess, CurrentTID, InBreak, Holds
<1>2. walks = <<>>
  BY DEF ShowCallStack
<1>3. walks' = <<Queued>>
  BY <1>2 DEF ShowCallStack
<1> QED
  BY <1>1, <1>3 DEF ShowCallStack, Walking

LEMMA WorkerWalks == ASSUME RecordInv, QueueOK, WalksShow, Worker PROVE WalksShow'
<1>1. PICK i \in DOMAIN walks : Walk(i) \/ Walked(i)
  BY DEF Worker
<1>2. /\ walks \in Seq({Queued} \cup Data) /\ walks # <<>> /\ data \in Data
      /\ i \in 1 .. Len(walks)
  BY <1>1 DEF QueueOK
<1>3. UNCHANGED <<cur, brk, callstack, data, overlap>> /\ (Delivered' => Delivered)
  <2>1. CASE Walk(i)
    BY <2>1 DEF Walk, thread, views, Delivered
  <2>2. CASE Walked(i)
    <3>1. walks[i] \in Data /\ data \in Data
      BY <1>2, <2>2 DEF Walked
    <3>2. [sig |-> "OnCallstackFinished", ip |-> walks[i].ip, thread |-> walks[i].thread,
           process |-> data.process] \in Signal
      BY <3>1 DEF Data, Signal
    <3>3. Unsaid(queue', "OnDebuggerBreak") => Unsaid(queue, "OnDebuggerBreak")
      BY <2>2, <3>2, AppendSignal DEF Walked, QueueOK
    <3> QED
      BY <2>2, <3>3 DEF Walked, thread, views, Delivered
  <2> QED
    BY <1>1, <2>1, <2>2
<1> SUFFICES ASSUME Delivered', ~overlap' PROVE Walking' \/ Walkless'
  BY <1>3 DEF WalksShow
<1>4. Walking
  BY <1>2, <1>3 DEF WalksShow, Walkless
<1>5. i = 1 /\ Len(walks) = 1
  BY <1>2, <1>4 DEF Walking
<1>6. CASE Walk(i)
  BY <1>2, <1>3, <1>5, <1>6 DEF Walk, Walking
<1>7. CASE Walked(i)
  <2>1. walks[1] = data
    BY <1>4, <1>5, <1>7 DEF Walked, Walking
  <2>2. queue' = Append(queue, Finished(data))
    BY <1>5, <1>7, <2>1 DEF Walked, Finished
  <2>3. walks' = <<>>
    BY <1>2, <1>5, <1>7 DEF Walked, RemoveAt
  <2>4. WillShow(queue', callstack', data')
    BY <1>2, <1>3, <2>2, AppendWalk DEF QueueOK
  <2> QED
    BY <2>3, <2>4 DEF Walkless
<1> QED
  BY <1>1, <1>6, <1>7

LEMMA DeliverWalks == ASSUME RecordInv, QueueOK, WalksShow, Deliver PROVE WalksShow'
<1> DEFINE e == Head(queue)
<1>1. /\ queue # <<>> /\ queue' = Tail(queue)
      /\ UNCHANGED <<pc, cur, brk, context, spoilt>>
  BY DEF Deliver, thread
<1>2. /\ e \in Signal /\ queue \in Seq(Signal)
      /\ \A s : Unsaid(queue, s) <=> Unsaid(queue', s) /\ e.sig # s
  BY <1>1, TailSignal DEF QueueOK
<1>3. e.sig \in {"OnDebuggerBreak", "OnDebuggerTerminated", "OnCallstackFinished"}
  BY <1>2 DEF Signal
<1> SUFFICES ASSUME Delivered' PROVE WalksShow'
  BY DEF WalksShow
<1>4. Holds /\ ~spoilt /\ pc # "gone"
  BY <1>1 DEF Delivered, Holds
<1>5. CASE e.sig = "OnDebuggerBreak"
  <2>1. ShowCallStack(context)
    BY <1>4, <1>5 DEF Deliver, OnDebuggerBreak, Live
  <2>2. context[Wow].ip \in {brk, 0}
    BY <1>4 DEF RecordInv, NotAhead
  <2> QED
    BY <1>1, <1>4, <2>1, <2>2, CallStackAsked
<1>6. CASE e.sig = "OnDebuggerTerminated"
  BY <1>2, <1>4, <1>6 DEF QueueOK
<1>7. CASE e.sig = "OnCallstackFinished"
  <2>1. /\ callstack' = [ip |-> e.ip, thread |-> e.thread, process |-> e.process]
        /\ UNCHANGED <<data, walks, overlap>>
    BY <1>7 DEF Deliver, OnCallstack, worker
  <2>2. Delivered
    BY <1>1, <1>2, <1>7 DEF Delivered
  <2>3. Walkless => Walkless'
    BY <1>1, <1>2, <1>7, <2>1, TailWalk DEF Walkless, IsWalk
  <2>4. Walking => Walking'
    BY <2>1 DEF Walking
  <2> QED
    BY <1>1, <2>1, <2>2, <2>3, <2>4 DEF WalksShow
<1> QED
  BY <1>3, <1>5, <1>6, <1>7

LEMMA GuiWalks == ASSUME RecordInv, QueueOK, WalksShow, Gui, ~Deliver PROVE WalksShow'
<1>1. CASE SetIP
  <2>1. CASE Holds
    <3>1. ShowCallStack(context') /\ UNCHANGED <<cur, brk>>
      BY <1>1 DEF SetIP, User, OnDebuggerBreak, thread
    <3>2. context'[Wow].ip = 0
      BY <1>1, WidthOfCurrent DEF SetIP, RecordInv, ThreadOK, Reg
    <3> QED
      BY <2>1, <3>1, <3>2, CallStackAsked
  <2>2. CASE ~Holds
    BY <1>1, <2>2 DEF SetIP, thread, Holds, WalksShow, Delivered
  <2> QED
    BY <2>1, <2>2
<1>2. CASE \/ ToggleFlag \/ OnStackScroll \/ OnChangeRequest \/ OnExit
           \/ \E p \in Process, on \in BOOLEAN : HardwareBP(p, on)
  <2>1. UNCHANGED <<pc, cur, brk, queue, callstack, worker, spoilt>>
    BY <1>2 DEF ToggleFlag, OnStackScroll, OnChangeRequest, OnExit, HardwareBP, thread, views
  <2> QED
    BY <2>1, WalksKept DEF Delivered
<1>3. CASE OnSaveAndExit
  <2>1. UNCHANGED <<pc, cur, brk, queue, callstack, worker>>
    BY <1>3 DEF OnSaveAndExit, thread
  <2>2. Holds /\ ~spoilt' => ~spoilt
    <3>1. (Holds /\ dialog.at = brk) \/ ~(Holds /\ dialog.at = brk)
      OBVIOUS
    <3> QED
      BY <1>3, <3>1 DEF OnSaveAndExit
  <2> QED
    BY <2>1, <2>2, WalksKept DEF Delivered, Holds
<1>4. CASE ResumeDebugging \/ StepIn
  <2>1. /\ UNCHANGED <<cur, brk, queue, callstack, worker>>
        /\ pc' = IF pc = "parked" THEN "pulsed" ELSE pc
        /\ ~spoilt' => ~spoilt
    BY <1>4 DEF ResumeDebugging, StepIn, Pulse, views, RecordInv, ThreadOK
  <2> QED
    BY <2>1, WalksKept DEF Delivered
<1>5. CASE SetNewThreadContext
  <2>1. UNCHANGED <<pc, cur, brk, queue, callstack, worker>>
    BY <1>5 DEF SetNewThreadContext, thread, views
  <2>2. ~spoilt' => ~spoilt
    <3>1. CASE Owner[CurrentTID] = hwCall.process
      BY <1>5, <3>1 DEF SetNewThreadContext, RecordInv, ThreadOK
    <3>2. CASE Owner[CurrentTID] # hwCall.process
      BY <1>5, <3>2 DEF SetNewThreadContext
    <3> QED
      BY <3>1, <3>2
  <2> QED
    BY <2>1, <2>2, WalksKept DEF Delivered
<1> QED
  BY <1>1, <1>2, <1>3, <1>4, <1>5 DEF Gui

LEMMA NextWalks == RecordInv /\ QueueOK /\ WalksShow /\ [Next]_vars => WalksShow'
<1> SUFFICES ASSUME RecordInv, QueueOK, WalksShow, [Next]_vars PROVE WalksShow'
  OBVIOUS
<1>1. CASE UNCHANGED vars
  BY <1>1, WalksKept DEF vars, thread, views, Delivered
<1>2. CASE CallBreakDebugger
  <2>1. CASE Wait
    BY <2>1, WalksKept DEF Wait, views, Delivered
  <2>2. CASE (\E t \in Thread : Enter(t)) \/ SetContext \/ BreakOver \/ Terminated
    BY <2>2 DEF Enter, SetContext, BreakOver, Terminated, WalksShow, Delivered
  <2>3. CASE GetContext
    <3>1. [sig |-> "OnDebuggerBreak"] \in Signal
      BY DEF Signal
    <3>2. ~Unsaid(queue', "OnDebuggerBreak")
      BY <2>3, <3>1, AppendSignal DEF GetContext, QueueOK
    <3> QED
      BY <3>2 DEF WalksShow, Delivered
  <2> QED
    BY <1>2, <2>1, <2>2, <2>3 DEF CallBreakDebugger
<1> QED
  BY <1>1, <1>2, WorkerWalks, DeliverWalks, GuiWalks DEF Next

(* When a break is shown, no walk is left and none overtook another, the   *)
(* call stack is that of the thread that is broken, and of this break.     *)
THEOREM CallStackShows == Spec => []CallStackIsCurrent
<1>1. WalksShow => CallStackIsCurrent
  <2> SUFFICES ASSUME WalksShow, Shown, walks = <<>>, queue = <<>>, ~overlap, ~spoilt
               PROVE  /\ callstack.thread = cur /\ callstack.process = Owner[cur]
                      /\ callstack.ip \in {brk, 0}
    BY DEF CallStackIsCurrent
  <2>1. Delivered /\ Unsaid(queue, "OnCallstackFinished")
    BY DEF Delivered, Shown, Unsaid
  <2>2. Walkless
    BY <2>1 DEF WalksShow, Walking
  <2> QED
    BY <2>1, <2>2 DEF WalksShow, Walkless, WillShow
<1>2. Init => WalksShow
  BY DEF Init, WalksShow, Delivered
<1> QED
  BY <1>1, <1>2, InitRecord, NextRecord, InitView, NextView, NextWalks, PTL DEF Spec

=============================================================================
