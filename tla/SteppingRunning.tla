-------------------------- MODULE SteppingRunning --------------------------
(***************************************************************************)
(* The steps of the GUI while nothing is broken.  Neither action asks more *)
(* than that a session is on: ProcessContext is that of the last break,    *)
(* m_currentPID is zero, and nobody waits for the pulse.                   *)
(***************************************************************************)
EXTENDS MCStepping

StepInWhileRunning ==
  /\ dbg = Loop
  /\ single' = TRUE /\ ctx' = [ctx EXCEPT !.tf = TRUE]
  /\ UNCHANGED <<setup, th, mem, sw, hw, pid, dbg, cmd, seen>>

StepOverWhileRunning ==
  /\ dbg = Loop
  /\ ctx.ip \in Addr \ setup.ret /\ ~Listed(Over[ctx.ip])
  /\ Insert(Over[ctx.ip], "BP_STEPOVER", "none")
  /\ UNCHANGED <<setup, th, hw, pid, single, dbg, ctx, cmd, seen>>

NextRunning == Next \/ StepInWhileRunning \/ StepOverWhileRunning

SpecRunning == Init /\ [][NextRunning]_vars
=============================================================================
