------------------------ MODULE MCBreakpointManager ------------------------
(***************************************************************************)
(* Five ways to use breakpoints, each on as little data as shows it.       *)
(***************************************************************************)
EXTENDS BreakpointManager

CONSTANTS p1, p2

(* One session: int3 and hlt, kept and one-shot, for every process or one, *)
(* the disassembler reading at any time, edits during the clean-up.        *)
Session ==
  [pids |-> {p1}, rvas |-> {1, 2}, bases |-> {100}, heap |-> {50},
   opcodes |-> {"int3", "hlt"}, kinds |-> {"SOFTWARE_BP"}, users |-> {AnyPid, p1},
   handles |-> {"BP_KEEP", "BP_STEPOVER"}, max |-> 3, sessions |-> 1, top |-> 400,
   may |-> {"read", "race"}]

(* Two sessions, the image at one base or the other.                       *)
Restart ==
  [Session EXCEPT !.bases = {100, 200}, !.opcodes = {"int3"}, !.sessions = 2,
                  !.handles = {"BP_KEEP", "BP_TRACETO"}, !.may = {}]

(* One hardware breakpoint more than there are registers.                  *)
Hardware ==
  [Session EXCEPT !.rvas = 1 .. 5, !.heap = {}, !.opcodes = {"int3"}, !.users = {p1},
                  !.kinds = {"HARDWARE_BP"}, !.handles = {"BP_KEEP"}, !.max = 5, !.may = {}]

(* Breakpoints of a project file in a process and its child; detach.       *)
Project ==
  [Session EXCEPT !.pids = {p1, p2}, !.heap = {}, !.opcodes = {"int3"},
                  !.kinds = {"SOFTWARE_BP", "MEMORY_BP"}, !.users = {AnyPid},
                  !.handles = {"BP_KEEP"}, !.max = 2, !.top = 110,
                  !.may = {"childs", "project", "detach"}]

(* A breakpoint of a project file whose offset in the module is mapped: a  *)
(* read of the disassembler writes it there before it is rebased.          *)
Unrebased ==
  [Session EXCEPT !.heap = {2}, !.opcodes = {"int3"}, !.users = {AnyPid},
                  !.handles = {"BP_KEEP"}, !.max = 2, !.may = {"project", "read"}]

MCSetups == {Session, Restart, Hardware, Project, Unrebased}
=============================================================================
