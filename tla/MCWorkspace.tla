---------------------------- MODULE MCWorkspace ----------------------------
(***************************************************************************)
(* A program with a DLL and two patches, and a program with a child and    *)
(* one patch or one bookmark, each module at its own addresses.  No two    *)
(* can be loaded at one address in any session.                            *)
(***************************************************************************)
EXTENDS Workspace, TLC

CONSTANTS exe, child, dll, p1, p2

MCBases == exe :> {100, 200} @@ child :> {1000} @@ dll :> {5000}

Child(rows, marks) ==
  [pids |-> {p1, p2}, childs |-> {child}, libs |-> {}, rvas |-> {1},
   patches |-> rows, bookmarks |-> marks]

MCSetups ==
  {[pids |-> {p1}, childs |-> {}, libs |-> {dll}, rvas |-> {1, 2}, patches |-> 2, bookmarks |-> 0],
   Child(1, 0), Child(0, 1)}
=============================================================================
