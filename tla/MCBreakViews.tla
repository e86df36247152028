------------------------------ MODULE MCBreakViews ------------------------------
(* A 64-bit process with a thread, and a 32-bit child of it.               *)
EXTENDS BreakViews

MCBits  == [p \in Process |-> IF p = 2 THEN "wow" ELSE "x64"]
MCOwner == [t \in Thread |-> t]
=============================================================================
