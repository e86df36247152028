----------------------------- MODULE MCDisassembly -----------------------------
(* One region of code with an instruction of two bytes, and a datum.       *)
EXTENDS Disassembly

MCLine == (11 .. 23) \ {16}
MCRegion == {[base |-> 11, end |-> 24]}
=============================================================================
