------------------------------- MODULE MCOptions -------------------------------
(* The options for TLC: an exception and a debugger that may be registered *)
(* stand for themselves only, so their names may be exchanged.             *)
EXTENDS Options

Symmetry == Permutations(Code) \cup Permutations(Jit)
================================================================================
