-------------------------- MODULE MCMemoryBreakpoint --------------------------
(* Two pages side by side, with a line at the start of each; the second    *)
(* reads the first page, and a third line where nothing is mapped.         *)
EXTENDS MemoryBreakpoint

MCOwn == [q \in Page |-> PAGE_EXECUTE_READ]

MCIns == [c \in {10, 15, 20} |-> CASE c = 10 -> [acc |-> "none", at |-> 0]
                                    [] c = 15 -> [acc |-> "r", at |-> 90]
                                    [] OTHER  -> [acc |-> "r", at |-> 10]]

MCShape == [offset : {10, 20}, type : {"BP_ACCESS", "BP_EXEC"}]

MCMenu == {Prot({"x", "r", "w"}, FALSE)}
=============================================================================
