----------------------------- MODULE FunctionScan -----------------------------
(***************************************************************************)
(* How clsFunctionsViewWorker finds the functions of a region of code: one *)
(* pass over the targets of its calls, one over all its instructions, and  *)
(* the size of a function from where its jumps, returns and padding lie.   *)
(*                                                                         *)
(* code maps every address to what decodes there: its kind k, its length   *)
(* len and the target t of a branch (0 for an indirect one).  code[end] is *)
(* what lies behind the buffer, where a call to the very end makes the     *)
(* worker decode.  Trash is the source's 4 paddings, Dword its 2^32.       *)
(***************************************************************************)
EXTENDS Integers, Sequences

CONSTANTS Trash, Dword

Padding == {"zero", "nop"}   \* opcode 0x00; 0x90 and 0xCC
IsJump(ins) == ins.k \in {"jmp", "jcc"}

(* 0x00 is decoded with the byte behind it, and counted as one byte.       *)
Length(ins) == IF ins.k = "zero" THEN 1 ELSE ins.len

(* The length the second pass goes by, which keeps the two bytes of 0x00.  *)
LengthInSweep(ins) == IF ins.k = "zero" THEN 2 ELSE ins.len

OutOfBlock(ins, va, end) == va < end /\ va + ins.len > end

(* The jumps at a return: an entry whose target is this return is erased,  *)
(* and the one behind it is passed over.                                   *)
RECURSIVE AtReturn(_, _, _, _, _)
AtReturn(jumps, i, va, off, goesOn) ==
  IF i > Len(jumps) THEN [jumps |-> jumps, goesOn |-> goesOn, jmp |-> 0]
  ELSE LET j == jumps[i] IN
       CASE j.target < off /\ j.k = "jmp" -> [jumps |-> jumps, goesOn |-> goesOn, jmp |-> j.off]
         [] (j.target < off /\ j.k # "jmp") \/ j.target > va ->
              AtReturn(jumps, i + 1, va, off, TRUE)
         [] j.target = va ->
              AtReturn(SubSeq(jumps, 1, i - 1) \o SubSeq(jumps, i + 1, Len(jumps)),
                       i + 1, va, off, goesOn)
         [] OTHER -> AtReturn(jumps, i + 1, va, off, goesOn)

(* GetFunctionSizeFromCallPoint from address va on; n instructions and     *)
(* trash paddings have been counted.                                       *)
RECURSIVE SizeFrom(_, _, _, _, _, _, _)
SizeFrom(code, off, end, va, n, trash, jumps) ==
  LET ins   == code[va]
      len   == Length(ins)
      On(m, t, js) == IF va + len >= end THEN 0
                      ELSE SizeFrom(code, off, end, va + len, m, t, js)
  IN  CASE OutOfBlock(ins, va, end) -> 0
        [] ins.k = "bad" -> On(n, trash, jumps)
        [] ins.k \in Padding ->
             IF trash + 1 >= Trash THEN (va - off - (trash + 1)) % Dword
             ELSE On(n + 1, trash + 1, jumps)
        [] ins.k = "ret" ->
             LET r == AtReturn(jumps, 1, va, off, FALSE)
             IN  IF r.jmp # 0 THEN r.jmp - off + len
                 ELSE IF r.goesOn THEN On(n + 1, 0, r.jumps)
                 ELSE va - off + len
        [] ins.k = "jmp" /\ n = 0 -> va - off + len
        [] IsJump(ins) /\ ~(ins.k = "jmp" /\ n = 0) ->
             IF ins.t # 0
             THEN On(n + 1, 0, Append(jumps, [off |-> va, target |-> ins.t, k |-> ins.k]))
             ELSE On(n + 1, trash, jumps)
        [] OTHER -> On(n + 1, trash, jumps)

Size(code, off, end) == SizeFrom(code, off, end, off, 0, 0, <<>>)

-----------------------------------------------------------------------------
(* An address inside a function of the list; the end counts, except for a  *)
(* jump in the second pass.                                                *)
Contained(list, a)   == \E i \in DOMAIN list : list[i].off <= a /\ a <= list[i].off + list[i].size
InsideOf(list, a)    == \E i \in DOMAIN list : list[i].off <= a /\ a < list[i].off + list[i].size

Found(code, off, end) == [off |-> off, size |-> Size(code, off, end)]

(* ParseMemoryRangeForCallFunctions: the targets of the calls.             *)
RECURSIVE CallPass(_, _, _, _, _)
CallPass(code, base, end, va, list) ==
  IF va >= end \/ OutOfBlock(code[va], va, end) THEN list
  ELSE LET ins  == code[va]
           new  == ins.k = "call" /\ base <= ins.t /\ ins.t <= end /\ ~Contained(list, ins.t)
       IN  CallPass(code, base, end, va + Length(ins),
                    IF new THEN Append(list, Found(code, ins.t, end)) ELSE list)

(* With the padding taken to follow the function passed over as well.      *)
SkipPadding(f) == f.size + Trash
Skip(f)        == f.size

(* ParseMemoryRangeForFunctions: what no call led to.  A new function is   *)
(* passed over by its size, which may be 0.                                *)
RECURSIVE FunctionPass(_, _, _, _, _)
FunctionPass(code, base, end, va, list) ==
  IF va >= end \/ OutOfBlock(code[va], va, end) THEN list
  ELSE LET ins  == code[va]
           in   == IF ins.k = "jmp" THEN InsideOf(list, va) ELSE Contained(list, va)
           new  == ins.k \notin Padding \cup {"bad"} /\ ~in
           f    == Found(code, va, end)
       IN  IF new THEN FunctionPass(code, base, end, va + Skip(f), Append(list, f))
           ELSE FunctionPass(code, base, end, va + LengthInSweep(ins), list)
=============================================================================
