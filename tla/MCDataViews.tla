------------------------------ MODULE MCDataViews ------------------------------
(***************************************************************************)
(* Every program of three addresses, and of four of fewer instructions,    *)
(* for the scan, with the window opened and left alone; and each kind of   *)
(* window on little data, used.                                            *)
(***************************************************************************)
EXTENDS DataViews, TLC

MCBase == 2

Ins(k, len, t) == [k |-> k, len |-> len, t |-> t]

Few ==
  {Ins("op", 1, 0), Ins("nop", 1, 0), Ins("ret", 1, 0), Ins("call", 1, 3), Ins("call", 1, 4),
   Ins("jmp", 1, 5), Ins("jmp", 1, 1), Ins("jcc", 1, 1), Ins("jcc", 1, 4)}
Many ==
  {Ins("op", 1, 0), Ins("op", 2, 0), Ins("nop", 1, 0), Ins("zero", 2, 0), Ins("ret", 1, 0),
   Ins("bad", 1, 0)}
    \cup {Ins("call", 1, t) : t \in MCBase .. MCBase + 3}
    \cup {Ins(k, 1, t) : k \in {"jmp", "jcc"}, t \in {0, 1, 3, 4}}

Setup(kind, code, end, procs, readable, height, done) ==
  [kind |-> kind, code |-> code, base |-> MCBase, end |-> end, procs |-> procs, all |-> TRUE,
   lines |-> 3, readable |-> readable, height |-> height, events |-> done]

(* What lies behind the buffer is one of two instructions.                 *)
Programs(instructions, end) ==
  {c @@ (end :> b) : c \in [MCBase .. end - 1 -> instructions],
                     b \in {Ins("op", 1, 0), Ins("ret", 1, 0)}}

Scans ==
  {Setup("functions", c, MCBase + 3, 1, TRUE, 1, 0) : c \in Programs(Many, MCBase + 3)}
    \cup {Setup("functions", c, MCBase + 4, 1, TRUE, 1, 0) : c \in Programs(Few, MCBase + 4)}

Rets == [a \in MCBase .. MCBase + 3 |-> Ins("ret", 1, 0)]
Uses ==
  {Setup(k, Rets, MCBase + 3, 1, r, h, 3) :
     k \in {"functions", "module", "strings", "hex"}, r \in BOOLEAN, h \in {1, 2}}
    \cup {Setup(k, Rets, MCBase + 3, 2, TRUE, 2, 3) : k \in {"functions", "strings"}}

Snapshots ==
  {[Setup("snapshot", Rets, MCBase + 3, n, TRUE, 1, 6) EXCEPT !.all = a] : n \in {0, 1, 2}, a \in BOOLEAN}

MCSetups == Scans \cup Uses \cup Snapshots
=============================================================================
