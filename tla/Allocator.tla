------------------------------ MODULE Allocator ------------------------------
(***************************************************************************)
(* What malloc and free, and so operator new and delete, promise: a block  *)
(* handed out overlaps no block that is still held, and only a held block  *)
(* is given back.                                                          *)
(***************************************************************************)
EXTENDS Integers

CONSTANTS Address,     \* addresses a block may start at
          RequestSize  \* sizes callers ask for

VARIABLE held          \* address of each block held -> its size

Block(p, size) == p .. (p + size - 1)

Disjoint(p, size) ==
  /\ p \notin DOMAIN held
  /\ \A q \in DOMAIN held : Block(p, size) \cap Block(q, held[q]) = {}

Take(p, size) ==
  /\ Disjoint(p, size)
  /\ held' = [q \in DOMAIN held \cup {p} |-> IF q = p THEN size ELSE held[q]]

Give(p) ==
  /\ p \in DOMAIN held
  /\ held' = [q \in DOMAIN held \ {p} |-> held[q]]

Init == held = <<>>
Next == \/ \E p \in Address, size \in RequestSize : Take(p, size)
        \/ \E p \in Address : Give(p)
Spec == Init /\ [][Next]_held
=============================================================================
