----------------------------- MODULE MCStepping -----------------------------
(***************************************************************************)
(* A loop that calls a function: 2, call at 4, function at 8, 9, 10, jump  *)
(* back at 6.                                                              *)
(***************************************************************************)
EXTENDS Stepping, TLC

MCFlow == 2 :> 4 @@ 4 :> 8 @@ 6 :> 2 @@ 8 :> 9 @@ 9 :> 10 @@ 10 :> 6

MCOver == 2 :> 4 @@ 4 :> 6 @@ 6 :> 2 @@ 8 :> 9 @@ 9 :> 10 @@ 10 :> 6

MCReturn == 8 :> 6 @@ 9 :> 6 @@ 10 :> 6

Session(i, u, h, own, ret, asks) ==
  [int3 |-> i, ud2 |-> u, hard |-> h, own |-> own, ret |-> ret, asks |-> asks]

Sites == {2, 6, 8}

Placed == {<<i, u, h>> \in (SUBSET Sites) \X (SUBSET Sites) \X (SUBSET Sites) :
             i \cap u = {} /\ i \cap h = {} /\ u \cap h = {}}

(* With breakpoints: the function ends in a jump, so that no step over is  *)
(* a step in.                                                              *)
Breakpoints == {Session(b[1], b[2], b[3], own, {}, {"run", "over", "until", "out"}) :
                  b \in Placed, own \in {{}, {9}}}

(* Without: all the steps, traces and steps in, or traces to somewhere.    *)
Steps  == Session({}, {}, {}, {}, {10}, {"run", "in", "over", "until", "out"})

Traces == Session({}, {}, {}, {}, {10}, {"run", "in", "trace", "traceTo", "traceStop"})

Gotos  == Session({}, {}, {}, {}, {10}, {"run", "until", "over", "traceTo"})

MCSetups == Breakpoints \cup {Steps, Traces, Gotos}

Running == {Session({}, {}, {}, {}, {10}, {"run"})}
=============================================================================
