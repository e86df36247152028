------------------------------- MODULE MemPool -------------------------------
(***************************************************************************)
(* clsMemPool: a block of UnitNum units of equal size, each behind a       *)
(* header with the two links of the lists it is on.  Every operation runs  *)
(* in the pool's critical section, so one call is one step.                *)
(*                                                                         *)
(* A unit is its index in the block.  live is the callers' knowledge: the  *)
(* units they hold and may give back.                                      *)
(***************************************************************************)
EXTENDS Integers

CONSTANTS
  UnitNum,   \* ulUnitNum
  UnitSize,  \* m_ulUnitSize
  Header,    \* sizeof(struct _Unit)
  Base,      \* m_pMemBlock, 0 when the allocation of the block failed
  Null       \* the NULL link

Unit == 0 .. UnitNum - 1
Link == Unit \cup {Null}

(* The constructors' arguments, and NULL, which is no unit.                *)
PoolConstants ==
  /\ UnitNum \in Nat \ {0} /\ UnitSize \in Nat \ {0} /\ Header \in Nat \ {0}
  /\ Base \in Nat
  /\ Null \notin Unit

VARIABLES
  prev, next,  \* the links of each unit
  freeHead,    \* m_pFreeMemBlock
  allocHead,   \* m_pAllocatedMemBlock
  live         \* units handed out and not given back

poolVars == <<prev, next, freeHead, allocHead, live>>

Stride    == UnitSize + Header
BlockSize == UnitNum * Stride

(* The pointer Alloc returns for a unit, and the test Free makes on one.   *)
DataOf(u)  == Base + u * Stride + Header
Owns(p)    == Base # 0 /\ Base < p /\ p < Base + BlockSize
UnitOf(p)  == (p - Header - Base) \div Stride

(* The constructor pushes unit after unit on the free list.                *)
PoolInit ==
  /\ next = [u \in Unit |-> IF u = 0 THEN Null ELSE u - 1]
  /\ prev = [u \in Unit |-> IF u = UnitNum - 1 THEN Null ELSE u + 1]
  /\ freeHead = IF Base = 0 THEN Null ELSE UnitNum - 1
  /\ allocHead = Null
  /\ live = {}

(* Alloc falls back to malloc unless this holds.                           *)
Serves(size) == size <= UnitSize /\ Base # 0 /\ freeHead # Null

(* A write through a link that may be NULL.                                *)
SetPrev(f, u, v) == IF u = Null THEN f ELSE [f EXCEPT ![u] = v]

(* With the head of the free list left where it was.                       *)
PoolAllocKeepsHead(size) ==
  /\ Serves(size) /\ freeHead' = freeHead
  /\ next' = [next EXCEPT ![freeHead] = allocHead]
  /\ prev' = SetPrev(prev, allocHead, freeHead)
  /\ allocHead' = freeHead
  /\ live' = live \cup {freeHead}

PoolAlloc(size) ==
  /\ Serves(size)
  /\ freeHead' = next[freeHead]
  /\ next' = [next EXCEPT ![freeHead] = allocHead]
  /\ prev' = SetPrev(SetPrev(prev, next[freeHead], Null), allocHead, freeHead)
  /\ allocHead' = freeHead
  /\ live' = live \cup {freeHead}

(* Free does not unlink u from the allocated list: it makes u's successor  *)
(* the head of that list, whatever was allocated after u.                  *)
PoolFree(u) ==
  /\ allocHead' = next[u]
  /\ prev' = SetPrev(SetPrev(prev, next[u], Null), freeHead, u)
  /\ next' = [next EXCEPT ![u] = freeHead]
  /\ freeHead' = u
  /\ live' = live \ {u}

PoolNext == \/ PoolAlloc(UnitSize)
            \/ \E u \in live : PoolFree(u)

PoolSpec == PoolInit /\ [][PoolNext]_poolVars

-----------------------------------------------------------------------------
(* The links and heads point at units or nowhere.                          *)
PoolTypeOK ==
  /\ prev \in [Unit -> Link] /\ next \in [Unit -> Link]
  /\ freeHead \in Link /\ allocHead \in Link
  /\ live \subseteq Unit

(* c lists, from the head and along next, each unit of its range once.     *)
IsChain(c, n) ==
  /\ \A i, j \in 1 .. n : c[i] = c[j] => i = j
  /\ freeHead = IF n = 0 THEN Null ELSE c[1]
  /\ \A i \in 1 .. n : next[c[i]] = IF i = n THEN Null ELSE c[i + 1]

(* The free list has no cycle and holds exactly the units nobody holds,    *)
(* although the allocated list, which Alloc and Free also write through,   *)
(* is in general not a list of the allocated units.                        *)
FreeListExact ==
  Base # 0 =>
    \E n \in 0 .. UnitNum : \E c \in [1 .. n -> Unit] :
      IsChain(c, n) /\ {c[i] : i \in 1 .. n} = Unit \ live

(* The unit Alloc would take is not one a caller holds.                    *)
NeverTwice == freeHead # Null => freeHead \notin live

=============================================================================
