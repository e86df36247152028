-------------------------- MODULE MemManagerProofs --------------------------
(***************************************************************************)
(* Pools of any sizes and malloc together implement the promise of malloc  *)
(* and free, and every pointer goes back where it came from.               *)
(***************************************************************************)
EXTENDS MemManager, TLAPS

P50 == INSTANCE MemPoolProofs WITH
  UnitNum <- UnitNum50, UnitSize <- UnitSize50, Base <- PoolBufferBase50,
  prev <- prev50, next <- next50, freeHead <- freeHead50,
  allocHead <- allocHead50, live <- live50

P200 == INSTANCE MemPoolProofs WITH
  UnitNum <- UnitNum200, UnitSize <- UnitSize200, Base <- PoolBufferBase200,
  prev <- prev200, next <- next200, freeHead <- freeHead200,
  allocHead <- allocHead200, live <- live200

Away(p, n) == /\ p + n <= PoolBufferBase50 \/ PoolBufferEnd50 <= p
              /\ p + n <= PoolBufferBase200 \/ PoolBufferEnd200 <= p

(* malloc's blocks stay out of the pools, and a unit is not lent to a      *)
(* request it is too small for.                                            *)
HeapOK  == \A p \in heap : p \in HeapAddress /\ Away(p, held[p])
SizesOK == /\ held \in [DOMAIN held -> Nat]
           /\ \A u \in live50 : held[Pool50!DataOf(u)] <= UnitSize50
           /\ \A u \in live200 : held[Pool200!DataOf(u)] <= UnitSize200

IInv == P50!IInv /\ P200!IInv /\ HeapOK /\ SizesOK /\ ReturnedHome

-----------------------------------------------------------------------------
(* The lemmas about a pool, for each of the two.                           *)

LEMMA Constants50 == P50!PoolConstants
BY MemManagerConstants DEF P50!PoolConstants, Pool50!PoolConstants, P50!Unit, Pool50!Unit

LEMMA Constants200 == P200!PoolConstants
BY MemManagerConstants DEF P200!PoolConstants, Pool200!PoolConstants, P200!Unit, Pool200!Unit

LEMMA Place50 ==
  ASSUME NEW u \in Pool50!Unit, PoolBufferBase50 # 0
  PROVE  /\ Pool50!DataOf(u) \in Nat /\ PoolBufferBase50 < Pool50!DataOf(u)
         /\ Pool50!DataOf(u) + UnitSize50 <= PoolBufferEnd50
         /\ Pool50!Owns(Pool50!DataOf(u)) /\ Pool50!UnitOf(Pool50!DataOf(u)) = u
BY Constants50, P50!UnitInBlock
DEF P50!Unit, Pool50!Unit, P50!DataOf, Pool50!DataOf, P50!Stride, Pool50!Stride,
    P50!Owns, Pool50!Owns, P50!BlockSize, Pool50!BlockSize, P50!UnitOf, Pool50!UnitOf,
    PoolBufferEnd50

LEMMA Place200 ==
  ASSUME NEW u \in Pool200!Unit, PoolBufferBase200 # 0
  PROVE  /\ Pool200!DataOf(u) \in Nat /\ PoolBufferBase200 < Pool200!DataOf(u)
         /\ Pool200!DataOf(u) + UnitSize200 <= PoolBufferEnd200
         /\ Pool200!Owns(Pool200!DataOf(u)) /\ Pool200!UnitOf(Pool200!DataOf(u)) = u
BY Constants200, P200!UnitInBlock
DEF P200!Unit, Pool200!Unit, P200!DataOf, Pool200!DataOf, P200!Stride, Pool200!Stride,
    P200!Owns, Pool200!Owns, P200!BlockSize, Pool200!BlockSize, P200!UnitOf, Pool200!UnitOf,
    PoolBufferEnd200

LEMMA Apart50 ==
  ASSUME NEW u \in Pool50!Unit, NEW v \in Pool50!Unit, u # v
  PROVE  \/ Pool50!DataOf(u) + UnitSize50 < Pool50!DataOf(v)
         \/ Pool50!DataOf(v) + UnitSize50 < Pool50!DataOf(u)
<1>1. u < v \/ v < u
  BY MemManagerConstants DEF Pool50!Unit, Pool50!PoolConstants
<1> QED
  BY <1>1, Constants50, P50!UnitsApart
  DEF P50!Unit, Pool50!Unit, P50!DataOf, Pool50!DataOf, P50!Stride, Pool50!Stride

LEMMA Apart200 ==
  ASSUME NEW u \in Pool200!Unit, NEW v \in Pool200!Unit, u # v
  PROVE  \/ Pool200!DataOf(u) + UnitSize200 < Pool200!DataOf(v)
         \/ Pool200!DataOf(v) + UnitSize200 < Pool200!DataOf(u)
<1>1. u < v \/ v < u
  BY MemManagerConstants DEF Pool200!Unit, Pool200!PoolConstants
<1> QED
  BY <1>1, Constants200, P200!UnitsApart
  DEF P200!Unit, Pool200!Unit, P200!DataOf, Pool200!DataOf, P200!Stride, Pool200!Stride

(* Who holds a unit, and what Alloc would take.                            *)
LEMMA Held50 ==
  ASSUME P50!IInv
  PROVE  /\ live50 \subseteq Pool50!Unit /\ (live50 # {} => PoolBufferBase50 # 0)
         /\ freeHead50 # Null => freeHead50 \in Pool50!Unit \ live50
<1>1. freeHead50 # Null => freeHead50 \notin live50
  BY Constants50, P50!HeadIsFree DEF P50!NeverTwice
<1> QED
  BY <1>1 DEF P50!IInv, P50!PoolTypeOK, P50!NoBlock, P50!Link, P50!Unit, Pool50!Unit

LEMMA Held200 ==
  ASSUME P200!IInv
  PROVE  /\ live200 \subseteq Pool200!Unit /\ (live200 # {} => PoolBufferBase200 # 0)
         /\ freeHead200 # Null => freeHead200 \in Pool200!Unit \ live200
<1>1. freeHead200 # Null => freeHead200 \notin live200
  BY Constants200, P200!HeadIsFree DEF P200!NeverTwice
<1> QED
  BY <1>1 DEF P200!IInv, P200!PoolTypeOK, P200!NoBlock, P200!Link, P200!Unit, Pool200!Unit

LEMMA Step50 ==
  ASSUME P50!IInv
  PROVE  /\ UNCHANGED pool50 => P50!IInv'
         /\ \A size : Pool50!PoolAlloc(size) => P50!IInv'
         /\ \A u \in live50 : Pool50!PoolFree(u) => P50!IInv'
<1>1. UNCHANGED pool50 => P50!IInv'
  BY Constants50, P50!Inductive DEF pool50, P50!poolVars
<1>2. ASSUME NEW size, Pool50!PoolAlloc(size) PROVE P50!IInv'
  <2>1. P50!PoolAlloc(size)
    BY <1>2 DEF P50!PoolAlloc, Pool50!PoolAlloc, P50!Serves, Pool50!Serves,
                P50!SetPrev, Pool50!SetPrev
  <2> QED
    BY <2>1, Constants50, P50!AllocExact
<1>3. ASSUME NEW u \in live50, Pool50!PoolFree(u) PROVE P50!IInv'
  <2>1. P50!PoolFree(u)
    BY <1>3 DEF P50!PoolFree, Pool50!PoolFree, P50!SetPrev, Pool50!SetPrev
  <2> QED
    BY <2>1, Constants50, P50!FreeExact
<1> QED
  BY <1>1, <1>2, <1>3

LEMMA Step200 ==
  ASSUME P200!IInv
  PROVE  /\ UNCHANGED pool200 => P200!IInv'
         /\ \A size : Pool200!PoolAlloc(size) => P200!IInv'
         /\ \A u \in live200 : Pool200!PoolFree(u) => P200!IInv'
<1>1. UNCHANGED pool200 => P200!IInv'
  BY Constants200, P200!Inductive DEF pool200, P200!poolVars
<1>2. ASSUME NEW size, Pool200!PoolAlloc(size) PROVE P200!IInv'
  <2>1. P200!PoolAlloc(size)
    BY <1>2 DEF P200!PoolAlloc, Pool200!PoolAlloc, P200!Serves, Pool200!Serves,
                P200!SetPrev, Pool200!SetPrev
  <2> QED
    BY <2>1, Constants200, P200!AllocExact
<1>3. ASSUME NEW u \in live200, Pool200!PoolFree(u) PROVE P200!IInv'
  <2>1. P200!PoolFree(u)
    BY <1>3 DEF P200!PoolFree, Pool200!PoolFree, P200!SetPrev, Pool200!SetPrev
  <2> QED
    BY <2>1, Constants200, P200!FreeExact
<1> QED
  BY <1>1, <1>2, <1>3

-----------------------------------------------------------------------------
(* Where the pointers are that the program holds.                          *)

In50(q)  == PoolBufferBase50 < q /\ q + held[q] <= PoolBufferEnd50
In200(q) == PoolBufferBase200 < q /\ q + held[q] <= PoolBufferEnd200

LEMMA Numbers ==
  /\ PoolBufferBase50 \in Nat /\ PoolBufferEnd50 \in Nat
  /\ PoolBufferBase200 \in Nat /\ PoolBufferEnd200 \in Nat
  /\ UnitSize50 \in Nat \ {0} /\ UnitSize200 \in Nat \ {0}
  /\ PoolBufferBase50 <= PoolBufferEnd50 /\ PoolBufferBase200 <= PoolBufferEnd200
<1>1. Pool50!Stride \in Nat /\ Pool200!Stride \in Nat
  BY MemManagerConstants DEF Pool50!PoolConstants, Pool200!PoolConstants,
                             Pool50!Stride, Pool200!Stride
<1>2. Pool50!BlockSize \in Nat /\ Pool200!BlockSize \in Nat
  BY <1>1, MemManagerConstants DEF Pool50!PoolConstants, Pool200!PoolConstants,
                                   Pool50!BlockSize, Pool200!BlockSize
<1> QED
  BY <1>2, MemManagerConstants DEF Pool50!PoolConstants, Pool200!PoolConstants,
                                   PoolBufferEnd50, PoolBufferEnd200

LEMMA HeldOf50 ==
  ASSUME IInv, NEW v \in live50
  PROVE  LET q == Pool50!DataOf(v)
         IN  /\ v \in Pool50!Unit /\ PoolBufferBase50 # 0
             /\ q \in DOMAIN held /\ q \in Nat /\ held[q] \in Nat /\ In50(q)
             /\ held[q] <= UnitSize50
<1>1. v \in Pool50!Unit /\ PoolBufferBase50 # 0
  BY Held50 DEF IInv
<1>2. Pool50!DataOf(v) \in DOMAIN held
  BY DEF IInv, ReturnedHome
<1>3. held[Pool50!DataOf(v)] \in Nat /\ held[Pool50!DataOf(v)] <= UnitSize50
  BY <1>2 DEF IInv, SizesOK
<1>4. Pool50!DataOf(v) \in Nat /\ PoolBufferBase50 < Pool50!DataOf(v)
      /\ Pool50!DataOf(v) + UnitSize50 <= PoolBufferEnd50
  BY <1>1, Place50
<1> QED
  BY <1>1, <1>2, <1>3, <1>4, Numbers DEF In50

LEMMA HeldOf200 ==
  ASSUME IInv, NEW v \in live200
  PROVE  LET q == Pool200!DataOf(v)
         IN  /\ v \in Pool200!Unit /\ PoolBufferBase200 # 0
             /\ q \in DOMAIN held /\ q \in Nat /\ held[q] \in Nat /\ In200(q)
             /\ held[q] <= UnitSize200
<1>1. v \in Pool200!Unit /\ PoolBufferBase200 # 0
  BY Held200 DEF IInv
<1>2. Pool200!DataOf(v) \in DOMAIN held
  BY DEF IInv, ReturnedHome
<1>3. held[Pool200!DataOf(v)] \in Nat /\ held[Pool200!DataOf(v)] <= UnitSize200
  BY <1>2 DEF IInv, SizesOK
<1>4. Pool200!DataOf(v) \in Nat /\ PoolBufferBase200 < Pool200!DataOf(v)
      /\ Pool200!DataOf(v) + UnitSize200 <= PoolBufferEnd200
  BY <1>1, Place200
<1> QED
  BY <1>1, <1>2, <1>3, <1>4, Numbers DEF In200

LEMMA HeldOfHeap ==
  ASSUME IInv, NEW q \in heap
  PROVE  q \in DOMAIN held /\ q \in Nat /\ held[q] \in Nat /\ Away(q, held[q])
BY MemManagerConstants DEF IInv, ReturnedHome, HeapOK, SizesOK

(* Every pointer is a unit of one pool, or of malloc.                      *)
LEMMA HeldBy ==
  ASSUME IInv, NEW q \in DOMAIN held
  PROVE  \/ \E v \in live50 : q = Pool50!DataOf(v)
         \/ \E v \in live200 : q = Pool200!DataOf(v)
         \/ q \in heap
BY DEF IInv, ReturnedHome

-----------------------------------------------------------------------------
(* Alloc.                                                                  *)

(* The size bytes at p are nobody's.                                       *)
Fresh(p, size) ==
  \A q \in DOMAIN held : p # q /\ (p .. p + size - 1) \cap (q .. q + held[q] - 1) = {}

LEMMA Taken ==
  ASSUME IInv, NEW p \in Address, NEW size \in RequestSize, Fresh(p, size), Hold(p, size)
  PROVE  /\ Promise!Next
         /\ p \notin DOMAIN held /\ DOMAIN held' = DOMAIN held \cup {p}
         /\ held'[p] = size /\ \A q \in DOMAIN held : held'[q] = held[q]
         /\ held' \in [DOMAIN held' -> Nat]
<1>1. p \notin DOMAIN held
  BY DEF Fresh
<1>2. /\ DOMAIN held' = DOMAIN held \cup {p}
      /\ held'[p] = size /\ \A q \in DOMAIN held : held'[q] = held[q]
  BY <1>1 DEF Hold
<1>3. held' \in [DOMAIN held' -> Nat]
  BY MemManagerConstants DEF Hold, IInv, SizesOK
<1>4. Promise!Take(p, size)
  BY <1>1 DEF Promise!Take, Promise!Disjoint, Promise!Block, Fresh, Hold
<1> QED
  BY <1>1, <1>2, <1>3, <1>4 DEF Promise!Next

LEMMA Fresh50 ==
  ASSUME IInv, NEW size \in RequestSize, Pool50!Serves(size)
  PROVE  LET p == Pool50!DataOf(freeHead50)
         IN  /\ p \in Address /\ p \in Nat /\ Fresh(p, size)
             /\ PoolBufferBase50 < p /\ p < PoolBufferEnd50
             /\ freeHead50 \in Pool50!Unit \ live50 /\ size \in Nat /\ size <= UnitSize50
<1> DEFINE h == freeHead50
           p == Pool50!DataOf(h)
<1>1. h \in Pool50!Unit \ live50 /\ PoolBufferBase50 # 0 /\ size \in Nat /\ size <= UnitSize50
  BY Held50, MemManagerConstants DEF IInv, Pool50!Serves
<1>2. p \in Nat /\ PoolBufferBase50 < p /\ p + UnitSize50 <= PoolBufferEnd50
  BY <1>1, Place50
<1>3. p \in Address
  BY <1>1 DEF Address
<1>4. ASSUME NEW q \in DOMAIN held
      PROVE  p # q /\ (p .. p + size - 1) \cap (q .. q + held[q] - 1) = {}
  <2>1. CASE \E v \in live50 : q = Pool50!DataOf(v)
    <3> PICK v \in live50 : q = Pool50!DataOf(v)
      BY <2>1
    <3>1. p + UnitSize50 < q \/ q + UnitSize50 < p
      BY <1>1, HeldOf50, Apart50
    <3> HIDE DEF p
    <3> QED
      BY <1>1, <1>2, <3>1, HeldOf50, Numbers
  <2>2. CASE \E v \in live200 : q = Pool200!DataOf(v)
    <3>1. q \in Nat /\ held[q] \in Nat /\ In200(q)
      BY <2>2, HeldOf200
    <3> HIDE DEF p
    <3> QED
      BY <1>1, <1>2, <3>1, Numbers, MemManagerConstants DEF In200
  <2>3. CASE q \in heap
    <3>1. q \in Nat /\ held[q] \in Nat /\ Away(q, held[q])
      BY <2>3, HeldOfHeap
    <3> HIDE DEF p
    <3> QED
      BY <1>1, <1>2, <3>1, Numbers DEF Away
  <2> QED
    BY <2>1, <2>2, <2>3, HeldBy
<1> QED
  BY <1>1, <1>2, <1>3, <1>4, Numbers DEF Fresh

LEMMA Fresh200 ==
  ASSUME IInv, NEW size \in RequestSize, Pool200!Serves(size)
  PROVE  LET p == Pool200!DataOf(freeHead200)
         IN  /\ p \in Address /\ p \in Nat /\ Fresh(p, size)
             /\ PoolBufferBase200 < p /\ p < PoolBufferEnd200
             /\ freeHead200 \in Pool200!Unit \ live200 /\ size \in Nat /\ size <= UnitSize200
<1> DEFINE h == freeHead200
           p == Pool200!DataOf(h)
<1>1. h \in Pool200!Unit \ live200 /\ PoolBufferBase200 # 0 /\ size \in Nat /\ size <= UnitSize200
  BY Held200, MemManagerConstants DEF IInv, Pool200!Serves
<1>2. p \in Nat /\ PoolBufferBase200 < p /\ p + UnitSize200 <= PoolBufferEnd200
  BY <1>1, Place200
<1>3. p \in Address
  BY <1>1 DEF Address
<1>4. ASSUME NEW q \in DOMAIN held
      PROVE  p # q /\ (p .. p + size - 1) \cap (q .. q + held[q] - 1) = {}
  <2>1. CASE \E v \in live200 : q = Pool200!DataOf(v)
    <3> PICK v \in live200 : q = Pool200!DataOf(v)
      BY <2>1
    <3>1. p + UnitSize200 < q \/ q + UnitSize200 < p
      BY <1>1, HeldOf200, Apart200
    <3> HIDE DEF p
    <3> QED
      BY <1>1, <1>2, <3>1, HeldOf200, Numbers
  <2>2. CASE \E v \in live50 : q = Pool50!DataOf(v)
    <3>1. q \in Nat /\ held[q] \in Nat /\ In50(q)
      BY <2>2, HeldOf50
    <3> HIDE DEF p
    <3> QED
      BY <1>1, <1>2, <3>1, Numbers, MemManagerConstants DEF In50
  <2>3. CASE q \in heap
    <3>1. q \in Nat /\ held[q] \in Nat /\ Away(q, held[q])
      BY <2>3, HeldOfHeap
    <3> HIDE DEF p
    <3> QED
      BY <1>1, <1>2, <3>1, Numbers DEF Away
  <2> QED
    BY <2>1, <2>2, <2>3, HeldBy
<1> QED
  BY <1>1, <1>2, <1>3, <1>4, Numbers DEF Fresh

LEMMA FreshHeap ==
  ASSUME IInv, NEW size \in RequestSize, NEW p \in HeapAddress, Outside(p, size)
  PROVE  p \in Address /\ p \in Nat /\ size \in Nat /\ Fresh(p, size) /\ Away(p, size)
<1>1. p \in Address /\ p \in Nat /\ size \in Nat /\ Away(p, size)
  BY MemManagerConstants DEF Address, Outside, Away
<1>2. ASSUME NEW q \in DOMAIN held
      PROVE  p # q /\ (p .. p + size - 1) \cap (q .. q + held[q] - 1) = {}
  <2>1. CASE \E v \in live50 : q = Pool50!DataOf(v)
    <3>1. q \in Nat /\ held[q] \in Nat /\ In50(q) /\ q < PoolBufferEnd50
      BY <2>1, HeldOf50, Place50, Numbers
    <3> QED
      BY <1>1, <3>1, Numbers DEF In50, Away
  <2>2. CASE \E v \in live200 : q = Pool200!DataOf(v)
    <3>1. q \in Nat /\ held[q] \in Nat /\ In200(q) /\ q < PoolBufferEnd200
      BY <2>2, HeldOf200, Place200, Numbers
    <3> QED
      BY <1>1, <3>1, Numbers DEF In200, Away
  <2>3. CASE q \in heap
    BY <2>3 DEF Outside
  <2> QED
    BY <2>1, <2>2, <2>3, HeldBy
<1> QED
  BY <1>1, <1>2 DEF Fresh

LEMMA AllocFrom50 ==
  ASSUME IInv, NEW size \in RequestSize, Pool50!Serves(size),
         Hold(Pool50!DataOf(freeHead50), size), Pool50!PoolAlloc(size),
         UNCHANGED <<pool200, heap>>
  PROVE  IInv' /\ Promise!Next
<1> DEFINE h == freeHead50
           p == Pool50!DataOf(h)
<1>1. p \in Address /\ Fresh(p, size) /\ h \notin live50 /\ size <= UnitSize50
  BY Fresh50
<1>2. /\ Promise!Next
      /\ p \notin DOMAIN held /\ DOMAIN held' = DOMAIN held \cup {p}
      /\ held'[p] = size /\ \A q \in DOMAIN held : held'[q] = held[q]
      /\ held' \in [DOMAIN held' -> Nat]
  BY <1>1, Taken
<1>3. P50!IInv' /\ P200!IInv'
  BY Step50, Step200 DEF IInv
<1>4. live50' = live50 \cup {h} /\ live200' = live200 /\ heap' = heap
  BY DEF Pool50!PoolAlloc, pool200
<1> HIDE DEF h, p
<1>5. \A q \in heap : q \in DOMAIN held
  BY DEF IInv, ReturnedHome
<1>6. HeapOK'
  BY <1>2, <1>4, <1>5 DEF IInv, HeapOK, Away, PoolBufferEnd50, PoolBufferEnd200,
                          Pool50!BlockSize, Pool200!BlockSize, Pool50!Stride, Pool200!Stride
<1>7. SizesOK'
  <2>1. \A v \in live50 : held'[Pool50!DataOf(v)] <= UnitSize50
    BY <1>2, HeldOf50
  <2>2. \A v \in live200 : held'[Pool200!DataOf(v)] <= UnitSize200
    BY <1>2, HeldOf200
  <2>3. held'[Pool50!DataOf(h)] <= UnitSize50
    BY <1>1, <1>2 DEF p
  <2> QED
    BY <1>2, <1>4, <2>1, <2>2, <2>3 DEF SizesOK, Pool50!DataOf, Pool200!DataOf
<1>8. ReturnedHome'
  BY <1>2, <1>4 DEF IInv, ReturnedHome, p, Pool50!DataOf, Pool200!DataOf
<1> QED
  BY <1>2, <1>3, <1>6, <1>7, <1>8 DEF IInv

LEMMA AllocFrom200 ==
  ASSUME IInv, NEW size \in RequestSize, Pool200!Serves(size),
         Hold(Pool200!DataOf(freeHead200), size), Pool200!PoolAlloc(size),
         UNCHANGED <<pool50, heap>>
  PROVE  IInv' /\ Promise!Next
<1> DEFINE h == freeHead200
           p == Pool200!DataOf(h)
<1>1. p \in Address /\ Fresh(p, size) /\ h \notin live200 /\ size <= UnitSize200
  BY Fresh200
<1>2. /\ Promise!Next
      /\ p \notin DOMAIN held /\ DOMAIN held' = DOMAIN held \cup {p}
      /\ held'[p] = size /\ \A q \in DOMAIN held : held'[q] = held[q]
      /\ held' \in [DOMAIN held' -> Nat]
  BY <1>1, Taken
<1>3. P50!IInv' /\ P200!IInv'
  BY Step50, Step200 DEF IInv
<1>4. live200' = live200 \cup {h} /\ live50' = live50 /\ heap' = heap
  BY DEF Pool200!PoolAlloc, pool50
<1> HIDE DEF h, p
<1>5. \A q \in heap : q \in DOMAIN held
  BY DEF IInv, ReturnedHome
<1>6. HeapOK'
  BY <1>2, <1>4, <1>5 DEF IInv, HeapOK, Away, PoolBufferEnd50, PoolBufferEnd200,
                          Pool50!BlockSize, Pool200!BlockSize, Pool50!Stride, Pool200!Stride
<1>7. SizesOK'
  <2>1. \A v \in live50 : held'[Pool50!DataOf(v)] <= UnitSize50
    BY <1>2, HeldOf50
  <2>2. \A v \in live200 : held'[Pool200!DataOf(v)] <= UnitSize200
    BY <1>2, HeldOf200
  <2>3. held'[Pool200!DataOf(h)] <= UnitSize200
    BY <1>1, <1>2 DEF p
  <2> QED
    BY <1>2, <1>4, <2>1, <2>2, <2>3 DEF SizesOK, Pool50!DataOf, Pool200!DataOf
<1>8. ReturnedHome'
  BY <1>2, <1>4 DEF IInv, ReturnedHome, p, Pool50!DataOf, Pool200!DataOf
<1> QED
  BY <1>2, <1>3, <1>6, <1>7, <1>8 DEF IInv

LEMMA AllocFromHeap ==
  ASSUME IInv, NEW size \in RequestSize, NEW p \in HeapAddress, Malloc(p, size),
         Hold(p, size), UNCHANGED <<pool50, pool200>>
  PROVE  IInv' /\ Promise!Next
<1>1. p \in Address /\ p \in Nat /\ size \in Nat /\ Fresh(p, size) /\ Away(p, size)
  BY FreshHeap DEF Malloc
<1>2. /\ Promise!Next
      /\ p \notin DOMAIN held /\ DOMAIN held' = DOMAIN held \cup {p}
      /\ held'[p] = size /\ \A q \in DOMAIN held : held'[q] = held[q]
      /\ held' \in [DOMAIN held' -> Nat]
  BY <1>1, Taken
<1>3. P50!IInv' /\ P200!IInv'
  BY Step50, Step200 DEF IInv
<1>4. live50' = live50 /\ live200' = live200 /\ heap' = heap \cup {p}
  BY DEF pool50, pool200, Malloc
<1>5. \A q \in heap : q \in DOMAIN held
  BY DEF IInv, ReturnedHome
<1>6. HeapOK'
  BY <1>1, <1>2, <1>4, <1>5 DEF IInv, HeapOK, Away
<1>7. SizesOK'
  <2>1. \A v \in live50 : held'[Pool50!DataOf(v)] <= UnitSize50
    BY <1>2, HeldOf50
  <2>2. \A v \in live200 : held'[Pool200!DataOf(v)] <= UnitSize200
    BY <1>2, HeldOf200
  <2> QED
    BY <1>2, <1>4, <2>1, <2>2 DEF SizesOK
<1>8. ReturnedHome'
  BY <1>2, <1>4 DEF IInv, ReturnedHome
<1> QED
  BY <1>2, <1>3, <1>6, <1>7, <1>8 DEF IInv

-----------------------------------------------------------------------------
(* Free.                                                                   *)

LEMMA Given ==
  ASSUME IInv, NEW p \in DOMAIN held, held' = [q \in DOMAIN held \ {p} |-> held[q]]
  PROVE  /\ Promise!Next
         /\ DOMAIN held' = DOMAIN held \ {p}
         /\ \A q \in DOMAIN held \ {p} : held'[q] = held[q]
         /\ held' \in [DOMAIN held' -> Nat]
<1>1. p \in Address
  <2>1. live50 \subseteq Pool50!Unit /\ live200 \subseteq Pool200!Unit
    BY Held50, Held200 DEF IInv
  <2> QED
    BY <2>1, HeldBy DEF Address, IInv, HeapOK
<1>2. Promise!Give(p)
  BY DEF Promise!Give
<1> QED
  BY <1>1, <1>2 DEF Promise!Next, IInv, SizesOK

(* The tests on an address tell a unit of the one pool ...                 *)
LEMMA TellsOf50 ==
  ASSUME IInv, NEW p \in DOMAIN held, NEW v \in live50, p = Pool50!DataOf(v)
  PROVE  ~InRange200(p) /\ InRange50(p) /\ Pool50!Owns(p) /\ p \notin heap
         /\ \A w \in live200 : p # Pool200!DataOf(w)
<1>1. p \in Nat /\ PoolBufferBase50 < p /\ p < PoolBufferEnd50 /\ Pool50!Owns(p)
  BY HeldOf50, Place50, Numbers
<1>2. ~InRange200(p) /\ InRange50(p)
  BY <1>1, Numbers, MemManagerConstants DEF InRange50, InRange200
<1>3. p \notin heap
  BY <1>1, HeldOfHeap, Numbers DEF Away
<1>4. ASSUME NEW w \in live200 PROVE p # Pool200!DataOf(w)
  <2>1. /\ Pool200!DataOf(w) \in Nat /\ PoolBufferBase200 < Pool200!DataOf(w)
        /\ Pool200!DataOf(w) < PoolBufferEnd200
    BY HeldOf200, Place200, Numbers
  <2> QED
    BY <1>1, <2>1, Numbers, MemManagerConstants
<1> QED
  BY <1>1, <1>2, <1>3, <1>4

(* ... from one of the other ...                                           *)
LEMMA TellsOf200 ==
  ASSUME IInv, NEW p \in DOMAIN held, NEW v \in live200, p = Pool200!DataOf(v)
  PROVE  InRange200(p) /\ Pool200!Owns(p) /\ p \notin heap
<1>1. p \in Nat /\ PoolBufferBase200 < p /\ p < PoolBufferEnd200 /\ Pool200!Owns(p)
  BY HeldOf200, Place200, Numbers
<1>2. InRange200(p)
  BY <1>1, Numbers DEF InRange200
<1>3. p \notin heap
  BY <1>1, HeldOfHeap, Numbers DEF Away
<1> QED
  BY <1>1, <1>2, <1>3

(* ... and from a block of malloc.                                         *)
LEMMA TellsOfHeap ==
  ASSUME IInv, NEW p \in heap
  PROVE  ~Pool50!Owns(p) /\ ~Pool200!Owns(p)
BY HeldOfHeap, Numbers DEF Away, Pool50!Owns, Pool200!Owns, PoolBufferEnd50, PoolBufferEnd200

LEMMA FreeTo50 ==
  ASSUME IInv, NEW p \in DOMAIN held, held' = [q \in DOMAIN held \ {p} |-> held[q]],
         ~InRange200(p), InRange50(p), Pool50!Owns(p),
         Pool50!PoolFree(Pool50!UnitOf(p)), UNCHANGED <<pool200, heap>>
  PROVE  IInv' /\ Promise!Next
<1>1. /\ Promise!Next /\ DOMAIN held' = DOMAIN held \ {p}
      /\ \A q \in DOMAIN held \ {p} : held'[q] = held[q]
      /\ held' \in [DOMAIN held' -> Nat]
  BY Given
<1>2. PICK u \in live50 : p = Pool50!DataOf(u)
  BY HeldBy, TellsOf200, TellsOfHeap
<1>3. p \notin heap /\ \A v \in live200 : p # Pool200!DataOf(v)
  BY <1>2, TellsOf50
<1>4. Pool50!UnitOf(p) = u
  BY <1>2, HeldOf50, Place50
<1>5. live50' = live50 \ {u} /\ live200' = live200 /\ heap' = heap
  BY <1>4 DEF Pool50!PoolFree, pool200
<1>6. P50!IInv' /\ P200!IInv'
  BY <1>4, Step50, Step200 DEF IInv
<1>7. \A v \in live50 \ {u} : p # Pool50!DataOf(v)
  BY <1>2, HeldOf50, Place50
<1>8. HeapOK'
  <2>1. \A q \in heap : q \in DOMAIN held \ {p}
    BY <1>3, HeldOfHeap
  <2> QED
    BY <1>1, <1>5, <2>1 DEF IInv, HeapOK, Away
<1>9. SizesOK'
  <2>1. \A v \in live50 \ {u} : held'[Pool50!DataOf(v)] <= UnitSize50
    BY <1>1, <1>7, HeldOf50
  <2>2. \A v \in live200 : held'[Pool200!DataOf(v)] <= UnitSize200
    BY <1>1, <1>3, HeldOf200
  <2> QED
    BY <1>1, <1>5, <2>1, <2>2 DEF SizesOK
<1>10. ReturnedHome'
  BY <1>1, <1>2, <1>3, <1>5, <1>7 DEF IInv, ReturnedHome
<1> QED
  BY <1>1, <1>6, <1>8, <1>9, <1>10 DEF IInv

LEMMA FreeTo200 ==
  ASSUME IInv, NEW p \in DOMAIN held, held' = [q \in DOMAIN held \ {p} |-> held[q]],
         InRange200(p), Pool200!Owns(p),
         Pool200!PoolFree(Pool200!UnitOf(p)), UNCHANGED <<pool50, heap>>
  PROVE  IInv' /\ Promise!Next
<1>1. /\ Promise!Next /\ DOMAIN held' = DOMAIN held \ {p}
      /\ \A q \in DOMAIN held \ {p} : held'[q] = held[q]
      /\ held' \in [DOMAIN held' -> Nat]
  BY Given
<1>2. PICK u \in live200 : p = Pool200!DataOf(u)
  BY HeldBy, TellsOf50, TellsOfHeap
<1>3. p \notin heap /\ \A v \in live50 : p # Pool50!DataOf(v)
  BY <1>2, TellsOf50, TellsOf200
<1>4. Pool200!UnitOf(p) = u
  BY <1>2, HeldOf200, Place200
<1>5. live200' = live200 \ {u} /\ live50' = live50 /\ heap' = heap
  BY <1>4 DEF Pool200!PoolFree, pool50
<1>6. P50!IInv' /\ P200!IInv'
  BY <1>4, Step50, Step200 DEF IInv
<1>7. \A v \in live200 \ {u} : p # Pool200!DataOf(v)
  BY <1>2, HeldOf200, Place200
<1>8. HeapOK'
  <2>1. \A q \in heap : q \in DOMAIN held \ {p}
    BY <1>3, HeldOfHeap
  <2> QED
    BY <1>1, <1>5, <2>1 DEF IInv, HeapOK, Away
<1>9. SizesOK'
  <2>1. \A v \in live50 : held'[Pool50!DataOf(v)] <= UnitSize50
    BY <1>1, <1>3, HeldOf50
  <2>2. \A v \in live200 \ {u} : held'[Pool200!DataOf(v)] <= UnitSize200
    BY <1>1, <1>7, HeldOf200
  <2> QED
    BY <1>1, <1>5, <2>1, <2>2 DEF SizesOK
<1>10. ReturnedHome'
  BY <1>1, <1>2, <1>3, <1>5, <1>7 DEF IInv, ReturnedHome
<1> QED
  BY <1>1, <1>6, <1>8, <1>9, <1>10 DEF IInv

LEMMA FreeToHeap ==
  ASSUME IInv, NEW p \in DOMAIN held, held' = [q \in DOMAIN held \ {p} |-> held[q]],
         \/ InRange200(p) /\ ~Pool200!Owns(p)
         \/ ~InRange200(p) /\ ~(InRange50(p) /\ Pool50!Owns(p)),
         FreeHeap(p)
  PROVE  IInv' /\ Promise!Next
<1>1. /\ Promise!Next /\ DOMAIN held' = DOMAIN held \ {p}
      /\ \A q \in DOMAIN held \ {p} : held'[q] = held[q]
      /\ held' \in [DOMAIN held' -> Nat]
  BY Given
<1>2. /\ p \in heap /\ \A v \in live50 : p # Pool50!DataOf(v)
      /\ \A v \in live200 : p # Pool200!DataOf(v)
  <2>1. \A v \in live50 : p # Pool50!DataOf(v)
    BY TellsOf50
  <2>2. \A v \in live200 : p # Pool200!DataOf(v)
    BY TellsOf200
  <2> QED
    BY <2>1, <2>2, HeldBy
<1>3. live50' = live50 /\ live200' = live200 /\ heap' = heap \ {p}
  BY DEF FreeHeap, pool50, pool200
<1>4. P50!IInv' /\ P200!IInv'
  BY Step50, Step200 DEF IInv, FreeHeap
<1>5. HeapOK'
  <2>1. \A q \in heap \ {p} : q \in DOMAIN held \ {p}
    BY HeldOfHeap
  <2> QED
    BY <1>1, <1>3, <2>1 DEF IInv, HeapOK, Away
<1>6. SizesOK'
  <2>1. \A v \in live50 : held'[Pool50!DataOf(v)] <= UnitSize50
    BY <1>1, <1>2, HeldOf50
  <2>2. \A v \in live200 : held'[Pool200!DataOf(v)] <= UnitSize200
    BY <1>1, <1>2, HeldOf200
  <2> QED
    BY <1>1, <1>3, <2>1, <2>2 DEF SizesOK
<1>7. ReturnedHome'
  BY <1>1, <1>2, <1>3 DEF IInv, ReturnedHome
<1> QED
  BY <1>1, <1>4, <1>5, <1>6, <1>7 DEF IInv

-----------------------------------------------------------------------------
LEMMA InitHome == Init => IInv
<1> SUFFICES ASSUME Init PROVE IInv
  OBVIOUS
<1> USE DEF Init
<1>1. P50!IInv
  <2>1. P50!PoolInit
    BY DEF P50!PoolInit, Pool50!PoolInit, P50!Unit, Pool50!Unit
  <2> QED
    BY <2>1, Constants50, P50!InitExact
<1>2. P200!IInv
  <2>1. P200!PoolInit
    BY DEF P200!PoolInit, Pool200!PoolInit, P200!Unit, Pool200!Unit
  <2> QED
    BY <2>1, Constants200, P200!InitExact
<1>3. live50 = {} /\ live200 = {} /\ DOMAIN held = {} /\ held \in [DOMAIN held -> Nat]
  BY DEF Pool50!PoolInit, Pool200!PoolInit
<1> QED
  BY <1>1, <1>2, <1>3 DEF IInv, HeapOK, SizesOK, ReturnedHome

LEMMA NextHome == IInv /\ Next => IInv' /\ Promise!Next
<1> SUFFICES ASSUME IInv, Next PROVE IInv' /\ Promise!Next
  OBVIOUS
<1>1. ASSUME NEW size \in RequestSize, Alloc(size) PROVE IInv' /\ Promise!Next
  BY <1>1, AllocFrom50, AllocFrom200, AllocFromHeap DEF Alloc, Malloc
<1>2. ASSUME NEW p \in DOMAIN held, Free(p) PROVE IInv' /\ Promise!Next
  BY <1>2, FreeTo50, FreeTo200, FreeToHeap DEF Free
<1> QED
  BY <1>1, <1>2 DEF Next

LEMMA RestHome == IInv /\ UNCHANGED vars => IInv' /\ UNCHANGED held
<1> SUFFICES ASSUME IInv, UNCHANGED vars PROVE IInv'
  BY DEF vars
<1>1. /\ UNCHANGED pool50 /\ UNCHANGED pool200 /\ heap' = heap /\ held' = held
      /\ live50' = live50 /\ live200' = live200
  BY DEF vars, pool50, pool200
<1>2. P50!IInv' /\ P200!IInv'
  BY <1>1, Step50, Step200 DEF IInv
<1> QED
  BY <1>1, <1>2 DEF IInv, HeapOK, SizesOK, ReturnedHome, Away

(* Whatever the sizes and numbers of the units, clsMemManager::Free gives  *)
(* every pointer back to the pool, or to malloc, that it came from.        *)
THEOREM PointersGoHome == Spec => []ReturnedHome
<1>1. IInv /\ [Next]_vars => IInv'
  BY NextHome, RestHome
<1>2. IInv => ReturnedHome
  BY DEF IInv
<1> QED
  BY <1>1, <1>2, InitHome, PTL DEF Spec

(* operator new and delete implement what malloc and free promise: two     *)
(* blocks that are held never overlap.                                     *)
THEOREM PromiseKept == Spec => KeepsPromise
<1>1. Init => Promise!Init
  BY DEF Init, Promise!Init
<1>2. IInv /\ [Next]_vars => IInv' /\ [Promise!Next]_held
  BY NextHome, RestHome
<1> QED
  BY <1>1, <1>2, InitHome, PTL DEF Spec, KeepsPromise, Promise!Spec
=============================================================================
