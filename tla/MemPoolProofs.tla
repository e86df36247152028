--------------------------- MODULE MemPoolProofs ---------------------------
(***************************************************************************)
(* The free list of a pool of any size stays exact under any legal order   *)
(* of allocations and frees.                                               *)
(***************************************************************************)
EXTENDS MemPool, FiniteSetTheorems, TLAPS

(* A pool without a block serves nothing.                                  *)
NoBlock == Base = 0 => freeHead = Null /\ live = {}

IInv == PoolTypeOK /\ FreeListExact /\ NoBlock

(* The number of distinct units on a list is at most UnitNum.              *)
LEMMA ChainBound ==
  ASSUME PoolConstants, NEW n \in Nat, NEW c \in [1 .. n -> Unit],
         \A i, j \in 1 .. n : c[i] = c[j] => i = j
  PROVE  n \in 0 .. UnitNum
<1>1. c \in Injection(1 .. n, Unit)
  BY DEF Injection, IsInjective
<1>2. IsFiniteSet(Unit) /\ Cardinality(Unit) = UnitNum
  BY FS_Interval, SMT DEF Unit, PoolConstants
<1>3. Cardinality(1 .. n) = n
  BY FS_Interval, SMT
<1>4. Cardinality(1 .. n) <= Cardinality(Unit)
  BY <1>1, <1>2, FS_Injection
<1>5. n <= UnitNum
  BY <1>2, <1>3, <1>4
<1> QED
  BY <1>5 DEF PoolConstants

LEMMA InitExact ==
  ASSUME PoolConstants, PoolInit
  PROVE  IInv
<1> USE DEF PoolConstants, PoolInit
<1>1. PoolTypeOK
  BY DEF PoolTypeOK, Unit, Link
<1>2. ASSUME Base # 0
      PROVE  \E n \in 0 .. UnitNum : \E c \in [1 .. n -> Unit] :
               IsChain(c, n) /\ {c[i] : i \in 1 .. n} = Unit \ live
  <2> DEFINE c == [i \in 1 .. UnitNum |-> UnitNum - i]
  <2>1. c \in [1 .. UnitNum -> Unit]
    BY DEF Unit
  <2> HIDE DEF c
  <2>2. IsChain(c, UnitNum)
    <3>1. \A i \in 1 .. UnitNum : c[i] = UnitNum - i
      BY DEF c
    <3>2. \A i, j \in 1 .. UnitNum : c[i] = c[j] => i = j
      BY <3>1
    <3>3. freeHead = c[1]
      BY <1>2, <3>1
    <3>4. ASSUME NEW i \in 1 .. UnitNum
          PROVE  next[c[i]] = IF i = UnitNum THEN Null ELSE c[i + 1]
      <4>1. c[i] \in Unit /\ c[i] = UnitNum - i
        BY <2>1, <3>1
      <4>2. next[c[i]] = IF c[i] = 0 THEN Null ELSE c[i] - 1
        BY <4>1
      <4>3. i # UnitNum => c[i + 1] = c[i] - 1
        BY <3>1
      <4> QED
        BY <4>1, <4>2, <4>3
    <3> QED
      BY <3>2, <3>3, <3>4 DEF IsChain
  <2>3. \A u \in Unit : UnitNum - u \in 1 .. UnitNum /\ c[UnitNum - u] = u
    BY DEF Unit, c
  <2>4. {c[i] : i \in 1 .. UnitNum} = Unit \ live
    BY <2>1, <2>3
  <2> QED
    BY <2>1, <2>2, <2>4
<1>3. NoBlock
  BY DEF NoBlock
<1> QED
  BY <1>1, <1>2, <1>3 DEF IInv, FreeListExact

LEMMA AllocExact ==
  ASSUME PoolConstants, IInv, NEW size, PoolAlloc(size)
  PROVE  IInv'
<1> USE DEF PoolConstants, PoolAlloc, Serves
<1>1. freeHead \in Unit /\ Base # 0
  BY DEF IInv, PoolTypeOK, Link
<1>2. PoolTypeOK'
  BY <1>1 DEF IInv, PoolTypeOK, Link, SetPrev
<1>3. PICK n \in 0 .. UnitNum : \E c \in [1 .. n -> Unit] :
        IsChain(c, n) /\ {c[i] : i \in 1 .. n} = Unit \ live
  BY <1>1 DEF IInv, FreeListExact
<1>4. PICK c \in [1 .. n -> Unit] : IsChain(c, n) /\ {c[i] : i \in 1 .. n} = Unit \ live
  BY <1>3
<1>5. n \in Nat /\ n # 0 /\ c[1] = freeHead
  BY <1>4 DEF IsChain
<1> DEFINE m == n - 1
           d == [i \in 1 .. m |-> c[i + 1]]
<1>6. m \in 0 .. UnitNum /\ d \in [1 .. m -> Unit]
  BY <1>5
<1>7. \A i \in 1 .. m : i + 1 \in 1 .. n /\ d[i] = c[i + 1] /\ d[i] # freeHead
  BY <1>4, <1>5 DEF IsChain
<1>8. \A i, j \in 1 .. m : d[i] = d[j] => i = j
  BY <1>4, <1>5, <1>7 DEF IsChain
<1>9. freeHead' = IF m = 0 THEN Null ELSE d[1]
  BY <1>4, <1>5 DEF IsChain
<1>10. \A i \in 1 .. m : next'[d[i]] = IF i = m THEN Null ELSE d[i + 1]
  <2> SUFFICES ASSUME NEW i \in 1 .. m
               PROVE  next'[d[i]] = IF i = m THEN Null ELSE d[i + 1]
    OBVIOUS
  <2>1. next'[d[i]] = next[c[i + 1]]
    BY <1>1, <1>6, <1>7 DEF IInv, PoolTypeOK
  <2>2. next[c[i + 1]] = IF i + 1 = n THEN Null ELSE c[(i + 1) + 1]
    BY <1>4, <1>7 DEF IsChain
  <2>3. i # m => i + 1 \in 1 .. m /\ d[i + 1] = c[(i + 1) + 1]
    BY <1>5
  <2> QED
    BY <1>5, <2>1, <2>2, <2>3
<1>11. IsChain(d, m)'
  BY <1>8, <1>9, <1>10 DEF IsChain
<1>12. {d[i] : i \in 1 .. m} = Unit \ live'
  <2>1. \A i \in 1 .. n : i = 1 \/ (i - 1 \in 1 .. m /\ d[i - 1] = c[i])
    BY <1>5
  <2> HIDE DEF d
  <2>2. {d[i] : i \in 1 .. m} = {c[i] : i \in 1 .. n} \ {freeHead}
    <3>1. ASSUME NEW i \in 1 .. m PROVE d[i] \in {c[k] : k \in 1 .. n} \ {freeHead}
      BY <1>7, <3>1
    <3>2. ASSUME NEW i \in 1 .. n, c[i] # freeHead PROVE c[i] \in {d[k] : k \in 1 .. m}
      BY <1>5, <2>1, <3>2
    <3> QED
      BY <3>1, <3>2
  <2> QED
    BY <1>4, <2>2
<1>13. FreeListExact'
  BY <1>6, <1>11, <1>12 DEF FreeListExact
<1> QED
  BY <1>1, <1>2, <1>13 DEF IInv, NoBlock

LEMMA FreeExact ==
  ASSUME PoolConstants, IInv, NEW u \in live, PoolFree(u)
  PROVE  IInv'
<1> USE DEF PoolConstants, PoolFree
<1>1. u \in Unit /\ Base # 0
  BY DEF IInv, PoolTypeOK, NoBlock
<1>2. PoolTypeOK'
  BY <1>1 DEF IInv, PoolTypeOK, Link, SetPrev
<1>3. PICK n \in 0 .. UnitNum : \E c \in [1 .. n -> Unit] :
        IsChain(c, n) /\ {c[i] : i \in 1 .. n} = Unit \ live
  BY <1>1 DEF IInv, FreeListExact
<1>4. PICK c \in [1 .. n -> Unit] : IsChain(c, n) /\ {c[i] : i \in 1 .. n} = Unit \ live
  BY <1>3
<1>5. n \in Nat /\ \A i \in 1 .. n : c[i] # u
  BY <1>4
<1> DEFINE m == n + 1
           d == [i \in 1 .. m |-> IF i = 1 THEN u ELSE c[i - 1]]
<1>6. d \in [1 .. m -> Unit]
  BY <1>1, <1>5
<1>7. d[1] = u /\ \A i \in 1 .. n : d[i + 1] = c[i]
  BY <1>5
<1>8. \A i, j \in 1 .. m : d[i] = d[j] => i = j
  <2>1. \A i \in 1 .. m : i = 1 \/ (i - 1 \in 1 .. n /\ d[i] = c[i - 1])
    BY <1>5
  <2> QED
    BY <1>4, <1>5, <1>7, <2>1 DEF IsChain
<1>9. m \in 0 .. UnitNum
  <2>1. m \in Nat
    BY <1>5
  <2> HIDE DEF d, m
  <2> QED
    BY <1>6, <1>8, <2>1, ChainBound
<1>10. \A i \in 1 .. m : next'[d[i]] = IF i = m THEN Null ELSE d[i + 1]
  <2> SUFFICES ASSUME NEW i \in 1 .. m
               PROVE  next'[d[i]] = IF i = m THEN Null ELSE d[i + 1]
    OBVIOUS
  <2>1. CASE i = 1
    <3>1. next'[d[i]] = freeHead
      BY <1>1, <1>7, <2>1 DEF IInv, PoolTypeOK
    <3>2. freeHead = IF n = 0 THEN Null ELSE c[1]
      BY <1>4 DEF IsChain
    <3> QED
      BY <1>5, <1>7, <2>1, <3>1, <3>2
  <2>2. CASE i # 1
    <3>1. i - 1 \in 1 .. n /\ d[i] = c[i - 1]
      BY <1>5, <2>2
    <3>2. next'[d[i]] = next[c[i - 1]]
      BY <1>1, <1>5, <3>1 DEF IInv, PoolTypeOK
    <3>3. next[c[i - 1]] = IF i - 1 = n THEN Null ELSE c[(i - 1) + 1]
      BY <1>4, <3>1 DEF IsChain
    <3>4. i # m => d[i + 1] = c[(i - 1) + 1]
      BY <1>5, <2>2
    <3> QED
      BY <1>5, <3>1, <3>2, <3>3, <3>4
  <2> QED
    BY <2>1, <2>2
<1>11. IsChain(d, m)'
  BY <1>5, <1>7, <1>8, <1>10 DEF IsChain
<1>12. {d[i] : i \in 1 .. m} = Unit \ live'
  <2>1. \A i \in 1 .. m : i = 1 \/ (i - 1 \in 1 .. n /\ d[i] = c[i - 1])
    BY <1>5
  <2>2. 1 \in 1 .. m /\ \A i \in 1 .. n : i + 1 \in 1 .. m
    BY <1>5
  <2>3. {d[i] : i \in 1 .. m} = {c[i] : i \in 1 .. n} \cup {u}
    BY <1>7, <2>1, <2>2
  <2> QED
    BY <1>1, <1>4, <2>3
<1>13. FreeListExact'
  BY <1>6, <1>9, <1>11, <1>12 DEF FreeListExact
<1> QED
  BY <1>1, <1>2, <1>13 DEF IInv, NoBlock

LEMMA Inductive ==
  ASSUME PoolConstants, IInv, [PoolNext]_poolVars
  PROVE  IInv'
<1>1. CASE PoolAlloc(UnitSize)
  BY <1>1, AllocExact
<1>2. ASSUME NEW u \in live, PoolFree(u) PROVE IInv'
  BY <1>2, FreeExact
<1>3. CASE UNCHANGED poolVars
  BY <1>3 DEF IInv, PoolTypeOK, FreeListExact, IsChain, NoBlock, poolVars
<1> QED
  BY <1>1, <1>2, <1>3 DEF PoolNext

(* Through every legal order of calls, the free list of clsMemPool has no  *)
(* cycle and holds exactly the units no caller holds.                      *)
THEOREM FreeListStaysExact ==
  ASSUME PoolConstants
  PROVE  PoolSpec => []FreeListExact
<1>1. IInv => FreeListExact
  BY DEF IInv
<1> QED
  BY <1>1, InitExact, Inductive, PTL DEF PoolSpec

(* The head of the free list is nobody's.                                  *)
LEMMA HeadIsFree ==
  ASSUME PoolConstants, IInv
  PROVE  NeverTwice
<1> SUFFICES ASSUME freeHead # Null PROVE freeHead \notin live
  BY DEF NeverTwice
<1>1. Base # 0
  BY DEF IInv, NoBlock
<1>2. PICK n \in 0 .. UnitNum : \E c \in [1 .. n -> Unit] :
        IsChain(c, n) /\ {c[i] : i \in 1 .. n} = Unit \ live
  BY <1>1 DEF IInv, FreeListExact
<1>3. PICK c \in [1 .. n -> Unit] : IsChain(c, n) /\ {c[i] : i \in 1 .. n} = Unit \ live
  BY <1>2
<1>4. n # 0 /\ freeHead = c[1] /\ 1 \in 1 .. n
  BY <1>3 DEF IsChain, PoolConstants
<1> QED
  BY <1>3, <1>4

(* Alloc never hands out a unit that a caller still holds.                 *)
THEOREM NeverHandedOutTwice ==
  ASSUME PoolConstants
  PROVE  PoolSpec => []NeverTwice
<1> QED
  BY HeadIsFree, InitExact, Inductive, PTL DEF PoolSpec

-----------------------------------------------------------------------------
(* Where the units are.                                                    *)

(* A unit lies in the block, and Free finds it by its pointer.             *)
LEMMA UnitInBlock ==
  ASSUME PoolConstants, Base # 0, NEW u \in Unit
  PROVE  /\ DataOf(u) \in Nat /\ Owns(DataOf(u)) /\ UnitOf(DataOf(u)) = u
         /\ DataOf(u) + UnitSize <= Base + BlockSize
<1> USE DEF PoolConstants, Unit, DataOf, Owns, UnitOf
<1>1. Stride \in Nat \ {0} /\ Stride = UnitSize + Header
  BY DEF Stride
<1>2. BlockSize = UnitNum * Stride /\ u * Stride \in Nat
  BY <1>1 DEF BlockSize
<1>3. u * Stride + Stride <= UnitNum * Stride
  BY <1>1
<1>4. (u * Stride) \div Stride = u
  BY <1>1
<1>5. DataOf(u) - Header - Base = u * Stride
  BY <1>1, <1>2
<1> HIDE DEF UnitOf
<1>6. UnitOf(DataOf(u)) = u
  BY <1>4, <1>5 DEF UnitOf
<1> QED
  BY <1>1, <1>2, <1>3, <1>6

(* Two units do not overlap.                                               *)
LEMMA UnitsApart ==
  ASSUME PoolConstants, NEW u \in Unit, NEW v \in Unit, u < v
  PROVE  DataOf(u) + UnitSize < DataOf(v)
<1>1. Stride \in Nat \ {0} /\ Stride = UnitSize + Header
  BY DEF Stride, PoolConstants
<1>2. u * Stride \in Nat /\ v * Stride \in Nat /\ u * Stride + Stride <= v * Stride
  BY <1>1 DEF Unit, PoolConstants
<1> QED
  BY <1>1, <1>2 DEF DataOf, PoolConstants
=============================================================================
