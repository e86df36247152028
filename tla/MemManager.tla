----------------------------- MODULE MemManager -----------------------------
(***************************************************************************)
(* clsMemManager: operator new and delete of the whole program.  A request *)
(* goes to one of two pools or to malloc by its size; a pointer comes back *)
(* to one of them by its address alone.                                    *)
(***************************************************************************)
EXTENDS Integers

CONSTANTS
  UnitNum50, UnitSize50, PoolBufferBase50,
  UnitNum200, UnitSize200, PoolBufferBase200,
  Header,
  Null,
  HeapAddress,  \* addresses malloc may return
  RequestSize   \* sizes callers ask for

VARIABLES
  prev50, next50, freeHead50, allocHead50, live50,
  prev200, next200, freeHead200, allocHead200, live200,
  heap,         \* blocks malloc handed out and free has not had back
  held          \* pointers the program holds, with the size it asked for

Pool50 == INSTANCE MemPool WITH
  UnitNum <- UnitNum50, UnitSize <- UnitSize50, Base <- PoolBufferBase50,
  prev <- prev50, next <- next50, freeHead <- freeHead50,
  allocHead <- allocHead50, live <- live50

Pool200 == INSTANCE MemPool WITH
  UnitNum <- UnitNum200, UnitSize <- UnitSize200, Base <- PoolBufferBase200,
  prev <- prev200, next <- next200, freeHead <- freeHead200,
  allocHead <- allocHead200, live <- live200

pool50  == <<prev50, next50, freeHead50, allocHead50, live50>>
pool200 == <<prev200, next200, freeHead200, allocHead200, live200>>
vars    == <<pool50, pool200, heap, held>>

PoolBufferEnd50  == PoolBufferBase50 + Pool50!BlockSize
PoolBufferEnd200 == PoolBufferBase200 + Pool200!BlockSize

(* The blocks of the pools do not overlap.                                *)
ASSUME MemManagerConstants ==
  /\ Pool50!PoolConstants /\ Pool200!PoolConstants
  /\ PoolBufferEnd50 <= PoolBufferBase200 \/ PoolBufferEnd200 <= PoolBufferBase50
  /\ RequestSize \subseteq Nat /\ HeapAddress \subseteq Nat

Address == {Pool50!DataOf(u) : u \in Pool50!Unit}
           \cup {Pool200!DataOf(u) : u \in Pool200!Unit} \cup HeapAddress

(* malloc and free themselves keep their promise, also to the pools, whose *)
(* blocks come from malloc.                                                *)
Outside(p, size) ==
  /\ \A q \in heap : p # q /\ (p .. p + size - 1) \cap (q .. q + held[q] - 1) = {}
  /\ p + size <= PoolBufferBase50 \/ PoolBufferEnd50 <= p
  /\ p + size <= PoolBufferBase200 \/ PoolBufferEnd200 <= p

Malloc(p, size) ==
  /\ p \in HeapAddress /\ Outside(p, size)
  /\ heap' = heap \cup {p}

Hold(p, size) ==
  held' = [q \in DOMAIN held \cup {p} |-> IF q = p THEN size ELSE held[q]]

(* clsMemManager::Alloc, and clsMemPool::Alloc of the pool it picks.       *)
Alloc(size) ==
  \/ /\ UnitSize50 < size /\ size <= UnitSize200 /\ Pool200!Serves(size)
     /\ Hold(Pool200!DataOf(freeHead200), size)
     /\ Pool200!PoolAlloc(size)
     /\ UNCHANGED <<pool50, heap>>
  \/ /\ 0 < size /\ size <= UnitSize50 /\ Pool50!Serves(size)
     /\ Hold(Pool50!DataOf(freeHead50), size)
     /\ Pool50!PoolAlloc(size)
     /\ UNCHANGED <<pool200, heap>>
  \/ /\ \/ size = 0 \/ size > UnitSize200
        \/ UnitSize50 < size /\ ~Pool200!Serves(size)
        \/ size <= UnitSize50 /\ ~Pool50!Serves(size)
     /\ \E p \in HeapAddress : Malloc(p, size) /\ Hold(p, size)
     /\ UNCHANGED <<pool50, pool200>>

(* With the ends of the block exchanged.                                   *)
InRange200Swapped(p) == PoolBufferEnd200 <= p /\ p <= PoolBufferBase200

(* clsMemManager::Free: the range test includes both ends, clsMemPool::Free *)
(* of the pool excludes them and gives the rest to free.                   *)
InRange50(p)  == PoolBufferBase50 <= p /\ p <= PoolBufferEnd50
InRange200(p) == PoolBufferBase200 <= p /\ p <= PoolBufferEnd200

FreeHeap(p) == heap' = heap \ {p} /\ UNCHANGED <<pool50, pool200>>

Free(p) ==
  /\ held' = [q \in DOMAIN held \ {p} |-> held[q]]
  /\ \/ /\ InRange200(p) /\ Pool200!Owns(p)
        /\ Pool200!PoolFree(Pool200!UnitOf(p))
        /\ UNCHANGED <<pool50, heap>>
     \/ /\ ~InRange200(p) /\ InRange50(p) /\ Pool50!Owns(p)
        /\ Pool50!PoolFree(Pool50!UnitOf(p))
        /\ UNCHANGED <<pool200, heap>>
     \/ /\ \/ InRange200(p) /\ ~Pool200!Owns(p)
           \/ ~InRange200(p) /\ ~(InRange50(p) /\ Pool50!Owns(p))
        /\ FreeHeap(p)

Init == /\ Pool50!PoolInit /\ Pool200!PoolInit
        /\ heap = {} /\ held = <<>>

Next == \/ \E size \in RequestSize : Alloc(size)
        \/ \E p \in DOMAIN held : Free(p)

Spec == Init /\ [][Next]_vars

-----------------------------------------------------------------------------
(* A pointer goes back where it came from: each pool's units in use and    *)
(* malloc's blocks in use are exactly the pointers the program holds.      *)
ReturnedHome ==
  DOMAIN held = {Pool50!DataOf(u) : u \in live50}
                \cup {Pool200!DataOf(u) : u \in live200} \cup heap

Promise == INSTANCE Allocator

(* operator new and delete implement the promise of malloc and free.       *)
KeepsPromise == Promise!Spec
=============================================================================
