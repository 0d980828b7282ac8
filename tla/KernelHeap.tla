------------------------------ MODULE KernelHeap ------------------------------
(***************************************************************************)
(* The kernel heap (memory/KernelHeap.cpp).  Addresses and sizes are in     *)
(* units of 64 bytes, counted from HeapBase: Allocate rounds every request  *)
(* up to whole units and adds one for the header.  The header is written    *)
(* after the lock of the heap is released, and Free reads it before it      *)
(* takes the lock.  There are always pages left to grow the heap by.        *)
(***************************************************************************)
EXTENDS FreeList

CONSTANTS Thread,    \* the callers of the heap
          PageUnits, \* units in a page
          MaxHeap,   \* bound: size of the heap
          MaxBlock   \* bound: size of a block, its header included

ASSUME HeapAssumption ==
         /\ PageUnits \in Nat \ {0}
         /\ MaxHeap \in Nat
         /\ MaxBlock \in Nat

VARIABLES heap,     \* g_FreeList, and the sizes stored in the memory of the heap
          heapPos,  \* g_HeapPos
          used,     \* addresses of the blocks in use
          length,   \* ghost: length[b], the size Allocate reserved for block b
          writing,  \* writing[t]: blocks whose header t has still to write
          freeing   \* freeing[t]: [block, size] pairs that t will put on the list

vars == <<heap, heapPos, used, length, writing, freeing>>

Addr == 0 .. MaxHeap

TypeOK ==
  /\ IsList(heap.segs) /\ heap.segs.elems \subseteq Addr
  /\ heap.size \in [Addr -> 0 .. MaxHeap]
  /\ heapPos \in Addr
  /\ used \subseteq Addr
  /\ length \in [Addr -> 0 .. MaxHeap]
  /\ writing \in [Thread -> SUBSET used]
  /\ freeing \in [Thread -> SUBSET [block : Addr, size : 0 .. MaxHeap]]

Init ==
  /\ heap = [segs |-> EmptyList, size |-> [a \in Addr |-> 0]]
  /\ heapPos = 0
  /\ used = {}
  /\ length = [a \in Addr |-> 0]
  /\ writing = [t \in Thread |-> {}]
  /\ freeing = [t \in Thread |-> {}]

\* A thread is in one call of the heap at a time.
Outside(t) == writing[t] = {} /\ freeing[t] = {}

\* ReserveNew(n) adds whole pages: their number of units.
Pages(n) == ((n + PageUnits - 1) \div PageUnits) * PageUnits

\* The first segment of h that fits is taken.
Take(t, h, n) ==
  \E b \in Fit(h, n) :
    /\ IsFirstIn(h.segs, Fit(h, n), b)
    /\ heap' = MarkUsed(h, b, n)
    /\ used' = used \cup {b}
    /\ length' = [length EXCEPT ![b] = n]
    /\ writing' = [writing EXCEPT ![t] = {b}]

\* Allocate up to the release of the lock.
Allocate(t, n) ==
  /\ Outside(t)
  /\ IF Fit(heap, n) # {}
       THEN Take(t, heap, n) /\ UNCHANGED heapPos
       ELSE /\ heapPos + Pages(n) <= MaxHeap
            /\ Take(t, MarkFree(heap, heapPos, Pages(n)), n)
            /\ heapPos' = heapPos + Pages(n)
  /\ UNCHANGED freeing

\* Mutant: the header says how much the caller may use.
WriteHeaderBare(t) ==
  \E b \in writing[t] :
    /\ heap' = [heap EXCEPT !.size[b] = length[b] - 1]
    /\ writing' = [writing EXCEPT ![t] = {}]
    /\ UNCHANGED <<heapPos, used, length, freeing>>

\* Allocate writes the header and returns.
WriteHeader(t) ==
  \E b \in writing[t] :
    /\ heap' = [heap EXCEPT !.size[b] = length[b]]
    /\ writing' = [writing EXCEPT ![t] = {}]
    /\ UNCHANGED <<heapPos, used, length, freeing>>

\* Free reads the header of a block that somebody allocated; its owner frees
\* it once.
Free(t, b) ==
  /\ Outside(t)
  /\ b \in used
  /\ \A u \in Thread : b \notin writing[u] /\ \A f \in freeing[u] : f.block # b
  /\ freeing' = [freeing EXCEPT ![t] = {[block |-> b, size |-> heap.size[b]]}]
  /\ UNCHANGED <<heap, heapPos, used, length, writing>>

\* Free puts the block on the list.
FreeBlock(t) ==
  \E f \in freeing[t] :
    /\ heap' = MarkFree(heap, f.block, f.size)
    /\ used' = used \ {f.block}
    /\ length' = [length EXCEPT ![f.block] = 0]
    /\ freeing' = [freeing EXCEPT ![t] = {}]
    /\ UNCHANGED <<heapPos, writing>>

Next ==
  \E t \in Thread :
    \/ \E n \in 1 .. MaxBlock : Allocate(t, n)
    \/ WriteHeader(t)
    \/ \E b \in Addr : Free(t, b)
    \/ FreeBlock(t)

Spec == Init /\ [][Next]_vars
-------------------------------------------------------------------------------
\* The extent of the free segment or block at a.
End(a) == a + (IF a \in used THEN length[a] ELSE heap.size[a])

Pieces == used \cup heap.segs.elems

\* No two blocks in use overlap, and none overlaps free memory (MarkUsed, MarkFree).
Disjoint ==
  /\ used \cap heap.segs.elems = {}
  /\ \A a, b \in Pieces : a < b => End(a) <= b

\* Every unit of the heap is in use or free: splitting and joining segments
\* loses nothing.
NothingLost == \A u \in 0 .. heapPos - 1 : \E a \in Pieces : a <= u /\ u < End(a)

\* No free segment has a free neighbour: a heap whose blocks were all freed is one
\* segment again (JoinAdjacent).
Coalesced == \A a, b \in heap.segs.elems : End(a) # b

\* The header that Free reads is the one Allocate wrote, whatever the others
\* did to the list since.
HeaderKept == \A t \in Thread : \A f \in freeing[t] : f.size = length[f.block]
===============================================================================
