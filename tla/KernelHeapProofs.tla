--------------------------- MODULE KernelHeapProofs ---------------------------
(***************************************************************************)
(* The kernel heap divides its memory into blocks and free segments that    *)
(* neither overlap nor leave gaps, joins every free segment with its        *)
(* neighbours, and finds the header of a block as Allocate wrote it, for    *)
(* every size of the heap, of its pages and of its blocks.                  *)
(***************************************************************************)
EXTENDS KernelHeap, AnchorListProofs

\* Where the block or free segment at a ends, with blocks U of lengths L.
EndIn(h, U, L, a) == a + (IF a \in U THEN L[a] ELSE h.size[a])

Shaped(h) ==
  /\ h = [segs |-> h.segs, size |-> h.size]
  /\ IsList(h.segs)
  /\ h.segs.elems \subseteq Addr
  /\ h.size \in [Addr -> 0 .. MaxHeap]

\* The free segments of h and the blocks U are disjoint, not empty, and cover the
\* memory below top.
Tiled(h, U, L, top) ==
  /\ U \cap h.segs.elems = {}
  /\ \A a \in U \cup h.segs.elems : a < EndIn(h, U, L, a) /\ EndIn(h, U, L, a) <= top
  /\ \A a, b \in U \cup h.segs.elems : a < b => EndIn(h, U, L, a) <= b
  /\ \A u \in 0 .. top - 1 :
       \E a \in U \cup h.segs.elems : a <= u /\ u < EndIn(h, U, L, a)

\* The segment at a ends where the one at b begins.
Touch(h, a, b) == a + h.size[a] = b

\* No two free segments touch, except that c may touch others.
CoalescedBut(h, c) ==
  \A a, b \in h.segs.elems : a # c /\ b # c => ~Touch(h, a, b)
-------------------------------------------------------------------------------
\* h with the segment at hi joined to the one at lo.
Joined(h, lo, hi) ==
  [segs |-> Erase(h.segs, {hi}),
   size |-> [h.size EXCEPT ![lo] = @ + h.size[hi], ![hi] = 0]]

\* In g, the segment at lo has taken up the one at hi; the others are those of h.
Grown(h, g, lo, hi) ==
  /\ g.segs.elems = h.segs.elems \ {hi}
  /\ lo \in g.segs.elems /\ lo < hi
  /\ g.size[lo] = h.size[lo] + h.size[hi]
  /\ \A x \in Addr \ {lo, hi} : g.size[x] = h.size[x]

\* Joining two segments that touch loses and doubles no memory, and changes no size
\* but theirs.
LEMMA JoinTiles ==
  ASSUME NEW U \in SUBSET Addr, NEW L \in [Addr -> 0 .. MaxHeap], NEW top \in Addr,
         NEW h, Shaped(h), Tiled(h, U, L, top),
         NEW lo \in h.segs.elems, NEW hi \in h.segs.elems, Touch(h, lo, hi)
  PROVE  /\ Shaped(Joined(h, lo, hi))
         /\ Tiled(Joined(h, lo, hi), U, L, top)
         /\ Grown(h, Joined(h, lo, hi), lo, hi)
<1> USE HeapAssumption DEF Addr
<1> DEFINE g == Joined(h, lo, hi)
           m == h.size[lo]
           n == h.size[hi]
<1>0. /\ lo \in Nat /\ hi \in Nat /\ m \in Nat /\ n \in Nat
      /\ MaxHeap \in Nat /\ top <= MaxHeap /\ top \in Nat
      /\ lo + m = hi /\ hi + n <= top /\ lo < hi /\ hi < hi + n
  BY DEF Shaped, Tiled, EndIn, Touch
<1>1. /\ lo \in Addr /\ hi \in Addr /\ lo \notin U /\ hi \notin U
      /\ h.size[lo] \in Nat /\ h.size[hi] \in Nat
      /\ lo + h.size[lo] = hi /\ hi + h.size[hi] <= top
      /\ lo < hi /\ hi < hi + h.size[hi]
  BY <1>0 DEF Shaped, Tiled
<1>2. g.segs = Erase(h.segs, {hi}) /\ g = [segs |-> g.segs, size |-> g.size]
      /\ g.size = [h.size EXCEPT ![lo] = @ + h.size[hi], ![hi] = 0]
  BY DEF Joined
<1>3. IsList(g.segs) /\ g.segs.elems = h.segs.elems \ {hi}
  BY <1>2, EraseList DEF Shaped
<1>4. /\ g.size[lo] = h.size[lo] + h.size[hi]
      /\ \A x \in Addr \ {lo, hi} : g.size[x] = h.size[x]
      /\ g.size \in [Addr -> 0 .. MaxHeap]
  <2>1. m + n \in 0 .. MaxHeap /\ lo # hi
    <3> HIDE DEF m, n, Addr
    <3> QED
      BY <1>0
  <2>2. g.size = [x \in Addr |-> IF x = lo THEN h.size[lo] + h.size[hi]
                                  ELSE IF x = hi THEN 0 ELSE h.size[x]]
    BY <1>1, <1>2, <2>1 DEF Shaped
  <2>3. \A x \in Addr : h.size[x] \in 0 .. MaxHeap
    BY DEF Shaped
  <2> HIDE DEF g
  <2>4. /\ g.size[lo] = h.size[lo] + h.size[hi] /\ g.size[hi] = 0
        /\ \A x \in Addr \ {lo, hi} : g.size[x] = h.size[x]
    BY <1>1, <2>1, <2>2
  <2>5. \A x \in Addr : g.size[x] \in 0 .. MaxHeap
    BY <2>1, <2>3, <2>4
  <2>6. g.size \in [Addr -> 0 .. MaxHeap]
    BY <2>2, <2>5
  <2> QED
    BY <2>4, <2>6
<1>5. Shaped(g)
  BY <1>2, <1>3, <1>4 DEF Shaped
<1> HIDE DEF g
<1> DEFINE P == U \cup h.segs.elems
           Q == U \cup g.segs.elems
           E(a) == EndIn(h, U, L, a)
           F(a) == EndIn(g, U, L, a)
<1>6. P \subseteq Addr /\ Q = P \ {hi} /\ lo \in Q /\ hi \in P
  BY <1>1, <1>3 DEF Shaped
<1>7. F(lo) = E(hi) /\ E(lo) = hi /\ \A a \in Q : a # lo => F(a) = E(a)
  <2>1. F(lo) = lo + g.size[lo] /\ E(hi) = hi + h.size[hi] /\ E(lo) = lo + h.size[lo]
    BY <1>1 DEF EndIn
  <2>2. \A a \in Q : a # lo => a \in Addr \ {lo, hi}
    BY <1>6
  <2>3. \A a \in Q : a # lo => F(a) = E(a)
    BY <1>4, <2>2 DEF EndIn
  <2>4. F(lo) = E(hi) /\ E(lo) = hi
    <3> HIDE DEF m, n, E, F, Addr
    <3>1. lo + (m + n) = hi + n
      BY <1>0
    <3> QED
      BY <1>0, <1>4, <2>1, <3>1, Zenon DEF m, n
  <2> QED
    BY <2>3, <2>4
<1>8. /\ \A a \in P : E(a) \in Nat /\ a < E(a) /\ E(a) <= top
      /\ \A a, b \in P : a < b => E(a) <= b
      /\ \A u \in 0 .. top - 1 : \E a \in P : a <= u /\ u < E(a)
  <2>1. \A a \in P : E(a) \in Nat
    BY <1>6 DEF EndIn, Shaped
  <2> QED
    BY <2>1 DEF Tiled
<1> HIDE DEF P, Q, E, F
<1>9. ASSUME NEW a \in Q
      PROVE  a < F(a) /\ F(a) <= top
  <2>1. CASE a = lo
    BY <1>1, <1>6, <1>7, <1>8, <2>1
  <2>2. CASE a # lo
    BY <1>6, <1>7, <1>8, <2>2
  <2> QED
    BY <2>1, <2>2
<1>10. \A a, b \in Q : a < b => F(a) <= b
  <2> SUFFICES ASSUME NEW a \in Q, NEW b \in Q, a < b
               PROVE  F(a) <= b
    OBVIOUS
  <2>1. CASE a = lo
    <3>1. hi < b
      BY <1>1, <1>6, <1>7, <1>8, <2>1
    <3> QED
      BY <1>6, <1>7, <1>8, <2>1, <3>1
  <2>2. CASE a # lo
    BY <1>6, <1>7, <1>8, <2>2
  <2> QED
    BY <2>1, <2>2
<1>11. ASSUME NEW u \in 0 .. top - 1
       PROVE  \E a \in Q : a <= u /\ u < F(a)
  <2>1. PICK a \in P : a <= u /\ u < E(a)
    BY <1>8
  <2>2. CASE a = hi
    BY <1>1, <1>6, <1>7, <2>1, <2>2
  <2>3. CASE a = lo
    BY <1>1, <1>6, <1>7, <1>8, <2>1, <2>3
  <2>4. CASE a # hi /\ a # lo
    BY <1>6, <1>7, <2>1, <2>4
  <2> QED
    BY <2>2, <2>3, <2>4
<1>12. U \cap g.segs.elems = {}
  BY <1>3 DEF Tiled
<1>13. Tiled(g, U, L, top)
  BY <1>9, <1>10, <1>11, <1>12 DEF Tiled, Q, F
<1> QED
  BY <1>1, <1>3, <1>4, <1>5, <1>13 DEF g, Grown

\* A free segment has at most one neighbour on either side, so JoinFirst finds
\* nothing, the segment behind, or the one in front.
LEMMA JoinFirstCases ==
  ASSUME NEW U \in SUBSET Addr, NEW L \in [Addr -> 0 .. MaxHeap], NEW top \in Addr,
         NEW h, Shaped(h), Tiled(h, U, L, top), NEW c \in h.segs.elems
  PROVE  \/ Adjacent(h, c) = {} /\ JoinFirst(h, c) = [heap |-> h, cmp |-> c]
         \/ \E a \in h.segs.elems :
              Touch(h, c, a) /\ JoinFirst(h, c) = [heap |-> Joined(h, c, a), cmp |-> c]
         \/ \E a \in h.segs.elems :
              Touch(h, a, c) /\ JoinFirst(h, c) = [heap |-> Joined(h, a, c), cmp |-> a]
<1> USE HeapAssumption
<1> DEFINE N == Adjacent(h, c)
           a == CHOOSE x \in N : IsFirstIn(h.segs, N, x)
<1>1. N = {x \in h.segs.elems : Touch(h, x, c) \/ Touch(h, c, x)}
  BY DEF Adjacent, Touch
<1>2. CASE N = {}
  BY <1>2 DEF JoinFirst
<1>3. ASSUME N # {}
      PROVE  a \in N
  <2>1. \A x, y \in h.segs.elems : Touch(h, x, c) /\ Touch(h, y, c) => x = y
    <3>1. SUFFICES ASSUME NEW x \in h.segs.elems, NEW y \in h.segs.elems,
                          x + h.size[x] = c, y + h.size[y] = c, x < y
                   PROVE  FALSE
      BY DEF Touch, Shaped, Addr
    <3>2. /\ x \in Nat /\ y \in Nat /\ c \in Nat /\ h.size[x] \in Nat /\ h.size[y] \in Nat
          /\ x \notin U /\ y \notin U
      BY DEF Shaped, Tiled, Addr
    <3>3. EndIn(h, U, L, x) = c /\ EndIn(h, U, L, y) = c
      BY <3>1, <3>2 DEF EndIn
    <3> QED
      BY <3>1, <3>2, <3>3 DEF Tiled
  <2>2. \A x, y \in h.segs.elems : Touch(h, c, x) /\ Touch(h, c, y) => x = y
    BY DEF Touch
  <2>3. PICK x \in N : TRUE
    BY <1>3
  <2>4. CASE IsFirstIn(h.segs, N, x)
    BY <2>3, <2>4
  <2>5. CASE ~IsFirstIn(h.segs, N, x)
    <3>1. PICK y \in N : <<y, x>> \in h.segs.before
      BY <1>1, <2>3, <2>5 DEF IsFirstIn
    <3>2. y # x /\ <<x, y>> \notin h.segs.before /\ <<y, y>> \notin h.segs.before
      BY <1>1, <2>3, <3>1 DEF Shaped, IsList
    <3>3. \A z \in N : z = x \/ z = y
      BY <1>1, <2>1, <2>2, <2>3, <3>1, <3>2
    <3>4. IsFirstIn(h.segs, N, y)
      BY <1>1, <3>1, <3>2, <3>3 DEF IsFirstIn
    <3> QED
      BY <3>1, <3>4
  <2> QED
    BY <2>4, <2>5
<1>4. CASE N # {} /\ Touch(h, c, a)
  <2>1. a \in h.segs.elems
    BY <1>1, <1>3, <1>4
  <2>2. JoinFirst(h, c) = [heap |-> Joined(h, c, a), cmp |-> c]
    BY <1>4 DEF JoinFirst, Joined, Touch
  <2> QED
    BY <1>4, <2>1, <2>2
<1>5. CASE N # {} /\ ~Touch(h, c, a)
  <2>1. a \in h.segs.elems /\ Touch(h, a, c)
    BY <1>1, <1>3, <1>5
  <2>2. JoinFirst(h, c) = [heap |-> Joined(h, a, c), cmp |-> a]
    BY <1>5 DEF JoinFirst, Joined, Touch
  <2> QED
    BY <2>1, <2>2
<1> QED
  BY <1>2, <1>4, <1>5

\* No free segment begins where c ends, and none ends where c begins.
NoneBehind(h, c) == \A a \in h.segs.elems : ~Touch(h, c, a)
NoneBefore(h, c) == \A a \in h.segs.elems : ~Touch(h, a, c)

\* A join takes away a neighbour of the segment it is made for, and gives it none.
LEMMA JoinFirstTiles ==
  ASSUME NEW U \in SUBSET Addr, NEW L \in [Addr -> 0 .. MaxHeap], NEW top \in Addr,
         NEW h, Shaped(h), Tiled(h, U, L, top), NEW c \in h.segs.elems,
         CoalescedBut(h, c)
  PROVE  LET g == JoinFirst(h, c).heap
             d == JoinFirst(h, c).cmp
         IN  /\ Shaped(g) /\ Tiled(g, U, L, top)
             /\ d \in g.segs.elems /\ CoalescedBut(g, d)
             /\ g.segs.elems \subseteq h.segs.elems
             /\ \A x \in Addr \ h.segs.elems : g.size[x] = h.size[x]
             /\ NoneBehind(g, d) \/ NoneBefore(g, d)
             /\ NoneBehind(h, c) \/ NoneBefore(h, c) => NoneBehind(g, d) /\ NoneBefore(g, d)
<1> USE HeapAssumption
<1>0. h.segs.elems \subseteq Nat /\ \A x \in h.segs.elems : h.size[x] \in Nat \ {0}
  BY DEF Shaped, Tiled, EndIn, Addr
<1>1. CASE Adjacent(h, c) = {} /\ JoinFirst(h, c) = [heap |-> h, cmp |-> c]
  <2>1. NoneBehind(h, c) /\ NoneBefore(h, c)
    BY <1>1 DEF NoneBehind, NoneBefore, Adjacent, Touch
  <2> QED
    BY <1>1, <2>1
<1>2. ASSUME NEW a \in h.segs.elems, Touch(h, c, a),
             JoinFirst(h, c) = [heap |-> Joined(h, c, a), cmp |-> c]
      PROVE  LET g == JoinFirst(h, c).heap
                 d == JoinFirst(h, c).cmp
             IN  /\ Shaped(g) /\ Tiled(g, U, L, top)
                 /\ d \in g.segs.elems /\ CoalescedBut(g, d)
                 /\ g.segs.elems \subseteq h.segs.elems
                 /\ \A x \in Addr \ h.segs.elems : g.size[x] = h.size[x]
                 /\ NoneBehind(g, d) /\ (NoneBefore(h, c) => NoneBefore(g, d))
                 /\ ~NoneBehind(h, c)
  <2> DEFINE g == Joined(h, c, a)
  <2>1. Shaped(g) /\ Tiled(g, U, L, top) /\ Grown(h, g, c, a)
    BY <1>2, JoinTiles
  <2> HIDE DEF g
  <2>2. \A x \in g.segs.elems \ {c} : g.size[x] = h.size[x]
    BY <2>1 DEF Shaped, Grown
  <2>3. CoalescedBut(g, c)
    BY <2>1, <2>2 DEF CoalescedBut, Touch, Grown
  <2>4. NoneBehind(g, c)
    BY <1>0, <1>2, <2>1 DEF NoneBehind, CoalescedBut, Touch, Grown
  <2>5. NoneBefore(h, c) => NoneBefore(g, c)
    BY <1>0, <2>1, <2>2 DEF NoneBefore, Touch, Grown
  <2>6. ~NoneBehind(h, c)
    BY <1>2 DEF NoneBehind
  <2>7. \A x \in Addr \ h.segs.elems : g.size[x] = h.size[x]
    BY <1>2, <2>1 DEF Grown
  <2> QED
    BY <1>2, <2>1, <2>3, <2>4, <2>5, <2>6, <2>7 DEF g, Grown
<1>3. ASSUME NEW a \in h.segs.elems, Touch(h, a, c),
             JoinFirst(h, c) = [heap |-> Joined(h, a, c), cmp |-> a]
      PROVE  LET g == JoinFirst(h, c).heap
                 d == JoinFirst(h, c).cmp
             IN  /\ Shaped(g) /\ Tiled(g, U, L, top)
                 /\ d \in g.segs.elems /\ CoalescedBut(g, d)
                 /\ g.segs.elems \subseteq h.segs.elems
                 /\ \A x \in Addr \ h.segs.elems : g.size[x] = h.size[x]
                 /\ NoneBefore(g, d) /\ (NoneBehind(h, c) => NoneBehind(g, d))
                 /\ ~NoneBefore(h, c)
  <2> DEFINE g == Joined(h, a, c)
  <2>1. Shaped(g) /\ Tiled(g, U, L, top) /\ Grown(h, g, a, c)
    BY <1>3, JoinTiles
  <2> HIDE DEF g
  <2>2. \A x \in g.segs.elems \ {a} : g.size[x] = h.size[x]
    BY <2>1 DEF Shaped, Grown
  <2>3. CoalescedBut(g, a)
    BY <2>1, <2>2 DEF CoalescedBut, Touch, Grown
  <2>4. NoneBefore(g, a)
    BY <1>0, <1>3, <2>1, <2>2 DEF NoneBefore, CoalescedBut, Touch, Grown
  <2>5. NoneBehind(h, c) => NoneBehind(g, a)
    BY <1>0, <1>3, <2>1 DEF NoneBehind, Touch, Grown
  <2>6. ~NoneBefore(h, c)
    BY <1>3 DEF NoneBefore
  <2>7. \A x \in Addr \ h.segs.elems : g.size[x] = h.size[x]
    BY <1>3, <2>1 DEF Grown
  <2> QED
    BY <1>3, <2>1, <2>3, <2>4, <2>5, <2>6, <2>7 DEF g, Grown
<1> QED
  BY <1>1, <1>2, <1>3, JoinFirstCases

\* JoinAdjacent leaves no two free segments side by side, given that only the new
\* one has neighbours.
LEMMA JoinAdjacentTiles ==
  ASSUME NEW U \in SUBSET Addr, NEW L \in [Addr -> 0 .. MaxHeap], NEW top \in Addr,
         NEW h, Shaped(h), Tiled(h, U, L, top), NEW c \in h.segs.elems,
         CoalescedBut(h, c)
  PROVE  LET g == JoinAdjacent(h, c)
         IN  /\ Shaped(g) /\ Tiled(g, U, L, top)
             /\ \A a, b \in g.segs.elems : ~Touch(g, a, b)
             /\ g.segs.elems \subseteq h.segs.elems
             /\ \A x \in Addr \ h.segs.elems : g.size[x] = h.size[x]
<1> DEFINE i == JoinFirst(h, c).heap
           d == JoinFirst(h, c).cmp
           g == JoinFirst(i, d).heap
           e == JoinFirst(i, d).cmp
<1>1. /\ Shaped(i) /\ Tiled(i, U, L, top)
      /\ d \in i.segs.elems /\ CoalescedBut(i, d)
      /\ i.segs.elems \subseteq h.segs.elems
      /\ \A x \in Addr \ h.segs.elems : i.size[x] = h.size[x]
      /\ NoneBehind(i, d) \/ NoneBefore(i, d)
  BY JoinFirstTiles
<1> HIDE DEF i, d
<1>2. /\ Shaped(g) /\ Tiled(g, U, L, top)
      /\ e \in g.segs.elems /\ CoalescedBut(g, e)
      /\ g.segs.elems \subseteq i.segs.elems
      /\ \A x \in Addr \ i.segs.elems : g.size[x] = i.size[x]
      /\ NoneBehind(g, e) /\ NoneBefore(g, e)
  BY <1>1, JoinFirstTiles
<1> HIDE DEF g, e
<1>3. \A a, b \in g.segs.elems : ~Touch(g, a, b)
  BY <1>2 DEF CoalescedBut, NoneBehind, NoneBefore
<1>4. JoinAdjacent(h, c) = g
  BY DEF JoinAdjacent, i, d, g
<1> QED
  BY <1>1, <1>2, <1>3, <1>4
-------------------------------------------------------------------------------
Apart(h) == \A a, b \in h.segs.elems : ~Touch(h, a, b)

\* What the heap is between two calls under its lock.
Sound(h, U, L, top) == Shaped(h) /\ Tiled(h, U, L, top) /\ Apart(h)

\* From h to g, no size changed but those in free segments and in S.
Within(g, h, S) ==
  /\ g.segs.elems \subseteq h.segs.elems \cup S
  /\ \A x \in Addr \ (h.segs.elems \cup S) : g.size[x] = h.size[x]

\* h with a segment at b put on the list, before its neighbours are joined.
Pushed(h, b, n) ==
  [segs |-> PushBack(h.segs, b), size |-> [h.size EXCEPT ![b] = n]]

\* h with the segment at b taken off the list.
Unlinked(h, b) ==
  [segs |-> Erase(h.segs, {b}), size |-> [h.size EXCEPT ![b] = 0]]

\* Putting a segment on the list adds its address and sets its size, and no other.
LEMMA PushedShape ==
  ASSUME NEW h, Shaped(h), NEW b \in Addr \ h.segs.elems, NEW n \in 0 .. MaxHeap
  PROVE  /\ Shaped(Pushed(h, b, n))
         /\ Pushed(h, b, n).segs.elems = h.segs.elems \cup {b}
         /\ Pushed(h, b, n).size[b] = n
         /\ \A x \in Addr \ {b} : Pushed(h, b, n).size[x] = h.size[x]
<1>1. IsList(PushBack(h.segs, b)) /\ PushBack(h.segs, b).elems = h.segs.elems \cup {b}
  BY PushBackList DEF Shaped
<1> QED
  BY <1>1 DEF Shaped, Pushed

\* Taking a segment off the list removes its address and clears its size.
LEMMA UnlinkedShape ==
  ASSUME NEW h, Shaped(h), NEW b \in h.segs.elems
  PROVE  /\ Shaped(Unlinked(h, b))
         /\ Unlinked(h, b).segs.elems = h.segs.elems \ {b}
         /\ \A x \in Addr \ {b} : Unlinked(h, b).size[x] = h.size[x]
<1>1. IsList(Erase(h.segs, {b})) /\ Erase(h.segs, {b}).elems = h.segs.elems \ {b}
  BY EraseList DEF Shaped
<1>2. b \in Addr /\ 0 \in 0 .. MaxHeap
  BY HeapAssumption DEF Shaped
<1> QED
  BY <1>1, <1>2 DEF Shaped, Unlinked

\* MarkFree keeps the heap in order when the new segment fits in.
LEMMA MarkFreeSound ==
  ASSUME NEW U \in SUBSET Addr, NEW L \in [Addr -> 0 .. MaxHeap], NEW top \in Addr,
         NEW h, Shaped(h), Apart(h),
         NEW b \in Addr \ h.segs.elems, NEW n \in 0 .. MaxHeap,
         Tiled(Pushed(h, b, n), U, L, top)
  PROVE  Sound(MarkFree(h, b, n), U, L, top) /\ Within(MarkFree(h, b, n), h, {b})
<1> DEFINE i == Pushed(h, b, n)
           g == JoinAdjacent(i, b)
<1>1. /\ Shaped(i) /\ i.segs.elems = h.segs.elems \cup {b}
      /\ \A x \in Addr \ {b} : i.size[x] = h.size[x]
  BY PushedShape
<1> HIDE DEF i
<1>2. CoalescedBut(i, b)
  <2>1. \A x \in h.segs.elems : x # b => i.size[x] = h.size[x]
    BY <1>1 DEF Shaped
  <2> QED
    BY <1>1, <2>1 DEF CoalescedBut, Apart, Touch
<1>3. Tiled(i, U, L, top) /\ b \in i.segs.elems
  BY <1>1 DEF i
<1>4. /\ Shaped(g) /\ Tiled(g, U, L, top)
      /\ \A x, y \in g.segs.elems : ~Touch(g, x, y)
      /\ g.segs.elems \subseteq i.segs.elems
      /\ \A x \in Addr \ i.segs.elems : g.size[x] = i.size[x]
  BY <1>1, <1>2, <1>3, JoinAdjacentTiles
<1> HIDE DEF g
<1>5. Sound(g, U, L, top) /\ Within(g, h, {b})
  BY <1>1, <1>4 DEF Sound, Apart, Within
<1> QED
  BY <1>5 DEF MarkFree, Pushed, g, i

\* A sound heap, with the addresses and ends of its pieces as numbers.
LEMMA SoundPieces ==
  ASSUME NEW U \in SUBSET Addr, NEW L \in [Addr -> 0 .. MaxHeap], NEW top \in Addr,
         NEW h, Sound(h, U, L, top)
  PROVE  /\ U \cup h.segs.elems \subseteq Addr /\ U \cap h.segs.elems = {}
         /\ \A a \in U \cup h.segs.elems :
              a \in Nat /\ EndIn(h, U, L, a) \in Nat /\ a < EndIn(h, U, L, a)
                        /\ EndIn(h, U, L, a) <= top
<1>1. \A a \in Addr : L[a] \in Nat /\ h.size[a] \in Nat /\ a \in Nat
  BY HeapAssumption DEF Sound, Shaped, Addr
<1>2. U \cup h.segs.elems \subseteq Addr /\ U \cap h.segs.elems = {}
  BY DEF Sound, Shaped, Tiled
<1>3. \A a \in Addr : EndIn(h, U, L, a) \in Nat
  BY <1>1 DEF EndIn
<1> QED
  BY <1>1, <1>2, <1>3 DEF Sound, Tiled

\* ReserveNew puts the new pages behind the heap.
LEMMA GrowTiles ==
  ASSUME NEW U \in SUBSET Addr, NEW L \in [Addr -> 0 .. MaxHeap], NEW top \in Addr,
         NEW h, Sound(h, U, L, top), NEW n \in Nat \ {0}, top + n \in Addr
  PROVE  /\ top \in Addr \ h.segs.elems /\ top \notin U /\ n \in 0 .. MaxHeap
         /\ Tiled(Pushed(h, top, n), U, L, top + n)
<1> USE HeapAssumption DEF Addr
<1> DEFINE g == Pushed(h, top, n)
           P == U \cup h.segs.elems
           Q == U \cup g.segs.elems
           E(a) == EndIn(h, U, L, a)
           F(a) == EndIn(g, U, L, a)
<1>1. /\ P \subseteq Addr /\ U \cap h.segs.elems = {}
      /\ \A a \in P : a \in Nat /\ E(a) \in Nat /\ a < E(a) /\ E(a) <= top
      /\ \A a, b \in P : a < b => E(a) <= b
      /\ \A u \in 0 .. top - 1 : \E a \in P : a <= u /\ u < E(a)
  BY SoundPieces DEF Sound, Tiled
<1>2. top \notin P /\ n \in 0 .. MaxHeap
  <2> HIDE DEF P, E
  <2> QED
    BY <1>1
<1>3. /\ g.segs.elems = h.segs.elems \cup {top} /\ g.size[top] = n
      /\ \A x \in Addr \ {top} : g.size[x] = h.size[x]
  <2>1. Shaped(h) /\ top \in Addr \ h.segs.elems /\ n \in 0 .. MaxHeap
    BY <1>2 DEF Sound
  <2> HIDE DEF P, Q, E, F, Addr
  <2> QED
    BY <2>1, PushedShape
<1> HIDE DEF g
<1>4. Q = P \cup {top} /\ F(top) = top + n /\ \A a \in P : F(a) = E(a)
  <2>1. Q = P \cup {top} /\ F(top) = top + n
    BY <1>2, <1>3 DEF EndIn
  <2>2. \A a \in P : a \in Addr \ {top}
    BY <1>1, <1>2
  <2>3. \A a \in P : F(a) = E(a)
    BY <1>3, <2>2 DEF EndIn
  <2> QED
    BY <2>1, <2>3
<1>5. U \cap g.segs.elems = {}
  BY <1>1, <1>2, <1>3
<1> HIDE DEF P, Q, E, F
<1>6. ASSUME NEW a \in Q
      PROVE  a < F(a) /\ F(a) <= top + n
  <2>1. CASE a = top
    BY <1>4, <2>1
  <2>2. CASE a \in P
    BY <1>1, <1>4, <2>2
  <2> QED
    BY <1>4, <2>1, <2>2
<1>7. ASSUME NEW a \in Q, NEW b \in Q, a < b
      PROVE  F(a) <= b
  <2>1. a \in P
    <3>1. \A x \in Q : x \in Nat /\ x <= top
      <4>1. ASSUME NEW x \in P
            PROVE  x \in Nat /\ x <= top
        <5>1. x \in Nat /\ E(x) \in Nat /\ x < E(x) /\ E(x) <= top /\ top \in Nat
          BY <1>1
        <5> HIDE DEF Addr
        <5> QED
          BY <5>1
      <4>2. top \in Nat /\ top <= top
        OBVIOUS
      <4>3. \A x \in Q : x \in P \/ x = top
        BY <1>4, Zenon
      <4> QED
        BY <4>1, <4>2, <4>3, Zenon
    <3>2. a # top
      BY <1>7, <3>1
    <3> QED
      BY <1>4, <3>2
  <2>2. CASE b = top
    BY <1>1, <1>4, <2>1, <2>2
  <2>3. CASE b \in P
    BY <1>1, <1>4, <1>7, <2>1, <2>3
  <2> QED
    BY <1>4, <2>2, <2>3
<1>8. ASSUME NEW u \in 0 .. top + n - 1
      PROVE  \E a \in Q : a <= u /\ u < F(a)
  <2>1. CASE u < top
    <3>1. PICK a \in P : a <= u /\ u < E(a)
      BY <1>1, <2>1
    <3> QED
      BY <1>4, <3>1
  <2>2. CASE ~(u < top)
    <3>1. top \in Q /\ top <= u /\ u < F(top)
      BY <1>4, <2>2
    <3> QED
      BY <3>1
  <2> QED
    BY <2>1, <2>2
<1>9. Tiled(g, U, L, top + n)
  <2> DEFINE T == top + n
  <2>1. /\ \A a \in Q : a < F(a) /\ F(a) <= T
        /\ \A a, b \in Q : a < b => F(a) <= b
        /\ \A u \in 0 .. T - 1 : \E a \in Q : a <= u /\ u < F(a)
    BY <1>6, <1>7, <1>8
  <2> HIDE DEF T
  <2>2. Tiled(g, U, L, T)
    BY <1>5, <2>1 DEF Tiled, Q, F
  <2> QED
    BY <2>2 DEF T
<1> QED
  BY <1>2, <1>9 DEF P, g

\* Free gives the memory of the block back as it is.
LEMMA FreeTiles ==
  ASSUME NEW U \in SUBSET Addr, NEW L \in [Addr -> 0 .. MaxHeap], NEW top \in Addr,
         NEW h, Sound(h, U, L, top), NEW b \in U
  PROVE  /\ b \in Addr \ h.segs.elems /\ L[b] \in 0 .. MaxHeap
         /\ Tiled(Pushed(h, b, L[b]), U \ {b}, [L EXCEPT ![b] = 0], top)
<1> USE HeapAssumption DEF Addr
<1> DEFINE g == Pushed(h, b, L[b])
           M == [L EXCEPT ![b] = 0]
           P == U \cup h.segs.elems
           Q == (U \ {b}) \cup g.segs.elems
           E(a) == EndIn(h, U, L, a)
           F(a) == EndIn(g, U \ {b}, M, a)
<1>1. /\ P \subseteq Addr /\ U \cap h.segs.elems = {}
      /\ \A a \in P : a < E(a) /\ E(a) <= top
      /\ \A a, c \in P : a < c => E(a) <= c
      /\ \A u \in 0 .. top - 1 : \E a \in P : a <= u /\ u < E(a)
  BY DEF Sound, Shaped, Tiled
<1>2. b \in Addr \ h.segs.elems /\ L[b] \in 0 .. MaxHeap
  BY <1>1
<1>3. /\ g.segs.elems = h.segs.elems \cup {b} /\ g.size[b] = L[b]
      /\ \A x \in Addr \ {b} : g.size[x] = h.size[x]
  BY <1>2, PushedShape DEF Sound
<1> HIDE DEF g
<1>4. Q = P /\ \A a \in P : F(a) = E(a)
  <2>1. \A a \in Addr \ {b} : M[a] = L[a]
    OBVIOUS
  <2> HIDE DEF M
  <2>2. Q = P
    BY <1>3
  <2>3. ASSUME NEW a \in P
        PROVE  F(a) = E(a)
    <3>1. CASE a = b
      BY <1>2, <1>3, <3>1 DEF EndIn
    <3>2. CASE a # b
      <4>1. a \in Addr \ {b} /\ (a \in U \ {b} <=> a \in U)
        BY <1>1, <3>2
      <4> QED
        BY <1>3, <2>1, <4>1 DEF EndIn
    <3> QED
      BY <3>1, <3>2
  <2> QED
    BY <2>2, <2>3
<1>5. (U \ {b}) \cap g.segs.elems = {}
  BY <1>1, <1>3
<1> HIDE DEF P, Q, E, F
<1>6. /\ \A a \in Q : a < F(a) /\ F(a) <= top
      /\ \A a, c \in Q : a < c => F(a) <= c
      /\ \A u \in 0 .. top - 1 : \E a \in Q : a <= u /\ u < F(a)
  BY <1>1, <1>4
<1>7. Tiled(g, U \ {b}, M, top)
  BY <1>5, <1>6 DEF Tiled, Q, F
<1> QED
  BY <1>2, <1>7 DEF g

\* With n of the segment at b in use the heap is still in order, and the headers of
\* the blocks are as they were.
Taken(h, b, n, U, L, top) ==
  /\ Sound(MarkUsed(h, b, n), U \cup {b}, [L EXCEPT ![b] = n], top)
  /\ \A x \in U : MarkUsed(h, b, n).size[x] = h.size[x]

\* MarkUsed takes the block from the start of a segment, and what is left of the
\* segment stays free.
LEMMA UseSound ==
  ASSUME NEW U \in SUBSET Addr, NEW L \in [Addr -> 0 .. MaxHeap], NEW top \in Addr,
         NEW h, Sound(h, U, L, top), NEW b \in h.segs.elems,
         NEW n \in Nat \ {0}, n <= h.size[b]
  PROVE  Taken(h, b, n, U, L, top)
<1> USE HeapAssumption DEF Addr
<1> DEFINE g == Unlinked(h, b)
           M == [L EXCEPT ![b] = n]
           V == U \cup {b}
           z == h.size[b]
           P == U \cup h.segs.elems
           E(a) == EndIn(h, U, L, a)
<1>1. /\ P \subseteq Addr /\ U \cap h.segs.elems = {}
      /\ \A a \in P : a \in Nat /\ E(a) \in Nat /\ a < E(a) /\ E(a) <= top
      /\ \A a, c \in P : a < c => E(a) <= c
      /\ \A u \in 0 .. top - 1 : \E a \in P : a <= u /\ u < E(a)
  BY SoundPieces DEF Sound, Tiled
<1>2. /\ Shaped(h) /\ Apart(h) /\ b \in Addr /\ b \in P /\ b \notin U
      /\ z \in 0 .. MaxHeap /\ E(b) = b + z /\ b + z <= top /\ n <= z
  BY <1>1 DEF Sound, Shaped, EndIn
<1>3. /\ Shaped(g) /\ g.segs.elems = h.segs.elems \ {b}
      /\ \A x \in Addr \ {b} : g.size[x] = h.size[x]
  BY <1>2, UnlinkedShape
<1>4. M \in [Addr -> 0 .. MaxHeap] /\ M[b] = n /\ \A a \in Addr \ {b} : M[a] = L[a]
  <2>1. n \in 0 .. MaxHeap
    <3> HIDE DEF z
    <3> QED
      BY <1>2
  <2> QED
    BY <1>2, <2>1
<1>5. V \in SUBSET Addr
  BY <1>2
<1> HIDE DEF g, M, z
<1>6. Apart(g)
  <2>1. \A x \in g.segs.elems : x \in h.segs.elems /\ g.size[x] = h.size[x]
    BY <1>3 DEF Shaped
  <2> QED
    BY <1>2, <2>1 DEF Apart, Touch
<1>7. \A x \in U : g.size[x] = h.size[x]
  BY <1>2, <1>3
<1>8. CASE z > n
  <2> DEFINE r == b + n
             k == z - n
             i == Pushed(g, r, k)
             Q == V \cup i.segs.elems
             F(a) == EndIn(i, V, M, a)
  <2>1. r \in Addr /\ r \notin P /\ r # b /\ k \in 0 .. MaxHeap /\ k > 0 /\ b < r
    <3>1. r \in Addr /\ k \in 0 .. MaxHeap /\ k > 0 /\ b < r /\ r < E(b)
      BY <1>2, <1>8
    <3>2. ASSUME r \in P
          PROVE  FALSE
      <4> HIDE DEF P, E, r
      <4>1. b \in P /\ E(b) \in Nat /\ r \in Nat
        BY <1>1, <1>2, <3>1
      <4>2. E(b) <= r
        BY <1>1, <3>1, <3>2, <4>1
      <4> QED
        BY <3>1, <4>1, <4>2
    <3> QED
      BY <3>1, <3>2
  <2>2. /\ i.segs.elems = g.segs.elems \cup {r} /\ i.size[r] = k
        /\ \A x \in Addr \ {r} : i.size[x] = g.size[x]
    <3>1. r \in Addr \ g.segs.elems
      BY <1>3, <2>1
    <3>2. Shaped(g) /\ k \in 0 .. MaxHeap
      BY <1>3, <2>1
    <3> HIDE DEF r, k, Q, F, P, E, V
    <3> QED
      BY <3>1, <3>2, PushedShape
  <2> HIDE DEF i
  <2>3. /\ Q = P \cup {r} /\ F(b) = r /\ F(r) = E(b)
        /\ \A a \in P \ {b} : F(a) = E(a)
    <3>1. Q = P \cup {r}
      BY <1>3, <2>2
    <3>2. F(b) = r
      BY <1>4 DEF EndIn
    <3>3. r \notin V /\ r + k = b + z
      BY <1>2, <2>1
    <3>4. F(r) = E(b)
      BY <1>2, <2>2, <3>3 DEF EndIn
    <3>5. ASSUME NEW a \in P \ {b}
          PROVE  F(a) = E(a)
      <4>1. a \in Addr \ {b, r} /\ (a \in V <=> a \in U)
        BY <1>1, <2>1
      <4>2. i.size[a] = h.size[a] /\ M[a] = L[a]
        BY <1>3, <1>4, <2>2, <4>1
      <4> QED
        BY <4>1, <4>2 DEF EndIn
    <3> QED
      BY <3>1, <3>2, <3>4, <3>5
  <2>4. V \cap i.segs.elems = {}
    BY <1>1, <1>3, <2>1, <2>2
  <2>5. \A a \in P \ {b} : a \in Nat /\ (b < a => E(b) <= a) /\ (a < b => E(a) <= b)
    BY <1>1
  <2>6. b \in P /\ b \in Nat /\ r \in Nat /\ b < r /\ r < E(b) /\ E(b) <= top /\ E(b) \in Nat
    BY <1>1, <1>2, <1>8, <2>1
  <2> HIDE DEF P, Q, E, F, r, k, V
  <2>7. ASSUME NEW a \in Q
        PROVE  a < F(a) /\ F(a) <= top
    <3>1. CASE a = b
      BY <2>3, <2>6, <3>1
    <3>2. CASE a = r
      BY <2>3, <2>6, <3>2
    <3>3. CASE a \in P \ {b}
      BY <1>1, <2>3, <3>3
    <3> QED
      BY <2>3, <3>1, <3>2, <3>3
  <2>8. ASSUME NEW a \in Q, NEW c \in Q, a < c
        PROVE  F(a) <= c
    <3>1. CASE a = b
      BY <2>3, <2>5, <2>6, <2>8, <3>1
    <3>2. CASE a = r
      BY <2>3, <2>5, <2>6, <2>8, <3>2
    <3>3. CASE a \in P \ {b} /\ c \in P
      BY <1>1, <2>3, <2>8, <3>3
    <3>4. CASE a \in P \ {b} /\ c = r
      <4>1. a < b
        BY <2>5, <2>6, <2>8, <3>4
      <4> QED
        BY <1>1, <2>3, <2>5, <2>6, <3>4, <4>1
    <3> QED
      BY <2>3, <3>1, <3>2, <3>3, <3>4
  <2>9. ASSUME NEW u \in 0 .. top - 1
        PROVE  \E a \in Q : a <= u /\ u < F(a)
    <3>1. PICK a \in P : a <= u /\ u < E(a)
      BY <1>1
    <3>2. CASE a # b
      BY <2>3, <3>1, <3>2
    <3>3. CASE a = b /\ u < r
      BY <2>3, <3>1, <3>3
    <3>4. CASE a = b /\ ~(u < r)
      <4>1. r \in Q /\ r <= u /\ u < F(r)
        BY <2>3, <2>6, <3>1, <3>4
      <4> QED
        BY <4>1
    <3> QED
      BY <3>2, <3>3, <3>4
  <2>10. Tiled(i, V, M, top)
    BY <2>4, <2>7, <2>8, <2>9 DEF Tiled, Q, F
  <2>11. r \in Addr \ g.segs.elems
    BY <1>3, <2>1 DEF P
  <2>12. Sound(MarkFree(g, r, k), V, M, top) /\ Within(MarkFree(g, r, k), g, {r})
    BY <1>3, <1>4, <1>5, <1>6, <2>1, <2>10, <2>11, MarkFreeSound DEF i
  <2>13. MarkUsed(h, b, n) = MarkFree(g, r, k)
    <3>1. [[h.size EXCEPT ![b] = 0] EXCEPT ![r] = k] = [h.size EXCEPT ![b] = 0, ![r] = k]
      BY <1>2, <2>1 DEF Shaped
    <3>2. MarkFree(g, r, k) =
            JoinAdjacent([segs |-> PushBack(Erase(h.segs, {b}), r),
                          size |-> [h.size EXCEPT ![b] = 0, ![r] = k]], r)
      BY <3>1 DEF MarkFree, g, Unlinked
    <3> QED
      BY <1>8, <3>2 DEF MarkUsed, r, k, z
  <2>14. \A x \in U : x \in Addr \ (g.segs.elems \cup {r})
    BY <1>1, <1>3, <2>1 DEF P
  <2>15. \A x \in U : MarkFree(g, r, k).size[x] = g.size[x]
    BY <2>12, <2>14 DEF Within
  <2> QED
    BY <1>7, <2>12, <2>13, <2>15 DEF M, V, Taken
<1>9. CASE ~(z > n)
  <2>1. MarkUsed(h, b, n) = g
    BY <1>9 DEF MarkUsed, g, Unlinked, z
  <2>2. z = n
    BY <1>2, <1>9
  <2> DEFINE Q == V \cup g.segs.elems
             F(a) == EndIn(g, V, M, a)
  <2>3. Q = P /\ V \cap g.segs.elems = {}
    BY <1>1, <1>3
  <2>4. ASSUME NEW a \in P
        PROVE  F(a) = E(a)
    <3>1. CASE a = b
      BY <1>2, <1>4, <2>2, <3>1 DEF EndIn
    <3>2. CASE a # b
      <4>1. a \in Addr \ {b} /\ (a \in V <=> a \in U)
        BY <1>1, <3>2
      <4> QED
        BY <1>3, <1>4, <4>1 DEF EndIn
    <3> QED
      BY <3>1, <3>2
  <2> HIDE DEF P, Q, E, F
  <2>5. /\ \A a \in Q : a < F(a) /\ F(a) <= top
        /\ \A a, c \in Q : a < c => F(a) <= c
        /\ \A u \in 0 .. top - 1 : \E a \in Q : a <= u /\ u < F(a)
    BY <1>1, <2>3, <2>4
  <2>6. Tiled(g, V, M, top)
    BY <2>3, <2>5 DEF Tiled, Q, F
  <2> QED
    BY <1>3, <1>6, <1>7, <2>1, <2>6 DEF Sound, M, Taken
<1> QED
  BY <1>8, <1>9
\* g is h with n in the header at b.
Written(g, h, b, n) == g = [segs |-> h.segs, size |-> [h.size EXCEPT ![b] = n]]

\* The header of a block is outside all free memory, so writing it disturbs nothing.
LEMMA HeaderSound ==
  ASSUME NEW U \in SUBSET Addr, NEW L \in [Addr -> 0 .. MaxHeap], NEW top \in Addr,
         NEW h, Sound(h, U, L, top), NEW b \in U, NEW n \in 0 .. MaxHeap,
         NEW g, Written(g, h, b, n)
  PROVE  Sound(g, U, L, top) /\ g.size[b] = n /\ Within(g, h, {b})
<1>1. /\ h = [segs |-> h.segs, size |-> h.size] /\ IsList(h.segs)
      /\ h.segs.elems \subseteq Addr /\ h.size \in [Addr -> 0 .. MaxHeap]
      /\ b \in Addr /\ b \notin h.segs.elems
  BY DEF Sound, Shaped, Tiled
<1>2. g = [segs |-> h.segs, size |-> [h.size EXCEPT ![b] = n]]
  BY DEF Written
<1>3. /\ g.size \in [Addr -> 0 .. MaxHeap] /\ g.size[b] = n
      /\ \A x \in Addr \ {b} : g.size[x] = h.size[x]
  BY <1>1, <1>2
<1>4. Shaped(g)
  BY <1>1, <1>2, <1>3 DEF Shaped
<1>5. \A a \in U \cup h.segs.elems : EndIn(g, U, L, a) = EndIn(h, U, L, a)
  BY <1>1, <1>3 DEF EndIn
<1>6. Tiled(g, U, L, top)
  BY <1>2, <1>5 DEF Sound, Tiled
<1>7. Apart(g)
  BY <1>1, <1>2, <1>3 DEF Sound, Apart, Touch
<1> QED
  BY <1>2, <1>3, <1>4, <1>6, <1>7 DEF Sound, Within
-------------------------------------------------------------------------------
\* The memory is divided as it should be whenever the lock of the heap is free.
Divided ==
  /\ used \in SUBSET Addr
  /\ length \in [Addr -> 0 .. MaxHeap]
  /\ heapPos \in Addr
  /\ Sound(heap, used, length, heapPos)

\* A call of Allocate has one header to write; a block is freed by one thread, not
\* before its header is written and with the size that is in it.
Calls ==
  /\ writing \in [Thread -> SUBSET used]
  /\ freeing \in [Thread -> SUBSET [block : Addr, size : 0 .. MaxHeap]]
  /\ \A t \in Thread : \A a, b \in writing[t] : a = b
  /\ \A t \in Thread : \A f \in freeing[t] :
       /\ f.block \in used
       /\ f.size = length[f.block]
       /\ \A u \in Thread : f.block \notin writing[u]
       /\ \A u \in Thread \ {t} : \A g \in freeing[u] : g.block # f.block

\* The header of a block holds its size once it is written.
Headers ==
  \A b \in used : (\A t \in Thread : b \notin writing[t]) => heap.size[b] = length[b]

HInv == Divided /\ Calls /\ Headers

\* ReserveNew reserves at least one page.
LEMMA PagesSome ==
  ASSUME NEW n \in Nat \ {0}
  PROVE  Pages(n) \in Nat \ {0}
<1> DEFINE x == n + PageUnits - 1
           q == x \div PageUnits
           r == x % PageUnits
<1>1. x \in Nat /\ x >= PageUnits /\ PageUnits \in Nat /\ PageUnits > 0
  BY HeapAssumption
<1> HIDE DEF x
<1>2. q \in Nat /\ r \in Nat /\ r < PageUnits /\ x = PageUnits * q + r
  BY <1>1
<1> HIDE DEF q, r
<1>3. q # 0
  BY <1>1, <1>2
<1>4. q * PageUnits \in Nat /\ q * PageUnits # 0
  BY <1>1, <1>2, <1>3
<1> QED
  BY <1>4 DEF Pages, q, x

\* Taking a block of a sound heap h that keeps the sizes of the blocks in use.
LEMMA TakeKeeps ==
  ASSUME HInv, NEW t \in Thread, NEW n \in Nat \ {0}, NEW h, NEW top \in Addr,
         Sound(h, used, length, top), \A x \in used : h.size[x] = heap.size[x],
         Outside(t), Take(t, h, n), heapPos' = top, freeing' = freeing
  PROVE  HInv'
<1>1. PICK b \in Fit(h, n) :
        /\ heap' = MarkUsed(h, b, n)
        /\ used' = used \cup {b}
        /\ length' = [length EXCEPT ![b] = n]
        /\ writing' = [writing EXCEPT ![t] = {b}]
  BY DEF Take
<1>2. /\ b \in h.segs.elems /\ n <= h.size[b] /\ b \in Addr /\ b \notin used
      /\ h.size[b] \in 0 .. MaxHeap
  BY <1>1, HeapAssumption DEF Fit, Sound, Shaped, Tiled
<1>3. used \in SUBSET Addr /\ length \in [Addr -> 0 .. MaxHeap]
  BY DEF HInv, Divided
<1>4. Sound(heap', used', length', top) /\ \A x \in used : heap'.size[x] = h.size[x]
  <2>1. Taken(h, b, n, used, length, top)
    BY <1>2, <1>3, UseSound
  <2> QED
    BY <1>1, <2>1 DEF Taken
<1>5. n \in 0 .. MaxHeap
  BY <1>2, HeapAssumption
<1>6. length' \in [Addr -> 0 .. MaxHeap] /\ \A x \in used : length'[x] = length[x]
  BY <1>1, <1>2, <1>3, <1>5
<1>7. Divided'
  BY <1>1, <1>2, <1>3, <1>4, <1>6 DEF Divided
<1>8. writing'[t] = {b} /\ \A u \in Thread \ {t} : writing'[u] = writing[u]
  BY <1>1 DEF HInv, Calls
<1>9. writing' \in [Thread -> SUBSET used']
  BY <1>1 DEF HInv, Calls
<1>10. Calls'
  <2>1. \A u \in Thread : \A x, y \in writing'[u] : x = y
    BY <1>8 DEF HInv, Calls
  <2>2. ASSUME NEW u \in Thread, NEW f \in freeing'[u]
        PROVE  /\ f.block \in used'
               /\ f.size = length'[f.block]
               /\ \A v \in Thread : f.block \notin writing'[v]
               /\ \A v \in Thread \ {u} : \A g \in freeing'[v] : g.block # f.block
    BY <1>1, <1>2, <1>6, <1>8 DEF HInv, Calls
  <2> QED
    BY <1>9, <2>1, <2>2 DEF HInv, Calls
<1>11. Headers'
  <2> SUFFICES ASSUME NEW x \in used', \A u \in Thread : x \notin writing'[u]
               PROVE  heap'.size[x] = length'[x]
    BY DEF Headers
  <2>1. x # b /\ x \in used
    BY <1>1, <1>8
  <2>2. \A u \in Thread : x \notin writing[u]
    BY <1>8 DEF Outside
  <2> QED
    BY <1>4, <1>6, <2>1, <2>2 DEF HInv, Headers
<1> QED
  BY <1>7, <1>10, <1>11 DEF HInv

\* The first segments are taken from a heap without any.
LEMMA HeapInit == Init => HInv
<1> SUFFICES ASSUME Init
             PROVE  HInv
  OBVIOUS
<1> USE HeapAssumption DEF Init, Addr
<1>1. IsList(EmptyList) /\ EmptyList.elems = {}
  BY DEF EmptyList, IsList
<1>2. heap.segs = EmptyList /\ heap.size = [a \in Addr |-> 0]
  OBVIOUS
<1>3. Shaped(heap)
  BY <1>1, <1>2 DEF Shaped
<1>4. Sound(heap, used, length, heapPos)
  BY <1>1, <1>2, <1>3 DEF Sound, Tiled, Apart
<1>5. Divided
  BY <1>4 DEF Divided
<1>6. Calls /\ Headers
  BY DEF Calls, Headers
<1> QED
  BY <1>5, <1>6 DEF HInv

\* Allocate takes a block of the heap, which it may have to enlarge first.
LEMMA AllocateKeeps ==
  ASSUME HInv, NEW t \in Thread, NEW n \in 1 .. MaxBlock, Allocate(t, n)
  PROVE  HInv'
<1>1. /\ used \in SUBSET Addr /\ length \in [Addr -> 0 .. MaxHeap] /\ heapPos \in Addr
      /\ Sound(heap, used, length, heapPos) /\ n \in Nat \ {0}
  BY HeapAssumption DEF HInv, Divided
<1>2. Outside(t) /\ freeing' = freeing
  BY DEF Allocate
<1>3. CASE Fit(heap, n) # {}
  <2>1. Take(t, heap, n) /\ heapPos' = heapPos
    BY <1>3 DEF Allocate
  <2> QED
    BY <1>1, <1>2, <2>1, TakeKeeps
<1>4. CASE Fit(heap, n) = {}
  <2> DEFINE m == Pages(n)
             h == MarkFree(heap, heapPos, m)
             top == heapPos + m
  <2>1. m \in Nat \ {0}
    BY <1>1, PagesSome
  <2>2. top <= MaxHeap /\ Take(t, h, n) /\ heapPos' = top
    BY <1>4 DEF Allocate
  <2> HIDE DEF m
  <2>3. top \in Addr
    BY <1>1, <2>1, <2>2, HeapAssumption DEF Addr
  <2>4. /\ heapPos \in Addr \ heap.segs.elems /\ heapPos \notin used /\ m \in 0 .. MaxHeap
        /\ Tiled(Pushed(heap, heapPos, m), used, length, top)
    BY <1>1, <2>1, <2>3, GrowTiles
  <2>5. Shaped(heap) /\ Apart(heap)
    BY <1>1 DEF Sound
  <2> HIDE DEF top
  <2>6. Sound(h, used, length, top) /\ Within(h, heap, {heapPos})
    BY <1>1, <2>3, <2>4, <2>5, MarkFreeSound
  <2> HIDE DEF h
  <2>7. \A x \in used : h.size[x] = heap.size[x]
    BY <1>1, <2>4, <2>6 DEF Within, Sound, Tiled
  <2> QED
    BY <1>1, <1>2, <2>2, <2>3, <2>6, <2>7, TakeKeeps
<1> QED
  BY <1>3, <1>4

\* The header is written into the block that was taken.
LEMMA WriteHeaderKeeps ==
  ASSUME HInv, NEW t \in Thread, WriteHeader(t)
  PROVE  HInv'
<1>1. PICK b \in writing[t] :
        /\ heap' = [heap EXCEPT !.size[b] = length[b]]
        /\ writing' = [writing EXCEPT ![t] = {}]
        /\ UNCHANGED <<heapPos, used, length, freeing>>
  BY DEF WriteHeader
<1>2. /\ used \in SUBSET Addr /\ length \in [Addr -> 0 .. MaxHeap] /\ heapPos \in Addr
      /\ Sound(heap, used, length, heapPos)
  BY DEF HInv, Divided
<1>3. b \in used /\ length[b] \in 0 .. MaxHeap
  BY <1>1, <1>2 DEF HInv, Calls
<1>4. /\ Sound(heap', used, length, heapPos) /\ heap'.size[b] = length[b]
      /\ Within(heap', heap, {b})
  <2>1. heap = [segs |-> heap.segs, size |-> heap.size]
    BY <1>2 DEF Sound, Shaped
  <2>2. heap' = [segs |-> heap.segs, size |-> [heap.size EXCEPT ![b] = length[b]]]
    <3>1. ASSUME NEW h, h = [segs |-> h.segs, size |-> h.size], NEW x
          PROVE  [h EXCEPT !.size[b] = x] =
                   [segs |-> h.segs, size |-> [h.size EXCEPT ![b] = x]]
      BY <3>1
    <3>2. [heap EXCEPT !.size[b] = length[b]] =
            [segs |-> heap.segs, size |-> [heap.size EXCEPT ![b] = length[b]]]
      BY <2>1, <3>1
    <3> QED
      BY <1>1, <3>2, Zenon
  <2>3. Written(heap', heap, b, length[b])
    BY <2>2, Zenon DEF Written
  <2> QED
    BY <1>2, <1>3, <2>3, HeaderSound
<1>5. Divided'
  BY <1>1, <1>2, <1>4 DEF Divided
<1>6. writing'[t] = {} /\ \A u \in Thread \ {t} : writing'[u] = writing[u]
  BY <1>1 DEF HInv, Calls
<1>7. Calls'
  BY <1>1, <1>6 DEF HInv, Calls
<1>8. Headers'
  <2> SUFFICES ASSUME NEW x \in used, \A u \in Thread : x \notin writing'[u], x # b
               PROVE  heap'.size[x] = length[x]
    BY <1>1, <1>4 DEF Headers
  <2>1. \A u \in Thread : x \notin writing[u]
    BY <1>1, <1>6 DEF HInv, Calls
  <2>2. x \in Addr \ (heap.segs.elems \cup {b})
    BY <1>2 DEF Sound, Tiled
  <2> QED
    BY <1>4, <2>1, <2>2 DEF HInv, Headers, Within
<1> QED
  BY <1>5, <1>7, <1>8 DEF HInv

\* Free reads the size that Allocate wrote.
LEMMA FreeKeeps ==
  ASSUME HInv, NEW t \in Thread, NEW b \in Addr, Free(t, b)
  PROVE  HInv'
<1> DEFINE e == [block |-> b, size |-> heap.size[b]]
<1>1. /\ Outside(t) /\ b \in used
      /\ \A u \in Thread : b \notin writing[u] /\ \A f \in freeing[u] : f.block # b
      /\ freeing' = [freeing EXCEPT ![t] = {e}]
      /\ UNCHANGED <<heap, heapPos, used, length, writing>>
  BY DEF Free
<1>2. heap.size[b] = length[b] /\ heap.size[b] \in 0 .. MaxHeap
  BY <1>1 DEF HInv, Headers, Divided
<1>3. e.block = b /\ e.size = length[b] /\ e \in [block : Addr, size : 0 .. MaxHeap]
  BY <1>2
<1> HIDE DEF e
<1>4. freeing'[t] = {e} /\ \A u \in Thread \ {t} : freeing'[u] = freeing[u]
  BY <1>1 DEF HInv, Calls
<1>5. freeing' \in [Thread -> SUBSET [block : Addr, size : 0 .. MaxHeap]]
  BY <1>1, <1>3 DEF HInv, Calls
<1>6. Divided' /\ Headers'
  BY <1>1 DEF HInv, Divided, Headers
<1>7. ASSUME NEW u \in Thread, NEW f \in freeing'[u]
      PROVE  /\ f.block \in used
             /\ f.size = length[f.block]
             /\ \A v \in Thread : f.block \notin writing[v]
             /\ \A v \in Thread \ {u} : \A g \in freeing'[v] : g.block # f.block
  <2>1. CASE u = t
    BY <1>1, <1>3, <1>4, <2>1
  <2>2. CASE u # t
    BY <1>1, <1>3, <1>4, <2>2 DEF HInv, Calls
  <2> QED
    BY <2>1, <2>2
<1>8. Calls'
  BY <1>1, <1>5, <1>7 DEF HInv, Calls
<1> QED
  BY <1>6, <1>8 DEF HInv

\* The block that is freed goes on the list with its whole length.
LEMMA FreeBlockKeeps ==
  ASSUME HInv, NEW t \in Thread, FreeBlock(t)
  PROVE  HInv'
<1>1. PICK f \in freeing[t] :
        /\ heap' = MarkFree(heap, f.block, f.size)
        /\ used' = used \ {f.block}
        /\ length' = [length EXCEPT ![f.block] = 0]
        /\ freeing' = [freeing EXCEPT ![t] = {}]
        /\ UNCHANGED <<heapPos, writing>>
  BY DEF FreeBlock
<1> DEFINE b == f.block
<1>2. /\ used \in SUBSET Addr /\ length \in [Addr -> 0 .. MaxHeap] /\ heapPos \in Addr
      /\ Sound(heap, used, length, heapPos)
  BY DEF HInv, Divided
<1>3. b \in used /\ f.size = length[b] /\ \A u \in Thread : b \notin writing[u]
  BY <1>1 DEF HInv, Calls
<1> HIDE DEF b
<1>4. /\ b \in Addr \ heap.segs.elems /\ length[b] \in 0 .. MaxHeap
      /\ Tiled(Pushed(heap, b, length[b]), used \ {b}, [length EXCEPT ![b] = 0], heapPos)
  BY <1>2, <1>3, FreeTiles
<1>5. /\ used' \in SUBSET Addr /\ length' \in [Addr -> 0 .. MaxHeap]
      /\ \A x \in Addr \ {b} : length'[x] = length[x]
      /\ Tiled(Pushed(heap, b, length[b]), used', length', heapPos)
  BY <1>1, <1>2, <1>4, HeapAssumption DEF b
<1>6. Shaped(heap) /\ Apart(heap)
  BY <1>2 DEF Sound
<1>7. heap' = MarkFree(heap, b, length[b])
  BY <1>1, <1>3 DEF b
<1>8. Sound(heap', used', length', heapPos) /\ Within(heap', heap, {b})
  <2>1. /\ Sound(MarkFree(heap, b, length[b]), used', length', heapPos)
        /\ Within(MarkFree(heap, b, length[b]), heap, {b})
    BY <1>2, <1>4, <1>5, <1>6, MarkFreeSound
  <2> QED
    BY <1>7, <2>1
<1>9. Divided'
  BY <1>1, <1>2, <1>5, <1>8 DEF Divided
<1>10. freeing'[t] = {} /\ \A u \in Thread \ {t} : freeing'[u] = freeing[u]
  BY <1>1 DEF HInv, Calls
<1>11. /\ writing' \in [Thread -> SUBSET used']
       /\ freeing' \in [Thread -> SUBSET [block : Addr, size : 0 .. MaxHeap]]
  BY <1>1, <1>3 DEF HInv, Calls, b
<1>12. ASSUME NEW u \in Thread, NEW g \in freeing'[u]
       PROVE  /\ g.block \in used'
              /\ g.size = length'[g.block]
              /\ \A v \in Thread : g.block \notin writing'[v]
              /\ \A v \in Thread \ {u} : \A k \in freeing'[v] : k.block # g.block
  <2>1. u # t /\ g \in freeing[u]
    BY <1>10
  <2>2. g.block # b
    BY <1>1, <2>1 DEF HInv, Calls, b
  <2>3. g.block \in used /\ g.size = length[g.block]
    BY <2>1 DEF HInv, Calls
  <2>4. g.block \in used' /\ g.size = length'[g.block]
    BY <1>1, <1>2, <1>5, <2>2, <2>3 DEF b
  <2> QED
    BY <1>1, <1>10, <2>1, <2>4 DEF HInv, Calls
<1>13. Calls'
  BY <1>1, <1>11, <1>12 DEF HInv, Calls
<1>14. Headers'
  <2> SUFFICES ASSUME NEW x \in used', \A u \in Thread : x \notin writing[u]
               PROVE  heap'.size[x] = length'[x]
    BY <1>1 DEF Headers
  <2>1. x \in used /\ x # b /\ x \in Addr \ (heap.segs.elems \cup {b})
    BY <1>1, <1>2 DEF Sound, Tiled, b
  <2>2. heap'.size[x] = heap.size[x] /\ length'[x] = length[x]
    BY <1>5, <1>8, <2>1 DEF Within
  <2> QED
    BY <2>1, <2>2 DEF HInv, Headers
<1> QED
  BY <1>9, <1>13, <1>14 DEF HInv
-------------------------------------------------------------------------------
\* HInv holds throughout: whatever calls of Allocate and Free the threads make and
\* however their unlocked parts interleave.
THEOREM HeapInductive == Spec => []HInv
<1>1. ASSUME HInv, [Next]_vars
      PROVE  HInv'
  <2>1. CASE Next
    <3>1. PICK t \in Thread :
            \/ \E n \in 1 .. MaxBlock : Allocate(t, n)
            \/ WriteHeader(t)
            \/ \E b \in Addr : Free(t, b)
            \/ FreeBlock(t)
      BY <2>1 DEF Next
    <3> QED
      BY <1>1, <3>1, AllocateKeeps, WriteHeaderKeeps, FreeKeeps, FreeBlockKeeps
  <2>2. CASE UNCHANGED vars
    BY <1>1, <2>2 DEF vars, HInv, Divided, Calls, Headers
  <2> QED
    BY <1>1, <2>1, <2>2
<1> QED
  BY <1>1, HeapInit, PTL DEF Spec

\* The list of free segments stays a list, and no size exceeds the heap (FreeList).
THEOREM HeapTypeCorrect == Spec => []TypeOK
<1>1. HInv => TypeOK
  BY DEF HInv, Divided, Calls, Sound, Shaped, TypeOK
<1> QED
  BY <1>1, HeapInductive, PTL

\* No two blocks in use overlap, and none overlaps free memory (MarkUsed, MarkFree).
THEOREM HeapDisjoint == Spec => []Disjoint
<1>1. HInv => Disjoint
  BY DEF HInv, Divided, Sound, Tiled, Disjoint, Pieces, End, EndIn
<1> QED
  BY <1>1, HeapInductive, PTL

\* Splitting, joining and growing the heap lose no memory (MarkUsed, JoinAdjacent,
\* ReserveNew).
THEOREM HeapNothingLost == Spec => []NothingLost
<1>1. HInv => NothingLost
  BY DEF HInv, Divided, Sound, Tiled, NothingLost, Pieces, End, EndIn
<1> QED
  BY <1>1, HeapInductive, PTL

\* No two free segments are neighbours: JoinAdjacent joins all there is to join.
THEOREM HeapCoalesced == Spec => []Coalesced
<1>1. HInv => Coalesced
  BY DEF HInv, Divided, Sound, Tiled, Apart, Touch, Coalesced, End
<1> QED
  BY <1>1, HeapInductive, PTL

\* Free, which reads the header without the lock, reads what Allocate wrote there
\* without it.
THEOREM HeapHeaderKept == Spec => []HeaderKept
<1>1. HInv => HeaderKept
  BY DEF HInv, Calls, HeaderKept
<1> QED
  BY <1>1, HeapInductive, PTL

===============================================================================
