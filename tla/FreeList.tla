------------------------------- MODULE FreeList -------------------------------
(***************************************************************************)
(* The free list of the kernel heap and of the page allocator              *)
(* (klib/FreeList.h).  A free segment is described by a node at its own     *)
(* first address, so the node is named by that address.  A heap h is a      *)
(* record: h.segs is the list of nodes, and h.size[a] is the size stored at *)
(* address a, in the node of a free segment or the header of a block; what  *)
(* other addresses hold is not tracked, and counts as 0.                   *)
(***************************************************************************)
EXTENDS AnchorList, Naturals

\* The free segments that end where the one at c begins, or begin where it ends.
Adjacent(h, c) == {a \in h.segs.elems : a + h.size[a] = c \/ c + h.size[c] = a}

\* Mutant: a segment is joined with the one behind it only.
JoinFirstForward(h, c) ==
  LET N == {a \in h.segs.elems : c + h.size[c] = a}
      a == CHOOSE x \in N : IsFirstIn(h.segs, N, x)
  IN  IF N = {} THEN [heap |-> h, cmp |-> c]
      ELSE [heap |-> [segs |-> Erase(h.segs, {a}),
                      size |-> [h.size EXCEPT ![c] = @ + h.size[a], ![a] = 0]],
            cmp  |-> c]

\* The loop of JoinAdjacent: the first neighbour on the list is joined, and the
\* node with the lower address stays.
JoinFirst(h, c) ==
  LET N == Adjacent(h, c)
      a == CHOOSE x \in N : IsFirstIn(h.segs, N, x)
  IN  IF N = {} THEN [heap |-> h, cmp |-> c]
      ELSE IF c + h.size[c] = a
        THEN [heap |-> [segs |-> Erase(h.segs, {a}),
                        size |-> [h.size EXCEPT ![c] = @ + h.size[a], ![a] = 0]],
              cmp  |-> c]
        ELSE [heap |-> [segs |-> Erase(h.segs, {c}),
                        size |-> [h.size EXCEPT ![a] = @ + h.size[c], ![c] = 0]],
              cmp  |-> a]

\* JoinAdjacent calls itself after each join.  On a list without neighbours a
\* new segment has two at most, so the third call finds nothing (Coalesced).
JoinAdjacent(h, c) ==
  LET j == JoinFirst(h, c) IN JoinFirst(j.heap, j.cmp).heap

\* The free segments with room for n.
Fit(h, n) == {a \in h.segs.elems : h.size[a] >= n}

MarkFree(h, b, n) ==
  JoinAdjacent([segs |-> PushBack(h.segs, b), size |-> [h.size EXCEPT ![b] = n]], b)

\* Mutant: what is left of the segment begins one unit too early.
MarkUsedEarly(h, b, n) ==
  LET rest == Erase(h.segs, {b})
  IN  IF h.size[b] > n
        THEN JoinAdjacent([segs |-> PushBack(rest, b + n - 1),
                           size |-> [h.size EXCEPT ![b] = 0,
                                              ![b + n - 1] = h.size[b] - n]],
                          b + n - 1)
        ELSE [segs |-> rest, size |-> [h.size EXCEPT ![b] = 0]]

\* Mutant: what is left of the segment is not put on the list.
MarkUsedWhole(h, b, n) ==
  [segs |-> Erase(h.segs, {b}), size |-> [h.size EXCEPT ![b] = 0]]

\* The first n of the segment at b are used; the rest is a new segment.
MarkUsed(h, b, n) ==
  LET rest == Erase(h.segs, {b})
  IN  IF h.size[b] > n
        THEN JoinAdjacent([segs |-> PushBack(rest, b + n),
                           size |-> [h.size EXCEPT ![b] = 0,
                                              ![b + n] = h.size[b] - n]],
                          b + n)
        ELSE [segs |-> rest, size |-> [h.size EXCEPT ![b] = 0]]
===============================================================================
