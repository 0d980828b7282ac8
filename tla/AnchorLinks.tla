------------------------------ MODULE AnchorLinks ------------------------------
(***************************************************************************)
(* The pointers of ktl::AnchorList (klib/AnchorList.h).  Every element     *)
(* holds its own anchor, which keeps its old pointers after erase.  The    *)
(* list is also walked as UpdateEvents (task/Scheduler.cpp) does it: the   *)
(* walker may erase the element it stands on and goes on from there.       *)
(***************************************************************************)
EXTENDS AnchorList

CONSTANTS Elem,  \* the objects that have an anchor
          Null   \* nullptr

ASSUME NullAssumption == Null \notin Elem

VARIABLES links,   \* the anchors next and prev of every element, m_Head, m_Tail
          cursor,  \* the iterator of a walk, Null when there is none
          todo     \* ghost: what the walk has still to visit

vars == <<links, cursor, todo>>

Ptr == Elem \cup {Null}
Links == [next : [Elem -> Ptr], prev : [Elem -> Ptr], head : Ptr, tail : Ptr]
-------------------------------------------------------------------------------
\* Mutant: the new element becomes the head.
push_front(l, t) ==
  [next |-> [l.next EXCEPT ![t] = l.head],
   prev |-> [u \in Elem |-> CASE u = t -> Null
                              [] u = l.head -> t
                              [] OTHER -> l.prev[u]],
   head |-> t,
   tail |-> IF l.head = Null THEN t ELSE l.tail]

\* push_back: the new element is the tail.
push_back(l, t) ==
  [next |-> [u \in Elem |-> CASE u = t -> Null
                              [] l.head # Null /\ u = l.tail -> t
                              [] OTHER -> l.next[u]],
   prev |-> [l.prev EXCEPT ![t] = l.tail],
   head |-> IF l.head = Null THEN t ELSE l.head,
   tail |-> t]

\* Mutant: the back pointer of the element behind t is not set.
eraseForward(l, t) ==
  LET n == l.next[t]
      p == l.prev[t]
  IN  [next |-> IF p = Null THEN l.next ELSE [l.next EXCEPT ![p] = n],
       prev |-> l.prev,
       head |-> IF p = Null THEN n ELSE l.head,
       tail |-> IF n = Null THEN p ELSE l.tail]

\* erase(iterator): the neighbours of t point past it.
erase(l, t) ==
  LET n == l.next[t]
      p == l.prev[t]
  IN  [next |-> IF p = Null THEN l.next ELSE [l.next EXCEPT ![p] = n],
       prev |-> IF n = Null THEN l.prev ELSE [l.prev EXCEPT ![n] = p],
       head |-> IF p = Null THEN n ELSE l.head,
       tail |-> IF n = Null THEN p ELSE l.tail]

\* Following a next pointer does not lead out of S.
Closed(l, S) == \A u \in S : l.next[u] \in S \cup {Null}

\* The elements an iterator that stands on a will still meet, by any number of
\* next pointers.
Ahead(l, a) ==
  {u \in Elem : a # Null /\ \A S \in SUBSET Elem : a \in S /\ Closed(l, S) => u \in S}

\* The list the pointers of l stand for.
ListOf(l) ==
  LET E == Ahead(l, l.head)
  IN  [elems  |-> E,
       before |-> {p \in E \X E : p[2] \in Ahead(l, l.next[p[1]])}]

Linked == Ahead(links, links.head)
-------------------------------------------------------------------------------
Init ==
  /\ links = [next |-> [t \in Elem |-> Null], prev |-> [t \in Elem |-> Null],
              head |-> Null, tail |-> Null]
  /\ cursor = Null
  /\ todo = {}

\* Nobody walks while another one holds the lock of the list.
Push(t) ==
  /\ cursor = Null
  /\ t \notin Linked
  /\ links' = push_back(links, t)
  /\ UNCHANGED <<cursor, todo>>

\* erase(const T*) looks for the element first; pop_front erases the head.
Remove(t) ==
  /\ cursor = Null
  /\ t \in Linked
  /\ links' = erase(links, t)
  /\ UNCHANGED <<cursor, todo>>

\* FindNextThread moves the thread it chose to the back.
Move(t) ==
  /\ cursor = Null
  /\ t \in Linked
  /\ links' = push_back(erase(links, t), t)
  /\ UNCHANGED <<cursor, todo>>

Begin ==
  /\ cursor = Null
  /\ cursor' = links.head
  /\ todo' = Linked
  /\ UNCHANGED links

\* ++a
Keep ==
  /\ cursor # Null
  /\ cursor' = links.next[cursor]
  /\ todo' = todo \ {cursor}
  /\ UNCHANGED links

\* Mutant: erase(a), and the walk stays on the element that is gone.
EraseStay ==
  /\ cursor # Null
  /\ links' = erase(links, cursor)
  /\ todo' = todo \ {cursor}
  /\ UNCHANGED cursor

\* Mutant: erase(a++), and one ++a too many.
EraseSkip ==
  /\ cursor # Null
  /\ cursor' = LET n == links.next[cursor] IN IF n = Null THEN Null ELSE links.next[n]
  /\ links' = erase(links, cursor)
  /\ todo' = todo \ {cursor}

\* erase(a++)
EraseHere ==
  /\ cursor # Null
  /\ cursor' = links.next[cursor]
  /\ links' = erase(links, cursor)
  /\ todo' = todo \ {cursor}

Next ==
  \/ \E t \in Elem : Push(t) \/ Remove(t) \/ Move(t)
  \/ Begin \/ Keep \/ EraseHere

Spec == Init /\ [][Next]_vars
-------------------------------------------------------------------------------
\* The iterator of a walk stands on an element of the list, or at its end.
TypeOK == links \in Links /\ cursor \in Linked \cup {Null} /\ todo \subseteq Elem

\* The two chains mirror each other: walking back from m_Tail meets what
\* walking on from m_Head meets (erase and push_back set both pointers).
Mirrored ==
  /\ (links.head = Null) = (links.tail = Null)
  /\ \A t \in Linked :
       /\ IF links.next[t] = Null THEN links.tail = t
                                  ELSE links.prev[links.next[t]] = t
       /\ IF links.prev[t] = Null THEN links.head = t
                                  ELSE links.next[links.prev[t]] = t

\* A walk that erases as it goes (UpdateEvents) meets every element that was on
\* the list when it began exactly once, and nothing that it erased.
WalkMeetsAll == Ahead(links, cursor) = todo

A == INSTANCE AnchorListSpec WITH list <- ListOf(links)

\* The pointers implement the list that the models of its users work with.
ImplementsList == A!Spec
===============================================================================
