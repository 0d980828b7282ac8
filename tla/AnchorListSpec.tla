---------------------------- MODULE AnchorListSpec ----------------------------
(***************************************************************************)
(* What the kernel expects of a ktl::AnchorList: elements are pushed at    *)
(* the back, erased anywhere, and moved to the back.                       *)
(***************************************************************************)
EXTENDS AnchorList

CONSTANT Elem
VARIABLE list

Init == list = EmptyList

\* Only an element that is not linked is pushed.
Push(t) == t \notin list.elems /\ list' = PushBack(list, t)

Remove(t) == t \in list.elems /\ list' = Erase(list, {t})

\* FindNextThread: erase and push_back under one lock.
Move(t) == t \in list.elems /\ list' = PushBack(Erase(list, {t}), t)

Next == \E t \in Elem : Push(t) \/ Remove(t) \/ Move(t)

Spec == Init /\ [][Next]_list
===============================================================================
