------------------------------ MODULE AnchorList ------------------------------
(***************************************************************************)
(* The intrusive list ktl::AnchorList (klib/AnchorList.h), as far as its   *)
(* users can tell: which elements are linked, and which one comes before   *)
(* which.  A list is a record [elems, before]; before holds a pair <<a, b>> *)
(* for every a linked somewhere in front of b.                             *)
(***************************************************************************)

\* AnchorList(): m_Head and m_Tail are null.
EmptyList == [elems |-> {}, before |-> {}]

\* push_back(t): t is linked behind everything that is on the list.
PushBack(l, t) == [elems  |-> l.elems \cup {t},
                   before |-> l.before \cup (l.elems \X {t})]

\* erase of every element of S; what stays keeps its order.
Erase(l, S) == [elems  |-> l.elems \ S,
                before |-> {p \in l.before : p[1] \notin S /\ p[2] \notin S}]

\* t is the first element of l, from m_Head on, that is in C.
IsFirstIn(l, C, t) == /\ t \in l.elems \cap C
                      /\ \A u \in l.elems \cap C : <<u, t>> \notin l.before

\* The links form one chain: before is a strict total order of the elements.
IsList(l) == /\ l.before \subseteq l.elems \X l.elems
             /\ \A a \in l.elems : <<a, a>> \notin l.before
             /\ \A a, b \in l.elems :
                  a # b => (<<a, b>> \in l.before <=> <<b, a>> \notin l.before)
             /\ \A a, b, c \in l.elems :
                  <<a, b>> \in l.before /\ <<b, c>> \in l.before
                     => <<a, c>> \in l.before
===============================================================================
