--------------------------- MODULE AnchorListProofs ---------------------------
(***************************************************************************)
(* The operations of AnchorList keep the links one chain.                  *)
(***************************************************************************)
EXTENDS AnchorList, TLAPS

\* erase keeps the links one chain (AnchorList::erase).
LEMMA EraseList ==
  ASSUME NEW l, NEW S, IsList(l)
  PROVE  IsList(Erase(l, S)) /\ Erase(l, S).elems = l.elems \ S
BY DEF IsList, Erase

\* push_back of an element that is not linked keeps the links one chain
\* (AnchorList::push_back).
LEMMA PushBackList ==
  ASSUME NEW l, NEW t, IsList(l), t \notin l.elems
  PROVE  IsList(PushBack(l, t)) /\ PushBack(l, t).elems = l.elems \cup {t}
<1> DEFINE m == PushBack(l, t)
<1>1. m.elems = l.elems \cup {t} /\ m.before = l.before \cup (l.elems \X {t})
  BY DEF PushBack
<1>2. l.before \subseteq l.elems \X l.elems
  BY DEF IsList
<1>3. m.before \subseteq m.elems \X m.elems
  BY <1>1, <1>2
<1>4. \A a, b : <<a, b>> \in m.before <=>
                  <<a, b>> \in l.before \/ (a \in l.elems /\ b = t)
  BY <1>1
<1>5. \A b : <<t, b>> \notin l.before
  BY <1>2
<1>6. \A a \in m.elems : <<a, a>> \notin m.before
  BY <1>1, <1>4, <1>5 DEF IsList
<1>7. \A a, b \in m.elems :
        a # b => (<<a, b>> \in m.before <=> <<b, a>> \notin m.before)
  BY <1>1, <1>4, <1>5 DEF IsList
<1>8. \A a, b, c \in m.elems :
        <<a, b>> \in m.before /\ <<b, c>> \in m.before => <<a, c>> \in m.before
  BY <1>1, <1>2, <1>4, <1>5 DEF IsList
<1> QED
  BY <1>1, <1>3, <1>6, <1>7, <1>8 DEF IsList
===============================================================================
