--------------------------- MODULE AnchorLinksProofs ---------------------------
(***************************************************************************)
(* The pointers of an AnchorList form one chain from m_Head to m_Tail,      *)
(* however elements are pushed, erased and moved, and implement the list    *)
(* that the models of its users work with.  What a walk meets is the        *)
(* smallest set that following next does not leave, so facts about a walk   *)
(* are proved by naming such a set.                                         *)
(***************************************************************************)
EXTENDS AnchorLinks, AnchorListProofs

\* What a walk meets is closed, holds the element it starts from, and nothing that
\* another closed set leaves out.
LEMMA AheadLeast ==
  ASSUME NEW l, NEW a \in Ptr
  PROVE  /\ Ahead(l, a) \subseteq Elem
         /\ a # Null => a \in Ahead(l, a)
         /\ \A S \in SUBSET Elem : a \in S /\ Closed(l, S) => Ahead(l, a) \subseteq S
BY NullAssumption DEF Ahead, Ptr

\* The end of the list: nothing is met from there on.
LEMMA AheadNull ==
  ASSUME NEW l
  PROVE  Ahead(l, Null) = {}
BY DEF Ahead

\* ++ stays on what a walk meets, until it comes to the end.
LEMMA AheadClosed ==
  ASSUME NEW l, l.next \in [Elem -> Ptr], NEW a \in Ptr
  PROVE  Closed(l, Ahead(l, a))
<1> SUFFICES ASSUME NEW u \in Ahead(l, a), l.next[u] # Null
             PROVE  l.next[u] \in Ahead(l, a)
  BY DEF Closed
<1>1. u \in Elem /\ a # Null /\ l.next[u] \in Elem
  BY DEF Ahead, Ptr
<1>2. ASSUME NEW S \in SUBSET Elem, a \in S, Closed(l, S)
      PROVE  l.next[u] \in S
  BY <1>2 DEF Ahead, Closed
<1> QED
  BY <1>1, <1>2 DEF Ahead

\* A walk meets the element it stands on and what is ahead of the next one.
LEMMA AheadStep ==
  ASSUME NEW l, l.next \in [Elem -> Ptr], NEW a \in Elem
  PROVE  Ahead(l, a) = {a} \cup Ahead(l, l.next[a])
<1> DEFINE n == l.next[a]
           S == {a} \cup Ahead(l, n)
<1>1. a \in Ptr /\ n \in Ptr /\ a # Null
  BY NullAssumption DEF Ptr
<1>2. S \in SUBSET Elem /\ Closed(l, S)
  <2>1. Ahead(l, n) \subseteq Elem /\ (n # Null => n \in Ahead(l, n))
    BY <1>1, AheadLeast
  <2>2. Closed(l, Ahead(l, n))
    BY <1>1, AheadClosed
  <2> QED
    BY <2>1, <2>2 DEF Closed
<1>3. Ahead(l, a) \subseteq S
  BY <1>1, <1>2, AheadLeast
<1>4. a \in Ahead(l, a) /\ Ahead(l, a) \in SUBSET Elem /\ Closed(l, Ahead(l, a))
  BY <1>1, AheadLeast, AheadClosed
<1>5. Ahead(l, n) \subseteq Ahead(l, a)
  <2>1. CASE n = Null
    BY <2>1, AheadNull
  <2>2. CASE n # Null
    <3>1. n \in Ahead(l, a)
      BY <1>4, <2>2 DEF Closed
    <3> QED
      BY <1>1, <1>4, <3>1, AheadLeast
  <2> QED
    BY <2>1, <2>2
<1> QED
  BY <1>3, <1>4, <1>5

\* A walk that stands on an element another walk meets meets no more than that one.
LEMMA AheadTrans ==
  ASSUME NEW l, l.next \in [Elem -> Ptr], NEW a \in Ptr, NEW b \in Ahead(l, a)
  PROVE  b \in Elem /\ Ahead(l, b) \subseteq Ahead(l, a)
<1>1. Ahead(l, a) \in SUBSET Elem /\ Closed(l, Ahead(l, a)) /\ b \in Ptr
  BY AheadLeast, AheadClosed DEF Ptr
<1> QED
  BY <1>1, AheadLeast

\* Every element but the first is met by way of another one.
LEMMA AheadPred ==
  ASSUME NEW l, l.next \in [Elem -> Ptr], NEW a \in Elem,
         NEW x \in Ahead(l, a), x # a
  PROVE  \E u \in Ahead(l, a) : l.next[u] = x
<1> DEFINE H == Ahead(l, a)
           S == {y \in H : y = a \/ \E u \in H : l.next[u] = y}
<1>1. a \in Ptr /\ a # Null
  BY NullAssumption DEF Ptr
<1>2. H \subseteq Elem /\ a \in H /\ Closed(l, H)
  BY <1>1, AheadLeast, AheadClosed
<1>3. S \in SUBSET Elem /\ a \in S /\ Closed(l, S)
  BY <1>2 DEF Closed
<1>4. H \subseteq S
  BY <1>1, <1>3, AheadLeast
<1> QED
  BY <1>4
-------------------------------------------------------------------------------
\* What the pointers of a list are between two operations.
Chain(l) ==
  /\ l \in Links
  /\ (l.head = Null) = (l.tail = Null)
  /\ l.head # Null => l.prev[l.head] = Null /\ l.tail \in Ahead(l, l.head)
  /\ l.tail # Null => l.next[l.tail] = Null
  /\ \A t \in Ahead(l, l.head) :
       /\ IF l.next[t] = Null THEN l.tail = t ELSE l.prev[l.next[t]] = t
       /\ t # l.head => l.prev[t] \in Ahead(l, l.head) /\ l.next[l.prev[t]] = t

\* A walk does not come back to an element.
LEMMA NoCycle ==
  ASSUME NEW l, Chain(l)
  PROVE  \A t \in Ahead(l, l.head) : t \notin Ahead(l, l.next[t])
<1> DEFINE H == Ahead(l, l.head)
           h == l.head
           S == {t \in H : t \notin Ahead(l, l.next[t])}
<1>1. l.next \in [Elem -> Ptr] /\ h \in Ptr
  BY DEF Chain, Links
<1>2. H \subseteq Elem /\ Closed(l, H)
  BY <1>1, AheadLeast, AheadClosed
<1>3. CASE h = Null
  BY <1>3, AheadNull
<1>4. CASE h # Null
  <2>1. h \in Elem /\ h \in H
    BY <1>1, <1>4, AheadLeast DEF Ptr
  <2>2. h \notin Ahead(l, l.next[h])
    <3>1. ASSUME NEW u \in H
          PROVE  l.next[u] # h
      <4>1. l.prev[h] = Null /\ u # Null
        BY <1>2, <1>4, NullAssumption DEF Chain
      <4> QED
        BY <1>4, <4>1 DEF Chain
    <3>2. CASE l.next[h] = Null
      BY <3>2, AheadNull
    <3>3. CASE l.next[h] # Null
      <4>1. H \ {h} \in SUBSET Elem /\ Closed(l, H \ {h}) /\ l.next[h] \in H \ {h}
        BY <1>2, <2>1, <3>1, <3>3 DEF Closed
      <4> QED
        BY <1>1, <2>1, <4>1, AheadLeast
    <3> QED
      BY <3>2, <3>3
  <2>3. ASSUME NEW t \in S, l.next[t] # Null
        PROVE  l.next[t] \in S
    <3> DEFINE n == l.next[t]
    <3>1. t \in H /\ t \in Elem /\ n \in H /\ n \in Elem /\ l.prev[n] = t
      BY <1>2, <2>3 DEF Closed, Chain
    <3>2. SUFFICES ASSUME n \in Ahead(l, l.next[n])
                   PROVE  FALSE
      BY <3>1
    <3>3. l.next[n] \in Ptr /\ l.next[n] # Null
      BY <1>1, <3>1, <3>2, AheadNull
    <3>4. l.next[n] \in H /\ l.next[n] \in Elem
      BY <1>2, <3>1, <3>3 DEF Closed
    <3>5. t \in Ahead(l, n)
      <4>1. Ahead(l, n) = {n} \cup Ahead(l, l.next[n])
        BY <1>1, <3>1, AheadStep
      <4>2. CASE l.next[n] = n
        BY <3>1, <3>3, <4>1, <4>2 DEF Chain
      <4>3. CASE l.next[n] # n
        <5>1. PICK u \in Ahead(l, l.next[n]) : l.next[u] = n
          BY <1>1, <3>2, <3>4, <4>3, AheadPred
        <5>2. u \in H
          BY <1>1, <3>4, <5>1, AheadTrans
        <5>3. u = t
          BY <3>1, <3>3, <5>1, <5>2, NullAssumption DEF Chain
        <5> QED
          BY <4>1, <5>1, <5>3
      <4> QED
        BY <4>2, <4>3
    <3> QED
      BY <2>3, <3>5
  <2>4. S \in SUBSET Elem /\ h \in S /\ Closed(l, S)
    BY <1>2, <2>1, <2>2, <2>3 DEF Closed
  <2>5. H \subseteq S
    BY <1>1, <2>4, AheadLeast
  <2> QED
    BY <2>5
<1> QED
  BY <1>3, <1>4

\* Of two elements of the list, a walk from one of them meets the other.
LEMMA OneChain ==
  ASSUME NEW l, Chain(l)
  PROVE  \A a, b \in Ahead(l, l.head) : b \in Ahead(l, a) \/ a \in Ahead(l, b)
<1> DEFINE H == Ahead(l, l.head)
           S == {a \in H : \A b \in H : b \in Ahead(l, a) \/ a \in Ahead(l, b)}
<1>1. l.next \in [Elem -> Ptr] /\ l.head \in Ptr
  BY DEF Chain, Links
<1>2. H \subseteq Elem /\ Closed(l, H)
  BY <1>1, AheadLeast, AheadClosed
<1>3. CASE l.head = Null
  BY <1>3, AheadNull
<1>4. CASE l.head # Null
  <2>1. l.head \in S
    BY <1>1, <1>4, AheadLeast
  <2>2. ASSUME NEW a \in S, l.next[a] # Null
        PROVE  l.next[a] \in S
    <3> DEFINE n == l.next[a]
    <3>1. a \in H /\ a \in Elem /\ n \in H /\ n \in Elem /\ n \in Ptr
      BY <1>1, <1>2, <2>2 DEF Closed
    <3>2. Ahead(l, a) = {a} \cup Ahead(l, n) /\ n \in Ahead(l, n)
      BY <1>1, <2>2, <3>1, AheadStep, AheadLeast
    <3>3. ASSUME NEW b \in H
          PROVE  b \in Ahead(l, n) \/ n \in Ahead(l, b)
      <4>1. CASE b \in Ahead(l, a)
        BY <3>2, <4>1
      <4>2. CASE a \in Ahead(l, b)
        <5>1. b \in Ptr
          BY <1>2 DEF Ptr
        <5> QED
          BY <1>1, <2>2, <4>2, <5>1, AheadClosed DEF Closed
      <4> QED
        BY <4>1, <4>2
    <3> QED
      BY <3>1, <3>3
  <2>3. S \in SUBSET Elem /\ Closed(l, S)
    BY <1>2, <2>2 DEF Closed
  <2>4. H \subseteq S
    BY <1>1, <2>1, <2>3, AheadLeast
  <2> QED
    BY <2>4
<1> QED
  BY <1>3, <1>4

\* m_Tail is ahead of every element.
LEMMA TailAhead ==
  ASSUME NEW l, Chain(l), NEW a \in Ahead(l, l.head)
  PROVE  l.tail \in Ahead(l, a)
<1>1. /\ l.next \in [Elem -> Ptr] /\ l.head \in Ptr /\ l.head # Null
      /\ l.tail \in Ahead(l, l.head) /\ l.tail # Null /\ l.next[l.tail] = Null
  BY AheadNull DEF Chain, Links
<1>2. l.tail \in Elem /\ a \in Elem
  BY <1>1, AheadLeast
<1>3. Ahead(l, l.tail) = {l.tail}
  BY <1>1, <1>2, AheadStep, AheadNull
<1> QED
  BY <1>1, <1>2, <1>3, OneChain, AheadLeast DEF Ptr

\* The pointers stand for a list: one strict total order.
LEMMA ChainIsList ==
  ASSUME NEW l, Chain(l)
  PROVE  IsList(ListOf(l))
<1> DEFINE H == Ahead(l, l.head)
           B(a) == Ahead(l, l.next[a])
<1>1. l.next \in [Elem -> Ptr] /\ l.head \in Ptr
  BY DEF Chain, Links
<1>2. H \subseteq Elem
  BY <1>1, AheadLeast
<1>3. ASSUME NEW a \in H
      PROVE  /\ Ahead(l, a) = {a} \cup B(a) /\ a \notin B(a) /\ B(a) \subseteq Elem
             /\ \A b \in B(a) : Ahead(l, b) \subseteq B(a)
  <2>1. a \in Elem /\ l.next[a] \in Ptr
    BY <1>1, <1>2
  <2> QED
    BY <1>1, <2>1, AheadStep, NoCycle, AheadLeast, AheadTrans
<1>4. \A a, b \in H : a # b => (b \in B(a) <=> a \notin B(b))
  <2> SUFFICES ASSUME NEW a \in H, NEW b \in H, a # b
               PROVE  b \in B(a) <=> a \notin B(b)
    OBVIOUS
  <2>1. b \in Ahead(l, a) \/ a \in Ahead(l, b)
    BY OneChain
  <2>2. b \in B(a) \/ a \in B(b)
    BY <1>3, <2>1
  <2>3. ASSUME b \in B(a), a \in B(b)
        PROVE  FALSE
    <3>1. a \in Ahead(l, b) /\ Ahead(l, b) \subseteq B(a)
      BY <1>3, <2>3
    <3> QED
      BY <1>3, <3>1
  <2> QED
    BY <2>2, <2>3
<1>5. \A a, b, c \in H : b \in B(a) /\ c \in B(b) => c \in B(a)
  BY <1>3
<1> DEFINE L == ListOf(l)
<1>6. L.elems = H /\ L.before = {p \in H \X H : p[2] \in B(p[1])}
  BY DEF ListOf
<1>7. \A a, b \in H : <<a, b>> \in L.before <=> b \in B(a)
  BY <1>6
<1> HIDE DEF H, B, L
<1>8. IsList(L)
  BY <1>3, <1>4, <1>5, <1>6, <1>7 DEF IsList
<1> QED
  BY <1>8 DEF L
-------------------------------------------------------------------------------
\* m is l with t linked behind m_Tail.
Pushed(l, m, t) ==
  /\ Chain(m)
  /\ Ahead(m, m.head) = Ahead(l, l.head) \cup {t}
  /\ ListOf(m) = PushBack(ListOf(l), t)

\* push_back appends an element that is not on the list.
LEMMA PushLinks ==
  ASSUME NEW l, Chain(l), NEW t \in Elem \ Ahead(l, l.head)
  PROVE  Pushed(l, push_back(l, t), t)
<1> DEFINE H == Ahead(l, l.head)
           m == push_back(l, t)
           z == l.tail
<1>1. /\ l.next \in [Elem -> Ptr] /\ l.prev \in [Elem -> Ptr]
      /\ l.head \in Ptr /\ z \in Ptr /\ t \in Ptr /\ t # Null /\ Null \in Ptr
  BY NullAssumption DEF Chain, Links, Ptr
<1>2. H \subseteq Elem /\ Closed(l, H) /\ t \notin H
  BY <1>1, AheadLeast, AheadClosed
<1>3. /\ m \in Links
      /\ m.tail = t /\ m.head = (IF l.head = Null THEN t ELSE l.head)
      /\ m.next[t] = Null /\ m.prev[t] = z
      /\ \A u \in Elem \ {t} :
           /\ m.next[u] = IF l.head # Null /\ u = z THEN t ELSE l.next[u]
           /\ m.prev[u] = l.prev[u]
  <2>1. m.next \in [Elem -> Ptr] /\ m.prev \in [Elem -> Ptr]
    BY <1>1 DEF push_back
  <2>2. m.head \in Ptr /\ m.tail \in Ptr
    BY <1>1 DEF push_back
  <2>3. m = [next |-> m.next, prev |-> m.prev, head |-> m.head, tail |-> m.tail]
    BY DEF push_back
  <2>4. m \in Links
    BY <2>1, <2>2, <2>3 DEF Links
  <2>5. /\ m.next = [u \in Elem |-> CASE u = t -> Null
                                      [] l.head # Null /\ u = z -> t
                                      [] OTHER -> l.next[u]]
        /\ m.prev = [l.prev EXCEPT ![t] = z]
        /\ m.tail = t /\ m.head = (IF l.head = Null THEN t ELSE l.head)
    BY DEF push_back
  <2> HIDE DEF m
  <2>6. ASSUME NEW u \in Elem
        PROVE  m.next[u] = IF u = t THEN Null
                           ELSE IF l.head # Null /\ u = z THEN t ELSE l.next[u]
    <3>1. m.next[u] = CASE u = t -> Null
                        [] l.head # Null /\ u = z -> t
                        [] OTHER -> l.next[u]
      BY <2>5
    <3>2. CASE u = t /\ l.head # Null /\ u = z
      <4>1. z \in H
        BY <1>1, <3>2 DEF Chain
      <4> QED
        BY <1>2, <3>2, <4>1
    <3> QED
      BY <3>1, <3>2
  <2>7. \A u \in Elem : m.prev[u] = IF u = t THEN z ELSE l.prev[u]
    BY <1>1, <2>5
  <2> QED
    BY <2>4, <2>5, <2>6, <2>7
<1> HIDE DEF m
<1>4. m.next \in [Elem -> Ptr]
  BY <1>3 DEF Links
<1>5. Ahead(m, t) = {t}
  BY <1>3, <1>4, AheadStep, AheadNull
<1>6. ASSUME NEW a \in H
      PROVE  Ahead(m, a) = Ahead(l, a) \cup {t}
  <2> DEFINE R == Ahead(l, a)
             S == {u \in R : u \in Ahead(m, a)}
  <2>1. /\ l.head # Null /\ z # Null /\ z \in H /\ l.next[z] = Null
        /\ a \in Elem /\ a \in Ptr /\ a # Null
    BY <1>1, <1>2, AheadNull, NullAssumption DEF Chain, Ptr
  <2>2. R \subseteq H /\ a \in R /\ z \in R /\ Closed(l, R) /\ R \subseteq Elem
    BY <1>1, <2>1, AheadTrans, AheadLeast, AheadClosed, TailAhead
  <2>3. /\ Ahead(m, a) \subseteq Elem /\ a \in Ahead(m, a)
        /\ Closed(m, Ahead(m, a))
    BY <1>4, <2>1, AheadLeast, AheadClosed
  <2>4. \A u \in R : m.next[u] = IF u = z THEN t ELSE l.next[u]
    BY <1>2, <1>3, <2>1, <2>2
  <2>5. Closed(m, R \cup {t})
    BY <1>3, <2>2, <2>4 DEF Closed
  <2>6. Ahead(m, a) \subseteq R \cup {t}
    BY <2>1, <2>2, <2>5, AheadLeast
  <2>7. S \in SUBSET Elem /\ a \in S /\ Closed(l, S)
    <3>1. ASSUME NEW u \in S, l.next[u] # Null
          PROVE  l.next[u] \in S
      <4>1. u # z /\ m.next[u] = l.next[u]
        BY <2>1, <2>4, <3>1
      <4> QED
        BY <2>2, <2>3, <3>1, <4>1 DEF Closed
    <3> QED
      BY <2>2, <2>3, <3>1 DEF Closed
  <2>8. R \subseteq S
    BY <2>1, <2>7, AheadLeast
  <2>9. t \in Ahead(m, a)
    <3>1. z \in Ahead(m, a) /\ m.next[z] = t
      BY <2>2, <2>4, <2>8
    <3> QED
      BY <1>1, <2>3, <3>1 DEF Closed
  <2> QED
    BY <2>6, <2>8, <2>9
<1>7. Ahead(m, m.head) = H \cup {t}
  <2>1. CASE l.head = Null
    BY <1>3, <1>5, <2>1, AheadNull
  <2>2. CASE l.head # Null
    <3>1. l.head \in H
      BY <1>1, <2>2, AheadLeast
    <3> QED
      BY <1>3, <1>6, <2>2, <3>1
  <2> QED
    BY <2>1, <2>2
<1>8. ASSUME NEW x \in H
      PROVE  Ahead(m, m.next[x]) = Ahead(l, l.next[x]) \cup {t}
  <2>1. /\ l.head # Null /\ z # Null /\ z \in H /\ l.next[z] = Null /\ x \in Elem \ {t}
    BY <1>1, <1>2, AheadNull DEF Chain
  <2>2. CASE x = z
    BY <1>3, <1>5, <2>1, <2>2, AheadNull
  <2>3. CASE x # z
    <3>1. m.next[x] = l.next[x] /\ l.next[x] # Null
      BY <1>3, <2>1, <2>3 DEF Chain
    <3>2. l.next[x] \in H
      BY <1>2, <3>1 DEF Closed
    <3> QED
      BY <1>6, <3>1, <3>2
  <2> QED
    BY <2>2, <2>3
<1>9. Chain(m)
  <2>1. m.head # Null => m.prev[m.head] = Null /\ m.tail \in Ahead(m, m.head)
    <3>1. CASE l.head = Null
      BY <1>3, <1>7, <3>1 DEF Chain
    <3>2. CASE l.head # Null
      <4>1. l.head \in H /\ l.head \in Elem \ {t}
        BY <1>1, <1>2, <3>2, AheadLeast
      <4> QED
        BY <1>3, <1>7, <3>2, <4>1 DEF Chain
    <3> QED
      BY <3>1, <3>2
  <2>2. ASSUME NEW u \in H
        PROVE  /\ IF m.next[u] = Null THEN m.tail = u ELSE m.prev[m.next[u]] = u
               /\ u # m.head => m.prev[u] \in H \cup {t} /\ m.next[m.prev[u]] = u
    <3>1. /\ l.head # Null /\ z # Null /\ z \in H /\ l.next[z] = Null /\ u \in Elem \ {t}
      BY <1>1, <1>2, AheadNull DEF Chain
    <3>2. IF m.next[u] = Null THEN m.tail = u ELSE m.prev[m.next[u]] = u
      <4>1. CASE u = z
        BY <1>1, <1>3, <3>1, <4>1
      <4>2. CASE u # z
        <5>1. m.next[u] = l.next[u] /\ l.next[u] # Null /\ l.prev[l.next[u]] = u
          BY <1>3, <3>1, <4>2 DEF Chain
        <5>2. l.next[u] \in H /\ l.next[u] \in Elem \ {t}
          BY <1>2, <5>1 DEF Closed
        <5> QED
          BY <1>3, <5>1, <5>2
      <4> QED
        BY <4>1, <4>2
    <3>3. ASSUME u # m.head
          PROVE  m.prev[u] \in H \cup {t} /\ m.next[m.prev[u]] = u
      <4>1. l.prev[u] \in H /\ l.next[l.prev[u]] = u /\ l.prev[u] \in Elem \ {t}
        BY <1>2, <1>3, <3>1, <3>3 DEF Chain
      <4>2. l.prev[u] # z
        BY <3>1, <4>1, NullAssumption
      <4> QED
        BY <1>3, <3>1, <4>1, <4>2
    <3> QED
      BY <3>2, <3>3
  <2>3. t # m.head => m.prev[t] \in H \cup {t} /\ m.next[m.prev[t]] = t
    <3> SUFFICES ASSUME t # m.head
                 PROVE  m.prev[t] \in H /\ m.next[m.prev[t]] = t
      OBVIOUS
    <3>1. l.head # Null /\ z \in H /\ z \in Elem \ {t}
      BY <1>2, <1>3 DEF Chain
    <3> QED
      BY <1>3, <3>1
  <2>4. (m.head = Null) = (m.tail = Null)
    BY <1>1, <1>3
  <2>5. \A u \in H \cup {t} :
          /\ IF m.next[u] = Null THEN m.tail = u ELSE m.prev[m.next[u]] = u
          /\ u # m.head => m.prev[u] \in H \cup {t} /\ m.next[m.prev[u]] = u
    BY <1>3, <2>2, <2>3
  <2> QED
    BY <1>3, <1>7, <2>1, <2>4, <2>5 DEF Chain
<1>10. ListOf(m) = PushBack(ListOf(l), t)
  <2> DEFINE B(x) == Ahead(l, l.next[x])
             C(x) == Ahead(m, m.next[x])
             K == H \cup {t}
  <2>1. ListOf(l) = [elems |-> H, before |-> {p \in H \X H : p[2] \in B(p[1])}]
    BY DEF ListOf
  <2>2. ListOf(m) = [elems |-> K, before |-> {p \in K \X K : p[2] \in C(p[1])}]
    BY <1>7 DEF ListOf
  <2>3. C(t) = {} /\ \A x \in H : C(x) = B(x) \cup {t} /\ t \notin B(x) /\ B(x) \subseteq H
    <3>1. C(t) = {}
      BY <1>3, AheadNull
    <3>2. ASSUME NEW x \in H
          PROVE  B(x) \subseteq H
      <4>1. x \in Elem /\ Ahead(l, x) \subseteq H
        BY <1>1, <1>2, AheadTrans
      <4> QED
        BY <1>1, <4>1, AheadStep
    <3> QED
      BY <1>2, <1>8, <3>1, <3>2
  <2> HIDE DEF B, C, H
  <2>4. {p \in K \X K : p[2] \in C(p[1])} =
          {p \in H \X H : p[2] \in B(p[1])} \cup (H \X {t})
    <3> DEFINE X == {p \in K \X K : p[2] \in C(p[1])}
               Y == {p \in H \X H : p[2] \in B(p[1])} \cup (H \X {t})
    <3>1. X \subseteq K \X K /\ Y \subseteq K \X K
      OBVIOUS
    <3>2. ASSUME NEW x \in K, NEW y \in K
          PROVE  <<x, y>> \in X <=> <<x, y>> \in Y
      BY <2>3, <1>2
    <3> HIDE DEF X, Y, K
    <3>3. X = Y
      BY <3>1, <3>2
    <3> QED
      BY <3>3 DEF X, Y, K
  <2>5. PushBack(ListOf(l), t) =
          [elems |-> K, before |-> {p \in H \X H : p[2] \in B(p[1])} \cup (H \X {t})]
    <3>1. ListOf(l).elems = H /\ ListOf(l).before = {p \in H \X H : p[2] \in B(p[1])}
      BY <2>1
    <3> QED
      BY <3>1, Zenon DEF PushBack
  <2> QED
    BY <2>2, <2>4, <2>5, Zenon
<1> QED
  BY <1>7, <1>9, <1>10 DEF Pushed, m

\* m is l without t; a walk that was not on t meets what it would have met.
Erased(l, m, t) ==
  /\ Chain(m)
  /\ Ahead(m, m.head) = Ahead(l, l.head) \ {t}
  /\ \A a \in Ahead(l, l.head) \ {t} : Ahead(m, a) = Ahead(l, a) \ {t}
  /\ ListOf(m) = Erase(ListOf(l), {t})

\* erase takes one element out, wherever it is, and leaves the others in order.
LEMMA EraseLinks ==
  ASSUME NEW l, Chain(l), NEW t \in Ahead(l, l.head)
  PROVE  Erased(l, erase(l, t), t)
<1> DEFINE H == Ahead(l, l.head)
           m == erase(l, t)
           n == l.next[t]
           q == l.prev[t]
           K == H \ {t}
<1>1. /\ l.next \in [Elem -> Ptr] /\ l.prev \in [Elem -> Ptr]
      /\ l.head \in Ptr /\ l.tail \in Ptr /\ Null \in Ptr
  BY DEF Chain, Links, Ptr
<1>2. H \subseteq Elem /\ Closed(l, H) /\ t \in Elem /\ n \in Ptr /\ q \in Ptr /\ t # Null
  BY <1>1, AheadLeast, AheadClosed, NullAssumption
<1>3. /\ l.head # Null /\ l.head \in H /\ l.prev[l.head] = Null
      /\ l.tail \in H /\ l.tail # Null /\ l.next[l.tail] = Null
  BY <1>1, AheadNull, AheadLeast DEF Chain
<1>4. /\ t = l.head => q = Null
      /\ t # l.head => q \in K /\ q # Null /\ l.next[q] = t
  <2>1. l.next[t] # t
    BY <1>1, <1>2, NoCycle, AheadLeast
  <2>2. t # l.head => q \in H /\ l.next[q] = t
    BY DEF Chain
  <2> QED
    BY <1>2, <1>3, <2>1, <2>2, NullAssumption
<1>5. /\ t = l.tail => n = Null
      /\ t # l.tail => n \in K /\ n # Null /\ l.prev[n] = t
  <2>1. l.next[t] # t
    BY <1>1, <1>2, NoCycle, AheadLeast
  <2>2. t # l.tail => n # Null /\ l.prev[n] = t
    BY DEF Chain
  <2> QED
    BY <1>2, <1>3, <2>1, <2>2, NullAssumption DEF Closed
<1>7. /\ m \in Links
      /\ m.head = (IF q = Null THEN n ELSE l.head)
      /\ m.tail = (IF n = Null THEN q ELSE l.tail)
      /\ \A u \in Elem : m.next[u] = IF u = q THEN n ELSE l.next[u]
      /\ \A u \in Elem : m.prev[u] = IF u = n THEN q ELSE l.prev[u]
  <2>1. /\ m.next = (IF q = Null THEN l.next ELSE [l.next EXCEPT ![q] = n])
        /\ m.prev = (IF n = Null THEN l.prev ELSE [l.prev EXCEPT ![n] = q])
        /\ m.head = (IF q = Null THEN n ELSE l.head)
        /\ m.tail = (IF n = Null THEN q ELSE l.tail)
        /\ m = [next |-> m.next, prev |-> m.prev, head |-> m.head, tail |-> m.tail]
    BY DEF erase
  <2> HIDE DEF m, n, q
  <2>2. m.next \in [Elem -> Ptr] /\ m.prev \in [Elem -> Ptr] /\ m.head \in Ptr /\ m.tail \in Ptr
    BY <1>1, <1>2, <2>1
  <2>3. m \in Links
    BY <2>1, <2>2 DEF Links
  <2>4. \A u \in Elem : m.next[u] = IF u = q THEN n ELSE l.next[u]
    BY <1>1, <2>1, NullAssumption
  <2>5. \A u \in Elem : m.prev[u] = IF u = n THEN q ELSE l.prev[u]
    BY <1>1, <2>1, NullAssumption
  <2> QED
    BY <2>1, <2>3, <2>4, <2>5
<1> HIDE DEF m
<1>8. m.next \in [Elem -> Ptr]
  BY <1>7 DEF Links
<1>9. ASSUME NEW u \in K
      PROVE  m.next[u] = IF l.next[u] = t THEN n ELSE l.next[u]
  <2>1. u \in H /\ u \in Elem
    BY <1>2
  <2>2. l.next[u] = t => q = u
    BY <1>2, <2>1 DEF Chain
  <2>3. u = q => l.next[u] = t
    BY <1>2, <1>4, <2>1, NullAssumption
  <2> QED
    BY <1>7, <2>1, <2>2, <2>3
<1>10. ASSUME NEW a \in K
       PROVE  Ahead(m, a) = Ahead(l, a) \ {t}
  <2> DEFINE R == Ahead(l, a)
             S == {u \in R : IF u = t THEN n = Null \/ n \in Ahead(m, a) ELSE u \in Ahead(m, a)}
  <2>1. a \in Elem /\ a \in Ptr /\ a # Null /\ a # t
    BY <1>2, NullAssumption DEF Ptr
  <2>2. R \subseteq H /\ a \in R /\ Closed(l, R) /\ R \subseteq Elem
    BY <1>1, <2>1, AheadTrans, AheadLeast, AheadClosed
  <2>3. Ahead(m, a) \subseteq Elem /\ a \in Ahead(m, a) /\ Closed(m, Ahead(m, a))
    BY <1>8, <2>1, AheadLeast, AheadClosed
  <2>4. \A u \in R \ {t} : m.next[u] = IF l.next[u] = t THEN n ELSE l.next[u]
    BY <1>9, <2>2
  <2>5. n # t
    BY <1>2, <1>5
  <2>6. Closed(m, R \ {t})
    <3> SUFFICES ASSUME NEW u \in R \ {t}
                 PROVE  m.next[u] \in (R \ {t}) \cup {Null}
      BY DEF Closed
    <3>1. l.next[u] \in R \cup {Null}
      BY <2>2 DEF Closed
    <3>2. CASE l.next[u] = t
      <4>1. m.next[u] = n /\ t \in R
        BY <1>2, <2>4, <3>1, <3>2
      <4>2. n \in R \cup {Null}
        BY <2>2, <4>1 DEF Closed
      <4> QED
        BY <2>5, <4>1, <4>2
    <3>3. CASE l.next[u] # t
      BY <2>4, <3>1, <3>3
    <3> QED
      BY <3>2, <3>3
  <2>7. Ahead(m, a) \subseteq R \ {t}
    BY <2>1, <2>2, <2>6, AheadLeast
  <2>8. S \in SUBSET Elem /\ a \in S /\ Closed(l, S)
    <3>1. ASSUME NEW u \in S, l.next[u] # Null
          PROVE  l.next[u] \in S
      <4>1. l.next[u] \in R
        BY <2>2, <3>1 DEF Closed
      <4>2. CASE u = t
        BY <2>5, <3>1, <4>1, <4>2
      <4>3. CASE u # t
        <5>1. m.next[u] = Null \/ m.next[u] \in Ahead(m, a)
          BY <2>3, <3>1, <4>3 DEF Closed
        <5> QED
          BY <2>4, <3>1, <4>1, <4>3, <5>1
      <4> QED
        BY <4>2, <4>3
    <3> QED
      BY <2>1, <2>2, <2>3, <3>1 DEF Closed
  <2>9. R \subseteq S
    BY <2>1, <2>8, AheadLeast
  <2> QED
    BY <2>7, <2>9
<1>11. Ahead(m, m.head) = K
  <2>1. CASE t = l.head
    <3>1. H = {t} \cup Ahead(l, n) /\ t \notin Ahead(l, n)
      BY <1>1, <1>2, <2>1, AheadStep, NoCycle
    <3>2. CASE n = Null
      BY <1>4, <1>7, <2>1, <3>1, <3>2, AheadNull
    <3>3. CASE n # Null
      <4>1. n \in K /\ m.head = n
        BY <1>4, <1>5, <1>7, <2>1, <3>3
      <4> QED
        BY <1>10, <3>1, <4>1
    <3> QED
      BY <3>2, <3>3
  <2>2. CASE t # l.head
    <3>1. m.head = l.head /\ l.head \in K
      BY <1>3, <1>4, <1>7, <2>2
    <3> QED
      BY <1>10, <3>1
  <2> QED
    BY <2>1, <2>2
<1>12. ASSUME NEW x \in K
       PROVE  Ahead(m, m.next[x]) = Ahead(l, l.next[x]) \ {t}
  <2>1. CASE l.next[x] = t
    <3>1. m.next[x] = n /\ Ahead(l, t) = {t} \cup Ahead(l, n) /\ t \notin Ahead(l, n)
      BY <1>1, <1>2, <1>9, <2>1, AheadStep, NoCycle
    <3>2. CASE n = Null
      BY <2>1, <3>1, <3>2, AheadNull
    <3>3. CASE n # Null
      BY <1>5, <1>10, <2>1, <3>1, <3>3
    <3> QED
      BY <3>2, <3>3
  <2>2. CASE l.next[x] # t
    <3>1. m.next[x] = l.next[x]
      BY <1>9, <2>2
    <3>2. CASE l.next[x] = Null
      BY <3>1, <3>2, AheadNull
    <3>3. CASE l.next[x] # Null
      <4>1. l.next[x] \in K
        BY <1>2, <2>2, <3>3 DEF Closed
      <4> QED
        BY <1>10, <3>1, <4>1
    <3> QED
      BY <3>2, <3>3
  <2> QED
    BY <2>1, <2>2
<1>13. Chain(m)
  <2>1. /\ t = l.head => m.head = n
        /\ t # l.head => m.head = l.head
        /\ t = l.tail => m.tail = q
        /\ t # l.tail => m.tail = l.tail
    BY <1>4, <1>5, <1>7
  <2>2. (m.head = Null) = (m.tail = Null)
    BY <1>3, <1>4, <1>5, <2>1
  <2>3. m.head # Null => m.prev[m.head] = Null /\ m.tail \in K
    <3> SUFFICES ASSUME m.head # Null
                 PROVE  m.prev[m.head] = Null /\ m.tail \in K
      OBVIOUS
    <3>1. m.tail \in K
      BY <1>3, <1>4, <1>5, <2>1
    <3>2. m.prev[m.head] = Null
      <4>1. CASE t = l.head
        <5>1. n \in Elem /\ q = Null /\ m.head = n
          BY <1>2, <1>4, <1>5, <2>1, <4>1
        <5> QED
          BY <1>7, <5>1
      <4>2. CASE t # l.head
        <5>1. l.head # n /\ l.head \in Elem /\ m.head = l.head
          BY <1>2, <1>3, <1>5, <2>1, <4>2
        <5> QED
          BY <1>3, <1>7, <5>1
      <4> QED
        BY <4>1, <4>2
    <3> QED
      BY <3>1, <3>2
  <2>4. m.tail # Null => m.next[m.tail] = Null
    <3> SUFFICES ASSUME m.tail # Null
                 PROVE  m.next[m.tail] = Null
      OBVIOUS
    <3>1. CASE t = l.tail
      <4>1. q \in Elem /\ n = Null /\ m.tail = q
        BY <1>2, <1>4, <1>5, <2>1, <3>1
      <4> QED
        BY <1>7, <4>1
    <3>2. CASE t # l.tail
      <4>1. l.tail # q /\ l.tail \in Elem /\ m.tail = l.tail
        BY <1>2, <1>3, <1>4, <2>1, <3>2
      <4> QED
        BY <1>3, <1>7, <4>1
    <3> QED
      BY <3>1, <3>2
  <2>5. ASSUME NEW u \in K
        PROVE  IF m.next[u] = Null THEN m.tail = u ELSE m.prev[m.next[u]] = u
    <3>1. u \in H /\ u \in Elem /\ u # t
      BY <1>2
    <3>2. CASE l.next[u] = t
      <4>1. m.next[u] = n /\ q = u
        BY <1>2, <1>9, <3>1, <3>2 DEF Chain
      <4>2. n # Null => n \in Elem
        BY <1>2, <1>5
      <4> QED
        BY <1>5, <1>7, <2>1, <4>1, <4>2
    <3>3. CASE l.next[u] # t
      <4>1. m.next[u] = l.next[u]
        BY <1>9, <3>3
      <4>2. CASE l.next[u] = Null
        BY <2>1, <3>1, <4>1, <4>2 DEF Chain
      <4>3. CASE l.next[u] # Null
        <5>1. l.prev[l.next[u]] = u /\ l.next[u] \in Elem
          BY <1>2, <3>1, <4>3 DEF Chain, Closed
        <5>2. l.next[u] # n
          BY <1>5, <3>1, <4>3, <5>1
        <5> QED
          BY <1>7, <4>1, <4>3, <5>1, <5>2
      <4> QED
        BY <4>2, <4>3
    <3> QED
      BY <3>2, <3>3
  <2>6. ASSUME NEW u \in K, u # m.head
        PROVE  m.prev[u] \in K /\ m.next[m.prev[u]] = u
    <3>1. u \in H /\ u \in Elem /\ u # t
      BY <1>2
    <3>2. CASE u = n
      <4>1. t # l.head /\ q \in K /\ q \in Elem /\ m.prev[u] = q
        BY <1>2, <1>4, <1>7, <2>1, <2>6, <3>1, <3>2
      <4> QED
        BY <1>7, <3>2, <4>1
    <3>3. CASE u # n
      <4>1. u # l.head
        BY <2>1, <2>6, <3>1
      <4>2. m.prev[u] = l.prev[u] /\ l.prev[u] \in H /\ l.next[l.prev[u]] = u
        BY <1>7, <3>1, <3>3, <4>1 DEF Chain
      <4>3. l.prev[u] # t
        BY <3>3, <4>2
      <4>4. l.prev[u] \in K
        BY <4>2, <4>3
      <4> QED
        BY <1>9, <3>1, <4>2, <4>4
    <3> QED
      BY <3>2, <3>3
  <2>7. \A u \in K :
          /\ IF m.next[u] = Null THEN m.tail = u ELSE m.prev[m.next[u]] = u
          /\ u # m.head => m.prev[u] \in K /\ m.next[m.prev[u]] = u
    BY <2>5, <2>6
  <2> QED
    BY <1>7, <1>11, <2>2, <2>3, <2>4, <2>7 DEF Chain
<1>14. ListOf(m) = Erase(ListOf(l), {t})
  <2> DEFINE B(x) == Ahead(l, l.next[x])
             C(x) == Ahead(m, m.next[x])
             X == {p \in K \X K : p[2] \in C(p[1])}
             Y == {p \in H \X H : p[2] \in B(p[1])}
             Z == {p \in Y : p[1] \notin {t} /\ p[2] \notin {t}}
  <2>1. ListOf(l).elems = H /\ ListOf(l).before = Y
    BY DEF ListOf
  <2>2. ListOf(m) = [elems |-> K, before |-> X]
    BY <1>11 DEF ListOf
  <2>3. \A x \in K : C(x) = B(x) \ {t}
    BY <1>12
  <2> HIDE DEF B, C, H
  <2>4. X = Z
    <3>1. X \subseteq K \X K /\ Z \subseteq K \X K
      OBVIOUS
    <3>2. ASSUME NEW x \in K, NEW y \in K
          PROVE  <<x, y>> \in X <=> <<x, y>> \in Z
      BY <2>3
    <3> HIDE DEF X, Z, K
    <3> QED
      BY <3>1, <3>2
  <2>5. Erase(ListOf(l), {t}) = [elems |-> K, before |-> Z]
    <3> HIDE DEF Y
    <3> QED
      BY <2>1, Zenon DEF Erase
  <2> HIDE DEF X, Z, K
  <2> QED
    BY <2>2, <2>4, <2>5, Zenon
<1> QED
  BY <1>10, <1>11, <1>13, <1>14 DEF Erased, m
-------------------------------------------------------------------------------
\* Between two operations the pointers are one chain, a walk stands on it or is
\* over, and has still to meet exactly what is ahead of it.
LInv ==
  /\ Chain(links)
  /\ cursor \in Linked \cup {Null}
  /\ Ahead(links, cursor) = todo

\* The invariant holds of a list that AnchorList() has just made.
LEMMA LinksInit == Init => LInv
<1> SUFFICES ASSUME Init
             PROVE  LInv
  OBVIOUS
<1>1. links.head = Null /\ links.tail = Null /\ links \in Links
  BY DEF Init, Links, Ptr
<1>2. Ahead(links, links.head) = {} /\ Ahead(links, Null) = {}
  BY <1>1, AheadNull
<1>3. Chain(links)
  BY <1>1, <1>2 DEF Chain
<1> QED
  BY <1>2, <1>3 DEF Init, LInv

\* push_back and erase, with nobody walking, and the whole of a walk keep the invariant.
LEMMA LinksStep == LInv /\ [Next]_vars => LInv'
<1> SUFFICES ASSUME LInv, [Next]_vars
             PROVE  LInv'
  OBVIOUS
<1>1. Chain(links) /\ cursor \in Linked \cup {Null} /\ Ahead(links, cursor) = todo
  BY DEF LInv
<1>2. links.next \in [Elem -> Ptr] /\ links.head \in Ptr
  BY <1>1 DEF Chain, Links
<1>3. Linked \subseteq Elem /\ Closed(links, Linked)
  BY <1>2, AheadLeast, AheadClosed DEF Linked
<1>4. ASSUME Chain(links'), cursor = Null, UNCHANGED <<cursor, todo>>
      PROVE  LInv'
  <2>1. todo = {} /\ Ahead(links', Null) = {} /\ cursor' = Null /\ todo' = todo
    BY <1>1, <1>4, AheadNull
  <2> QED
    BY <1>4, <2>1 DEF LInv, Chain
<1>5. ASSUME NEW t \in Elem, Push(t)
      PROVE  LInv'
  <2>1. Chain(links')
    BY <1>1, <1>5, PushLinks DEF Push, Linked, Pushed
  <2> QED
    BY <1>4, <1>5, <2>1 DEF Push
<1>6. ASSUME NEW t \in Elem, Remove(t)
      PROVE  LInv'
  <2>1. Chain(links')
    BY <1>1, <1>6, EraseLinks DEF Remove, Linked, Erased
  <2> QED
    BY <1>4, <1>6, <2>1 DEF Remove
<1>7. ASSUME NEW t \in Elem, Move(t)
      PROVE  LInv'
  <2> DEFINE m == erase(links, t)
  <2>1. Erased(links, m, t)
    BY <1>1, <1>7, EraseLinks DEF Move, Linked
  <2>2. links' = push_back(m, t)
    BY <1>7 DEF Move
  <2> HIDE DEF m
  <2>3. Chain(m) /\ t \notin Ahead(m, m.head)
    BY <2>1 DEF Erased
  <2>4. Chain(links')
    BY <2>2, <2>3, PushLinks DEF Pushed
  <2> QED
    BY <1>4, <1>7, <2>4 DEF Move
<1>8. CASE Begin
  <2>1. links' = links /\ cursor' = links.head /\ todo' = Linked
    BY <1>8 DEF Begin
  <2>2. links.head \in Linked \cup {Null}
    BY <1>2, AheadLeast DEF Linked
  <2> QED
    BY <1>1, <2>1, <2>2 DEF LInv, Linked
<1>9. ASSUME cursor # Null
      PROVE  /\ cursor \in Linked /\ cursor \in Elem
             /\ links.next[cursor] \in Linked \cup {Null}
             /\ Ahead(links, links.next[cursor]) = todo \ {cursor}
             /\ cursor \notin Ahead(links, links.next[cursor])
  <2>1. cursor \in Linked /\ cursor \in Elem
    BY <1>1, <1>3, <1>9
  <2>2. links.next[cursor] \in Linked \cup {Null}
    BY <1>3, <2>1 DEF Closed
  <2>3. todo = {cursor} \cup Ahead(links, links.next[cursor])
    BY <1>1, <1>2, <2>1, AheadStep
  <2>4. cursor \notin Ahead(links, links.next[cursor])
    BY <1>1, <2>1, NoCycle DEF Linked
  <2> QED
    BY <2>1, <2>2, <2>3, <2>4
<1>10. CASE Keep
  <2>1. /\ links' = links /\ cursor' = links.next[cursor] /\ todo' = todo \ {cursor}
        /\ cursor # Null
    BY <1>10 DEF Keep
  <2> QED
    BY <1>1, <1>9, <2>1 DEF LInv, Linked
<1>11. CASE EraseHere
  <2> DEFINE n == links.next[cursor]
             m == erase(links, cursor)
  <2>1. cursor # Null /\ links' = m /\ cursor' = n /\ todo' = todo \ {cursor}
    BY <1>11 DEF EraseHere
  <2>2. Erased(links, m, cursor)
    BY <1>1, <1>9, <2>1, EraseLinks DEF Linked
  <2>3. n \in Linked \cup {Null} /\ Ahead(links, n) = todo \ {cursor} /\ cursor \notin Ahead(links, n)
    BY <1>9, <2>1
  <2> HIDE DEF m, n
  <2>4. Chain(m) /\ Ahead(m, m.head) = Linked \ {cursor}
    BY <2>2 DEF Erased, Linked
  <2>5. n # Null => n # cursor
    <3>1. n # Null => n \in Ahead(links, n)
      BY <1>3, <2>3, AheadLeast DEF Ptr
    <3> QED
      BY <2>3, <3>1
  <2>6. Ahead(m, n) = todo \ {cursor}
    <3>1. CASE n = Null
      BY <2>3, <3>1, AheadNull
    <3>2. CASE n # Null
      <4>1. Ahead(m, n) = Ahead(links, n) \ {cursor}
        BY <2>2, <2>3, <2>5, <3>2 DEF Erased, Linked
      <4> QED
        BY <2>3, <4>1
    <3> QED
      BY <3>1, <3>2
  <2>7. n \in (Linked \ {cursor}) \cup {Null}
    BY <2>3, <2>5
  <2>8. Linked' = Linked \ {cursor}
    BY <2>1, <2>4 DEF Linked
  <2>9. Chain(links)' /\ Ahead(links, cursor)' = todo'
    BY <2>1, <2>4, <2>6 DEF Chain
  <2> QED
    BY <2>1, <2>7, <2>8, <2>9 DEF LInv
<1>12. CASE UNCHANGED vars
  BY <1>1, <1>12 DEF LInv, vars, Linked, Chain
<1> QED
  BY <1>5, <1>6, <1>7, <1>8, <1>10, <1>11, <1>12 DEF Next

\* The inductive invariant holds of every behaviour of the pointers.
THEOREM LinksInductive == Spec => []LInv
BY LinksInit, LinksStep, PTL DEF Spec

\* The pointers are always elements or null, and an iterator never stands on an
\* element that is no longer linked, though UpdateEvents erases as it walks.
THEOREM LinksTypeCorrect == Spec => []TypeOK
<1>1. LInv => TypeOK
  <2> SUFFICES ASSUME LInv
               PROVE  TypeOK
    OBVIOUS
  <2>1. links \in Links /\ cursor \in Linked \cup {Null}
    BY DEF LInv, Chain
  <2>2. cursor \in Ptr
    BY <2>1, AheadLeast DEF Linked, Links, Ptr
  <2>3. todo \subseteq Elem
    BY <2>2, AheadLeast DEF LInv
  <2> QED
    BY <2>1, <2>3 DEF TypeOK
<1> QED
  BY <1>1, LinksInductive, PTL

\* push_back and erase keep the two chains of pointers mirror images of each other,
\* whatever the element's old anchor held.
THEOREM LinksMirrored == Spec => []Mirrored
<1>1. LInv => Mirrored
  <2> SUFFICES ASSUME LInv
               PROVE  Mirrored
    OBVIOUS
  <2>1. Chain(links)
    BY DEF LInv
  <2>2. links.head \in Ptr
    BY <2>1 DEF Chain, Links
  <2>3. Linked \subseteq Elem
    BY <2>2, AheadLeast DEF Linked
  <2>4. ASSUME NEW t \in Linked
        PROVE  IF links.prev[t] = Null THEN links.head = t ELSE links.next[links.prev[t]] = t
    <3>1. CASE t = links.head
      BY <2>1, <2>3, <3>1, NullAssumption DEF Chain
    <3>2. CASE t # links.head
      BY <2>1, <2>3, <3>2, NullAssumption DEF Chain, Linked
    <3> QED
      BY <3>1, <3>2
  <2>5. \A t \in Linked :
          IF links.next[t] = Null THEN links.tail = t ELSE links.prev[links.next[t]] = t
    BY <2>1 DEF Chain, Linked
  <2> QED
    BY <2>1, <2>4, <2>5 DEF Mirrored, Chain
<1> QED
  BY <1>1, LinksInductive, PTL

\* UpdateEvents, which erases the element it stands on and goes on, misses no
\* element of the list and meets none twice.
THEOREM WalkComplete == Spec => []WalkMeetsAll
<1>1. LInv => WalkMeetsAll
  BY DEF LInv, WalkMeetsAll
<1> QED
  BY <1>1, LinksInductive, PTL

\* What next leads to is always one strict total order: the list that the models
\* of the list's users take for granted.
THEOREM LinksOneList == Spec => []IsList(ListOf(links))
<1>1. LInv => IsList(ListOf(links))
  BY ChainIsList DEF LInv
<1> QED
  BY <1>1, LinksInductive, PTL

\* Every operation on the pointers is one operation of the abstract list, and a
\* step of a walk that erases nothing leaves it alone.
LEMMA LinksRefineStep == LInv /\ [Next]_vars => [A!Next]_(ListOf(links))
<1> SUFFICES ASSUME LInv, [Next]_vars
             PROVE  A!Next \/ ListOf(links') = ListOf(links)
  BY DEF ListOf
<1>1. Chain(links) /\ cursor \in Linked \cup {Null} /\ ListOf(links).elems = Linked
  BY DEF LInv, ListOf, Linked
<1>2. Linked \subseteq Elem
  BY <1>1, AheadLeast DEF Linked, Chain, Links
<1>same. /\ \A l, t : A!PushBack(l, t) = PushBack(l, t)
        /\ \A l, S : A!Erase(l, S) = Erase(l, S)
  BY Zenon DEF A!PushBack, PushBack, A!Erase, Erase
<1>3. ASSUME NEW t \in Elem, Push(t)
      PROVE  A!Push(t)
  <2>1. t \notin Linked /\ links' = push_back(links, t)
    BY <1>3 DEF Push
  <2>2. ListOf(links') = PushBack(ListOf(links), t)
    BY <1>1, <2>1, PushLinks DEF Linked, Pushed
  <2> QED
    BY <1>1, <1>same, <2>1, <2>2 DEF A!Push
<1>4. ASSUME NEW t \in Elem, t \in Linked, links' = erase(links, t)
      PROVE  A!Remove(t)
  <2>1. ListOf(links') = Erase(ListOf(links), {t})
    BY <1>1, <1>4, EraseLinks DEF Linked, Erased
  <2> QED
    BY <1>1, <1>same, <1>4, <2>1 DEF A!Remove
<1>5. ASSUME NEW t \in Elem, Move(t)
      PROVE  A!Move(t)
  <2> DEFINE m == erase(links, t)
  <2>1. t \in Linked /\ links' = push_back(m, t)
    BY <1>5 DEF Move
  <2>2. Erased(links, m, t)
    BY <1>1, <2>1, EraseLinks DEF Linked
  <2> HIDE DEF m
  <2>3. Chain(m) /\ t \notin Ahead(m, m.head) /\ ListOf(m) = Erase(ListOf(links), {t})
    BY <2>2 DEF Erased
  <2>4. ListOf(links') = PushBack(ListOf(m), t)
    BY <2>1, <2>3, PushLinks DEF Pushed
  <2>5. ListOf(links') = PushBack(Erase(ListOf(links), {t}), t)
    BY <2>3, <2>4
  <2> QED
    BY <1>1, <1>same, <2>1, <2>5 DEF A!Move
<1>6. ASSUME UNCHANGED links
      PROVE  ListOf(links') = ListOf(links)
  BY <1>6
<1>7. CASE Begin \/ Keep \/ UNCHANGED vars
  BY <1>6, <1>7 DEF Begin, Keep, vars
<1>8. CASE EraseHere
  <2>1. cursor \in Elem /\ cursor \in Linked /\ links' = erase(links, cursor)
    BY <1>1, <1>2, <1>8 DEF EraseHere
  <2> QED
    BY <1>4, <2>1 DEF A!Next
<1>9. ASSUME NEW t \in Elem, Remove(t)
      PROVE  A!Remove(t)
  BY <1>4, <1>9 DEF Remove
<1>10. CASE \E t \in Elem : Push(t) \/ Remove(t) \/ Move(t)
  BY <1>3, <1>5, <1>9, <1>10 DEF A!Next
<1> QED
  BY <1>7, <1>8, <1>10 DEF Next

\* The pointers of AnchorList.h implement the list that the scheduler, the lock and
\* the semaphore are modelled with.
THEOREM LinksRefine == Spec => ImplementsList
<1>1. Init => A!Init
  <2> SUFFICES ASSUME Init
               PROVE  ListOf(links) = EmptyList
    BY DEF A!Init, A!EmptyList, EmptyList
  <2>1. Ahead(links, links.head) = {}
    BY AheadNull DEF Init
  <2> QED
    BY <2>1 DEF ListOf, EmptyList
<1> QED
  BY <1>1, LinksInductive, LinksRefineStep, PTL DEF Spec, ImplementsList, A!Spec
===============================================================================
