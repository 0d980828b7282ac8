--------------------------- MODULE DescriptorsProofs ---------------------------
(***************************************************************************)
(* What stays true of the tables and counts whatever the threads do, for    *)
(* any number of threads, processes and descriptors.                        *)
(***************************************************************************)
EXTENDS Descriptors, FiniteSetTheorems, SequenceTheorems, TLAPS

\* A set of numbers has a smallest one.
LEMMA MinIs ==
  ASSUME NEW S \in SUBSET Nat, S # {}
  PROVE  Min(S) \in S /\ \A y \in S : Min(S) <= y
<1> DEFINE R == OpToRel(<, Nat)
<1>1. IsWellFoundedOn(R, Nat)
  BY NatLessThanWellFounded, Zenon
<1>2. \A x, y \in Nat : y < x => <<y, x>> \in R
  BY DEF OpToRel
<1> HIDE DEF R
<1>3. PICK x \in S : \A y \in S : ~(<<y, x>> \in R)
  BY <1>1, WFMin
<1>4. \A y \in S : x \in Nat /\ y \in Nat /\ ~(y < x)
  BY <1>2, <1>3
<1>5. \E z \in S : \A y \in S : z <= y
  BY <1>4
<1> QED
  BY <1>5 DEF Min

\* The search for a number finds its entry, or there is none.
LEMMA EntryFound ==
  ASSUME NEW p, NEW i, fds[p] \in Seq(Entry)
  PROVE  \/ EntryOf(p, i) = 0 /\ \A j \in DOMAIN fds[p] : fds[p][j].id # i
         \/ EntryOf(p, i) \in DOMAIN fds[p] /\ fds[p][EntryOf(p, i)].id = i
<1> DEFINE s == fds[p]
           I == {j \in 1 .. Len(s) : s[j].id = i}
<1>1. EntryOf(p, i) = IF I # {} THEN Min(I) ELSE 0
  BY Zenon DEF SelectInSeq, EntryOf
<1>2. DOMAIN s = 1 .. Len(s)
  OBVIOUS
<1>3. CASE I = {}
  BY <1>1, <1>2, <1>3
<1>4. CASE I # {}
  <2>1. I \in SUBSET Nat
    OBVIOUS
  <2>2. Min(I) \in I
    BY <1>4, <2>1, MinIs
  <2> QED
    BY <1>1, <1>2, <1>4, <2>2
<1> QED
  BY <1>3, <1>4

\* m is s with e at place k, and what was there and behind it one place further.
Inserted(s, k, e, m) ==
  /\ m \in Seq(Entry)
  /\ Len(m) = Len(s) + 1
  /\ \A j \in 1 .. Len(s) + 1 :
       m[j] = IF j < k THEN s[j] ELSE IF j = k THEN e ELSE s[j - 1]

\* vector::insert moves the entries behind its place.
LEMMA InsertFacts ==
  ASSUME NEW s \in Seq(Entry), NEW k \in 1 .. Len(s) + 1, NEW e \in Entry
  PROVE  Inserted(s, k, e, InsertAt(s, k, e))
<1> DEFINE a == SubSeq(s, 1, k - 1)
           b == a \o <<e>>
           c == SubSeq(s, k, Len(s))
<1> USE DEF Inserted
<1> HIDE DEF Entry
<1>1. a \in Seq(Entry) /\ Len(a) = k - 1 /\ \A j \in 1 .. k - 1 : a[j] = s[j]
  OBVIOUS
<1>2. /\ c \in Seq(Entry) /\ Len(c) = Len(s) - k + 1
      /\ \A j \in 1 .. Len(s) - k + 1 : c[j] = s[k + j - 1]
  OBVIOUS
<1> HIDE DEF a, c
<1>3. b \in Seq(Entry) /\ Len(b) = k /\ \A j \in 1 .. k : b[j] = IF j < k THEN s[j] ELSE e
  BY <1>1
<1>4. InsertAt(s, k, e) = b \o c
  BY DEF InsertAt, a, c
<1> HIDE DEF b
<1>5. b \o c \in Seq(Entry) /\ Len(b \o c) = Len(s) + 1
  BY <1>2, <1>3
<1>6. \A j \in 1 .. Len(s) + 1 : (b \o c)[j] = IF j <= k THEN b[j] ELSE c[j - k]
  BY <1>2, <1>3
<1>7. \A j \in 1 .. Len(s) + 1 : j > k => c[j - k] = s[j - 1]
  BY <1>2
<1> QED
  BY <1>3, <1>4, <1>5, <1>6, <1>7

\* FindFreeFD gives the first place whose number is missing.
LEMMA FreeFound ==
  ASSUME NEW p, fds[p] \in Seq(Entry)
  PROVE  LET k == FindFreeFD(p)
         IN  /\ k \in 1 .. Len(fds[p]) + 1
             /\ k <= Len(fds[p]) => fds[p][k].id # k - 1
             /\ \A j \in 1 .. k - 1 : fds[p][j].id = j - 1
<1> DEFINE s == fds[p]
           I == {k \in 1 .. Len(s) + 1 : k <= Len(s) => s[k].id # k - 1}
<1>1. I \in SUBSET Nat /\ Len(s) + 1 \in I
  OBVIOUS
<1>2. Min(I) \in I /\ \A y \in I : Min(I) <= y
  BY <1>1, MinIs
<1>3. \A j \in 1 .. Min(I) - 1 : s[j].id = j - 1
  <2>1. \A j \in 1 .. Min(I) - 1 : j \notin I /\ j \in 1 .. Len(s)
    BY <1>2
  <2> QED
    BY <2>1
<1>4. \E k \in 1 .. Len(s) + 1 : /\ k <= Len(s) => s[k].id # k - 1
                                 /\ \A j \in 1 .. k - 1 : s[j].id = j - 1
  BY <1>2, <1>3
<1> QED
  BY <1>4, Zenon DEF FindFreeFD

\* A set of places has a last one.
LEMMA MaxIs ==
  ASSUME NEW n \in Nat, NEW S \in SUBSET (1 .. n), S # {}
  PROVE  Max(S) \in S
<1> DEFINE M == {i \in 0 .. n : n - i \in S}
<1>1. M \in SUBSET Nat /\ M # {}
  <2>1. PICK x \in S : x \in 1 .. n
    OBVIOUS
  <2>2. n - x \in 0 .. n /\ n - (n - x) = x
    BY <2>1
  <2>3. n - x \in M
    BY <2>1, <2>2
  <2>4. M \subseteq Nat
    OBVIOUS
  <2> HIDE DEF M
  <2> QED
    BY <2>3, <2>4
<1>2. PICK k : k = Min(M)
  OBVIOUS
<1>3. k \in M /\ \A y \in M : k <= y
  BY <1>1, <1>2, MinIs
<1>4. \A y \in S : n - k >= y
  <2> SUFFICES ASSUME NEW y \in S
               PROVE  n - k >= y
    OBVIOUS
  <2>0. y \in 1 .. n
    OBVIOUS
  <2>1. y \in 1 .. n /\ n - y \in 0 .. n /\ n - (n - y) = y
    BY <2>0
  <2>2. n - y \in M
    BY <2>1
  <2>3. k \in 0 .. n /\ k <= n - y
    BY <1>3, <2>2
  <2> QED
    BY <2>1, <2>3
<1>5. \E x \in S : \A y \in S : x >= y
  BY <1>3, <1>4
<1> QED
  BY <1>5 DEF Max

\* The search to the end finds an entry with the number, or none.
LEMMA LastFound ==
  ASSUME NEW p, NEW i, fds[p] \in Seq(Entry)
  PROVE  \/ LastEntryOf(p, i) = 0
         \/ LastEntryOf(p, i) \in DOMAIN fds[p] /\ fds[p][LastEntryOf(p, i)].id = i
<1> DEFINE s == fds[p]
           I == {j \in 1 .. Len(s) : s[j].id = i}
<1>1. LastEntryOf(p, i) = IF I # {} THEN Max(I) ELSE 0
  BY Zenon DEF SelectLastInSeq, LastEntryOf
<1>2. DOMAIN s = 1 .. Len(s) /\ Len(s) \in Nat
  OBVIOUS
<1>3. I # {} => Max(I) \in I
  BY <1>2, MaxIs
<1> QED
  BY <1>1, <1>2, <1>3

\* The places at which copyfd may insert are places of the table.
LEMMA PlacesFound ==
  ASSUME NEW t, fds[tab[t]] \in Seq(Entry), NEW k \in InsertPlaces(t)
  PROVE  k \in 1 .. Len(fds[tab[t]]) + 1
<1> DEFINE s == fds[tab[t]]
           I == {j \in 1 .. Len(s) : s[j].id > old[t]}
           m == IF I # {} THEN Min(I) ELSE 0
<1>1. InsertPlaces(t) = IF oldFD[t] = Dangling THEN 1 .. Len(s) + 1
                        ELSE {IF m = 0 THEN Len(s) + 1 ELSE m}
  BY Zenon DEF SelectInSeq, InsertPlaces
<1>2. Len(s) \in Nat /\ m \in 0 .. Len(s)
  <2>1. I \in SUBSET Nat /\ Len(s) \in Nat
    OBVIOUS
  <2>2. I # {} => Min(I) \in I
    BY <2>1, MinIs
  <2> QED
    BY <2>1, <2>2
<1> HIDE DEF m
<1> QED
  BY <1>1, <1>2
-------------------------------------------------------------------------------
\* Every variable but the counts has its type.
Types ==
  /\ fds \in [Table -> Seq(Entry)]
  /\ users \in [Table -> Nat]
  /\ tab \in [Thread -> Table \cup {None}]
  /\ pc \in [Thread -> {"idle", "add", "added", "use"} \cup CopyPC]
  /\ held \in [Thread -> Seq(Desc)]
  /\ sys \in [Thread -> Desc \cup {None}]
  /\ old \in [Thread -> Fd \cup {None}]
  /\ oldFD \in [Thread -> Pointer]
  /\ newFD \in [Thread -> Pointer]
  /\ alone \subseteq Thread
  /\ spoilt \subseteq Desc

\* The threads that share table p.
Of(p) == {t \in Thread : tab[t] = p}

\* A table counts its threads, and is empty when it has none.
Tables ==
  \A p \in Table : /\ Len(fds[p]) <= MaxEntries
                   /\ users[p] = Cardinality(Of(p))
                   /\ Of(p) = {} => fds[p] = <<>>

\* What a call relies on that began with nobody else in its table: copyfd's oldFD
\* stays good, its newFD unless an entry was made, and what it has copied or is
\* about to close is named by an entry of the table.
AloneOK(t) ==
  LET s == fds[tab[t]]
      o == oldFD[t]
      n == newFD[t]
  IN  /\ pc[t] \in CopyPC \cup {"use"}
      /\ \A u \in Thread \ {t} : tab[u] # tab[t]
      /\ pc[t] = "use" => \E k \in DOMAIN s : s[k].desc = sys[t]
      /\ pc[t] = "replace" => o # Dangling /\ n # Dangling /\ (o # 0 => n # o)
      /\ pc[t] = "insert" => n \in DOMAIN s
      /\ pc[t] \in CopyPC \ {"replace", "insert"} => o \in DOMAIN s
      /\ pc[t] = "copy" /\ s[o].desc # None => n \in DOMAIN s /\ n # o /\ s[n].desc # None
      /\ pc[t] = "fill" => s[o].desc = None
      /\ pc[t] = "addref" => s[o].desc = sys[t]
      /\ pc[t] \in {"fill", "addref"} =>
           sys[t] \in spoilt \cup {None} \/ \E k \in DOMAIN s : k # o /\ s[k].desc = sys[t]
      /\ pc[t] \in {"store", "closed", "counted"} =>
           n \in DOMAIN s /\ n # o /\ s[n].desc # None
      /\ pc[t] = "store" => s[o].desc = sys[t]
      /\ pc[t] = "counted" => s[n].desc = sys[t]

\* What every call relies on.  A copyfd among other threads has spoilt what it
\* has read.
CallOK(t) ==
  /\ tab[t] = None => pc[t] = "idle"
  /\ pc[t] \notin {"add", "added"} => held[t] = <<>>
  /\ pc[t] = "add" => Len(held[t]) \in 1 .. 2
  /\ pc[t] = "added" => Len(held[t]) = 1
  /\ pc[t] \in {"use", "store"} => sys[t] \in Desc
  /\ pc[t] \notin CopyPC => oldFD[t] = 0 /\ newFD[t] = 0
  /\ pc[t] \in CopyPC => oldFD[t] <= Len(fds[tab[t]]) /\ newFD[t] <= Len(fds[tab[t]])
  /\ pc[t] \in CopyPC /\ newFD[t] # 0 => 1 <= Len(fds[tab[t]])
  /\ pc[t] \in {"replace", "insert"} => old[t] \in Fd
  /\ pc[t] \in CopyPC \ {"replace"} => oldFD[t] # 0
  /\ t \in alone => AloneOK(t)
  /\ t \notin alone /\ pc[t] \in {"fill", "addref", "store", "counted"} =>
       sys[t] \in spoilt \cup {None}

\* What holds of the tables and of the calls at work on them, whatever the counts.
Shape == Types /\ Tables /\ \A t \in Thread : CallOK(t)

\* A pointer stays, or comes to refer to memory that the vector has left.
Follows(a, b) == b = a \/ (a # 0 /\ b = Dangling)

\* Thread u does nothing, and nothing is done to it that it relies on.
Kept(u) ==
  /\ tab'[u] = tab[u] /\ pc'[u] = pc[u] /\ held'[u] = held[u] /\ sys'[u] = sys[u]
  /\ old'[u] = old[u]
  /\ u \in alone' <=> u \in alone
  /\ u \in alone => /\ oldFD'[u] = oldFD[u] /\ newFD'[u] = newFD[u]
                    /\ fds'[tab[u]] = fds[tab[u]]
                    /\ \A v \in Thread \ {u} : tab'[v] # tab[u]
  /\ u \notin alone => /\ Follows(oldFD[u], oldFD'[u]) /\ Follows(newFD[u], newFD'[u])
                       /\ tab[u] # None => Len(fds'[tab[u]]) >= Len(fds[tab[u]])

\* It then goes on relying on the same.
LEMMA KeptCall ==
  ASSUME Types, Types', NEW u \in Thread, CallOK(u), Kept(u), spoilt \subseteq spoilt'
  PROVE  CallOK(u)'
<1>1. CASE u \in alone
  <2>1. /\ AloneOK(u) /\ fds'[tab[u]] = fds[tab[u]]
        /\ \A v \in Thread \ {u} : tab'[v] # tab[u]
        /\ oldFD'[u] = oldFD[u] /\ newFD'[u] = newFD[u] /\ tab'[u] = tab[u]
        /\ pc'[u] = pc[u] /\ sys'[u] = sys[u] /\ u \in alone'
    BY <1>1 DEF CallOK, Kept
  <2>2. AloneOK(u)'
    BY <2>1 DEF AloneOK
  <2> QED
    BY <1>1, <2>1, <2>2 DEF CallOK, Kept
<1>2. CASE u \notin alone
  <2>1. CASE pc[u] \notin CopyPC
    BY <1>2, <2>1 DEF CallOK, Kept, Follows, CopyPC
  <2>2. CASE pc[u] \in CopyPC
    <3>1. tab[u] \in Table /\ tab[u] # None
      BY <2>2, DescriptorsAssumption DEF CallOK, Types, CopyPC
    <3>2. /\ Len(fds[tab[u]]) \in Nat /\ Len(fds'[tab[u]]) \in Nat
          /\ oldFD[u] \in Int /\ newFD[u] \in Int
      <4>1. Len(fds[tab[u]]) \in Nat /\ Len(fds'[tab[u]]) \in Nat
        BY <3>1 DEF Types
      <4>2. oldFD[u] \in Pointer /\ newFD[u] \in Pointer
        BY DEF Types
      <4>3. Pointer \subseteq Int
        BY DescriptorsAssumption DEF Pointer, Dangling
      <4> QED
        BY <4>1, <4>2, <4>3
    <3>3. oldFD'[u] <= Len(fds'[tab[u]]) /\ newFD'[u] <= Len(fds'[tab[u]])
      BY <1>2, <2>2, <3>1, <3>2 DEF CallOK, Kept, Follows, Dangling
    <3>4. oldFD[u] # 0 => oldFD'[u] # 0
      BY <1>2 DEF Kept, Follows, Dangling
    <3>5. newFD'[u] # 0 => 1 <= Len(fds'[tab[u]])
      BY <1>2, <2>2, <3>1, <3>2 DEF CallOK, Kept, Follows
    <3> QED
      BY <1>2, <2>2, <3>3, <3>4, <3>5 DEF CallOK, Kept, CopyPC
  <2> QED
    BY <2>1, <2>2
<1> QED
  BY <1>1, <1>2

\* A step of which only t has to answer for its call.
LEMMA OneStep ==
  ASSUME Shape, NEW t \in Thread, Types', Tables', CallOK(t)', spoilt \subseteq spoilt',
         \A u \in Thread \ {t} : Kept(u)
  PROVE  Shape'
<1>1. \A u \in Thread \ {t} : CallOK(u)'
  BY KeptCall DEF Shape
<1> QED
  BY <1>1 DEF Shape

\* A step of t that at most changes the table of t, to m, and may move the vector.
Local(t, m) ==
  /\ tab' = tab /\ users' = users /\ fds' = [fds EXCEPT ![tab[t]] = m]
  /\ m \in Seq(Entry) /\ Len(fds[tab[t]]) <= Len(m) /\ Len(m) <= MaxEntries
  /\ spoilt \subseteq spoilt'
  /\ \A u \in Thread \ {t} :
       /\ pc'[u] = pc[u] /\ held'[u] = held[u] /\ sys'[u] = sys[u] /\ old'[u] = old[u]
       /\ u \in alone' <=> u \in alone
       /\ Follows(oldFD[u], oldFD'[u]) /\ Follows(newFD[u], newFD'[u])
       /\ tab[u] # tab[t] => oldFD'[u] = oldFD[u] /\ newFD'[u] = newFD[u]

\* The other threads are not disturbed by it.
LEMMA LocalStep ==
  ASSUME Shape, NEW t \in Thread, tab[t] \in Table, NEW m, Local(t, m), Types', CallOK(t)'
  PROVE  Shape'
<1>1. Types /\ Tables /\ \A u \in Thread : CallOK(u)
  BY DEF Shape
<1>2. /\ tab' = tab /\ users' = users
      /\ fds'[tab[t]] = m /\ \A r \in Table \ {tab[t]} : fds'[r] = fds[r]
      /\ m \in Seq(Entry) /\ Len(fds[tab[t]]) <= Len(m) /\ Len(m) <= MaxEntries
  BY <1>1 DEF Local, Types
<1>3. Tables'
  <2>1. \A p : Of(p)' = Of(p)
    BY <1>2 DEF Of
  <2>2. t \in Of(tab[t])
    BY DEF Of
  <2>3. ASSUME NEW p \in Table
        PROVE  Len(fds'[p]) <= MaxEntries /\ (Of(p) = {} => fds'[p] = <<>>)
    BY <1>1, <1>2, <2>2 DEF Tables
  <2> QED
    BY <1>1, <1>2, <2>1, <2>3 DEF Tables
<1>4. ASSUME NEW u \in Thread \ {t}
      PROVE  Kept(u)
  <2>1. u \in alone => tab[u] \in Table /\ tab[u] # tab[t] /\ \A v \in Thread \ {u} : tab[v] # tab[u]
    <3>1. u \in alone => AloneOK(u) /\ pc[u] # "idle"
      BY <1>1 DEF CallOK, AloneOK, CopyPC
    <3> QED
      BY <1>1, <3>1 DEF CallOK, AloneOK, Types
  <2>2. tab[u] # None => Len(fds'[tab[u]]) >= Len(fds[tab[u]])
    <3>1. CASE tab[u] = tab[t]
      <4>1. Len(m) \in Nat /\ Len(fds[tab[t]]) \in Nat
        BY <1>1, <1>2 DEF Types
      <4> QED
        BY <1>2, <3>1, <4>1
    <3>2. CASE tab[u] # tab[t] /\ tab[u] # None
      <4>1. fds'[tab[u]] = fds[tab[u]] /\ Len(fds[tab[u]]) \in Nat
        BY <1>1, <1>2, <3>2 DEF Types
      <4> QED
        BY <4>1
    <3> QED
      BY <3>1, <3>2
  <2> QED
    BY <1>2, <2>1, <2>2 DEF Local, Kept
<1> QED
  BY <1>3, <1>4, OneStep DEF Local

\* Init is such a state.
LEMMA ShapeInit == Init => Shape
<1> SUFFICES ASSUME Init
             PROVE  Shape
  OBVIOUS
<1> USE DescriptorsAssumption
<1>1. PICK p \in Table : /\ users = [q \in Table |-> IF q = p THEN 1 ELSE 0]
                         /\ tab = [t \in Thread |-> IF t = Main THEN p ELSE None]
  BY DEF Init
<1>2. Types
  BY <1>1 DEF Init, Types, CopyPC, Pointer, Dangling
<1>3. Tables
  <2>1. ASSUME NEW q \in Table
        PROVE  users[q] = Cardinality(Of(q))
    <3>1. CASE q = p
      <4>1. Of(q) = {Main}
        BY <1>1, <3>1 DEF Of
      <4> QED
        BY <1>1, <3>1, <4>1, FS_Singleton
    <3>2. CASE q # p
      <4>1. Of(q) = {}
        BY <1>1, <3>2 DEF Of
      <4> QED
        BY <1>1, <3>2, <4>1, FS_EmptySet
    <3> QED
      BY <3>1, <3>2
  <2>2. \A q \in Table : fds[q] = <<>> /\ Len(fds[q]) <= MaxEntries
    BY DEF Init
  <2> QED
    BY <2>1, <2>2 DEF Tables
<1>4. \A t \in Thread : /\ pc[t] = "idle" /\ held[t] = <<>> /\ oldFD[t] = 0 /\ newFD[t] = 0
                        /\ t \notin alone
  BY DEF Init
<1>5. \A t \in Thread : CallOK(t)
  BY <1>4 DEF CallOK, CopyPC
<1> QED
  BY <1>2, <1>3, <1>5 DEF Shape

\* A thread that exists has a table.
LEMMA InTable ==
  ASSUME Shape, NEW t \in Thread, tab[t] # None \/ pc[t] # "idle"
  PROVE  /\ tab[t] \in Table /\ tab[t] # None
         /\ fds[tab[t]] \in Seq(Entry) /\ Len(fds[tab[t]]) \in Nat
         /\ Len(fds[tab[t]]) <= MaxEntries
         /\ DOMAIN fds[tab[t]] = 1 .. Len(fds[tab[t]])
         /\ oldFD[t] \in Int /\ newFD[t] \in Int
         /\ oldFD[t] >= Dangling /\ newFD[t] >= Dangling
<1>1. tab[t] \in Table /\ tab[t] # None
  BY DEF Shape, Types, CallOK
<1>2. oldFD[t] \in Pointer /\ newFD[t] \in Pointer
  BY DEF Shape, Types
<1>3. \A k \in Pointer : k \in Int /\ k >= Dangling
  BY DescriptorsAssumption DEF Pointer, Dangling
<1>4. fds[tab[t]] \in Seq(Entry) /\ Len(fds[tab[t]]) <= MaxEntries
  BY <1>1 DEF Shape, Types, Tables
<1> QED
  BY <1>1, <1>2, <1>3, <1>4

\* A step of t that changes no table and no other call.
Quiet(t) ==
  /\ tab' = tab /\ users' = users /\ fds' = fds
  /\ spoilt \subseteq spoilt'
  /\ \A u \in Thread \ {t} :
       /\ pc'[u] = pc[u] /\ held'[u] = held[u] /\ sys'[u] = sys[u] /\ old'[u] = old[u]
       /\ u \in alone' <=> u \in alone
       /\ oldFD'[u] = oldFD[u] /\ newFD'[u] = newFD[u]

\* Such a step has only t to answer for.
LEMMA QuietStep ==
  ASSUME Shape, NEW t \in Thread, tab[t] # None \/ pc[t] # "idle", Quiet(t), Types', CallOK(t)'
  PROVE  Shape'
<1>1. tab[t] \in Table /\ fds[tab[t]] \in Seq(Entry) /\ Len(fds[tab[t]]) <= MaxEntries
  BY InTable
<1>2. fds' = [fds EXCEPT ![tab[t]] = fds[tab[t]]]
  BY <1>1 DEF Quiet, Shape, Types
<1>3. Len(fds[tab[t]]) <= Len(fds[tab[t]])
  BY <1>1
<1>4. Local(t, fds[tab[t]])
  BY <1>1, <1>2, <1>3 DEF Quiet, Local, Follows
<1> QED
  BY <1>1, <1>4, LocalStep

\* An entry has a number, and names a descriptor or none.
LEMMA EntryIs ==
  ASSUME NEW s \in Seq(Entry), NEW k \in DOMAIN s
  PROVE  s[k] \in Entry /\ s[k].id \in Int /\ s[k].desc \in Desc \cup {None}
<1>1. s[k] \in Entry
  OBVIOUS
<1> QED
  BY <1>1 DEF Entry

\* What a pointer of t refers to.
LEMMA PointeeIs ==
  ASSUME Shape, NEW t \in Thread, tab[t] # None \/ pc[t] # "idle",
         NEW k \in Int, k >= Dangling, k <= Len(fds[tab[t]])
  PROVE  /\ Pointee(t, k) \subseteq Desc \cup {None}
         /\ k = Dangling \/ k = 0 \/ k \in DOMAIN fds[tab[t]]
         /\ k = 0 => Pointee(t, k) = {None}
         /\ k \in DOMAIN fds[tab[t]] => /\ Pointee(t, k) = {Slot(t, k)}
                                        /\ Slot(t, k) = fds[tab[t]][k].desc
                                        /\ fds[tab[t]][k] \in Entry
                                        /\ Slot(t, k) \in Desc \cup {None}
                                        /\ k # Dangling
<1>1. /\ fds[tab[t]] \in Seq(Entry) /\ Len(fds[tab[t]]) \in Nat
      /\ DOMAIN fds[tab[t]] = 1 .. Len(fds[tab[t]])
  BY InTable
<1>2. k = Dangling \/ k = 0 \/ k \in DOMAIN fds[tab[t]]
  BY <1>1 DEF Dangling
<1>3. k = Dangling => k # 0 /\ k \notin DOMAIN fds[tab[t]]
  BY <1>1 DEF Dangling
<1>4. k = 0 => k \notin DOMAIN fds[tab[t]]
  BY <1>1
<1>5. k \in DOMAIN fds[tab[t]] => fds[tab[t]][k] \in Entry /\ fds[tab[t]][k].desc \in Desc \cup {None}
  BY <1>1, EntryIs
<1>6. Slot(t, k) = fds[tab[t]][k].desc
  BY DEF Slot
<1>7. CASE k = Dangling
  BY <1>3, <1>7 DEF Pointee
<1>8. CASE k = 0
  BY <1>2, <1>3, <1>4, <1>8 DEF Pointee
<1>9. CASE k \in DOMAIN fds[tab[t]]
  BY <1>2, <1>3, <1>4, <1>5, <1>6, <1>9 DEF Pointee
<1> QED
  BY <1>2, <1>7, <1>8, <1>9

\* What the two pointers of a copyfd refer to.
LEMMA CopyPointee ==
  ASSUME Shape, NEW t \in Thread, pc[t] \in CopyPC, NEW k \in {oldFD[t], newFD[t]}
  PROVE  /\ Pointee(t, k) \subseteq Desc \cup {None}
         /\ k = Dangling \/ k = 0 \/ k \in DOMAIN fds[tab[t]]
         /\ k = 0 => Pointee(t, k) = {None}
         /\ k \in DOMAIN fds[tab[t]] => /\ Pointee(t, k) = {Slot(t, k)}
                                        /\ Slot(t, k) = fds[tab[t]][k].desc
                                        /\ fds[tab[t]][k] \in Entry
                                        /\ Slot(t, k) \in Desc \cup {None}
                                        /\ k # Dangling
<1>1. pc[t] # "idle"
  BY DEF CopyPC
<1>2. k \in Int /\ k >= Dangling /\ k <= Len(fds[tab[t]])
  BY <1>1, InTable DEF Shape, CallOK
<1> QED
  BY <1>1, <1>2, PointeeIs

\* What a step spoils stays spoilt.
LEMMA SpoilFacts ==
  ASSUME NEW t, NEW k, NEW D, Spoil(t, k, D)
  PROVE  /\ spoilt \subseteq spoilt'
         /\ spoilt \subseteq Desc => spoilt' \subseteq Desc
         /\ t \notin alone \/ k = Dangling => D \cap Desc \subseteq spoilt'
         /\ t \in alone /\ k # Dangling => spoilt' = spoilt
BY DEF Spoil

\* Calls that begin and end without touching a table.
LEMMA OpenShape ==
  ASSUME Shape, NEW t \in Thread, NEW s \in Seq(Desc), Len(s) \in 1 .. 2, Open(t, s)
  PROVE  Shape'
<1>1. Types /\ CallOK(t)
  BY DEF Shape
<1>2. /\ tab[t] # None /\ pc[t] = "idle"
      /\ pc' = [pc EXCEPT ![t] = "add"] /\ held' = [held EXCEPT ![t] = s]
      /\ fds' = fds /\ users' = users /\ tab' = tab /\ sys' = sys /\ old' = old
      /\ oldFD' = oldFD /\ newFD' = newFD /\ alone' = alone /\ spoilt' = spoilt
  BY DEF Open, Idle, Set, tableVars, ptrVars, ghostVars
<1>3. Types'
  BY <1>1, <1>2 DEF Types
<1>4. Quiet(t)
  BY <1>1, <1>2 DEF Quiet, Types
<1>5. t \notin alone
  BY <1>1, <1>2 DEF CallOK, AloneOK, CopyPC
<1>6. CallOK(t)'
  BY <1>1, <1>2, <1>5 DEF CallOK, CopyPC, Types
<1> QED
  BY <1>2, <1>3, <1>4, <1>6, QuietStep

\* Exec gives up what it has opened.
LEMMA ExecShape ==
  ASSUME Shape, NEW t \in Thread, ExecClose(t)
  PROVE  Shape'
<1>1. Types /\ CallOK(t)
  BY DEF Shape
<1>2. /\ pc[t] = "add"
      /\ pc' = [pc EXCEPT ![t] = "idle"] /\ held' = [held EXCEPT ![t] = <<>>]
      /\ fds' = fds /\ users' = users /\ tab' = tab /\ sys' = sys /\ old' = old
      /\ oldFD' = oldFD /\ newFD' = newFD /\ alone' = alone /\ spoilt' = spoilt
  BY DEF ExecClose, Set, tableVars, ptrVars, ghostVars
<1>3. Types'
  BY <1>1, <1>2 DEF Types
<1>4. Quiet(t)
  BY <1>1, <1>2 DEF Quiet, Types
<1>5. t \notin alone
  BY <1>1, <1>2 DEF CallOK, AloneOK, CopyPC
<1>6. CallOK(t)'
  BY <1>1, <1>2, <1>5 DEF CallOK, CopyPC, Types
<1> QED
  BY <1>2, <1>3, <1>4, <1>6, QuietStep

\* A call that finds itself alone is alone with its table.
LEMMA BeginAlone ==
  ASSUME Shape, NEW t \in Thread, tab[t] # None, pc[t] = "idle", Begin(t)
  PROVE  /\ alone' \subseteq Thread
         /\ \A u \in Thread \ {t} : u \in alone' <=> u \in alone
         /\ t \in alone' => \A u \in Thread \ {t} : tab[u] # tab[t]
<1>1. tab[t] \in Table
  BY InTable
<1>2. IsFiniteSet(Of(tab[t])) /\ t \in Of(tab[t]) /\ users[tab[t]] = Cardinality(Of(tab[t]))
  BY <1>1, DescriptorsAssumption, FS_Subset DEF Of, Tables, Shape
<1>3. users[tab[t]] = 1 => \E x : Of(tab[t]) = {x}
  BY <1>2, FS_Singleton
<1>4. users[tab[t]] = 1 => \A u \in Thread \ {t} : tab[u] # tab[t]
  BY <1>2, <1>3 DEF Of
<1>5. t \notin alone
  BY DEF Shape, CallOK, AloneOK, CopyPC
<1> QED
  BY <1>4, <1>5 DEF Begin, Shape, Types

\* A lookup finds an entry that is open.
LEMMA GetShape ==
  ASSUME Shape, NEW t \in Thread, NEW i \in Fd, ThreadGetSystemFileDescriptor(t, i)
  PROVE  Shape'
<1>1. Types /\ CallOK(t)
  BY DEF Shape
<1>0. PICK k : k = EntryOf(tab[t], i)
  OBVIOUS
<1>2. /\ tab[t] # None /\ pc[t] = "idle" /\ k # 0 /\ Slot(t, k) # None
      /\ pc' = [pc EXCEPT ![t] = "use"] /\ sys' = [sys EXCEPT ![t] = Slot(t, k)]
      /\ fds' = fds /\ users' = users /\ tab' = tab /\ held' = held /\ old' = old
      /\ oldFD' = oldFD /\ newFD' = newFD /\ Begin(t) /\ spoilt' = spoilt
  BY <1>0 DEF ThreadGetSystemFileDescriptor, Idle, Set, tableVars, ptrVars
<1>3. tab[t] \in Table /\ fds[tab[t]] \in Seq(Entry)
  BY <1>2, InTable
<1>4. k \in DOMAIN fds[tab[t]] /\ Slot(t, k) = fds[tab[t]][k].desc
  BY <1>0, <1>2, <1>3, EntryFound DEF Slot
<1>5. Slot(t, k) \in Desc
  BY <1>2, <1>3, <1>4, EntryIs
<1>6. /\ alone' \subseteq Thread
      /\ \A u \in Thread \ {t} : u \in alone' <=> u \in alone
      /\ t \in alone' => \A u \in Thread \ {t} : tab[u] # tab[t]
  BY <1>2, BeginAlone
<1>7. Types'
  BY <1>1, <1>2, <1>5, <1>6 DEF Types
<1>8. Quiet(t)
  BY <1>1, <1>2, <1>6 DEF Quiet, Types
<1>9. pc'[t] = "use" /\ sys'[t] = Slot(t, k)
  BY <1>1, <1>2 DEF Types
<1>10. t \in alone' => AloneOK(t)'
  BY <1>2, <1>4, <1>6, <1>9 DEF AloneOK, CopyPC
<1>11. CallOK(t)'
  BY <1>1, <1>2, <1>5, <1>9, <1>10 DEF CallOK, CopyPC
<1> QED
  BY <1>2, <1>7, <1>8, <1>11, QuietStep

\* A use ends.
LEMMA UseReturnShape ==
  ASSUME Shape, NEW t \in Thread, UseReturn(t)
  PROVE  Shape'
<1>1. Types /\ CallOK(t)
  BY DEF Shape
<1>2. /\ pc[t] = "use"
      /\ pc' = [pc EXCEPT ![t] = "idle"] /\ sys' = [sys EXCEPT ![t] = None]
      /\ fds' = fds /\ users' = users /\ tab' = tab /\ held' = held /\ old' = old
      /\ oldFD' = oldFD /\ newFD' = newFD /\ alone' = alone \ {t} /\ spoilt' = spoilt
  BY DEF UseReturn, Set, tableVars, ptrVars
<1>3. Types'
  BY <1>1, <1>2 DEF Types
<1>4. Quiet(t)
  BY <1>1, <1>2 DEF Quiet, Types
<1>5. CallOK(t)'
  BY <1>1, <1>2 DEF CallOK, CopyPC, Types
<1> QED
  BY <1>2, <1>3, <1>4, <1>5, QuietStep

\* The two entries that copyfd finds are different ones.
LEMMA FindShape ==
  ASSUME Shape, NEW t \in Thread, NEW i \in Fd, NEW j \in Fd, ReplaceFind(t, i, j)
  PROVE  Shape'
<1>1. Types /\ CallOK(t)
  BY DEF Shape
<1>0. PICK o, n : o = LastEntryOf(tab[t], i) /\ n = LastEntryOf(tab[t], j)
  OBVIOUS
<1>2. /\ tab[t] # None /\ pc[t] = "idle" /\ i # j
      /\ pc' = [pc EXCEPT ![t] = "replace"] /\ old' = [old EXCEPT ![t] = i]
      /\ oldFD' = [oldFD EXCEPT ![t] = o] /\ newFD' = [newFD EXCEPT ![t] = n]
      /\ fds' = fds /\ users' = users /\ tab' = tab /\ held' = held /\ sys' = sys
      /\ Begin(t) /\ spoilt' = spoilt
  BY <1>0 DEF ReplaceFind, Idle, Set, tableVars, ptrVars
<1>3. /\ tab[t] \in Table /\ fds[tab[t]] \in Seq(Entry) /\ Len(fds[tab[t]]) \in Nat
      /\ Len(fds[tab[t]]) <= MaxEntries /\ DOMAIN fds[tab[t]] = 1 .. Len(fds[tab[t]])
  BY <1>2, InTable
<1>4. /\ o = 0 \/ (o \in DOMAIN fds[tab[t]] /\ fds[tab[t]][o].id = i)
      /\ n = 0 \/ (n \in DOMAIN fds[tab[t]] /\ fds[tab[t]][n].id = j)
  BY <1>0, <1>3, LastFound
<1>5. o # 0 => n # o
  BY <1>2, <1>3, <1>4
<1>6. o \in 0 .. Len(fds[tab[t]]) /\ n \in 0 .. Len(fds[tab[t]])
  BY <1>3, <1>4
<1>7. o \in Pointer /\ n \in Pointer /\ o # Dangling /\ n # Dangling
  BY <1>3, <1>6, DescriptorsAssumption DEF Pointer, Dangling
<1>8. /\ alone' \subseteq Thread
      /\ \A u \in Thread \ {t} : u \in alone' <=> u \in alone
      /\ t \in alone' => \A u \in Thread \ {t} : tab[u] # tab[t]
  BY <1>2, BeginAlone
<1>9. Types'
  BY <1>1, <1>2, <1>7, <1>8 DEF Types, CopyPC
<1>10. Quiet(t)
  BY <1>1, <1>2, <1>8 DEF Quiet, Types
<1>11. pc'[t] = "replace" /\ oldFD'[t] = o /\ newFD'[t] = n /\ old'[t] = i
  BY <1>1, <1>2 DEF Types
<1>12. t \in alone' => AloneOK(t)'
  BY <1>2, <1>5, <1>7, <1>8, <1>11 DEF AloneOK, CopyPC
<1>13. /\ o <= Len(fds[tab[t]]) /\ n <= Len(fds[tab[t]])
       /\ n # 0 => 1 <= Len(fds[tab[t]])
  BY <1>3, <1>6
<1>14. CallOK(t)'
  BY <1>1, <1>2, <1>11, <1>12, <1>13 DEF CallOK, CopyPC
<1> QED
  BY <1>2, <1>9, <1>10, <1>14, QuietStep

\* copyfd returns where it has looked only.
LEMMA ReturnShape ==
  ASSUME Shape, NEW t \in Thread, pc[t] \in CopyPC, ReplaceReturn(t), UNCHANGED tableVars,
         held' = held, spoilt' = spoilt
  PROVE  Shape'
<1>1. Types /\ CallOK(t)
  BY DEF Shape
<1>2. /\ pc' = [pc EXCEPT ![t] = "idle"] /\ sys' = [sys EXCEPT ![t] = None]
      /\ oldFD' = [oldFD EXCEPT ![t] = 0] /\ newFD' = [newFD EXCEPT ![t] = 0]
      /\ old' = [old EXCEPT ![t] = None] /\ alone' = alone \ {t}
      /\ fds' = fds /\ users' = users /\ tab' = tab
  BY DEF ReplaceReturn, Set, tableVars
<1>3. 0 \in Pointer
  BY DescriptorsAssumption DEF Pointer, Dangling
<1>4. Types'
  BY <1>1, <1>2, <1>3 DEF Types
<1>5. Quiet(t)
  BY <1>1, <1>2 DEF Quiet, Types
<1>6. held[t] = <<>> /\ pc[t] # "idle"
  BY <1>1 DEF CallOK, CopyPC
<1>7. CallOK(t)'
  BY <1>1, <1>2, <1>6 DEF CallOK, CopyPC, Types
<1> QED
  BY <1>4, <1>5, <1>6, <1>7, QuietStep

\* The ways in which it does.
LEMMA LookedShape ==
  ASSUME Shape, NEW t \in Thread, ReplaceInvalid(t) \/ CopySame(t) \/ CopyAddRef(t)
  PROVE  Shape'
<1>1. pc[t] \in CopyPC
  BY DEF ReplaceInvalid, CopySame, CopyAddRef, CopyPC
<1>2. ReplaceReturn(t) /\ UNCHANGED tableVars /\ held' = held /\ spoilt' = spoilt
  BY DEF ReplaceInvalid, CopySame, CopyAddRef, tableVars
<1> QED
  BY <1>1, <1>2, ReturnShape

\* copyfd has found what it copies.
LEMMA ValidShape ==
  ASSUME Shape, NEW t \in Thread, ReplaceValid(t)
  PROVE  Shape'
<1> USE DescriptorsAssumption
<1>1. Types /\ CallOK(t)
  BY DEF Shape
<1>2. /\ pc[t] = "replace" /\ Pointee(t, newFD[t]) # {None}
      /\ fds' = fds /\ users' = users /\ tab' = tab /\ held' = held /\ sys' = sys
      /\ newFD' = newFD /\ alone' = alone /\ spoilt' = spoilt
  BY DEF ReplaceValid, tableVars, ghostVars
<1>3. pc[t] \in CopyPC /\ pc[t] # "idle"
  BY <1>2 DEF CopyPC
<1>4. newFD[t] = Dangling \/ newFD[t] \in DOMAIN fds[tab[t]]
  BY <1>2, <1>3, CopyPointee
<1>5. newFD[t] \in DOMAIN fds[tab[t]] =>
        fds[tab[t]][newFD[t]].desc # None /\ newFD[t] # Dangling
  BY <1>2, <1>3, CopyPointee
<1>6. oldFD[t] = Dangling \/ oldFD[t] = 0 \/ oldFD[t] \in DOMAIN fds[tab[t]]
  BY <1>3, CopyPointee
<1>7. /\ Len(fds[tab[t]]) \in Nat /\ Len(fds[tab[t]]) <= MaxEntries
      /\ DOMAIN fds[tab[t]] = 1 .. Len(fds[tab[t]])
  BY <1>3, InTable
<1>8. CASE oldFD[t] # 0
  <2>1. pc' = [pc EXCEPT ![t] = "copy"] /\ old' = [old EXCEPT ![t] = None] /\ oldFD' = oldFD
    BY <1>8 DEF ReplaceValid, Set
  <2>2. Types'
    BY <1>1, <1>2, <2>1 DEF Types, CopyPC
  <2>3. Quiet(t)
    BY <1>1, <1>2, <2>1 DEF Quiet, Types
  <2>4. pc'[t] = "copy"
    BY <1>1, <2>1 DEF Types
  <2>5. ASSUME t \in alone
        PROVE  AloneOK(t)'
    <3>1. AloneOK(t)
      BY <1>1, <2>5 DEF CallOK
    <3>2. oldFD[t] # Dangling /\ newFD[t] # Dangling /\ newFD[t] # oldFD[t]
      BY <1>2, <1>8, <3>1 DEF AloneOK
    <3> QED
      BY <1>2, <1>4, <1>5, <1>6, <1>8, <2>1, <2>4, <3>1, <3>2 DEF AloneOK, CopyPC
  <2>6. CallOK(t)'
    BY <1>1, <1>2, <1>8, <2>1, <2>4, <2>5 DEF CallOK, CopyPC
  <2> QED
    BY <1>3, <2>2, <2>3, <2>6, QuietStep
<1>9. CASE oldFD[t] = 0
  <2>1. pc' = [pc EXCEPT ![t] = "insert"] /\ old' = old /\ oldFD' = [oldFD EXCEPT ![t] = 1]
    BY <1>9 DEF ReplaceValid, Set
  <2>0. 1 <= Len(fds[tab[t]])
    BY <1>1, <1>3, <1>4, <1>7 DEF CallOK, Dangling
  <2>7. 1 \in Pointer
    BY <1>7, <2>0 DEF Pointer, Dangling
  <2>2. Types'
    BY <1>1, <1>2, <2>1, <2>7 DEF Types, CopyPC
  <2>3. Quiet(t)
    BY <1>1, <1>2, <2>1 DEF Quiet, Types
  <2>4. pc'[t] = "insert" /\ oldFD'[t] = 1
    BY <1>1, <2>1 DEF Types
  <2>5. ASSUME t \in alone
        PROVE  AloneOK(t)'
    <3>1. AloneOK(t)
      BY <1>1, <2>5 DEF CallOK
    <3>2. newFD[t] # Dangling
      BY <1>2, <3>1 DEF AloneOK
    <3> QED
      BY <1>2, <1>4, <1>5, <2>4, <3>1, <3>2 DEF AloneOK, CopyPC
  <2>6. CallOK(t)'
    BY <1>1, <1>2, <2>0, <2>1, <2>4, <2>5 DEF CallOK, CopyPC
  <2> QED
    BY <1>3, <2>2, <2>3, <2>6, QuietStep
<1> QED
  BY <1>8, <1>9

\* copyfd goes on without writing to its table.
LEMMA ReadsShape ==
  ASSUME Shape, NEW t \in Thread, CopyEmpty(t) \/ CopyClose(t) \/ CopyCount(t)
  PROVE  Shape'
<1> USE DescriptorsAssumption
<1>1. Types /\ CallOK(t)
  BY DEF Shape
<1>2. /\ pc[t] \in CopyPC /\ pc[t] # "idle" /\ held[t] = <<>> /\ oldFD[t] # 0
      /\ fds' = fds /\ users' = users /\ tab' = tab /\ held' = held /\ old' = old
      /\ oldFD' = oldFD /\ alone' = alone
  BY <1>1 DEF CopyEmpty, CopyClose, CopyCount, CopyPC, tableVars, ptrVars, CallOK
<1>3. /\ oldFD[t] = Dangling \/ oldFD[t] \in DOMAIN fds[tab[t]]
      /\ Pointee(t, oldFD[t]) \subseteq Desc \cup {None}
      /\ Pointee(t, newFD[t]) \subseteq Desc \cup {None}
      /\ newFD[t] = Dangling \/ newFD[t] = 0 \/ newFD[t] \in DOMAIN fds[tab[t]]
      /\ oldFD[t] \in DOMAIN fds[tab[t]] =>
           Pointee(t, oldFD[t]) = {fds[tab[t]][oldFD[t]].desc} /\ oldFD[t] # Dangling
      /\ newFD[t] = 0 => Pointee(t, newFD[t]) = {None}
      /\ newFD[t] \in DOMAIN fds[tab[t]] =>
           Pointee(t, newFD[t]) = {fds[tab[t]][newFD[t]].desc} /\ newFD[t] # Dangling
  BY <1>2, CopyPointee
<1>4. t \in alone => oldFD[t] \in DOMAIN fds[tab[t]] /\ AloneOK(t)
  BY <1>1 DEF CallOK, AloneOK, CopyEmpty, CopyClose, CopyCount, CopyPC
<1>5. /\ Len(fds[tab[t]]) \in Nat /\ 0 \in Pointer
  BY <1>2, InTable DEF Pointer, Dangling
<1>6. CASE CopyEmpty(t)
  <2>1. PICK n \in Pointee(t, newFD[t]) : sys' = [sys EXCEPT ![t] = n] /\ Spoil(t, newFD[t], {n})
    BY <1>6 DEF CopyEmpty, Set
  <2>2. /\ pc[t] = "copy" /\ pc' = [pc EXCEPT ![t] = "fill"] /\ newFD' = [newFD EXCEPT ![t] = 0]
        /\ None \in Pointee(t, oldFD[t])
    BY <1>6 DEF CopyEmpty, Set
  <2>3. /\ n \in Desc \cup {None} /\ spoilt \subseteq spoilt' /\ spoilt' \subseteq Desc
        /\ t \notin alone \/ newFD[t] = Dangling => n \in spoilt' \cup {None}
    BY <1>1, <1>3, <2>1, SpoilFacts DEF Types
  <2>4. Types'
    BY <1>1, <1>2, <1>5, <2>1, <2>2, <2>3 DEF Types, CopyPC
  <2>5. Quiet(t)
    BY <1>1, <1>2, <2>1, <2>2, <2>3 DEF Quiet, Types
  <2>6. pc'[t] = "fill" /\ newFD'[t] = 0 /\ sys'[t] = n
    BY <1>1, <2>1, <2>2 DEF Types
  <2>7. ASSUME t \in alone
        PROVE  AloneOK(t)'
    <3>1. fds[tab[t]][oldFD[t]].desc = None
      BY <1>3, <1>4, <2>2, <2>7
    <3>2. n \in spoilt' \cup {None} \/ \E k \in DOMAIN fds[tab[t]] :
            k # oldFD[t] /\ fds[tab[t]][k].desc = n
      BY <1>3, <1>4, <2>1, <2>3, <2>7, <3>1
    <3>3. \A u \in Thread \ {t} : tab[u] # tab[t]
      BY <1>4, <2>7 DEF AloneOK
    <3> QED
      BY <1>2, <1>4, <2>6, <2>7, <3>1, <3>2, <3>3 DEF AloneOK, CopyPC
  <2>8. CallOK(t)'
    BY <1>1, <1>2, <1>5, <2>3, <2>6, <2>7 DEF CallOK, CopyPC
  <2> QED
    BY <1>2, <2>4, <2>5, <2>8, QuietStep
<1>7. CASE CopyClose(t)
  <2>1. PICK d \in Desc \cap Pointee(t, oldFD[t]) :
          /\ Pointee(t, newFD[t]) # {d}
          /\ sys' = [sys EXCEPT ![t] = d] /\ Spoil(t, oldFD[t], {d})
    BY <1>7 DEF CopyClose, Set
  <2>2. pc[t] = "copy" /\ pc' = [pc EXCEPT ![t] = "store"] /\ newFD' = newFD
    BY <1>7 DEF CopyClose, Set
  <2>3. /\ d \in Desc /\ d # None /\ spoilt \subseteq spoilt' /\ spoilt' \subseteq Desc
        /\ t \notin alone => d \in spoilt'
    BY <1>1, <1>3, <2>1, SpoilFacts DEF Types
  <2>4. Types'
    BY <1>1, <1>2, <2>1, <2>2, <2>3 DEF Types, CopyPC
  <2>5. Quiet(t)
    BY <1>1, <1>2, <2>1, <2>2, <2>3 DEF Quiet, Types
  <2>6. pc'[t] = "store" /\ sys'[t] = d
    BY <1>1, <2>1, <2>2 DEF Types
  <2>7. ASSUME t \in alone
        PROVE  AloneOK(t)'
    <3>1. fds[tab[t]][oldFD[t]].desc = d
      BY <1>3, <1>4, <2>1, <2>7
    <3>2. /\ newFD[t] \in DOMAIN fds[tab[t]] /\ newFD[t] # oldFD[t]
          /\ fds[tab[t]][newFD[t]].desc # None
      BY <1>4, <2>2, <2>3, <2>7, <3>1 DEF AloneOK
    <3>3. \A u \in Thread \ {t} : tab[u] # tab[t]
      BY <1>4, <2>7 DEF AloneOK
    <3> QED
      BY <1>2, <1>4, <2>2, <2>6, <2>7, <3>1, <3>2, <3>3 DEF AloneOK, CopyPC
  <2>8. CallOK(t)'
    BY <1>1, <1>2, <2>2, <2>3, <2>6, <2>7 DEF CallOK, CopyPC
  <2> QED
    BY <1>2, <2>4, <2>5, <2>8, QuietStep
<1>8. CASE CopyCount(t)
  <2>1. PICK n \in Pointee(t, newFD[t]) : sys' = [sys EXCEPT ![t] = n] /\ Spoil(t, newFD[t], {n})
    BY <1>8 DEF CopyCount, Set
  <2>2. pc[t] = "closed" /\ pc' = [pc EXCEPT ![t] = "counted"] /\ newFD' = newFD
    BY <1>8 DEF CopyCount, Set, ptrVars
  <2>3. /\ n \in Desc \cup {None} /\ spoilt \subseteq spoilt' /\ spoilt' \subseteq Desc
        /\ t \notin alone => n \in spoilt' \cup {None}
    BY <1>1, <1>3, <2>1, SpoilFacts DEF Types
  <2>4. Types'
    BY <1>1, <1>2, <2>1, <2>2, <2>3 DEF Types, CopyPC
  <2>5. Quiet(t)
    BY <1>1, <1>2, <2>1, <2>2, <2>3 DEF Quiet, Types
  <2>6. pc'[t] = "counted" /\ sys'[t] = n
    BY <1>1, <2>1, <2>2 DEF Types
  <2>7. ASSUME t \in alone
        PROVE  AloneOK(t)'
    <3>1. /\ newFD[t] \in DOMAIN fds[tab[t]] /\ newFD[t] # oldFD[t]
          /\ fds[tab[t]][newFD[t]].desc # None
          /\ \A u \in Thread \ {t} : tab[u] # tab[t]
      BY <1>4, <2>2, <2>7 DEF AloneOK
    <3>2. n = fds[tab[t]][newFD[t]].desc
      BY <1>3, <2>1, <3>1
    <3> QED
      BY <1>2, <1>4, <2>2, <2>6, <2>7, <3>1, <3>2 DEF AloneOK, CopyPC
  <2>8. CallOK(t)'
    BY <1>1, <1>2, <2>2, <2>3, <2>6, <2>7 DEF CallOK, CopyPC
  <2> QED
    BY <1>2, <2>4, <2>5, <2>8, QuietStep
<1> QED
  BY <1>6, <1>7, <1>8

\* copyfd has written the count back.
LEMMA StoreShape ==
  ASSUME Shape, NEW t \in Thread, CloseStore(t)
  PROVE  Shape'
<1>1. Types /\ CallOK(t)
  BY DEF Shape
<1>2. /\ pc[t] = "store" /\ pc' = [pc EXCEPT ![t] = "closed"]
      /\ sys' = [sys EXCEPT ![t] = None]
      /\ spoilt' = IF reg[t] = refCount[sys[t]] THEN spoilt ELSE spoilt \cup {sys[t]}
      /\ fds' = fds /\ users' = users /\ tab' = tab /\ held' = held /\ old' = old
      /\ oldFD' = oldFD /\ newFD' = newFD /\ alone' = alone
  BY DEF CloseStore, Set, tableVars
<1>3. sys[t] \in Desc /\ pc[t] # "idle" /\ held[t] = <<>>
  BY <1>1, <1>2 DEF CallOK
<1>4. spoilt \subseteq spoilt' /\ spoilt' \subseteq Desc
  BY <1>1, <1>2, <1>3 DEF Types
<1>5. Types'
  BY <1>1, <1>2, <1>4 DEF Types, CopyPC
<1>6. Quiet(t)
  BY <1>1, <1>2, <1>4 DEF Quiet, Types
<1>7. pc'[t] = "closed"
  BY <1>1, <1>2 DEF Types
<1>8. t \in alone => AloneOK(t)'
  BY <1>1, <1>2, <1>7 DEF CallOK, AloneOK, CopyPC
<1>9. CallOK(t)'
  BY <1>1, <1>2, <1>7, <1>8 DEF CallOK, CopyPC
<1> QED
  BY <1>3, <1>5, <1>6, <1>9, QuietStep

\* m is s with another descriptor at place k.
Assigned(s, k, d, m) ==
  /\ m \in Seq(Entry) /\ Len(m) = Len(s) /\ DOMAIN m = DOMAIN s
  /\ \A j \in DOMAIN s : m[j].id = s[j].id /\ m[j].desc = IF j = k THEN d ELSE s[j].desc

\* An assignment to an entry changes what it names and nothing else.
LEMMA AssignFacts ==
  ASSUME NEW s \in Seq(Entry), NEW k \in DOMAIN s, NEW d \in Desc \cup {None}
  PROVE  Assigned(s, k, d, [s EXCEPT ![k] = [id |-> s[k].id, desc |-> d]])
<1> DEFINE e == [id |-> s[k].id, desc |-> d]
           m == [s EXCEPT ![k] = e]
<1>1. s[k] \in Entry
  OBVIOUS
<1>2. e \in Entry /\ e.id = s[k].id /\ e.desc = d
  BY <1>1 DEF Entry
<1> HIDE DEF e
<1>3. m \in Seq(Entry) /\ Len(m) = Len(s) /\ DOMAIN m = DOMAIN s
  BY <1>2
<1>4. \A j \in DOMAIN s : m[j] = IF j = k THEN e ELSE s[j]
  OBVIOUS
<1> HIDE DEF m
<1>5. \A j \in DOMAIN s : m[j].id = s[j].id /\ m[j].desc = IF j = k THEN d ELSE s[j].desc
  BY <1>2, <1>4
<1> QED
  BY <1>3, <1>5, Zenon DEF Assigned, m, e


\* The pointers after an insertion into table p.
LEMMA MovedIs ==
  ASSUME Types, NEW f \in [Thread -> Pointer], NEW p
  PROVE  /\ Moved(f, p) \in [Thread -> Pointer]
         /\ \A u \in Thread : /\ Follows(f[u], Moved(f, p)[u])
                              /\ f[u] = 0 => Moved(f, p)[u] = 0
                              /\ tab[u] # p => Moved(f, p)[u] = f[u]
<1>1. Dangling \in Pointer
  BY DescriptorsAssumption DEF Pointer, Dangling
<1>2. \A u \in Thread : Moved(f, p)[u] = f[u] \/ (tab[u] = p /\ f[u] # 0 /\ Moved(f, p)[u] = Dangling)
  BY DEF Moved
<1>3. Moved(f, p) = [u \in Thread |-> Moved(f, p)[u]]
  BY DEF Moved
<1> QED
  BY <1>1, <1>2, <1>3 DEF Follows

\* How the table grows by an entry for an opened descriptor.
LEMMA AddFacts ==
  ASSUME Shape, NEW t \in Thread, ThreadAddFileDescriptor(t)
  PROVE  /\ held[t] \in Seq(Desc) /\ held[t] # <<>> /\ Head(held[t]) \in Desc
         /\ Tail(held[t]) \in Seq(Desc) /\ Len(Tail(held[t])) = Len(held[t]) - 1
         /\ Len(held[t]) \in 1 .. 2
         /\ \E k \in 1 .. Len(fds[tab[t]]) + 1, e \in Entry, m \in Seq(Entry) :
              /\ e.desc = Head(held[t]) /\ Inserted(fds[tab[t]], k, e, m)
              /\ fds' = [fds EXCEPT ![tab[t]] = m] /\ Len(m) <= MaxEntries
<1>1. Types /\ CallOK(t) /\ pc[t] \in {"add", "added"} /\ pc[t] # "idle"
  BY DEF Shape, ThreadAddFileDescriptor
<1>2. fds[tab[t]] \in Seq(Entry) /\ Len(fds[tab[t]]) \in Nat
  BY <1>1, InTable
<1>3. held[t] \in Seq(Desc) /\ Len(held[t]) \in 1 .. 2
  BY <1>1 DEF Types, CallOK
<1>4. held[t] # <<>>
  BY <1>3
<1>5. /\ Head(held[t]) \in Desc /\ Tail(held[t]) \in Seq(Desc)
      /\ Len(Tail(held[t])) = Len(held[t]) - 1
  BY <1>3, <1>4, HeadTailProperties
<1>6. PICK k, e, m : /\ k = FindFreeFD(tab[t]) /\ e = [id |-> k - 1, desc |-> Head(held[t])]
                     /\ m = InsertAt(fds[tab[t]], k, e)
  OBVIOUS
<1>7. Len(fds[tab[t]]) < MaxEntries /\ fds' = [fds EXCEPT ![tab[t]] = m]
  BY <1>6 DEF ThreadAddFileDescriptor, Insert, Set
<1>8. k \in 1 .. Len(fds[tab[t]]) + 1
  BY <1>2, <1>6, FreeFound
<1>9. e \in Entry /\ e.desc = Head(held[t])
  BY <1>2, <1>5, <1>6, <1>8 DEF Entry
<1>10. Inserted(fds[tab[t]], k, e, m)
  BY <1>2, <1>6, <1>8, <1>9, InsertFacts
<1>11. Len(m) <= MaxEntries /\ m \in Seq(Entry)
  BY <1>2, <1>7, <1>10, DescriptorsAssumption DEF Inserted
<1> QED
  BY <1>3, <1>4, <1>5, <1>7, <1>8, <1>9, <1>10, <1>11

\* An opened descriptor is entered, and others lose their pointers by it.
LEMMA AddShape ==
  ASSUME Shape, NEW t \in Thread, ThreadAddFileDescriptor(t)
  PROVE  Shape'
<1>1. Types /\ CallOK(t)
  BY DEF Shape
<1>2. /\ pc[t] \in {"add", "added"} /\ pc[t] # "idle" /\ pc[t] \notin CopyPC
      /\ held' = [held EXCEPT ![t] = Tail(held[t])]
      /\ pc' = [pc EXCEPT ![t] = IF Tail(held[t]) = <<>> THEN "idle" ELSE "added"]
      /\ oldFD' = Moved(oldFD, tab[t]) /\ newFD' = Moved(newFD, tab[t])
      /\ users' = users /\ tab' = tab /\ sys' = sys /\ old' = old
      /\ alone' = alone /\ spoilt' = spoilt
  BY DEF ThreadAddFileDescriptor, Set, ghostVars, CopyPC
<1>3. PICK k \in 1 .. Len(fds[tab[t]]) + 1, e \in Entry, m \in Seq(Entry) :
        /\ e.desc = Head(held[t]) /\ Inserted(fds[tab[t]], k, e, m)
        /\ fds' = [fds EXCEPT ![tab[t]] = m] /\ Len(m) <= MaxEntries
  BY AddFacts
<1>4. /\ Tail(held[t]) \in Seq(Desc) /\ Len(Tail(held[t])) = Len(held[t]) - 1
      /\ Len(held[t]) \in 1 .. 2
  BY AddFacts
<1>5. tab[t] \in Table /\ fds[tab[t]] \in Seq(Entry) /\ Len(fds[tab[t]]) \in Nat
  BY <1>2, InTable
<1>6. m \in Seq(Entry) /\ Len(m) = Len(fds[tab[t]]) + 1
  BY <1>3 DEF Inserted
<1>7. /\ oldFD' \in [Thread -> Pointer] /\ newFD' \in [Thread -> Pointer]
      /\ \A u \in Thread :
           /\ Follows(oldFD[u], oldFD'[u]) /\ Follows(newFD[u], newFD'[u])
           /\ oldFD[u] = 0 => oldFD'[u] = 0
           /\ newFD[u] = 0 => newFD'[u] = 0
           /\ tab[u] # tab[t] => oldFD'[u] = oldFD[u] /\ newFD'[u] = newFD[u]
  <2>1. oldFD \in [Thread -> Pointer] /\ newFD \in [Thread -> Pointer]
    BY <1>1 DEF Types
  <2>2. /\ oldFD' \in [Thread -> Pointer]
        /\ \A u \in Thread : /\ Follows(oldFD[u], oldFD'[u]) /\ (oldFD[u] = 0 => oldFD'[u] = 0)
                             /\ tab[u] # tab[t] => oldFD'[u] = oldFD[u]
    BY <1>1, <1>2, <2>1, MovedIs
  <2>3. /\ newFD' \in [Thread -> Pointer]
        /\ \A u \in Thread : /\ Follows(newFD[u], newFD'[u]) /\ (newFD[u] = 0 => newFD'[u] = 0)
                             /\ tab[u] # tab[t] => newFD'[u] = newFD[u]
    BY <1>1, <1>2, <2>1, MovedIs
  <2> QED
    BY <2>2, <2>3
<1>8. Types'
  BY <1>1, <1>2, <1>3, <1>4, <1>5, <1>6, <1>7 DEF Types
<1>9. Local(t, m)
  BY <1>1, <1>2, <1>3, <1>5, <1>6, <1>7 DEF Local, Types
<1>10. t \notin alone
  BY <1>1, <1>2 DEF CallOK, AloneOK, CopyPC
<1>11. oldFD'[t] = 0 /\ newFD'[t] = 0
  BY <1>1, <1>2, <1>7 DEF CallOK
<1>12. Tail(held[t]) # <<>> => Len(Tail(held[t])) = 1
  <2>1. Len(Tail(held[t])) \in 0 .. 1
    BY <1>4
  <2>2. Len(Tail(held[t])) = 0 => Tail(held[t]) = <<>>
    BY <1>4, EmptySeq
  <2> QED
    BY <2>1, <2>2
<1>13. held'[t] = Tail(held[t]) /\ pc'[t] = IF Tail(held[t]) = <<>> THEN "idle" ELSE "added"
  BY <1>1, <1>2 DEF Types
<1>14. CallOK(t)'
  <2>1. tab'[t] # None /\ t \notin alone'
    BY <1>2, <1>5, <1>10, DescriptorsAssumption
  <2>2. CASE Tail(held[t]) = <<>>
    BY <1>11, <1>13, <2>1, <2>2 DEF CallOK, CopyPC
  <2>3. CASE Tail(held[t]) # <<>>
    BY <1>11, <1>12, <1>13, <2>1, <2>3 DEF CallOK, CopyPC
  <2> QED
    BY <2>2, <2>3
<1> QED
  BY <1>5, <1>8, <1>9, <1>14, LocalStep

\* How the table grows by an entry to copy to.
LEMMA NewEntryFacts ==
  ASSUME Shape, NEW t \in Thread, ReplaceInsert(t)
  PROVE  \E k \in 1 .. Len(fds[tab[t]]) + 1, e \in Entry, m \in Seq(Entry) :
           /\ e.desc = None /\ Inserted(fds[tab[t]], k, e, m)
           /\ fds' = [fds EXCEPT ![tab[t]] = m] /\ Len(m) <= MaxEntries
           /\ oldFD' = [Moved(oldFD, tab[t]) EXCEPT ![t] = k]
<1>1. Types /\ CallOK(t) /\ pc[t] = "insert" /\ pc[t] # "idle"
  BY DEF Shape, ReplaceInsert
<1>2. fds[tab[t]] \in Seq(Entry) /\ Len(fds[tab[t]]) \in Nat
  BY <1>1, InTable
<1>3. PICK k \in InsertPlaces(t) :
        /\ Insert(tab[t], k, [id |-> old[t], desc |-> None])
        /\ oldFD' = [Moved(oldFD, tab[t]) EXCEPT ![t] = k]
  BY DEF ReplaceInsert
<1>4. PICK e, m : e = [id |-> old[t], desc |-> None] /\ m = InsertAt(fds[tab[t]], k, e)
  OBVIOUS
<1>5. Len(fds[tab[t]]) < MaxEntries /\ fds' = [fds EXCEPT ![tab[t]] = m]
  BY <1>3, <1>4 DEF Insert, Set
<1>6. k \in 1 .. Len(fds[tab[t]]) + 1
  BY <1>2, PlacesFound
<1>7. e \in Entry /\ e.desc = None
  <2>1. old[t] \in Int
    BY <1>1, DescriptorsAssumption DEF CallOK
  <2> QED
    BY <1>4, <2>1 DEF Entry
<1>8. Inserted(fds[tab[t]], k, e, m)
  BY <1>2, <1>4, <1>6, <1>7, InsertFacts
<1>9. Len(m) <= MaxEntries /\ m \in Seq(Entry)
  BY <1>2, <1>5, <1>8, DescriptorsAssumption DEF Inserted
<1> QED
  BY <1>3, <1>5, <1>6, <1>7, <1>8, <1>9

\* copyfd makes an entry to copy to; it is empty.
LEMMA NewEntryShape ==
  ASSUME Shape, NEW t \in Thread, ReplaceInsert(t)
  PROVE  Shape'
<1>1. Types /\ CallOK(t)
  BY DEF Shape
<1>2. /\ pc[t] = "insert" /\ pc[t] # "idle" /\ pc[t] \in CopyPC
      /\ pc' = [pc EXCEPT ![t] = "copy"] /\ old' = [old EXCEPT ![t] = None]
      /\ newFD' = Moved(newFD, tab[t])
      /\ users' = users /\ tab' = tab /\ sys' = sys /\ held' = held
      /\ alone' = alone /\ spoilt' = spoilt
  BY DEF ReplaceInsert, Set, ghostVars, CopyPC
<1>3. PICK k \in 1 .. Len(fds[tab[t]]) + 1, e \in Entry, m \in Seq(Entry) :
        /\ e.desc = None /\ Inserted(fds[tab[t]], k, e, m)
        /\ fds' = [fds EXCEPT ![tab[t]] = m] /\ Len(m) <= MaxEntries
        /\ oldFD' = [Moved(oldFD, tab[t]) EXCEPT ![t] = k]
  BY NewEntryFacts
<1>4. tab[t] \in Table /\ fds[tab[t]] \in Seq(Entry) /\ Len(fds[tab[t]]) \in Nat
  BY <1>2, InTable
<1>5. /\ m \in Seq(Entry) /\ Len(m) = Len(fds[tab[t]]) + 1 /\ DOMAIN m = 1 .. Len(m)
      /\ m[k] = e /\ k \in DOMAIN m /\ k \in Nat /\ k <= Len(m) /\ k # 0
  BY <1>3, <1>4 DEF Inserted
<1>6. k \in Pointer
  BY <1>3, <1>4, <1>5, DescriptorsAssumption DEF Pointer, Dangling
<1>7. /\ Moved(oldFD, tab[t]) \in [Thread -> Pointer] /\ newFD' \in [Thread -> Pointer]
      /\ \A u \in Thread :
           /\ Follows(oldFD[u], Moved(oldFD, tab[t])[u]) /\ Follows(newFD[u], newFD'[u])
           /\ tab[u] # tab[t] => Moved(oldFD, tab[t])[u] = oldFD[u] /\ newFD'[u] = newFD[u]
  BY <1>1, <1>2, MovedIs DEF Types
<1>8. /\ oldFD' \in [Thread -> Pointer] /\ oldFD'[t] = k
      /\ \A u \in Thread \ {t} : /\ Follows(oldFD[u], oldFD'[u])
                                 /\ tab[u] # tab[t] => oldFD'[u] = oldFD[u]
  BY <1>3, <1>6, <1>7
<1>9. Types'
  BY <1>1, <1>2, <1>3, <1>4, <1>5, <1>7, <1>8 DEF Types, CopyPC
<1>10. Local(t, m)
  BY <1>1, <1>2, <1>3, <1>4, <1>5, <1>7, <1>8 DEF Local, Types
<1>11. fds'[tab[t]] = m /\ pc'[t] = "copy"
  BY <1>1, <1>2, <1>3, <1>4 DEF Types
<1>12. t \in alone => AloneOK(t)'
  BY <1>1, <1>2, <1>3, <1>5, <1>8, <1>11 DEF CallOK, AloneOK, CopyPC
<1>13. newFD'[t] <= Len(m) /\ 1 <= Len(m)
  <2>1. newFD[t] \in Int /\ newFD[t] <= Len(fds[tab[t]])
    BY <1>1, <1>2, InTable DEF CallOK
  <2>2. newFD'[t] = newFD[t] \/ newFD'[t] = Dangling
    BY <1>7 DEF Follows
  <2> QED
    BY <1>4, <1>5, <2>1, <2>2 DEF Dangling
<1>14. CallOK(t)'
  BY <1>1, <1>2, <1>5, <1>8, <1>11, <1>12, <1>13, <1>4, DescriptorsAssumption DEF CallOK, CopyPC
<1> QED
  BY <1>4, <1>9, <1>10, <1>14, LocalStep

\* What copyfd writes changes at most the entry at its oldFD.
LEMMA StoreFacts ==
  ASSUME Shape, NEW t \in Thread, pc[t] \in CopyPC \ {"replace"}, NEW d \in Desc \cup {None},
         Store(t, oldFD[t], d)
  PROVE  \E m : /\ fds' = [fds EXCEPT ![tab[t]] = m]
                /\ Assigned(fds[tab[t]], oldFD[t], d, m)
<1>1. pc[t] # "idle" /\ pc[t] \in CopyPC /\ oldFD[t] # 0
  BY DEF CopyPC, Shape, CallOK
<1>2. /\ tab[t] \in Table /\ fds[tab[t]] \in Seq(Entry) /\ Len(fds[tab[t]]) \in Nat
      /\ DOMAIN fds[tab[t]] = 1 .. Len(fds[tab[t]]) /\ fds \in [Table -> Seq(Entry)]
  BY <1>1, InTable DEF Shape, Types
<1>3. oldFD[t] = Dangling \/ oldFD[t] \in DOMAIN fds[tab[t]]
  BY <1>1, CopyPointee
<1>4. CASE oldFD[t] = Dangling
  <2>1. fds' = fds
    BY <1>4 DEF Store
  <2>2. fds' = [fds EXCEPT ![tab[t]] = fds[tab[t]]]
    BY <1>2, <2>1
  <2>3. oldFD[t] \notin DOMAIN fds[tab[t]]
    BY <1>2, <1>4 DEF Dangling
  <2>4. Assigned(fds[tab[t]], oldFD[t], d, fds[tab[t]])
    BY <1>2, <2>3 DEF Assigned
  <2> QED
    BY <2>2, <2>4
<1>5. CASE oldFD[t] \in DOMAIN fds[tab[t]]
  <2>1. oldFD[t] # Dangling
    BY <1>2, <1>5 DEF Dangling
  <2>2. PICK m : m = [fds[tab[t]] EXCEPT ![oldFD[t]] = [id |-> fds[tab[t]][oldFD[t]].id, desc |-> d]]
    OBVIOUS
  <2>3. fds' = [fds EXCEPT ![tab[t]] = m]
    BY <2>1, <2>2 DEF Store, Assign, Set
  <2>4. Assigned(fds[tab[t]], oldFD[t], d, m)
    BY <1>2, <1>5, <2>2, AssignFacts
  <2> QED
    BY <2>3, <2>4
<1> QED
  BY <1>3, <1>4, <1>5

\* A step of t that assigns to an entry of its table is local.
LEMMA AssignLocal ==
  ASSUME Shape, NEW t \in Thread, tab[t] # None \/ pc[t] # "idle", NEW k, NEW d, NEW m,
         fds' = [fds EXCEPT ![tab[t]] = m], Assigned(fds[tab[t]], k, d, m),
         tab' = tab, users' = users, spoilt \subseteq spoilt',
         \A u \in Thread \ {t} :
           /\ pc'[u] = pc[u] /\ held'[u] = held[u] /\ sys'[u] = sys[u] /\ old'[u] = old[u]
           /\ u \in alone' <=> u \in alone
           /\ oldFD'[u] = oldFD[u] /\ newFD'[u] = newFD[u]
  PROVE  /\ Local(t, m) /\ fds'[tab[t]] = m /\ fds' \in [Table -> Seq(Entry)]
         /\ \A r \in Table \ {tab[t]} : fds'[r] = fds[r]
<1>1. /\ tab[t] \in Table /\ Len(fds[tab[t]]) \in Nat /\ Len(fds[tab[t]]) <= MaxEntries
      /\ fds \in [Table -> Seq(Entry)]
  BY InTable DEF Shape, Types
<1>2. m \in Seq(Entry) /\ Len(m) = Len(fds[tab[t]])
  BY DEF Assigned
<1>3. Len(fds[tab[t]]) <= Len(m) /\ Len(m) <= MaxEntries
  BY <1>1, <1>2
<1> QED
  BY <1>1, <1>2, <1>3 DEF Local, Follows

\* What a close of a number finds.
LEMMA CloseFacts ==
  ASSUME Shape, NEW t \in Thread, NEW i \in Fd, ThreadCloseFileDescriptor(t, i)
  PROVE  \E k \in DOMAIN fds[tab[t]], d \in Desc, m \in Seq(Entry) :
           /\ fds[tab[t]][k].desc = d /\ Close(d)
           /\ fds' = [fds EXCEPT ![tab[t]] = m] /\ Assigned(fds[tab[t]], k, None, m)
<1>0. PICK k, d : k = EntryOf(tab[t], i) /\ d = Slot(t, k)
  OBVIOUS
<1>1. /\ tab[t] # None /\ pc[t] = "idle" /\ k # 0 /\ d # None
      /\ Assign(tab[t], k, None) /\ Close(d)
  BY <1>0 DEF ThreadCloseFileDescriptor, Idle, Assign, Set, Close, Recount
<1>2. tab[t] \in Table /\ fds[tab[t]] \in Seq(Entry)
  BY <1>1, InTable
<1>3. k \in DOMAIN fds[tab[t]]
  BY <1>0, <1>1, <1>2, EntryFound
<1>4. d = fds[tab[t]][k].desc /\ d \in Desc
  BY <1>0, <1>1, <1>2, <1>3, EntryIs DEF Slot
<1>5. PICK m : m = [fds[tab[t]] EXCEPT ![k] = [id |-> fds[tab[t]][k].id, desc |-> None]]
  OBVIOUS
<1>6. fds' = [fds EXCEPT ![tab[t]] = m]
  BY <1>1, <1>5 DEF Assign, Set
<1>7. Assigned(fds[tab[t]], k, None, m)
  BY <1>2, <1>3, <1>5, AssignFacts
<1>8. m \in Seq(Entry)
  BY <1>7 DEF Assigned
<1> QED
  BY <1>1, <1>3, <1>4, <1>6, <1>7, <1>8

\* A number is closed.
LEMMA CloseShape ==
  ASSUME Shape, NEW t \in Thread, NEW i \in Fd, ThreadCloseFileDescriptor(t, i)
  PROVE  Shape'
<1>1. Types /\ CallOK(t)
  BY DEF Shape
<1>2. /\ tab[t] # None /\ pc[t] = "idle"
      /\ users' = users /\ tab' = tab /\ pc' = pc /\ held' = held /\ sys' = sys /\ old' = old
      /\ oldFD' = oldFD /\ newFD' = newFD /\ alone' = alone /\ spoilt' = spoilt
  BY DEF ThreadCloseFileDescriptor, Idle, ptrVars, ghostVars
<1>3. PICK k, m : fds' = [fds EXCEPT ![tab[t]] = m] /\ Assigned(fds[tab[t]], k, None, m)
  BY CloseFacts
<1>4. Local(t, m) /\ fds' \in [Table -> Seq(Entry)]
  BY <1>2, <1>3, AssignLocal
<1>5. Types'
  BY <1>1, <1>2, <1>4 DEF Types
<1>6. CallOK(t)'
  BY <1>1, <1>2 DEF CallOK, AloneOK, CopyPC
<1>7. tab[t] \in Table
  BY <1>2, InTable
<1> QED
  BY <1>4, <1>5, <1>6, <1>7, LocalStep

\* copyfd has filled an empty entry.
LEMMA FillShape ==
  ASSUME Shape, NEW t \in Thread, CopyFill(t)
  PROVE  Shape'
<1>1. Types /\ CallOK(t)
  BY DEF Shape
<1>2. /\ pc[t] = "fill" /\ pc' = [pc EXCEPT ![t] = "addref"] /\ Store(t, oldFD[t], sys[t])
      /\ Spoil(t, oldFD[t], Overwritten(t, oldFD[t]))
      /\ users' = users /\ tab' = tab /\ held' = held /\ sys' = sys /\ old' = old
      /\ oldFD' = oldFD /\ newFD' = newFD /\ alone' = alone
  BY DEF CopyFill, Set, ptrVars
<1>3. pc[t] # "idle" /\ pc[t] \in CopyPC \ {"replace"} /\ sys[t] \in Desc \cup {None}
  BY <1>1, <1>2 DEF CopyPC, Types
<1>0. PICK d \in Desc \cup {None} : d = sys[t]
  BY <1>3
<1>14. PICK o : o = oldFD[t]
  OBVIOUS
<1>4. PICK m : fds' = [fds EXCEPT ![tab[t]] = m] /\ Assigned(fds[tab[t]], o, d, m)
  <2>1. Store(t, oldFD[t], d)
    BY <1>0, <1>2 DEF Store, Assign, Set
  <2> QED
    BY <1>3, <1>14, <2>1, StoreFacts
<1>5. spoilt \subseteq spoilt' /\ spoilt' \subseteq Desc
  BY <1>1, <1>2, SpoilFacts DEF Types
<1>6. \A u \in Thread \ {t} :
           /\ pc'[u] = pc[u] /\ held'[u] = held[u] /\ sys'[u] = sys[u] /\ old'[u] = old[u]
           /\ u \in alone' <=> u \in alone
           /\ oldFD'[u] = oldFD[u] /\ newFD'[u] = newFD[u]
  BY <1>1, <1>2 DEF Types
<1>13. tab[t] \in Table
  BY <1>3, InTable
<1>15. fds \in [Table -> Seq(Entry)] /\ Len(fds[tab[t]]) \in Nat /\ Len(fds[tab[t]]) <= MaxEntries
  BY <1>3, InTable DEF Shape, Types
<1>16. m \in Seq(Entry) /\ Len(m) = Len(fds[tab[t]])
  BY <1>4 DEF Assigned
<1>17. fds'[tab[t]] = m /\ fds' \in [Table -> Seq(Entry)]
  BY <1>4, <1>13, <1>15, <1>16
<1>18. Local(t, m)
  BY <1>2, <1>4, <1>5, <1>6, <1>13, <1>15, <1>16 DEF Local, Follows
<1>7. Local(t, m) /\ fds'[tab[t]] = m /\ fds' \in [Table -> Seq(Entry)]
  BY <1>17, <1>18
<1>8. Types'
  BY <1>1, <1>2, <1>5, <1>7 DEF Types, CopyPC
<1>9. pc'[t] = "addref"
  BY <1>1, <1>2 DEF Types
<1>10. /\ Len(m) = Len(fds[tab[t]]) /\ DOMAIN m = DOMAIN fds[tab[t]]
       /\ \A j \in DOMAIN m : m[j].desc = IF j = oldFD[t] THEN sys[t] ELSE fds[tab[t]][j].desc
  BY <1>0, <1>4, <1>14 DEF Assigned
<1>11. ASSUME t \in alone
       PROVE  AloneOK(t)'
  <2>1. /\ oldFD[t] \in DOMAIN fds[tab[t]] /\ \A u \in Thread \ {t} : tab[u] # tab[t]
        /\ sys[t] \in spoilt \cup {None} \/ \E k \in DOMAIN fds[tab[t]] :
             k # oldFD[t] /\ fds[tab[t]][k].desc = sys[t]
    BY <1>1, <1>2, <1>11 DEF CallOK, AloneOK, CopyPC
  <2> QED
    BY <1>2, <1>5, <1>7, <1>9, <1>10, <2>1 DEF AloneOK, CopyPC
<1>12. CallOK(t)'
  BY <1>1, <1>2, <1>5, <1>7, <1>9, <1>10, <1>11 DEF CallOK, CopyPC
<1> QED
  BY <1>7, <1>8, <1>12, <1>13, LocalStep

\* copyfd has written the copy.
LEMMA AssignShape ==
  ASSUME Shape, NEW t \in Thread, CopyAssign(t)
  PROVE  Shape'
<1>1. Types /\ CallOK(t)
  BY DEF Shape
<1>2. /\ pc[t] = "counted" /\ ReplaceReturn(t) /\ users' = users /\ tab' = tab /\ held' = held
  BY DEF CopyAssign
<1>3. pc[t] # "idle" /\ pc[t] \in CopyPC \ {"replace"} /\ pc[t] \in CopyPC
  BY <1>2 DEF CopyPC
<1>4. PICK n \in Pointee(t, newFD[t]) :
        /\ Store(t, oldFD[t], n)
        /\ Spoil(t, newFD[t], {n} \cup Overwritten(t, oldFD[t]))
  BY DEF CopyAssign
<1>5. n \in Desc \cup {None}
  BY <1>3, CopyPointee
<1>0. PICK o : o = oldFD[t]
  OBVIOUS
<1>6. PICK m : fds' = [fds EXCEPT ![tab[t]] = m] /\ Assigned(fds[tab[t]], o, n, m)
  BY <1>0, <1>3, <1>4, <1>5, StoreFacts
<1>7. spoilt \subseteq spoilt' /\ spoilt' \subseteq Desc
  BY <1>1, <1>4, SpoilFacts DEF Types
<1>8. /\ pc' = [pc EXCEPT ![t] = "idle"] /\ sys' = [sys EXCEPT ![t] = None]
      /\ oldFD' = [oldFD EXCEPT ![t] = 0] /\ newFD' = [newFD EXCEPT ![t] = 0]
      /\ old' = [old EXCEPT ![t] = None] /\ alone' = alone \ {t}
  BY <1>2 DEF ReplaceReturn, Set
<1>9. \A u \in Thread \ {t} :
           /\ pc'[u] = pc[u] /\ held'[u] = held[u] /\ sys'[u] = sys[u] /\ old'[u] = old[u]
           /\ u \in alone' <=> u \in alone
           /\ oldFD'[u] = oldFD[u] /\ newFD'[u] = newFD[u]
  BY <1>1, <1>2, <1>8 DEF Types
<1>10. Local(t, m) /\ fds' \in [Table -> Seq(Entry)]
  BY <1>2, <1>3, <1>6, <1>7, <1>9, AssignLocal
<1>11. 0 \in Pointer
  BY DescriptorsAssumption DEF Pointer, Dangling
<1>12. Types'
  BY <1>1, <1>2, <1>7, <1>8, <1>10, <1>11 DEF Types
<1>13. held[t] = <<>>
  BY <1>1, <1>2 DEF CallOK
<1>14. CallOK(t)'
  BY <1>1, <1>2, <1>8, <1>13 DEF CallOK, CopyPC, Types
<1>15. tab[t] \in Table
  BY <1>3, InTable
<1> QED
  BY <1>10, <1>12, <1>14, <1>15, LocalStep

\* Threads that a step leaves alone.
Still(v) ==
  /\ tab'[v] = tab[v] /\ pc'[v] = pc[v] /\ held'[v] = held[v] /\ sys'[v] = sys[v]
  /\ old'[v] = old[v] /\ oldFD'[v] = oldFD[v] /\ newFD'[v] = newFD[v]
  /\ v \in alone' <=> v \in alone
  /\ tab[v] # None => fds'[tab[v]] = fds[tab[v]]

\* A thread is created or ends, and comes to no table in which another is alone.
LEMMA ThreadStep ==
  ASSUME Shape, NEW u \in Thread, \A v \in Thread \ {u} : Still(v),
         \A v \in alone \ {u} : tab'[u] # tab[v],
         spoilt \subseteq spoilt', Types', Tables', CallOK(u)'
  PROVE  Shape'
<1>1. Types /\ \A v \in Thread : CallOK(v)
  BY DEF Shape
<1>2. ASSUME NEW v \in Thread \ {u}
      PROVE  Kept(v)
  <2>1. v \in alone => pc[v] # "idle" /\ \A w \in Thread \ {v} : tab[w] # tab[v]
    BY <1>1 DEF CallOK, AloneOK, CopyPC
  <2>2. v \in alone => tab[v] # None
    BY <1>1, <2>1 DEF CallOK
  <2>3. v \in alone => \A w \in Thread \ {v} : tab'[w] # tab[v]
    BY <2>1 DEF Still
  <2>4. tab[v] # None => Len(fds'[tab[v]]) >= Len(fds[tab[v]])
    <3>1. tab[v] # None => tab[v] \in Table /\ Len(fds[tab[v]]) \in Nat
      BY <1>1 DEF Types
    <3> QED
      BY <3>1 DEF Still
  <2> QED
    BY <2>2, <2>3, <2>4 DEF Still, Kept, Follows
<1> QED
  BY <1>2, OneStep

\* A new thread of the process is one more user of its table.
LEMMA ShareShape ==
  ASSUME Shape, NEW t \in Thread, NEW u \in Thread, CloneShare(t, u)
  PROVE  Shape'
<1> USE DescriptorsAssumption
<1> DEFINE p == tab[t]
<1>1. Types /\ Tables /\ CallOK(u) /\ CallOK(t)
  BY DEF Shape
<1>2. /\ p # None /\ pc[t] = "idle" /\ tab[u] = None
      /\ tab' = [tab EXCEPT ![u] = p] /\ users' = [users EXCEPT ![p] = users[p] + 1]
      /\ fds' = fds /\ alone' = alone /\ spoilt' = spoilt
      /\ pc' = pc /\ held' = held /\ sys' = sys /\ old' = old /\ oldFD' = oldFD /\ newFD' = newFD
  BY DEF CloneShare, Idle, Set, ptrVars, ghostVars
<1>3. p \in Table /\ pc[u] = "idle"
  BY <1>1, <1>2 DEF Types, CallOK
<1>4. Types'
  <2>1. tab' \in [Thread -> Table \cup {None}] /\ users' \in [Table -> Nat]
    <3>1. users[p] + 1 \in Nat
      BY <1>1, <1>3 DEF Types
    <3> QED
      BY <1>1, <1>2, <1>3, <3>1 DEF Types
  <2> QED
    BY <1>1, <1>2, <2>1 DEF Types
<1>5. Tables'
  <2>1. ASSUME NEW q \in Table
        PROVE  users'[q] = Cardinality(Of(q)') /\ (Of(q)' = {} => fds'[q] = <<>>)
    <3>1. IsFiniteSet(Of(q))
      BY FS_Subset DEF Of
    <3>2. CASE q = p
      <4>1. Of(q)' = Of(q) \cup {u} /\ u \notin Of(q) /\ users'[q] = users[q] + 1
        BY <1>1, <1>2, <1>3, <3>2 DEF Of, Types
      <4>2. Cardinality(Of(q) \cup {u}) = Cardinality(Of(q)) + 1
        BY <3>1, <4>1, FS_AddElement
      <4>3. users[q] = Cardinality(Of(q)) /\ Of(q)' # {}
        BY <1>1, <4>1 DEF Tables
      <4> QED
        BY <4>1, <4>2, <4>3
    <3>3. CASE q # p
      <4>1. Of(q)' = Of(q) /\ users'[q] = users[q]
        BY <1>1, <1>2, <1>3, <3>3 DEF Of, Types
      <4> QED
        BY <1>1, <1>2, <4>1 DEF Tables
    <3> QED
      BY <3>2, <3>3
  <2> QED
    BY <1>1, <1>2, <2>1 DEF Tables
<1>6. \A v \in Thread \ {u} : Still(v)
  BY <1>1, <1>2 DEF Types, Still
<1>7. \A v \in alone \ {u} : tab'[u] # tab[v]
  <2>1. \A v \in alone : v \in Thread /\ AloneOK(v)
    BY <1>1 DEF Types, Shape, CallOK
  <2>2. t \notin alone
    BY <1>1, <1>2 DEF CallOK, AloneOK, CopyPC
  <2>3. \A v \in alone : tab[v] # p
    BY <2>1, <2>2 DEF AloneOK
  <2>4. tab'[u] = p
    BY <1>1, <1>2 DEF Types
  <2> QED
    BY <2>3, <2>4
<1>8. CallOK(u)'
  <2>1. u \notin alone
    BY <1>1, <1>3 DEF CallOK, AloneOK, CopyPC
  <2> QED
    BY <1>1, <1>2, <1>3, <2>1 DEF CallOK, CopyPC
<1> QED
  BY <1>2, <1>4, <1>5, <1>6, <1>7, <1>8, ThreadStep

\* The places of the open entries of table p.
OpenAt(p) == {k \in DOMAIN fds[p] : fds[p][k].desc # None}

\* f takes the entries of c to the open entries of table p that they copy.
CopyOf(p, c, f) ==
  /\ c \in Seq(Entry) /\ Len(c) <= Len(fds[p])
  /\ f \in [DOMAIN c -> OpenAt(p)]
  /\ \A i, j \in DOMAIN c : i < j => f[i] < f[j]
  /\ \A k \in OpenAt(p) : \E i \in DOMAIN c : f[i] = k
  /\ \A i \in DOMAIN c : c[i] = fds[p][f[i]]

\* What a child gets are all the open entries of its parent, each once, in order.
LEMMA CopiesFacts ==
  ASSUME NEW p, fds[p] \in Seq(Entry), NEW c \in Copies(p)
  PROVE  \E f : CopyOf(p, c, f)
<1> DEFINE K == OpenAt(p)
           n == Cardinality(K)
           s == fds[p]
<1>1. PICK f \in [1 .. n -> K] : /\ \A i, j \in DOMAIN f : i < j => f[i] < f[j]
                                 /\ c = [i \in DOMAIN f |-> s[f[i]]]
  BY Zenon DEF Copies, OpenAt
<1>2. DOMAIN s = 1 .. Len(s) /\ Len(s) \in Nat /\ K \subseteq 1 .. Len(s)
  BY DEF OpenAt
<1>3. IsFiniteSet(1 .. Len(s)) /\ Cardinality(1 .. Len(s)) = Len(s)
  BY <1>2, FS_Interval
<1>4. IsFiniteSet(K) /\ n \in Nat /\ n <= Len(s)
  <2>1. IsFiniteSet(K) /\ n <= Cardinality(1 .. Len(s))
    BY <1>2, <1>3, FS_Subset
  <2>2. n \in Nat
    BY <2>1, FS_CardinalityType
  <2> QED
    BY <1>3, <2>1, <2>2
<1> HIDE DEF n, K
<1>5. /\ DOMAIN f = 1 .. n
      /\ \A i \in 1 .. n : f[i] \in K /\ f[i] \in DOMAIN s /\ f[i] \in Nat /\ s[f[i]] \in Entry
  <2>1. DOMAIN f = 1 .. n /\ \A i \in 1 .. n : f[i] \in K
    OBVIOUS
  <2>2. \A k \in K : k \in DOMAIN s /\ k \in Nat
    BY <1>2
  <2>3. \A k \in DOMAIN s : s[k] \in Entry
    OBVIOUS
  <2> QED
    BY <2>1, <2>2, <2>3
<1>6. /\ c \in Seq(Entry) /\ Len(c) = n /\ DOMAIN c = 1 .. n
      /\ \A i \in 1 .. n : c[i] = s[f[i]]
  BY <1>1, <1>4, <1>5
<1>7. \A i, j \in 1 .. n : f[i] = f[j] => i = j
  <2> SUFFICES ASSUME NEW i \in 1 .. n, NEW j \in 1 .. n, i # j
               PROVE  f[i] # f[j]
    OBVIOUS
  <2>1. i < j \/ j < i
    BY <1>4
  <2>2. f[i] \in Nat /\ f[j] \in Nat
    BY <1>5
  <2> QED
    BY <1>1, <1>5, <2>1, <2>2
<1>8. \A k \in K : \E i \in 1 .. n : f[i] = k
  <2>1. f \in Injection(1 .. n, K)
    BY <1>7 DEF Injection, IsInjective
  <2>2. Cardinality(1 .. n) = Cardinality(K)
    BY <1>4, FS_Interval DEF n
  <2>3. f \in Surjection(1 .. n, K)
    BY <1>4, <2>1, <2>2, FS_Injection
  <2> QED
    BY <2>3 DEF Surjection
<1>9. CopyOf(p, c, f)
  BY <1>1, <1>4, <1>5, <1>6, <1>8 DEF CopyOf, K
<1> QED
  BY <1>9

\* A table that counts no thread has none.
LEMMA NoThread ==
  ASSUME Shape, NEW q \in Table, users[q] = 0
  PROVE  fds[q] = <<>> /\ \A v \in Thread : tab[v] # q
<1>1. IsFiniteSet(Of(q)) /\ users[q] = Cardinality(Of(q)) /\ (Of(q) = {} => fds[q] = <<>>)
  BY DescriptorsAssumption, FS_Subset DEF Of, Shape, Tables
<1>2. Of(q) = {}
  BY <1>1, FS_EmptySet
<1> QED
  BY <1>1, <1>2 DEF Of

\* What the child of a process begins with.
LEMMA ForkFacts ==
  ASSUME Shape, NEW t \in Thread, NEW u \in Thread, NEW q \in Table, CloneFork(t, u, q)
  PROVE  /\ tab[t] \in Table /\ fds[tab[t]] \in Seq(Entry) /\ q # tab[t]
         /\ fds[q] = <<>> /\ \A v \in Thread : tab[v] # q
         /\ \E c, f : /\ fds' = [fds EXCEPT ![q] = c] /\ CopyOf(tab[t], c, f)
                      /\ Len(c) <= MaxEntries
<1>1. PICK c \in Copies(tab[t]) : fds' = [fds EXCEPT ![q] = c]
  BY DEF CloneFork, Set
<1>2. tab[t] # None /\ users[q] = 0
  BY DEF CloneFork, Idle
<1>3. /\ tab[t] \in Table /\ fds[tab[t]] \in Seq(Entry)
      /\ Len(fds[tab[t]]) \in Nat /\ Len(fds[tab[t]]) <= MaxEntries
  BY <1>2, InTable
<1>4. fds[q] = <<>> /\ \A v \in Thread : tab[v] # q
  BY <1>2, NoThread
<1>5. PICK f : CopyOf(tab[t], c, f)
  BY <1>3, CopiesFacts
<1>6. Len(c) <= MaxEntries
  <2>1. c \in Seq(Entry) /\ Len(c) <= Len(fds[tab[t]])
    BY <1>5 DEF CopyOf
  <2>2. Len(c) \in Nat
    BY <2>1
  <2> QED
    BY <1>3, <2>1, <2>2, DescriptorsAssumption
<1> QED
  BY <1>1, <1>3, <1>4, <1>5, <1>6

\* A child has a table of its own.
LEMMA ForkShape ==
  ASSUME Shape, NEW t \in Thread, NEW u \in Thread, NEW q \in Table, CloneFork(t, u, q)
  PROVE  Shape'
<1> USE DescriptorsAssumption
<1>1. Types /\ Tables /\ CallOK(u)
  BY DEF Shape
<1>2. PICK c, f : fds' = [fds EXCEPT ![q] = c] /\ CopyOf(tab[t], c, f) /\ Len(c) <= MaxEntries
  BY ForkFacts
<1>3. \A v \in Thread : tab[v] # q
  BY ForkFacts
<1>4. /\ tab[u] = None
      /\ tab' = [tab EXCEPT ![u] = q] /\ users' = [users EXCEPT ![q] = 1]
      /\ alone' = alone /\ spoilt' = spoilt
      /\ pc' = pc /\ held' = held /\ sys' = sys /\ old' = old /\ oldFD' = oldFD /\ newFD' = newFD
  BY DEF CloneFork, Idle, Set, ptrVars, ghostVars
<1>5. c \in Seq(Entry) /\ pc[u] = "idle"
  BY <1>1, <1>2, <1>4 DEF CopyOf, CallOK
<1>6. Types'
  BY <1>1, <1>2, <1>4, <1>5 DEF Types
<1>7. Tables'
  <2>1. ASSUME NEW r \in Table
        PROVE  /\ Len(fds'[r]) <= MaxEntries
               /\ users'[r] = Cardinality(Of(r)')
               /\ Of(r)' = {} => fds'[r] = <<>>
    <3>1. CASE r = q
      <4>1. Of(r)' = {u}
        BY <1>1, <1>3, <1>4, <3>1 DEF Of, Types
      <4>2. fds'[r] = c /\ users'[r] = 1
        BY <1>1, <1>2, <1>4, <3>1 DEF Types
      <4> QED
        BY <1>2, <4>1, <4>2, FS_Singleton
    <3>2. CASE r # q
      <4>1. Of(r)' = Of(r)
        BY <1>1, <1>4, <3>2 DEF Of, Types
      <4>2. fds'[r] = fds[r] /\ users'[r] = users[r]
        BY <1>1, <1>2, <1>4, <3>2 DEF Types
      <4> QED
        BY <1>1, <4>1, <4>2 DEF Tables
    <3> QED
      BY <3>1, <3>2
  <2> QED
    BY <2>1 DEF Tables
<1>8. \A v \in Thread \ {u} : Still(v)
  BY <1>1, <1>2, <1>3, <1>4 DEF Types, Still
<1>9. \A v \in alone \ {u} : tab'[u] # tab[v]
  BY <1>1, <1>3, <1>4 DEF Types
<1>10. CallOK(u)'
  <2>1. u \notin alone
    BY <1>1, <1>5 DEF CallOK, AloneOK, CopyPC
  <2> QED
    BY <1>1, <1>4, <1>5, <2>1 DEF CallOK, CopyPC
<1> QED
  BY <1>4, <1>6, <1>7, <1>8, <1>9, <1>10, ThreadStep

\* The last user of a table is alone with it.
LEMMA LastIsAlone ==
  ASSUME Shape, NEW t \in Thread, tab[t] \in Table
  PROVE  /\ IsFiniteSet(Of(tab[t])) /\ t \in Of(tab[t])
         /\ users[tab[t]] = Cardinality(Of(tab[t])) /\ users[tab[t]] \in Nat \ {0}
         /\ users[tab[t]] = 1 <=> Of(tab[t]) = {t}
<1> DEFINE P == Of(tab[t])
<1>1. IsFiniteSet(P) /\ t \in P /\ users[tab[t]] = Cardinality(P)
  BY DescriptorsAssumption, FS_Subset DEF Of, Tables, Shape
<1>2. Cardinality(P) \in Nat \ {0}
  BY <1>1, FS_CardinalityType, FS_EmptySet
<1>3. Cardinality(P) = 1 <=> P = {t}
  <2>1. Cardinality(P) = 1 <=> \E x : P = {x}
    BY <1>1, FS_Singleton
  <2> QED
    BY <1>1, <2>1
<1> QED
  BY <1>1, <1>2, <1>3

\* A table is emptied when its last thread leaves.
LEMMA LeaveShape ==
  ASSUME Shape, NEW t \in Thread, tab[t] # None, pc[t] \notin CopyPC \cup {"use"}, Leave(t),
         pc' = [pc EXCEPT ![t] = "idle"], held' = [held EXCEPT ![t] = <<>>],
         sys' = sys, old' = old, oldFD' = oldFD, newFD' = newFD, alone' = alone,
         spoilt \subseteq spoilt', spoilt' \subseteq Desc
  PROVE  Shape'
<1> USE DescriptorsAssumption
<1> DEFINE p == tab[t]
<1>1. Types /\ Tables /\ CallOK(t)
  BY DEF Shape
<1>2. /\ tab' = [tab EXCEPT ![t] = None] /\ users' = [users EXCEPT ![p] = users[p] - 1]
      /\ fds' = IF users[p] = 1 THEN [fds EXCEPT ![p] = <<>>] ELSE fds
  BY DEF Leave, Set
<1>3. p \in Table
  BY <1>1 DEF Types
<1>4. /\ IsFiniteSet(Of(p)) /\ t \in Of(p) /\ users[p] = Cardinality(Of(p))
      /\ users[p] \in Nat \ {0}
      /\ users[p] = 1 <=> Of(p) = {t}
  BY <1>3, LastIsAlone
<1>5. fds' \in [Table -> Seq(Entry)] /\ users' \in [Table -> Nat]
  <2>1. <<>> \in Seq(Entry)
    OBVIOUS
  <2>2. fds' \in [Table -> Seq(Entry)]
    BY <1>1, <1>2, <1>3, <2>1 DEF Types
  <2>3. users[p] - 1 \in Nat
    BY <1>4
  <2> QED
    BY <1>1, <1>2, <1>3, <2>2, <2>3 DEF Types
<1>6. Types'
  BY <1>1, <1>2, <1>5 DEF Types
<1>7. Tables'
  <2>1. ASSUME NEW r \in Table
        PROVE  /\ Len(fds'[r]) <= MaxEntries
               /\ users'[r] = Cardinality(Of(r)')
               /\ Of(r)' = {} => fds'[r] = <<>>
    <3>1. CASE r = p
      <4>1. Of(r)' = Of(r) \ {t} /\ users'[r] = users[r] - 1
        BY <1>1, <1>2, <1>3, <3>1 DEF Of, Types
      <4>2. IsFiniteSet(Of(r)) /\ t \in Of(r) /\ users[r] = Cardinality(Of(r))
        BY <1>4, <3>1
      <4>3. Cardinality(Of(r) \ {t}) = Cardinality(Of(r)) - 1
        BY <4>2, FS_RemoveElement
      <4>4. users'[r] = Cardinality(Of(r)')
        BY <4>1, <4>2, <4>3
      <4>5. Of(r)' = {} => fds'[r] = <<>>
        BY <1>1, <1>2, <1>3, <1>4, <3>1, <4>1 DEF Types
      <4>6. fds'[r] = <<>> \/ fds'[r] = fds[r]
        BY <1>1, <1>2, <1>3, <3>1 DEF Types
      <4>7. Len(<<>>) <= MaxEntries /\ Len(fds[r]) <= MaxEntries
        BY <1>1 DEF Tables
      <4> QED
        BY <4>4, <4>5, <4>6, <4>7
    <3>2. CASE r # p
      <4>1. Of(r)' = Of(r)
        BY <1>1, <1>2, <3>2, DescriptorsAssumption DEF Of, Types
      <4>2. fds'[r] = fds[r] /\ users'[r] = users[r]
        BY <1>1, <1>2, <3>2 DEF Types
      <4> QED
        BY <1>1, <4>1, <4>2 DEF Tables
    <3> QED
      BY <3>1, <3>2
  <2> QED
    BY <2>1 DEF Tables
<1>8. \A v \in Thread \ {t} : Still(v)
  BY <1>1, <1>2, <1>3, <1>4 DEF Types, Of, Still
<1>9. \A v \in alone \ {t} : tab'[t] # tab[v]
  <2>1. \A v \in alone : v \in Thread /\ pc[v] # "idle"
    BY <1>1 DEF Types, Shape, CallOK, AloneOK, CopyPC
  <2>2. \A v \in alone : tab[v] # None
    BY <2>1 DEF Shape, CallOK
  <2> QED
    BY <1>1, <1>2, <2>2 DEF Types
<1>10. CallOK(t)'
  <2>1. t \notin alone
    BY <1>1 DEF CallOK, AloneOK, CopyPC
  <2>2. pc'[t] = "idle" /\ held'[t] = <<>>
    BY <1>1 DEF Types
  <2> QED
    BY <1>1, <2>1, <2>2 DEF CallOK, CopyPC
<1> QED
  BY <1>6, <1>7, <1>8, <1>9, <1>10, ThreadStep

\* A thread exits, also in the middle of syscall_pipe.
LEMMA ExitShape ==
  ASSUME Shape, NEW t \in Thread, ThreadExit(t) \/ PipeFault(t)
  PROVE  Shape'
<1>1. Types /\ CallOK(t)
  BY DEF Shape
<1>2. CASE ThreadExit(t)
  <2>1. /\ tab[t] # None /\ pc[t] = "idle" /\ Leave(t) /\ pc' = pc /\ held' = held
        /\ sys' = sys /\ old' = old /\ oldFD' = oldFD /\ newFD' = newFD
        /\ alone' = alone /\ spoilt' = spoilt
    BY <1>2 DEF ThreadExit, Idle, ptrVars, ghostVars
  <2>2. pc[t] \notin CopyPC \cup {"use"} /\ held[t] = <<>>
    BY <1>1, <2>1 DEF CopyPC, CallOK
  <2>3. pc' = [pc EXCEPT ![t] = "idle"] /\ held' = [held EXCEPT ![t] = <<>>]
    BY <1>1, <2>1, <2>2 DEF Types
  <2>4. spoilt \subseteq spoilt' /\ spoilt' \subseteq Desc
    BY <1>1, <2>1 DEF Types
  <2> QED
    BY <2>1, <2>2, <2>3, <2>4, LeaveShape
<1>3. CASE PipeFault(t)
  <2>1. /\ pc[t] = "added" /\ Leave(t) /\ spoilt' = spoilt \cup Range(held[t])
        /\ pc' = [pc EXCEPT ![t] = "idle"] /\ held' = [held EXCEPT ![t] = <<>>]
        /\ sys' = sys /\ old' = old /\ oldFD' = oldFD /\ newFD' = newFD /\ alone' = alone
    BY <1>3 DEF PipeFault, Set, ptrVars
  <2>2. pc[t] \notin CopyPC \cup {"use"} /\ tab[t] # None
    BY <1>1, <2>1 DEF CopyPC, CallOK
  <2>3. Range(held[t]) \subseteq Desc
    <3>1. held[t] \in Seq(Desc)
      BY <1>1 DEF Types
    <3> QED
      BY <3>1 DEF Range
  <2>4. spoilt \subseteq spoilt' /\ spoilt' \subseteq Desc
    BY <1>1, <2>1, <2>3 DEF Types
  <2> QED
    BY <2>1, <2>2, <2>4, LeaveShape
<1> QED
  BY <1>2, <1>3

\* Every step keeps what the calls rely on.
LEMMA ShapeStep == Shape /\ [Next]_vars => Shape'
<1> SUFFICES ASSUME Shape, [Next]_vars
             PROVE  Shape'
  OBVIOUS
<1>1. CASE UNCHANGED vars
  <2>1. /\ fds' = fds /\ users' = users /\ tab' = tab /\ pc' = pc /\ held' = held
        /\ sys' = sys /\ old' = old /\ oldFD' = oldFD /\ newFD' = newFD
        /\ alone' = alone /\ spoilt' = spoilt
    BY <1>1 DEF vars, tableVars, ptrVars, ghostVars
  <2>2. Types' /\ Tables'
    <3>1. \A p : Of(p)' = Of(p)
      BY <2>1 DEF Of
    <3> QED
      BY <2>1, <3>1 DEF Shape, Types, Tables
  <2>3. ASSUME NEW t \in Thread
        PROVE  CallOK(t)'
    <3>1. CallOK(t)
      BY DEF Shape
    <3>2. AloneOK(t)' <=> AloneOK(t)
      BY <2>1 DEF AloneOK
    <3> QED
      BY <2>1, <3>1, <3>2 DEF CallOK
  <2> QED
    BY <2>2, <2>3 DEF Shape
<1>2. CASE Next
  <2>1. PICK t \in Thread :
          \/ \E d \in Desc : Open(t, <<d>>)
          \/ \E d, e \in Desc : Open(t, <<d, e>>)
          \/ ExecClose(t) \/ ThreadAddFileDescriptor(t) \/ UseReturn(t)
          \/ \E i \in Fd : ThreadGetSystemFileDescriptor(t, i) \/ ThreadCloseFileDescriptor(t, i)
          \/ \E i, j \in Fd : ReplaceFind(t, i, j)
          \/ ReplaceInvalid(t) \/ ReplaceValid(t) \/ ReplaceInsert(t)
          \/ CopyEmpty(t) \/ CopyFill(t) \/ CopyAddRef(t) \/ CopySame(t) \/ CopyClose(t)
          \/ CloseStore(t) \/ CopyCount(t) \/ CopyAssign(t)
          \/ \E u \in Thread : CloneShare(t, u) \/ \E q \in Table : CloneFork(t, u, q)
          \/ ThreadExit(t) \/ PipeFault(t)
    BY <1>2 DEF Next
  <2>2. ASSUME NEW d \in Desc, Open(t, <<d>>)
        PROVE  Shape'
    <3>1. PICK s : s = <<d>>
      OBVIOUS
    <3>2. s \in Seq(Desc) /\ Len(s) \in 1 .. 2 /\ Open(t, s)
      BY <2>2, <3>1
    <3> QED
      BY <3>2, OpenShape
  <2>3. ASSUME NEW d \in Desc, NEW e \in Desc, Open(t, <<d, e>>)
        PROVE  Shape'
    <3>1. PICK s : s = <<d, e>>
      OBVIOUS
    <3>2. s \in Seq(Desc) /\ Len(s) \in 1 .. 2 /\ Open(t, s)
      BY <2>3, <3>1
    <3> QED
      BY <3>2, OpenShape
  <2> QED
    BY <2>1, <2>2, <2>3, ExecShape, AddShape, UseReturnShape, GetShape, CloseShape, FindShape,
       LookedShape, ValidShape, NewEntryShape, ReadsShape, FillShape, StoreShape, AssignShape,
       ShareShape, ForkShape, ExitShape
<1> QED
  BY <1>1, <1>2

\* Nothing that the calls rely on is lost, whatever the other threads do.
THEOREM ShapeInductive == Spec => []Shape
BY ShapeInit, ShapeStep, PTL DEF Spec
-------------------------------------------------------------------------------
\* How often d is counted for.
Total(d) == Cardinality(Names(d)) + Cardinality(Opening(d)) + Cardinality(Counting(d))

\* The count of d is exact, and d exists exactly as long as it is not 0.
CountOK(d) ==
  /\ refCount[d] = Total(d)
  /\ d \in live <=> refCount[d] # 0

\* What the counts are between two steps.
Counts ==
  /\ live \subseteq Desc
  /\ refCount \in [Desc -> Nat]
  /\ reg \in [Thread -> Nat]
  /\ \A d \in Desc \ spoilt : CountOK(d)

\* Place k of table p counts for d.
Named(p, k, d) ==
  /\ k \in DOMAIN fds[p] /\ fds[p][k].desc = d
  /\ \A u \in Thread : ~Unsettled(u, p, k)

\* Two sets of pairs are equal if they have the same pairs.
LEMMA PairsEqual ==
  ASSUME NEW S, NEW T, NEW X, NEW Y, X \subseteq S \X T, Y \subseteq S \X T,
         \A p \in S, k \in T : <<p, k>> \in X <=> <<p, k>> \in Y
  PROVE  X = Y
OBVIOUS

\* Pairs are equal in both parts.
LEMMA PairParts ==
  ASSUME NEW a, NEW b, NEW c, NEW d, <<a, b>> = <<c, d>>
  PROVE  a = c /\ b = d
OBVIOUS

\* The places that count for d.
LEMMA NamesAre ==
  Shape => \A d \in Desc :
    /\ Names(d) \subseteq Table \X (1 .. MaxEntries)
    /\ \A p \in Table, k \in 1 .. MaxEntries : <<p, k>> \in Names(d) <=> Named(p, k, d)
    /\ \A p \in Table : \A k : Named(p, k, d) => k \in 1 .. MaxEntries /\ <<p, k>> \in Names(d)
<1> SUFFICES ASSUME Shape, NEW d \in Desc
             PROVE  /\ Names(d) \subseteq Table \X (1 .. MaxEntries)
                    /\ \A p \in Table, k \in 1 .. MaxEntries :
                         <<p, k>> \in Names(d) <=> Named(p, k, d)
                    /\ \A p \in Table : \A k : Named(p, k, d) =>
                         k \in 1 .. MaxEntries /\ <<p, k>> \in Names(d)
  OBVIOUS
<1>1. d # None
  BY DescriptorsAssumption
<1>2. ASSUME NEW p \in Table, NEW k \in 1 .. MaxEntries
      PROVE  <<p, k>> \in Names(d) <=> Named(p, k, d)
  BY <1>1 DEF Names, Named, Settled
<1>3. ASSUME NEW p \in Table, NEW k, Named(p, k, d)
      PROVE  k \in 1 .. MaxEntries
  <2>1. fds[p] \in Seq(Entry) /\ Len(fds[p]) <= MaxEntries /\ k \in DOMAIN fds[p]
    BY <1>3 DEF Shape, Types, Tables, Named
  <2> QED
    BY <2>1, DescriptorsAssumption
<1>4. Names(d) \subseteq Table \X (1 .. MaxEntries)
  BY DEF Names
<1> QED
  BY <1>2, <1>3, <1>4

\* What is counted is finite.
LEMMA CountsFinite ==
  Shape => \A d \in Desc :
    /\ IsFiniteSet(Names(d)) /\ IsFiniteSet(Opening(d)) /\ IsFiniteSet(Counting(d))
    /\ Cardinality(Names(d)) \in Nat /\ Cardinality(Opening(d)) \in Nat
    /\ Cardinality(Counting(d)) \in Nat
<1> SUFFICES ASSUME Shape, NEW d \in Desc
             PROVE  IsFiniteSet(Names(d)) /\ IsFiniteSet(Opening(d)) /\ IsFiniteSet(Counting(d))
  BY FS_CardinalityType
<1> USE DescriptorsAssumption
<1>1. IsFiniteSet(Names(d))
  <2>1. IsFiniteSet(1 .. MaxEntries)
    BY FS_Interval
  <2>2. IsFiniteSet(Table \X (1 .. MaxEntries))
    BY <2>1, FS_Product
  <2>3. Names(d) \in SUBSET (Table \X (1 .. MaxEntries))
    BY DEF Names
  <2> QED
    BY <2>2, <2>3, FS_Subset
<1>2. IsFiniteSet(Opening(d))
  <2>1. IsFiniteSet({1, 2})
    <3>1. {1, 2} = {1} \cup {2}
      OBVIOUS
    <3>2. IsFiniteSet({1})
      BY FS_Singleton
    <3>3. IsFiniteSet({1} \cup {2})
      BY <3>2, FS_AddElement
    <3> QED
      BY <3>1, <3>3
  <2>2. IsFiniteSet(Thread \X {1, 2})
    BY <2>1, FS_Product
  <2>3. Opening(d) \in SUBSET (Thread \X {1, 2})
    BY DEF Opening
  <2> QED
    BY <2>2, <2>3, FS_Subset
<1>3. IsFiniteSet(Counting(d))
  BY FS_Subset DEF Counting
<1> QED
  BY <1>1, <1>2, <1>3

\* The places that count, and that they are finitely many, are known in each state.
NamesKnown ==
  \A d \in Desc :
    /\ Names(d) \subseteq Table \X (1 .. MaxEntries)
    /\ \A p \in Table, k \in 1 .. MaxEntries : <<p, k>> \in Names(d) <=> Named(p, k, d)
    /\ \A p \in Table : \A k : Named(p, k, d) => k \in 1 .. MaxEntries /\ <<p, k>> \in Names(d)
    /\ IsFiniteSet(Names(d)) /\ IsFiniteSet(Opening(d)) /\ IsFiniteSet(Counting(d))
    /\ Cardinality(Names(d)) \in Nat /\ Cardinality(Opening(d)) \in Nat
    /\ Cardinality(Counting(d)) \in Nat

\* They are known from the tables.
LEMMA KnownNow == Shape => NamesKnown
BY NamesAre, CountsFinite, Zenon DEF NamesKnown

\* So they are after a step.
LEMMA KnownNext == Shape' => NamesKnown'
BY KnownNow, PTL

\* The places that count for d after a step.
LEMMA NamesNext ==
  ASSUME Shape', NEW d \in Desc
  PROVE  /\ Names(d)' \subseteq Table \X (1 .. MaxEntries)
         /\ \A p \in Table, k \in 1 .. MaxEntries : <<p, k>> \in Names(d)' <=> Named(p, k, d)'
         /\ \A p \in Table : \A k : Named(p, k, d)' =>
              k \in 1 .. MaxEntries /\ <<p, k>> \in Names(d)'
BY KnownNext, Zenon DEF NamesKnown

\* What is counted is finite after a step, too.
LEMMA FiniteNext ==
  ASSUME Shape', NEW d \in Desc
  PROVE  /\ IsFiniteSet(Names(d)') /\ IsFiniteSet(Opening(d)') /\ IsFiniteSet(Counting(d)')
         /\ Cardinality(Names(d)') \in Nat /\ Cardinality(Opening(d)') \in Nat
         /\ Cardinality(Counting(d)') \in Nat
BY KnownNext, Zenon DEF NamesKnown

\* A step that leaves every place with what it counts for.
LEMMA NamesSame ==
  ASSUME Shape, Shape', NEW d \in Desc,
         \A p \in Table : \A k : Named(p, k, d)' <=> Named(p, k, d)
  PROVE  Names(d)' = Names(d)
<1>1. \A p \in Table, k \in 1 .. MaxEntries : <<p, k>> \in Names(d)' <=> <<p, k>> \in Names(d)
  BY NamesAre, NamesNext
<1>2. Names(d)' \subseteq Table \X (1 .. MaxEntries) /\ Names(d) \subseteq Table \X (1 .. MaxEntries)
  BY NamesAre, NamesNext
<1> QED
  BY <1>1, <1>2, PairsEqual

\* A step by which place k of table p begins to count for d.
LEMMA NamesGain ==
  ASSUME Shape, Shape', NEW d \in Desc, NEW p \in Table, NEW k,
         ~Named(p, k, d), Named(p, k, d)',
         \A r \in Table : \A j : r # p \/ j # k => (Named(r, j, d)' <=> Named(r, j, d))
  PROVE  Cardinality(Names(d)') = Cardinality(Names(d)) + 1
<1>1. k \in 1 .. MaxEntries /\ <<p, k>> \in Names(d)' /\ <<p, k>> \notin Names(d)
  BY NamesAre, NamesNext
<1>2. \A r \in Table, j \in 1 .. MaxEntries :
        <<r, j>> \in Names(d)' <=> <<r, j>> \in Names(d) \cup {<<p, k>>}
  BY <1>1, NamesAre, NamesNext
<1>3. /\ Names(d)' \subseteq Table \X (1 .. MaxEntries)
      /\ Names(d) \cup {<<p, k>>} \subseteq Table \X (1 .. MaxEntries)
  BY <1>1, NamesAre, NamesNext
<1>4. Names(d)' = Names(d) \cup {<<p, k>>}
  BY <1>2, <1>3, PairsEqual
<1>5. IsFiniteSet(Names(d))
  BY CountsFinite
<1> QED
  BY <1>1, <1>4, <1>5, FS_AddElement

\* A step by which it ceases to.
LEMMA NamesLoss ==
  ASSUME Shape, Shape', NEW d \in Desc, NEW p \in Table, NEW k,
         Named(p, k, d), ~Named(p, k, d)',
         \A r \in Table : \A j : r # p \/ j # k => (Named(r, j, d)' <=> Named(r, j, d))
  PROVE  Cardinality(Names(d)') = Cardinality(Names(d)) - 1
<1>1. k \in 1 .. MaxEntries /\ <<p, k>> \in Names(d) /\ <<p, k>> \notin Names(d)'
  BY NamesAre, NamesNext
<1>2. \A r \in Table, j \in 1 .. MaxEntries :
        <<r, j>> \in Names(d)' <=> <<r, j>> \in Names(d) \ {<<p, k>>}
  BY <1>1, NamesAre, NamesNext
<1>3. /\ Names(d)' \subseteq Table \X (1 .. MaxEntries)
      /\ Names(d) \ {<<p, k>>} \subseteq Table \X (1 .. MaxEntries)
  BY <1>1, NamesAre, NamesNext
<1>4. Names(d)' = Names(d) \ {<<p, k>>}
  BY <1>2, <1>3, PairsEqual
<1>5. IsFiniteSet(Names(d))
  BY CountsFinite
<1> QED
  BY <1>1, <1>4, <1>5, FS_RemoveElement

\* Init has no counts.
LEMMA CountsInit == Init => Counts
<1> SUFFICES ASSUME Init
             PROVE  Counts
  OBVIOUS
<1>1. ASSUME NEW d \in Desc
      PROVE  CountOK(d)
  <2>1. Names(d) = {}
    BY DEF Names, Settled, Init
  <2>2. Opening(d) = {}
    BY DEF Opening, Init
  <2>3. Counting(d) = {}
    BY DEF Counting, Init
  <2> QED
    BY <2>1, <2>2, <2>3, FS_EmptySet DEF CountOK, Total, Init
<1>2. live \subseteq Desc /\ refCount \in [Desc -> Nat] /\ reg \in [Thread -> Nat]
  BY DEF Init
<1> QED
  BY <1>1, <1>2 DEF Counts

\* What the parts of a count come to.
LEMMA TotalIs ==
  ASSUME Shape, NEW d \in Desc
  PROVE  /\ Total(d) \in Nat
         /\ Names(d) # {} => Total(d) # 0
         /\ Opening(d) # {} => Total(d) # 0
         /\ Total(d) = 0 => Names(d) = {} /\ Opening(d) = {} /\ Counting(d) = {}
<1>1. PICK a, b, c : /\ a = Cardinality(Names(d)) /\ b = Cardinality(Opening(d))
                     /\ c = Cardinality(Counting(d))
  OBVIOUS
<1>2. /\ a \in Nat /\ b \in Nat /\ c \in Nat
      /\ a = 0 <=> Names(d) = {}
      /\ b = 0 <=> Opening(d) = {}
      /\ c = 0 <=> Counting(d) = {}
  BY <1>1, CountsFinite, FS_EmptySet
<1>3. Total(d) = a + b + c
  BY <1>1 DEF Total
<1> QED
  BY <1>2, <1>3

\* An entry that counts, or a call that holds it, keeps a descriptor alive.
LEMMA NamedLives ==
  ASSUME Shape, Counts, NEW d \in Desc \ spoilt,
         Opening(d) # {} \/ \E p \in Table : \E k : Named(p, k, d)
  PROVE  d \in live /\ refCount[d] = Total(d) /\ refCount[d] \in Nat \ {0}
<1>1. Names(d) # {} \/ Opening(d) # {}
  BY NamesAre
<1> QED
  BY <1>1, TotalIs DEF Counts, CountOK

\* The counts are exact after a step that moves them with what counts.
LEMMA CountsFollow ==
  ASSUME Shape', live' \subseteq Desc, reg' \in [Thread -> Nat], refCount' \in [Desc -> Nat],
         \A x \in Desc \ spoilt' : refCount'[x] = Total(x)' /\ (x \in live' <=> refCount'[x] # 0)
  PROVE  Counts'
BY DEF Counts, CountOK

\* They are if f has them and L what exists.
LEMMA RecountStep ==
  ASSUME Shape', NEW L, NEW f, L \subseteq Desc, Recount(L, f), reg' \in [Thread -> Nat],
         \A x \in Desc \ spoilt' :
           f[x] = Total(x)' /\ f[x] \in Nat /\ (x \in L <=> f[x] # 0)
  PROVE  Counts'
<1>1. live' = L \ spoilt' /\ refCount' = [d \in Desc |-> IF d \in spoilt' THEN 0 ELSE f[d]]
  BY DEF Recount
<1>2. refCount' \in [Desc -> Nat]
  BY <1>1
<1> QED
  BY <1>1, <1>2, CountsFollow

\* They stay so if what counts for each descriptor stays as much.
LEMMA SameCounts ==
  ASSUME Shape', Counts, live' = live, refCount' = refCount, spoilt' = spoilt,
         reg' \in [Thread -> Nat], \A x \in Desc \ spoilt : Total(x)' = Total(x)
  PROVE  Counts'
BY CountsFollow DEF Counts, CountOK

One(b) == IF b THEN 1 ELSE 0

\* The calls that count for d change by t only.
LEMMA CountingStep ==
  ASSUME Shape, Shape', NEW t \in Thread, NEW d \in Desc,
         \A u \in Thread \ {t} : pc'[u] = pc[u] /\ sys'[u] = sys[u]
  PROVE  Cardinality(Counting(d)') = Cardinality(Counting(d)) + One(t \in Counting(d)')
                                       - One(t \in Counting(d))
<1>1. PICK A, B : A = Counting(d) /\ B = Counting(d)'
  OBVIOUS
<1>2. \A u \in Thread \ {t} : u \in B <=> u \in A
  BY <1>1 DEF Counting
<1>3. A \subseteq Thread /\ B \subseteq Thread
  BY <1>1 DEF Counting
<1>4. IsFiniteSet(A) /\ IsFiniteSet(B) /\ Cardinality(A) \in Nat /\ Cardinality(B) \in Nat
  BY <1>1, CountsFinite, FiniteNext
<1>5. CASE t \in A <=> t \in B
  <2>1. A = B
    BY <1>2, <1>3, <1>5
  <2> QED
    BY <1>1, <1>4, <2>1 DEF One
<1>6. CASE t \in A /\ t \notin B
  <2>1. B = A \ {t}
    BY <1>2, <1>3, <1>6
  <2> QED
    BY <1>1, <1>4, <1>6, <2>1, FS_RemoveElement DEF One
<1>7. CASE t \notin A /\ t \in B
  <2>1. B = A \cup {t}
    BY <1>2, <1>3, <1>7
  <2> QED
    BY <1>1, <1>4, <1>7, <2>1, FS_AddElement DEF One
<1> QED
  BY <1>5, <1>6, <1>7

\* The count of d when a step of t changes place k of table p and what t counts for.
LEMMA TotalStep ==
  ASSUME Shape, Shape', NEW t \in Thread, NEW d \in Desc, NEW p \in Table, NEW k,
         held' = held, \A u \in Thread \ {t} : pc'[u] = pc[u] /\ sys'[u] = sys[u],
         \A r \in Table : \A j : r # p \/ j # k => (Named(r, j, d)' <=> Named(r, j, d))
  PROVE  Total(d)' = Total(d) + One(Named(p, k, d)') - One(Named(p, k, d))
                              + One(t \in Counting(d)') - One(t \in Counting(d))
<1>1. Opening(d)' = Opening(d)
  BY DEF Opening
<1>2. Cardinality(Names(d)') = Cardinality(Names(d)) + One(Named(p, k, d)') - One(Named(p, k, d))
  <2>1. CASE Named(p, k, d)' <=> Named(p, k, d)
    <3>1. \A r \in Table : \A j : Named(r, j, d)' <=> Named(r, j, d)
      BY <2>1
    <3>2. Names(d)' = Names(d)
      BY <3>1, NamesSame
    <3>3. Cardinality(Names(d)) \in Nat
      BY CountsFinite
    <3> QED
      BY <2>1, <3>2, <3>3 DEF One
  <2>2. CASE ~Named(p, k, d)' /\ Named(p, k, d)
    <3>1. Cardinality(Names(d)') = Cardinality(Names(d)) - 1
      BY <2>2, NamesLoss
    <3>3. Cardinality(Names(d)) \in Nat
      BY CountsFinite
    <3> QED
      BY <2>2, <3>1, <3>3 DEF One
  <2>3. CASE Named(p, k, d)' /\ ~Named(p, k, d)
    <3>1. Cardinality(Names(d)') = Cardinality(Names(d)) + 1
      BY <2>3, NamesGain
    <3>3. Cardinality(Names(d)) \in Nat
      BY CountsFinite
    <3> QED
      BY <2>3, <3>1, <3>3 DEF One
  <2> QED
    BY <2>1, <2>2, <2>3
<1>3. Cardinality(Counting(d)') = Cardinality(Counting(d)) + One(t \in Counting(d)')
                                       - One(t \in Counting(d))
  BY CountingStep
<1>4. \A b : One(b) \in Int
  BY DEF One
<1>5. /\ Cardinality(Names(d)) \in Nat /\ Cardinality(Opening(d)) \in Nat
      /\ Cardinality(Counting(d)) \in Nat
  BY CountsFinite
<1> HIDE DEF One
<1>6. PICK a, b, c, e1, e2, e3, e4 :
        /\ a = Cardinality(Names(d)) /\ b = Cardinality(Opening(d)) /\ c = Cardinality(Counting(d))
        /\ e1 = One(Named(p, k, d)') /\ e2 = One(Named(p, k, d))
        /\ e3 = One(t \in Counting(d)') /\ e4 = One(t \in Counting(d))
  OBVIOUS
<1>7. Total(d) = a + b + c /\ Total(d)' = (a + e1 - e2) + b + (c + e3 - e4)
  BY <1>1, <1>2, <1>3, <1>6 DEF Total
<1>8. /\ a \in Nat /\ b \in Nat /\ c \in Nat
      /\ e1 \in Int /\ e2 \in Int /\ e3 \in Int /\ e4 \in Int
  BY <1>4, <1>5, <1>6
<1>9. Total(d)' = Total(d) + e1 - e2 + e3 - e4
  BY <1>7, <1>8
<1> QED
  BY <1>6, <1>9

\* copyfd has closed what an entry names, or has not counted it yet.
Half == {"closed", "counted", "addref"}

\* In its table a call finds every entry counted but the one it is at work on.
NamedKnown ==
  \A t \in Thread : tab[t] # None => \A k, d :
    Named(tab[t], k, d) <=> /\ k \in DOMAIN fds[tab[t]] /\ fds[tab[t]][k].desc = d
                            /\ ~(t \in alone /\ k = oldFD[t] /\ pc[t] \in Half)

\* Nobody else is at work in the table of a call that began alone.
LEMMA NamedNow == Shape => NamedKnown
<1> SUFFICES ASSUME Shape, NEW t \in Thread, tab[t] # None, NEW k, NEW d
             PROVE  Named(tab[t], k, d) <=>
                      /\ k \in DOMAIN fds[tab[t]] /\ fds[tab[t]][k].desc = d
                      /\ ~(t \in alone /\ k = oldFD[t] /\ pc[t] \in Half)
  BY DEF NamedKnown
<1>1. \A u \in alone : u \in Thread /\ AloneOK(u)
  BY DEF Shape, Types, CallOK
<1>2. \A u \in Thread : Unsettled(u, tab[t], k) <=>
        u = t /\ t \in alone /\ k = oldFD[t] /\ pc[t] \in Half
  BY <1>1 DEF Unsettled, AloneOK, Half
<1> QED
  BY <1>2 DEF Named

\* So it is after a step.
LEMMA NamedNext == Shape' => NamedKnown'
BY NamedNow, PTL

\* What t finds in place k of its table.
LEMMA NamedAt ==
  ASSUME Shape, NEW t \in Thread, tab[t] # None \/ pc[t] # "idle", NEW k, NEW d
  PROVE  Named(tab[t], k, d) <=> /\ k \in DOMAIN fds[tab[t]] /\ fds[tab[t]][k].desc = d
                                 /\ ~(t \in alone /\ k = oldFD[t] /\ pc[t] \in Half)
<1>1. tab[t] # None
  BY InTable
<1> QED
  BY <1>1, NamedNow, Zenon DEF NamedKnown

\* What it finds there after a step in which it stays in the table.
LEMMA NamedThen ==
  ASSUME Shape', NEW t \in Thread, tab' = tab, tab[t] # None, NEW k, NEW d
  PROVE  Named(tab[t], k, d)' <=> /\ k \in DOMAIN fds'[tab[t]] /\ fds'[tab[t]][k].desc = d
                                  /\ ~(t \in alone' /\ k = oldFD'[t] /\ pc'[t] \in Half)
<1>1. PICK p : p = tab[t]
  OBVIOUS
<1>2. tab'[t] = p /\ p # None
  BY <1>1
<1>3. \A j, e : Named(p, j, e)' <=> /\ j \in DOMAIN fds'[p] /\ fds'[p][j].desc = e
                                    /\ ~(t \in alone' /\ j = oldFD'[t] /\ pc'[t] \in Half')
  <2>1. NamedKnown'
    BY NamedNext
  <2> QED
    BY <1>2, <2>1 DEF NamedKnown, Named, Unsettled
<1>4. Half' = Half
  BY DEF Half
<1> QED
  BY <1>1, <1>3, <1>4 DEF Named, Unsettled

\* A step of t that changes at most entry o of its table, where its copyfd works.
Works(t, o) ==
  /\ tab' = tab /\ held' = held
  /\ \A u \in Thread \ {t} : /\ pc'[u] = pc[u] /\ sys'[u] = sys[u] /\ oldFD'[u] = oldFD[u]
                             /\ u \in alone' <=> u \in alone
  /\ \A r \in Table \ {tab[t]} : fds'[r] = fds[r]
  /\ DOMAIN fds'[tab[t]] = DOMAIN fds[tab[t]]
  /\ \A j \in DOMAIN fds[tab[t]] : j # o => fds'[tab[t]][j].desc = fds[tab[t]][j].desc
  /\ oldFD[t] = o \/ pc[t] \notin Half
  /\ oldFD'[t] = o \/ pc'[t] \notin Half

\* What it does to the count of a descriptor.
LEMMA WorkStep ==
  ASSUME Shape, Shape', NEW t \in Thread, tab[t] # None \/ pc[t] # "idle", NEW o, Works(t, o),
         NEW d \in Desc
  PROVE  Total(d)' = Total(d) + One(Named(tab[t], o, d)') - One(Named(tab[t], o, d))
                              + One(t \in Counting(d)') - One(t \in Counting(d))
<1>1. tab[t] \in Table /\ tab[t] # None
  BY InTable
<1>2. PICK p : p = tab[t]
  OBVIOUS
<1>3. ASSUME NEW j, j # o
      PROVE  Named(p, j, d)' <=> Named(p, j, d)
  <2>1. Named(p, j, d) <=> j \in DOMAIN fds[p] /\ fds[p][j].desc = d
    <3>1. Named(tab[t], j, d) <=> /\ j \in DOMAIN fds[tab[t]] /\ fds[tab[t]][j].desc = d
                                  /\ ~(t \in alone /\ j = oldFD[t] /\ pc[t] \in Half)
      BY NamedAt
    <3> QED
      BY <1>2, <1>3, <3>1 DEF Works
  <2>2. Named(p, j, d)' <=> j \in DOMAIN fds'[p] /\ fds'[p][j].desc = d
    <3>1. Named(tab[t], j, d)' <=> /\ j \in DOMAIN fds'[tab[t]] /\ fds'[tab[t]][j].desc = d
                                   /\ ~(t \in alone' /\ j = oldFD'[t] /\ pc'[t] \in Half)
      BY <1>1, NamedThen DEF Works
    <3>2. Named(tab[t], j, d)' <=> Named(p, j, d)'
      BY <1>2 DEF Named, Unsettled, Works
    <3> QED
      BY <1>2, <1>3, <3>1, <3>2 DEF Works
  <2> QED
    BY <1>2, <1>3, <2>1, <2>2 DEF Works
<1>4. ASSUME NEW r \in Table, r # p, NEW j
      PROVE  Named(r, j, d)' <=> Named(r, j, d)
  <2>1. \A u \in Thread : Unsettled(u, r, j)' <=> Unsettled(u, r, j)
    BY <1>2, <1>4 DEF Unsettled, Works
  <2> QED
    BY <1>2, <1>4, <2>1 DEF Named, Works
<1>5. Total(d)' = Total(d) + One(Named(p, o, d)') - One(Named(p, o, d))
                           + One(t \in Counting(d)') - One(t \in Counting(d))
  BY <1>1, <1>2, <1>3, <1>4, TotalStep DEF Works
<1>6. Named(tab[t], o, d)' <=> Named(p, o, d)'
  BY <1>2 DEF Named, Unsettled, Works
<1> QED
  BY <1>2, <1>5, <1>6 DEF One

\* A step of t that neither writes to its table nor counts.
LEMMA LookStep ==
  ASSUME Shape, Shape', NEW t \in Thread, tab[t] # None \/ pc[t] # "idle", Works(t, 0),
         fds' = fds, pc[t] \notin Half, pc'[t] \notin Half, NEW d \in Desc
  PROVE  Total(d)' = Total(d)
<1>1. tab[t] # None /\ DOMAIN fds[tab[t]] = 1 .. Len(fds[tab[t]])
  BY InTable
<1>2. Total(d)' = Total(d) + One(Named(tab[t], 0, d)') - One(Named(tab[t], 0, d))
                           + One(t \in Counting(d)') - One(t \in Counting(d))
  BY WorkStep
<1>3. ~Named(tab[t], 0, d)
  BY <1>1 DEF Named
<1>4. ~Named(tab[t], 0, d)'
  BY <1>1 DEF Named, Works
<1>5. t \notin Counting(d) /\ t \notin Counting(d)'
  BY DEF Counting, Half
<1>6. Total(d) \in Nat
  BY TotalIs
<1> QED
  BY <1>2, <1>3, <1>4, <1>5, <1>6 DEF One

\* Steps that only look.
LEMMA LookCounts ==
  ASSUME Shape, Shape', Counts, NEW t \in Thread,
         \/ \E i \in Fd : ThreadGetSystemFileDescriptor(t, i)
         \/ UseReturn(t)
         \/ \E i, j \in Fd : ReplaceFind(t, i, j)
         \/ ReplaceInvalid(t) \/ ReplaceValid(t) \/ CopySame(t)
  PROVE  Counts'
<1>1. Types
  BY DEF Shape
<1>2. ASSUME tab[t] # None \/ pc[t] # "idle", pc[t] \notin Half, pc'[t] \notin Half,
             UNCHANGED <<descVars, tableVars, held, reg, spoilt>>,
             \A u \in Thread \ {t} : /\ pc'[u] = pc[u] /\ sys'[u] = sys[u] /\ oldFD'[u] = oldFD[u]
                                     /\ u \in alone' <=> u \in alone
      PROVE  Counts'
  <2>1. Works(t, 0) /\ fds' = fds
    BY <1>2 DEF Works, tableVars
  <2>2. \A x \in Desc : Total(x)' = Total(x)
    BY <1>2, <2>1, LookStep
  <2>3. reg' \in [Thread -> Nat]
    BY <1>2 DEF Counts
  <2> QED
    BY <1>2, <2>2, <2>3, SameCounts DEF descVars
<1>3. ASSUME NEW i \in Fd, ThreadGetSystemFileDescriptor(t, i)
      PROVE  Counts'
  <2>1. /\ tab[t] # None /\ pc[t] = "idle" /\ pc'[t] = "use"
        /\ UNCHANGED <<descVars, tableVars, held, reg, spoilt>>
        /\ \A u \in Thread \ {t} : pc'[u] = pc[u] /\ sys'[u] = sys[u] /\ oldFD'[u] = oldFD[u]
    BY <1>1, <1>3 DEF ThreadGetSystemFileDescriptor, Idle, Set, Types, ptrVars
  <2>2. \A u \in Thread \ {t} : u \in alone' <=> u \in alone
    BY <1>3, <2>1, BeginAlone DEF ThreadGetSystemFileDescriptor
  <2> QED
    BY <1>2, <2>1, <2>2 DEF Half
<1>4. CASE UseReturn(t)
  BY <1>1, <1>2, <1>4 DEF UseReturn, Set, Types, Half, ptrVars
<1>5. ASSUME NEW i \in Fd, NEW j \in Fd, ReplaceFind(t, i, j)
      PROVE  Counts'
  <2>1. /\ tab[t] # None /\ pc[t] = "idle" /\ pc'[t] = "replace"
        /\ UNCHANGED <<descVars, tableVars, held, reg, spoilt>>
        /\ \A u \in Thread \ {t} : pc'[u] = pc[u] /\ sys'[u] = sys[u] /\ oldFD'[u] = oldFD[u]
    BY <1>1, <1>5 DEF ReplaceFind, Idle, Set, Types
  <2>2. \A u \in Thread \ {t} : u \in alone' <=> u \in alone
    BY <1>5, <2>1, BeginAlone DEF ReplaceFind
  <2> QED
    BY <1>2, <2>1, <2>2 DEF Half
<1>6. CASE ReplaceInvalid(t) \/ CopySame(t)
  <2>1. pc[t] \in {"replace", "copy"} /\ UNCHANGED <<descVars, tableVars, held, reg, spoilt>>
    BY <1>6 DEF ReplaceInvalid, CopySame
  <2>2. /\ pc'[t] = "idle"
        /\ \A u \in Thread \ {t} : /\ pc'[u] = pc[u] /\ sys'[u] = sys[u] /\ oldFD'[u] = oldFD[u]
                                   /\ u \in alone' <=> u \in alone
    BY <1>1, <1>6 DEF ReplaceInvalid, CopySame, ReplaceReturn, Set, Types
  <2> QED
    BY <1>2, <2>1, <2>2 DEF Half
<1>7. CASE ReplaceValid(t)
  <2>1. /\ pc[t] = "replace" /\ UNCHANGED <<descVars, tableVars, held, reg, spoilt>>
        /\ sys' = sys /\ alone' = alone
    BY <1>7 DEF ReplaceValid, ghostVars
  <2>2. /\ pc'[t] \in {"copy", "insert"}
        /\ \A u \in Thread \ {t} : pc'[u] = pc[u] /\ oldFD'[u] = oldFD[u]
    BY <1>1, <1>7 DEF ReplaceValid, Set, Types
  <2> QED
    BY <1>2, <2>1, <2>2 DEF Half
<1> QED
  BY <1>3, <1>4, <1>5, <1>6, <1>7

\* copyfd reads what it copies, or the count of what it closes.
LEMMA ReadCounts ==
  ASSUME Shape, Shape', Counts, NEW t \in Thread, CopyEmpty(t) \/ CopyClose(t)
  PROVE  Counts'
<1>1. Types /\ CallOK(t)
  BY DEF Shape
<1>2. /\ pc[t] = "copy" /\ fds' = fds /\ tab' = tab /\ held' = held /\ oldFD' = oldFD
      /\ alone' = alone /\ Recount(live, refCount)
  BY DEF CopyEmpty, CopyClose, tableVars, Recount
<1>3. /\ pc'[t] \in {"fill", "store"}
      /\ \A u \in Thread \ {t} : pc'[u] = pc[u] /\ sys'[u] = sys[u]
  BY <1>1 DEF CopyEmpty, CopyClose, Set, Types
<1>4. Works(t, 0)
  BY <1>2, <1>3 DEF Works, Half
<1>5. \A x \in Desc : Total(x)' = Total(x)
  BY <1>2, <1>3, <1>4, LookStep DEF Half
<1>6. spoilt \subseteq spoilt'
  BY SpoilFacts DEF CopyEmpty, CopyClose
<1>7. PICK L, f : L = live /\ f = refCount
  OBVIOUS
<1>8. \A x \in Desc \ spoilt' : f[x] = Total(x)' /\ f[x] \in Nat /\ (x \in L <=> f[x] # 0)
  BY <1>5, <1>6, <1>7 DEF Counts, CountOK
<1>9. reg' \in [Thread -> Nat]
  <2>1. CASE CopyEmpty(t)
    BY <2>1 DEF CopyEmpty, Counts
  <2>2. CASE CopyClose(t)
    <3>1. PICK d \in Desc : reg' = [reg EXCEPT ![t] = refCount'[d]]
      BY <2>2 DEF CopyClose, Set
    <3>2. refCount'[d] \in Nat
      BY <1>2 DEF Recount, Counts
    <3> QED
      BY <3>1, <3>2 DEF Counts
  <2> QED
    BY <2>1, <2>2
<1>10. L \subseteq Desc /\ Recount(L, f)
  BY <1>2, <1>7 DEF Counts, Recount
<1> QED
  BY <1>8, <1>9, <1>10, RecountStep

\* copyfd fills an empty entry; it does not count yet.
LEMMA FillCounts ==
  ASSUME Shape, Shape', Counts, NEW t \in Thread, CopyFill(t)
  PROVE  Counts'
<1>1. Types /\ CallOK(t)
  BY DEF Shape
<1>2. /\ pc[t] = "fill" /\ tab' = tab /\ held' = held /\ oldFD' = oldFD /\ sys' = sys
      /\ alone' = alone /\ Recount(live, refCount) /\ reg' = reg
      /\ Store(t, oldFD[t], sys[t]) /\ Spoil(t, oldFD[t], Overwritten(t, oldFD[t]))
      /\ pc' = [pc EXCEPT ![t] = "addref"]
  BY DEF CopyFill, ptrVars, Recount, Set
<1>3. pc'[t] = "addref" /\ \A u \in Thread \ {t} : pc'[u] = pc[u]
  BY <1>1, <1>2 DEF Types
<1>4. pc[t] # "idle" /\ pc[t] \in CopyPC \ {"replace"} /\ sys[t] \in Desc \cup {None}
  BY <1>1, <1>2 DEF CopyPC, Types
<1>5. PICK o, p, d : o = oldFD[t] /\ p = tab[t] /\ d = sys[t] /\ d \in Desc \cup {None}
  BY <1>4
<1>6. PICK m : fds' = [fds EXCEPT ![tab[t]] = m] /\ Assigned(fds[tab[t]], o, d, m)
  <2>1. Store(t, oldFD[t], d)
    BY <1>2, <1>5 DEF Store, Assign, Set
  <2> QED
    BY <1>4, <1>5, <2>1, StoreFacts
<1>7. p \in Table /\ tab[t] # None /\ fds \in [Table -> Seq(Entry)]
  BY <1>1, <1>4, <1>5, InTable DEF Types
<1>8. /\ DOMAIN fds'[p] = DOMAIN fds[p] /\ \A r \in Table \ {p} : fds'[r] = fds[r]
      /\ \A j \in DOMAIN fds[p] : fds'[p][j].desc = IF j = o THEN d ELSE fds[p][j].desc
  BY <1>5, <1>6, <1>7 DEF Assigned
<1>9. Works(t, o)
  BY <1>2, <1>3, <1>5, <1>8 DEF Works
<1>10. spoilt \subseteq spoilt'
  BY <1>2, SpoilFacts
<1>11. ASSUME NEW x \in Desc \ spoilt'
       PROVE  Total(x)' = Total(x)
  <2>1. Total(x)' = Total(x) + One(Named(tab[t], o, x)') - One(Named(tab[t], o, x))
                             + One(t \in Counting(x)') - One(t \in Counting(x))
    BY <1>4, <1>9, WorkStep
  <2>2. t \notin Counting(x) /\ t \notin Counting(x)'
    BY <1>2, <1>3 DEF Counting
  <2>3. ~Named(tab[t], o, x)
    <3>1. CASE t \in alone
      <4>1. fds[tab[t]][o].desc = None
        BY <1>1, <1>2, <1>5, <3>1 DEF CallOK, AloneOK
      <4> QED
        BY <4>1, DescriptorsAssumption DEF Named
    <3>2. CASE t \notin alone
      <4>1. Overwritten(t, oldFD[t]) \cap Desc \subseteq spoilt'
        BY <1>2, <3>2, SpoilFacts
      <4>2. o \in DOMAIN fds[tab[t]] => o # Dangling
        BY <1>4, InTable DEF Dangling
      <4> QED
        BY <1>5, <4>1, <4>2 DEF Named, Overwritten, Slot
    <3> QED
      BY <3>1, <3>2
  <2>4. ~Named(tab[t], o, x)'
    <3>1. Named(tab[t], o, x)' <=> /\ o \in DOMAIN fds'[tab[t]] /\ fds'[tab[t]][o].desc = x
                                   /\ ~(t \in alone' /\ o = oldFD'[t] /\ pc'[t] \in Half)
      BY <1>2, <1>7, NamedThen
    <3>2. CASE t \in alone
      BY <1>2, <1>3, <1>5, <3>1, <3>2 DEF Half
    <3>3. CASE t \notin alone
      <4>1. d \in spoilt \cup {None}
        BY <1>1, <1>2, <1>5, <3>3 DEF CallOK
      <4>2. d # x
        BY <1>10, <4>1, DescriptorsAssumption
      <4> QED
        BY <1>5, <1>8, <3>1, <4>2
    <3> QED
      BY <3>2, <3>3
  <2>5. Total(x) \in Nat
    BY TotalIs
  <2> QED
    BY <2>1, <2>2, <2>3, <2>4, <2>5 DEF One
<1>12. PICK L, f : L = live /\ f = refCount
  OBVIOUS
<1>13. \A x \in Desc \ spoilt' : f[x] = Total(x)' /\ f[x] \in Nat /\ (x \in L <=> f[x] # 0)
  BY <1>10, <1>11, <1>12 DEF Counts, CountOK
<1>14. L \subseteq Desc /\ Recount(L, f) /\ reg' \in [Thread -> Nat]
  BY <1>2, <1>12 DEF Counts, Recount
<1> QED
  BY <1>13, <1>14, RecountStep

\* copyfd counts the entry it has filled.
LEMMA AddRefCounts ==
  ASSUME Shape, Shape', Counts, NEW t \in Thread, CopyAddRef(t)
  PROVE  Counts'
<1>1. Types /\ CallOK(t)
  BY DEF Shape
<1>2. /\ pc[t] = "addref" /\ fds' = fds /\ tab' = tab /\ held' = held /\ spoilt' = spoilt
      /\ Recount(live, AddRef(sys[t])) /\ reg' = reg /\ ReplaceReturn(t)
  BY DEF CopyAddRef, tableVars, Recount
<1>3. /\ pc'[t] = "idle"
      /\ \A u \in Thread \ {t} : /\ pc'[u] = pc[u] /\ sys'[u] = sys[u] /\ oldFD'[u] = oldFD[u]
                                 /\ u \in alone' <=> u \in alone
  BY <1>1, <1>2 DEF ReplaceReturn, Set, Types
<1>4. pc[t] # "idle" /\ sys[t] \in Desc \cup {None} /\ tab[t] \in Table /\ tab[t] # None
  BY <1>1, <1>2, InTable DEF Types
<1>5. PICK o, d : o = oldFD[t] /\ d = sys[t]
  OBVIOUS
<1>6. Works(t, o)
  BY <1>2, <1>3, <1>5 DEF Works, Half
<1>7. PICK L, f : L = live /\ f = AddRef(d)
  OBVIOUS
<1>8. ASSUME NEW x \in Desc \ spoilt
      PROVE  f[x] = Total(x)' /\ f[x] \in Nat /\ (x \in L <=> f[x] # 0)
  <2>1. Total(x)' = Total(x) + One(Named(tab[t], o, x)') - One(Named(tab[t], o, x))
                             + One(t \in Counting(x)') - One(t \in Counting(x))
    BY <1>4, <1>6, WorkStep
  <2>2. t \notin Counting(x) /\ t \notin Counting(x)'
    BY <1>2, <1>3 DEF Counting
  <2>3. Named(tab[t], o, x) <=> /\ o \in DOMAIN fds[tab[t]] /\ fds[tab[t]][o].desc = x
                                /\ t \notin alone
    BY <1>2, <1>4, <1>5, NamedAt DEF Half
  <2>4. Named(tab[t], o, x)' <=> o \in DOMAIN fds[tab[t]] /\ fds[tab[t]][o].desc = x
    <3>1. Named(tab[t], o, x)' <=> /\ o \in DOMAIN fds'[tab[t]] /\ fds'[tab[t]][o].desc = x
                                   /\ ~(t \in alone' /\ o = oldFD'[t] /\ pc'[t] \in Half)
      BY <1>2, <1>4, NamedThen
    <3> QED
      BY <1>2, <1>3, <3>1 DEF Half
  <2>5. Total(x) \in Nat /\ refCount[x] = Total(x) /\ (x \in live <=> refCount[x] # 0)
    BY TotalIs DEF Counts, CountOK
  <2>6. f[x] = IF x = d THEN refCount[x] + 1 ELSE refCount[x]
    BY <1>7 DEF AddRef
  <2>7. CASE t \in alone /\ x = d
    <3>1. /\ o \in DOMAIN fds[tab[t]] /\ fds[tab[t]][o].desc = x
          /\ \E k \in DOMAIN fds[tab[t]] : k # o /\ fds[tab[t]][k].desc = x
      BY <1>1, <1>2, <1>5, <2>7, DescriptorsAssumption DEF CallOK, AloneOK, CopyPC
    <3>2. PICK k : k # o /\ k \in DOMAIN fds[tab[t]] /\ fds[tab[t]][k].desc = x
      BY <3>1
    <3>3. Named(tab[t], k, x)
      BY <1>4, <1>5, <3>2, NamedAt
    <3>4. x \in live
      BY <1>4, <3>3, NamedLives
    <3>5. ~Named(tab[t], o, x) /\ Named(tab[t], o, x)'
      BY <2>3, <2>4, <2>7, <3>1
    <3> QED
      BY <1>7, <2>1, <2>2, <2>5, <2>6, <2>7, <3>4, <3>5 DEF One
  <2>8. CASE t \in alone /\ x # d
    <3>1. fds[tab[t]][o].desc # x
      BY <1>1, <1>2, <1>5, <2>8 DEF CallOK, AloneOK
    <3>2. ~Named(tab[t], o, x) /\ ~Named(tab[t], o, x)'
      BY <2>3, <2>4, <3>1
    <3> QED
      BY <1>7, <2>1, <2>2, <2>5, <2>6, <2>8, <3>2 DEF One
  <2>9. CASE t \notin alone
    <3>1. x # d
      BY <1>1, <1>2, <1>5, <2>9, DescriptorsAssumption DEF CallOK
    <3>2. Named(tab[t], o, x)' <=> Named(tab[t], o, x)
      BY <2>3, <2>4, <2>9
    <3> QED
      BY <1>7, <2>1, <2>2, <2>5, <2>6, <3>1, <3>2 DEF One
  <2> QED
    BY <2>7, <2>8, <2>9
<1>9. L \subseteq Desc /\ Recount(L, f) /\ reg' \in [Thread -> Nat]
  BY <1>2, <1>5, <1>7 DEF Counts, Recount
<1> QED
  BY <1>2, <1>8, <1>9, RecountStep

\* copyfd writes the count back that it has read; its entry does not count any more.
LEMMA StoreCounts ==
  ASSUME Shape, Shape', Counts, NEW t \in Thread, CloseStore(t)
  PROVE  Counts'
<1>1. Types /\ CallOK(t)
  BY DEF Shape
<1>2. PICK d, o, g : d = sys[t] /\ o = oldFD[t] /\ g = reg[t]
  OBVIOUS
<1>3. /\ pc[t] = "store" /\ fds' = fds /\ tab' = tab /\ held' = held /\ oldFD' = oldFD
      /\ alone' = alone /\ reg' = [reg EXCEPT ![t] = 0]
      /\ sys' = [sys EXCEPT ![t] = None] /\ pc' = [pc EXCEPT ![t] = "closed"]
      /\ spoilt' = IF g = refCount[d] THEN spoilt ELSE spoilt \cup {d}
      /\ Recount(IF g = 1 THEN live \ {d} ELSE live, [refCount EXCEPT ![d] = g - 1])
  BY <1>2 DEF CloseStore, tableVars, Recount, Set
<1>4. /\ pc'[t] = "closed" /\ sys'[t] = None
      /\ \A u \in Thread \ {t} : pc'[u] = pc[u] /\ sys'[u] = sys[u]
  BY <1>1, <1>3 DEF Types
<1>5. pc[t] # "idle" /\ d \in Desc /\ tab[t] \in Table /\ tab[t] # None
  BY <1>1, <1>2, <1>3, InTable DEF CallOK
<1>6. Works(t, o)
  BY <1>2, <1>3, <1>4 DEF Works, Half
<1>7. PICK L, f : L = (IF g = 1 THEN live \ {d} ELSE live) /\ f = [refCount EXCEPT ![d] = g - 1]
  OBVIOUS
<1>8. ASSUME NEW x \in Desc \ spoilt'
      PROVE  f[x] = Total(x)' /\ f[x] \in Nat /\ (x \in L <=> f[x] # 0)
  <2>1. Total(x)' = Total(x) + One(Named(tab[t], o, x)') - One(Named(tab[t], o, x))
                             + One(t \in Counting(x)') - One(t \in Counting(x))
    BY <1>5, <1>6, WorkStep
  <2>2. t \notin Counting(x) /\ t \notin Counting(x)'
    BY <1>3, <1>4 DEF Counting
  <2>3. Named(tab[t], o, x) <=> o \in DOMAIN fds[tab[t]] /\ fds[tab[t]][o].desc = x
    BY <1>3, <1>5, NamedAt DEF Half
  <2>4. Named(tab[t], o, x)' <=> /\ o \in DOMAIN fds[tab[t]] /\ fds[tab[t]][o].desc = x
                                 /\ t \notin alone
    <3>1. Named(tab[t], o, x)' <=> /\ o \in DOMAIN fds'[tab[t]] /\ fds'[tab[t]][o].desc = x
                                   /\ ~(t \in alone' /\ o = oldFD'[t] /\ pc'[t] \in Half)
      BY <1>3, <1>5, NamedThen
    <3> QED
      BY <1>2, <1>3, <1>4, <3>1 DEF Half
  <2>5. x \in Desc \ spoilt /\ (x = d => g = refCount[d])
    BY <1>3
  <2>6. Total(x) \in Nat /\ refCount[x] = Total(x) /\ (x \in live <=> refCount[x] # 0)
    BY <2>5, TotalIs DEF Counts, CountOK
  <2>7. f[x] = IF x = d THEN g - 1 ELSE refCount[x]
    BY <1>7 DEF Counts
  <2>8. CASE t \in alone /\ x = d
    <3>1. o \in DOMAIN fds[tab[t]] /\ fds[tab[t]][o].desc = x
      BY <1>1, <1>2, <1>3, <2>8 DEF CallOK, AloneOK, CopyPC
    <3>2. Named(tab[t], o, x) /\ ~Named(tab[t], o, x)'
      BY <2>3, <2>4, <2>8, <3>1
    <3>3. x \in live /\ refCount[x] \in Nat \ {0}
      BY <1>5, <2>5, <3>2, NamedLives
    <3>4. Total(x)' = Total(x) - 1
      BY <2>1, <2>2, <2>6, <3>2 DEF One
    <3>5. x \in L <=> g # 1
      BY <1>7, <2>8, <3>3
    <3> QED
      BY <2>5, <2>6, <2>7, <2>8, <3>3, <3>4, <3>5
  <2>9. CASE x # d
    <3>1. Named(tab[t], o, x)' <=> Named(tab[t], o, x)
      <4>1. t \in alone => fds[tab[t]][o].desc # x
        BY <1>1, <1>2, <1>3, <2>9 DEF CallOK, AloneOK
      <4> QED
        BY <2>3, <2>4, <4>1
    <3> QED
      BY <1>7, <2>1, <2>2, <2>6, <2>7, <2>9, <3>1 DEF One
  <2>10. CASE t \notin alone /\ x = d
    BY <1>1, <1>2, <1>3, <2>5, <2>10, DescriptorsAssumption DEF CallOK
  <2> QED
    BY <2>8, <2>9, <2>10
<1>9. L \subseteq Desc /\ Recount(L, f) /\ reg' \in [Thread -> Nat]
  BY <1>3, <1>7 DEF Counts, Recount
<1> QED
  BY <1>8, <1>9, RecountStep

\* copyfd counts what it is about to enter.
LEMMA CountCounts ==
  ASSUME Shape, Shape', Counts, NEW t \in Thread, CopyCount(t)
  PROVE  Counts'
<1>1. Types /\ CallOK(t)
  BY DEF Shape
<1>2. /\ pc[t] = "closed" /\ fds' = fds /\ tab' = tab /\ held' = held /\ oldFD' = oldFD
      /\ alone' = alone /\ reg' = reg /\ pc' = [pc EXCEPT ![t] = "counted"]
  BY DEF CopyCount, tableVars, ptrVars, Set
<1>3. pc[t] # "idle" /\ pc[t] \in CopyPC
  BY <1>2 DEF CopyPC
<1>4. PICK n \in Pointee(t, newFD[t]) :
        sys' = [sys EXCEPT ![t] = n] /\ Spoil(t, newFD[t], {n}) /\ Recount(live, AddRef(n))
  BY DEF CopyCount, Set, Recount
<1>5. n \in Desc \cup {None} /\ tab[t] \in Table /\ tab[t] # None
  BY <1>3, CopyPointee, InTable
<1>6. PICK o : o = oldFD[t]
  OBVIOUS
<1>7. /\ pc'[t] = "counted" /\ sys'[t] = n
      /\ \A u \in Thread \ {t} : pc'[u] = pc[u] /\ sys'[u] = sys[u]
  BY <1>1, <1>2, <1>4 DEF Types
<1>8. Works(t, o)
  BY <1>2, <1>6, <1>7 DEF Works
<1>9. /\ spoilt \subseteq spoilt'
      /\ t \notin alone => n \in spoilt' \cup {None}
      /\ t \in alone => newFD[t] \in DOMAIN fds[tab[t]] /\ newFD[t] # o
                        /\ fds[tab[t]][newFD[t]].desc = n
  <2>1. spoilt \subseteq spoilt' /\ (t \notin alone => {n} \cap Desc \subseteq spoilt')
    BY <1>4, SpoilFacts
  <2>2. t \in alone => newFD[t] \in DOMAIN fds[tab[t]] /\ newFD[t] # o
    BY <1>1, <1>2, <1>6 DEF CallOK, AloneOK
  <2>3. newFD[t] \in DOMAIN fds[tab[t]] => Pointee(t, newFD[t]) = {fds[tab[t]][newFD[t]].desc}
    BY <1>3, CopyPointee
  <2> QED
    BY <1>4, <1>5, <2>1, <2>2, <2>3
<1>10. PICK L, f : L = live /\ f = AddRef(n)
  OBVIOUS
<1>11. ASSUME NEW x \in Desc \ spoilt'
       PROVE  f[x] = Total(x)' /\ f[x] \in Nat /\ (x \in L <=> f[x] # 0)
  <2>1. Total(x)' = Total(x) + One(Named(tab[t], o, x)') - One(Named(tab[t], o, x))
                             + One(t \in Counting(x)') - One(t \in Counting(x))
    BY <1>3, <1>8, WorkStep
  <2>2. t \notin Counting(x) /\ (t \in Counting(x)' <=> x = n)
    BY <1>2, <1>7 DEF Counting
  <2>3. Named(tab[t], o, x) <=> /\ o \in DOMAIN fds[tab[t]] /\ fds[tab[t]][o].desc = x
                                /\ t \notin alone
    BY <1>2, <1>3, <1>6, NamedAt DEF Half
  <2>4. Named(tab[t], o, x)' <=> /\ o \in DOMAIN fds[tab[t]] /\ fds[tab[t]][o].desc = x
                                 /\ t \notin alone
    <3>1. Named(tab[t], o, x)' <=> /\ o \in DOMAIN fds'[tab[t]] /\ fds'[tab[t]][o].desc = x
                                   /\ ~(t \in alone' /\ o = oldFD'[t] /\ pc'[t] \in Half)
      BY <1>2, <1>5, NamedThen
    <3> QED
      BY <1>2, <1>6, <1>7, <3>1 DEF Half
  <2>5. x \in Desc \ spoilt
    BY <1>9
  <2>6. Total(x) \in Nat /\ refCount[x] = Total(x) /\ (x \in live <=> refCount[x] # 0)
    BY <2>5, TotalIs DEF Counts, CountOK
  <2>7. f[x] = IF x = n THEN refCount[x] + 1 ELSE refCount[x]
    BY <1>10 DEF AddRef
  <2>8. Total(x)' = Total(x) + One(t \in Counting(x)')
    BY <2>1, <2>2, <2>3, <2>4, <2>6 DEF One
  <2>9. CASE x = n
    <3>1. t \in alone
      BY <1>9, <2>9, DescriptorsAssumption
    <3>2. Named(tab[t], newFD[t], x)
      BY <1>3, <1>6, <1>9, <2>9, <3>1, NamedAt
    <3>3. x \in live
      BY <1>5, <2>5, <3>2, NamedLives
    <3> QED
      BY <1>10, <2>2, <2>6, <2>7, <2>8, <2>9, <3>3 DEF One
  <2>10. CASE x # n
    BY <1>10, <2>2, <2>6, <2>7, <2>8, <2>10 DEF One
  <2> QED
    BY <2>9, <2>10
<1>12. L \subseteq Desc /\ Recount(L, f) /\ reg' \in [Thread -> Nat]
  BY <1>2, <1>4, <1>10 DEF Counts, Recount
<1> QED
  BY <1>11, <1>12, RecountStep

\* The entry that copyfd gives a name counts in place of the call.
LEMMA AssignCounts ==
  ASSUME Shape, Shape', Counts, NEW t \in Thread, CopyAssign(t)
  PROVE  Counts'
<1>1. Types /\ CallOK(t)
  BY DEF Shape
<1>2. /\ pc[t] = "counted" /\ tab' = tab /\ held' = held /\ reg' = reg
      /\ ReplaceReturn(t) /\ Recount(live, refCount)
  BY DEF CopyAssign, Recount
<1>3. pc[t] # "idle" /\ pc[t] \in CopyPC /\ pc[t] \in CopyPC \ {"replace"}
  BY <1>2 DEF CopyPC
<1>4. PICK n \in Pointee(t, newFD[t]) :
        Store(t, oldFD[t], n) /\ Spoil(t, newFD[t], {n} \cup Overwritten(t, oldFD[t]))
  BY DEF CopyAssign
<1>5. n \in Desc \cup {None} /\ tab[t] \in Table /\ tab[t] # None /\ fds \in [Table -> Seq(Entry)]
  BY <1>1, <1>3, CopyPointee, InTable DEF Types
<1>6. PICK o, p : o = oldFD[t] /\ p = tab[t]
  OBVIOUS
<1>7. PICK m : fds' = [fds EXCEPT ![tab[t]] = m] /\ Assigned(fds[tab[t]], o, n, m)
  BY <1>3, <1>4, <1>5, <1>6, StoreFacts
<1>8. /\ pc'[t] = "idle"
      /\ \A u \in Thread \ {t} : /\ pc'[u] = pc[u] /\ sys'[u] = sys[u] /\ oldFD'[u] = oldFD[u]
                                 /\ u \in alone' <=> u \in alone
  BY <1>1, <1>2 DEF ReplaceReturn, Set, Types
<1>9. /\ DOMAIN fds'[p] = DOMAIN fds[p] /\ \A r \in Table \ {p} : fds'[r] = fds[r]
      /\ \A j \in DOMAIN fds[p] : fds'[p][j].desc = IF j = o THEN n ELSE fds[p][j].desc
  BY <1>5, <1>6, <1>7 DEF Assigned
<1>10. Works(t, o)
  BY <1>2, <1>6, <1>8, <1>9 DEF Works, Half
<1>11. /\ spoilt \subseteq spoilt'
       /\ t \notin alone => n \in spoilt' \cup {None} /\ sys[t] \in spoilt' \cup {None}
                            /\ Overwritten(t, oldFD[t]) \cap Desc \subseteq spoilt'
       /\ t \in alone => n = sys[t] /\ o \in DOMAIN fds[tab[t]]
  <2>1. /\ spoilt \subseteq spoilt'
        /\ t \notin alone => ({n} \cup Overwritten(t, oldFD[t])) \cap Desc \subseteq spoilt'
    BY <1>4, SpoilFacts
  <2>2. t \in alone => /\ newFD[t] \in DOMAIN fds[tab[t]] /\ o \in DOMAIN fds[tab[t]]
                       /\ fds[tab[t]][newFD[t]].desc = sys[t]
    BY <1>1, <1>2, <1>6 DEF CallOK, AloneOK, CopyPC
  <2>3. newFD[t] \in DOMAIN fds[tab[t]] => Pointee(t, newFD[t]) = {fds[tab[t]][newFD[t]].desc}
    BY <1>3, CopyPointee
  <2>4. t \notin alone => sys[t] \in spoilt \cup {None}
    BY <1>1, <1>2 DEF CallOK
  <2> QED
    BY <1>4, <1>5, <2>1, <2>2, <2>3, <2>4
<1>12. ASSUME NEW x \in Desc \ spoilt'
       PROVE  Total(x)' = Total(x)
  <2>1. Total(x)' = Total(x) + One(Named(tab[t], o, x)') - One(Named(tab[t], o, x))
                             + One(t \in Counting(x)') - One(t \in Counting(x))
    BY <1>3, <1>10, WorkStep
  <2>2. t \notin Counting(x)' /\ (t \in Counting(x) <=> sys[t] = x)
    BY <1>2, <1>8 DEF Counting
  <2>3. Named(tab[t], o, x) <=> /\ o \in DOMAIN fds[tab[t]] /\ fds[tab[t]][o].desc = x
                                /\ t \notin alone
    BY <1>2, <1>3, <1>6, NamedAt DEF Half
  <2>4. Named(tab[t], o, x)' <=> o \in DOMAIN fds[tab[t]] /\ n = x
    <3>1. Named(tab[t], o, x)' <=> /\ o \in DOMAIN fds'[tab[t]] /\ fds'[tab[t]][o].desc = x
                                   /\ ~(t \in alone' /\ o = oldFD'[t] /\ pc'[t] \in Half)
      BY <1>2, <1>5, NamedThen
    <3> QED
      BY <1>6, <1>8, <1>9, <3>1 DEF Half
  <2>5. Total(x) \in Nat
    BY TotalIs
  <2>6. CASE t \in alone
    <3>1. /\ ~Named(tab[t], o, x) /\ (Named(tab[t], o, x)' <=> n = x)
          /\ t \in Counting(x) <=> n = x
      BY <1>11, <2>2, <2>3, <2>4, <2>6
    <3> QED
      BY <2>1, <2>2, <2>5, <3>1 DEF One
  <2>7. CASE t \notin alone
    <3>1. n # x /\ sys[t] # x
      BY <1>11, <2>7, DescriptorsAssumption
    <3>2. o \in DOMAIN fds[tab[t]] => o # Dangling
      BY <1>3, InTable DEF Dangling
    <3>3. o \in DOMAIN fds[tab[t]] => fds[tab[t]][o].desc # x
      BY <1>6, <1>11, <2>7, <3>2 DEF Overwritten, Slot
    <3>4. /\ ~Named(tab[t], o, x) /\ ~Named(tab[t], o, x)' /\ t \notin Counting(x)
      BY <2>2, <2>3, <2>4, <3>1, <3>3
    <3> QED
      BY <2>1, <2>2, <2>5, <3>4 DEF One
  <2> QED
    BY <2>6, <2>7
<1>13. PICK L, f : L = live /\ f = refCount
  OBVIOUS
<1>14. \A x \in Desc \ spoilt' : f[x] = Total(x)' /\ f[x] \in Nat /\ (x \in L <=> f[x] # 0)
  BY <1>11, <1>12, <1>13 DEF Counts, CountOK
<1>15. L \subseteq Desc /\ Recount(L, f) /\ reg' \in [Thread -> Nat]
  BY <1>2, <1>13 DEF Counts, Recount
<1> QED
  BY <1>14, <1>15, RecountStep

\* What Close(d) makes of the counts where one counted for d before that does not now.
LEMMA CloseCounts ==
  ASSUME Shape, Shape', Counts, NEW d \in Desc, Close(d), spoilt' = spoilt, reg' = reg,
         d \notin spoilt => d \in live,
         \A x \in Desc \ spoilt : Total(x)' = Total(x) - One(x = d)
  PROVE  Counts'
<1>1. PICK L, f : /\ L = (IF refCount[d] = 1 THEN live \ {d} ELSE live)
                  /\ f = [refCount EXCEPT ![d] = refCount[d] - 1]
  OBVIOUS
<1>2. ASSUME NEW x \in Desc \ spoilt
      PROVE  f[x] = Total(x)' /\ f[x] \in Nat /\ (x \in L <=> f[x] # 0)
  <2>1. Total(x) \in Nat /\ refCount[x] = Total(x) /\ (x \in live <=> refCount[x] # 0)
    BY TotalIs DEF Counts, CountOK
  <2>2. f[x] = IF x = d THEN refCount[x] - 1 ELSE refCount[x]
    BY <1>1 DEF Counts
  <2>3. CASE x = d
    <3>1. x \in live /\ Total(x)' = Total(x) - 1 /\ refCount[x] \in Nat \ {0}
      BY <2>1, <2>3 DEF One
    <3>2. x \in L <=> refCount[x] # 1
      BY <1>1, <2>3, <3>1
    <3> QED
      BY <2>1, <2>2, <2>3, <3>1, <3>2
  <2>4. CASE x # d
    BY <1>1, <2>1, <2>2, <2>4 DEF One
  <2> QED
    BY <2>3, <2>4
<1>3. L \subseteq Desc /\ Recount(L, f) /\ reg' \in [Thread -> Nat]
  BY <1>1 DEF Close, Counts, Recount
<1> QED
  BY <1>2, <1>3, RecountStep

\* A number is closed: its entry counts no more.
LEMMA NumberCounts ==
  ASSUME Shape, Shape', Counts, NEW t \in Thread, NEW i \in Fd, ThreadCloseFileDescriptor(t, i)
  PROVE  Counts'
<1>1. Types /\ CallOK(t)
  BY DEF Shape
<1>2. /\ tab[t] # None /\ pc[t] = "idle"
      /\ tab' = tab /\ pc' = pc /\ held' = held /\ sys' = sys
      /\ oldFD' = oldFD /\ alone' = alone /\ spoilt' = spoilt /\ reg' = reg
  BY DEF ThreadCloseFileDescriptor, Idle, ptrVars, ghostVars
<1>3. PICK k \in DOMAIN fds[tab[t]], d \in Desc, m \in Seq(Entry) :
           /\ fds[tab[t]][k].desc = d /\ Close(d)
           /\ fds' = [fds EXCEPT ![tab[t]] = m] /\ Assigned(fds[tab[t]], k, None, m)
  BY CloseFacts
<1>4. tab[t] \in Table /\ fds \in [Table -> Seq(Entry)]
  BY <1>1, <1>2, InTable DEF Types
<1>5. PICK p : p = tab[t]
  OBVIOUS
<1>6. /\ DOMAIN fds'[p] = DOMAIN fds[p] /\ \A r \in Table \ {p} : fds'[r] = fds[r]
      /\ \A j \in DOMAIN fds[p] : fds'[p][j].desc = IF j = k THEN None ELSE fds[p][j].desc
  BY <1>3, <1>4, <1>5 DEF Assigned
<1>7. Works(t, k)
  BY <1>2, <1>5, <1>6 DEF Works, Half
<1>8. ASSUME NEW x \in Desc
      PROVE  Total(x)' = Total(x) - One(x = d) /\ (Named(tab[t], k, x) <=> x = d)
  <2>1. Total(x)' = Total(x) + One(Named(tab[t], k, x)') - One(Named(tab[t], k, x))
                             + One(t \in Counting(x)') - One(t \in Counting(x))
    BY <1>2, <1>7, WorkStep
  <2>2. t \notin Counting(x) /\ t \notin Counting(x)'
    BY <1>2 DEF Counting
  <2>3. Named(tab[t], k, x) <=> x = d
    BY <1>2, <1>3, NamedAt DEF Half
  <2>4. ~Named(tab[t], k, x)'
    <3>1. Named(tab[t], k, x)' <=> /\ k \in DOMAIN fds'[tab[t]] /\ fds'[tab[t]][k].desc = x
                                   /\ ~(t \in alone' /\ k = oldFD'[t] /\ pc'[t] \in Half)
      BY <1>2, NamedThen
    <3> QED
      BY <1>3, <1>5, <1>6, <3>1, DescriptorsAssumption
  <2>5. Total(x) \in Nat
    BY TotalIs
  <2> QED
    BY <2>1, <2>2, <2>3, <2>4, <2>5 DEF One
<1>9. d \notin spoilt => d \in live
  BY <1>4, <1>8, NamedLives
<1> QED
  BY <1>2, <1>3, <1>8, <1>9, CloseCounts

\* Where an entry at place j is after one has been inserted at place k.
Shifted(k, j) == IF j < k THEN j ELSE j + 1

\* Every other place of the longer table is that of one entry.
LEMMA ShiftedFacts ==
  ASSUME NEW s \in Seq(Entry), NEW k \in 1 .. Len(s) + 1, NEW e, NEW m, Inserted(s, k, e, m)
  PROVE  /\ \A j \in DOMAIN s : /\ Shifted(k, j) \in DOMAIN m /\ Shifted(k, j) # k
                                /\ m[Shifted(k, j)] = s[j]
         /\ \A i, j \in DOMAIN s : Shifted(k, i) = Shifted(k, j) => i = j
         /\ \A j \in DOMAIN m : j # k => \E i \in DOMAIN s : Shifted(k, i) = j
         /\ k \in DOMAIN m /\ m[k] = e
<1>1. DOMAIN s = 1 .. Len(s) /\ DOMAIN m = 1 .. Len(s) + 1 /\ Len(s) \in Nat
  BY DEF Inserted
<1>2. ASSUME NEW j \in DOMAIN s
      PROVE  Shifted(k, j) \in DOMAIN m /\ Shifted(k, j) # k /\ m[Shifted(k, j)] = s[j]
  <2>1. CASE j < k
    BY <1>1, <2>1 DEF Shifted, Inserted
  <2>2. CASE ~(j < k)
    <3>1. /\ Shifted(k, j) = j + 1 /\ j + 1 \in 1 .. Len(s) + 1 /\ ~(j + 1 < k) /\ j + 1 # k
          /\ (j + 1) - 1 = j
      BY <1>1, <2>2 DEF Shifted
    <3> QED
      BY <1>1, <3>1 DEF Inserted
  <2> QED
    BY <2>1, <2>2
<1>3. \A i, j \in DOMAIN s : Shifted(k, i) = Shifted(k, j) => i = j
  BY <1>1 DEF Shifted
<1>4. ASSUME NEW j \in DOMAIN m, j # k
      PROVE  \E i \in DOMAIN s : Shifted(k, i) = j
  <2>1. CASE j < k
    BY <1>1, <2>1 DEF Shifted
  <2>2. CASE ~(j < k)
    <3>1. j - 1 \in 1 .. Len(s) /\ ~(j - 1 < k) /\ (j - 1) + 1 = j
      BY <1>1, <1>4, <2>2
    <3> QED
      BY <1>1, <3>1 DEF Shifted
  <2> QED
    BY <2>1, <2>2
<1>5. k \in DOMAIN m /\ m[k] = e
  BY <1>1 DEF Inserted
<1> QED
  BY <1>2, <1>3, <1>4, <1>5

\* An entry that is inserted counts, and those behind it go on counting.
LEMMA InsertNames ==
  ASSUME Shape, Shape', NEW p \in Table, NEW s \in Seq(Entry), NEW k \in 1 .. Len(s) + 1,
         NEW e, NEW m, s = fds[p], Inserted(s, k, e, m),
         fds'[p] = m, \A r \in Table \ {p} : fds'[r] = fds[r],
         \A u \in Thread : \A j : ~Unsettled(u, p, j) /\ ~Unsettled(u, p, j)',
         \A u \in Thread, r \in Table \ {p} : \A j : Unsettled(u, r, j)' <=> Unsettled(u, r, j),
         NEW d \in Desc
  PROVE  Cardinality(Names(d)') = Cardinality(Names(d)) + IF e.desc = d THEN 1 ELSE 0
<1>1. /\ \A j : Named(p, j, d) <=> j \in DOMAIN s /\ s[j].desc = d
      /\ \A j : Named(p, j, d)' <=> j \in DOMAIN m /\ m[j].desc = d
      /\ \A r \in Table \ {p} : \A j : Named(r, j, d)' <=> Named(r, j, d)
  BY DEF Named
<1>2. PICK S, T : S = Names(d) /\ T = Names(d)' \ {<<p, k>>}
  OBVIOUS
<1>3. /\ S \subseteq Table \X (1 .. MaxEntries)
      /\ \A r \in Table : \A j : Named(r, j, d) <=> <<r, j>> \in S
  BY <1>2, NamesAre
<1>4. /\ T \subseteq Table \X (1 .. MaxEntries)
      /\ \A r \in Table : \A j : Named(r, j, d)' /\ (r # p \/ j # k) <=> <<r, j>> \in T
  BY <1>2, NamesNext
<1> DEFINE h == [n \in S |-> IF n[1] = p THEN <<p, Shifted(k, n[2])>> ELSE n]
<1>5. \A j : <<p, j>> \in S => /\ <<p, Shifted(k, j)>> \in T
                               /\ h[<<p, j>>] = <<p, Shifted(k, j)>>
  <2>1. ASSUME NEW j, <<p, j>> \in S
        PROVE  <<p, Shifted(k, j)>> \in T
    <3>1. j \in DOMAIN s /\ s[j].desc = d
      BY <1>1, <1>3, <2>1
    <3>2. Shifted(k, j) \in DOMAIN m /\ Shifted(k, j) # k /\ m[Shifted(k, j)] = s[j]
      BY <3>1, ShiftedFacts
    <3> QED
      BY <1>1, <1>4, <3>1, <3>2
  <2> QED
    BY <2>1
<1>6. \A r \in Table \ {p} : \A j : <<r, j>> \in S => <<r, j>> \in T /\ h[<<r, j>>] = <<r, j>>
  BY <1>1, <1>3, <1>4
<1>7. DOMAIN h = S
  OBVIOUS
<1> HIDE DEF h
<1>8. ASSUME NEW n \in S
      PROVE  h[n] \in T
  <2>1. PICK r \in Table, j \in 1 .. MaxEntries : n = <<r, j>>
    BY <1>3
  <2> QED
    BY <1>5, <1>6, <2>1
<1>9. ASSUME NEW a \in S, NEW b \in S, h[a] = h[b]
      PROVE  a = b
  <2>1. PICK r \in Table, j \in 1 .. MaxEntries : a = <<r, j>>
    BY <1>3
  <2>2. PICK q \in Table, i \in 1 .. MaxEntries : b = <<q, i>>
    BY <1>3
  <2>3. CASE r = p /\ q = p
    <3>1. j \in DOMAIN s /\ i \in DOMAIN s
      BY <1>1, <1>3, <2>1, <2>2, <2>3
    <3>2. h[a] = <<p, Shifted(k, j)>> /\ h[b] = <<p, Shifted(k, i)>>
      BY <1>5, <2>1, <2>2, <2>3
    <3>3. <<p, Shifted(k, j)>> = <<p, Shifted(k, i)>>
      BY <1>9, <3>2
    <3>4. i = j
      BY <3>1, <3>3, ShiftedFacts, PairParts
    <3> QED
      BY <2>1, <2>2, <2>3, <3>4
  <2>4. CASE r = p /\ q # p
    <3>1. h[a] = <<p, Shifted(k, j)>> /\ h[b] = <<q, i>>
      BY <1>5, <1>6, <2>1, <2>2, <2>4
    <3>2. <<p, Shifted(k, j)>> = <<q, i>>
      BY <1>9, <3>1
    <3> QED
      BY <2>4, <3>2, PairParts
  <2>5. CASE r # p /\ q = p
    <3>1. h[a] = <<r, j>> /\ h[b] = <<p, Shifted(k, i)>>
      BY <1>5, <1>6, <2>1, <2>2, <2>5
    <3>2. <<r, j>> = <<p, Shifted(k, i)>>
      BY <1>9, <3>1
    <3> QED
      BY <2>5, <3>2, PairParts
  <2>6. CASE r # p /\ q # p
    BY <1>6, <1>9, <2>1, <2>2, <2>6
  <2> QED
    BY <2>3, <2>4, <2>5, <2>6
<1>10. ASSUME NEW n \in T
       PROVE  \E a \in S : h[a] = n
  <2>1. PICK r \in Table, j \in 1 .. MaxEntries : n = <<r, j>>
    BY <1>4
  <2>2. CASE r = p
    <3>1. j \in DOMAIN m /\ m[j].desc = d /\ j # k
      BY <1>1, <1>4, <2>1, <2>2
    <3>2. PICK i \in DOMAIN s : Shifted(k, i) = j
      BY <3>1, ShiftedFacts
    <3>3. s[i].desc = d
      BY <3>1, <3>2, ShiftedFacts
    <3>4. <<p, i>> \in S
      BY <1>1, <1>3, <3>3
    <3> QED
      BY <1>5, <2>1, <2>2, <3>2, <3>4
  <2>3. CASE r # p
    <3>1. <<r, j>> \in S
      BY <1>1, <1>3, <1>4, <2>1, <2>3
    <3> QED
      BY <1>6, <2>1, <2>3, <3>1
  <2> QED
    BY <2>2, <2>3
<1>11. Cardinality(T) = Cardinality(S)
  <2>1. h \in [S -> T]
    BY <1>7, <1>8 DEF h
  <2>2. h \in Bijection(S, T)
    BY <2>1, <1>9, <1>10 DEF Bijection, Injection, IsInjective, Surjection
  <2>3. ExistsBijection(S, T) /\ IsFiniteSet(S)
    BY <1>2, <2>2, CountsFinite DEF ExistsBijection
  <2> QED
    BY <2>3, FS_Bijection
<1>12. <<p, k>> \in Names(d)' <=> e.desc = d
  <2>1. k \in DOMAIN m /\ m[k] = e
    BY ShiftedFacts
  <2>2. Named(p, k, d)' <=> e.desc = d
    BY <1>1, <2>1
  <2>3. k \in 1 .. MaxEntries => (<<p, k>> \in Names(d)' <=> Named(p, k, d)')
    BY NamesNext
  <2>4. Named(p, k, d)' => k \in 1 .. MaxEntries
    BY NamesNext
  <2>5. <<p, k>> \in Names(d)' => k \in 1 .. MaxEntries
    BY NamesNext
  <2> QED
    BY <2>2, <2>3, <2>4, <2>5
<1>13. /\ IsFiniteSet(Names(d)') /\ Cardinality(Names(d)') \in Nat
       /\ Cardinality(Names(d)) \in Nat
  BY FiniteNext, CountsFinite
<1>14. Cardinality(T) = IF e.desc = d THEN Cardinality(Names(d)') - 1 ELSE Cardinality(Names(d)')
  BY <1>2, <1>12, <1>13, FS_RemoveElement
<1> QED
  BY <1>2, <1>11, <1>13, <1>14

\* The places of table p that count for d.
Within(p, d) == {n \in Names(d) : n[1] = p}

\* All entries of a table count that no copyfd is at work on.
TableCounted ==
  \A p \in Table, d \in Desc :
    (\A u \in Thread : \A k : ~Unsettled(u, p, k)) =>
      /\ Within(p, d) \subseteq Names(d)
      /\ IsFiniteSet(Within(p, d)) /\ Cardinality(Within(p, d)) = Uses(p, d)
      /\ Uses(p, d) \in Nat
      /\ \A k \in DOMAIN fds[p] : fds[p][k].desc = d => Uses(p, d) # 0
      /\ Uses(p, d) # 0 => \E k \in DOMAIN fds[p] : fds[p][k].desc = d

\* They are as many as the table names d.
LEMMA CountedNow == Shape => TableCounted
<1> SUFFICES ASSUME Shape, NEW p \in Table, NEW d \in Desc,
                    \A u \in Thread : \A k : ~Unsettled(u, p, k)
             PROVE  /\ Within(p, d) \subseteq Names(d)
                    /\ IsFiniteSet(Within(p, d)) /\ Cardinality(Within(p, d)) = Uses(p, d)
                    /\ Uses(p, d) \in Nat
                    /\ \A k \in DOMAIN fds[p] : fds[p][k].desc = d => Uses(p, d) # 0
                    /\ Uses(p, d) # 0 => \E k \in DOMAIN fds[p] : fds[p][k].desc = d
  BY Zenon DEF TableCounted
<1>1. PICK A, N : /\ A = {k \in DOMAIN fds[p] : fds[p][k].desc = d}
                  /\ N = Within(p, d)
  OBVIOUS
<1>2. N \subseteq Names(d) /\ IsFiniteSet(N)
  <2>1. N \in SUBSET Names(d) /\ IsFiniteSet(Names(d))
    BY <1>1, CountsFinite DEF Within
  <2> QED
    BY <2>1, FS_Subset
<1>3. \A k : Named(p, k, d) <=> k \in A
  BY <1>1 DEF Named
<1>4. /\ \A n \in N : \E k \in A : n = <<p, k>>
      /\ \A k \in A : <<p, k>> \in N
  <2>1. ASSUME NEW n \in N
        PROVE  \E k \in A : n = <<p, k>>
    <3>1. n \in Names(d) /\ n[1] = p
      BY <1>1 DEF Within
    <3>2. PICK r \in Table, k \in 1 .. MaxEntries : n = <<r, k>>
      BY <3>1, NamesAre
    <3>3. r = p
      BY <3>1, <3>2
    <3> QED
      BY <1>3, <3>1, <3>2, <3>3, NamesAre
  <2>2. \A k \in A : <<p, k>> \in N
    BY <1>1, <1>3, NamesAre DEF Within
  <2> QED
    BY <2>1, <2>2
<1> DEFINE h == [n \in N |-> n[2]]
<1>5. \A k \in A : h[<<p, k>>] = k
  BY <1>4
<1>6. h \in [N -> A]
  BY <1>4
<1> HIDE DEF h
<1>7. \A a, b \in N : h[a] = h[b] => a = b
  BY <1>4, <1>5
<1>8. \A k \in A : \E n \in N : h[n] = k
  BY <1>4, <1>5
<1>9. ExistsBijection(N, A)
  BY <1>6, <1>7, <1>8 DEF ExistsBijection, Bijection, Injection, IsInjective, Surjection
<1>10. IsFiniteSet(A) /\ Cardinality(A) = Cardinality(N) /\ Cardinality(A) \in Nat
  BY <1>2, <1>9, FS_Bijection, FS_CardinalityType
<1>11. Uses(p, d) = Cardinality(A) /\ (Cardinality(A) = 0 <=> A = {})
  BY <1>1, <1>10, FS_EmptySet DEF Uses
<1> QED
  BY <1>1, <1>2, <1>10, <1>11

\* So they are after a step.
LEMMA CountedNext == Shape' => TableCounted'
BY CountedNow, PTL

\* What a child gets names a descriptor as often as its parent's table does.
LEMMA ForkUses ==
  ASSUME Shape, NEW p \in Table, NEW q \in Table, NEW c, NEW f, CopyOf(p, c, f), fds'[q] = c,
         NEW d \in Desc
  PROVE  Uses(q, d)' = Uses(p, d)
<1>1. PICK A, B : /\ A = {j \in DOMAIN c : c[j].desc = d}
                  /\ B = {k \in DOMAIN fds[p] : fds[p][k].desc = d}
  OBVIOUS
<1>2. /\ \A i, j \in DOMAIN c : f[i] = f[j] => i = j
      /\ \A i \in DOMAIN c : f[i] \in DOMAIN fds[p] /\ c[i] = fds[p][f[i]]
      /\ \A k \in B : \E i \in DOMAIN c : f[i] = k
  <2>1. \A k \in OpenAt(p) : k \in Nat /\ k \in DOMAIN fds[p]
    <3>1. fds[p] \in Seq(Entry)
      BY DEF Shape, Types
    <3> QED
      BY <3>1 DEF OpenAt
  <2>2. \A i \in DOMAIN c : f[i] \in Nat /\ f[i] \in DOMAIN fds[p] /\ c[i] = fds[p][f[i]]
    BY <2>1 DEF CopyOf
  <2>3. \A i, j \in DOMAIN c : i = j \/ i < j \/ j < i
    BY DEF CopyOf
  <2>4. \A i, j \in DOMAIN c : i < j => f[i] < f[j]
    BY DEF CopyOf
  <2>5. \A i, j \in DOMAIN c : f[i] = f[j] => i = j
    <3> SUFFICES ASSUME NEW i \in DOMAIN c, NEW j \in DOMAIN c, f[i] = f[j]
                 PROVE  i = j
      OBVIOUS
    <3>1. ~(f[i] < f[j]) /\ ~(f[j] < f[i])
      BY <2>2
    <3> QED
      BY <2>3, <2>4, <3>1
  <2>6. B \subseteq OpenAt(p)
    BY <1>1, DescriptorsAssumption DEF OpenAt
  <2> QED
    BY <2>2, <2>5, <2>6 DEF CopyOf
<1> DEFINE g == [j \in A |-> f[j]]
<1>3. g \in [A -> B]
  BY <1>1, <1>2
<1>4. \A i, j \in A : g[i] = g[j] => i = j
  BY <1>1, <1>2
<1>5. \A k \in B : \E j \in A : g[j] = k
  BY <1>1, <1>2
<1> HIDE DEF g
<1>6. g \in Bijection(A, B)
  BY <1>3, <1>4, <1>5 DEF Bijection, Injection, IsInjective, Surjection
<1>7. IsFiniteSet(A)
  <2>1. DOMAIN c = 1 .. Len(c) /\ Len(c) \in Nat
    BY DEF CopyOf
  <2>2. IsFiniteSet(1 .. Len(c)) /\ A \in SUBSET (1 .. Len(c))
    BY <1>1, <2>1, FS_Interval
  <2> QED
    BY <2>2, FS_Subset
<1>8. Cardinality(B) = Cardinality(A)
  BY <1>6, <1>7, FS_Bijection DEF ExistsBijection
<1> QED
  BY <1>1, <1>8 DEF Uses

\* Place k of s has d.
Has(s, k, d) == k \in DOMAIN s /\ s[k] = d

\* What the calls of the other threads hold.
OpeningElse(t, d) == {h \in Opening(d) : h[1] # t}

\* What calls hold comes from t and from the others.
OpeningKnown ==
  \A t \in Thread, d \in Desc :
    /\ Cardinality(OpeningElse(t, d)) \in Nat
    /\ Cardinality(Opening(d)) = Cardinality(OpeningElse(t, d)) + One(Has(held[t], 1, d))
                                                                + One(Has(held[t], 2, d))

\* The two parts are counted one by one.
LEMMA OpeningNow == Shape => OpeningKnown
<1> SUFFICES ASSUME Shape, NEW t \in Thread, NEW d \in Desc
             PROVE  /\ Cardinality(OpeningElse(t, d)) \in Nat
                    /\ Cardinality(Opening(d)) =
                         Cardinality(OpeningElse(t, d)) + One(Has(held[t], 1, d))
                                                        + One(Has(held[t], 2, d))
  BY DEF OpeningKnown
<1>1. PICK a, b : a = <<t, 1>> /\ b = <<t, 2>>
  OBVIOUS
<1>2. PICK O, E, A, B : /\ O = Opening(d) /\ E = OpeningElse(t, d)
                        /\ A = E \cup (IF Has(held[t], 1, d) THEN {a} ELSE {})
                        /\ B = A \cup (IF Has(held[t], 2, d) THEN {b} ELSE {})
  OBVIOUS
<1>3. /\ \A u \in Thread, k \in {1, 2} : <<u, k>> \in O <=> Has(held[u], k, d)
      /\ O \subseteq Thread \X {1, 2}
  BY <1>2 DEF Opening, Has
<1>4. /\ \A u \in Thread, k \in {1, 2} : <<u, k>> \in E <=> Has(held[u], k, d) /\ u # t
      /\ E \subseteq Thread \X {1, 2}
  <2>1. E \subseteq O /\ \A u \in Thread, k \in {1, 2} : <<u, k>> \in E <=> <<u, k>> \in O /\ u # t
    BY <1>2 DEF OpeningElse
  <2> QED
    BY <1>3, <2>1
<1>5. a # b /\ a \in Thread \X {1, 2} /\ b \in Thread \X {1, 2} /\ a \notin E /\ b \notin E
  BY <1>1, <1>4
<1>6. \A u \in Thread, k \in {1, 2} : <<u, k>> = a <=> u = t /\ k = 1
  BY <1>1
<1>7. \A u \in Thread, k \in {1, 2} : <<u, k>> = b <=> u = t /\ k = 2
  BY <1>1
<1>8. \A u \in Thread, k \in {1, 2} : <<u, k>> \in O <=> <<u, k>> \in B
  BY <1>2, <1>3, <1>4, <1>6, <1>7
<1>9. B \subseteq Thread \X {1, 2}
  BY <1>2, <1>4, <1>5
<1>10. O = B
  <2>1. PICK I : I = {1, 2}
    OBVIOUS
  <2>2. O \subseteq Thread \X I /\ B \subseteq Thread \X I
    BY <1>3, <1>9, <2>1
  <2>3. \A u \in Thread, k \in I : <<u, k>> \in O <=> <<u, k>> \in B
    BY <1>8, <2>1
  <2> QED
    BY <2>2, <2>3, PairsEqual
<1>11. IsFiniteSet(E) /\ Cardinality(E) \in Nat
  <2>1. E \in SUBSET O /\ IsFiniteSet(O)
    BY <1>2, CountsFinite DEF OpeningElse
  <2> QED
    BY <2>1, FS_Subset, FS_CardinalityType
<1>12. IsFiniteSet(A) /\ Cardinality(A) = Cardinality(E) + One(Has(held[t], 1, d)) /\ b \notin A
  <2>1. CASE Has(held[t], 1, d)
    BY <1>2, <1>5, <1>11, <2>1, FS_AddElement DEF One
  <2>2. CASE ~Has(held[t], 1, d)
    BY <1>2, <1>5, <1>11, <2>2 DEF One
  <2> QED
    BY <2>1, <2>2
<1>13. Cardinality(A) \in Nat
  BY <1>12, FS_CardinalityType
<1>14. Cardinality(B) = Cardinality(A) + One(Has(held[t], 2, d))
  <2>1. CASE Has(held[t], 2, d)
    <3>1. B = A \cup {b} /\ One(Has(held[t], 2, d)) = 1
      BY <1>2, <2>1 DEF One
    <3> QED
      BY <1>12, <3>1, FS_AddElement
  <2>2. CASE ~Has(held[t], 2, d)
    BY <1>2, <1>13, <2>2 DEF One
  <2> QED
    BY <2>1, <2>2
<1> QED
  BY <1>2, <1>10, <1>11, <1>12, <1>14

\* So they are after a step.
LEMMA OpeningNext == Shape' => OpeningKnown'
BY OpeningNow, PTL

\* What calls hold after a step in which only t takes or gives up.
LEMMA HeldStep ==
  ASSUME Shape, Shape', NEW t \in Thread, NEW d \in Desc,
         \A u \in Thread \ {t} : held'[u] = held[u]
  PROVE  Cardinality(Opening(d)') =
           Cardinality(Opening(d)) + One(Has(held'[t], 1, d)) + One(Has(held'[t], 2, d))
                                   - One(Has(held[t], 1, d)) - One(Has(held[t], 2, d))
<1>1. PICK E : E = OpeningElse(t, d)
  OBVIOUS
<1>2. OpeningElse(t, d)' = E
  <2>1. OpeningElse(t, d) =
          {h \in Thread \X {1, 2} : h[1] # t /\ h[2] \in DOMAIN held[h[1]] /\ held[h[1]][h[2]] = d}
    BY DEF OpeningElse, Opening
  <2>2. OpeningElse(t, d)' =
          {h \in Thread \X {1, 2} : h[1] # t /\ h[2] \in DOMAIN held'[h[1]] /\ held'[h[1]][h[2]] = d}
    BY DEF OpeningElse, Opening
  <2>3. \A h \in Thread \X {1, 2} : h[1] # t => held'[h[1]] = held[h[1]]
    OBVIOUS
  <2> QED
    BY <1>1, <2>1, <2>2, <2>3
<1>3. /\ Cardinality(E) \in Nat
      /\ Cardinality(Opening(d)) = Cardinality(E) + One(Has(held[t], 1, d))
                                                  + One(Has(held[t], 2, d))
  BY <1>1, OpeningNow DEF OpeningKnown
<1>4. Cardinality(Opening(d)') = Cardinality(E) + One(Has(held'[t], 1, d))
                                                + One(Has(held'[t], 2, d))
  <2>1. OpeningKnown'
    BY OpeningNext
  <2>2. Cardinality(Opening(d)') = Cardinality(OpeningElse(t, d)') + One(Has(held[t], 1, d)')
                                                + One(Has(held[t], 2, d)')
    BY <2>1 DEF OpeningKnown
  <2> QED
    BY <1>2, <2>2 DEF One, Has
<1>5. \A b : One(b) \in Int
  BY DEF One
<1> HIDE DEF One
<1> QED
  BY <1>3, <1>4, <1>5

\* The calls of copyfd that count are the same if nobody comes or goes there.
LEMMA CountingSame ==
  ASSUME Shape, Shape', NEW t \in Thread, NEW d \in Desc, pc[t] # "counted", pc'[t] # "counted",
         \A u \in Thread \ {t} : pc'[u] = pc[u] /\ sys'[u] = sys[u]
  PROVE  Counting(d)' = Counting(d)
BY DEF Counting

\* A step by which nothing comes to be settled or unsettled.
LEMMA StillNamed ==
  ASSUME Shape, Shape', NEW d \in Desc, fds' = fds,
         \A u \in Thread, r \in Table : \A k : Unsettled(u, r, k)' <=> Unsettled(u, r, k)
  PROVE  Names(d)' = Names(d)
<1>1. \A r \in Table : \A k : Named(r, k, d)' <=> Named(r, k, d)
  BY DEF Named
<1> QED
  BY <1>1, NamesSame

\* What is opened is counted by the call alone.
LEMMA OpenCounts ==
  ASSUME Shape, Shape', Counts, NEW t \in Thread, NEW s \in Seq(Desc), Len(s) \in 1 .. 2,
         Len(s) = 2 => s[1] # s[2], Open(t, s)
  PROVE  Counts'
<1>1. Types /\ CallOK(t)
  BY DEF Shape
<1>2. /\ pc[t] = "idle" /\ fds' = fds /\ tab' = tab /\ sys' = sys /\ oldFD' = oldFD
      /\ alone' = alone /\ spoilt' = spoilt /\ reg' = reg
      /\ pc' = [pc EXCEPT ![t] = "add"] /\ held' = [held EXCEPT ![t] = s]
      /\ \A k \in DOMAIN s : s[k] \notin live \cup spoilt
      /\ live' = live \cup Range(s)
      /\ refCount' = [d \in Desc |-> IF d \in Range(s) THEN 1 ELSE refCount[d]]
  BY DEF Open, Idle, tableVars, ptrVars, ghostVars, Set
<1>3. /\ pc'[t] = "add" /\ held'[t] = s
      /\ \A u \in Thread \ {t} : pc'[u] = pc[u] /\ held'[u] = held[u]
  BY <1>1, <1>2 DEF Types
<1>4. \A u \in Thread, r \in Table : \A k : Unsettled(u, r, k)' <=> Unsettled(u, r, k)
  BY <1>2, <1>3 DEF Unsettled
<1>5. held[t] = <<>>
  BY <1>1, <1>2 DEF CallOK
<1>6. Range(s) \subseteq Desc /\ \A x : x \in Range(s) <=> Has(s, 1, x) \/ Has(s, 2, x)
  BY DEF Range, Has
<1>7. \A x : ~(Has(s, 1, x) /\ Has(s, 2, x))
  BY DEF Has
<1>8. ASSUME NEW x \in Desc \ spoilt
      PROVE  refCount'[x] = Total(x)' /\ (x \in live' <=> refCount'[x] # 0) /\ refCount'[x] \in Nat
  <2>1. Names(x)' = Names(x) /\ Counting(x)' = Counting(x)
    BY <1>2, <1>3, <1>4, StillNamed, CountingSame
  <2>2. Cardinality(Opening(x)') =
           Cardinality(Opening(x)) + One(Has(held'[t], 1, x)) + One(Has(held'[t], 2, x))
                                   - One(Has(held[t], 1, x)) - One(Has(held[t], 2, x))
    BY <1>3, HeldStep
  <2>3. ~Has(held[t], 1, x) /\ ~Has(held[t], 2, x)
    BY <1>5 DEF Has
  <2>4. Cardinality(Opening(x)') = Cardinality(Opening(x)) + One(x \in Range(s))
    BY <1>3, <1>6, <1>7, <2>2, <2>3, CountsFinite DEF One
  <2>5. Total(x)' = Total(x) + One(x \in Range(s))
    BY <2>1, <2>4, CountsFinite DEF Total, One
  <2>6. Total(x) \in Nat /\ refCount[x] = Total(x) /\ (x \in live <=> refCount[x] # 0)
    BY TotalIs DEF Counts, CountOK
  <2>7. x \in Range(s) => x \notin live
    BY <1>2 DEF Range
  <2> QED
    BY <1>2, <2>5, <2>6, <2>7 DEF One
<1>9. live' \subseteq Desc /\ reg' \in [Thread -> Nat] /\ refCount' \in [Desc -> Nat]
  BY <1>2, <1>6 DEF Counts
<1> QED
  BY <1>2, <1>8, <1>9, CountsFollow

\* Exec gives up what it has opened.
LEMMA ExecCounts ==
  ASSUME Shape, Shape', Counts, NEW t \in Thread, ExecClose(t)
  PROVE  Counts'
<1>1. Types /\ CallOK(t)
  BY DEF Shape
<1>2. PICK d : d = Head(held[t])
  OBVIOUS
<1>3. /\ pc[t] = "add" /\ Len(held[t]) = 1 /\ fds' = fds /\ tab' = tab /\ sys' = sys
      /\ oldFD' = oldFD /\ alone' = alone /\ spoilt' = spoilt /\ reg' = reg
      /\ pc' = [pc EXCEPT ![t] = "idle"] /\ held' = [held EXCEPT ![t] = <<>>] /\ Close(d)
  BY <1>2 DEF ExecClose, tableVars, ptrVars, ghostVars, Set, Close, Recount
<1>4. /\ pc'[t] = "idle" /\ held'[t] = <<>>
      /\ \A u \in Thread \ {t} : pc'[u] = pc[u] /\ held'[u] = held[u]
  BY <1>1, <1>3 DEF Types
<1>5. /\ held[t] \in Seq(Desc) /\ d \in Desc /\ 1 \in DOMAIN held[t] /\ held[t][1] = d
      /\ 2 \notin DOMAIN held[t]
  <2>0. held[t] \in Seq(Desc)
    BY <1>1 DEF Types
  <2>1. held[t] \in Seq(Desc) /\ DOMAIN held[t] = 1 .. 1 /\ held[t] # <<>>
    BY <1>3, <2>0
  <2>2. 1 \in DOMAIN held[t] /\ 2 \notin DOMAIN held[t]
    BY <2>1
  <2>3. d = held[t][1]
    BY <1>2, <2>1
  <2> QED
    BY <2>1, <2>2, <2>3
<1>6. \A u \in Thread, r \in Table : \A k : Unsettled(u, r, k)' <=> Unsettled(u, r, k)
  BY <1>3, <1>4 DEF Unsettled
<1>7. ASSUME NEW x \in Desc
      PROVE  Total(x)' = Total(x) - One(x = d)
  <2>1. Names(x)' = Names(x) /\ Counting(x)' = Counting(x)
    BY <1>3, <1>4, <1>6, StillNamed, CountingSame
  <2>2. Cardinality(Opening(x)') =
           Cardinality(Opening(x)) + One(Has(held'[t], 1, x)) + One(Has(held'[t], 2, x))
                                   - One(Has(held[t], 1, x)) - One(Has(held[t], 2, x))
    BY <1>4, HeldStep
  <2>3. /\ ~Has(held'[t], 1, x) /\ ~Has(held'[t], 2, x) /\ ~Has(held[t], 2, x)
        /\ Has(held[t], 1, x) <=> x = d
    BY <1>4, <1>5 DEF Has
  <2>4. Cardinality(Opening(x)') = Cardinality(Opening(x)) - One(x = d)
    BY <2>2, <2>3, CountsFinite DEF One
  <2> QED
    BY <2>1, <2>4, CountsFinite DEF Total, One
<1>8. d \notin spoilt => d \in live
  <2>1. <<t, 1>> \in Opening(d)
    BY <1>5 DEF Opening
  <2> QED
    BY <1>5, <2>1, NamedLives
<1> QED
  BY <1>3, <1>5, <1>7, <1>8, CloseCounts

\* A table grows by an entry, which counts for what it names.
LEMMA GrowStep ==
  ASSUME Shape, Shape', NEW t \in Thread, pc[t] # "idle", pc[t] \notin Half, pc'[t] \notin Half,
         tab' = tab, alone' = alone,
         \A u \in Thread \ {t} : /\ pc'[u] = pc[u] /\ sys'[u] = sys[u]
                                 /\ tab[u] # tab[t] => oldFD'[u] = oldFD[u],
         NEW k \in 1 .. Len(fds[tab[t]]) + 1, NEW e, NEW m, Inserted(fds[tab[t]], k, e, m),
         fds' = [fds EXCEPT ![tab[t]] = m], NEW d \in Desc
  PROVE  /\ Cardinality(Names(d)') = Cardinality(Names(d)) + One(e.desc = d)
         /\ Counting(d)' = Counting(d)
<1>1. PICK p, s : p = tab[t] /\ s = fds[p]
  OBVIOUS
<1>2. p \in Table /\ s \in Seq(Entry) /\ fds \in [Table -> Seq(Entry)]
  BY <1>1, InTable DEF Shape, Types
<1>3. fds'[p] = m /\ \A r \in Table \ {p} : fds'[r] = fds[r]
  BY <1>1, <1>2
<1>4. \A u \in alone : u \in Thread /\ \A v \in Thread \ {u} : tab[v] # tab[u]
  BY DEF Shape, Types, CallOK, AloneOK
<1>5. \A u \in Thread : \A j : ~Unsettled(u, p, j) /\ ~Unsettled(u, p, j)'
  BY <1>1, <1>4 DEF Unsettled, Half
<1>6. \A u \in Thread, r \in Table \ {p} : \A j : Unsettled(u, r, j)' <=> Unsettled(u, r, j)
  BY <1>1 DEF Unsettled, Half
<1>7. k \in 1 .. Len(s) + 1 /\ Inserted(s, k, e, m)
  BY <1>1
<1>8. Cardinality(Names(d)') = Cardinality(Names(d)) + IF e.desc = d THEN 1 ELSE 0
  BY <1>1, <1>2, <1>3, <1>5, <1>6, <1>7, InsertNames
<1>9. Counting(d)' = Counting(d)
  BY CountingSame DEF Half
<1> QED
  BY <1>8, <1>9 DEF One

\* A descriptor is entered: its entry counts in place of the call that opened it.
LEMMA AddCounts ==
  ASSUME Shape, Shape', Counts, NEW t \in Thread, ThreadAddFileDescriptor(t)
  PROVE  Counts'
<1>1. Types /\ CallOK(t)
  BY DEF Shape
<1>2. PICK h, g : h = held[t] /\ g = Tail(h)
  OBVIOUS
<1>3. /\ pc[t] \in {"add", "added"}
      /\ held' = [held EXCEPT ![t] = g]
      /\ pc' = [pc EXCEPT ![t] = IF g = <<>> THEN "idle" ELSE "added"]
      /\ oldFD' = Moved(oldFD, tab[t])
      /\ tab' = tab /\ sys' = sys /\ reg' = reg /\ live' = live /\ refCount' = refCount
      /\ alone' = alone /\ spoilt' = spoilt
  BY <1>2 DEF ThreadAddFileDescriptor, Set, ghostVars, descVars
<1>4. PICK k \in 1 .. Len(fds[tab[t]]) + 1, e \in Entry, m \in Seq(Entry) :
        /\ e.desc = Head(held[t]) /\ Inserted(fds[tab[t]], k, e, m)
        /\ fds' = [fds EXCEPT ![tab[t]] = m] /\ Len(m) <= MaxEntries
  BY AddFacts
<1>5. h \in Seq(Desc) /\ Len(h) \in 1 .. 2 /\ g \in Seq(Desc) /\ Len(g) = Len(h) - 1 /\ h # <<>>
  BY <1>2, AddFacts
<1>6. \A u \in Thread : tab[u] # tab[t] => oldFD'[u] = oldFD[u]
  BY <1>1, <1>3, MovedIs DEF Types
<1>7. /\ pc[t] # "idle" /\ pc[t] \notin Half /\ pc'[t] \notin Half /\ held'[t] = g
      /\ \A u \in Thread \ {t} : pc'[u] = pc[u] /\ sys'[u] = sys[u] /\ held'[u] = held[u]
  BY <1>1, <1>3 DEF Types, Half
<1>8. ASSUME NEW x \in Desc
      PROVE  Total(x)' = Total(x)
  <2>1. /\ Cardinality(Names(x)') = Cardinality(Names(x)) + One(e.desc = x)
        /\ Counting(x)' = Counting(x)
    BY <1>3, <1>4, <1>6, <1>7, GrowStep
  <2>2. Cardinality(Opening(x)') =
           Cardinality(Opening(x)) + One(Has(g, 1, x)) + One(Has(g, 2, x))
                                   - One(Has(h, 1, x)) - One(Has(h, 2, x))
    BY <1>2, <1>7, HeldStep
  <2>3. /\ Has(h, 1, x) <=> e.desc = x
        /\ Has(g, 1, x) <=> Has(h, 2, x)
        /\ ~Has(g, 2, x)
    <3>1. Head(h) = h[1] /\ 1 \in DOMAIN h
      BY <1>5
    <3>2. \A j \in 1 .. Len(g) : g[j] = h[j + 1]
      BY <1>2, <1>5
    <3>3. DOMAIN g = 1 .. Len(h) - 1 /\ DOMAIN h = 1 .. Len(h)
      BY <1>5
    <3>4. 1 \in DOMAIN g <=> 2 \in DOMAIN h
      BY <1>5, <3>3
    <3>5. 2 \notin DOMAIN g
      BY <1>5, <3>3
    <3>6. 1 \in DOMAIN g => g[1] = h[2]
      BY <1>5, <3>2, <3>3
    <3> QED
      BY <1>2, <1>4, <3>1, <3>4, <3>5, <3>6 DEF Has
  <2>4. Cardinality(Opening(x)') = Cardinality(Opening(x)) - One(e.desc = x)
    BY <2>2, <2>3, CountsFinite DEF One
  <2> QED
    BY <2>1, <2>4, CountsFinite DEF Total, One
<1> QED
  BY <1>3, <1>8, SameCounts DEF Counts

\* The entry to copy to names nothing.
LEMMA NewEntryCounts ==
  ASSUME Shape, Shape', Counts, NEW t \in Thread, ReplaceInsert(t)
  PROVE  Counts'
<1>1. Types /\ CallOK(t)
  BY DEF Shape
<1>2. /\ pc[t] = "insert" /\ pc' = [pc EXCEPT ![t] = "copy"]
      /\ tab' = tab /\ sys' = sys /\ held' = held /\ reg' = reg
      /\ live' = live /\ refCount' = refCount /\ alone' = alone /\ spoilt' = spoilt
  BY DEF ReplaceInsert, Set, ghostVars, descVars
<1>3. PICK k \in 1 .. Len(fds[tab[t]]) + 1, e \in Entry, m \in Seq(Entry) :
        /\ e.desc = None /\ Inserted(fds[tab[t]], k, e, m)
        /\ fds' = [fds EXCEPT ![tab[t]] = m] /\ Len(m) <= MaxEntries
        /\ oldFD' = [Moved(oldFD, tab[t]) EXCEPT ![t] = k]
  BY NewEntryFacts
<1>4. \A u \in Thread \ {t} : tab[u] # tab[t] => oldFD'[u] = oldFD[u]
  <2>1. /\ Moved(oldFD, tab[t]) \in [Thread -> Pointer]
        /\ \A u \in Thread : tab[u] # tab[t] => Moved(oldFD, tab[t])[u] = oldFD[u]
    BY <1>1, MovedIs DEF Types
  <2> QED
    BY <1>3, <2>1
<1>5. /\ pc[t] # "idle" /\ pc[t] \notin Half /\ pc'[t] \notin Half
      /\ \A u \in Thread \ {t} : pc'[u] = pc[u] /\ sys'[u] = sys[u]
  BY <1>1, <1>2 DEF Types, Half
<1>6. ASSUME NEW x \in Desc
      PROVE  Total(x)' = Total(x)
  <2>1. /\ Cardinality(Names(x)') = Cardinality(Names(x)) + One(e.desc = x)
        /\ Counting(x)' = Counting(x)
    BY <1>2, <1>3, <1>4, <1>5, GrowStep
  <2>2. Opening(x)' = Opening(x)
    BY <1>2 DEF Opening
  <2>3. One(e.desc = x) = 0
    BY <1>3, DescriptorsAssumption DEF One
  <2> QED
    BY <2>1, <2>2, <2>3, CountsFinite DEF Total
<1> QED
  BY <1>2, <1>6, SameCounts DEF Counts

\* A new thread of a process counts for nothing.
LEMMA ShareCounts ==
  ASSUME Shape, Shape', Counts, NEW t \in Thread, NEW u \in Thread, CloneShare(t, u)
  PROVE  Counts'
<1>1. Types /\ CallOK(u)
  BY DEF Shape
<1>2. /\ tab[u] = None /\ tab' = [tab EXCEPT ![u] = tab[t]] /\ fds' = fds
      /\ pc' = pc /\ held' = held /\ sys' = sys /\ oldFD' = oldFD /\ reg' = reg
      /\ live' = live /\ refCount' = refCount /\ alone' = alone /\ spoilt' = spoilt
  BY DEF CloneShare, Set, descVars, ptrVars, ghostVars
<1>3. pc[u] = "idle" /\ \A v \in Thread \ {u} : tab'[v] = tab[v]
  BY <1>1, <1>2 DEF CallOK, Types
<1>4. \A v \in Thread, r \in Table : \A k : Unsettled(v, r, k)' <=> Unsettled(v, r, k)
  BY <1>2, <1>3 DEF Unsettled
<1>5. ASSUME NEW x \in Desc
      PROVE  Total(x)' = Total(x)
  <2>1. Names(x)' = Names(x)
    BY <1>2, <1>4, StillNamed
  <2>2. Opening(x)' = Opening(x) /\ Counting(x)' = Counting(x)
    BY <1>2 DEF Opening, Counting
  <2> QED
    BY <2>1, <2>2 DEF Total
<1> QED
  BY <1>2, <1>5, SameCounts DEF Counts

\* No copyfd has left anything unsettled in a table with a thread that is at none.
LEMMA AllSettled ==
  ASSUME Shape, NEW t \in Thread, tab[t] # None, pc[t] \notin CopyPC
  PROVE  \A u \in Thread : \A k : ~Unsettled(u, tab[t], k)
<1>1. \A u \in alone : u \in Thread /\ \A v \in Thread \ {u} : tab[v] # tab[u]
  BY DEF Shape, Types, CallOK, AloneOK
<1> QED
  BY <1>1 DEF Unsettled, CopyPC

\* A child's entries count.
LEMMA ForkCounts ==
  ASSUME Shape, Shape', Counts, NEW t \in Thread, NEW u \in Thread, NEW q \in Table,
         CloneFork(t, u, q)
  PROVE  Counts'
<1>1. Types /\ CallOK(u)
  BY DEF Shape
<1>2. PICK p : p = tab[t]
  OBVIOUS
<1>3. /\ p # None /\ pc[t] = "idle" /\ tab[u] = None /\ tab' = [tab EXCEPT ![u] = q]
      /\ pc' = pc /\ held' = held /\ sys' = sys /\ oldFD' = oldFD /\ reg' = reg
      /\ alone' = alone /\ spoilt' = spoilt
      /\ Recount(live, [d \in Desc |-> refCount[d] + Uses(p, d)])
  BY <1>2 DEF CloneFork, Idle, Set, ptrVars, ghostVars, Recount
<1>4. /\ p \in Table /\ fds[p] \in Seq(Entry) /\ q # p /\ fds[q] = <<>>
      /\ \A v \in Thread : tab[v] # q
  BY <1>2, ForkFacts
<1>5. PICK c, f : fds' = [fds EXCEPT ![q] = c] /\ CopyOf(p, c, f)
  BY <1>2, ForkFacts
<1>6. fds'[q] = c /\ \A r \in Table \ {q} : fds'[r] = fds[r]
  BY <1>1, <1>5 DEF Types
<1>7. pc[u] = "idle" /\ \A v \in Thread : tab'[v] = IF v = u THEN q ELSE tab[v]
  BY <1>1, <1>3 DEF CallOK, Types
<1>8. /\ \A v \in Thread : \A r, k : Unsettled(v, r, k)' <=> r # None /\ Unsettled(v, r, k)
      /\ \A v \in Thread : \A k : ~Unsettled(v, p, k)
      /\ \A v \in Thread : \A k : ~Unsettled(v, q, k)'
  <2>1. \A v \in Thread : tab[v] = None => pc[v] = "idle"
    BY DEF Shape, CallOK
  <2>2. \A v \in Thread : \A r, k : Unsettled(v, r, k)' <=> r # None /\ Unsettled(v, r, k)
    BY <1>3, <1>4, <1>7, <2>1, DescriptorsAssumption DEF Unsettled
  <2>3. \A v \in Thread : \A k : ~Unsettled(v, p, k)
    BY <1>2, <1>3, AllSettled DEF CopyPC
  <2>4. \A v \in Thread : \A k : ~Unsettled(v, q, k)
    BY <1>4 DEF Unsettled
  <2> QED
    BY <2>2, <2>3, <2>4
<1>9. \A d \in Desc : Uses(p, d) \in Nat /\ Cardinality(Within(p, d)) = Uses(p, d)
                      /\ Within(p, d) \subseteq Names(d)
  BY <1>4, <1>8, CountedNow, Zenon DEF TableCounted
<1>10. ASSUME NEW d \in Desc
       PROVE  /\ Within(q, d)' \subseteq Names(d)' /\ IsFiniteSet(Within(q, d)')
              /\ Cardinality(Within(q, d)') = Uses(p, d)
  <2>1. /\ Within(q, d)' \subseteq Names(d)' /\ IsFiniteSet(Within(q, d)')
        /\ Cardinality(Within(q, d)') = Uses(q, d)'
    BY <1>8, CountedNext, Zenon DEF TableCounted
  <2>2. Uses(q, d)' = Uses(p, d)
    BY <1>4, <1>5, <1>6, ForkUses
  <2> QED
    BY <2>1, <2>2
<1>11. ASSUME NEW d \in Desc
       PROVE  Names(d) = Names(d)' \ Within(q, d)'
  <2>1. PICK X, Y, I : X = Names(d)' \ Within(q, d)' /\ Y = Names(d) /\ I = 1 .. MaxEntries
    OBVIOUS
  <2>2. Y \subseteq Table \X I /\ X \subseteq Table \X I
    BY <2>1, NamesAre, NamesNext
  <2>3. \A r \in Table, k \in 1 .. MaxEntries : <<r, k>> \in X <=> Named(r, k, d)' /\ r # q
    BY <2>1, NamesNext DEF Within
  <2>4. \A r \in Table : \A k : Named(r, k, d) <=> Named(r, k, d)' /\ r # q
    <3>1. \A k : ~Named(q, k, d)
      BY <1>4 DEF Named
    <3>2. \A r \in Table \ {q} : \A k : Named(r, k, d)' <=> Named(r, k, d)
      BY <1>6, <1>8, DescriptorsAssumption DEF Named
    <3> QED
      BY <3>1, <3>2
  <2>5. \A r \in Table, k \in I : <<r, k>> \in Y <=> <<r, k>> \in X
    BY <2>1, <2>3, <2>4, NamesAre
  <2>6. Y = X
    BY <2>2, <2>5, SMTT(30)
  <2> QED
    BY <2>1, <2>6
<1>12. \A d \in Desc : Opening(d)' = Opening(d) /\ Counting(d)' = Counting(d)
  BY <1>3 DEF Opening, Counting
<1>13. ASSUME NEW d \in Desc
       PROVE  Total(d)' = Total(d) + Uses(p, d)
  <2>1. PICK N, W : N = Names(d)' /\ W = Within(q, d)'
    OBVIOUS
  <2>2. /\ IsFiniteSet(N) /\ IsFiniteSet(W) /\ N \cap W = W /\ Names(d) = N \ W
        /\ Cardinality(W) = Uses(p, d) /\ Cardinality(N) \in Nat
    BY <1>10, <1>11, <2>1, FiniteNext
  <2>3. Cardinality(N \ W) = Cardinality(N) - Cardinality(N \cap W)
    BY <2>2, FS_Difference
  <2>4. Cardinality(Names(d)') = Cardinality(Names(d)) + Uses(p, d)
    BY <1>9, <2>1, <2>2, <2>3
  <2> QED
    BY <1>9, <1>12, <2>4, CountsFinite DEF Total
<1>14. PICK L, g : L = live /\ g = [d \in Desc |-> refCount[d] + Uses(p, d)]
  OBVIOUS
<1>15. ASSUME NEW x \in Desc \ spoilt
       PROVE  g[x] = Total(x)' /\ g[x] \in Nat /\ (x \in L <=> g[x] # 0)
  <2>1. Total(x) \in Nat /\ refCount[x] = Total(x) /\ (x \in live <=> refCount[x] # 0)
    BY TotalIs DEF Counts, CountOK
  <2>2. Uses(p, x) \in Nat /\ g[x] = refCount[x] + Uses(p, x) /\ Total(x)' = Total(x) + Uses(p, x)
    BY <1>9, <1>13, <1>14
  <2>3. Uses(p, x) # 0 => Names(x) # {}
    <3>1. Names(x) = {} => Within(p, x) = {}
      BY <1>9
    <3> QED
      BY <1>9, <3>1, FS_EmptySet
  <2>4. Uses(p, x) # 0 => Total(x) # 0
    BY <2>3, TotalIs
  <2> QED
    BY <1>14, <2>1, <2>2, <2>4
<1>16. L \subseteq Desc /\ Recount(L, g) /\ reg' \in [Thread -> Nat]
  BY <1>3, <1>14 DEF Counts, Recount
<1> QED
  BY <1>3, <1>15, <1>16, RecountStep

\* A thread that leaves its table, the last one with all that the table names.
LEMMA LeaveCounts ==
  ASSUME Shape, Shape', Counts, NEW t \in Thread, tab[t] # None,
         pc[t] \notin CopyPC \cup {"use"}, Leave(t),
         pc' = [pc EXCEPT ![t] = "idle"], held' = [held EXCEPT ![t] = <<>>],
         sys' = sys, oldFD' = oldFD, reg' = reg, alone' = alone, spoilt \subseteq spoilt',
         \A x \in Desc \ spoilt' : ~Has(held[t], 1, x) /\ ~Has(held[t], 2, x)
  PROVE  Counts'
<1>1. Types
  BY DEF Shape
<1>2. PICK p : p = tab[t]
  OBVIOUS
<1>3. /\ p \in Table /\ tab' = [tab EXCEPT ![t] = None]
      /\ pc[t] \notin {"closed", "counted", "addref"}
  BY <1>1, <1>2 DEF Leave, Set, Types, CopyPC
<1>4. /\ pc'[t] = "idle" /\ held'[t] = <<>> /\ tab'[t] = None
      /\ \A u \in Thread \ {t} : pc'[u] = pc[u] /\ held'[u] = held[u] /\ tab'[u] = tab[u]
  BY <1>1, <1>3 DEF Types
<1>5. \A u \in Thread, r \in Table : \A k : Unsettled(u, r, k)' <=> Unsettled(u, r, k)
  BY <1>3, <1>4 DEF Unsettled
<1>6. ASSUME NEW x \in Desc \ spoilt'
      PROVE  /\ Cardinality(Opening(x)') = Cardinality(Opening(x))
             /\ Counting(x)' = Counting(x)
  <2>1. Counting(x)' = Counting(x)
    BY <1>3, <1>4, CountingSame
  <2>2. Cardinality(Opening(x)') =
           Cardinality(Opening(x)) + One(Has(held'[t], 1, x)) + One(Has(held'[t], 2, x))
                                   - One(Has(held[t], 1, x)) - One(Has(held[t], 2, x))
    BY <1>4, HeldStep
  <2>3. /\ ~Has(held'[t], 1, x) /\ ~Has(held'[t], 2, x)
        /\ ~Has(held[t], 1, x) /\ ~Has(held[t], 2, x)
    BY <1>4 DEF Has
  <2> QED
    BY <2>1, <2>2, <2>3, CountsFinite DEF One
<1>7. CASE users[p] # 1
  <2>1. fds' = fds /\ Recount(live, refCount)
    BY <1>2, <1>7 DEF Leave, Recount
  <2>2. ASSUME NEW x \in Desc \ spoilt'
        PROVE  refCount[x] = Total(x)' /\ refCount[x] \in Nat /\ (x \in live <=> refCount[x] # 0)
    <3>1. Names(x)' = Names(x)
      BY <1>5, <2>1, StillNamed
    <3>2. Total(x)' = Total(x)
      BY <1>6, <3>1 DEF Total
    <3> QED
      BY <3>2, TotalIs DEF Counts, CountOK
  <2>3. live \subseteq Desc /\ reg' \in [Thread -> Nat]
    BY DEF Counts
  <2> QED
    BY <2>1, <2>2, <2>3, RecountStep
<1>8. CASE users[p] = 1
  <2>1. PICK L, f : /\ L = {d \in live : refCount[d] \notin 1 .. Uses(p, d)}
                    /\ f = [d \in Desc |-> refCount[d] - Uses(p, d)]
    OBVIOUS
  <2>2. fds' = [fds EXCEPT ![p] = <<>>] /\ Recount(L, f)
    BY <1>2, <1>8, <2>1 DEF Leave, Set, Recount
  <2>3. Of(p) = {t}
    BY <1>2, <1>3, <1>8, LastIsAlone
  <2>4. \A u \in Thread : \A k : ~Unsettled(u, p, k)
    BY <1>3, <2>3 DEF Unsettled, Of
  <2>5. \A d \in Desc :
          /\ Within(p, d) \subseteq Names(d)
          /\ IsFiniteSet(Within(p, d)) /\ Cardinality(Within(p, d)) = Uses(p, d)
          /\ Uses(p, d) \in Nat
    BY <1>3, <2>4, CountedNow, Zenon DEF TableCounted
  <2>6. fds'[p] = <<>> /\ \A r \in Table \ {p} : fds'[r] = fds[r]
    BY <1>1, <1>3, <2>2 DEF Types
  <2>7. ASSUME NEW d \in Desc
        PROVE  Names(d)' = Names(d) \ Within(p, d)
    <3>1. PICK X, Y, I : X = Names(d) \ Within(p, d) /\ Y = Names(d)' /\ I = 1 .. MaxEntries
      OBVIOUS
    <3>2. Y \subseteq Table \X I /\ X \subseteq Table \X I
      BY <3>1, NamesAre, NamesNext
    <3>3. \A r \in Table, k \in 1 .. MaxEntries : <<r, k>> \in X <=> Named(r, k, d) /\ r # p
      BY <3>1, NamesAre DEF Within
    <3>4. \A r \in Table : \A k : Named(r, k, d)' <=> Named(r, k, d) /\ r # p
      <4>1. \A k : ~Named(p, k, d)'
        BY <2>6 DEF Named
      <4>2. \A r \in Table \ {p} : \A k : Named(r, k, d)' <=> Named(r, k, d)
        BY <1>5, <2>6 DEF Named
      <4> QED
        BY <4>1, <4>2
    <3>5. \A r \in Table, k \in I : <<r, k>> \in Y <=> <<r, k>> \in X
      BY <3>1, <3>3, <3>4, NamesNext
    <3>6. Y = X
      BY <3>2, <3>5, SMTT(30)
    <3> QED
      BY <3>1, <3>6
  <2>8. ASSUME NEW x \in Desc \ spoilt'
        PROVE  /\ Total(x)' = Total(x) - Uses(p, x)
               /\ Uses(p, x) \in Nat /\ Uses(p, x) <= Total(x)
    <3>1. /\ Names(x) \cap Within(p, x) = Within(p, x) /\ IsFiniteSet(Names(x))
          /\ IsFiniteSet(Within(p, x)) /\ Uses(p, x) \in Nat
          /\ Cardinality(Within(p, x)) = Uses(p, x)
      BY <2>5, CountsFinite
    <3>2. Cardinality(Names(x) \ Within(p, x)) = Cardinality(Names(x)) - Cardinality(Within(p, x))
      BY <3>1, FS_Difference
    <3>3. Cardinality(Names(x)') = Cardinality(Names(x)) - Uses(p, x)
      BY <2>7, <3>1, <3>2
    <3>4. Cardinality(Names(x)') \in Nat
      BY FiniteNext
    <3>5. PICK a, b, c, e : /\ a = Cardinality(Names(x)) /\ b = Cardinality(Opening(x))
                            /\ c = Cardinality(Counting(x)) /\ e = Cardinality(Names(x)')
      OBVIOUS
    <3>6. a \in Nat /\ b \in Nat /\ c \in Nat /\ e \in Nat
      BY <3>4, <3>5, CountsFinite
    <3>7. Total(x) = a + b + c /\ Total(x)' = e + b + c /\ e = a - Uses(p, x)
      BY <1>6, <3>3, <3>5 DEF Total
    <3> QED
      BY <3>1, <3>6, <3>7
  <2>9. ASSUME NEW x \in Desc \ spoilt'
        PROVE  f[x] = Total(x)' /\ f[x] \in Nat /\ (x \in L <=> f[x] # 0)
    <3>1. Total(x) \in Nat /\ refCount[x] = Total(x) /\ (x \in live <=> refCount[x] # 0)
      BY TotalIs DEF Counts, CountOK
    <3>2. f[x] = refCount[x] - Uses(p, x)
      BY <2>1
    <3>3. x \in L <=> x \in live /\ refCount[x] \notin 1 .. Uses(p, x)
      BY <2>1
    <3> QED
      BY <2>8, <3>1, <3>2, <3>3
  <2>10. L \subseteq Desc /\ reg' \in [Thread -> Nat]
    BY <2>1 DEF Counts
  <2> QED
    BY <2>2, <2>9, <2>10, RecountStep
<1> QED
  BY <1>7, <1>8

\* An exit, and one in the middle of syscall_pipe.
LEMMA ExitCounts ==
  ASSUME Shape, Shape', Counts, NEW t \in Thread, ThreadExit(t) \/ PipeFault(t)
  PROVE  Counts'
<1>1. Types /\ CallOK(t)
  BY DEF Shape
<1>2. CASE ThreadExit(t)
  <2>1. /\ tab[t] # None /\ pc[t] = "idle" /\ pc' = pc /\ held' = held /\ sys' = sys
        /\ oldFD' = oldFD /\ reg' = reg /\ alone' = alone /\ spoilt' = spoilt /\ Leave(t)
    BY <1>2 DEF ThreadExit, Idle, ptrVars, ghostVars, Leave, Recount, Set
  <2>2. held[t] = <<>> /\ pc[t] \notin CopyPC \cup {"use"}
    BY <1>1, <2>1 DEF CallOK, CopyPC
  <2>3. pc' = [pc EXCEPT ![t] = "idle"] /\ held' = [held EXCEPT ![t] = <<>>]
    BY <1>1, <2>1, <2>2 DEF Types
  <2>4. \A x : ~Has(held[t], 1, x) /\ ~Has(held[t], 2, x)
    BY <2>2 DEF Has
  <2> QED
    BY <2>1, <2>2, <2>3, <2>4, LeaveCounts
<1>3. CASE PipeFault(t)
  <2>1. /\ pc[t] = "added" /\ spoilt' = spoilt \cup Range(held[t])
        /\ pc' = [pc EXCEPT ![t] = "idle"] /\ held' = [held EXCEPT ![t] = <<>>]
        /\ sys' = sys /\ oldFD' = oldFD /\ reg' = reg /\ alone' = alone /\ Leave(t)
    BY <1>3 DEF PipeFault, ptrVars, Leave, Recount, Set
  <2>2. tab[t] # None /\ pc[t] \notin CopyPC \cup {"use"}
    BY <1>1, <2>1 DEF CallOK, CopyPC
  <2>3. \A x \in Desc \ spoilt' : ~Has(held[t], 1, x) /\ ~Has(held[t], 2, x)
    BY <2>1 DEF Has, Range
  <2> QED
    BY <2>1, <2>2, <2>3, LeaveCounts
<1> QED
  BY <1>2, <1>3

\* Every step keeps the counts.
LEMMA CountsStep == Shape /\ Shape' /\ Counts /\ [Next]_vars => Counts'
<1> SUFFICES ASSUME Shape, Shape', Counts, [Next]_vars
             PROVE  Counts'
  OBVIOUS
<1>1. CASE UNCHANGED vars
  <2>1. /\ live' = live /\ refCount' = refCount /\ fds' = fds /\ tab' = tab /\ pc' = pc
        /\ held' = held /\ sys' = sys /\ oldFD' = oldFD /\ reg' = reg
        /\ alone' = alone /\ spoilt' = spoilt
    BY <1>1 DEF vars, descVars, tableVars, ptrVars, ghostVars
  <2>2. \A u \in Thread, r \in Table : \A k : Unsettled(u, r, k)' <=> Unsettled(u, r, k)
    BY <2>1 DEF Unsettled
  <2>3. \A x \in Desc : Names(x)' = Names(x)
    BY <2>1, <2>2, StillNamed
  <2>4. \A x \in Desc : Opening(x)' = Opening(x) /\ Counting(x)' = Counting(x)
    BY <2>1 DEF Opening, Counting
  <2>5. \A x \in Desc : Total(x)' = Total(x)
    BY <2>3, <2>4 DEF Total
  <2>6. reg' \in [Thread -> Nat]
    BY <2>1 DEF Counts
  <2> QED
    BY <2>1, <2>5, <2>6, SameCounts
<1>2. CASE Next
  <2>1. PICK t \in Thread :
          \/ \E d \in Desc : Open(t, <<d>>)
          \/ \E d, e \in Desc : d # e /\ Open(t, <<d, e>>)
          \/ ExecClose(t) \/ ThreadAddFileDescriptor(t) \/ UseReturn(t)
          \/ \E i \in Fd : ThreadGetSystemFileDescriptor(t, i) \/ ThreadCloseFileDescriptor(t, i)
          \/ \E i, j \in Fd : ReplaceFind(t, i, j)
          \/ ReplaceInvalid(t) \/ ReplaceValid(t) \/ ReplaceInsert(t)
          \/ CopyEmpty(t) \/ CopyFill(t) \/ CopyAddRef(t) \/ CopySame(t) \/ CopyClose(t)
          \/ CloseStore(t) \/ CopyCount(t) \/ CopyAssign(t)
          \/ \E u \in Thread : CloneShare(t, u) \/ \E q \in Table : CloneFork(t, u, q)
          \/ ThreadExit(t) \/ PipeFault(t)
    BY <1>2 DEF Next
  <2>2. ASSUME NEW d \in Desc, Open(t, <<d>>)
        PROVE  Counts'
    <3>1. PICK s : s = <<d>>
      OBVIOUS
    <3>2. s \in Seq(Desc) /\ Len(s) = 1 /\ Open(t, s)
      BY <2>2, <3>1
    <3> QED
      BY <3>2, OpenCounts
  <2>3. ASSUME NEW d \in Desc, NEW e \in Desc, d # e, Open(t, <<d, e>>)
        PROVE  Counts'
    <3>1. PICK s : s = <<d, e>>
      OBVIOUS
    <3>2. s \in Seq(Desc) /\ Len(s) = 2 /\ s[1] # s[2] /\ Open(t, s)
      BY <2>3, <3>1
    <3> QED
      BY <3>2, OpenCounts
  <2> QED
    BY <2>1, <2>2, <2>3, ExecCounts, AddCounts, LookCounts, NumberCounts, NewEntryCounts,
       ReadCounts, FillCounts, AddRefCounts, StoreCounts, CountCounts, AssignCounts,
       ShareCounts, ForkCounts, ExitCounts
<1> QED
  BY <1>1, <1>2

\* No step of any thread makes a count wrong but those that spoil it.
THEOREM CountsInductive == Spec => [](Shape /\ Counts)
<1>1. Init => Counts
  BY CountsInit
<1>2. Shape /\ Shape' /\ Counts /\ [Next]_vars => Counts'
  BY CountsStep
<1> QED
  BY <1>1, <1>2, ShapeInductive, PTL DEF Spec

\* Every entry, pointer and count stays what it is, also where copyfd works through
\* pointers into memory that the vector has left.
THEOREM DescriptorsTypeCorrect == Spec => []TypeOK
<1>1. Shape /\ Counts => TypeOK
  BY DEF Shape, Types, Counts, TypeOK
<1> QED
  BY <1>1, CountsInductive, PTL

\* A descriptor counts the entries that name it and the calls that hold it, in
\* every process, unless a copyfd among several threads, through a pointer that
\* has become bad or over the count of another process has spoilt it, or a fault
\* in syscall_pipe.
THEOREM CountsExact == Spec => []RefsExact
<1>1. Shape /\ Counts => RefsExact
  <2> SUFFICES ASSUME Shape, Counts, NEW d \in Desc \ spoilt
               PROVE  (IF d \in live THEN refCount[d] ELSE 0) = Total(d)
    BY DEF RefsExact, Total
  <2>1. CountOK(d)
    BY DEF Counts
  <2> QED
    BY <2>1 DEF CountOK
<1> QED
  BY <1>1, CountsInductive, PTL

\* What the only thread of a process reads, writes or closes by copyfd is not
\* deleted under it by the processes that share it, with the same exceptions.
THEOREM NoUseAfterClose == Spec => []UsesLive
<1>1. Shape /\ Counts => UsesLive
  <2> SUFFICES ASSUME Shape, Counts, NEW t \in alone, pc[t] \in {"use", "store"},
                      sys[t] \notin spoilt
               PROVE  sys[t] \in live
    BY DEF UsesLive
  <2>1. t \in Thread /\ CallOK(t) /\ AloneOK(t) /\ Types
    BY DEF Shape, Types, CallOK
  <2>2. PICK d, p : d = sys[t] /\ p = tab[t]
    OBVIOUS
  <2>3. d \in Desc /\ p \in Table
    BY <2>1, <2>2 DEF CallOK, Types
  <2>4. \E k \in DOMAIN fds[p] : fds[p][k].desc = d
    BY <2>1, <2>2 DEF AloneOK, CopyPC
  <2>5. \A u \in Thread : \A k : ~Unsettled(u, p, k)
    BY <2>1, <2>2 DEF AloneOK, Unsettled
  <2>6. \E k : Named(p, k, d)
    BY <2>4, <2>5 DEF Named
  <2> QED
    BY <2>2, <2>3, <2>6, NamedLives
<1> QED
  BY <1>1, CountsInductive, PTL
===============================================================================
