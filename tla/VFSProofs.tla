------------------------------- MODULE VFSProofs -------------------------------
(***************************************************************************)
(* Proofs about module VFS.  Whatever calls run at the same time, the       *)
(* reference counts are exact and no node in the cache is deleted while it  *)
(* is used (Own).  As long as no calls in conflict have run at the same     *)
(* time, the link counts are exact and the calls implement module           *)
(* NameSpace (Inv).                                                         *)
(*                                                                         *)
(* The argument for Inv rests on where things are.  There is a function "place"    *)
(* from directories to paths such that an entry that names a directory     *)
(* leads to its place.  A walk then stands at a prefix of a path that its   *)
(* call may reach, and a call that deletes or creates that name would be in *)
(* conflict with it.                                                        *)
(***************************************************************************)
EXTENDS VFS, FiniteSetTheorems, SequenceTheorems, TLAPS

Named(n) == \E l \in Links : l.id = n

Linked(d, n, i) == [dir |-> d, name |-> n, id |-> i] \in Links

\* The place of directory d can be reached from the root.
Rooted(d) == d = Root \/ Named(d)

Releasing(t) == pc[t] \in {"release", "destroy"}

\* Where t is, or goes on when it has released what it has to.
Point(t) == IF Releasing(t) THEN then[t] ELSE pc[t]

\* What the variables of a thread hold at each point of its call.
Shape(t) ==
  /\ pc[t] = "idle" =>
       call[t] = NoCall /\ cur[t] = None /\ file[t] = None /\ src[t] = None
  /\ pc[t] = "root" => cur[t] = None /\ file[t] = None
  /\ pc[t] \in {"load", "wait"} =>
       \/ then[t] = "walk" /\ cur[t] = Root /\ file[t] = None
       \/ then[t] = "found" /\ cur[t] \in NodeId /\ file[t] \in Id /\ name[t] \in Name
  /\ pc[t] = "walk" => cur[t] \in NodeId /\ file[t] = None
  /\ pc[t] \in {"next", "found", "unlink", "unlinked"} =>
       cur[t] \in NodeId /\ file[t] \in Id /\ name[t] \in Name
  /\ pc[t] = "absent" =>
       /\ cur[t] \in NodeId /\ file[t] = None /\ name[t] \in Name
       /\ path[t] = <<>> /\ MayCreate(t)
  /\ pc[t] = "add" =>
       /\ cur[t] \in NodeId /\ file[t] \in Id /\ name[t] \in Name
       /\ path[t] = <<>> /\ Makes(call[t]) /\ src[t] = None
  /\ pc[t] \in {"unlink", "unlinked"} => path[t] = <<>> /\ call[t].op = "delete"
  /\ Releasing(t) =>
       /\ Len(todo[t]) \in 1 .. 3
       /\ file[t] = None
       /\ \/ then[t] = "idle" /\ cur[t] = None /\ src[t] = None
          \/ then[t] = "root" /\ cur[t] = None /\ call[t] \in Call
          \/ then[t] = "walk" /\ cur[t] \in NodeId /\ call[t] \in Call
  /\ ~Releasing(t) => todo[t] = <<>>
  /\ ~Releasing(t) /\ pc[t] # "idle" => call[t] \in Call
  /\ src[t] # None => call[t].op = "link"

\* A call of Open works for a thread that has no descriptor yet.
Closed(t) ==
  (Releasing(t) => then[t] # "idle") /\ call[t].op \in {"open", "opencreate"} =>
    opened[t] = None

\* A node that t looks at has been read.
Ready(t) ==
  /\ (pc[t] \notin {"load", "wait"} \/ then[t] # "walk") /\ cur[t] # None => ready[cur[t]]
  /\ pc[t] \notin {"load", "wait", "next"} /\ file[t] # None => ready[file[t]]
  /\ src[t] # None => ready[src[t]]

\* refCount counts the references that are held and those that were left behind.
Refs ==
  \A n \in NodeId :
    refCount[n] = References(n) + lost[n] /\ (n \notin cached => refCount[n] = 0)

\* What holds whatever calls run at the same time.
Own == TypeOK /\ Refs /\ \A t \in Thread : Shape(t) /\ Closed(t) /\ Ready(t)

\* What a thread knows of the nodes it uses.
Knows(t) ==
  /\ pc[t] \in {"load", "wait"} => then[t] = "walk"
  /\ pc[t] \notin {"load", "wait"} /\ cur[t] = Root => ready[Root]
  /\ \A k \in 1 .. Len(todo[t]) : todo[t][k] = Root => ready[Root]
  /\ pc[t] = "destroy" =>
       /\ Head(todo[t]) \in stored \ cached
       /\ Head(todo[t]) # Root
       /\ ~Named(Head(todo[t]))
  /\ src[t] # None => type[src[t]] = "file"
  /\ pc[t] = "add" => \/ type[file[t]] = "file"
                      \/ type[file[t]] = "symlink" /\ call[t].op = "symlink"
                      \/ type[file[t]] = "dir" /\ call[t].op = "mkdir"

\* The paths that t may come to on its present walk.
Goal(t) ==
  Reach(IF call[t].op = "link" /\ src[t] = None THEN call[t].from ELSE call[t].path)

\* Where t stands, and what it has found there and nobody may change meanwhile.
Stands(t, place) ==
  /\ Point(t) = "root" => path[t] \in Goal(t)
  /\ Point(t) \in {"load", "wait", "walk"} =>
       (type[cur[t]] = "dir" => place[cur[t]] \o path[t] \in Goal(t) /\ Rooted(cur[t]))
  /\ pc[t] \in {"next", "found", "unlink"} =>
       Linked(cur[t], name[t], file[t])
  /\ pc[t] \in {"absent", "add"} =>
       \A l \in Links : ~(l.dir = cur[t] /\ l.name = name[t])
  /\ pc[t] \in {"next", "found", "absent", "add", "unlink"} =>
       /\ type[cur[t]] = "dir" /\ Rooted(cur[t])
       /\ Append(place[cur[t]], name[t]) \o path[t] \in
            IF pc[t] = "add" THEN Reach(call[t].path) ELSE Goal(t)
  /\ pc[t] = "add" /\ type[file[t]] = "dir" =>
       place[file[t]] = Append(place[cur[t]], name[t])
  /\ pc[t] = "unlink" /\ type[file[t]] = "dir" => \A l \in Links : l.dir # file[t]

\* Nodes in the cache, and the references of each.
Nodes ==
  /\ cached \subseteq stored
  /\ Root \in stored /\ type[Root] = "dir"
  /\ ready[Root] => Root \in cached /\ linkCount[Root] = 1
  /\ \A n \in cached \ {Root} : ready[n]
  /\ \A n \in NodeId : lost[n] = 0
  /\ \A n \in NodeId : refCount[n] = References(n)
  /\ \A n \in NodeId \ cached : refCount[n] = 0

\* Entries of directories.
Entries ==
  /\ \A l \in Links : l.id \in cached /\ type[l.dir] = "dir" /\ Rooted(l.dir)
  /\ \A d \in stored : \A j, k \in 1 .. Len(dir[d]) :
       dir[d][j].name = dir[d][k].name => j = k

Pending(n) == {t \in Thread : pc[t] \in {"add", "unlinked"} /\ file[t] = n}

\* Each name of a node is counted.
Counted ==
  /\ IsFiniteSet(Links)
  /\ \A n \in cached \ {Root} :
       linkCount[n] = Cardinality({l \in Links : l.id = n}) + Cardinality(Pending(n))

\* A symbolic link is made at q.
LinkSpot(q) == \E c \in Call : c.op = "symlink" /\ (q = c.path \/ IsPrefix(LinkPath, q))

Places(place) ==
  /\ place[Root] = <<>>
  /\ \A l \in Links :
       type[l.id] = "dir" => place[l.id] = Append(place[l.dir], l.name)
  /\ \A l \in Links :
       type[l.id] = "symlink" => LinkSpot(Append(place[l.dir], l.name))

\* Calls that run are not in conflict, and no node is freed twice.
Apart ==
  \A t, u \in Thread : t # u =>
    /\ call[t] # NoCall /\ call[u] # NoCall => ~Conflict(call[t], call[u])
    /\ pc[t] = "destroy" /\ pc[u] = "destroy" => Head(todo[t]) # Head(todo[u])

Located(place) == Places(place) /\ \A t \in Thread : Stands(t, place)

\* What holds besides while no calls in conflict have run at the same time.
Inv ==
  /\ TypeOK
  /\ \A t \in Thread : Shape(t) /\ Closed(t) /\ Knows(t)
  /\ Nodes /\ Entries /\ Counted /\ Apart
  /\ \E place \in [NodeId -> Seq(Name)] : Located(place)
-------------------------------------------------------------------------------
\* A path is a prefix of what it is continued to.
LEMMA PrefixConcat ==
  ASSUME NEW s \in Seq(Name), NEW u \in Seq(Name)
  PROVE  IsPrefix(s, s \o u)
<1>1. Len(s) <= Len(s \o u)
  OBVIOUS
<1>2. SubSeq(s, 1, Len(s)) = SubSeq(s \o u, 1, Len(s))
  OBVIOUS
<1> QED
  BY <1>1, <1>2 DEF IsPrefix

\* A prefix of a path is a prefix of what the path is continued to.
LEMMA PrefixExtended ==
  ASSUME NEW r \in Seq(Name), NEW s \in Seq(Name), NEW u \in Seq(Name), IsPrefix(r, s)
  PROVE  IsPrefix(r, s \o u)
<1>1. Len(r) <= Len(s) /\ SubSeq(r, 1, Len(r)) = SubSeq(s, 1, Len(r))
  BY DEF IsPrefix
<1>2. Len(r) <= Len(s \o u)
  BY <1>1
<1>3. SubSeq(s, 1, Len(r)) = SubSeq(s \o u, 1, Len(r))
  BY <1>1
<1> QED
  BY <1>1, <1>2, <1>3 DEF IsPrefix

\* _AcquirePathRec takes the next name off the path and stands one name further.
LEMMA StepOfPath ==
  ASSUME NEW s \in Seq(Name), NEW p \in Seq(Name), p # <<>>
  PROVE  Append(s, Head(p)) \o Tail(p) = s \o p
<1>1. Head(p) \in Name /\ Tail(p) \in Seq(Name) /\ Len(Tail(p)) = Len(p) - 1
  BY HeadTailProperties
<1>2. \A i \in 1 .. Len(p) - 1 : Tail(p)[i] = p[i + 1]
  BY <1>1, HeadTailProperties
<1>3. Append(s, Head(p)) \in Seq(Name) /\ Len(Append(s, Head(p))) = Len(s) + 1
  BY <1>1
<1>4. /\ Append(s, Head(p)) \o Tail(p) \in Seq(Name)
      /\ s \o p \in Seq(Name)
      /\ Len(Append(s, Head(p)) \o Tail(p)) = Len(s \o p)
  BY <1>1, <1>3
<1>5. ASSUME NEW i \in 1 .. Len(s \o p)
      PROVE  (Append(s, Head(p)) \o Tail(p))[i] = (s \o p)[i]
  <2>1. CASE i <= Len(s)
    BY <1>1, <1>3, <2>1
  <2>2. CASE i = Len(s) + 1
    BY <1>1, <1>3, <2>2
  <2>3. CASE i > Len(s) + 1
    <3>1. (Append(s, Head(p)) \o Tail(p))[i] = Tail(p)[i - (Len(s) + 1)]
      BY <1>1, <1>3, <2>3
    <3>2. (s \o p)[i] = p[i - Len(s)]
      BY <2>3
    <3> QED
      BY <1>2, <2>3, <3>1, <3>2
  <2> QED
    BY <2>1, <2>2, <2>3
<1> QED
  BY <1>4, <1>5, SeqEqual

\* Paths are sequences of names.
LEMMA ReachType ==
  ASSUME NEW p \in Seq(Name), NEW q \in Reach(p)
  PROVE  q \in Seq(Name)
<1>1. CASE q = p
  BY <1>1
<1>2. CASE q # p
  <2>1. PICK n \in 0 .. MaxRest : \E r \in [1 .. n -> Name] : q = LinkPath \o r
    BY <1>2 DEF Reach
  <2>2. PICK r \in [1 .. n -> Name] : q = LinkPath \o r
    BY <2>1
  <2>3. r \in Seq(Name)
    BY VFSAssumption, SeqDef
  <2> QED
    BY <2>2, <2>3, VFSAssumption
<1> QED
  BY <1>1, <1>2

\* FollowLink replaces what was walked by LinkPath: the call still walks a path
\* that it may reach.
LEMMA ReachLink ==
  ASSUME NEW p \in Seq(Name), NEW q \in Seq(Name), NEW r \in Seq(Name),
         q \o r \in Reach(p), LinkSpot(q), Len(r) <= MaxRest
  PROVE  LinkPath \o r \in Reach(p)
<1>1. MeetsLink(p)
  <2>1. CASE q \o r = p
    <3>1. PICK c \in Call : c.op = "symlink" /\ (q = c.path \/ IsPrefix(LinkPath, q))
      BY DEF LinkSpot
    <3>2. IsPrefix(c.path, p) \/ IsPrefix(LinkPath, p)
      BY <2>1, <3>1, PrefixConcat, PrefixExtended, VFSAssumption
    <3> QED
      BY <3>1, <3>2 DEF MeetsLink
  <2>2. CASE q \o r # p
    BY <2>2 DEF Reach
  <2> QED
    BY <2>1, <2>2
<1>2. Len(r) \in 0 .. MaxRest /\ r \in [1 .. Len(r) -> Name]
  BY VFSAssumption
<1> QED
  BY <1>1, <1>2 DEF Reach
-------------------------------------------------------------------------------
One(b) == IF b THEN 1 ELSE 0

\* The references of node n that t holds.
Held(t, n) ==
    One(cur[t] = n) + One(file[t] = n /\ pc[t] # "next") + One(src[t] = n)
  + One(opened[t] = n)
  + One(Owes(t, 1, n)) + One(Owes(t, 2, n)) + One(Owes(t, 3, n))

\* A set of threads that only t joins or leaves.
LEMMA OneThread ==
  ASSUME NEW t \in Thread, NEW S \in SUBSET Thread, NEW T \in SUBSET Thread,
         \A u \in Thread : u # t => (u \in S <=> u \in T)
  PROVE  /\ Cardinality(S) \in Nat /\ Cardinality(T) \in Nat
         /\ Cardinality(S) >= One(t \in S)
         /\ Cardinality(T) = Cardinality(S) + One(t \in T) - One(t \in S)
<1>1. IsFiniteSet(S) /\ IsFiniteSet(T)
  BY VFSAssumption, FS_Subset
<1>2. Cardinality(S \ {t}) = Cardinality(T \ {t})
  <2>1. S \ {t} = T \ {t}
    OBVIOUS
  <2> QED
    BY <2>1
<1>3. Cardinality(S) \in Nat /\ Cardinality(T) \in Nat /\ Cardinality(S \ {t}) \in Nat
  BY <1>1, FS_CardinalityType, FS_RemoveElement
<1>4. Cardinality(S \ {t}) = IF t \in S THEN Cardinality(S) - 1 ELSE Cardinality(S)
  BY <1>1, FS_RemoveElement
<1>5. Cardinality(T \ {t}) = IF t \in T THEN Cardinality(T) - 1 ELSE Cardinality(T)
  BY <1>1, FS_RemoveElement
<1>6. CASE t \in S
  <2>1. One(t \in S) = 1 /\ Cardinality(S \ {t}) = Cardinality(S) - 1
    BY <1>4, <1>6 DEF One
  <2>2. CASE t \in T
    BY <1>2, <1>3, <1>5, <2>1, <2>2 DEF One
  <2>3. CASE t \notin T
    BY <1>2, <1>3, <1>5, <2>1, <2>3 DEF One
  <2> QED
    BY <2>2, <2>3
<1>7. CASE t \notin S
  <2>1. One(t \in S) = 0 /\ Cardinality(S \ {t}) = Cardinality(S)
    BY <1>4, <1>7 DEF One
  <2>2. CASE t \in T
    BY <1>2, <1>3, <1>5, <2>1, <2>2 DEF One
  <2>3. CASE t \notin T
    BY <1>2, <1>3, <1>5, <2>1, <2>3 DEF One
  <2> QED
    BY <2>2, <2>3
<1> QED
  BY <1>6, <1>7

\* Three sets of threads, one for each place of todo, are counted together.
LEMMA PlacesCounted ==
  ASSUME NEW A \in [1 .. 3 -> SUBSET Thread]
  PROVE  Cardinality({q \in Thread \X (1 .. 3) : q[1] \in A[q[2]]}) =
           Cardinality(A[1]) + Cardinality(A[2]) + Cardinality(A[3])
<1> DEFINE All == {q \in Thread \X (1 .. 3) : q[1] \in A[q[2]]}
           B == (A[1] \X {1}) \cup (A[2] \X {2})
<1>1. ASSUME NEW k \in 1 .. 3
      PROVE  /\ IsFiniteSet(A[k]) /\ IsFiniteSet(A[k] \X {k})
             /\ Cardinality(A[k]) \in Nat
             /\ Cardinality(A[k] \X {k}) = Cardinality(A[k])
  <2>1. IsFiniteSet(A[k])
    BY VFSAssumption, FS_Subset
  <2>2. IsFiniteSet({k}) /\ Cardinality({k}) = 1
    BY FS_Singleton
  <2>3. Cardinality(A[k]) \in Nat
    BY <2>1, FS_CardinalityType
  <2>4. IsFiniteSet(A[k] \X {k}) /\ Cardinality(A[k] \X {k}) = Cardinality(A[k]) * Cardinality({k})
    BY <2>1, <2>2, FS_Product
  <2> QED
    BY <2>1, <2>2, <2>3, <2>4
<1>2. /\ All = B \cup (A[3] \X {3})
      /\ B \cap (A[3] \X {3}) = {}
      /\ (A[1] \X {1}) \cap (A[2] \X {2}) = {}
  OBVIOUS
<1>3. Cardinality({}) = 0
  BY FS_EmptySet
<1>4. /\ IsFiniteSet(B)
      /\ Cardinality(B) = Cardinality(A[1] \X {1}) + Cardinality(A[2] \X {2})
                            - Cardinality((A[1] \X {1}) \cap (A[2] \X {2}))
  BY <1>1, FS_Union
<1>5. Cardinality(B) = Cardinality(A[1]) + Cardinality(A[2])
  BY <1>1, <1>2, <1>3, <1>4
<1> DEFINE C == A[3] \X {3}
<1>6. /\ IsFiniteSet(C) /\ Cardinality(C) = Cardinality(A[3])
      /\ B \cap C = {}
      /\ All = B \cup C
  BY <1>1, <1>2
<1> HIDE DEF All, B, C
<1>7. Cardinality(B \cup C) = Cardinality(B) + Cardinality(C) - Cardinality(B \cap C)
  BY <1>4, <1>6, FS_Union
<1>8. Cardinality(A[1]) \in Nat /\ Cardinality(A[2]) \in Nat /\ Cardinality(A[3]) \in Nat
  BY <1>1
<1>9. Cardinality(B \cap C) = 0 /\ Cardinality(All) = Cardinality(B \cup C)
  BY <1>3, <1>6
<1>10. Cardinality(All) = Cardinality(A[1]) + Cardinality(A[2]) + Cardinality(A[3])
  BY <1>5, <1>6, <1>7, <1>8, <1>9
<1> QED
  BY <1>10 DEF All

\* The nodes of todo are counted place by place, before and after a step.
LEMMA OwesCounted ==
  ASSUME NEW n
  PROVE  /\ Cardinality({q \in Thread \X (1 .. 3) : Owes(q[1], q[2], n)}) =
               Cardinality({t \in Thread : Owes(t, 1, n)})
             + Cardinality({t \in Thread : Owes(t, 2, n)})
             + Cardinality({t \in Thread : Owes(t, 3, n)})
         /\ Cardinality({q \in Thread \X (1 .. 3) : Owes(q[1], q[2], n)'}) =
               Cardinality({t \in Thread : Owes(t, 1, n)'})
             + Cardinality({t \in Thread : Owes(t, 2, n)'})
             + Cardinality({t \in Thread : Owes(t, 3, n)'})
<1> DEFINE A == [k \in 1 .. 3 |-> {t \in Thread : Owes(t, k, n)}]
           B == [k \in 1 .. 3 |-> {t \in Thread : Owes(t, k, n)'}]
<1>1. A \in [1 .. 3 -> SUBSET Thread] /\ B \in [1 .. 3 -> SUBSET Thread]
  OBVIOUS
<1>2. /\ {q \in Thread \X (1 .. 3) : q[1] \in A[q[2]]} =
           {q \in Thread \X (1 .. 3) : Owes(q[1], q[2], n)}
      /\ {q \in Thread \X (1 .. 3) : q[1] \in B[q[2]]} =
           {q \in Thread \X (1 .. 3) : Owes(q[1], q[2], n)'}
  OBVIOUS
<1>3. /\ A[1] = {t \in Thread : Owes(t, 1, n)} /\ B[1] = {t \in Thread : Owes(t, 1, n)'}
      /\ A[2] = {t \in Thread : Owes(t, 2, n)} /\ B[2] = {t \in Thread : Owes(t, 2, n)'}
      /\ A[3] = {t \in Thread : Owes(t, 3, n)} /\ B[3] = {t \in Thread : Owes(t, 3, n)'}
  OBVIOUS
<1> HIDE DEF A, B
<1>4. Cardinality({q \in Thread \X (1 .. 3) : q[1] \in A[q[2]]}) =
        Cardinality(A[1]) + Cardinality(A[2]) + Cardinality(A[3])
  BY <1>1, PlacesCounted
<1>5. Cardinality({q \in Thread \X (1 .. 3) : q[1] \in B[q[2]]}) =
        Cardinality(B[1]) + Cardinality(B[2]) + Cardinality(B[3])
  BY <1>1, PlacesCounted
<1> QED
  BY <1>2, <1>3, <1>4, <1>5

\* What t holds is counted.
LEMMA HeldCounted ==
  ASSUME NEW t \in Thread, NEW n
  PROVE  References(n) \in Nat /\ Held(t, n) \in Nat /\ References(n) >= Held(t, n)
<1> DEFINE A == {u \in Thread : cur[u] = n}
           B == {u \in Thread : file[u] = n /\ pc[u] # "next"}
           C == {u \in Thread : src[u] = n}
           D == {u \in Thread : opened[u] = n}
           E == {u \in Thread : Owes(u, 1, n)}
           F == {u \in Thread : Owes(u, 2, n)}
           G == {u \in Thread : Owes(u, 3, n)}
<1>1. References(n) = Cardinality(A) + Cardinality(B) + Cardinality(C) + Cardinality(D)
                        + (Cardinality(E) + Cardinality(F) + Cardinality(G))
  BY OwesCounted DEF References
<1>2. Held(t, n) = One(t \in A) + One(t \in B) + One(t \in C) + One(t \in D)
                     + One(t \in E) + One(t \in F) + One(t \in G)
  BY DEF Held, One
<1>3. /\ A \in SUBSET Thread /\ B \in SUBSET Thread /\ C \in SUBSET Thread
      /\ D \in SUBSET Thread /\ E \in SUBSET Thread /\ F \in SUBSET Thread
      /\ G \in SUBSET Thread
  OBVIOUS
<1> HIDE DEF A, B, C, D, E, F, G
<1>4. \A S \in SUBSET Thread : Cardinality(S) \in Nat /\ Cardinality(S) >= One(t \in S)
  BY OneThread
<1> QED
  BY <1>1, <1>2, <1>3, <1>4 DEF One

\* A step of t changes the references of a node by what t holds of it.
LEMMA ReferencesStep ==
  ASSUME NEW t \in Thread, NEW n,
         \A u \in Thread : u # t =>
           /\ pc'[u] = pc[u] /\ cur'[u] = cur[u] /\ file'[u] = file[u]
           /\ src'[u] = src[u] /\ opened'[u] = opened[u] /\ todo'[u] = todo[u]
  PROVE  References(n)' = References(n) + Held(t, n)' - Held(t, n)
<1> DEFINE A == {u \in Thread : cur[u] = n}
           B == {u \in Thread : file[u] = n /\ pc[u] # "next"}
           C == {u \in Thread : src[u] = n}
           D == {u \in Thread : opened[u] = n}
           E(k) == {u \in Thread : Owes(u, k, n)}
           A1 == {u \in Thread : cur'[u] = n}
           B1 == {u \in Thread : file'[u] = n /\ pc'[u] # "next"}
           C1 == {u \in Thread : src'[u] = n}
           D1 == {u \in Thread : opened'[u] = n}
           E1(k) == {u \in Thread : Owes(u, k, n)'}
<1>1. References(n) = Cardinality(A) + Cardinality(B) + Cardinality(C) + Cardinality(D)
                        + (Cardinality(E(1)) + Cardinality(E(2)) + Cardinality(E(3)))
  BY OwesCounted DEF References
<1>2. Held(t, n) = One(t \in A) + One(t \in B) + One(t \in C) + One(t \in D)
                     + One(t \in E(1)) + One(t \in E(2)) + One(t \in E(3))
  BY DEF Held, One
<1>3. References(n)' =
          Cardinality(A1) + Cardinality(B1) + Cardinality(C1) + Cardinality(D1)
            + (Cardinality(E1(1)) + Cardinality(E1(2)) + Cardinality(E1(3)))
  BY OwesCounted DEF References
<1>4. Held(t, n)' = One(t \in A1) + One(t \in B1) + One(t \in C1) + One(t \in D1)
                     + One(t \in E1(1)) + One(t \in E1(2)) + One(t \in E1(3))
  BY DEF Held, One
<1>5. \A k : \A u \in Thread : u # t => (Owes(u, k, n) <=> Owes(u, k, n)')
  BY DEF Owes
<1>6. /\ \A u \in Thread : u # t => (u \in A <=> u \in A1)
      /\ \A u \in Thread : u # t => (u \in B <=> u \in B1)
      /\ \A u \in Thread : u # t => (u \in C <=> u \in C1)
      /\ \A u \in Thread : u # t => (u \in D <=> u \in D1)
      /\ \A k : \A u \in Thread : u # t => (u \in E(k) <=> u \in E1(k))
  BY <1>5
<1>7. /\ A \in SUBSET Thread /\ B \in SUBSET Thread /\ C \in SUBSET Thread
      /\ D \in SUBSET Thread
      /\ \A k : E(k) \in SUBSET Thread
      /\ A1 \in SUBSET Thread /\ B1 \in SUBSET Thread /\ C1 \in SUBSET Thread
      /\ D1 \in SUBSET Thread
      /\ \A k : E1(k) \in SUBSET Thread
  OBVIOUS
<1> HIDE DEF A, B, C, D, E, A1, B1, C1, D1, E1
<1>8. \A S, T \in SUBSET Thread :
        (\A u \in Thread : u # t => (u \in S <=> u \in T)) =>
          /\ Cardinality(S) \in Nat /\ Cardinality(T) \in Nat
          /\ Cardinality(T) = Cardinality(S) + One(t \in T) - One(t \in S)
  BY OneThread
<1>9. /\ Cardinality(A) \in Nat
      /\ Cardinality(A1) = Cardinality(A) + One(t \in A1) - One(t \in A)
      /\ Cardinality(B) \in Nat
      /\ Cardinality(B1) = Cardinality(B) + One(t \in B1) - One(t \in B)
      /\ Cardinality(C) \in Nat
      /\ Cardinality(C1) = Cardinality(C) + One(t \in C1) - One(t \in C)
      /\ Cardinality(D) \in Nat
      /\ Cardinality(D1) = Cardinality(D) + One(t \in D1) - One(t \in D)
  BY <1>6, <1>7, <1>8
<1>10. \A k : /\ Cardinality(E(k)) \in Nat
              /\ Cardinality(E1(k)) = Cardinality(E(k)) + One(t \in E1(k)) - One(t \in E(k))
  BY <1>6, <1>7, <1>8
<1> QED
  BY <1>1, <1>2, <1>3, <1>4, <1>9, <1>10 DEF One
-------------------------------------------------------------------------------
\* A set of numbers has a smallest one.
LEMMA MinIs ==
  ASSUME NEW S \in SUBSET Nat, S # {}
  PROVE  Min(S) \in S
<1> DEFINE R == OpToRel(<, Nat)
<1>1. IsWellFoundedOn(R, Nat)
  BY NatLessThanWellFounded, Zenon
<1>2. \A x, y \in Nat : y < x => <<y, x>> \in R
  BY DEF OpToRel
<1> HIDE DEF R
<1>3. PICK x \in S : \A y \in S : ~(<<y, x>> \in R)
  BY <1>1, WFMin
<1>4. \A y \in S : x \in Nat /\ y \in Nat /\ ~(y < x)
  BY <1>2, <1>3
<1>5. \E z \in S : \A y \in S : z <= y
  BY <1>4
<1> QED
  BY <1>5 DEF Min

DirEntry == [name : Name, id : Id]

\* The search of a directory finds an entry with the name, or there is none.
LEMMA FindFacts ==
  ASSUME NEW d, NEW n, dir[d] \in Seq(DirEntry)
  PROVE  \/ Find(d, n) = 0 /\ \A j \in 1 .. Len(dir[d]) : dir[d][j].name # n
         \/ Find(d, n) \in 1 .. Len(dir[d]) /\ dir[d][Find(d, n)].name = n
<1> DEFINE s == dir[d]
           I == {j \in 1 .. Len(s) : s[j].name = n}
<1>1. Find(d, n) = IF I # {} THEN Min(I) ELSE 0
  BY Zenon DEF SelectInSeq, Find
<1>2. I \in SUBSET Nat
  OBVIOUS
<1>3. CASE I = {}
  BY <1>1, <1>3
<1>4. CASE I # {}
  <2>1. Min(I) \in I
    BY <1>2, <1>4, MinIs
  <2> QED
    BY <1>1, <1>4, <2>1
<1> QED
  BY <1>3, <1>4

\* Delete takes one entry out and moves those behind it.
LEMMA RemoveFacts ==
  ASSUME NEW s \in Seq(DirEntry), NEW k \in 1 .. Len(s)
  PROVE  /\ RemoveAt(s, k) \in Seq(DirEntry)
         /\ Len(RemoveAt(s, k)) = Len(s) - 1
         /\ \A j \in 1 .. Len(s) - 1 :
              RemoveAt(s, k)[j] = IF j < k THEN s[j] ELSE s[j + 1]
<1> DEFINE a == SubSeq(s, 1, k - 1)
           c == SubSeq(s, k + 1, Len(s))
<1> HIDE DEF DirEntry
<1>1. a \in Seq(DirEntry) /\ Len(a) = k - 1 /\ \A j \in 1 .. k - 1 : a[j] = s[j]
  OBVIOUS
<1>2. /\ c \in Seq(DirEntry) /\ Len(c) = Len(s) - k
      /\ \A j \in 1 .. Len(s) - k : c[j] = s[k + j]
  OBVIOUS
<1>3. RemoveAt(s, k) = a \o c
  BY DEF RemoveAt
<1> HIDE DEF a, c
<1>4. a \o c \in Seq(DirEntry) /\ Len(a \o c) = Len(s) - 1
  <2>1. a \o c \in Seq(DirEntry) /\ Len(a \o c) = Len(a) + Len(c)
    BY <1>1, <1>2, ConcatProperties
  <2> QED
    BY <1>1, <1>2, <2>1
<1>5. \A j \in 1 .. Len(s) - 1 : (a \o c)[j] = IF j <= k - 1 THEN a[j] ELSE c[j - (k - 1)]
  BY <1>1, <1>2
<1>6. \A j \in 1 .. Len(s) - 1 : j > k - 1 => c[j - (k - 1)] = s[j + 1]
  BY <1>2
<1> QED
  BY <1>1, <1>3, <1>4, <1>5, <1>6

\* The records of Links.
LEMMA LinksAre ==
  /\ \A l \in Links : /\ l.dir \in stored
                      /\ l = [dir |-> l.dir, name |-> l.name, id |-> l.id]
                      /\ \E k \in 1 .. Len(dir[l.dir]) :
                           /\ dir[l.dir][k].name = l.name
                           /\ dir[l.dir][k].id = l.id
  /\ \A d \in stored : \A k \in 1 .. Len(dir[d]) :
       Linked(d, dir[d][k].name, dir[d][k].id)
  BY DEF Links, Linked

\* The same after a step.
LEMMA LinksAreNext ==
  /\ \A l \in Links' : /\ l.dir \in stored'
                       /\ l = [dir |-> l.dir, name |-> l.name, id |-> l.id]
                       /\ \E k \in 1 .. Len(dir'[l.dir]) :
                            /\ dir'[l.dir][k].name = l.name
                            /\ dir'[l.dir][k].id = l.id
  /\ \A d \in stored' : \A k \in 1 .. Len(dir'[d]) :
       [dir |-> d, name |-> dir'[d][k].name, id |-> dir'[d][k].id] \in Links'
  BY DEF Links

\* The types of an entry.
LEMMA LinksType ==
  ASSUME TypeOK, NEW l \in Links
  PROVE  l.dir \in NodeId /\ l.name \in Name /\ l.id \in Id
<1>1. l.dir \in NodeId
  BY LinksAre DEF TypeOK
<1>2. dir[l.dir] \in Seq([name : Name, id : Id])
  BY <1>1 DEF TypeOK
<1>3. PICK k \in 1 .. Len(dir[l.dir]) : dir[l.dir][k].name = l.name /\ dir[l.dir][k].id = l.id
  BY LinksAre
<1>4. dir[l.dir][k] \in [name : Name, id : Id]
  BY <1>2, ElementOfSeq
<1> QED
  BY <1>1, <1>3, <1>4

\* No two entries of a directory have the same name.
Unique(d) == \A j, k \in 1 .. Len(dir[d]) : dir[d][j].name = dir[d][k].name => j = k

\* AddEntry adds one entry, and a name that was not there keeps names unique.
LEMMA LinksAdded ==
  ASSUME TypeOK, NEW d \in stored, NEW n \in Name, NEW i \in Id,
         dir' = [dir EXCEPT ![d] = Append(dir[d], [name |-> n, id |-> i])],
         stored' = stored
  PROVE  /\ Links' = Links \cup {[dir |-> d, name |-> n, id |-> i]}
         /\ \A x \in stored : x # d => (Unique(x) => Unique(x)')
         /\ Unique(d) /\ (\A l \in Links : ~(l.dir = d /\ l.name = n)) => Unique(d)'
<1> DEFINE e == [name |-> n, id |-> i]
<1>1. d \in NodeId /\ dir[d] \in Seq(DirEntry) /\ e \in DirEntry
  BY DEF TypeOK, DirEntry
<1>2. /\ dir'[d] = Append(dir[d], e)
      /\ Len(dir'[d]) = Len(dir[d]) + 1
      /\ \A j \in 1 .. Len(dir[d]) : dir'[d][j] = dir[d][j]
      /\ dir'[d][Len(dir[d]) + 1] = e
  <2>1. dir'[d] = Append(dir[d], e)
    BY <1>1 DEF TypeOK
  <2> HIDE DEF DirEntry, e
  <2> QED
    BY <1>1, <2>1
<1>3. \A x \in stored : x # d => dir'[x] = dir[x]
  BY DEF TypeOK
<1>4. Len(dir[d]) \in Nat
  BY <1>1
<1>5. Links' \subseteq Links \cup {[dir |-> d, name |-> n, id |-> i]}
  <2> SUFFICES ASSUME NEW l \in Links'
               PROVE  l \in Links \/ l = [dir |-> d, name |-> n, id |-> i]
    OBVIOUS
  <2>1. PICK k \in 1 .. Len(dir'[l.dir]) :
               dir'[l.dir][k].name = l.name /\ dir'[l.dir][k].id = l.id
    BY LinksAreNext
  <2>2. l.dir \in stored /\ l = [dir |-> l.dir, name |-> l.name, id |-> l.id]
    BY LinksAreNext
  <2>3. CASE l.dir # d
    BY <1>3, <2>1, <2>2, <2>3, LinksAre DEF Linked
  <2>4. CASE l.dir = d /\ k <= Len(dir[d])
    BY <1>2, <1>4, <2>1, <2>2, <2>4, LinksAre DEF Linked
  <2>5. CASE l.dir = d /\ k = Len(dir[d]) + 1
    BY <1>2, <2>1, <2>2, <2>5
  <2> QED
    BY <1>2, <1>4, <2>1, <2>3, <2>4, <2>5
<1>6. Links \subseteq Links'
  <2> SUFFICES ASSUME NEW l \in Links
               PROVE  l \in Links'
    OBVIOUS
  <2>1. PICK k \in 1 .. Len(dir[l.dir]) :
               dir[l.dir][k].name = l.name /\ dir[l.dir][k].id = l.id
    BY LinksAre
  <2>2. l.dir \in stored /\ l = [dir |-> l.dir, name |-> l.name, id |-> l.id]
    BY LinksAre
  <2>3. k \in 1 .. Len(dir'[l.dir]) /\ dir'[l.dir][k] = dir[l.dir][k]
    BY <1>2, <1>3, <1>4, <2>1, <2>2
  <2> QED
    BY <2>1, <2>2, <2>3, LinksAreNext
<1>7. [dir |-> d, name |-> n, id |-> i] \in Links'
  <2>1. Len(dir[d]) + 1 \in 1 .. Len(dir'[d])
    BY <1>2, <1>4
  <2>2. /\ dir'[d][Len(dir[d]) + 1].name = n
        /\ dir'[d][Len(dir[d]) + 1].id = i
    BY <1>2
  <2> QED
    BY <2>1, <2>2, LinksAreNext
<1>8. \A x \in stored : x # d => (Unique(x) => Unique(x)')
  BY <1>3 DEF Unique
<1>9. ASSUME Unique(d), \A l \in Links : ~(l.dir = d /\ l.name = n)
      PROVE  Unique(d)'
  <2>1. \A j \in 1 .. Len(dir[d]) : dir[d][j].name # n
    BY <1>9, LinksAre DEF Linked
  <2> QED
    BY <1>2, <1>4, <1>9, <2>1 DEF Unique
<1> QED
  BY <1>5, <1>6, <1>7, <1>8, <1>9

\* Delete removes the one entry with its name.
LEMMA LinksRemoved ==
  ASSUME TypeOK, NEW d \in stored, NEW k \in 1 .. Len(dir[d]),
         NEW n, NEW i, dir[d][k].name = n, dir[d][k].id = i, Unique(d),
         dir' = [dir EXCEPT ![d] = RemoveAt(dir[d], k)],
         stored' = stored
  PROVE  /\ Links' = Links \ {[dir |-> d, name |-> n, id |-> i]}
         /\ \A x \in stored : Unique(x) => Unique(x)'
<1>1. d \in NodeId /\ dir[d] \in Seq(DirEntry) /\ Len(dir[d]) \in Nat
  <2>1. d \in NodeId /\ dir[d] \in Seq(DirEntry)
    BY DEF TypeOK, DirEntry
  <2> QED
    BY <2>1, LenProperties
<1>2. dir'[d] = RemoveAt(dir[d], k)
  BY <1>1 DEF TypeOK
<1>3. /\ Len(dir'[d]) = Len(dir[d]) - 1
      /\ \A j \in 1 .. Len(dir[d]) - 1 :
           dir'[d][j] = IF j < k THEN dir[d][j] ELSE dir[d][j + 1]
  BY <1>1, <1>2, RemoveFacts
<1>4. \A x \in stored : x # d => dir'[x] = dir[x]
  BY DEF TypeOK
<1>5. ASSUME NEW l \in Links' PROVE l \in Links /\ l # [dir |-> d, name |-> n, id |-> i]
  <2>1. PICK j \in 1 .. Len(dir'[l.dir]) :
               dir'[l.dir][j].name = l.name /\ dir'[l.dir][j].id = l.id
    BY LinksAreNext
  <2>2. l.dir \in stored /\ l = [dir |-> l.dir, name |-> l.name, id |-> l.id]
    BY LinksAreNext
  <2>3. CASE l.dir # d
    BY <1>4, <2>1, <2>2, <2>3, LinksAre DEF Linked
  <2>4. CASE l.dir = d
    <3>1. PICK m \in 1 .. Len(dir[d]) : m # k /\ dir'[d][j] = dir[d][m]
      <4>1. CASE j < k
        BY <1>1, <1>3, <2>1, <2>4, <4>1
      <4>2. CASE ~(j < k)
        BY <1>1, <1>3, <2>1, <2>4, <4>2
      <4> QED
        BY <4>1, <4>2
    <3>2. dir[d][m].name # n
      BY <3>1 DEF Unique
    <3> QED
      BY <2>1, <2>2, <2>4, <3>1, <3>2, LinksAre DEF Linked
  <2> QED
    BY <2>3, <2>4
<1>6. ASSUME NEW l \in Links, l # [dir |-> d, name |-> n, id |-> i] PROVE l \in Links'
  <2>1. PICK j \in 1 .. Len(dir[l.dir]) :
               dir[l.dir][j].name = l.name /\ dir[l.dir][j].id = l.id
    BY LinksAre
  <2>2. l.dir \in stored /\ l = [dir |-> l.dir, name |-> l.name, id |-> l.id]
    BY LinksAre
  <2>3. CASE l.dir # d
    BY <1>4, <2>1, <2>2, <2>3, LinksAreNext
  <2>4. CASE l.dir = d
    <3>1. j # k
      BY <1>6, <2>1, <2>2, <2>4
    <3>2. PICK m \in 1 .. Len(dir'[d]) : dir'[d][m] = dir[d][j]
      <4>1. CASE j < k
        BY <1>1, <1>3, <2>1, <2>4, <4>1
      <4>2. CASE j > k
        <5>1. j - 1 \in 1 .. Len(dir[d]) - 1 /\ ~(j - 1 < k) /\ (j - 1) + 1 = j
          BY <1>1, <2>1, <2>4, <4>2
        <5> QED
          BY <1>3, <5>1
      <4> QED
        BY <1>1, <2>1, <2>4, <3>1, <4>1, <4>2
    <3> QED
      BY <2>1, <2>2, <2>4, <3>2, LinksAreNext
  <2> QED
    BY <2>3, <2>4
<1>7. ASSUME NEW x \in stored, Unique(x) PROVE Unique(x)'
  <2>1. CASE x # d
    BY <1>4, <1>7, <2>1 DEF Unique
  <2>2. CASE x = d
    <3> SUFFICES ASSUME NEW j \in 1 .. Len(dir'[d]), NEW m \in 1 .. Len(dir'[d]),
                        dir'[d][j].name = dir'[d][m].name
                 PROVE  j = m
      BY <2>2 DEF Unique
    <3> DEFINE f(y) == IF y < k THEN y ELSE y + 1
    <3>1. ASSUME NEW y \in 1 .. Len(dir'[d])
          PROVE  f(y) \in 1 .. Len(dir[d]) /\ dir'[d][y] = dir[d][f(y)]
      <4>1. y \in Nat /\ f(y) \in 1 .. Len(dir[d])
        BY <1>1, <1>3
      <4>2. dir'[d][y] = IF y < k THEN dir[d][y] ELSE dir[d][y + 1]
        BY <1>3
      <4> QED
        BY <4>1, <4>2
    <3> HIDE DEF f
    <3>2. f(j) = f(m)
      BY <3>1 DEF Unique
    <3> QED
      BY <1>1, <1>3, <3>2 DEF f
  <2> QED
    BY <2>1, <2>2
<1> QED
  BY <1>5, <1>6, <1>7

\* A node that is made has no entries.
LEMMA LinksCreated ==
  ASSUME TypeOK, NEW i \in NodeId, i \notin stored,
         dir' = [dir EXCEPT ![i] = <<>>], stored' = stored \cup {i}
  PROVE  /\ Links' = Links
         /\ \A x \in stored : Unique(x) => Unique(x)'
         /\ Unique(i)'
<1>1. dir'[i] = <<>> /\ \A x \in stored : dir'[x] = dir[x]
  BY DEF TypeOK
<1>2. Len(dir'[i]) = 0
  BY <1>1
<1>3. Links' \subseteq Links
  <2> SUFFICES ASSUME NEW l \in Links' PROVE l \in Links
    OBVIOUS
  <2>1. PICK j \in 1 .. Len(dir'[l.dir]) :
               dir'[l.dir][j].name = l.name /\ dir'[l.dir][j].id = l.id
    BY LinksAreNext
  <2>2. l.dir \in stored' /\ l = [dir |-> l.dir, name |-> l.name, id |-> l.id]
    BY LinksAreNext
  <2>3. l.dir \in stored
    BY <1>2, <2>1, <2>2
  <2> QED
    BY <1>1, <2>1, <2>2, <2>3, LinksAre DEF Linked
<1>4. Links \subseteq Links'
  <2> SUFFICES ASSUME NEW l \in Links PROVE l \in Links'
    OBVIOUS
  <2>1. PICK j \in 1 .. Len(dir[l.dir]) :
               dir[l.dir][j].name = l.name /\ dir[l.dir][j].id = l.id
    BY LinksAre
  <2>2. l.dir \in stored /\ l = [dir |-> l.dir, name |-> l.name, id |-> l.id]
    BY LinksAre
  <2> QED
    BY <1>1, <2>1, <2>2, LinksAreNext
<1>5. \A x \in stored : Unique(x) => Unique(x)'
  BY <1>1 DEF Unique
<1>6. Unique(i)'
  BY <1>2 DEF Unique
<1> QED
  BY <1>3, <1>4, <1>5, <1>6

\* A node without entries is freed.
LEMMA LinksFreed ==
  ASSUME NEW n, \A l \in Links : l.dir # n,
         dir' = dir, stored' = stored \ {n}
  PROVE  Links' = Links
<1>1. Links' \subseteq Links
  <2> SUFFICES ASSUME NEW l \in Links' PROVE l \in Links
    OBVIOUS
  <2>1. PICK j \in 1 .. Len(dir[l.dir]) :
               dir[l.dir][j].name = l.name /\ dir[l.dir][j].id = l.id
    BY LinksAreNext
  <2>2. l.dir \in stored /\ l = [dir |-> l.dir, name |-> l.name, id |-> l.id]
    BY LinksAreNext
  <2> QED
    BY <2>1, <2>2, LinksAre DEF Linked
<1>2. Links \subseteq Links'
  <2> SUFFICES ASSUME NEW l \in Links PROVE l \in Links'
    OBVIOUS
  <2>1. PICK j \in 1 .. Len(dir[l.dir]) :
               dir[l.dir][j].name = l.name /\ dir[l.dir][j].id = l.id
    BY LinksAre
  <2>2. l.dir \in stored /\ l = [dir |-> l.dir, name |-> l.name, id |-> l.id]
    BY LinksAre
  <2> QED
    BY <2>1, <2>2, LinksAreNext
<1> QED
  BY <1>1, <1>2

\* Where names are unique, the places of entries are as many as the entries.
LEMMA PlacesOfEntries ==
  ASSUME NEW n, \A d \in stored : Unique(d), IsFiniteSet(Links)
  PROVE  Cardinality(UNION {{<<d, k>> : k \in {j \in 1 .. Len(dir[d]) : dir[d][j].id = n}}
                              : d \in stored})
           = Cardinality({l \in Links : l.id = n})
<1> DEFINE S == {l \in Links : l.id = n}
           T == UNION {{<<d, k>> : k \in {j \in 1 .. Len(dir[d]) : dir[d][j].id = n}}
                         : d \in stored}
           At(l) == CHOOSE k \in 1 .. Len(dir[l.dir]) : dir[l.dir][k].name = l.name
           f == [l \in S |-> <<l.dir, At(l)>>]
<1>1. IsFiniteSet(S)
  BY FS_Subset
<1>2. ASSUME NEW l \in S
      PROVE  /\ l.dir \in stored /\ l = [dir |-> l.dir, name |-> l.name, id |-> n]
             /\ At(l) \in 1 .. Len(dir[l.dir])
             /\ dir[l.dir][At(l)].name = l.name
             /\ dir[l.dir][At(l)].id = n
  <2>1. l.dir \in stored /\ l = [dir |-> l.dir, name |-> l.name, id |-> n]
    BY LinksAre
  <2>2. PICK k \in 1 .. Len(dir[l.dir]) : dir[l.dir][k].name = l.name /\ dir[l.dir][k].id = n
    BY LinksAre
  <2>3. At(l) \in 1 .. Len(dir[l.dir]) /\ dir[l.dir][At(l)].name = l.name
    BY <2>2
  <2>4. At(l) = k
    BY <2>1, <2>2, <2>3 DEF Unique
  <2> QED
    BY <2>1, <2>2, <2>3, <2>4
<1> HIDE DEF At
<1>3. f \in [S -> T]
  <2>1. ASSUME NEW l \in S PROVE <<l.dir, At(l)>> \in T
    BY <1>2
  <2> QED
    BY <2>1
<1>4. \A l, m \in S : f[l] = f[m] => l = m
  <2> SUFFICES ASSUME NEW l \in S, NEW m \in S, f[l] = f[m] PROVE l = m
    OBVIOUS
  <2>1. l.dir = m.dir /\ At(l) = At(m)
    OBVIOUS
  <2> HIDE DEF f
  <2>2. l.name = m.name
    BY <1>2, <2>1
  <2> QED
    BY <1>2, <2>1, <2>2
<1>5. \A q \in T : \E l \in S : f[l] = q
  <2> SUFFICES ASSUME NEW q \in T PROVE \E l \in S : f[l] = q
    OBVIOUS
  <2>1. PICK d \in stored : \E k \in 1 .. Len(dir[d]) : dir[d][k].id = n /\ q = <<d, k>>
    OBVIOUS
  <2>2. PICK k \in 1 .. Len(dir[d]) : dir[d][k].id = n /\ q = <<d, k>>
    BY <2>1
  <2>3. PICK l : l = [dir |-> d, name |-> dir[d][k].name, id |-> n]
    OBVIOUS
  <2>4. l \in S /\ l.dir = d /\ l.name = dir[d][k].name
    BY <2>2, <2>3, LinksAre DEF Linked
  <2>5. At(l) = k
    BY <1>2, <2>4 DEF Unique
  <2> QED
    BY <2>2, <2>4, <2>5
<1> HIDE DEF S, T, f
<1>6. f \in Bijection(S, T)
  BY <1>3, <1>4, <1>5 DEF Bijection, Injection, Surjection, IsInjective
<1>7. Cardinality(T) = Cardinality(S)
  BY <1>1, <1>6, FS_Bijection DEF ExistsBijection
<1> QED
  BY <1>7 DEF S, T
-------------------------------------------------------------------------------
\* A step leaves thread u alone.
Same(u) ==
  /\ pc'[u] = pc[u] /\ call'[u] = call[u] /\ path'[u] = path[u]
  /\ name'[u] = name[u] /\ cur'[u] = cur[u] /\ file'[u] = file[u]
  /\ src'[u] = src[u] /\ todo'[u] = todo[u] /\ then'[u] = then[u]
  /\ opened'[u] = opened[u]

Frame(t) == \A u \in Thread : u # t => Same(u)

\* Every reference that is held is counted.
Backed ==
  \A n \in NodeId : refCount[n] >= References(n) /\ (n \notin cached => refCount[n] = 0)

\* A node that somebody holds is in the cache.
LEMMA HeldBacked ==
  ASSUME Backed, TypeOK, NEW t \in Thread, NEW n \in NodeId, Held(t, n) >= 1
  PROVE  n \in cached /\ refCount[n] >= 1
<1>1. References(n) \in Nat /\ Held(t, n) \in Nat /\ References(n) >= Held(t, n)
  BY HeldCounted
<1>2. /\ refCount[n] >= References(n) /\ (n \notin cached => refCount[n] = 0)
      /\ refCount[n] \in Nat
  BY DEF Backed, TypeOK
<1> QED
  BY <1>1, <1>2

\* So are the nodes that a thread has in its variables.
LEMMA UsedBacked ==
  ASSUME Backed, TypeOK, NEW t \in Thread
  PROVE  /\ cur[t] # None => cur[t] \in cached
         /\ file[t] # None /\ pc[t] # "next" => file[t] \in cached
         /\ src[t] # None => src[t] \in cached
         /\ opened[t] # None => opened[t] \in cached
         /\ \A k \in 1 .. 3 : \A n \in NodeId : Owes(t, k, n) => n \in cached
<1>1. ASSUME NEW n \in NodeId,
             \/ cur[t] = n
             \/ file[t] = n /\ pc[t] # "next"
             \/ src[t] = n
             \/ opened[t] = n
             \/ Owes(t, 1, n) \/ Owes(t, 2, n) \/ Owes(t, 3, n)
      PROVE  n \in cached
  <2>1. Held(t, n) >= 1
    BY <1>1 DEF Held, One
  <2> QED
    BY <2>1, HeldBacked
<1>2. /\ cur[t] # None => cur[t] \in NodeId
      /\ file[t] # None => file[t] \in NodeId
      /\ src[t] # None => src[t] \in NodeId
      /\ opened[t] # None => opened[t] \in NodeId
  BY DEF TypeOK, NodeId
<1>3. ASSUME NEW k \in 1 .. 3, NEW n \in NodeId, Owes(t, k, n) PROVE n \in cached
  <2>1. k = 1 \/ k = 2 \/ k = 3
    OBVIOUS
  <2>2. Owes(t, 1, n) \/ Owes(t, 2, n) \/ Owes(t, 3, n)
    BY <1>3, <2>1
  <2> QED
    BY <1>1, <2>2
<1>4. /\ cur[t] # None => cur[t] \in cached
      /\ file[t] # None /\ pc[t] # "next" => file[t] \in cached
  BY <1>1, <1>2
<1>5. /\ src[t] # None => src[t] \in cached
      /\ opened[t] # None => opened[t] \in cached
  BY <1>1, <1>2
<1> QED
  BY <1>3, <1>4, <1>5

\* The first node of todo is one that t holds.
LEMMA HeadBacked ==
  ASSUME Backed, TypeOK, NEW t \in Thread, Shape(t), Releasing(t)
  PROVE  /\ todo[t] \in Seq(NodeId) /\ todo[t] # <<>> /\ Len(todo[t]) \in 1 .. 3
         /\ Head(todo[t]) \in NodeId /\ Head(todo[t]) = todo[t][1]
         /\ pc[t] = "release" =>
              Head(todo[t]) \in cached /\ refCount[Head(todo[t])] >= 1
<1>1. todo[t] \in Seq(NodeId) /\ Len(todo[t]) \in 1 .. 3
  BY DEF TypeOK, Shape
<1>2. todo[t] # <<>>
  <2>1. Len(<<>>) = 0
    BY EmptySeq
  <2>2. 0 \notin 1 .. 3
    OBVIOUS
  <2> QED
    BY <1>1, <2>1, <2>2, Zenon
<1>3. Head(todo[t]) \in NodeId /\ Head(todo[t]) = todo[t][1]
  BY <1>1, <1>2
<1>4. ASSUME pc[t] = "release"
      PROVE  Head(todo[t]) \in cached /\ refCount[Head(todo[t])] >= 1
  <2>1. Owes(t, 1, Head(todo[t]))
    BY <1>1, <1>3, <1>4 DEF Owes
  <2>2. Held(t, Head(todo[t])) >= 1
    BY <2>1 DEF Held, One
  <2> QED
    BY <1>3, <2>2, HeldBacked
<1> QED
  BY <1>1, <1>2, <1>3, <1>4

\* It is so while nothing was left behind, and also after.
LEMMA NodesBacked ==
  ASSUME Nodes, TypeOK
  PROVE  Backed /\ cached \subseteq stored
<1>1. ASSUME NEW n \in NodeId
      PROVE  refCount[n] >= References(n) /\ (n \notin cached => refCount[n] = 0)
  <2>1. refCount[n] = References(n) /\ refCount[n] \in Nat
    BY DEF Nodes, TypeOK
  <2> QED
    BY <2>1 DEF Nodes
<1> QED
  BY <1>1 DEF Backed, Nodes

\* A node that somebody holds is in the cache and in the file system.
LEMMA HeldCached ==
  ASSUME Nodes, TypeOK, NEW t \in Thread, NEW n \in NodeId, Held(t, n) >= 1
  PROVE  n \in cached /\ n \in stored /\ refCount[n] >= 1
BY NodesBacked, HeldBacked

\* So are the nodes in the variables of a thread.
LEMMA UsedCached ==
  ASSUME Nodes, TypeOK, NEW t \in Thread
  PROVE  /\ cur[t] # None => cur[t] \in cached
         /\ file[t] # None /\ pc[t] # "next" => file[t] \in cached
         /\ src[t] # None => src[t] \in cached
         /\ opened[t] # None => opened[t] \in cached
         /\ \A k \in 1 .. 3 : \A n \in NodeId : Owes(t, k, n) => n \in cached
BY NodesBacked, UsedBacked, Zenon

\* The first node of todo is one that t holds.
LEMMA HeadHeld ==
  ASSUME Nodes, TypeOK, NEW t \in Thread, Shape(t), Releasing(t)
  PROVE  /\ todo[t] \in Seq(NodeId) /\ todo[t] # <<>> /\ Len(todo[t]) \in 1 .. 3
         /\ Head(todo[t]) \in NodeId /\ Head(todo[t]) = todo[t][1]
         /\ pc[t] = "release" =>
              Head(todo[t]) \in cached /\ Head(todo[t]) \in stored /\ refCount[Head(todo[t])] >= 1
<1>1. Backed /\ cached \subseteq stored
  BY NodesBacked
<1>2. pc[t] = "release" => Head(todo[t]) \in cached /\ refCount[Head(todo[t])] >= 1
  BY <1>1, HeadBacked
<1>3. pc[t] = "release" => Head(todo[t]) \in stored
  BY <1>1, <1>2
<1>4. /\ todo[t] \in Seq(NodeId) /\ todo[t] # <<>> /\ Len(todo[t]) \in 1 .. 3
      /\ Head(todo[t]) \in NodeId /\ Head(todo[t]) = todo[t][1]
  BY <1>1, HeadBacked
<1> QED
  BY <1>2, <1>3, <1>4
-------------------------------------------------------------------------------
\* What t may do.
Acts(t) == Step(t) \/ Close(t) \/ \E c \in Call : Begin(t, c)

\* A step of t changes nothing of another thread.
LEMMA FrameStep ==
  ASSUME TypeOK, NEW t \in Thread,
         Acts(t)
  PROVE  Frame(t)
<1> USE DEF TypeOK, Frame, Same, Set, callVars
<1>1. CASE AcquireRoot(t)
  BY <1>1 DEF AcquireRoot, AcquireNode
<1>2. CASE AcquireNext(t)
  BY <1>2 DEF AcquireNext, AcquireNode
<1>3. CASE ReadNode(t)
  BY <1>3 DEF ReadNode
<1>4. CASE NodeReady(t)
  BY <1>4 DEF NodeReady
<1>5. CASE Walk(t)
  BY <1>5 DEF Walk
<1>6. CASE WalkFails(t)
  BY <1>6 DEF WalkFails, Return, Release
<1>7. CASE Descend(t)
  BY <1>7 DEF Descend, Release
<1>8. CASE FollowLink(t)
  BY <1>8 DEF FollowLink, Return, Release
<1>9. CASE Stat(t)
  BY <1>9 DEF Stat, Return, Release
<1>10. CASE Open(t)
  BY <1>10 DEF Open, Return, Release
<1>11. CASE Exists(t)
  BY <1>11 DEF Exists, Return, Release
<1>12. CASE LinkFrom(t)
  BY <1>12 DEF LinkFrom, Release
<1>13. CASE (\E i \in Id : CreateNode(t, i))
  BY <1>13 DEF CreateNode
<1>14. CASE LinkInc(t)
  BY <1>14 DEF LinkInc
<1>15. CASE Denied(t)
  BY <1>15 DEF Denied, Return, Release
<1>16. CASE AddEntry(t)
  BY <1>16 DEF AddEntry, Release
<1>17. CASE DeleteCheck(t)
  BY <1>17 DEF DeleteCheck, Return, Release
<1>18. CASE Unlink(t)
  BY <1>18 DEF Unlink
<1>19. CASE LinkDec(t)
  BY <1>19 DEF LinkDec, Release
<1>20. CASE ReleaseNode(t)
  BY <1>20 DEF ReleaseNode, Done
<1>21. CASE DestroyNode(t)
  BY <1>21 DEF DestroyNode, Done
<1>22. CASE Close(t)
  BY <1>22 DEF Close, Release
<1>23. CASE (\E c \in Call : Begin(t, c))
  BY <1>23 DEF Begin
<1> QED
  BY <1>1, <1>2, <1>3, <1>4, <1>5, <1>6, <1>7, <1>8, <1>9, <1>10, <1>11, <1>12, <1>13, <1>14, <1>15, <1>16, <1>17, <1>18, <1>19, <1>20, <1>21, <1>22, <1>23 DEF Step, Acts
\* The parts of TypeOK.
FsTypes ==
  /\ stored \subseteq NodeId
  /\ type \in [NodeId -> {"file", "dir", "symlink"}]
  /\ dir \in [NodeId -> Seq([name : Name, id : Id])]
  /\ locked \subseteq NodeId
  /\ raced \in 0 .. MaxRaced
  /\ lost \in [NodeId -> Nat]

NodeTypes ==
  /\ cached \subseteq NodeId
  /\ refCount \in [NodeId -> Nat]
  /\ linkCount \in [NodeId -> Int]
  /\ ready \in [NodeId -> BOOLEAN]

CallTypes ==
  /\ pc \in [Thread -> PC]
  /\ call \in [Thread -> Call \cup {NoCall}]
  /\ path \in [Thread -> Seq(Name)]
  /\ name \in [Thread -> Name \cup {None}]
  /\ cur \in [Thread -> NodeId \cup {None}]

RestTypes ==
  /\ file \in [Thread -> Id \cup {None}]
  /\ src \in [Thread -> Id \cup {None}]
  /\ todo \in [Thread -> Seq(NodeId)]
  /\ then \in [Thread -> {"idle", "root", "walk", "found"}]
  /\ opened \in [Thread -> Id \cup {None}]

\* A call that returns leaves the types as they are.
LEMMA ReturnTypes ==
  ASSUME TypeOK, NEW t \in Thread, NEW s \in Seq(NodeId), Return(t, s),
         opened' \in [Thread -> Id \cup {None}]
  PROVE  TypeOK'
<1> USE DEF Set, PC, fsVars, nodeVars, Return, Release
<1>1. FsTypes /\ NodeTypes /\ CallTypes /\ RestTypes
  BY DEF TypeOK, FsTypes, NodeTypes, CallTypes, RestTypes
<1>2. FsTypes' /\ NodeTypes'
  BY <1>1 DEF FsTypes, NodeTypes
<1>3. CallTypes'
  BY <1>1 DEF CallTypes
<1>4. RestTypes'
  BY <1>1 DEF RestTypes
<1> QED
  BY <1>2, <1>3, <1>4, Zenon DEF TypeOK, FsTypes, NodeTypes, CallTypes, RestTypes

\* Types are kept; the counts go down only where there is something to take away.
LEMMA TypeStep ==
  ASSUME TypeOK, Backed, NEW t \in Thread, Shape(t),
         Acts(t)
  PROVE  TypeOK'
<1> USE DEF Set, PC, fsVars, nodeVars, callVars
<1>0. FsTypes /\ NodeTypes /\ CallTypes /\ RestTypes
  BY DEF TypeOK, FsTypes, NodeTypes, CallTypes, RestTypes
<1>1. CASE AcquireRoot(t)
  <2>1. Root \in NodeId
    BY DEF TypeOK, NodeId
  <2>7. FsTypes'
    BY <1>0, <1>1, <2>1 DEF AcquireRoot, AcquireNode, FsTypes
  <2>8. NodeTypes'
    <3>1. CASE Root \in cached
      BY <1>0, <1>1, <2>1, <3>1 DEF AcquireRoot, AcquireNode, NodeTypes
    <3>2. CASE ~(Root \in cached)
      <4>1. /\ cached' = cached \cup {Root} /\ linkCount' = linkCount
            /\ refCount' = [refCount EXCEPT ![Root] = 1]
            /\ ready' = [ready EXCEPT ![Root] = FALSE]
        BY <1>1, <3>2 DEF AcquireRoot, AcquireNode
      <4> QED
        BY <1>0, <2>1, <4>1 DEF NodeTypes
    <3> QED
      BY <3>1, <3>2
  <2>9. CallTypes'
    <3>1. CASE Root \in cached
      BY <1>0, <1>1, <2>1, <3>1 DEF AcquireRoot, AcquireNode, CallTypes
    <3>2. CASE ~(Root \in cached)
      BY <1>0, <1>1, <2>1, <3>2 DEF AcquireRoot, AcquireNode, CallTypes
    <3> QED
      BY <3>1, <3>2
  <2>10. RestTypes'
    <3>1. CASE Root \in cached
      BY <1>0, <1>1, <2>1, <3>1 DEF AcquireRoot, AcquireNode, RestTypes
    <3>2. CASE ~(Root \in cached)
      BY <1>0, <1>1, <2>1, <3>2 DEF AcquireRoot, AcquireNode, RestTypes
    <3> QED
      BY <3>1, <3>2
  <2> QED
    BY <2>7, <2>8, <2>9, <2>10, Zenon DEF TypeOK, FsTypes, NodeTypes, CallTypes, RestTypes
<1>2. CASE AcquireNext(t)
  <2>1. file[t] \in NodeId
    BY <1>2 DEF TypeOK, AcquireNext, Shape, NodeId
  <2>7. FsTypes'
    BY <1>0, <1>2, <2>1 DEF AcquireNext, AcquireNode, FsTypes
  <2>8. NodeTypes'
    <3>1. CASE file[t] \in cached
      BY <1>0, <1>2, <2>1, <3>1 DEF AcquireNext, AcquireNode, NodeTypes
    <3>2. CASE ~(file[t] \in cached)
      <4>1. /\ cached' = cached \cup {file[t]} /\ linkCount' = linkCount
            /\ refCount' = [refCount EXCEPT ![file[t]] = 1]
            /\ ready' = [ready EXCEPT ![file[t]] = FALSE]
        BY <1>2, <3>2 DEF AcquireNext, AcquireNode
      <4> QED
        BY <1>0, <2>1, <4>1 DEF NodeTypes
    <3> QED
      BY <3>1, <3>2
  <2>9. CallTypes'
    <3>1. CASE file[t] \in cached
      BY <1>0, <1>2, <2>1, <3>1 DEF AcquireNext, AcquireNode, CallTypes
    <3>2. CASE ~(file[t] \in cached)
      BY <1>0, <1>2, <2>1, <3>2 DEF AcquireNext, AcquireNode, CallTypes
    <3> QED
      BY <3>1, <3>2
  <2>10. RestTypes'
    <3>1. CASE file[t] \in cached
      BY <1>0, <1>2, <2>1, <3>1 DEF AcquireNext, AcquireNode, RestTypes
    <3>2. CASE ~(file[t] \in cached)
      BY <1>0, <1>2, <2>1, <3>2 DEF AcquireNext, AcquireNode, RestTypes
    <3> QED
      BY <3>1, <3>2
  <2> QED
    BY <2>7, <2>8, <2>9, <2>10, Zenon DEF TypeOK, FsTypes, NodeTypes, CallTypes, RestTypes
<1>3. CASE ReadNode(t)
  <2>1. Wanted(t) \in NodeId
    BY <1>3 DEF TypeOK, ReadNode
  <2>7. FsTypes'
    BY <1>0, <1>3, <2>1 DEF ReadNode, FsTypes
  <2>8. NodeTypes'
    BY <1>0, <1>3, <2>1 DEF ReadNode, NodeTypes
  <2>9. CallTypes'
    BY <1>0, <1>3, <2>1 DEF ReadNode, CallTypes, RestTypes
  <2>10. RestTypes'
    BY <1>0, <1>3, <2>1 DEF ReadNode, RestTypes
  <2> QED
    BY <2>7, <2>8, <2>9, <2>10, Zenon DEF TypeOK, FsTypes, NodeTypes, CallTypes, RestTypes
<1>4. CASE NodeReady(t)
  <2>7. FsTypes'
    BY <1>0, <1>4 DEF NodeReady, FsTypes
  <2>8. NodeTypes'
    BY <1>0, <1>4 DEF NodeReady, NodeTypes
  <2>9. CallTypes'
    BY <1>0, <1>4 DEF NodeReady, CallTypes, RestTypes
  <2>10. RestTypes'
    BY <1>0, <1>4 DEF NodeReady, RestTypes
  <2> QED
    BY <2>7, <2>8, <2>9, <2>10, Zenon DEF TypeOK, FsTypes, NodeTypes, CallTypes, RestTypes
<1>5. CASE Walk(t)
  <2>1. cur[t] \in NodeId /\ dir[cur[t]] \in Seq(DirEntry)
    BY <1>5 DEF TypeOK, Walk, Shape, DirEntry
  <2>2. Head(path[t]) \in Name /\ Tail(path[t]) \in Seq(Name)
    BY <1>5, HeadTailProperties DEF TypeOK, Walk
  <2>3. ASSUME Find(cur[t], Head(path[t])) # 0
        PROVE  dir[cur[t]][Find(cur[t], Head(path[t]))].id \in Id
    <3>1. Find(cur[t], Head(path[t])) \in 1 .. Len(dir[cur[t]])
      BY <2>1, <2>3, FindFacts
    <3>2. dir[cur[t]][Find(cur[t], Head(path[t]))] \in DirEntry
      BY <2>1, <3>1, ElementOfSeq
    <3> QED
      BY <3>2 DEF TypeOK, DirEntry
  <2>7. FsTypes'
    BY <1>0, <1>5, <2>2, <2>3 DEF Walk, FsTypes
  <2>8. NodeTypes'
    BY <1>0, <1>5, <2>2, <2>3 DEF Walk, NodeTypes
  <2>9. CallTypes'
    BY <1>0, <1>5, <2>2, <2>3 DEF Walk, CallTypes
  <2>10. RestTypes'
    BY <1>0, <1>5, <2>2, <2>3 DEF Walk, RestTypes
  <2> QED
    BY <2>7, <2>8, <2>9, <2>10, Zenon DEF TypeOK, FsTypes, NodeTypes, CallTypes, RestTypes
<1>6. CASE WalkFails(t)
  <2>1. cur[t] \in NodeId /\ (src[t] # None => src[t] \in NodeId)
    BY <1>6 DEF TypeOK, WalkFails, Shape, NodeId
  <2>2. <<cur[t]>> \o Source(t) \in Seq(NodeId)
    BY <2>1 DEF TypeOK, Source
  <2> QED
    BY <1>6, <2>2, ReturnTypes DEF TypeOK, WalkFails
<1>7. CASE Descend(t)
  <2>1. cur[t] \in NodeId /\ file[t] \in NodeId
    BY <1>7 DEF TypeOK, Descend, Shape, NodeId
  <2>2. <<cur[t]>> \in Seq(NodeId)
    BY <2>1
  <2>7. FsTypes'
    BY <1>0, <1>7, <2>1, <2>2 DEF Descend, Release, FsTypes
  <2>8. NodeTypes'
    BY <1>0, <1>7, <2>1, <2>2 DEF Descend, Release, NodeTypes
  <2>9. CallTypes'
    BY <1>0, <1>7, <2>1, <2>2 DEF Descend, Release, CallTypes
  <2>10. RestTypes'
    BY <1>0, <1>7, <2>1, <2>2 DEF Descend, Release, RestTypes
  <2> QED
    BY <2>7, <2>8, <2>9, <2>10, Zenon DEF TypeOK, FsTypes, NodeTypes, CallTypes, RestTypes
<1>8. CASE FollowLink(t)
  <2>1. cur[t] \in NodeId /\ file[t] \in NodeId /\ (src[t] # None => src[t] \in NodeId)
    BY <1>8 DEF TypeOK, FollowLink, Shape, NodeId
  <2>2. <<file[t], cur[t]>> \in Seq(NodeId) /\ Source(t) \in Seq(NodeId)
    BY <2>1 DEF TypeOK, Source
  <2>3. <<file[t], cur[t]>> \o Source(t) \in Seq(NodeId)
    BY <2>2
  <2>4. LinkPath \o path[t] \in Seq(Name)
    BY VFSAssumption DEF TypeOK
  <2>5. CASE Len(path[t]) > MaxRest
    BY <1>8, <2>3, <2>5, ReturnTypes DEF TypeOK, FollowLink
  <2>6. CASE ~(Len(path[t]) > MaxRest)
    <3>1. FsTypes' /\ NodeTypes'
      BY <1>0, <1>8, <2>6 DEF FollowLink, Return, Release, FsTypes, NodeTypes
    <3>2. CallTypes'
      BY <1>0, <1>8, <2>4, <2>6 DEF FollowLink, Return, Release, CallTypes
    <3>3. RestTypes'
      BY <1>0, <1>8, <2>2, <2>6 DEF FollowLink, Return, Release, RestTypes
    <3> QED
      BY <3>1, <3>2, <3>3, Zenon DEF TypeOK, FsTypes, NodeTypes, CallTypes, RestTypes
  <2> QED
    BY <2>5, <2>6
<1>9. CASE Stat(t)
  <2>1. cur[t] \in NodeId /\ file[t] \in NodeId
    BY <1>9 DEF TypeOK, Stat, Resolved, Shape, NodeId
  <2>2. <<cur[t], file[t]>> \in Seq(NodeId)
    BY <2>1
  <2> QED
    BY <1>9, <2>2, ReturnTypes DEF TypeOK, Stat
<1>10. CASE Open(t)
  <2>1. cur[t] \in NodeId /\ file[t] \in Id
    BY <1>10 DEF TypeOK, Open, Resolved, Shape
  <2>2. <<cur[t]>> \in Seq(NodeId)
    BY <2>1
  <2>3. opened' \in [Thread -> Id \cup {None}]
    BY <1>10, <2>1 DEF TypeOK, Open
  <2> QED
    BY <1>10, <2>2, <2>3, ReturnTypes DEF Open
<1>11. CASE Exists(t)
  <2>1. cur[t] \in NodeId /\ file[t] \in NodeId /\ (src[t] # None => src[t] \in NodeId)
    BY <1>11 DEF TypeOK, Exists, Resolved, Shape, NodeId
  <2>2. <<cur[t], file[t]>> \in Seq(NodeId) /\ Source(t) \in Seq(NodeId)
    BY <2>1 DEF TypeOK, Source
  <2>3. Source(t) \o <<cur[t], file[t]>> \in Seq(NodeId)
    BY <2>2
  <2> QED
    BY <1>11, <2>3, ReturnTypes DEF TypeOK, Exists
<1>12. CASE LinkFrom(t)
  <2>1. cur[t] \in NodeId /\ file[t] \in Id /\ call[t] \in Call
    BY <1>12 DEF TypeOK, LinkFrom, Resolved, Shape, Releasing
  <2>2. <<cur[t]>> \in Seq(NodeId) /\ call[t].path \in Seq(Name)
    BY <2>1, VFSAssumption
  <2>7. FsTypes'
    BY <1>0, <1>12, <2>1, <2>2 DEF LinkFrom, Release, FsTypes
  <2>8. NodeTypes'
    BY <1>0, <1>12, <2>1, <2>2 DEF LinkFrom, Release, NodeTypes
  <2>9. CallTypes'
    BY <1>0, <1>12, <2>1, <2>2 DEF LinkFrom, Release, CallTypes
  <2>10. RestTypes'
    BY <1>0, <1>12, <2>1, <2>2 DEF LinkFrom, Release, RestTypes
  <2> QED
    BY <2>7, <2>8, <2>9, <2>10, Zenon DEF TypeOK, FsTypes, NodeTypes, CallTypes, RestTypes
<1>13. CASE (\E i \in Id : CreateNode(t, i))
  <2>1. PICK i \in Id : CreateNode(t, i)
    BY <1>13
  <2>2. i \in NodeId /\ <<>> \in Seq([name : Name, id : Id])
    BY DEF TypeOK, NodeId
  <2>7. FsTypes'
    BY <1>0, <2>1, <2>2 DEF CreateNode, FsTypes
  <2>8. NodeTypes'
    BY <1>0, <2>1, <2>2 DEF CreateNode, NodeTypes
  <2>9. CallTypes'
    BY <1>0, <2>1, <2>2 DEF CreateNode, CallTypes
  <2>10. RestTypes'
    BY <1>0, <2>1, <2>2 DEF CreateNode, RestTypes
  <2> QED
    BY <2>7, <2>8, <2>9, <2>10, Zenon DEF TypeOK, FsTypes, NodeTypes, CallTypes, RestTypes
<1>14. CASE LinkInc(t)
  <2>1. src[t] \in Id /\ src[t] \in NodeId
    BY <1>14 DEF TypeOK, LinkInc, Shape, MayCreate, NodeId
  <2>7. FsTypes'
    BY <1>0, <1>14, <2>1 DEF LinkInc, FsTypes
  <2>8. NodeTypes'
    BY <1>0, <1>14, <2>1 DEF LinkInc, NodeTypes
  <2>9. CallTypes'
    BY <1>0, <1>14, <2>1 DEF LinkInc, CallTypes
  <2>10. RestTypes'
    BY <1>0, <1>14, <2>1 DEF LinkInc, RestTypes
  <2> QED
    BY <2>7, <2>8, <2>9, <2>10, Zenon DEF TypeOK, FsTypes, NodeTypes, CallTypes, RestTypes
<1>15. CASE Denied(t)
  <2>1. cur[t] \in NodeId /\ (src[t] # None => src[t] \in NodeId)
    BY <1>15 DEF TypeOK, Denied, Shape, NodeId
  <2>2. <<cur[t]>> \in Seq(NodeId) /\ Source(t) \in Seq(NodeId)
    BY <2>1 DEF TypeOK, Source
  <2>3. Source(t) \o <<cur[t]>> \in Seq(NodeId)
    BY <2>2
  <2> QED
    BY <1>15, <2>3, ReturnTypes DEF TypeOK, Denied
<1>16. CASE AddEntry(t)
  <2>1. cur[t] \in NodeId /\ file[t] \in Id /\ file[t] \in NodeId /\ name[t] \in Name
    BY <1>16 DEF TypeOK, AddEntry, Shape, NodeId
  <2>2. /\ Append(dir[cur[t]], [name |-> name[t], id |-> file[t]])
             \in Seq([name : Name, id : Id])
        /\ <<cur[t], file[t]>> \in Seq(NodeId)
    <3>1. [name |-> name[t], id |-> file[t]] \in DirEntry /\ dir[cur[t]] \in Seq(DirEntry)
      BY <2>1 DEF TypeOK, DirEntry
    <3>2. Append(dir[cur[t]], [name |-> name[t], id |-> file[t]]) \in Seq(DirEntry)
      BY <3>1, AppendProperties
    <3> QED
      BY <2>1, <3>2 DEF TypeOK, DirEntry
  <2>7. FsTypes'
    <3>1. CASE call[t].op = "opencreate"
      BY <1>0, <1>16, <2>2, <3>1 DEF AddEntry, Release, FsTypes
    <3>2. CASE ~(call[t].op = "opencreate")
      BY <1>0, <1>16, <2>2, <3>2 DEF AddEntry, Release, FsTypes
    <3> QED
      BY <3>1, <3>2
  <2>8. NodeTypes'
    <3>1. CASE call[t].op = "opencreate"
      BY <1>0, <1>16, <2>2, <3>1 DEF AddEntry, Release, NodeTypes
    <3>2. CASE ~(call[t].op = "opencreate")
      BY <1>0, <1>16, <2>2, <3>2 DEF AddEntry, Release, NodeTypes
    <3> QED
      BY <3>1, <3>2
  <2>9. CallTypes'
    <3>1. CASE call[t].op = "opencreate"
      BY <1>0, <1>16, <2>2, <3>1 DEF AddEntry, Release, CallTypes
    <3>2. CASE ~(call[t].op = "opencreate")
      BY <1>0, <1>16, <2>2, <3>2 DEF AddEntry, Release, CallTypes
    <3> QED
      BY <3>1, <3>2
  <2>10. RestTypes'
    <3>1. CASE call[t].op = "opencreate"
      BY <1>0, <1>16, <2>2, <3>1 DEF AddEntry, Release, RestTypes
    <3>2. CASE ~(call[t].op = "opencreate")
      BY <1>0, <1>16, <2>2, <3>2 DEF AddEntry, Release, RestTypes
    <3> QED
      BY <3>1, <3>2
  <2> QED
    BY <2>7, <2>8, <2>9, <2>10, Zenon DEF TypeOK, FsTypes, NodeTypes, CallTypes, RestTypes
<1>17. CASE DeleteCheck(t)
  <2>1. cur[t] \in NodeId /\ file[t] \in NodeId
    BY <1>17 DEF TypeOK, DeleteCheck, Resolved, Shape, NodeId
  <2>2. <<cur[t], file[t]>> \in Seq(NodeId) /\ <<file[t], cur[t]>> \in Seq(NodeId)
    BY <2>1
  <2>3. \/ UNCHANGED <<fsVars, nodeVars, callVars, todo, then, opened>> /\ pc' = [pc EXCEPT ![t] = "unlink"]
        \/ \E s \in Seq(NodeId) : Return(t, s) /\ opened' = opened
    BY <1>17, <2>2 DEF DeleteCheck
  <2>4. CASE UNCHANGED <<fsVars, nodeVars, callVars, todo, then, opened>> /\ pc' = [pc EXCEPT ![t] = "unlink"]
    <3>1. FsTypes' /\ NodeTypes'
      BY <1>0, <2>4 DEF FsTypes, NodeTypes
    <3>2. CallTypes' /\ RestTypes'
      BY <1>0, <2>4 DEF CallTypes, RestTypes
    <3> QED
      BY <3>1, <3>2, Zenon DEF TypeOK, FsTypes, NodeTypes, CallTypes, RestTypes
  <2>5. ASSUME NEW s \in Seq(NodeId), Return(t, s), opened' = opened
        PROVE  TypeOK'
    BY <2>5, ReturnTypes DEF TypeOK
  <2> QED
    BY <2>3, <2>4, <2>5
<1>18. CASE Unlink(t)
  <2>1. cur[t] \in NodeId /\ dir[cur[t]] \in Seq(DirEntry) /\ NoCall \in Call \cup {NoCall}
    BY <1>18 DEF TypeOK, Unlink, Shape, DirEntry
  <2>2. ASSUME Find(cur[t], name[t]) # 0
        PROVE  RemoveAt(dir[cur[t]], Find(cur[t], name[t])) \in Seq([name : Name, id : Id])
    <3>1. Find(cur[t], name[t]) \in 1 .. Len(dir[cur[t]])
      BY <2>1, <2>2, FindFacts
    <3> QED
      BY <2>1, <3>1, RemoveFacts DEF TypeOK, DirEntry
  <2> HIDE DEF TypeOK, NoCall
  <2>7. FsTypes'
    <3>1. CASE Find(cur[t], name[t]) # 0
      BY <1>0, <1>18, <2>1, <2>2, <3>1 DEF Unlink, FsTypes
    <3>2. CASE ~(Find(cur[t], name[t]) # 0)
      <4>1. cur[t] \in NodeId /\ file[t] \in NodeId
        BY <1>18 DEF TypeOK, Unlink, Shape, NodeId
      <4>2. PICK c \in NodeId, f \in NodeId : c = cur[t] /\ f = file[t]
        BY <4>1
      <4>3. lost' = [[lost EXCEPT ![c] = @ + 1] EXCEPT ![f] = @ + 1]
        BY <1>18, <3>2, <4>2 DEF Unlink
      <4>4. [lost EXCEPT ![c] = @ + 1] \in [NodeId -> Nat]
        BY <1>0, <4>2 DEF FsTypes
      <4>5. lost' \in [NodeId -> Nat]
        BY <4>2, <4>3, <4>4
      <4> QED
        BY <1>0, <1>18, <2>1, <2>2, <3>2, <4>5 DEF Unlink, FsTypes
    <3> QED
      BY <3>1, <3>2
  <2>8. NodeTypes'
    <3>1. CASE Find(cur[t], name[t]) # 0
      BY <1>0, <1>18, <2>1, <2>2, <3>1 DEF Unlink, NodeTypes
    <3>2. CASE ~(Find(cur[t], name[t]) # 0)
      BY <1>0, <1>18, <2>1, <2>2, <3>2 DEF Unlink, NodeTypes
    <3> QED
      BY <3>1, <3>2
  <2>9. CallTypes'
    <3>1. CASE Find(cur[t], name[t]) # 0
      BY <1>0, <1>18, <2>1, <2>2, <3>1 DEF Unlink, CallTypes
    <3>2. CASE ~(Find(cur[t], name[t]) # 0)
      BY <1>0, <1>18, <2>1, <2>2, <3>2 DEF Unlink, CallTypes
    <3> QED
      BY <3>1, <3>2
  <2>10. RestTypes'
    <3>1. CASE Find(cur[t], name[t]) # 0
      BY <1>0, <1>18, <2>1, <2>2, <3>1 DEF Unlink, RestTypes
    <3>2. CASE ~(Find(cur[t], name[t]) # 0)
      BY <1>0, <1>18, <2>1, <2>2, <3>2 DEF Unlink, RestTypes
    <3> QED
      BY <3>1, <3>2
  <2> QED
    BY <2>7, <2>8, <2>9, <2>10, Zenon DEF TypeOK, FsTypes, NodeTypes, CallTypes, RestTypes
<1>19. CASE LinkDec(t)
  <2>1. cur[t] \in NodeId /\ file[t] \in Id /\ file[t] \in NodeId
    BY <1>19 DEF TypeOK, LinkDec, Shape, NodeId
  <2>4. linkCount[file[t]] - 1 \in Int /\ <<file[t], cur[t]>> \in Seq(NodeId)
    BY <2>1 DEF TypeOK
  <2>7. FsTypes'
    BY <1>0, <1>19, <2>4 DEF LinkDec, Release, FsTypes
  <2>8. NodeTypes'
    BY <1>0, <1>19, <2>4 DEF LinkDec, Release, NodeTypes
  <2>9. CallTypes'
    BY <1>0, <1>19, <2>4 DEF LinkDec, Release, CallTypes
  <2>10. RestTypes'
    BY <1>0, <1>19, <2>4 DEF LinkDec, Release, RestTypes
  <2> QED
    BY <2>7, <2>8, <2>9, <2>10, Zenon DEF TypeOK, FsTypes, NodeTypes, CallTypes, RestTypes
<1>20. CASE ReleaseNode(t)
  <2>1. Releasing(t)
    BY <1>20 DEF TypeOK, ReleaseNode, Releasing
  <2>2. /\ todo[t] \in Seq(NodeId) /\ todo[t] # <<>> /\ Head(todo[t]) \in NodeId
        /\ refCount[Head(todo[t])] >= 1
    BY <1>20, <2>1, HeadBacked DEF TypeOK, ReleaseNode
  <2>3. refCount[Head(todo[t])] - 1 \in Nat /\ Tail(todo[t]) \in Seq(NodeId)
    BY <2>2, HeadTailProperties DEF TypeOK
  <2> HIDE DEF TypeOK, NoCall
  <2>7. FsTypes'
    <3>1. CASE LastReference(Head(todo[t]))
      BY <1>0, <1>20, <2>3, <3>1 DEF ReleaseNode, Done, FsTypes
    <3>2. CASE ~(LastReference(Head(todo[t])))
      BY <1>0, <1>20, <2>3, <3>2 DEF ReleaseNode, Done, FsTypes
    <3> QED
      BY <3>1, <3>2
  <2>8. NodeTypes'
    <3>1. CASE LastReference(Head(todo[t]))
      BY <1>0, <1>20, <2>3, <3>1 DEF ReleaseNode, Done, NodeTypes
    <3>2. CASE ~(LastReference(Head(todo[t])))
      BY <1>0, <1>20, <2>3, <3>2 DEF ReleaseNode, Done, NodeTypes
    <3> QED
      BY <3>1, <3>2
  <2>9. CallTypes'
    <3>1. CASE LastReference(Head(todo[t]))
      BY <1>0, <1>20, <2>3, <3>1 DEF ReleaseNode, Done, CallTypes, RestTypes
    <3>2. CASE ~(LastReference(Head(todo[t])))
      <4>1. /\ path' = path /\ name' = name /\ cur' = cur
            /\ pc' = [pc EXCEPT ![t] = IF Len(todo[t]) = 1 THEN then[t] ELSE "release"]
            /\ call' = [call EXCEPT ![t] = IF Len(todo[t]) = 1 /\ then[t] = "idle"
                                             THEN NoCall ELSE call[t]]
        BY <1>20, <3>2 DEF ReleaseNode, Done
      <4> QED
        BY <1>0, <4>1 DEF CallTypes, RestTypes
    <3> QED
      BY <3>1, <3>2
  <2>10. RestTypes'
    <3>1. CASE LastReference(Head(todo[t]))
      BY <1>0, <1>20, <2>3, <3>1 DEF ReleaseNode, Done, RestTypes
    <3>2. CASE ~(LastReference(Head(todo[t])))
      BY <1>0, <1>20, <2>3, <3>2 DEF ReleaseNode, Done, RestTypes
    <3> QED
      BY <3>1, <3>2
  <2> QED
    BY <2>7, <2>8, <2>9, <2>10, Zenon DEF TypeOK, FsTypes, NodeTypes, CallTypes, RestTypes
<1>21. CASE DestroyNode(t)
  <2>1. Releasing(t)
    BY <1>21 DEF TypeOK, DestroyNode, Releasing
  <2>2. todo[t] \in Seq(NodeId) /\ todo[t] # <<>>
    BY <2>1, HeadBacked
  <2>3. Tail(todo[t]) \in Seq(NodeId)
    BY <2>2
  <2> HIDE DEF TypeOK, NoCall
  <2>7. FsTypes'
    BY <1>0, <1>21, <2>3 DEF DestroyNode, Done, FsTypes
  <2>8. NodeTypes'
    BY <1>0, <1>21, <2>3 DEF DestroyNode, Done, NodeTypes
  <2>9. CallTypes'
    BY <1>0, <1>21, <2>3 DEF DestroyNode, Done, CallTypes, RestTypes
  <2>10. RestTypes'
    BY <1>0, <1>21, <2>3 DEF DestroyNode, Done, RestTypes
  <2> QED
    BY <2>7, <2>8, <2>9, <2>10, Zenon DEF TypeOK, FsTypes, NodeTypes, CallTypes, RestTypes
<1>22. CASE Close(t)
  <2>1. opened[t] \in NodeId
    BY <1>22 DEF TypeOK, Close, NodeId
  <2>2. <<opened[t]>> \in Seq(NodeId)
    BY <2>1
  <2> HIDE DEF TypeOK, NoCall
  <2>7. FsTypes'
    BY <1>0, <1>22, <2>2 DEF Close, Release, FsTypes
  <2>8. NodeTypes'
    BY <1>0, <1>22, <2>2 DEF Close, Release, NodeTypes
  <2>9. CallTypes'
    BY <1>0, <1>22, <2>2 DEF Close, Release, CallTypes
  <2>10. RestTypes'
    BY <1>0, <1>22, <2>2 DEF Close, Release, RestTypes
  <2> QED
    BY <2>7, <2>8, <2>9, <2>10, Zenon DEF TypeOK, FsTypes, NodeTypes, CallTypes, RestTypes
<1>23. CASE (\E c \in Call : Begin(t, c))
  <2>1. PICK c \in Call : Begin(t, c)
    BY <1>23
  <2>2. c.path \in Seq(Name) /\ c.from \in Seq(Name)
    BY VFSAssumption
  <2>7. FsTypes'
    <3>1. raced' \in 0 .. MaxRaced
      BY <1>0, <2>1, VFSAssumption DEF Begin, FsTypes
    <3> QED
      BY <1>0, <2>1, <3>1 DEF Begin, FsTypes
  <2>8. NodeTypes'
    BY <1>0, <2>1, <2>2 DEF Begin, NodeTypes
  <2>9. CallTypes'
    BY <1>0, <2>1, <2>2 DEF Begin, CallTypes
  <2>10. RestTypes'
    BY <1>0, <2>1, <2>2 DEF Begin, RestTypes
  <2> QED
    BY <2>7, <2>8, <2>9, <2>10, Zenon DEF TypeOK, FsTypes, NodeTypes, CallTypes, RestTypes
<1> QED
  BY <1>1, <1>2, <1>3, <1>4, <1>5, <1>6, <1>7, <1>8, <1>9, <1>10, <1>11, <1>12, <1>13, <1>14, <1>15, <1>16, <1>17, <1>18, <1>19, <1>20, <1>21, <1>22, <1>23 DEF Step, Acts

\* A sequence without its first element.
LEMMA TailFacts ==
  ASSUME NEW S, NEW s \in Seq(S), Len(s) >= 1
  PROVE  /\ s # <<>> /\ Tail(s) \in Seq(S) /\ Len(Tail(s)) = Len(s) - 1
         /\ Len(s) = 1 => Tail(s) = <<>>
         /\ \A k \in 1 .. Len(s) - 1 : Tail(s)[k] = s[k + 1]
<1>1. s # <<>>
  <2>1. Len(<<>>) = 0 /\ ~(0 >= 1)
    BY EmptySeq
  <2> QED
    BY <2>1, Zenon
<1>2. Tail(s) \in Seq(S) /\ Len(Tail(s)) = Len(s) - 1
  BY <1>1, HeadTailProperties
<1>3. \A k \in 1 .. Len(Tail(s)) : Tail(s)[k] = s[k + 1]
  BY <1>1, HeadTailProperties
<1>4. ASSUME Len(s) = 1 PROVE Tail(s) = <<>>
  <2>1. \A q \in Seq(S) : q # <<>> => Len(q) \in Nat \ {0}
    BY EmptySeq
  <2>2. Len(Tail(s)) \notin Nat \ {0}
    BY <1>2, <1>4
  <2> QED
    BY <1>2, <2>1, <2>2, Zenon
<1> QED
  BY <1>1, <1>2, <1>3, <1>4

\* todo has at most three nodes, and at least one while they are released.
LEMMA AtLeastOne == \A n \in 1 .. 3 : n >= 1
OBVIOUS

\* After a node of todo is done, t goes on with the next one or at its next point.
LEMMA DoneShape ==
  ASSUME TypeOK, NEW t \in Thread, Shape(t), Releasing(t), Done(t),
         file' = file, cur' = cur, src' = src, then' = then
  PROVE  Shape(t)'
<1> USE DEF TypeOK, Set, Shape, Releasing, Done
<1>1. todo[t] \in Seq(NodeId) /\ Len(todo[t]) \in 1 .. 3
  OBVIOUS
<1>2. CASE Len(todo[t]) = 1
  <2>1. /\ pc'[t] = then[t] /\ todo'[t] = <<>>
        /\ call'[t] = IF then[t] = "idle" THEN NoCall ELSE call[t]
    <3>1. Tail(todo[t]) = <<>>
      <4>1. Len(todo[t]) >= 1
        BY <1>2
      <4> QED
        BY <1>1, <1>2, <4>1, TailFacts
    <3> QED
      BY <1>2, <3>1
  <2> QED
    BY <2>1
<1>3. CASE Len(todo[t]) # 1
  <2>1. /\ pc'[t] = "release" /\ todo'[t] = Tail(todo[t]) /\ call'[t] = call[t]
    BY <1>3
  <2>2. Len(todo'[t]) \in 1 .. 3
    <3>1. Len(Tail(todo[t])) = Len(todo[t]) - 1
      <4>1. Len(todo[t]) >= 1
        BY <1>1, AtLeastOne, Zenon
      <4> QED
        BY <1>1, <4>1, TailFacts
    <3> QED
      BY <1>1, <1>3, <2>1, <3>1
  <2> QED
    BY <2>1, <2>2
<1> QED
  BY <1>2, <1>3

\* What a thread has in its variables fits the point it comes to.
LEMMA ShapeStep ==
  ASSUME TypeOK, NEW t \in Thread, Shape(t), Acts(t)
  PROVE  Shape(t)'
<1> USE DEF TypeOK, Set, callVars, Shape, Releasing
<1>1. CASE AcquireRoot(t)
  <2>1. /\ pc'[t] \in {"walk", "load", "wait"} /\ then'[t] = "walk" /\ cur'[t] = Root
        /\ pc[t] = "root" /\ todo'[t] = todo[t] /\ call'[t] = call[t]
    BY <1>1 DEF AcquireRoot, AcquireNode
  <2>2. file'[t] = file[t] /\ src'[t] = src[t] /\ Root \in NodeId
    BY <1>1 DEF AcquireRoot, NodeId
  <2> QED
    BY <2>1, <2>2
<1>2. CASE AcquireNext(t)
  <2>1. /\ pc[t] = "next" /\ pc'[t] \in {"found", "load", "wait"} /\ then'[t] = "found"
        /\ todo'[t] = todo[t] /\ UNCHANGED callVars
    BY <1>2 DEF AcquireNext, AcquireNode
  <2> QED
    BY <2>1
<1>3. CASE ReadNode(t)
  <2>1. /\ pc[t] = "load" /\ pc'[t] = then[t] /\ todo'[t] = todo[t]
        /\ UNCHANGED callVars
    BY <1>3 DEF ReadNode
  <2> QED
    BY <2>1 DEF NodeId
<1>4. CASE NodeReady(t)
  <2>1. /\ pc[t] = "wait" /\ pc'[t] = then[t] /\ todo'[t] = todo[t]
        /\ UNCHANGED callVars
    BY <1>4 DEF NodeReady
  <2> QED
    BY <2>1 DEF NodeId
<1>5. CASE Walk(t)
  <2>1. /\ pc[t] = "walk" /\ path[t] # <<>> /\ name'[t] = Head(path[t])
        /\ path'[t] = Tail(path[t])
        /\ UNCHANGED <<call, cur, src, todo>>
    BY <1>5 DEF Walk
  <2>2. Head(path[t]) \in Name
    BY <2>1, HeadTailProperties
  <2>3. CASE file'[t] = dir[cur[t]][Find(cur[t], Head(path[t]))].id /\ pc'[t] = "next"
    <3>1. dir[cur[t]] \in Seq(DirEntry) /\ Find(cur[t], Head(path[t])) # 0
      BY <1>5, <2>1, <2>3 DEF Walk, DirEntry
    <3>2. Find(cur[t], Head(path[t])) \in 1 .. Len(dir[cur[t]])
      BY <3>1, FindFacts
    <3>3. dir[cur[t]][Find(cur[t], Head(path[t]))] \in DirEntry
      BY <3>1, <3>2, ElementOfSeq
    <3> QED
      BY <2>1, <2>2, <2>3, <3>3 DEF DirEntry
  <2>4. CASE pc'[t] = "absent" /\ file' = file /\ MayCreate(t) /\ Len(path[t]) = 1
    <3>1. path[t] \in Seq(Name) /\ Len(path[t]) >= 1
      BY <2>4
    <3>2. Tail(path[t]) = <<>>
      BY <2>4, <3>1, TailFacts
    <3>3. path'[t] = <<>>
      BY <2>1, <3>2
    <3> QED
      BY <2>1, <2>2, <2>4, <3>3 DEF MayCreate
  <2> QED
    BY <1>5, <2>3, <2>4 DEF Walk
<1>6. CASE WalkFails(t)
  BY <1>6 DEF WalkFails, Return, Release, Resolved, Source
<1>7. CASE Descend(t)
  <2>1. /\ pc[t] = "found" /\ pc'[t] = "release" /\ then'[t] = "walk"
        /\ todo'[t] = <<cur[t]>> /\ cur'[t] = file[t] /\ file'[t] = None
        /\ call'[t] = call[t] /\ src'[t] = src[t]
    BY <1>7 DEF Descend, Release
  <2>2. Len(<<cur[t]>>) = 1
    OBVIOUS
  <2> QED
    BY <2>1, <2>2 DEF NodeId
<1>8. CASE FollowLink(t)
  <2>1. pc[t] = "found" /\ call'[t] = call[t] /\ pc'[t] = "release" /\ file'[t] = None /\ cur'[t] = None
    BY <1>8 DEF FollowLink, Return, Release
  <2>2. CASE Len(path[t]) > MaxRest
    <3>1. /\ then'[t] = "idle" /\ src'[t] = None
          /\ todo'[t] = <<file[t], cur[t]>> \o Source(t)
      BY <1>8, <2>2 DEF FollowLink, Return, Release
    <3>2. Len(todo'[t]) \in 1 .. 3
      BY <3>1 DEF Source
    <3> QED
      BY <2>1, <3>1, <3>2
  <2>3. CASE ~(Len(path[t]) > MaxRest)
    <3>1. /\ then'[t] = "root" /\ src'[t] = src[t]
          /\ todo'[t] = <<file[t], cur[t]>>
      BY <1>8, <2>3 DEF FollowLink, Release
    <3>2. Len(todo'[t]) \in 1 .. 3
      BY <3>1
    <3> QED
      BY <2>1, <3>1, <3>2
  <2> QED
    BY <2>2, <2>3
<1>9. CASE Stat(t)
  BY <1>9 DEF Stat, Return, Release, Resolved, Source
<1>10. CASE Open(t)
  BY <1>10 DEF Open, Return, Release, Resolved, Source
<1>11. CASE Exists(t)
  BY <1>11 DEF Exists, Return, Release, Resolved, Source
<1>12. CASE LinkFrom(t)
  BY <1>12 DEF LinkFrom, Release, Resolved, Source
<1>13. CASE (\E i \in Id : CreateNode(t, i))
  <2>1. PICK i \in Id : CreateNode(t, i)
    BY <1>13
  <2>2. /\ pc[t] = "absent" /\ pc'[t] = "add" /\ file'[t] = i /\ call[t].op # "link"
        /\ call' = call /\ path' = path /\ name' = name /\ cur' = cur /\ src' = src
        /\ todo' = todo
    BY <2>1 DEF CreateNode
  <2> QED
    BY <2>2 DEF MayCreate
<1>14. CASE LinkInc(t)
  BY <1>14 DEF LinkInc, MayCreate
<1>15. CASE Denied(t)
  BY <1>15 DEF Denied, Return, Release, Resolved, Source, MayCreate
<1>16. CASE AddEntry(t)
  BY <1>16 DEF AddEntry, Release
<1>17. CASE DeleteCheck(t)
  BY <1>17 DEF DeleteCheck, Return, Release, Resolved, Source
<1>18. CASE Unlink(t)
  BY <1>18 DEF Unlink
<1>19. CASE LinkDec(t)
  BY <1>19 DEF LinkDec, Release
<1>20. CASE ReleaseNode(t)
  <2>1. Releasing(t) /\ pc[t] = "release"
    BY <1>20 DEF ReleaseNode
  <2>2. /\ file' = file /\ cur' = cur /\ src' = src /\ then' = then
    BY <1>20 DEF ReleaseNode
  <2>3. CASE LastReference(Head(todo[t]))
    <3>1. pc'[t] = "destroy" /\ todo' = todo /\ call' = call
      BY <1>20, <2>3 DEF ReleaseNode
    <3> QED
      BY <2>1, <2>2, <3>1
  <2>4. CASE ~LastReference(Head(todo[t]))
    BY <1>20, <2>1, <2>2, <2>4, DoneShape DEF ReleaseNode
  <2> QED
    BY <2>3, <2>4
<1>21. CASE DestroyNode(t)
  BY <1>21, DoneShape DEF DestroyNode
<1>22. CASE Close(t)
  BY <1>22 DEF Close, Release
<1>23. CASE (\E c \in Call : Begin(t, c))
  BY <1>23 DEF Begin
<1> QED
  BY <1>1, <1>2, <1>3, <1>4, <1>5, <1>6, <1>7, <1>8, <1>9, <1>10, <1>11, <1>12, <1>13, <1>14, <1>15, <1>16, <1>17, <1>18, <1>19, <1>20, <1>21, <1>22, <1>23 DEF Step, Acts

\* How often n is in a todo list.
Debt(s, n) ==
    One(1 <= Len(s) /\ s[1] = n) + One(2 <= Len(s) /\ s[2] = n)
  + One(3 <= Len(s) /\ s[3] = n)

\* The lists that calls make.
LEMMA DebtOf ==
  ASSUME NEW n
  PROVE  /\ Debt(<<>>, n) = 0
         /\ \A a : Debt(<<a>>, n) = One(a = n)
         /\ \A a, b : Debt(<<a, b>>, n) = One(a = n) + One(b = n)
         /\ \A a, b, c : Debt(<<a, b, c>>, n) = One(a = n) + One(b = n) + One(c = n)
<1>1. Debt(<<>>, n) = 0
  BY DEF Debt, One
<1>2. \A a : Debt(<<a>>, n) = One(a = n)
  BY DEF Debt, One
<1>3. \A a, b : Debt(<<a, b>>, n) = One(a = n) + One(b = n)
  BY DEF Debt, One
<1>4. \A a, b, c : Debt(<<a, b, c>>, n) = One(a = n) + One(b = n) + One(c = n)
  BY DEF Debt, One
<1> QED
  BY <1>1, <1>2, <1>3, <1>4

\* A list without its first node.
LEMMA DebtTail ==
  ASSUME NEW n, NEW S, NEW s \in Seq(S), Len(s) \in 1 .. 3
  PROVE  /\ Debt(s, n) = One(Head(s) = n) + Debt(Tail(s), n)
         /\ Debt(Tail(s), n) = One(2 <= Len(s) /\ s[2] = n) + One(3 <= Len(s) /\ s[3] = n)
<1>1. Len(s) = 1 \/ Len(s) = 2 \/ Len(s) = 3
  OBVIOUS
<1>2. Len(s) >= 1
  BY <1>1
<1>3. PICK r : r = Tail(s)
  OBVIOUS
<1>4. /\ Len(r) = Len(s) - 1
      /\ \A k \in 1 .. Len(s) - 1 : r[k] = s[k + 1]
  BY <1>2, <1>3, TailFacts
<1>5. PICK h : h = Head(s) /\ h = s[1]
  BY <1>2
<1>6. /\ Debt(s, n) = One(h = n) + Debt(r, n)
      /\ Debt(r, n) = One(2 <= Len(s) /\ s[2] = n) + One(3 <= Len(s) /\ s[3] = n)
  <2>1. CASE Len(s) = 1
    BY <1>4, <1>5, <2>1 DEF Debt, One
  <2>2. CASE Len(s) = 2
    <3>1. Len(r) = 1 /\ r[1] = s[2]
      BY <1>4, <2>2
    <3> QED
      BY <1>5, <2>2, <3>1 DEF Debt, One
  <2>3. CASE Len(s) = 3
    <3>1. Len(r) = 2 /\ r[1] = s[2] /\ r[2] = s[3]
      BY <1>4, <2>3
    <3> QED
      BY <1>5, <2>3, <3>1 DEF Debt, One
  <2> QED
    BY <1>1, <2>1, <2>2, <2>3
<1> QED
  BY <1>3, <1>5, <1>6

\* References in the variables of t.
Uses(t, n) ==
    One(cur[t] = n) + One(file[t] = n /\ pc[t] # "next") + One(src[t] = n)
  + One(opened[t] = n)

\* What t holds, before a step.
LEMMA HeldIs ==
  ASSUME TypeOK, NEW t \in Thread, Shape(t), NEW n
  PROVE  /\ pc[t] # "destroy" => Held(t, n) = Uses(t, n) + Debt(todo[t], n)
         /\ pc[t] = "destroy" => Held(t, n) = Uses(t, n) + Debt(Tail(todo[t]), n)
<1>1. ASSUME pc[t] # "destroy" PROVE Held(t, n) = Uses(t, n) + Debt(todo[t], n)
  BY <1>1 DEF Held, Uses, Debt, Owes, One
<1>2. ASSUME pc[t] = "destroy" PROVE Held(t, n) = Uses(t, n) + Debt(Tail(todo[t]), n)
  <2>1. todo[t] \in Seq(NodeId) /\ Len(todo[t]) \in 1 .. 3
    BY <1>2 DEF TypeOK, Shape, Releasing
  <2>2. Debt(Tail(todo[t]), n) = One(2 <= Len(todo[t]) /\ todo[t][2] = n)
                                   + One(3 <= Len(todo[t]) /\ todo[t][3] = n)
    BY <2>1, DebtTail
  <2>3. ~Owes(t, 1, n) /\ (Owes(t, 2, n) <=> 2 <= Len(todo[t]) /\ todo[t][2] = n)
          /\ (Owes(t, 3, n) <=> 3 <= Len(todo[t]) /\ todo[t][3] = n)
    BY <1>2 DEF Owes
  <2> QED
    BY <2>2, <2>3 DEF Held, Uses, One
<1> QED
  BY <1>1, <1>2

\* What t holds, after a step.
LEMMA HeldIsNext ==
  ASSUME NEW t \in Thread, NEW n
  PROVE  /\ pc'[t] # "destroy" => Held(t, n)' = Uses(t, n)' + Debt(todo'[t], n)
         /\ pc'[t] = "destroy" /\ todo'[t] \in Seq(NodeId) /\ Len(todo'[t]) \in 1 .. 3 =>
              Held(t, n)' = Uses(t, n)' + Debt(Tail(todo'[t]), n)
<1>1. ASSUME pc'[t] # "destroy" PROVE Held(t, n)' = Uses(t, n)' + Debt(todo'[t], n)
  BY <1>1 DEF Held, Uses, Debt, Owes, One
<1>2. ASSUME pc'[t] = "destroy", todo'[t] \in Seq(NodeId), Len(todo'[t]) \in 1 .. 3
      PROVE  Held(t, n)' = Uses(t, n)' + Debt(Tail(todo'[t]), n)
  <2>1. Debt(Tail(todo'[t]), n) = One(2 <= Len(todo'[t]) /\ todo'[t][2] = n)
                                   + One(3 <= Len(todo'[t]) /\ todo'[t][3] = n)
    BY <1>2, DebtTail
  <2>2. ~Owes(t, 1, n)' /\ (Owes(t, 2, n)' <=> 2 <= Len(todo'[t]) /\ todo'[t][2] = n)
          /\ (Owes(t, 3, n)' <=> 3 <= Len(todo'[t]) /\ todo'[t][3] = n)
    BY <1>2 DEF Owes
  <2> QED
    BY <2>1, <2>2 DEF Held, Uses, One
<1> QED
  BY <1>1, <1>2

\* A thread that releases nothing holds what it has in its variables.
LEMMA HeldAtRest ==
  ASSUME TypeOK, NEW t \in Thread, Shape(t), ~Releasing(t), NEW n
  PROVE  Held(t, n) = Uses(t, n)
<1>1. pc[t] # "destroy" /\ todo[t] = <<>>
  BY DEF Shape, Releasing
<1>2. Held(t, n) = Uses(t, n) + Debt(<<>>, n)
  BY <1>1, HeldIs
<1>3. Debt(<<>>, n) = 0 /\ Uses(t, n) \in Int
  BY DebtOf DEF Uses, One
<1> QED
  BY <1>2, <1>3

\* The same after a step.
LEMMA HeldAtRestNext ==
  ASSUME NEW t \in Thread, pc'[t] \notin {"release", "destroy"}, todo'[t] = <<>>, NEW n
  PROVE  Held(t, n)' = Uses(t, n)'
<1>1. Held(t, n)' = Uses(t, n)' + Debt(<<>>, n)
  BY HeldIsNext
<1>2. Debt(<<>>, n) = 0 /\ Uses(t, n)' \in Int
  BY DebtOf DEF Uses, One
<1> QED
  BY <1>1, <1>2

\* A call that returns holds what it will release and its descriptor.
LEMMA ReturnHeld ==
  ASSUME NEW t \in Thread, NEW n \in NodeId,
         pc'[t] = "release", cur'[t] = None, file'[t] = None, src'[t] = None
  PROVE  Held(t, n)' = One(opened'[t] = n) + Debt(todo'[t], n)
<1>1. Held(t, n)' = Uses(t, n)' + Debt(todo'[t], n)
  BY HeldIsNext
<1>2. Uses(t, n)' = One(opened'[t] = n)
  BY VFSAssumption DEF Uses, One
<1> QED
  BY <1>1, <1>2

\* A list that is put together from two.
LEMMA DebtConcat ==
  ASSUME NEW n, NEW p \in Seq(NodeId), NEW q \in Seq(NodeId), Len(p) + Len(q) <= 3
  PROVE  Debt(p \o q, n) = Debt(p, n) + Debt(q, n)
<1>1. Len(p) \in Nat /\ Len(q) \in Nat
  OBVIOUS
<1>2. PICK s : s = p \o q
  OBVIOUS
<1>3. /\ Len(s) = Len(p) + Len(q)
      /\ \A i \in 1 .. Len(p) + Len(q) : s[i] = IF i <= Len(p) THEN p[i] ELSE q[i - Len(p)]
  BY <1>2, ConcatProperties
<1>4. \A i \in Nat : 1 <= i /\ i <= Len(p) + Len(q) =>
                       s[i] = IF i <= Len(p) THEN p[i] ELSE q[i - Len(p)]
  BY <1>1, <1>3
<1>5. Debt(s, n) = Debt(p, n) + Debt(q, n)
  <2>1. CASE Len(p) = 0
    BY <1>1, <1>3, <1>4, <2>1 DEF Debt, One
  <2>2. CASE Len(p) = 1
    BY <1>1, <1>3, <1>4, <2>2 DEF Debt, One
  <2>3. CASE Len(p) = 2
    BY <1>1, <1>3, <1>4, <2>3 DEF Debt, One
  <2>4. CASE Len(p) = 3
    BY <1>1, <1>3, <1>4, <2>4 DEF Debt, One
  <2>5. \A i, j \in Nat : i + j <= 3 => i = 0 \/ i = 1 \/ i = 2 \/ i = 3
    OBVIOUS
  <2>6. Len(p) = 0 \/ Len(p) = 1 \/ Len(p) = 2 \/ Len(p) = 3
    BY <1>1, <2>5, Zenon
  <2> QED
    BY <2>1, <2>2, <2>3, <2>4, <2>6
<1> QED
  BY <1>2, <1>5

\* The list of the source of a hard link.
LEMMA DebtSource ==
  ASSUME TypeOK, NEW t \in Thread, NEW n \in NodeId
  PROVE  Source(t) \in Seq(NodeId) /\ Len(Source(t)) <= 1 /\ Debt(Source(t), n) = One(src[t] = n)
<1>1. CASE src[t] = None
  <2>1. Source(t) = <<>> /\ One(src[t] = n) = 0
    BY <1>1, VFSAssumption DEF Source, One
  <2>2. Debt(<<>>, n) = 0 /\ <<>> \in Seq(NodeId) /\ Len(<<>>) <= 1
    BY DebtOf
  <2> QED
    BY <2>1, <2>2, Zenon
<1>2. CASE src[t] # None
  <2>1. PICK c \in NodeId : c = src[t] /\ Source(t) = <<c>>
    BY <1>2 DEF Source, TypeOK, NodeId
  <2>2. <<c>> \in Seq(NodeId) /\ Len(<<c>>) <= 1
    OBVIOUS
  <2>3. Debt(<<c>>, n) = One(c = n)
    BY DebtOf
  <2> QED
    BY <2>1, <2>2, <2>3, Zenon
<1> QED
  BY <1>1, <1>2

\* The lists that end or begin with it.
LEMMA DebtWithSource ==
  ASSUME TypeOK, NEW t \in Thread, NEW n \in NodeId, NEW p \in Seq(NodeId), Len(p) <= 2
  PROVE  /\ Debt(p \o Source(t), n) = Debt(p, n) + One(src[t] = n)
         /\ Debt(Source(t) \o p, n) = Debt(p, n) + One(src[t] = n)
<1>1. PICK q \in Seq(NodeId) : q = Source(t) /\ Len(q) <= 1 /\ Debt(q, n) = One(src[t] = n)
  BY DebtSource
<1>2. Len(p) + Len(q) <= 3 /\ Len(q) + Len(p) <= 3
  BY <1>1
<1>3. /\ Debt(p \o q, n) = Debt(p, n) + Debt(q, n)
      /\ Debt(q \o p, n) = Debt(q, n) + Debt(p, n)
  BY <1>2, DebtConcat
<1>4. Debt(p, n) \in Int /\ Debt(q, n) \in Int
  BY DEF Debt, One
<1> QED
  BY <1>1, <1>3, <1>4

\* A thread between two sections holds the nodes of its variables.
LEMMA RestHeld ==
  ASSUME TypeOK, NEW t \in Thread, Shape(t), ~Releasing(t), pc[t] # "next", NEW n
  PROVE  Held(t, n) = One(cur[t] = n) + One(file[t] = n) + One(src[t] = n) + One(opened[t] = n)
BY HeldAtRest DEF Uses, One

\* One that releases nodes holds them as well.
LEMMA ReleaseHeld ==
  ASSUME NEW t \in Thread, pc'[t] = "release", NEW n
  PROVE  Held(t, n)' = One(cur'[t] = n) + One(file'[t] = n) + One(src'[t] = n)
                         + One(opened'[t] = n) + Debt(todo'[t], n)
<1>1. Held(t, n)' = Uses(t, n)' + Debt(todo'[t], n)
  BY HeldIsNext
<1>2. Uses(t, n)' = One(cur'[t] = n) + One(file'[t] = n) + One(src'[t] = n) + One(opened'[t] = n)
  BY DEF Uses, One
<1> QED
  BY <1>1, <1>2

\* A list of one node.
LEMMA DebtOne ==
  ASSUME NEW c, NEW n
  PROVE  Debt(<<c>>, n) = One(c = n)
BY DEF Debt, One

\* The same with the source of a hard link.
LEMMA DebtOneSource ==
  ASSUME TypeOK, NEW t \in Thread, NEW n \in NodeId, NEW c \in NodeId, NEW s, s = <<c>>
  PROVE  /\ Debt(s \o Source(t), n) = One(c = n) + One(src[t] = n)
         /\ Debt(Source(t) \o s, n) = One(c = n) + One(src[t] = n)
<1>1. s \in Seq(NodeId) /\ Len(s) <= 2
  OBVIOUS
<1>2. /\ Debt(s \o Source(t), n) = Debt(s, n) + One(src[t] = n)
      /\ Debt(Source(t) \o s, n) = Debt(s, n) + One(src[t] = n)
  BY <1>1, DebtWithSource
<1>3. Debt(s, n) = One(c = n)
  BY DEF Debt, One
<1> QED
  BY <1>2, <1>3, Zenon

\* A call that gives back two nodes and its source owes those.
LEMMA DebtTwoSource ==
  ASSUME TypeOK, NEW t \in Thread, NEW n \in NodeId, NEW c \in NodeId, NEW f \in NodeId,
         NEW s, s = <<c, f>>
  PROVE  /\ Debt(s \o Source(t), n) = One(c = n) + One(f = n) + One(src[t] = n)
         /\ Debt(Source(t) \o s, n) = One(c = n) + One(f = n) + One(src[t] = n)
<1>1. s \in Seq(NodeId) /\ Len(s) <= 2
  OBVIOUS
<1>2. /\ Debt(s \o Source(t), n) = Debt(s, n) + One(src[t] = n)
      /\ Debt(Source(t) \o s, n) = Debt(s, n) + One(src[t] = n)
  BY <1>1, DebtWithSource
<1>3. Debt(s, n) = One(c = n) + One(f = n)
  BY DEF Debt, One
<1> QED
  BY <1>2, <1>3, Zenon

\* A step of t changes refCount of a node by what t holds of it then.
LEMMA HeldStep ==
  ASSUME TypeOK, Backed, NEW t \in Thread, Shape(t), NEW n \in NodeId,
         pc[t] = "unlink" => Find(cur[t], name[t]) # 0, Closed(t),
         Acts(t)
  PROVE  refCount'[n] = refCount[n] + Held(t, n)' - Held(t, n)
<1>0. /\ refCount[n] \in Nat /\ None # n
      /\ \A b : One(b) \in {0, 1}
      /\ One(None = n) = 0
  BY VFSAssumption DEF TypeOK, One
<1>1. CASE AcquireRoot(t)
  <2>1. ~Releasing(t) /\ cur[t] = None /\ file[t] = None
    BY <1>1 DEF AcquireRoot, Releasing, Shape
  <2>2. /\ cur'[t] = Root /\ file'[t] = None /\ src'[t] = src[t] /\ opened'[t] = opened[t]
        /\ todo'[t] = <<>> /\ pc'[t] \notin {"release", "destroy", "next"}
    BY <1>1, <2>1 DEF AcquireRoot, AcquireNode, Set, TypeOK, Shape
  <2>3. Held(t, n) = Uses(t, n) /\ Held(t, n)' = Uses(t, n)'
    BY <2>1, <2>2, HeldAtRest, HeldAtRestNext
  <2>4. Uses(t, n)' = Uses(t, n) + One(Root = n)
    BY <1>0, <2>1, <2>2 DEF Uses, One
  <2>5. refCount'[n] = refCount[n] + One(Root = n)
    <3>1. Root \in NodeId /\ (Root \notin cached => refCount[Root] = 0)
      BY DEF Backed, NodeId
    <3>2. refCount' = [refCount EXCEPT ![Root] = refCount[Root] + 1]
      BY <1>1, <3>1 DEF AcquireRoot, AcquireNode, Set
    <3> QED
      BY <1>0, <3>1, <3>2 DEF One, TypeOK
  <2>6. Uses(t, n) \in Int
    BY DEF Uses, One
  <2> QED
    BY <1>0, <2>3, <2>4, <2>5, <2>6
<1>2. CASE AcquireNext(t)
  <2>1. ~Releasing(t) /\ pc[t] = "next" /\ file[t] \in NodeId /\ todo[t] = <<>>
    BY <1>2 DEF AcquireNext, Releasing, Shape, NodeId
  <2>2. /\ cur'[t] = cur[t] /\ file'[t] = file[t] /\ src'[t] = src[t] /\ opened'[t] = opened[t]
        /\ todo'[t] = <<>> /\ pc'[t] \in {"found", "load", "wait"}
    BY <1>2, <2>1 DEF AcquireNext, AcquireNode, Set, TypeOK, callVars
  <2>3. Held(t, n) = Uses(t, n) /\ Held(t, n)' = Uses(t, n)'
    BY <2>1, <2>2, HeldAtRest, HeldAtRestNext
  <2>4. Uses(t, n)' = Uses(t, n) + One(file[t] = n)
    BY <1>0, <2>1, <2>2 DEF Uses, One
  <2>5. refCount'[n] = refCount[n] + One(file[t] = n)
    <3>1. file[t] \notin cached => refCount[file[t]] = 0
      BY <2>1 DEF Backed
    <3>2. refCount' = [refCount EXCEPT ![file[t]] = refCount[file[t]] + 1]
      BY <1>2, <2>1, <3>1 DEF AcquireNext, AcquireNode, Set
    <3> QED
      BY <1>0, <2>1, <3>2 DEF One, TypeOK
  <2>6. Uses(t, n) \in Int
    BY DEF Uses, One
  <2> QED
    BY <1>0, <2>3, <2>4, <2>5, <2>6
<1>3. CASE ReadNode(t) \/ NodeReady(t)
  <2>1. ~Releasing(t) /\ pc[t] \in {"load", "wait"} /\ todo[t] = <<>>
        /\ then[t] \in {"walk", "found"}
    BY <1>3 DEF ReadNode, NodeReady, Releasing, Shape
  <2>2. /\ cur'[t] = cur[t] /\ file'[t] = file[t] /\ src'[t] = src[t] /\ opened'[t] = opened[t]
        /\ todo'[t] = <<>> /\ pc'[t] = then[t] /\ refCount' = refCount
    BY <1>3, <2>1 DEF ReadNode, NodeReady, Set, TypeOK, callVars, nodeVars
  <2>3. Held(t, n) = Uses(t, n) /\ Held(t, n)' = Uses(t, n)'
    BY <2>1, <2>2, HeldAtRest, HeldAtRestNext
  <2>4. Uses(t, n)' = Uses(t, n) /\ Uses(t, n) \in Int
    BY <2>1, <2>2 DEF Uses, One
  <2> QED
    BY <1>0, <2>2, <2>3, <2>4
<1>4. CASE Walk(t)
  <2>1. ~Releasing(t) /\ pc[t] = "walk" /\ todo[t] = <<>> /\ file[t] = None
    BY <1>4 DEF Walk, Releasing, Shape
  <2>2. /\ cur'[t] = cur[t] /\ src'[t] = src[t] /\ opened'[t] = opened[t]
        /\ todo'[t] = <<>> /\ refCount' = refCount
        /\ \/ pc'[t] = "next"
           \/ pc'[t] = "absent" /\ file'[t] = None
    BY <1>4, <2>1 DEF Walk, Set, TypeOK, nodeVars
  <2>3. Held(t, n) = Uses(t, n) /\ Held(t, n)' = Uses(t, n)'
    BY <2>1, <2>2, HeldAtRest, HeldAtRestNext
  <2>4. Uses(t, n)' = Uses(t, n) /\ Uses(t, n) \in Int
    BY <1>0, <2>1, <2>2 DEF Uses, One
  <2> QED
    BY <1>0, <2>2, <2>3, <2>4
<1>5. CASE WalkFails(t)
  <2>1. ~Releasing(t) /\ pc[t] = "walk" /\ file[t] = None
    BY <1>5 DEF WalkFails, Releasing, Shape
  <2>2. Held(t, n) = One(cur[t] = n) + One(src[t] = n) + One(opened[t] = n)
    BY <1>0, <2>1, HeldAtRest DEF Uses, One
  <2>3. /\ pc'[t] = "release" /\ cur'[t] = None /\ file'[t] = None /\ src'[t] = None
        /\ todo'[t] = <<cur[t]>> \o Source(t) /\ opened'[t] = opened[t] /\ refCount' = refCount
    BY <1>5 DEF WalkFails, Return, Release, Set, TypeOK, nodeVars
  <2>4. Held(t, n)' = One(opened'[t] = n) + Debt(todo'[t], n)
    BY <2>3, ReturnHeld
  <2>5. Debt(todo'[t], n) = One(cur[t] = n) + One(src[t] = n)
    <3>1. PICK c \in NodeId : c = cur[t]
      BY <2>1 DEF Shape
    <3>2. <<c>> \in Seq(NodeId) /\ Len(<<c>>) <= 2
      OBVIOUS
    <3>3. Debt(<<c>> \o Source(t), n) = Debt(<<c>>, n) + One(src[t] = n)
      BY <3>2, DebtWithSource
    <3>4. Debt(<<c>>, n) = One(c = n)
      BY DebtOf
    <3> QED
      BY <2>3, <3>1, <3>3, <3>4, Zenon
  <2> QED
    BY <1>0, <2>2, <2>3, <2>4, <2>5
<1>6. CASE Descend(t)
  <2>1. ~Releasing(t) /\ pc[t] = "found" /\ cur[t] \in NodeId /\ file[t] \in NodeId
    BY <1>6 DEF Descend, Resolved, Releasing, Shape, Makes, MayCreate, NodeId
  <2>2. Held(t, n) = One(cur[t] = n) + One(file[t] = n) + One(src[t] = n) + One(opened[t] = n)
    BY <2>1, RestHeld
  <2>3. /\ pc'[t] = "release" /\ cur'[t] = file[t] /\ file'[t] = None /\ src'[t] = src[t] /\ opened'[t] = opened[t]
        /\ todo'[t] = <<cur[t]>> /\ refCount' = refCount
    BY <1>6 DEF Descend, Return, Release, Set, TypeOK, nodeVars, callVars
  <2>4. Held(t, n)' = One(cur'[t] = n) + One(file'[t] = n) + One(src'[t] = n)
                         + One(opened'[t] = n) + Debt(todo'[t], n)
    BY <2>3, ReleaseHeld
  <2>5. Debt(todo'[t], n) = One(cur[t] = n)
    <3>1. PICK c \in NodeId : c = cur[t]
      BY <2>1
    <3>2. Debt(<<c>>, n) = One(c = n)
      BY DebtOne, Zenon
    <3> QED
      BY <2>3, <3>1, <3>2, Zenon
  <2> QED
    BY <1>0, <2>1, <2>2, <2>3, <2>4, <2>5
<1>7. CASE FollowLink(t)
  <2>1. CASE Len(path[t]) > MaxRest
    <3>1. ~Releasing(t) /\ pc[t] = "found" /\ cur[t] \in NodeId /\ file[t] \in NodeId
      BY <1>7, <2>1 DEF FollowLink, Resolved, Releasing, Shape, Makes, MayCreate, NodeId
    <3>2. Held(t, n) = One(cur[t] = n) + One(file[t] = n) + One(src[t] = n) + One(opened[t] = n)
      BY <3>1, RestHeld
    <3>3. /\ pc'[t] = "release" /\ cur'[t] = None /\ file'[t] = None /\ src'[t] = None /\ opened'[t] = opened[t]
          /\ todo'[t] = <<file[t], cur[t]>> \o Source(t) /\ refCount' = refCount
      <4>1. Return(t, <<file[t], cur[t]>> \o Source(t)) /\ opened' = opened
        BY <1>7, <2>1 DEF FollowLink
      <4>2. todo' = [todo EXCEPT ![t] = <<file[t], cur[t]>> \o Source(t)]
        BY <4>1, Zenon DEF Return, Release, Set
      <4>3. todo'[t] = <<file[t], cur[t]>> \o Source(t)
        BY <4>2 DEF TypeOK
      <4>4. /\ pc'[t] = "release" /\ cur'[t] = None /\ file'[t] = None /\ src'[t] = None
             /\ refCount' = refCount
        BY <4>1 DEF Return, Release, Set, TypeOK, nodeVars
      <4> QED
        BY <4>1, <4>3, <4>4, Zenon
    <3>4. Held(t, n)' = One(cur'[t] = n) + One(file'[t] = n) + One(src'[t] = n)
                           + One(opened'[t] = n) + Debt(todo'[t], n)
      <4>1. pc'[t] = "release"
        BY <3>3, Zenon
      <4> QED
        BY <4>1, ReleaseHeld
    <3>5. Debt(todo'[t], n) = One(file[t] = n) + One(cur[t] = n) + One(src[t] = n)
      <4>1. PICK c \in NodeId : c = cur[t]
        BY <3>1
      <4>2. PICK f \in NodeId : f = file[t]
        BY <3>1
      <4>3. PICK s : s = <<f, c>>
        OBVIOUS
      <4>4. Debt(s \o Source(t), n) = One(f = n) + One(c = n) + One(src[t] = n)
        BY <4>3, DebtTwoSource
      <4> QED
        BY <3>3, <4>1, <4>2, <4>3, <4>4, Zenon
    <3> QED
      BY <1>0, <3>1, <3>2, <3>3, <3>4, <3>5
  <2>2. CASE ~(Len(path[t]) > MaxRest)
    <3>1. ~Releasing(t) /\ pc[t] = "found" /\ cur[t] \in NodeId /\ file[t] \in NodeId
      BY <1>7, <2>2 DEF FollowLink, Resolved, Releasing, Shape, Makes, MayCreate, NodeId
    <3>2. Held(t, n) = One(cur[t] = n) + One(file[t] = n) + One(src[t] = n) + One(opened[t] = n)
      BY <3>1, RestHeld
    <3>3. /\ pc'[t] = "release" /\ cur'[t] = None /\ file'[t] = None /\ src'[t] = src[t] /\ opened'[t] = opened[t]
          /\ todo'[t] = <<file[t], cur[t]>> /\ refCount' = refCount
      BY <1>7, <2>2 DEF FollowLink, Return, Release, Set, TypeOK, nodeVars, callVars
    <3>4. Held(t, n)' = One(cur'[t] = n) + One(file'[t] = n) + One(src'[t] = n)
                           + One(opened'[t] = n) + Debt(todo'[t], n)
      BY <3>3, ReleaseHeld
    <3>5. Debt(todo'[t], n) = One(file[t] = n) + One(cur[t] = n)
      <4>1. PICK c \in NodeId : c = cur[t]
        BY <3>1
      <4>2. PICK f \in NodeId : f = file[t]
        BY <3>1
      <4>3. Debt(<<f, c>>, n) = One(f = n) + One(c = n)
        BY DEF Debt, One
      <4> QED
        BY <3>3, <4>1, <4>2, <4>3, Zenon
    <3> QED
      BY <1>0, <3>1, <3>2, <3>3, <3>4, <3>5
  <2> QED
    BY <2>1, <2>2
<1>8. CASE Stat(t)
  <2>1. ~Releasing(t) /\ pc[t] = "found" /\ cur[t] \in NodeId /\ file[t] \in NodeId /\ src[t] = None
    BY <1>8 DEF Stat, Resolved, Releasing, Shape, Makes, MayCreate, NodeId
  <2>2. Held(t, n) = One(cur[t] = n) + One(file[t] = n) + One(src[t] = n) + One(opened[t] = n)
    BY <2>1, RestHeld
  <2>3. /\ pc'[t] = "release" /\ cur'[t] = None /\ file'[t] = None /\ src'[t] = None /\ opened'[t] = opened[t]
        /\ todo'[t] = <<cur[t], file[t]>> /\ refCount' = refCount
    BY <1>8 DEF Stat, Return, Release, Set, TypeOK, nodeVars, callVars
  <2>4. Held(t, n)' = One(cur'[t] = n) + One(file'[t] = n) + One(src'[t] = n)
                         + One(opened'[t] = n) + Debt(todo'[t], n)
    BY <2>3, ReleaseHeld
  <2>5. Debt(todo'[t], n) = One(cur[t] = n) + One(file[t] = n)
    <3>1. PICK c \in NodeId : c = cur[t]
      BY <2>1
    <3>2. PICK f \in NodeId : f = file[t]
      BY <2>1
    <3>3. Debt(<<c, f>>, n) = One(c = n) + One(f = n)
      BY DEF Debt, One
    <3> QED
      BY <2>3, <3>1, <3>2, <3>3, Zenon
  <2> QED
    BY <1>0, <2>1, <2>2, <2>3, <2>4, <2>5
<1>9. CASE Open(t)
  <2>1. ~Releasing(t) /\ pc[t] = "found" /\ cur[t] \in NodeId /\ file[t] \in NodeId /\ opened[t] = None /\ src[t] = None
    BY <1>9 DEF Open, Closed, Resolved, Releasing, Shape, Makes, MayCreate, NodeId
  <2>2. Held(t, n) = One(cur[t] = n) + One(file[t] = n) + One(src[t] = n) + One(opened[t] = n)
    BY <2>1, RestHeld
  <2>3. /\ pc'[t] = "release" /\ cur'[t] = None /\ file'[t] = None /\ src'[t] = None /\ opened'[t] = file[t]
        /\ todo'[t] = <<cur[t]>> /\ refCount' = refCount
    BY <1>9 DEF Open, Return, Release, Set, TypeOK, nodeVars, callVars
  <2>4. Held(t, n)' = One(cur'[t] = n) + One(file'[t] = n) + One(src'[t] = n)
                         + One(opened'[t] = n) + Debt(todo'[t], n)
    BY <2>3, ReleaseHeld
  <2>5. Debt(todo'[t], n) = One(cur[t] = n)
    <3>1. PICK c \in NodeId : c = cur[t]
      BY <2>1
    <3>2. Debt(<<c>>, n) = One(c = n)
      BY DebtOne, Zenon
    <3> QED
      BY <2>3, <3>1, <3>2, Zenon
  <2> QED
    BY <1>0, <2>1, <2>2, <2>3, <2>4, <2>5
<1>10. CASE Exists(t)
  <2>1. ~Releasing(t) /\ pc[t] = "found" /\ cur[t] \in NodeId /\ file[t] \in NodeId
    BY <1>10 DEF Exists, Resolved, Releasing, Shape, Makes, MayCreate, NodeId
  <2>2. Held(t, n) = One(cur[t] = n) + One(file[t] = n) + One(src[t] = n) + One(opened[t] = n)
    BY <2>1, RestHeld
  <2>3. /\ pc'[t] = "release" /\ cur'[t] = None /\ file'[t] = None /\ src'[t] = None /\ opened'[t] = opened[t]
        /\ todo'[t] = Source(t) \o <<cur[t], file[t]>> /\ refCount' = refCount
    <3>1. Return(t, Source(t) \o <<cur[t], file[t]>>) /\ opened' = opened
      BY <1>10 DEF Exists
    <3>2. todo' = [todo EXCEPT ![t] = Source(t) \o <<cur[t], file[t]>>]
      BY <3>1, Zenon DEF Return, Release, Set
    <3>3. todo'[t] = Source(t) \o <<cur[t], file[t]>>
      BY <3>2 DEF TypeOK
    <3>4. /\ pc'[t] = "release" /\ cur'[t] = None /\ file'[t] = None /\ src'[t] = None
           /\ refCount' = refCount
      BY <3>1 DEF Return, Release, Set, TypeOK, nodeVars
    <3> QED
      BY <3>1, <3>3, <3>4, Zenon
  <2>4. Held(t, n)' = One(cur'[t] = n) + One(file'[t] = n) + One(src'[t] = n)
                         + One(opened'[t] = n) + Debt(todo'[t], n)
    <3>1. pc'[t] = "release"
      BY <2>3, Zenon
    <3> QED
      BY <3>1, ReleaseHeld
  <2>5. Debt(todo'[t], n) = One(cur[t] = n) + One(file[t] = n) + One(src[t] = n)
    <3>1. PICK c \in NodeId : c = cur[t]
      BY <2>1
    <3>2. PICK f \in NodeId : f = file[t]
      BY <2>1
    <3>3. PICK s : s = <<c, f>>
      OBVIOUS
    <3>4. Debt(Source(t) \o s, n) = One(c = n) + One(f = n) + One(src[t] = n)
      BY <3>3, DebtTwoSource
    <3> QED
      BY <2>3, <3>1, <3>2, <3>3, <3>4, Zenon
  <2> QED
    BY <1>0, <2>1, <2>2, <2>3, <2>4, <2>5
<1>11. CASE LinkFrom(t)
  <2>1. ~Releasing(t) /\ pc[t] = "found" /\ cur[t] \in NodeId /\ file[t] \in NodeId /\ src[t] = None
    BY <1>11 DEF LinkFrom, Resolved, Releasing, Shape, Makes, MayCreate, NodeId
  <2>2. Held(t, n) = One(cur[t] = n) + One(file[t] = n) + One(src[t] = n) + One(opened[t] = n)
    BY <2>1, RestHeld
  <2>3. /\ pc'[t] = "release" /\ cur'[t] = None /\ file'[t] = None /\ src'[t] = file[t] /\ opened'[t] = opened[t]
        /\ todo'[t] = <<cur[t]>> /\ refCount' = refCount
    BY <1>11 DEF LinkFrom, Return, Release, Set, TypeOK, nodeVars, callVars
  <2>4. Held(t, n)' = One(cur'[t] = n) + One(file'[t] = n) + One(src'[t] = n)
                         + One(opened'[t] = n) + Debt(todo'[t], n)
    BY <2>3, ReleaseHeld
  <2>5. Debt(todo'[t], n) = One(cur[t] = n)
    <3>1. PICK c \in NodeId : c = cur[t]
      BY <2>1
    <3>2. Debt(<<c>>, n) = One(c = n)
      BY DebtOne, Zenon
    <3> QED
      BY <2>3, <3>1, <3>2, Zenon
  <2> QED
    BY <1>0, <2>1, <2>2, <2>3, <2>4, <2>5
<1>12. CASE (\E i \in Id : CreateNode(t, i))
  <2>0. PICK i \in Id : CreateNode(t, i)
    BY <1>12
  <2>1. ~Releasing(t) /\ pc[t] = "absent" /\ todo[t] = <<>> /\ file[t] = None
    BY <2>0 DEF CreateNode, Resolved, Releasing, Shape, Makes, MayCreate, NodeId
  <2>2. /\ cur'[t] = cur[t] /\ file'[t] = i /\ src'[t] = src[t] /\ opened'[t] = opened[t] /\ pc'[t] = "add"
        /\ todo'[t] = <<>> /\ refCount' = [refCount EXCEPT ![i] = 1]
    BY <2>0, <2>1 DEF CreateNode, Set, TypeOK, nodeVars, callVars, fsVars
  <2>3. Held(t, n) = Uses(t, n) /\ Held(t, n)' = Uses(t, n)'
    BY <2>1, <2>2, HeldAtRest, HeldAtRestNext
  <2>4. Uses(t, n)' = Uses(t, n) + One(i = n) /\ Uses(t, n) \in Int
    BY <1>0, <2>1, <2>2 DEF Uses, One
  <2>5. refCount'[n] = refCount[n] + One(i = n)
    <3>1. i \notin cached /\ i \in NodeId
      BY <2>0 DEF CreateNode, Backed, NodeId
    <3>2. refCount[i] = 0
      BY <3>1 DEF Backed
    <3> QED
      BY <1>0, <2>2, <3>1, <3>2 DEF One, TypeOK
  <2> QED
    BY <1>0, <2>3, <2>4, <2>5
<1>13. CASE LinkInc(t)
  <2>1. ~Releasing(t) /\ pc[t] = "absent" /\ todo[t] = <<>> /\ file[t] = None
    BY <1>13 DEF LinkInc, Resolved, Releasing, Shape, Makes, MayCreate, NodeId
  <2>2. /\ cur'[t] = cur[t] /\ file'[t] = src[t] /\ src'[t] = None /\ opened'[t] = opened[t] /\ pc'[t] = "add"
        /\ todo'[t] = <<>> /\ refCount' = refCount
    BY <1>13, <2>1 DEF LinkInc, Set, TypeOK, nodeVars, callVars, fsVars
  <2>3. Held(t, n) = Uses(t, n) /\ Held(t, n)' = Uses(t, n)'
    BY <2>1, <2>2, HeldAtRest, HeldAtRestNext
  <2>4. Uses(t, n)' = Uses(t, n) /\ Uses(t, n) \in Int
    BY <1>0, <2>1, <2>2 DEF Uses, One
  <2> QED
    BY <1>0, <2>2, <2>3, <2>4
<1>14. CASE Denied(t)
  <2>1. ~Releasing(t) /\ pc[t] = "absent" /\ cur[t] \in NodeId /\ file[t] = None
    BY <1>14 DEF Denied, Resolved, Releasing, Shape, Makes, MayCreate, NodeId
  <2>2. Held(t, n) = One(cur[t] = n) + One(file[t] = n) + One(src[t] = n) + One(opened[t] = n)
    BY <2>1, RestHeld
  <2>3. /\ pc'[t] = "release" /\ cur'[t] = None /\ file'[t] = None /\ src'[t] = None /\ opened'[t] = opened[t]
        /\ todo'[t] = Source(t) \o <<cur[t]>> /\ refCount' = refCount
    <3>1. Return(t, Source(t) \o <<cur[t]>>) /\ opened' = opened
      BY <1>14 DEF Denied
    <3>2. todo' = [todo EXCEPT ![t] = Source(t) \o <<cur[t]>>]
      BY <3>1, Zenon DEF Return, Release, Set
    <3>3. todo'[t] = Source(t) \o <<cur[t]>>
      BY <3>2 DEF TypeOK
    <3>4. /\ pc'[t] = "release" /\ cur'[t] = None /\ file'[t] = None /\ src'[t] = None
           /\ refCount' = refCount
      BY <3>1 DEF Return, Release, Set, TypeOK, nodeVars
    <3> QED
      BY <3>1, <3>3, <3>4, Zenon
  <2>4. Held(t, n)' = One(cur'[t] = n) + One(file'[t] = n) + One(src'[t] = n)
                         + One(opened'[t] = n) + Debt(todo'[t], n)
    <3>1. pc'[t] = "release"
      BY <2>3, Zenon
    <3> QED
      BY <3>1, ReleaseHeld
  <2>5. Debt(todo'[t], n) = One(cur[t] = n) + One(src[t] = n)
    <3>1. PICK c \in NodeId : c = cur[t]
      BY <2>1
    <3>2. PICK s : s = <<c>>
      OBVIOUS
    <3>3. Debt(Source(t) \o s, n) = One(c = n) + One(src[t] = n)
      BY <3>2, DebtOneSource
    <3> QED
      BY <2>3, <3>1, <3>2, <3>3, Zenon
  <2> QED
    BY <1>0, <2>1, <2>2, <2>3, <2>4, <2>5
<1>15. CASE AddEntry(t)
  <2>1. CASE call[t].op = "opencreate"
    <3>1. ~Releasing(t) /\ pc[t] = "add" /\ todo[t] = <<>>
      BY <1>15, <2>1 DEF AddEntry, Resolved, Releasing, Shape, Makes, MayCreate, NodeId
    <3>2. /\ cur'[t] = cur[t] /\ file'[t] = file[t] /\ src'[t] = src[t] /\ opened'[t] = opened[t] /\ pc'[t] = "found"
          /\ todo'[t] = <<>> /\ refCount' = refCount
      BY <1>15, <2>1, <3>1 DEF AddEntry, Set, TypeOK, nodeVars, callVars, fsVars
    <3>3. Held(t, n) = Uses(t, n) /\ Held(t, n)' = Uses(t, n)'
      BY <3>1, <3>2, HeldAtRest, HeldAtRestNext
    <3>4. Uses(t, n)' = Uses(t, n) /\ Uses(t, n) \in Int
      BY <1>0, <3>1, <3>2 DEF Uses, One
    <3> QED
      BY <1>0, <3>2, <3>3, <3>4
  <2>2. CASE call[t].op # "opencreate"
    <3>1. ~Releasing(t) /\ pc[t] = "add" /\ cur[t] \in NodeId /\ file[t] \in NodeId
      BY <1>15, <2>2 DEF AddEntry, Resolved, Releasing, Shape, Makes, MayCreate, NodeId
    <3>2. Held(t, n) = One(cur[t] = n) + One(file[t] = n) + One(src[t] = n) + One(opened[t] = n)
      BY <3>1, RestHeld
    <3>3. /\ pc'[t] = "release" /\ cur'[t] = None /\ file'[t] = None /\ src'[t] = src[t] /\ opened'[t] = opened[t]
          /\ todo'[t] = <<cur[t], file[t]>> /\ refCount' = refCount
      BY <1>15, <2>2 DEF AddEntry, Return, Release, Set, TypeOK, nodeVars, callVars
    <3>4. Held(t, n)' = One(cur'[t] = n) + One(file'[t] = n) + One(src'[t] = n)
                           + One(opened'[t] = n) + Debt(todo'[t], n)
      BY <3>3, ReleaseHeld
    <3>5. Debt(todo'[t], n) = One(cur[t] = n) + One(file[t] = n)
      <4>1. PICK c \in NodeId : c = cur[t]
        BY <3>1
      <4>2. PICK f \in NodeId : f = file[t]
        BY <3>1
      <4>3. Debt(<<c, f>>, n) = One(c = n) + One(f = n)
        BY DEF Debt, One
      <4> QED
        BY <3>3, <4>1, <4>2, <4>3, Zenon
    <3> QED
      BY <1>0, <3>1, <3>2, <3>3, <3>4, <3>5
  <2> QED
    BY <2>1, <2>2
<1>16. CASE DeleteCheck(t)
  <2>1. CASE Set(pc, t, "unlink") /\ UNCHANGED <<fsVars, nodeVars, callVars, todo, then>>
    <3>1. ~Releasing(t) /\ pc[t] = "found" /\ todo[t] = <<>>
      BY <1>16, <2>1 DEF DeleteCheck, Resolved, Releasing, Shape, Makes, MayCreate, NodeId
    <3>2. /\ cur'[t] = cur[t] /\ file'[t] = file[t] /\ src'[t] = src[t] /\ opened'[t] = opened[t] /\ pc'[t] = "unlink"
          /\ todo'[t] = <<>> /\ refCount' = refCount
      BY <1>16, <2>1, <3>1 DEF DeleteCheck, Set, TypeOK, nodeVars, callVars, fsVars
    <3>3. Held(t, n) = Uses(t, n) /\ Held(t, n)' = Uses(t, n)'
      BY <3>1, <3>2, HeldAtRest, HeldAtRestNext
    <3>4. Uses(t, n)' = Uses(t, n) /\ Uses(t, n) \in Int
      BY <1>0, <3>1, <3>2 DEF Uses, One
    <3> QED
      BY <1>0, <3>2, <3>3, <3>4
  <2>2. CASE Return(t, <<file[t], cur[t]>>)
    <3>1. ~Releasing(t) /\ pc[t] = "found" /\ cur[t] \in NodeId /\ file[t] \in NodeId /\ src[t] = None
      BY <1>16, <2>2 DEF DeleteCheck, Resolved, Releasing, Shape, Makes, MayCreate, NodeId
    <3>2. Held(t, n) = One(cur[t] = n) + One(file[t] = n) + One(src[t] = n) + One(opened[t] = n)
      BY <3>1, RestHeld
    <3>3. /\ pc'[t] = "release" /\ cur'[t] = None /\ file'[t] = None /\ src'[t] = None /\ opened'[t] = opened[t]
          /\ todo'[t] = <<file[t], cur[t]>> /\ refCount' = refCount
      BY <1>16, <2>2 DEF DeleteCheck, Return, Release, Set, TypeOK, nodeVars, callVars
    <3>4. Held(t, n)' = One(cur'[t] = n) + One(file'[t] = n) + One(src'[t] = n)
                           + One(opened'[t] = n) + Debt(todo'[t], n)
      BY <3>3, ReleaseHeld
    <3>5. Debt(todo'[t], n) = One(file[t] = n) + One(cur[t] = n)
      <4>1. PICK c \in NodeId : c = cur[t]
        BY <3>1
      <4>2. PICK f \in NodeId : f = file[t]
        BY <3>1
      <4>3. Debt(<<f, c>>, n) = One(f = n) + One(c = n)
        BY DEF Debt, One
      <4> QED
        BY <3>3, <4>1, <4>2, <4>3, Zenon
    <3> QED
      BY <1>0, <3>1, <3>2, <3>3, <3>4, <3>5
  <2>3. CASE Return(t, <<cur[t], file[t]>>)
    <3>1. ~Releasing(t) /\ pc[t] = "found" /\ cur[t] \in NodeId /\ file[t] \in NodeId /\ src[t] = None
      BY <1>16, <2>3 DEF DeleteCheck, Resolved, Releasing, Shape, Makes, MayCreate, NodeId
    <3>2. Held(t, n) = One(cur[t] = n) + One(file[t] = n) + One(src[t] = n) + One(opened[t] = n)
      BY <3>1, RestHeld
    <3>3. /\ pc'[t] = "release" /\ cur'[t] = None /\ file'[t] = None /\ src'[t] = None /\ opened'[t] = opened[t]
          /\ todo'[t] = <<cur[t], file[t]>> /\ refCount' = refCount
      BY <1>16, <2>3 DEF DeleteCheck, Return, Release, Set, TypeOK, nodeVars, callVars
    <3>4. Held(t, n)' = One(cur'[t] = n) + One(file'[t] = n) + One(src'[t] = n)
                           + One(opened'[t] = n) + Debt(todo'[t], n)
      BY <3>3, ReleaseHeld
    <3>5. Debt(todo'[t], n) = One(cur[t] = n) + One(file[t] = n)
      <4>1. PICK c \in NodeId : c = cur[t]
        BY <3>1
      <4>2. PICK f \in NodeId : f = file[t]
        BY <3>1
      <4>3. Debt(<<c, f>>, n) = One(c = n) + One(f = n)
        BY DEF Debt, One
      <4> QED
        BY <3>3, <4>1, <4>2, <4>3, Zenon
    <3> QED
      BY <1>0, <3>1, <3>2, <3>3, <3>4, <3>5
  <2> QED
    BY <1>16, <2>1, <2>2, <2>3 DEF DeleteCheck
<1>17. CASE Unlink(t)
  <2>1. ~Releasing(t) /\ pc[t] = "unlink" /\ todo[t] = <<>>
    BY <1>17 DEF Unlink, Resolved, Releasing, Shape, Makes, MayCreate, NodeId
  <2>2. /\ cur'[t] = cur[t] /\ file'[t] = file[t] /\ src'[t] = src[t] /\ opened'[t] = opened[t] /\ pc'[t] = "unlinked"
        /\ todo'[t] = <<>> /\ refCount' = refCount
    BY <1>17, <2>1 DEF Unlink, Set, TypeOK, nodeVars, callVars, fsVars
  <2>3. Held(t, n) = Uses(t, n) /\ Held(t, n)' = Uses(t, n)'
    BY <2>1, <2>2, HeldAtRest, HeldAtRestNext
  <2>4. Uses(t, n)' = Uses(t, n) /\ Uses(t, n) \in Int
    BY <1>0, <2>1, <2>2 DEF Uses, One
  <2> QED
    BY <1>0, <2>2, <2>3, <2>4
<1>18. CASE LinkDec(t)
  <2>1. ~Releasing(t) /\ pc[t] = "unlinked" /\ cur[t] \in NodeId /\ file[t] \in NodeId /\ src[t] = None
    BY <1>18 DEF LinkDec, Resolved, Releasing, Shape, Makes, MayCreate, NodeId
  <2>2. Held(t, n) = One(cur[t] = n) + One(file[t] = n) + One(src[t] = n) + One(opened[t] = n)
    BY <2>1, RestHeld
  <2>3. /\ pc'[t] = "release" /\ cur'[t] = None /\ file'[t] = None /\ src'[t] = src[t] /\ opened'[t] = opened[t]
        /\ todo'[t] = <<file[t], cur[t]>> /\ refCount' = refCount
    BY <1>18 DEF LinkDec, Return, Release, Set, TypeOK, nodeVars, callVars
  <2>4. Held(t, n)' = One(cur'[t] = n) + One(file'[t] = n) + One(src'[t] = n)
                         + One(opened'[t] = n) + Debt(todo'[t], n)
    BY <2>3, ReleaseHeld
  <2>5. Debt(todo'[t], n) = One(file[t] = n) + One(cur[t] = n)
    <3>1. PICK c \in NodeId : c = cur[t]
      BY <2>1
    <3>2. PICK f \in NodeId : f = file[t]
      BY <2>1
    <3>3. Debt(<<f, c>>, n) = One(f = n) + One(c = n)
      BY DEF Debt, One
    <3> QED
      BY <2>3, <3>1, <3>2, <3>3, Zenon
  <2> QED
    BY <1>0, <2>1, <2>2, <2>3, <2>4, <2>5
<1>19. CASE ReleaseNode(t)
  <2>1. /\ pc[t] = "release" /\ Releasing(t) /\ Head(todo[t]) \in NodeId
        /\ todo[t] \in Seq(NodeId) /\ Len(todo[t]) \in 1 .. 3 /\ refCount[Head(todo[t])] >= 1
    BY <1>19, HeadBacked DEF ReleaseNode, Releasing
  <2>2. /\ cur' = cur /\ file' = file /\ src' = src /\ opened' = opened /\ file[t] = None
        /\ refCount' = [refCount EXCEPT ![Head(todo[t])] = refCount[Head(todo[t])] - 1]
    BY <1>19, <2>1 DEF ReleaseNode, Set, Shape
  <2>3. Held(t, n) = Uses(t, n) + Debt(todo[t], n)
    BY <2>1, HeldIs
  <2>4. Debt(todo[t], n) = One(Head(todo[t]) = n) + Debt(Tail(todo[t]), n)
    BY <2>1, DebtTail
  <2>5. Uses(t, n)' = Uses(t, n)
    BY <1>0, <2>2 DEF Uses, One
  <2>6. Held(t, n)' = Uses(t, n)' + Debt(Tail(todo[t]), n)
    <3>1. CASE LastReference(Head(todo[t]))
      <4>1. pc'[t] = "destroy" /\ todo'[t] = todo[t]
        BY <1>19, <3>1 DEF ReleaseNode, Set, TypeOK
      <4> QED
        BY <2>1, <4>1, HeldIsNext
    <3>2. CASE ~LastReference(Head(todo[t]))
      <4>1. pc'[t] # "destroy" /\ todo'[t] = Tail(todo[t])
        BY <1>19, <3>2 DEF ReleaseNode, Done, Set, TypeOK
      <4> QED
        BY <4>1, HeldIsNext
    <3> QED
      BY <3>1, <3>2
  <2>7. refCount'[n] = refCount[n] - One(Head(todo[t]) = n)
    BY <1>0, <2>1, <2>2 DEF One, TypeOK
  <2>8. Debt(Tail(todo[t]), n) \in Int /\ Uses(t, n) \in Int
    BY DEF Debt, Uses, One
  <2> QED
    BY <1>0, <2>3, <2>4, <2>5, <2>6, <2>7, <2>8
<1>20. CASE DestroyNode(t)
  <2>1. pc[t] = "destroy" /\ file[t] = None
    BY <1>20 DEF DestroyNode, Releasing, Shape
  <2>2. /\ cur' = cur /\ file' = file /\ src' = src /\ opened' = opened
        /\ refCount' = refCount /\ todo'[t] = Tail(todo[t]) /\ pc'[t] # "destroy"
    BY <1>20 DEF DestroyNode, Done, Set, nodeVars, TypeOK
  <2>3. Held(t, n) = Uses(t, n) + Debt(Tail(todo[t]), n)
    BY <2>1, HeldIs
  <2>4. Held(t, n)' = Uses(t, n)' + Debt(todo'[t], n)
    BY <2>2, HeldIsNext
  <2>5. Uses(t, n)' = Uses(t, n)
    BY <1>0, <2>1, <2>2 DEF Uses, One
  <2>6. Debt(Tail(todo[t]), n) \in Int /\ Uses(t, n) \in Int
    BY DEF Debt, Uses, One
  <2>7. Held(t, n)' = Held(t, n)
    BY <2>2, <2>3, <2>4, <2>5, Zenon
  <2> QED
    BY <1>0, <2>2, <2>3, <2>6, <2>7
<1>21. CASE Close(t)
  <2>1. ~Releasing(t) /\ pc[t] = "idle" /\ opened[t] \in NodeId /\ cur[t] = None /\ file[t] = None /\ src[t] = None
    BY <1>21 DEF Close, TypeOK, Resolved, Releasing, Shape, Makes, MayCreate, NodeId
  <2>2. Held(t, n) = One(cur[t] = n) + One(file[t] = n) + One(src[t] = n) + One(opened[t] = n)
    BY <2>1, RestHeld
  <2>3. /\ pc'[t] = "release" /\ cur'[t] = None /\ file'[t] = None /\ src'[t] = None /\ opened'[t] = None
        /\ todo'[t] = <<opened[t]>> /\ refCount' = refCount
    BY <1>21, <2>1 DEF Close, Return, Release, Set, TypeOK, nodeVars, callVars
  <2>4. Held(t, n)' = One(cur'[t] = n) + One(file'[t] = n) + One(src'[t] = n)
                         + One(opened'[t] = n) + Debt(todo'[t], n)
    BY <2>3, ReleaseHeld
  <2>5. Debt(todo'[t], n) = One(opened[t] = n)
    <3>1. PICK c \in NodeId : c = opened[t]
      BY <2>1
    <3>2. Debt(<<c>>, n) = One(c = n)
      BY DebtOne, Zenon
    <3> QED
      BY <2>3, <3>1, <3>2, Zenon
  <2> QED
    BY <1>0, <2>1, <2>2, <2>3, <2>4, <2>5
<1>22. CASE (\E c \in Call : Begin(t, c))
  <2>1. ~Releasing(t) /\ pc[t] = "idle" /\ todo[t] = <<>>
    BY <1>22 DEF Begin, Resolved, Releasing, Shape, Makes, MayCreate, NodeId
  <2>2. /\ cur'[t] = cur[t] /\ file'[t] = file[t] /\ src'[t] = src[t] /\ opened'[t] = opened[t] /\ pc'[t] = "root"
        /\ todo'[t] = <<>> /\ refCount' = refCount
    BY <1>22, <2>1 DEF Begin, Set, TypeOK, nodeVars, callVars, fsVars
  <2>3. Held(t, n) = Uses(t, n) /\ Held(t, n)' = Uses(t, n)'
    BY <2>1, <2>2, HeldAtRest, HeldAtRestNext
  <2>4. Uses(t, n)' = Uses(t, n) /\ Uses(t, n) \in Int
    BY <1>0, <2>1, <2>2 DEF Uses, One
  <2> QED
    BY <1>0, <2>2, <2>3, <2>4
<1> QED
  BY <1>1, <1>2, <1>3, <1>4, <1>5, <1>6, <1>7, <1>8, <1>9, <1>10, <1>11, <1>12, <1>13, <1>14, <1>15, <1>16, <1>17, <1>18, <1>19, <1>20, <1>21, <1>22 DEF Step, Acts

\* Nothing is left behind, but by a Delete that finds the name gone.
LEMMA LostStep ==
  ASSUME NEW t \in Thread, Acts(t),
         pc[t] = "unlink" => Find(cur[t], name[t]) # 0
  PROVE  lost' = lost
<1> USE DEF fsVars
<1>1. CASE AcquireRoot(t) \/ AcquireNext(t) \/ ReadNode(t) \/ NodeReady(t) \/ Walk(t)
  BY <1>1 DEF AcquireRoot, AcquireNext, AcquireNode, ReadNode, NodeReady, Walk
<1>2. CASE WalkFails(t) \/ Descend(t) \/ FollowLink(t) \/ Stat(t) \/ Open(t) \/ Exists(t)
  BY <1>2 DEF WalkFails, Descend, FollowLink, Stat, Open, Exists, Return
<1>3. CASE LinkFrom(t) \/ (\E i \in Id : CreateNode(t, i)) \/ LinkInc(t) \/ Denied(t)
  BY <1>3 DEF LinkFrom, CreateNode, LinkInc, Denied, Return
<1>4. CASE AddEntry(t) \/ DeleteCheck(t) \/ Unlink(t) \/ LinkDec(t)
  BY <1>4 DEF AddEntry, DeleteCheck, Unlink, LinkDec, Return
<1>5. CASE ReleaseNode(t) \/ DestroyNode(t) \/ Close(t) \/ \E c \in Call : Begin(t, c)
  BY <1>5 DEF ReleaseNode, DestroyNode, Close, Begin
<1> QED
  BY <1>1, <1>2, <1>3, <1>4, <1>5, Zenon DEF Acts, Step

\* Such a Delete leaves behind what it holds.
LEMMA LeavesBehind ==
  ASSUME TypeOK, NEW t \in Thread, Shape(t), NEW n \in NodeId,
         Unlink(t), Find(cur[t], name[t]) = 0
  PROVE  /\ refCount' = refCount
         /\ lost'[n] + Held(t, n)' = lost[n] + Held(t, n)
<1>1. /\ ~Releasing(t) /\ pc[t] = "unlink" /\ todo[t] = <<>>
      /\ cur[t] \in NodeId /\ file[t] \in NodeId /\ src[t] = None
  BY DEF Unlink, Releasing, Shape, NodeId
<1>2. /\ cur'[t] = None /\ file'[t] = None /\ src'[t] = src[t] /\ opened'[t] = opened[t]
      /\ pc'[t] = "idle" /\ todo'[t] = <<>> /\ refCount' = refCount
      /\ lost' = [[lost EXCEPT ![cur[t]] = @ + 1] EXCEPT ![file[t]] = @ + 1]
  BY <1>1 DEF Unlink, Set, TypeOK, nodeVars
<1>3. Held(t, n) = Uses(t, n) /\ Held(t, n)' = Uses(t, n)'
  BY <1>1, <1>2, HeldAtRest, HeldAtRestNext
<1>4. Uses(t, n) = Uses(t, n)' + One(cur[t] = n) + One(file[t] = n)
  BY <1>1, <1>2, VFSAssumption DEF Uses, One
<1>5. lost'[n] = lost[n] + One(cur[t] = n) + One(file[t] = n)
  BY <1>1, <1>2 DEF TypeOK, One
<1>6. Uses(t, n)' \in Int /\ lost[n] \in Int /\ One(cur[t] = n) \in Int /\ One(file[t] = n) \in Int
  BY DEF Uses, One, TypeOK
<1> QED
  BY <1>2, <1>3, <1>4, <1>5, <1>6

\* refCount counts what is held and what was left behind, after every step.
LEMMA RefsStep ==
  ASSUME TypeOK, Refs, NEW t \in Thread, Shape(t), Closed(t), Acts(t)
  PROVE  Refs'
<1>1. Frame(t)
  BY FrameStep
<1>2. Backed
  <2>1. ASSUME NEW n \in NodeId PROVE refCount[n] >= References(n)
    BY HeldCounted DEF Refs, TypeOK
  <2> QED
    BY <2>1 DEF Refs, Backed
<1>3. ASSUME NEW n \in NodeId PROVE refCount'[n] = References(n)' + lost'[n]
  <2>1. References(n)' = References(n) + Held(t, n)' - Held(t, n)
    BY <1>1, ReferencesStep DEF Frame, Same
  <2>2. refCount[n] = References(n) + lost[n] /\ References(n) \in Nat /\ lost[n] \in Nat
    BY HeldCounted DEF Refs, TypeOK
  <2>3. Held(t, n) \in Int /\ Held(t, n)' \in Int
    BY DEF Held, One
  <2>4. CASE pc[t] = "unlink" => Find(cur[t], name[t]) # 0
    <3>1. refCount'[n] = refCount[n] + Held(t, n)' - Held(t, n)
      BY <1>2, <2>4, HeldStep
    <3>2. lost' = lost
      BY <2>4, LostStep
    <3> QED
      BY <2>1, <2>2, <2>3, <3>1, <3>2
  <2>5. CASE pc[t] = "unlink" /\ Find(cur[t], name[t]) = 0
    <3>1. Unlink(t)
      BY <2>5 DEF Acts, Step, AcquireRoot, AcquireNext, ReadNode, NodeReady, Walk,
           WalkFails, Descend, FollowLink, Resolved, Stat, Open, Exists, LinkFrom,
           CreateNode, LinkInc, Denied, AddEntry, DeleteCheck, LinkDec, ReleaseNode,
           DestroyNode, Close, Begin
    <3>2. refCount' = refCount /\ lost'[n] + Held(t, n)' = lost[n] + Held(t, n)
      BY <2>5, <3>1, LeavesBehind
    <3>3. lost'[n] \in Int
      <4>1. Backed /\ TypeOK'
        BY <1>2, TypeStep
      <4> QED
        BY <4>1 DEF TypeOK
    <3> QED
      BY <2>1, <2>2, <2>3, <3>2, <3>3
  <2> QED
    BY <2>4, <2>5
<1>4. ASSUME NEW n \in NodeId, n \notin cached' PROVE refCount'[n] = 0
  <2>1. n \notin cached => refCount[n] = 0
    BY DEF Refs
  <2>2. CASE AcquireRoot(t) \/ AcquireNext(t)
    BY <1>4, <2>1, <2>2 DEF AcquireRoot, AcquireNext, AcquireNode, Set, TypeOK
  <2>3. CASE \E i \in Id : CreateNode(t, i)
    BY <1>4, <2>1, <2>3 DEF CreateNode, Set, TypeOK
  <2>4. CASE ReleaseNode(t)
    <3>1. Head(todo[t]) \in cached /\ Head(todo[t]) \in NodeId
      BY <1>2, <2>4, HeadBacked DEF ReleaseNode, Releasing
    <3>2. refCount' = [refCount EXCEPT ![Head(todo[t])] = refCount[Head(todo[t])] - 1]
      BY <2>4 DEF ReleaseNode, Set
    <3>3. CASE LastReference(Head(todo[t]))
      BY <1>4, <2>1, <2>4, <3>1, <3>2, <3>3 DEF ReleaseNode, LastReference, TypeOK
    <3>4. CASE ~LastReference(Head(todo[t]))
      BY <1>4, <2>1, <2>4, <3>1, <3>2, <3>4 DEF ReleaseNode, TypeOK
    <3> QED
      BY <3>3, <3>4
  <2>5. CASE /\ ~AcquireRoot(t) /\ ~AcquireNext(t) /\ ~ReleaseNode(t)
             /\ ~\E i \in Id : CreateNode(t, i)
    <3>1. cached' = cached /\ refCount' = refCount
      BY <2>5 DEF Acts, Step, nodeVars, ReadNode, NodeReady, Walk, Return,
           WalkFails, Descend, FollowLink, Stat, Open, Exists, LinkFrom,
           LinkInc, Denied, AddEntry, DeleteCheck, Unlink, LinkDec,
           DestroyNode, Close, Begin
    <3> QED
      BY <1>4, <2>1, <3>1
  <2> QED
    BY <2>2, <2>3, <2>4, <2>5
<1> QED
  BY <1>3, <1>4 DEF Refs

\* A node that is in the cache and was read stays so.
LEMMA ReadyKept ==
  ASSUME TypeOK, NEW t \in Thread, Acts(t), NEW n \in cached, ready[n]
  PROVE  ready'[n]
<1>0. n \in NodeId
  BY DEF TypeOK
<1>1. CASE AcquireRoot(t) \/ AcquireNext(t)
  BY <1>0, <1>1 DEF AcquireRoot, AcquireNext, AcquireNode, Set, TypeOK
<1>2. CASE ReadNode(t)
  BY <1>0, <1>2 DEF ReadNode, Set, TypeOK
<1>3. CASE \E i \in Id : CreateNode(t, i)
  BY <1>0, <1>3 DEF CreateNode, Set, TypeOK
<1>4. CASE /\ ~AcquireRoot(t) /\ ~AcquireNext(t) /\ ~ReadNode(t)
           /\ ~\E i \in Id : CreateNode(t, i)
  <2>1. ready' = ready
    BY <1>4 DEF Acts, Step, nodeVars, NodeReady, Walk, Return,
         WalkFails, Descend, FollowLink, Stat, Open, Exists, LinkFrom,
         LinkInc, Denied, AddEntry, DeleteCheck, Unlink, LinkDec, ReleaseNode,
         DestroyNode, Close, Begin
  <2> QED
    BY <2>1
<1> QED
  BY <1>1, <1>2, <1>3, <1>4

\* What t looks at after a step has been read.
LEMMA ReadyStep ==
  ASSUME TypeOK, Backed, NEW t \in Thread, Shape(t), Ready(t), Acts(t)
  PROVE  Ready(t)'
<1>1. /\ cur[t] # None => cur[t] \in cached
      /\ file[t] # None /\ pc[t] # "next" => file[t] \in cached
      /\ src[t] # None => src[t] \in cached
  BY UsedBacked
<1>2. /\ cur[t] # None /\ ready[cur[t]] => ready'[cur[t]]
      /\ file[t] # None /\ pc[t] # "next" /\ ready[file[t]] => ready'[file[t]]
      /\ src[t] # None => ready'[src[t]]
  BY <1>1, ReadyKept DEF Ready
<1> USE DEF Set, TypeOK, Ready
<1>3. CASE AcquireRoot(t)
  <2>1. /\ cur'[t] = Root /\ file'[t] = None /\ src'[t] = src[t] /\ then'[t] = "walk"
        /\ pc'[t] \in {"load", "wait"} \/ (Root \in cached /\ ready[Root])
    BY <1>3 DEF AcquireRoot, AcquireNode, Shape
  <2> QED
    BY <1>2, <2>1, ReadyKept
<1>4. CASE AcquireNext(t)
  <2>1. /\ cur'[t] = cur[t] /\ file'[t] = file[t] /\ src'[t] = src[t] /\ pc[t] = "next"
        /\ pc'[t] \in {"load", "wait"} \/ (file[t] \in cached /\ ready[file[t]])
    BY <1>4 DEF AcquireNext, AcquireNode, callVars
  <2> QED
    BY <1>2, <2>1, ReadyKept
<1>5. CASE ReadNode(t)
  <2>1. /\ cur'[t] = cur[t] /\ file'[t] = file[t] /\ src'[t] = src[t] /\ pc[t] = "load"
        /\ pc'[t] = then[t] /\ then'[t] = then[t] /\ ready'[Wanted(t)]
    BY <1>5 DEF ReadNode, callVars
  <2> QED
    BY <1>2, <2>1 DEF Shape, Wanted
<1>6. CASE NodeReady(t)
  <2>1. /\ cur'[t] = cur[t] /\ file'[t] = file[t] /\ src'[t] = src[t] /\ pc[t] = "wait"
        /\ pc'[t] = then[t] /\ then'[t] = then[t] /\ ready'[Wanted(t)]
    BY <1>6 DEF NodeReady, callVars, nodeVars
  <2> QED
    BY <1>2, <2>1 DEF Shape, Wanted
<1>7. CASE Walk(t)
  <2>1. /\ cur'[t] = cur[t] /\ src'[t] = src[t] /\ pc[t] = "walk" /\ file[t] = None
        /\ pc'[t] = "next" \/ file'[t] = None
    BY <1>7 DEF Walk, Shape
  <2> QED
    BY <1>2, <2>1
<1>8. CASE Descend(t)
  <2>1. /\ cur'[t] = file[t] /\ src'[t] = src[t] /\ pc[t] = "found" /\ file'[t] = None
    BY <1>8 DEF Descend
  <2> QED
    BY <1>2, <2>1
<1>9. CASE FollowLink(t)
  <2>1. /\ cur'[t] = None /\ src'[t] \in {src[t], None} /\ file'[t] = None
    BY <1>9 DEF FollowLink, Return
  <2> QED
    BY <1>2, <2>1
<1>10. CASE WalkFails(t) \/ Stat(t) \/ Open(t) \/ Exists(t) \/ Denied(t)
  <2>1. /\ cur'[t] = None /\ src'[t] = None /\ file'[t] = None
    BY <1>10 DEF WalkFails, Stat, Open, Exists, Denied, Return
  <2> QED
    BY <2>1
<1>11. CASE LinkFrom(t)
  <2>1. /\ cur'[t] = None /\ src'[t] = file[t] /\ pc[t] = "found" /\ file'[t] = None
    BY <1>11 DEF LinkFrom, Resolved
  <2> QED
    BY <1>2, <2>1
<1>12. CASE \E i \in Id : CreateNode(t, i)
  <2>1. PICK i \in Id : CreateNode(t, i)
    BY <1>12
  <2>2. /\ cur'[t] = cur[t] /\ src'[t] = src[t] /\ pc[t] = "absent" /\ file'[t] = i
        /\ ready'[i]
    BY <2>1 DEF CreateNode, NodeId
  <2> QED
    BY <1>2, <2>2
<1>13. CASE LinkInc(t)
  <2>1. /\ cur'[t] = cur[t] /\ src'[t] = None /\ pc[t] = "absent" /\ file'[t] = src[t]
    BY <1>13 DEF LinkInc
  <2> QED
    BY <1>2, <2>1
<1>14. CASE AddEntry(t)
  <2>1. /\ pc[t] = "add" /\ src'[t] = src[t] /\ cur'[t] \in {cur[t], None}
        /\ file'[t] \in {file[t], None}
    BY <1>14 DEF AddEntry, callVars
  <2> QED
    BY <1>2, <2>1
<1>15. CASE DeleteCheck(t)
  <2>1. /\ pc[t] = "found" /\ src'[t] \in {src[t], None} /\ cur'[t] \in {cur[t], None}
        /\ file'[t] \in {file[t], None}
    BY <1>15 DEF DeleteCheck, Resolved, Return, callVars
  <2> QED
    BY <1>2, <2>1
<1>16. CASE Unlink(t) \/ LinkDec(t)
  <2>1. /\ pc[t] \in {"unlink", "unlinked"} /\ src'[t] = src[t] /\ cur'[t] \in {cur[t], None}
        /\ file'[t] \in {file[t], None}
    BY <1>16 DEF Unlink, LinkDec, callVars
  <2> QED
    BY <1>2, <2>1
<1>17. CASE ReleaseNode(t) \/ DestroyNode(t)
  <2>1. /\ pc[t] \in {"release", "destroy"} /\ src'[t] = src[t] /\ cur'[t] = cur[t]
        /\ file'[t] = None
    BY <1>17 DEF ReleaseNode, DestroyNode, Shape, Releasing
  <2> QED
    BY <1>2, <2>1
<1>18. CASE Close(t) \/ \E c \in Call : Begin(t, c)
  <2>1. src'[t] = None /\ cur'[t] = None /\ file'[t] = None
    BY <1>18 DEF Close, Begin, Shape
  <2> QED
    BY <2>1
<1> QED
  BY <1>3, <1>4, <1>5, <1>6, <1>7, <1>8, <1>9, <1>10, <1>11, <1>12, <1>13, <1>14, <1>15,
     <1>16, <1>17, <1>18, Zenon DEF Acts, Step
-------------------------------------------------------------------------------
\* Open finds no descriptor.
LEMMA ClosedStep ==
  ASSUME TypeOK, NEW t \in Thread, Shape(t), Closed(t), Acts(t)
  PROVE  Closed(t)'
<1> USE DEF TypeOK, Set, callVars, Shape, Releasing, Closed
<1>1. CASE AcquireRoot(t)
  BY <1>1 DEF AcquireRoot, AcquireNode, Resolved, NoCall
<1>2. CASE AcquireNext(t)
  BY <1>2 DEF AcquireNext, AcquireNode, Resolved, NoCall
<1>3. CASE ReadNode(t)
  BY <1>3 DEF ReadNode, Resolved, NoCall
<1>4. CASE NodeReady(t)
  BY <1>4 DEF NodeReady, Resolved, NoCall
<1>5. CASE Walk(t)
  BY <1>5 DEF Walk, Resolved, NoCall
<1>6. CASE WalkFails(t)
  BY <1>6 DEF WalkFails, Return, Release, Resolved, NoCall
<1>7. CASE Descend(t)
  BY <1>7 DEF Descend, Release, Resolved, NoCall
<1>8. CASE FollowLink(t)
  BY <1>8 DEF FollowLink, Return, Release, Resolved, NoCall
<1>9. CASE Stat(t)
  BY <1>9 DEF Stat, Return, Release, Resolved, NoCall
<1>10. CASE Open(t)
  BY <1>10 DEF Open, Return, Release, Resolved, NoCall
<1>11. CASE Exists(t)
  BY <1>11 DEF Exists, Return, Release, Resolved, NoCall
<1>12. CASE LinkFrom(t)
  BY <1>12 DEF LinkFrom, Release, Resolved, NoCall
<1>13. CASE (\E i \in Id : CreateNode(t, i))
  BY <1>13 DEF CreateNode, Resolved, NoCall
<1>14. CASE LinkInc(t)
  BY <1>14 DEF LinkInc, Resolved, NoCall
<1>15. CASE Denied(t)
  BY <1>15 DEF Denied, Return, Release, Resolved, NoCall
<1>16. CASE AddEntry(t)
  BY <1>16 DEF AddEntry, Release, Resolved, NoCall
<1>17. CASE DeleteCheck(t)
  BY <1>17 DEF DeleteCheck, Return, Release, Resolved, NoCall
<1>18. CASE Unlink(t)
  BY <1>18 DEF Unlink, Resolved, NoCall
<1>19. CASE LinkDec(t)
  BY <1>19 DEF LinkDec, Release, Resolved, NoCall
<1>20. CASE ReleaseNode(t)
  BY <1>20 DEF ReleaseNode, Done, Resolved, NoCall
<1>21. CASE DestroyNode(t)
  BY <1>21 DEF DestroyNode, Done, Resolved, NoCall
<1>22. CASE Close(t)
  BY <1>22 DEF Close, Release, Resolved, NoCall
<1>23. CASE (\E c \in Call : Begin(t, c))
  BY <1>23 DEF Begin, Resolved, NoCall
<1> QED
  BY <1>1, <1>2, <1>3, <1>4, <1>5, <1>6, <1>7, <1>8, <1>9, <1>10, <1>11, <1>12, <1>13, <1>14, <1>15, <1>16, <1>17, <1>18, <1>19, <1>20, <1>21, <1>22, <1>23 DEF Step, Acts

\* What a call has found is still there.
LEMMA FoundThere ==
  ASSUME TypeOK, Nodes, Entries, NEW t \in Thread, Shape(t), NEW place, Stands(t, place)
  PROVE  /\ pc[t] = "next" => file[t] \in cached /\ ready[file[t]]
         /\ pc[t] = "unlink" =>
              /\ cur[t] \in stored
              /\ Find(cur[t], name[t]) # 0
              /\ Find(cur[t], name[t]) \in 1 .. Len(dir[cur[t]])
              /\ dir[cur[t]][Find(cur[t], name[t])].name = name[t]
              /\ dir[cur[t]][Find(cur[t], name[t])].id = file[t]
<1>1. ASSUME pc[t] = "next"
      PROVE  file[t] \in cached /\ ready[file[t]]
  <2>1. file[t] \in Id /\ Linked(cur[t], name[t], file[t])
    BY <1>1 DEF Shape, Stands
  <2>2. PICK l \in Links : l = [dir |-> cur[t], name |-> name[t], id |-> file[t]]
    BY <2>1 DEF Linked
  <2>3. file[t] \in cached
    BY <2>2 DEF Entries
  <2>4. file[t] # Root
    BY <2>1, VFSAssumption
  <2> QED
    BY <2>3, <2>4 DEF Nodes
<1>2. ASSUME pc[t] = "unlink"
      PROVE  /\ cur[t] \in stored
             /\ Find(cur[t], name[t]) # 0
             /\ Find(cur[t], name[t]) \in 1 .. Len(dir[cur[t]])
             /\ dir[cur[t]][Find(cur[t], name[t])].name = name[t]
             /\ dir[cur[t]][Find(cur[t], name[t])].id = file[t]
  <2>1. Linked(cur[t], name[t], file[t])
    BY <1>2 DEF Stands
  <2>2. PICK l \in Links : l = [dir |-> cur[t], name |-> name[t], id |-> file[t]]
    BY <2>1 DEF Linked
  <2>3. cur[t] \in stored
    BY <2>2, LinksAre
  <2>4. PICK k \in 1 .. Len(dir[cur[t]]) :
          dir[cur[t]][k].name = name[t] /\ dir[cur[t]][k].id = file[t]
    BY <2>2, LinksAre
  <2>5. dir[cur[t]] \in Seq(DirEntry)
    BY <2>3 DEF TypeOK, DirEntry
  <2>6. /\ Find(cur[t], name[t]) \in 1 .. Len(dir[cur[t]])
        /\ dir[cur[t]][Find(cur[t], name[t])].name = name[t]
    BY <2>4, <2>5, FindFacts
  <2>7. Find(cur[t], name[t]) = k
    BY <2>3, <2>4, <2>6 DEF Entries
  <2>8. k # 0
    OBVIOUS
  <2> QED
    BY <2>3, <2>4, <2>6, <2>7, <2>8
<1> QED
  BY <1>1, <1>2

\* Actions that only change variables of their thread.
Quiet(t) ==
  \/ NodeReady(t) \/ Walk(t) \/ WalkFails(t) \/ Descend(t) \/ FollowLink(t)
  \/ Stat(t) \/ Open(t) \/ Exists(t) \/ LinkFrom(t) \/ Denied(t) \/ DeleteCheck(t)
  \/ Close(t) \/ \E c \in Call : Begin(t, c)

\* They leave nodes and entries alone and are not between a count and an entry.
LEMMA QuietStep ==
  ASSUME TypeOK, NEW t \in Thread, Shape(t), Quiet(t)
  PROVE  /\ stored' = stored /\ type' = type /\ dir' = dir
         /\ cached' = cached /\ refCount' = refCount /\ linkCount' = linkCount /\ ready' = ready
         /\ pc[t] \notin {"add", "unlinked", "destroy"}
         /\ pc'[t] \notin {"add", "unlinked", "destroy"}
<1> USE DEF TypeOK, Set, fsVars, nodeVars, Shape
<1>1. CASE NodeReady(t)
  BY <1>1 DEF NodeReady, Resolved
<1>2. CASE Walk(t)
  BY <1>2 DEF Walk, Resolved
<1>3. CASE WalkFails(t)
  BY <1>3 DEF WalkFails, Return, Release, Resolved
<1>4. CASE Descend(t)
  BY <1>4 DEF Descend, Release, Resolved
<1>5. CASE FollowLink(t)
  BY <1>5 DEF FollowLink, Return, Release, Resolved
<1>6. CASE Stat(t)
  BY <1>6 DEF Stat, Return, Release, Resolved
<1>7. CASE Open(t)
  BY <1>7 DEF Open, Return, Release, Resolved
<1>8. CASE Exists(t)
  BY <1>8 DEF Exists, Return, Release, Resolved
<1>9. CASE LinkFrom(t)
  BY <1>9 DEF LinkFrom, Release, Resolved
<1>10. CASE Denied(t)
  BY <1>10 DEF Denied, Return, Release, Resolved
<1>11. CASE DeleteCheck(t)
  BY <1>11 DEF DeleteCheck, Return, Release, Resolved
<1>12. CASE Close(t)
  BY <1>12 DEF Close, Release, Resolved
<1>13. CASE (\E c \in Call : Begin(t, c))
  BY <1>13 DEF Begin, Resolved
<1> QED
  BY <1>1, <1>2, <1>3, <1>4, <1>5, <1>6, <1>7, <1>8, <1>9, <1>10, <1>11, <1>12, <1>13 DEF Quiet

\* The node that t gives back is not the root, if it is the last reference.
LEMMA LastIsNotRoot ==
  ASSUME TypeOK, Nodes, NEW t \in Thread, Shape(t), Knows(t),
         pc[t] = "release", LastReference(Head(todo[t]))
  PROVE  Head(todo[t]) # Root
<1>1. /\ todo[t] \in Seq(NodeId) /\ Len(todo[t]) \in 1 .. 3
      /\ Head(todo[t]) = todo[t][1]
  BY HeadHeld DEF Releasing
<1>2. 1 \in 1 .. Len(todo[t])
  BY <1>1
<1>3. todo[t][1] = Root => ready[Root]
  BY <1>2 DEF Knows
<1> QED
  BY <1>1, <1>3 DEF Nodes, LastReference

\* The entry that t adds or removes, if it does.
Enters(t) ==
  \/ Links' = Links
  \/ /\ pc[t] = "add"
     /\ Links' = Links \cup {[dir |-> cur[t], name |-> name[t], id |-> file[t]]}
  \/ /\ pc[t] = "unlink"
     /\ Links' = Links \ {[dir |-> cur[t], name |-> name[t], id |-> file[t]]}

\* What t may change for the others: a new node is one that nobody knows, a node
\* that t frees is the one it has to destroy, and it adds or removes one entry.
Changes(t) ==
  /\ \A n \in stored : n \in stored' \/ (pc[t] = "destroy" /\ n = Head(todo[t]))
  /\ \A n \in stored : type'[n] = type[n]
  /\ ready[Root] => ready'[Root]
  /\ \A n \in cached' : n \in cached \/ n = Root \/ n \notin stored
  /\ Enters(t)

\* Entries stay if neither they nor the set of nodes change.
LEMMA LinksSame ==
  ASSUME dir' = dir, stored' = stored
  PROVE  Links' = Links
BY DEF Links

\* The cache after a step of t.
LEMMA CacheStep ==
  ASSUME TypeOK, Nodes, Entries, NEW t \in Thread, Shape(t), Knows(t),
         NEW place, Stands(t, place), Acts(t)
  PROVE  /\ cached' \subseteq stored'
         /\ Root \in stored' /\ type'[Root] = "dir"
         /\ ready'[Root] => Root \in cached' /\ linkCount'[Root] = 1
         /\ \A n \in cached' \ {Root} : ready'[n]
         /\ \A n \in NodeId \ cached' : refCount'[n] = 0
         /\ Changes(t)
<1> USE DEF Set
<1>0. /\ Root \in NodeId /\ Root \in stored /\ type[Root] = "dir"
      /\ cached \subseteq stored /\ stored \subseteq NodeId
      /\ ready[Root] => Root \in cached /\ linkCount[Root] = 1
      /\ \A n \in cached \ {Root} : ready[n]
      /\ \A n \in NodeId \ cached : refCount[n] = 0
      /\ type \in [NodeId -> {"file", "dir", "symlink"}]
      /\ refCount \in [NodeId -> Nat] /\ linkCount \in [NodeId -> Int]
      /\ ready \in [NodeId -> BOOLEAN]
  BY DEF NodeId, TypeOK, Nodes
<1>1. CASE Quiet(t)
  <2>1. /\ stored' = stored /\ type' = type /\ Links' = Links /\ cached' = cached
        /\ refCount' = refCount /\ linkCount' = linkCount /\ ready' = ready
    BY <1>1, QuietStep, LinksSame
  <2>11. cached' \subseteq stored' /\ Root \in stored' /\ type'[Root] = "dir"
    BY <1>0, <2>1
  <2>12. ready'[Root] => Root \in cached' /\ linkCount'[Root] = 1
    BY <1>0, <2>1
  <2>13. \A n \in cached' \ {Root} : ready'[n]
    BY <1>0, <2>1
  <2>14. \A n \in NodeId \ cached' : refCount'[n] = 0
    BY <1>0, <2>1
  <2>15. Changes(t)
    <3>1. \A n \in stored : n \in stored' \/ (pc[t] = "destroy" /\ n = Head(todo[t]))
      BY <1>0, <2>1
    <3>2. \A n \in stored : type'[n] = type[n]
      BY <1>0, <2>1
    <3>3. ready[Root] => ready'[Root]
      BY <1>0, <2>1
    <3>4. \A n \in cached' : n \in cached \/ n = Root \/ n \notin stored
      BY <1>0, <2>1
    <3>5. Enters(t)
      BY <1>0, <2>1 DEF Enters
    <3> QED
      BY <3>1, <3>2, <3>3, <3>4, <3>5 DEF Changes
  <2> QED
    BY <2>11, <2>12, <2>13, <2>14, <2>15
<1>2. CASE AcquireRoot(t)
  <2>1. stored' = stored /\ type' = type /\ Links' = Links
    BY <1>2, LinksSame DEF AcquireRoot, AcquireNode, fsVars
  <2>2. CASE Root \in cached
    <3>1. /\ refCount' = [refCount EXCEPT ![Root] = refCount[Root] + 1]
          /\ cached' = cached /\ linkCount' = linkCount /\ ready' = ready
      BY <1>2, <2>2 DEF AcquireRoot, AcquireNode
    <3>11. cached' \subseteq stored' /\ Root \in stored' /\ type'[Root] = "dir"
      BY <1>0, <2>1, <2>2, <3>1
    <3>12. ready'[Root] => Root \in cached' /\ linkCount'[Root] = 1
      BY <1>0, <2>1, <2>2, <3>1
    <3>13. \A n \in cached' \ {Root} : ready'[n]
      BY <1>0, <2>1, <2>2, <3>1
    <3>14. \A n \in NodeId \ cached' : refCount'[n] = 0
      BY <1>0, <2>1, <2>2, <3>1
    <3>15. Changes(t)
      <4>1. \A n \in stored : n \in stored' \/ (pc[t] = "destroy" /\ n = Head(todo[t]))
        BY <1>0, <2>1, <2>2, <3>1
      <4>2. \A n \in stored : type'[n] = type[n]
        BY <1>0, <2>1, <2>2, <3>1
      <4>3. ready[Root] => ready'[Root]
        BY <1>0, <2>1, <2>2, <3>1
      <4>4. \A n \in cached' : n \in cached \/ n = Root \/ n \notin stored
        BY <1>0, <2>1, <2>2, <3>1
      <4>5. Enters(t)
        BY <1>0, <2>1, <2>2, <3>1 DEF Enters
      <4> QED
        BY <4>1, <4>2, <4>3, <4>4, <4>5 DEF Changes
    <3> QED
      BY <3>11, <3>12, <3>13, <3>14, <3>15
  <2>3. CASE Root \notin cached
    <3>1. /\ refCount' = [refCount EXCEPT ![Root] = 1] /\ ready' = [ready EXCEPT ![Root] = FALSE]
          /\ cached' = cached \cup {Root} /\ linkCount' = linkCount
      BY <1>2, <2>3 DEF AcquireRoot, AcquireNode
    <3>11. cached' \subseteq stored' /\ Root \in stored' /\ type'[Root] = "dir"
      BY <1>0, <2>1, <2>3, <3>1
    <3>12. ready'[Root] => Root \in cached' /\ linkCount'[Root] = 1
      BY <1>0, <2>1, <2>3, <3>1
    <3>13. \A n \in cached' \ {Root} : ready'[n]
      BY <1>0, <2>1, <2>3, <3>1
    <3>14. \A n \in NodeId \ cached' : refCount'[n] = 0
      BY <1>0, <2>1, <2>3, <3>1
    <3>15. Changes(t)
      <4>1. \A n \in stored : n \in stored' \/ (pc[t] = "destroy" /\ n = Head(todo[t]))
        BY <1>0, <2>1, <2>3, <3>1
      <4>2. \A n \in stored : type'[n] = type[n]
        BY <1>0, <2>1, <2>3, <3>1
      <4>3. ready[Root] => ready'[Root]
        BY <1>0, <2>1, <2>3, <3>1
      <4>4. \A n \in cached' : n \in cached \/ n = Root \/ n \notin stored
        BY <1>0, <2>1, <2>3, <3>1
      <4>5. Enters(t)
        BY <1>0, <2>1, <2>3, <3>1 DEF Enters
      <4> QED
        BY <4>1, <4>2, <4>3, <4>4, <4>5 DEF Changes
    <3> QED
      BY <3>11, <3>12, <3>13, <3>14, <3>15
  <2> QED
    BY <2>2, <2>3
<1>3. CASE AcquireNext(t)
  <2>1. stored' = stored /\ type' = type /\ Links' = Links
    BY <1>3, LinksSame DEF AcquireNext, AcquireNode, fsVars
  <2>2. PICK f \in cached : f = file[t]
    BY <1>3, FoundThere DEF AcquireNext
  <2>3. /\ refCount' = [refCount EXCEPT ![f] = refCount[f] + 1]
        /\ cached' = cached /\ linkCount' = linkCount /\ ready' = ready
    BY <1>3, <2>2 DEF AcquireNext, AcquireNode
  <2>11. cached' \subseteq stored' /\ Root \in stored' /\ type'[Root] = "dir"
    BY <1>0, <2>1, <2>2, <2>3
  <2>12. ready'[Root] => Root \in cached' /\ linkCount'[Root] = 1
    BY <1>0, <2>1, <2>2, <2>3
  <2>13. \A n \in cached' \ {Root} : ready'[n]
    BY <1>0, <2>1, <2>2, <2>3
  <2>14. \A n \in NodeId \ cached' : refCount'[n] = 0
    BY <1>0, <2>1, <2>2, <2>3
  <2>15. Changes(t)
    <3>1. \A n \in stored : n \in stored' \/ (pc[t] = "destroy" /\ n = Head(todo[t]))
      BY <1>0, <2>1, <2>2, <2>3
    <3>2. \A n \in stored : type'[n] = type[n]
      BY <1>0, <2>1, <2>2, <2>3
    <3>3. ready[Root] => ready'[Root]
      BY <1>0, <2>1, <2>2, <2>3
    <3>4. \A n \in cached' : n \in cached \/ n = Root \/ n \notin stored
      BY <1>0, <2>1, <2>2, <2>3
    <3>5. Enters(t)
      BY <1>0, <2>1, <2>2, <2>3 DEF Enters
    <3> QED
      BY <3>1, <3>2, <3>3, <3>4, <3>5 DEF Changes
  <2> QED
    BY <2>11, <2>12, <2>13, <2>14, <2>15
<1>4. CASE ReadNode(t)
  <2>1. stored' = stored /\ type' = type /\ Links' = Links
    BY <1>4, LinksSame DEF ReadNode, fsVars
  <2>2. Wanted(t) = Root /\ cur[t] = Root
    BY <1>4 DEF ReadNode, Wanted, Shape, Knows
  <2>3. Root \in cached
    BY <1>0, <2>2, UsedCached, VFSAssumption
  <2>4. /\ linkCount' = [linkCount EXCEPT ![Root] = 1] /\ ready' = [ready EXCEPT ![Root] = TRUE]
        /\ cached' = cached /\ refCount' = refCount
    BY <1>4, <2>2 DEF ReadNode
  <2>11. cached' \subseteq stored' /\ Root \in stored' /\ type'[Root] = "dir"
    BY <1>0, <2>1, <2>3, <2>4
  <2>12. ready'[Root] => Root \in cached' /\ linkCount'[Root] = 1
    BY <1>0, <2>1, <2>3, <2>4
  <2>13. \A n \in cached' \ {Root} : ready'[n]
    BY <1>0, <2>1, <2>3, <2>4
  <2>14. \A n \in NodeId \ cached' : refCount'[n] = 0
    BY <1>0, <2>1, <2>3, <2>4
  <2>15. Changes(t)
    <3>1. \A n \in stored : n \in stored' \/ (pc[t] = "destroy" /\ n = Head(todo[t]))
      BY <1>0, <2>1, <2>3, <2>4
    <3>2. \A n \in stored : type'[n] = type[n]
      BY <1>0, <2>1, <2>3, <2>4
    <3>3. ready[Root] => ready'[Root]
      BY <1>0, <2>1, <2>3, <2>4
    <3>4. \A n \in cached' : n \in cached \/ n = Root \/ n \notin stored
      BY <1>0, <2>1, <2>3, <2>4
    <3>5. Enters(t)
      BY <1>0, <2>1, <2>3, <2>4 DEF Enters
    <3> QED
      BY <3>1, <3>2, <3>3, <3>4, <3>5 DEF Changes
  <2> QED
    BY <2>11, <2>12, <2>13, <2>14, <2>15
<1>5. CASE (\E i \in Id : CreateNode(t, i))
  <2>1. PICK i \in Id : CreateNode(t, i)
    BY <1>5
  <2>2. i \in NodeId /\ i # Root /\ i \notin stored /\ i \notin cached
    BY <1>0, <2>1, VFSAssumption DEF NodeId, CreateNode
  <2>3. Links' = Links
    BY <2>1, <2>2, LinksCreated DEF CreateNode
  <2>4. /\ stored' = stored \cup {i} /\ cached' = cached \cup {i}
        /\ refCount' = [refCount EXCEPT ![i] = 1] /\ linkCount' = [linkCount EXCEPT ![i] = 1]
        /\ ready' = [ready EXCEPT ![i] = TRUE]
        /\ \A n \in NodeId : n # i => type'[n] = type[n]
    BY <1>0, <2>1 DEF CreateNode
  <2>11. cached' \subseteq stored' /\ Root \in stored' /\ type'[Root] = "dir"
    BY <1>0, <2>2, <2>3, <2>4
  <2>12. ready'[Root] => Root \in cached' /\ linkCount'[Root] = 1
    BY <1>0, <2>2, <2>3, <2>4
  <2>13. \A n \in cached' \ {Root} : ready'[n]
    BY <1>0, <2>2, <2>3, <2>4
  <2>14. \A n \in NodeId \ cached' : refCount'[n] = 0
    BY <1>0, <2>2, <2>3, <2>4
  <2>15. Changes(t)
    <3>1. \A n \in stored : n \in stored' \/ (pc[t] = "destroy" /\ n = Head(todo[t]))
      BY <1>0, <2>2, <2>3, <2>4
    <3>2. \A n \in stored : type'[n] = type[n]
      BY <1>0, <2>2, <2>3, <2>4
    <3>3. ready[Root] => ready'[Root]
      BY <1>0, <2>2, <2>3, <2>4
    <3>4. \A n \in cached' : n \in cached \/ n = Root \/ n \notin stored
      BY <1>0, <2>2, <2>3, <2>4
    <3>5. Enters(t)
      BY <1>0, <2>2, <2>3, <2>4 DEF Enters
    <3> QED
      BY <3>1, <3>2, <3>3, <3>4, <3>5 DEF Changes
  <2> QED
    BY <2>11, <2>12, <2>13, <2>14, <2>15
<1>6. CASE LinkInc(t)
  <2>1. stored' = stored /\ type' = type /\ Links' = Links
    BY <1>6, LinksSame DEF LinkInc, fsVars
  <2>2. src[t] # Root
    BY <1>6, VFSAssumption DEF LinkInc, Shape, MayCreate, TypeOK
  <2>3. /\ linkCount'[Root] = linkCount[Root]
        /\ cached' = cached /\ refCount' = refCount /\ ready' = ready
    BY <1>0, <1>6, <2>2 DEF LinkInc
  <2>11. cached' \subseteq stored' /\ Root \in stored' /\ type'[Root] = "dir"
    BY <1>0, <2>1, <2>3
  <2>12. ready'[Root] => Root \in cached' /\ linkCount'[Root] = 1
    BY <1>0, <2>1, <2>3
  <2>13. \A n \in cached' \ {Root} : ready'[n]
    BY <1>0, <2>1, <2>3
  <2>14. \A n \in NodeId \ cached' : refCount'[n] = 0
    BY <1>0, <2>1, <2>3
  <2>15. Changes(t)
    <3>1. \A n \in stored : n \in stored' \/ (pc[t] = "destroy" /\ n = Head(todo[t]))
      BY <1>0, <2>1, <2>3
    <3>2. \A n \in stored : type'[n] = type[n]
      BY <1>0, <2>1, <2>3
    <3>3. ready[Root] => ready'[Root]
      BY <1>0, <2>1, <2>3
    <3>4. \A n \in cached' : n \in cached \/ n = Root \/ n \notin stored
      BY <1>0, <2>1, <2>3
    <3>5. Enters(t)
      BY <1>0, <2>1, <2>3 DEF Enters
    <3> QED
      BY <3>1, <3>2, <3>3, <3>4, <3>5 DEF Changes
  <2> QED
    BY <2>11, <2>12, <2>13, <2>14, <2>15
<1>7. CASE AddEntry(t)
  <2>1. stored' = stored /\ type' = type
    BY <1>7 DEF AddEntry
  <2>2. pc[t] = "add" /\ name[t] \in Name /\ file[t] \in Id /\ cur[t] \in stored
    BY <1>0, <1>7, UsedCached, VFSAssumption DEF AddEntry, Shape
  <2>3. Links' = Links \cup {[dir |-> cur[t], name |-> name[t], id |-> file[t]]}
    BY <1>7, <2>1, <2>2, LinksAdded DEF AddEntry
  <2>4. UNCHANGED nodeVars
    BY <1>7 DEF AddEntry
  <2>11. cached' \subseteq stored' /\ Root \in stored' /\ type'[Root] = "dir"
    BY <1>0, <2>1, <2>2, <2>3, <2>4 DEF nodeVars
  <2>12. ready'[Root] => Root \in cached' /\ linkCount'[Root] = 1
    BY <1>0, <2>1, <2>2, <2>3, <2>4 DEF nodeVars
  <2>13. \A n \in cached' \ {Root} : ready'[n]
    BY <1>0, <2>1, <2>2, <2>3, <2>4 DEF nodeVars
  <2>14. \A n \in NodeId \ cached' : refCount'[n] = 0
    BY <1>0, <2>1, <2>2, <2>3, <2>4 DEF nodeVars
  <2>15. Changes(t)
    <3>1. \A n \in stored : n \in stored' \/ (pc[t] = "destroy" /\ n = Head(todo[t]))
      BY <1>0, <2>1, <2>2, <2>3, <2>4 DEF nodeVars
    <3>2. \A n \in stored : type'[n] = type[n]
      BY <1>0, <2>1, <2>2, <2>3, <2>4 DEF nodeVars
    <3>3. ready[Root] => ready'[Root]
      BY <1>0, <2>1, <2>2, <2>3, <2>4 DEF nodeVars
    <3>4. \A n \in cached' : n \in cached \/ n = Root \/ n \notin stored
      BY <1>0, <2>1, <2>2, <2>3, <2>4 DEF nodeVars
    <3>5. Enters(t)
      BY <1>0, <2>1, <2>2, <2>3, <2>4 DEF nodeVars, Enters
    <3> QED
      BY <3>1, <3>2, <3>3, <3>4, <3>5 DEF Changes
  <2> QED
    BY <2>11, <2>12, <2>13, <2>14, <2>15
<1>8. CASE Unlink(t)
  <2>1. stored' = stored /\ type' = type /\ pc[t] = "unlink"
    BY <1>8 DEF Unlink
  <2>2. /\ cur[t] \in stored
        /\ Find(cur[t], name[t]) # 0
        /\ Find(cur[t], name[t]) \in 1 .. Len(dir[cur[t]])
        /\ dir[cur[t]][Find(cur[t], name[t])].name = name[t]
        /\ dir[cur[t]][Find(cur[t], name[t])].id = file[t]
    BY <2>1, FoundThere
  <2>3. dir' = [dir EXCEPT ![cur[t]] = RemoveAt(dir[cur[t]], Find(cur[t], name[t]))]
    BY <1>8, <2>2 DEF Unlink
  <2>4. Unique(cur[t])
    BY <2>2 DEF Entries, Unique
  <2>5. Links' = Links \ {[dir |-> cur[t], name |-> name[t], id |-> file[t]]}
    BY <2>1, <2>2, <2>3, <2>4, LinksRemoved
  <2>6. UNCHANGED nodeVars
    BY <1>8 DEF Unlink
  <2>11. cached' \subseteq stored' /\ Root \in stored' /\ type'[Root] = "dir"
    BY <1>0, <2>1, <2>5, <2>6 DEF nodeVars
  <2>12. ready'[Root] => Root \in cached' /\ linkCount'[Root] = 1
    BY <1>0, <2>1, <2>5, <2>6 DEF nodeVars
  <2>13. \A n \in cached' \ {Root} : ready'[n]
    BY <1>0, <2>1, <2>5, <2>6 DEF nodeVars
  <2>14. \A n \in NodeId \ cached' : refCount'[n] = 0
    BY <1>0, <2>1, <2>5, <2>6 DEF nodeVars
  <2>15. Changes(t)
    <3>1. \A n \in stored : n \in stored' \/ (pc[t] = "destroy" /\ n = Head(todo[t]))
      BY <1>0, <2>1, <2>5, <2>6 DEF nodeVars
    <3>2. \A n \in stored : type'[n] = type[n]
      BY <1>0, <2>1, <2>5, <2>6 DEF nodeVars
    <3>3. ready[Root] => ready'[Root]
      BY <1>0, <2>1, <2>5, <2>6 DEF nodeVars
    <3>4. \A n \in cached' : n \in cached \/ n = Root \/ n \notin stored
      BY <1>0, <2>1, <2>5, <2>6 DEF nodeVars
    <3>5. Enters(t)
      BY <1>0, <2>1, <2>5, <2>6 DEF nodeVars, Enters
    <3> QED
      BY <3>1, <3>2, <3>3, <3>4, <3>5 DEF Changes
  <2> QED
    BY <2>11, <2>12, <2>13, <2>14, <2>15
<1>9. CASE LinkDec(t)
  <2>1. stored' = stored /\ type' = type /\ Links' = Links
    BY <1>9, LinksSame DEF LinkDec, fsVars
  <2>2. file[t] # Root
    BY <1>9, VFSAssumption DEF LinkDec, Shape
  <2>3. /\ linkCount'[Root] = linkCount[Root]
        /\ cached' = cached /\ refCount' = refCount /\ ready' = ready
    BY <1>0, <1>9, <2>2 DEF LinkDec
  <2>11. cached' \subseteq stored' /\ Root \in stored' /\ type'[Root] = "dir"
    BY <1>0, <2>1, <2>3
  <2>12. ready'[Root] => Root \in cached' /\ linkCount'[Root] = 1
    BY <1>0, <2>1, <2>3
  <2>13. \A n \in cached' \ {Root} : ready'[n]
    BY <1>0, <2>1, <2>3
  <2>14. \A n \in NodeId \ cached' : refCount'[n] = 0
    BY <1>0, <2>1, <2>3
  <2>15. Changes(t)
    <3>1. \A n \in stored : n \in stored' \/ (pc[t] = "destroy" /\ n = Head(todo[t]))
      BY <1>0, <2>1, <2>3
    <3>2. \A n \in stored : type'[n] = type[n]
      BY <1>0, <2>1, <2>3
    <3>3. ready[Root] => ready'[Root]
      BY <1>0, <2>1, <2>3
    <3>4. \A n \in cached' : n \in cached \/ n = Root \/ n \notin stored
      BY <1>0, <2>1, <2>3
    <3>5. Enters(t)
      BY <1>0, <2>1, <2>3 DEF Enters
    <3> QED
      BY <3>1, <3>2, <3>3, <3>4, <3>5 DEF Changes
  <2> QED
    BY <2>11, <2>12, <2>13, <2>14, <2>15
<1>10. CASE ReleaseNode(t)
  <2>1. stored' = stored /\ type' = type /\ Links' = Links /\ pc[t] = "release"
    BY <1>10, LinksSame DEF ReleaseNode, fsVars
  <2>2. PICK h \in NodeId : h = Head(todo[t]) /\ h \in cached
    BY <2>1, HeadHeld DEF Releasing
  <2>3. /\ refCount' = [refCount EXCEPT ![h] = refCount[h] - 1]
        /\ linkCount' = linkCount /\ ready' = ready
    BY <1>10, <2>2 DEF ReleaseNode
  <2>4. CASE LastReference(h)
    <3>1. h # Root /\ cached' = cached \ {h} /\ refCount[h] = 1
      BY <1>10, <2>1, <2>2, <2>4, LastIsNotRoot DEF ReleaseNode, LastReference
    <3>11. cached' \subseteq stored' /\ Root \in stored' /\ type'[Root] = "dir"
      BY <1>0, <2>1, <2>3, <3>1
    <3>12. ready'[Root] => Root \in cached' /\ linkCount'[Root] = 1
      BY <1>0, <2>1, <2>3, <3>1
    <3>13. \A n \in cached' \ {Root} : ready'[n]
      BY <1>0, <2>1, <2>3, <3>1
    <3>14. \A n \in NodeId \ cached' : refCount'[n] = 0
      BY <1>0, <2>1, <2>3, <3>1
    <3>15. Changes(t)
      <4>1. \A n \in stored : n \in stored' \/ (pc[t] = "destroy" /\ n = Head(todo[t]))
        BY <1>0, <2>1, <2>3, <3>1
      <4>2. \A n \in stored : type'[n] = type[n]
        BY <1>0, <2>1, <2>3, <3>1
      <4>3. ready[Root] => ready'[Root]
        BY <1>0, <2>1, <2>3, <3>1
      <4>4. \A n \in cached' : n \in cached \/ n = Root \/ n \notin stored
        BY <1>0, <2>1, <2>3, <3>1
      <4>5. Enters(t)
        BY <1>0, <2>1, <2>3, <3>1 DEF Enters
      <4> QED
        BY <4>1, <4>2, <4>3, <4>4, <4>5 DEF Changes
    <3> QED
      BY <3>11, <3>12, <3>13, <3>14, <3>15
  <2>5. CASE ~LastReference(h)
    <3>1. cached' = cached
      BY <1>10, <2>2, <2>5 DEF ReleaseNode
    <3>11. cached' \subseteq stored' /\ Root \in stored' /\ type'[Root] = "dir"
      BY <1>0, <2>1, <2>2, <2>3, <3>1
    <3>12. ready'[Root] => Root \in cached' /\ linkCount'[Root] = 1
      BY <1>0, <2>1, <2>2, <2>3, <3>1
    <3>13. \A n \in cached' \ {Root} : ready'[n]
      BY <1>0, <2>1, <2>2, <2>3, <3>1
    <3>14. \A n \in NodeId \ cached' : refCount'[n] = 0
      BY <1>0, <2>1, <2>2, <2>3, <3>1
    <3>15. Changes(t)
      <4>1. \A n \in stored : n \in stored' \/ (pc[t] = "destroy" /\ n = Head(todo[t]))
        BY <1>0, <2>1, <2>2, <2>3, <3>1
      <4>2. \A n \in stored : type'[n] = type[n]
        BY <1>0, <2>1, <2>2, <2>3, <3>1
      <4>3. ready[Root] => ready'[Root]
        BY <1>0, <2>1, <2>2, <2>3, <3>1
      <4>4. \A n \in cached' : n \in cached \/ n = Root \/ n \notin stored
        BY <1>0, <2>1, <2>2, <2>3, <3>1
      <4>5. Enters(t)
        BY <1>0, <2>1, <2>2, <2>3, <3>1 DEF Enters
      <4> QED
        BY <4>1, <4>2, <4>3, <4>4, <4>5 DEF Changes
    <3> QED
      BY <3>11, <3>12, <3>13, <3>14, <3>15
  <2> QED
    BY <2>4, <2>5
<1>11. CASE DestroyNode(t)
  <2>1. /\ pc[t] = "destroy" /\ stored' = stored \ {Head(todo[t])} /\ type' = type /\ dir' = dir
        /\ UNCHANGED nodeVars
    BY <1>11 DEF DestroyNode
  <2>2. Head(todo[t]) \notin cached /\ Head(todo[t]) # Root /\ ~Named(Head(todo[t]))
    BY <2>1 DEF Knows
  <2>3. \A l \in Links : l.dir # Head(todo[t])
    BY <2>2 DEF Entries, Rooted
  <2>4. Links' = Links
    BY <2>1, <2>3, LinksFreed
  <2>11. cached' \subseteq stored' /\ Root \in stored' /\ type'[Root] = "dir"
    BY <1>0, <2>1, <2>2, <2>4 DEF nodeVars
  <2>12. ready'[Root] => Root \in cached' /\ linkCount'[Root] = 1
    BY <1>0, <2>1, <2>2, <2>4 DEF nodeVars
  <2>13. \A n \in cached' \ {Root} : ready'[n]
    BY <1>0, <2>1, <2>2, <2>4 DEF nodeVars
  <2>14. \A n \in NodeId \ cached' : refCount'[n] = 0
    BY <1>0, <2>1, <2>2, <2>4 DEF nodeVars
  <2>15. Changes(t)
    <3>1. \A n \in stored : n \in stored' \/ (pc[t] = "destroy" /\ n = Head(todo[t]))
      BY <1>0, <2>1, <2>2, <2>4 DEF nodeVars
    <3>2. \A n \in stored : type'[n] = type[n]
      BY <1>0, <2>1, <2>2, <2>4 DEF nodeVars
    <3>3. ready[Root] => ready'[Root]
      BY <1>0, <2>1, <2>2, <2>4 DEF nodeVars
    <3>4. \A n \in cached' : n \in cached \/ n = Root \/ n \notin stored
      BY <1>0, <2>1, <2>2, <2>4 DEF nodeVars
    <3>5. Enters(t)
      BY <1>0, <2>1, <2>2, <2>4 DEF nodeVars, Enters
    <3> QED
      BY <3>1, <3>2, <3>3, <3>4, <3>5 DEF Changes
  <2> QED
    BY <2>11, <2>12, <2>13, <2>14, <2>15
<1> QED
  BY <1>1, <1>2, <1>3, <1>4, <1>5, <1>6, <1>7, <1>8, <1>9, <1>10, <1>11 DEF Acts, Step, Quiet

\* refCount is exact after a step.
LEMMA NodesStep ==
  ASSUME TypeOK, Nodes, Entries, NEW t \in Thread, Shape(t), Closed(t), Knows(t),
         NEW place, Stands(t, place), Acts(t)
  PROVE  Nodes'
<1>0. Backed /\ lost' = lost
  BY NodesBacked, FoundThere, LostStep
<1>1. ASSUME NEW n \in NodeId PROVE refCount'[n] = References(n)'
  <2>1. refCount'[n] = refCount[n] + Held(t, n)' - Held(t, n)
    BY <1>0, FoundThere, HeldStep
  <2>2. Frame(t)
    BY FrameStep
  <2>3. References(n)' = References(n) + Held(t, n)' - Held(t, n)
    BY <2>2, ReferencesStep DEF Frame, Same
  <2>4. refCount[n] = References(n)
    BY DEF Nodes
  <2> QED
    BY <2>1, <2>3, <2>4, Zenon
<1>2. /\ cached' \subseteq stored'
      /\ Root \in stored' /\ type'[Root] = "dir"
      /\ ready'[Root] => Root \in cached' /\ linkCount'[Root] = 1
      /\ \A n \in cached' \ {Root} : ready'[n]
      /\ \A n \in NodeId \ cached' : refCount'[n] = 0
  BY CacheStep
<1>3. \A n \in NodeId : refCount'[n] = References(n)'
  BY <1>1
<1>4. \A n \in NodeId : lost'[n] = 0
  BY <1>0 DEF Nodes
<1> QED
  BY <1>2, <1>3, <1>4 DEF Nodes

\* The last reference of a node is that of a node without entries.
LEMMA LastUnnamed ==
  ASSUME Counted, NEW n \in cached \ {Root}, LastReference(n)
  PROVE  ~Named(n)
<1> DEFINE L == {l \in Links : l.id = n}
<1>1. IsFiniteSet(L)
  BY FS_Subset DEF Counted
<1>2. Cardinality(L) \in Nat
  BY <1>1, FS_CardinalityType
<1>3. Cardinality(Pending(n)) \in Nat
  BY VFSAssumption, FS_Subset, FS_CardinalityType DEF Pending
<1>4. linkCount[n] = Cardinality(L) + Cardinality(Pending(n)) /\ linkCount[n] = 0
  BY DEF Counted, LastReference
<1>5. Cardinality(L) = 0
  BY <1>2, <1>3, <1>4
<1>6. L = {}
  BY <1>1, <1>5, FS_EmptySet
<1> QED
  BY <1>6 DEF Named

\* A node that leaves the cache has no name.
LEMMA CachedKept ==
  ASSUME TypeOK, Nodes, Entries, Counted, NEW t \in Thread, Shape(t), Knows(t),
         NEW place, Stands(t, place), Acts(t), NEW n \in cached
  PROVE  n \in cached' \/ ~Named(n)
<1> USE DEF Set
<1>1. CASE Quiet(t)
  BY <1>1, QuietStep
<1>2. CASE AcquireRoot(t)
  BY <1>2 DEF AcquireRoot, AcquireNode
<1>3. CASE AcquireNext(t)
  BY <1>3 DEF AcquireNext, AcquireNode
<1>4. CASE ReadNode(t)
  BY <1>4 DEF ReadNode
<1>5. CASE (\E i \in Id : CreateNode(t, i))
  BY <1>5 DEF CreateNode
<1>6. CASE LinkInc(t) \/ LinkDec(t)
  BY <1>6 DEF LinkInc, LinkDec
<1>7. CASE AddEntry(t) \/ Unlink(t) \/ DestroyNode(t)
  BY <1>7 DEF AddEntry, Unlink, DestroyNode, nodeVars
<1>8. CASE ReleaseNode(t)
  <2>1. PICK h \in cached : h = Head(todo[t])
    BY <1>8, HeadHeld DEF Releasing, ReleaseNode
  <2>2. CASE LastReference(h)
    <3>1. h # Root /\ cached' = cached \ {h}
      BY <1>8, <2>1, <2>2, LastIsNotRoot DEF ReleaseNode
    <3>2. ~Named(h)
      BY <2>2, <3>1, LastUnnamed
    <3> QED
      BY <3>1, <3>2
  <2>3. CASE ~LastReference(h)
    BY <1>8, <2>1, <2>3 DEF ReleaseNode
  <2> QED
    BY <2>2, <2>3
<1> QED
  BY <1>1, <1>2, <1>3, <1>4, <1>5, <1>6, <1>7, <1>8 DEF Acts, Step, Quiet

\* Names in a directory stay unique.
LEMMA UniqueStep ==
  ASSUME TypeOK, Nodes, Entries, NEW t \in Thread, Shape(t), Knows(t),
         NEW place, Stands(t, place), Acts(t), NEW d \in stored'
  PROVE  Unique(d)'
<1> USE DEF Set
<1>0. \A x \in stored : Unique(x)
  BY DEF Entries, Unique
<1>1. CASE dir' = dir /\ stored' \subseteq stored
  <2>1. Unique(d)
    BY <1>0, <1>1
  <2> QED
    BY <1>1, <2>1 DEF Unique
<1>2. CASE Quiet(t)
  BY <1>1, <1>2, QuietStep
<1>3. CASE AcquireRoot(t)
  BY <1>1, <1>3 DEF AcquireRoot, AcquireNode, fsVars
<1>4. CASE AcquireNext(t)
  BY <1>1, <1>4 DEF AcquireNext, AcquireNode, fsVars
<1>5. CASE ReadNode(t)
  BY <1>1, <1>5 DEF ReadNode, fsVars
<1>6. CASE (\E i \in Id : CreateNode(t, i))
  <2>1. PICK i \in Id : CreateNode(t, i)
    BY <1>6
  <2>2. i \in NodeId /\ i \notin stored /\ stored' = stored \cup {i}
    BY <2>1 DEF NodeId, CreateNode
  <2>3. /\ \A x \in stored : Unique(x) => Unique(x)'
        /\ Unique(i)'
    BY <2>1, <2>2, LinksCreated DEF CreateNode
  <2> QED
    BY <1>0, <2>2, <2>3
<1>7. CASE LinkInc(t) \/ LinkDec(t)
  BY <1>1, <1>7 DEF LinkInc, LinkDec, fsVars
<1>8. CASE AddEntry(t)
  <2>1. stored' = stored
    BY <1>8 DEF AddEntry
  <2>2. pc[t] = "add" /\ name[t] \in Name /\ file[t] \in Id /\ cur[t] \in stored
    BY <1>8, UsedCached, VFSAssumption DEF AddEntry, Shape, Nodes
  <2>3. \A l \in Links : ~(l.dir = cur[t] /\ l.name = name[t])
    BY <2>2 DEF Stands
  <2>4. PICK c \in stored, n \in Name, i \in Id : c = cur[t] /\ n = name[t] /\ i = file[t]
    BY <2>2
  <2>5. dir' = [dir EXCEPT ![c] = Append(dir[c], [name |-> n, id |-> i])]
    BY <1>8, <2>4 DEF AddEntry
  <2>6. /\ \A x \in stored : x # c => (Unique(x) => Unique(x)')
        /\ Unique(c) /\ (\A l \in Links : ~(l.dir = c /\ l.name = n)) => Unique(c)'
    BY <2>1, <2>5, LinksAdded
  <2> QED
    BY <1>0, <2>1, <2>3, <2>4, <2>6
<1>9. CASE Unlink(t)
  <2>1. stored' = stored /\ pc[t] = "unlink"
    BY <1>9 DEF Unlink
  <2>2. /\ cur[t] \in stored
        /\ Find(cur[t], name[t]) # 0
        /\ Find(cur[t], name[t]) \in 1 .. Len(dir[cur[t]])
        /\ dir[cur[t]][Find(cur[t], name[t])].name = name[t]
        /\ dir[cur[t]][Find(cur[t], name[t])].id = file[t]
    BY <2>1, FoundThere
  <2>3. dir' = [dir EXCEPT ![cur[t]] = RemoveAt(dir[cur[t]], Find(cur[t], name[t]))]
    BY <1>9, <2>2 DEF Unlink
  <2>4. Unique(cur[t])
    BY <1>0, <2>2
  <2>5. \A x \in stored : Unique(x) => Unique(x)'
    BY <2>1, <2>2, <2>3, <2>4, LinksRemoved
  <2> QED
    BY <1>0, <2>1, <2>5
<1>10. CASE ReleaseNode(t)
  BY <1>1, <1>10 DEF ReleaseNode, fsVars
<1>11. CASE DestroyNode(t)
  BY <1>1, <1>11 DEF DestroyNode
<1> QED
  BY <1>2, <1>3, <1>4, <1>5, <1>6, <1>7, <1>8, <1>9, <1>10, <1>11 DEF Acts, Step, Quiet

\* Entries name nodes of the cache, and directories that have entries stay rooted.
LEMMA EntriesStep ==
  ASSUME TypeOK, Nodes, Entries, Counted, NEW t \in Thread, Shape(t), Knows(t),
         NEW place, Stands(t, place), Acts(t)
  PROVE  Entries'
<1>1. Changes(t)
  BY CacheStep
<1>2. \A n \in cached : n \in cached' \/ ~Named(n)
  BY CachedKept
<1>3. \A d \in stored' : Unique(d)'
  BY UniqueStep
<1>4. \A l \in Links : /\ l.id \in cached /\ type[l.dir] = "dir" /\ Rooted(l.dir)
                       /\ l.dir \in stored /\ l.id \in cached' /\ type'[l.dir] = "dir"
  BY <1>1, <1>2, LinksAre DEF Entries, Named, Changes
<1>5. CASE Links' = Links
  <2>1. \A d : Rooted(d) => Rooted(d)'
    BY <1>5 DEF Rooted, Named
  <2> QED
    BY <1>3, <1>4, <1>5, <2>1 DEF Entries, Unique
<1>6. CASE /\ pc[t] = "add"
           /\ Links' = Links \cup {[dir |-> cur[t], name |-> name[t], id |-> file[t]]}
  <2>1. \A d : Rooted(d) => Rooted(d)'
    BY <1>6 DEF Rooted, Named
  <2>2. type[cur[t]] = "dir" /\ Rooted(cur[t]) /\ file[t] \in Id /\ cur[t] \in NodeId
    BY <1>6 DEF Stands, Shape
  <2>3. cur[t] \in stored /\ file[t] \in cached /\ file[t] # None
    BY <1>6, <2>2, UsedCached, VFSAssumption DEF Nodes, NodeId
  <2>4. file[t] \in cached'
    <3>1. CASE AddEntry(t)
      BY <2>3, <3>1 DEF AddEntry, nodeVars
    <3> QED
      BY <1>6, <3>1 DEF Acts, Step, AcquireRoot, AcquireNext, ReadNode, NodeReady, Walk,
           WalkFails, Descend, FollowLink, Stat, Open, Exists, LinkFrom, CreateNode, LinkInc,
           Denied, DeleteCheck, Unlink, LinkDec, ReleaseNode, DestroyNode, Close, Begin, Resolved
  <2>5. \A d : d = cur[t] => type'[d] = "dir" /\ Rooted(d)'
    BY <1>1, <2>1, <2>2, <2>3 DEF Changes
  <2>6. ASSUME NEW l \in Links'
        PROVE  l.id \in cached' /\ type'[l.dir] = "dir" /\ Rooted(l.dir)'
    <3>1. CASE l \in Links
      BY <1>4, <2>1, <3>1
    <3>2. CASE l = [dir |-> cur[t], name |-> name[t], id |-> file[t]]
      <4>1. l.dir = cur[t] /\ l.id = file[t]
        BY <3>2
      <4> QED
        BY <2>4, <2>5, <4>1
    <3> QED
      BY <1>6, <3>1, <3>2
  <2> QED
    BY <1>3, <2>6 DEF Entries, Unique
<1>7. CASE /\ pc[t] = "unlink"
           /\ Links' = Links \ {[dir |-> cur[t], name |-> name[t], id |-> file[t]]}
  <2>1. type[file[t]] = "dir" => \A l \in Links : l.dir # file[t]
    BY <1>7 DEF Stands
  <2>2. ASSUME NEW l \in Links'
        PROVE  l.id \in cached' /\ type'[l.dir] = "dir" /\ Rooted(l.dir)'
    <3>1. l \in Links /\ l.dir # file[t]
      BY <1>4, <1>7, <2>1
    <3>2. CASE l.dir = Root
      BY <1>4, <3>1, <3>2 DEF Rooted
    <3>3. CASE l.dir # Root
      <4>1. PICK m \in Links : m.id = l.dir
        BY <1>4, <3>1, <3>3 DEF Rooted, Named
      <4>2. m # [dir |-> cur[t], name |-> name[t], id |-> file[t]]
        BY <3>1, <4>1
      <4>3. m \in Links'
        BY <1>7, <4>2
      <4> QED
        BY <1>4, <3>1, <4>1, <4>3 DEF Rooted, Named
    <3> QED
      BY <3>2, <3>3
  <2> QED
    BY <1>3, <2>2 DEF Entries, Unique
<1> QED
  BY <1>1, <1>5, <1>6, <1>7 DEF Changes, Enters

\* Calls that have counted a name and not entered it, or the other way round.
Pends(t, n) == pc[t] \in {"add", "unlinked"} /\ file[t] = n

\* A step of t changes only whether t itself pends.
LEMMA PendingStep ==
  ASSUME NEW t \in Thread, Frame(t), NEW n
  PROVE  /\ Cardinality(Pending(n)) \in Nat
         /\ Cardinality(Pending(n)') = Cardinality(Pending(n)) + One(Pends(t, n)') - One(Pends(t, n))
<1> DEFINE S == Pending(n)
           T == {u \in Thread : pc'[u] \in {"add", "unlinked"} /\ file'[u] = n}
<1>1. T = Pending(n)'
  BY DEF Pending
<1>2. S \in SUBSET Thread /\ T \in SUBSET Thread
  BY DEF Pending
<1>3. \A u \in Thread : u # t => (u \in S <=> u \in T)
  BY DEF Pending, Frame, Same
<1>4. (t \in S <=> Pends(t, n)) /\ (t \in T <=> Pends(t, n)')
  BY DEF Pending, Pends
<1>5. One(t \in S) = One(Pends(t, n)) /\ One(t \in T) = One(Pends(t, n)')
  BY <1>4 DEF One
<1> HIDE DEF S, T
<1>6. /\ Cardinality(S) \in Nat
      /\ Cardinality(T) = Cardinality(S) + One(t \in T) - One(t \in S)
  BY <1>2, <1>3, OneThread
<1>7. /\ Cardinality(S) \in Nat
      /\ Cardinality(T) = Cardinality(S) + One(Pends(t, n)') - One(Pends(t, n))
  BY <1>5, <1>6, Zenon
<1> QED
  BY <1>1, <1>7, Zenon DEF S

\* Steps that neither change entries nor counts.
LEMMA CountedPlain ==
  ASSUME Counted, NEW t \in Thread, Frame(t), Links' = Links,
         pc[t] \notin {"add", "unlinked"}, pc'[t] \notin {"add", "unlinked"},
         \A n \in cached' \ {Root} : n \in cached /\ linkCount'[n] = linkCount[n]
  PROVE  Counted'
<1>1. ASSUME NEW n \in cached' \ {Root}
      PROVE  linkCount'[n] = Cardinality({l \in Links' : l.id = n}) + Cardinality(Pending(n)')
  <2>1. /\ Cardinality(Pending(n)) \in Nat
        /\ Cardinality(Pending(n)') = Cardinality(Pending(n)) + One(Pends(t, n)') - One(Pends(t, n))
    BY PendingStep
  <2>2. One(Pends(t, n)') = 0 /\ One(Pends(t, n)) = 0
    BY DEF Pends, One
  <2>3. Cardinality(Pending(n)') = Cardinality(Pending(n))
    BY <2>1, <2>2
  <2>4. linkCount[n] = Cardinality({l \in Links : l.id = n}) + Cardinality(Pending(n))
    BY DEF Counted
  <2>5. {l \in Links' : l.id = n} = {l \in Links : l.id = n}
    OBVIOUS
  <2>6. linkCount'[n] = linkCount[n]
    OBVIOUS
  <2> QED
    BY <2>3, <2>4, <2>5, <2>6, Zenon
<1>2. IsFiniteSet(Links')
  BY Zenon DEF Counted
<1> QED
  BY <1>1, <1>2, Zenon DEF Counted

\* linkCount stays exact.
LEMMA CountedStep ==
  ASSUME TypeOK, Nodes, Entries, Counted, NEW t \in Thread, Shape(t), Knows(t),
         NEW place, Stands(t, place), Acts(t)
  PROVE  Counted'
<1> DEFINE Names(n) == {l \in Links : l.id = n}
           NamesNext(n) == {l \in Links' : l.id = n}
<1>1. Changes(t) /\ Frame(t)
  BY CacheStep, FrameStep
<1>2. /\ IsFiniteSet(Links)
      /\ \A n \in cached \ {Root} : linkCount[n] = Cardinality(Names(n)) + Cardinality(Pending(n))
  BY DEF Counted
<1>3. \A n : IsFiniteSet(Names(n)) /\ Cardinality(Names(n)) \in Nat
  BY <1>2, FS_Subset, FS_CardinalityType
<1>4. \A n : /\ Cardinality(Pending(n)) \in Nat
             /\ Cardinality(Pending(n)') = Cardinality(Pending(n)) + One(Pends(t, n)') - One(Pends(t, n))
  BY <1>1, PendingStep
<1>5. \A b : One(b) \in {0, 1}
  BY DEF One
<1>6. ASSUME IsFiniteSet(Links'),
             \A n \in cached' \ {Root} :
               linkCount'[n] = Cardinality(NamesNext(n)) + Cardinality(Pending(n)')
      PROVE  Counted'
  BY <1>6 DEF Counted
<1>7. pc[t] \notin {"add", "unlink"} => Links' = Links
  BY <1>1 DEF Changes, Enters
<1>8. linkCount \in [NodeId -> Int] /\ cached \subseteq NodeId /\ cached \subseteq stored
  BY DEF TypeOK, Nodes
<1> HIDE DEF Names, NamesNext
<1>9. ASSUME Links' = Links PROVE \A n : NamesNext(n) = Names(n)
  BY <1>9 DEF Names, NamesNext
<1>11. CASE Quiet(t)
  <2>1. /\ cached' = cached /\ linkCount' = linkCount /\ Links' = Links
        /\ pc[t] \notin {"add", "unlinked"} /\ pc'[t] \notin {"add", "unlinked"}
    BY <1>11, QuietStep, LinksSame
  <2> QED
    BY <1>1, <2>1, CountedPlain
<1>12. CASE AcquireRoot(t)
  <2>1. /\ cached' \subseteq cached \cup {Root} /\ linkCount' = linkCount
        /\ pc[t] = "root" /\ pc'[t] \notin {"add", "unlinked"}
    BY <1>12 DEF AcquireRoot, AcquireNode, Set, TypeOK
  <2> QED
    BY <1>1, <1>7, <2>1, CountedPlain
<1>13. CASE AcquireNext(t)
  <2>1. file[t] \in cached /\ pc[t] = "next"
    BY <1>13, FoundThere DEF AcquireNext
  <2>2. cached' = cached /\ linkCount' = linkCount /\ pc'[t] \notin {"add", "unlinked"}
    BY <1>13, <2>1 DEF AcquireNext, AcquireNode, Set, TypeOK
  <2> QED
    BY <1>1, <1>7, <2>1, <2>2, CountedPlain
<1>14. CASE ReadNode(t)
  <2>1. pc[t] = "load" /\ Wanted(t) = Root /\ then[t] = "walk"
    BY <1>14 DEF ReadNode, Wanted, Shape, Knows
  <2>2. /\ cached' = cached /\ pc'[t] \notin {"add", "unlinked"}
        /\ \A n \in NodeId \ {Root} : linkCount'[n] = linkCount[n]
    BY <1>8, <1>14, <2>1 DEF ReadNode, Set, TypeOK
  <2> QED
    BY <1>1, <1>7, <1>8, <2>1, <2>2, CountedPlain
<1>15. CASE ReleaseNode(t)
  <2>1. /\ pc[t] = "release" /\ cached' \subseteq cached /\ linkCount' = linkCount
        /\ pc'[t] \notin {"add", "unlinked"}
    BY <1>15 DEF ReleaseNode, Done, Set, TypeOK
  <2> QED
    BY <1>1, <1>7, <2>1, CountedPlain
<1>16. CASE DestroyNode(t)
  <2>1. /\ pc[t] = "destroy" /\ cached' = cached /\ linkCount' = linkCount
        /\ pc'[t] \notin {"add", "unlinked"}
    BY <1>16 DEF DestroyNode, Done, Set, TypeOK, nodeVars
  <2> QED
    BY <1>1, <1>7, <2>1, CountedPlain
<1>17. CASE (\E i \in Id : CreateNode(t, i))
  <2>1. PICK i \in Id : CreateNode(t, i)
    BY <1>17
  <2>2. /\ i \in NodeId /\ i \notin cached /\ pc[t] = "absent"
        /\ cached' = cached \cup {i} /\ linkCount' = [linkCount EXCEPT ![i] = 1]
        /\ file'[t] = i /\ pc'[t] = "add"
    BY <1>8, <2>1 DEF CreateNode, NodeId, Set, TypeOK
  <2>3. Links' = Links /\ \A n : NamesNext(n) = Names(n)
    BY <1>7, <1>9, <2>2
  <2>4. \A n : One(Pends(t, n)) = 0 /\ One(Pends(t, n)') = One(n = i)
    BY <2>2 DEF Pends, One
  <2>5. Names(i) = {}
    BY <2>2 DEF Names, Entries
  <2>6. Pending(i) = {}
    BY <2>2, UsedCached, VFSAssumption DEF Pending, NodeId
  <2>7. Cardinality(Names(i)) = 0 /\ Cardinality(Pending(i)) = 0
    BY <2>5, <2>6, FS_EmptySet
  <2>8. ASSUME NEW n \in cached' \ {Root}
        PROVE  linkCount'[n] = Cardinality(NamesNext(n)) + Cardinality(Pending(n)')
    <3>1. Cardinality(Pending(n)') = Cardinality(Pending(n)) + One(n = i)
      BY <1>4, <1>5, <2>4
    <3>2. Cardinality(NamesNext(n)) = Cardinality(Names(n))
      BY <2>3
    <3>3. CASE n = i
      <4>1. linkCount'[n] = 1 /\ One(n = i) = 1
        BY <1>8, <2>2, <3>3 DEF One
      <4> QED
        BY <2>7, <3>1, <3>2, <3>3, <4>1
    <3>4. CASE n # i
      <4>1. linkCount'[n] = linkCount[n] /\ One(n = i) = 0 /\ n \in cached
        BY <1>8, <2>2, <3>4 DEF One
      <4>2. linkCount[n] = Cardinality(Names(n)) + Cardinality(Pending(n))
        BY <1>2, <4>1
      <4> QED
        BY <1>3, <1>4, <3>1, <3>2, <4>1, <4>2
    <3> QED
      BY <3>3, <3>4
  <2>9. IsFiniteSet(Links')
    BY <1>2, <2>3
  <2> QED
    BY <1>6, <2>8, <2>9
<1>18. CASE LinkInc(t)
  <2>1. PICK x \in Id : x = src[t]
    BY <1>18 DEF LinkInc, Shape, MayCreate, TypeOK
  <2>2. /\ pc[t] = "absent" /\ cached' = cached
        /\ linkCount' = [linkCount EXCEPT ![x] = linkCount[x] + 1]
        /\ file'[t] = x /\ pc'[t] = "add"
    BY <1>18, <2>1 DEF LinkInc, Set, TypeOK
  <2>3. Links' = Links /\ \A n : NamesNext(n) = Names(n)
    BY <1>7, <1>9, <2>2
  <2>4. \A n : One(Pends(t, n)) = 0 /\ One(Pends(t, n)') = One(n = x)
    BY <2>2 DEF Pends, One
  <2>5. ASSUME NEW n \in cached' \ {Root}
        PROVE  linkCount'[n] = Cardinality(NamesNext(n)) + Cardinality(Pending(n)')
    <3>1. Cardinality(Pending(n)') = Cardinality(Pending(n)) + One(n = x)
      BY <1>4, <1>5, <2>4
    <3>2. Cardinality(NamesNext(n)) = Cardinality(Names(n))
      BY <2>3
    <3>3. linkCount'[n] = linkCount[n] + One(n = x) /\ linkCount[n] \in Int
      BY <1>8, <2>2 DEF One
    <3>4. linkCount[n] = Cardinality(Names(n)) + Cardinality(Pending(n))
      BY <1>2, <2>2
    <3> QED
      BY <1>3, <1>4, <1>5, <3>1, <3>2, <3>3, <3>4
  <2>6. IsFiniteSet(Links')
    BY <1>2, <2>3
  <2> QED
    BY <1>6, <2>5, <2>6
<1>19. CASE LinkDec(t)
  <2>1. PICK x \in Id : x = file[t]
    BY <1>19 DEF LinkDec, Shape
  <2>2. /\ pc[t] = "unlinked" /\ cached' = cached
        /\ linkCount' = [linkCount EXCEPT ![x] = linkCount[x] - 1]
        /\ pc'[t] = "release"
    BY <1>19, <2>1 DEF LinkDec, Release, Set, TypeOK
  <2>3. Links' = Links /\ \A n : NamesNext(n) = Names(n)
    BY <1>7, <1>9, <2>2
  <2>4. \A n : One(Pends(t, n)) = One(n = x) /\ One(Pends(t, n)') = 0
    BY <2>1, <2>2 DEF Pends, One
  <2>5. ASSUME NEW n \in cached' \ {Root}
        PROVE  linkCount'[n] = Cardinality(NamesNext(n)) + Cardinality(Pending(n)')
    <3>1. Cardinality(Pending(n)') = Cardinality(Pending(n)) - One(n = x)
      BY <1>4, <1>5, <2>4
    <3>2. Cardinality(NamesNext(n)) = Cardinality(Names(n))
      BY <2>3
    <3>3. linkCount'[n] = linkCount[n] - One(n = x) /\ linkCount[n] \in Int
      BY <1>8, <2>2 DEF One
    <3>4. linkCount[n] = Cardinality(Names(n)) + Cardinality(Pending(n))
      BY <1>2, <2>2
    <3> QED
      BY <1>3, <1>4, <1>5, <3>1, <3>2, <3>3, <3>4
  <2>6. IsFiniteSet(Links')
    BY <1>2, <2>3
  <2> QED
    BY <1>6, <2>5, <2>6
<1>20. CASE AddEntry(t)
  <2>1. PICK e : e = [dir |-> cur[t], name |-> name[t], id |-> file[t]]
    OBVIOUS
  <2>2. /\ pc[t] = "add" /\ cached' = cached /\ linkCount' = linkCount
        /\ pc'[t] \notin {"add", "unlinked"} /\ e.id = file[t]
    BY <1>20, <2>1 DEF AddEntry, Release, nodeVars, Set, TypeOK
  <2>3. e \notin Links
    BY <2>1, <2>2 DEF Stands
  <2>4. Links' = Links \cup {e}
    <3>1. cur[t] \in stored /\ name[t] \in Name /\ file[t] \in Id
      BY <2>2, UsedCached, VFSAssumption DEF Shape, Nodes
    <3> QED
      BY <1>20, <2>1, <3>1, LinksAdded DEF AddEntry, Set
  <2>5. \A n : One(Pends(t, n)) = One(n = e.id) /\ One(Pends(t, n)') = 0
    BY <2>2 DEF Pends, One
  <2>6. ASSUME NEW n \in cached' \ {Root}
        PROVE  linkCount'[n] = Cardinality(NamesNext(n)) + Cardinality(Pending(n)')
    <3>1. Cardinality(Pending(n)') = Cardinality(Pending(n)) - One(n = e.id)
      BY <1>4, <1>5, <2>5
    <3>2. Cardinality(NamesNext(n)) = Cardinality(Names(n)) + One(n = e.id)
      <4>1. CASE n = e.id
        <5>1. NamesNext(n) = Names(n) \cup {e} /\ e \notin Names(n)
          BY <2>3, <2>4, <4>1 DEF Names, NamesNext
        <5> QED
          BY <1>3, <4>1, <5>1, FS_AddElement DEF One
      <4>2. CASE n # e.id
        <5>1. NamesNext(n) = Names(n)
          BY <2>4, <4>2 DEF Names, NamesNext
        <5> QED
          BY <1>3, <4>2, <5>1 DEF One
      <4> QED
        BY <4>1, <4>2
    <3>3. linkCount'[n] = Cardinality(Names(n)) + Cardinality(Pending(n))
      BY <1>2, <2>2
    <3> QED
      BY <1>3, <1>4, <1>5, <3>1, <3>2, <3>3
  <2>7. IsFiniteSet(Links')
    BY <1>2, <2>4, FS_AddElement
  <2> QED
    BY <1>6, <2>6, <2>7
<1>21. CASE Unlink(t)
  <2>1. PICK e : e = [dir |-> cur[t], name |-> name[t], id |-> file[t]]
    OBVIOUS
  <2>2. pc[t] = "unlink" /\ Find(cur[t], name[t]) # 0 /\ e.id = file[t]
    BY <1>21, <2>1, FoundThere DEF Unlink
  <2>3. cached' = cached /\ linkCount' = linkCount /\ pc'[t] = "unlinked" /\ file'[t] = e.id
    BY <1>21, <2>2 DEF Unlink, nodeVars, callVars, Set, TypeOK
  <2>4. e \in Links
    BY <2>1, <2>2 DEF Stands, Linked
  <2>5. Links' = Links \ {e}
    <3>1. /\ cur[t] \in stored
          /\ Find(cur[t], name[t]) \in 1 .. Len(dir[cur[t]])
          /\ dir[cur[t]][Find(cur[t], name[t])].name = name[t]
          /\ dir[cur[t]][Find(cur[t], name[t])].id = file[t]
      BY <2>2, FoundThere
    <3>2. Unique(cur[t])
      BY <3>1 DEF Entries, Unique
    <3>3. /\ dir' = [dir EXCEPT ![cur[t]] = RemoveAt(dir[cur[t]], Find(cur[t], name[t]))]
          /\ stored' = stored
      BY <1>21, <2>2 DEF Unlink, Set
    <3> QED
      BY <2>1, <3>1, <3>2, <3>3, LinksRemoved
  <2>6. \A n : One(Pends(t, n)) = 0 /\ One(Pends(t, n)') = One(n = e.id)
    BY <2>2, <2>3 DEF Pends, One
  <2>7. ASSUME NEW n \in cached' \ {Root}
        PROVE  linkCount'[n] = Cardinality(NamesNext(n)) + Cardinality(Pending(n)')
    <3>1. Cardinality(Pending(n)') = Cardinality(Pending(n)) + One(n = e.id)
      BY <1>4, <1>5, <2>6
    <3>2. Cardinality(NamesNext(n)) = Cardinality(Names(n)) - One(n = e.id)
      <4>1. CASE n = e.id
        <5>1. NamesNext(n) = Names(n) \ {e} /\ e \in Names(n)
          BY <2>4, <2>5, <4>1 DEF Names, NamesNext
        <5> QED
          BY <1>3, <4>1, <5>1, FS_RemoveElement DEF One
      <4>2. CASE n # e.id
        <5>1. NamesNext(n) = Names(n)
          BY <2>5, <4>2 DEF Names, NamesNext
        <5> QED
          BY <1>3, <4>2, <5>1 DEF One
      <4> QED
        BY <4>1, <4>2
    <3>3. linkCount'[n] = Cardinality(Names(n)) + Cardinality(Pending(n))
      BY <1>2, <2>3
    <3> QED
      BY <1>3, <1>4, <1>5, <3>1, <3>2, <3>3
  <2>8. IsFiniteSet(Links')
    BY <1>2, <2>5, FS_RemoveElement
  <2> QED
    BY <1>6, <2>7, <2>8
<1> QED
  BY <1>11, <1>12, <1>13, <1>14, <1>15, <1>16, <1>17, <1>18, <1>19, <1>20, <1>21 DEF Acts, Step, Quiet
-------------------------------------------------------------------------------
\* What another thread has in its variables stays as it was.
LEMMA ShapeFrame ==
  ASSUME NEW u \in Thread, Same(u), Shape(u), Closed(u)
  PROVE  Shape(u)' /\ Closed(u)'
<1>1. Shape(u)'
  BY DEF Same, Shape, Releasing, MayCreate, Makes
<1>2. Closed(u)'
  BY DEF Same, Closed, Releasing
<1> QED
  BY <1>1, <1>2

\* What another thread knows of its nodes stays true.
LEMMA KnowsFrame ==
  ASSUME TypeOK, Nodes, Apart, NEW t \in Thread, Shape(t), Changes(t),
         NEW u \in Thread, u # t, Same(u), Shape(u), Knows(u)
  PROVE  Knows(u)'
<1>1. (pc[u] \notin {"load", "wait"} /\ cur[u] = Root => ready[Root])'
  BY DEF Same, Knows, Changes
<1>2. (\A k \in 1 .. Len(todo[u]) : todo[u][k] = Root => ready[Root])'
  BY DEF Same, Knows, Changes
<1>3. ASSUME pc[u] = "destroy"
      PROVE  /\ Head(todo[u]) \in stored' \ cached'
             /\ Head(todo[u]) # Root
             /\ \A l \in Links' : l.id # Head(todo[u])
  <2>1. /\ Head(todo[u]) \in stored \ cached /\ Head(todo[u]) # Root
        /\ \A l \in Links : l.id # Head(todo[u])
    BY <1>3 DEF Knows, Named
  <2>2. pc[t] = "destroy" => Head(todo[t]) # Head(todo[u])
    BY <1>3 DEF Apart
  <2>3. Head(todo[u]) \in stored' \ cached'
    BY <2>1, <2>2 DEF Changes
  <2>4. \A l \in Links' : l.id # Head(todo[u])
    <3>1. CASE Links' \subseteq Links
      BY <2>1, <3>1
    <3>2. CASE /\ pc[t] = "add"
               /\ Links' = Links \cup {[dir |-> cur[t], name |-> name[t], id |-> file[t]]}
      <4>1. file[t] \in cached
        BY <3>2, UsedCached, VFSAssumption DEF Shape, NodeId
      <4> QED
        BY <2>1, <3>2, <4>1
    <3> QED
      BY <3>1, <3>2 DEF Changes, Enters
  <2> QED
    BY <2>1, <2>3, <2>4
<1>4. (pc[u] = "destroy" => /\ Head(todo[u]) \in stored \ cached
                            /\ Head(todo[u]) # Root
                            /\ ~Named(Head(todo[u])))'
  BY <1>3 DEF Same, Named
<1>5. (src[u] # None => type[src[u]] = "file")'
  <2>1. src[u] # None => src[u] \in stored
    BY UsedCached DEF Nodes
  <2> QED
    BY <2>1 DEF Same, Knows, Changes
<1>6. (pc[u] = "add" => \/ type[file[u]] = "file"
                        \/ type[file[u]] = "symlink" /\ call[u].op = "symlink"
                        \/ type[file[u]] = "dir" /\ call[u].op = "mkdir")'
  <2>1. pc[u] = "add" => file[u] \in stored
    BY UsedCached, VFSAssumption DEF Nodes, Shape, NodeId
  <2> QED
    BY <2>1 DEF Same, Knows, Changes
<1>7. (pc[u] \in {"load", "wait"} => then[u] = "walk")'
  BY DEF Same, Knows
<1> QED
  BY <1>1, <1>2, <1>4, <1>5, <1>6, <1>7 DEF Knows

\* A call whose path leads over the name that t deletes would be in conflict.
LEMMA DeleteMeetsNobody ==
  ASSUME TypeOK, Apart, NEW t \in Thread, Shape(t), pc[t] = "unlink",
         NEW place \in [NodeId -> Seq(Name)], Stands(t, place),
         NEW u \in Thread, u # t, call[u] # NoCall,
         NEW s, s \in Goal(u) \/ s \in Reach(call[u].path),
         IsPrefix(Append(place[cur[t]], name[t]), s)
  PROVE  FALSE
<1>1. /\ path[t] = <<>> /\ call[t].op = "delete" /\ name[t] \in Name /\ cur[t] \in NodeId
      /\ Append(place[cur[t]], name[t]) \o path[t] \in Goal(t)
  BY DEF Shape, Stands
<1>2. PICK q \in Seq(Name) : q = Append(place[cur[t]], name[t])
  <2>1. place[cur[t]] \in Seq(Name)
    BY <1>1
  <2>2. Append(place[cur[t]], name[t]) \in Seq(Name)
    BY <1>1, <2>1
  <2> QED
    BY <2>2, Zenon
<1>3. q \in Reach(call[t].path)
  <2>1. q \o <<>> = q
    OBVIOUS
  <2>2. q \o <<>> \in Goal(t)
    BY <1>1, <1>2, Zenon
  <2> QED
    BY <1>1, <2>1, <2>2 DEF Goal
<1>4. s \in Reach(call[u].path) \cup Reach(call[u].from)
  BY DEF Goal
<1>5. Conflict(call[t], call[u])
  BY <1>1, <1>2, <1>3, <1>4 DEF Conflict
<1>6. call[t] # NoCall
  BY <1>1 DEF NoCall
<1> QED
  BY <1>5, <1>6 DEF Apart

\* Two calls that make the same name would be in conflict.
LEMMA MakersMeetNot ==
  ASSUME TypeOK, Apart, NEW t \in Thread, Shape(t), pc[t] = "add",
         NEW place \in [NodeId -> Seq(Name)], Stands(t, place),
         NEW u \in Thread, u # t, Shape(u), Stands(u, place), pc[u] \in {"absent", "add"}
  PROVE  ~(cur[u] = cur[t] /\ name[u] = name[t])
<1> SUFFICES ASSUME cur[u] = cur[t], name[u] = name[t]
             PROVE  FALSE
  OBVIOUS
<1>1. /\ path[t] = <<>> /\ Makes(call[t]) /\ name[t] \in Name /\ cur[t] \in NodeId
      /\ Append(place[cur[t]], name[t]) \o path[t] \in Reach(call[t].path)
  BY DEF Shape, Stands
<1>2. PICK q \in Seq(Name) : q = Append(place[cur[t]], name[t])
  <2>1. place[cur[t]] \in Seq(Name)
    BY <1>1
  <2>2. Append(place[cur[t]], name[t]) \in Seq(Name)
    BY <1>1, <2>1
  <2> QED
    BY <2>2, Zenon
<1>3. q \o <<>> \in Reach(call[t].path)
  BY <1>1, <1>2, Zenon
<1>4. path[u] = <<>> /\ Makes(call[u])
  BY DEF Shape, MayCreate
<1>5. q \o <<>> \in Reach(call[u].path)
  <2>1. Append(place[cur[u]], name[u]) \o path[u] \in Reach(call[u].path)
    BY DEF Shape, MayCreate, Stands, Goal
  <2> QED
    BY <1>2, <1>4, <2>1, Zenon
<1>6. Conflict(call[t], call[u])
  BY <1>1, <1>3, <1>4, <1>5 DEF Conflict
<1>7. call[t] # NoCall /\ call[u] # NoCall
  BY <1>1, <1>4 DEF NoCall, Makes
<1> QED
  BY <1>6, <1>7 DEF Apart

\* Where a walk stands: its directory and its name lead to a path it may reach.
LEMMA WayOf ==
  ASSUME NEW s \in Seq(Name), NEW n \in Name, NEW p \in Seq(Name)
  PROVE  /\ IsPrefix(s, s \o p)
         /\ IsPrefix(Append(s, n), Append(s, n) \o p)
         /\ IsPrefix(s, Append(s, n) \o p)
<1>1. Append(s, n) \in Seq(Name) /\ Append(s, n) = s \o <<n>> /\ <<n>> \in Seq(Name)
  OBVIOUS
<1>2. IsPrefix(s, Append(s, n))
  BY <1>1, PrefixConcat
<1> QED
  BY <1>1, <1>2, PrefixConcat, PrefixExtended

\* NoCall is none of the calls of programs.
LEMMA NoCallIsNone == NoCall \notin Call
<1>1. \A c \in Call : c.op \in Op
  BY VFSAssumption
<1>2. NoCall.op = "close"
  BY DEF NoCall
<1> QED
  BY <1>1, <1>2 DEF Op

\* Another thread stands where it stood: t neither removes a name on its way nor
\* makes the name that it is about to make.
LEMMA StandsFrame ==
  ASSUME TypeOK, Nodes, Apart, NEW t \in Thread, Shape(t), Changes(t),
         NEW place \in [NodeId -> Seq(Name)], Places(place), Stands(t, place),
         NEW new \in [NodeId -> Seq(Name)], \A n \in stored : new[n] = place[n],
         NEW u \in Thread, u # t, Same(u), Shape(u), Stands(u, place)
  PROVE  Stands(u, new)'
<1> DEFINE e == [dir |-> cur[t], name |-> name[t], id |-> file[t]]
<1>1. /\ cur[u] # None => cur[u] \in stored
      /\ file[u] # None /\ pc[u] # "next" => file[u] \in stored
  BY UsedCached DEF Nodes
<1>2. Goal(u)' = Goal(u) /\ Point(u)' = Point(u)
  BY DEF Goal, Point, Releasing, Same
<1>3. path[u] \in Seq(Name) /\ None \notin NodeId /\ None \notin Id /\ NoCall \notin Call
  BY VFSAssumption, NoCallIsNone DEF TypeOK, NodeId
<1>4. Enters(t)
  BY DEF Changes
<1>5. ASSUME cur[u] \in NodeId, type[cur[u]] = "dir", Rooted(cur[u]), call[u] # NoCall,
             NEW s, s \in Goal(u) \/ s \in Reach(call[u].path), IsPrefix(place[cur[u]], s)
      PROVE  \A c : c = cur[u] => Rooted(c)'
  <2>1. CASE cur[u] = Root
    BY <2>1 DEF Rooted
  <2>2. CASE cur[u] # Root
    <3>1. PICK m \in Links : m.id = cur[u]
      BY <1>5, <2>2 DEF Rooted, Named
    <3>2. m \in Links'
      <4>1. CASE Links \subseteq Links'
        BY <4>1
      <4>2. CASE pc[t] = "unlink" /\ Links' = Links \ {e}
        <5>1. SUFFICES ASSUME m = e PROVE FALSE
          BY <4>2
        <5>2. m.dir = cur[t] /\ m.name = name[t]
          BY <5>1
        <5>3. place[cur[u]] = Append(place[cur[t]], name[t])
          BY <1>5, <3>1, <5>2 DEF Places
        <5> QED
          BY <1>5, <4>2, <5>3, DeleteMeetsNobody
      <4> QED
        BY <1>4, <4>1, <4>2 DEF Enters
    <3> QED
      BY <3>1, <3>2 DEF Rooted, Named
  <2> QED
    BY <2>1, <2>2
<1>6. (Point(u) = "root" => path[u] \in Goal(u))'
  BY <1>2 DEF Stands, Same
<1>7. (Point(u) \in {"load", "wait", "walk"} =>
         (type[cur[u]] = "dir" => new[cur[u]] \o path[u] \in Goal(u) /\ Rooted(cur[u])))'
  <2>1. SUFFICES ASSUME Point(u) \in {"load", "wait", "walk"}, type'[cur[u]] = "dir"
                 PROVE  new[cur[u]] \o path[u] \in Goal(u) /\ \A c : c = cur[u] => Rooted(c)'
    BY <1>2 DEF Same, Rooted, Named
  <2>2. cur[u] \in NodeId /\ call[u] \in Call
    BY <2>1 DEF Point, Shape, Releasing, NodeId
  <2>3. cur[u] \in stored /\ new[cur[u]] = place[cur[u]] /\ type[cur[u]] = "dir"
    BY <1>1, <1>3, <2>1, <2>2 DEF Changes
  <2>4. place[cur[u]] \o path[u] \in Goal(u) /\ Rooted(cur[u])
    BY <2>1, <2>3 DEF Stands
  <2>5. IsPrefix(place[cur[u]], place[cur[u]] \o path[u])
    BY <1>3, <2>2, PrefixConcat
  <2>6. \A c : c = cur[u] => Rooted(c)'
    BY <1>3, <1>5, <2>2, <2>3, <2>4, <2>5
  <2> QED
    BY <2>3, <2>4, <2>6
<1>8. ASSUME pc[u] \in {"next", "found", "absent", "add", "unlink"}
      PROVE  /\ cur[u] \in NodeId /\ name[u] \in Name /\ call[u] # NoCall
             /\ cur[u] \in stored /\ new[cur[u]] = place[cur[u]] /\ type[cur[u]] = "dir"
             /\ Rooted(cur[u])
             /\ place[cur[u]] \in Seq(Name)
             /\ Append(place[cur[u]], name[u]) \o path[u] \in
                  IF pc[u] = "add" THEN Reach(call[u].path) ELSE Goal(u)
             /\ IsPrefix(place[cur[u]], Append(place[cur[u]], name[u]) \o path[u])
             /\ IsPrefix(Append(place[cur[u]], name[u]), Append(place[cur[u]], name[u]) \o path[u])
  <2>1. cur[u] \in NodeId /\ name[u] \in Name /\ call[u] # NoCall
    BY <1>3, <1>8 DEF Shape, Releasing
  <2>2. cur[u] \in stored /\ new[cur[u]] = place[cur[u]]
    BY <1>1, <1>3, <2>1
  <2>3. /\ type[cur[u]] = "dir" /\ Rooted(cur[u])
        /\ Append(place[cur[u]], name[u]) \o path[u] \in
             IF pc[u] = "add" THEN Reach(call[u].path) ELSE Goal(u)
    BY <1>8 DEF Stands
  <2>4. place[cur[u]] \in Seq(Name)
    BY <2>1
  <2>5. /\ IsPrefix(place[cur[u]], Append(place[cur[u]], name[u]) \o path[u])
        /\ IsPrefix(Append(place[cur[u]], name[u]), Append(place[cur[u]], name[u]) \o path[u])
    BY <1>3, <2>1, <2>4, WayOf
  <2> QED
    BY <2>1, <2>2, <2>3, <2>4, <2>5
<1>9. (pc[u] \in {"next", "found", "unlink"} => Linked(cur[u], name[u], file[u]))'
  <2>1. SUFFICES ASSUME pc[u] \in {"next", "found", "unlink"}
                 PROVE  [dir |-> cur[u], name |-> name[u], id |-> file[u]] \in Links'
    BY DEF Same, Linked
  <2>2. PICK m \in Links : m = [dir |-> cur[u], name |-> name[u], id |-> file[u]]
    BY <2>1 DEF Stands, Linked
  <2>3. CASE Links \subseteq Links'
    BY <2>2, <2>3
  <2>4. CASE pc[t] = "unlink" /\ Links' = Links \ {e}
    <3>1. SUFFICES ASSUME m = e PROVE FALSE
      BY <2>2, <2>4
    <3>2. cur[u] = cur[t] /\ name[u] = name[t]
      BY <2>2, <3>1
    <3>3. /\ call[u] # NoCall
          /\ Append(place[cur[u]], name[u]) \o path[u] \in Goal(u)
          /\ IsPrefix(Append(place[cur[u]], name[u]), Append(place[cur[u]], name[u]) \o path[u])
      BY <1>8, <2>1
    <3> QED
      BY <2>4, <3>2, <3>3, DeleteMeetsNobody
  <2> QED
    BY <1>4, <2>3, <2>4 DEF Enters
<1>10. (pc[u] \in {"absent", "add"} => \A l \in Links : ~(l.dir = cur[u] /\ l.name = name[u]))'
  <2>1. SUFFICES ASSUME pc[u] \in {"absent", "add"}
                 PROVE  \A l \in Links' : ~(l.dir = cur[u] /\ l.name = name[u])
    BY DEF Same
  <2>2. \A l \in Links : ~(l.dir = cur[u] /\ l.name = name[u])
    BY <2>1 DEF Stands
  <2>3. CASE Links' \subseteq Links
    BY <2>2, <2>3
  <2>4. CASE pc[t] = "add" /\ Links' = Links \cup {e}
    <3>1. ~(cur[u] = cur[t] /\ name[u] = name[t])
      BY <2>1, <2>4, MakersMeetNot
    <3> QED
      BY <2>2, <2>4, <3>1
  <2> QED
    BY <1>4, <2>3, <2>4 DEF Enters
<1>11. (pc[u] \in {"next", "found", "absent", "add", "unlink"} =>
          /\ type[cur[u]] = "dir" /\ Rooted(cur[u])
          /\ Append(new[cur[u]], name[u]) \o path[u] \in
               IF pc[u] = "add" THEN Reach(call[u].path) ELSE Goal(u))'
  <2>1. SUFFICES ASSUME pc[u] \in {"next", "found", "absent", "add", "unlink"}
                 PROVE  /\ type'[cur[u]] = "dir" /\ \A c : c = cur[u] => Rooted(c)'
                        /\ Append(new[cur[u]], name[u]) \o path[u] \in
                             IF pc[u] = "add" THEN Reach(call[u].path) ELSE Goal(u)
    BY <1>2 DEF Same, Rooted, Named
  <2>2. type'[cur[u]] = "dir"
    BY <1>8, <2>1 DEF Changes
  <2>3. \A c : c = cur[u] => Rooted(c)'
    <3>1. PICK s : s = Append(place[cur[u]], name[u]) \o path[u]
      OBVIOUS
    <3>2. s \in Goal(u) \/ s \in Reach(call[u].path)
      BY <1>8, <2>1, <3>1, Zenon
    <3>3. IsPrefix(place[cur[u]], s) /\ cur[u] \in NodeId /\ type[cur[u]] = "dir" /\ Rooted(cur[u])
            /\ call[u] # NoCall
      BY <1>8, <2>1, <3>1, Zenon
    <3> QED
      BY <1>5, <3>2, <3>3
  <2>4. Append(new[cur[u]], name[u]) \o path[u] \in
          IF pc[u] = "add" THEN Reach(call[u].path) ELSE Goal(u)
    BY <1>8, <2>1, Zenon
  <2> QED
    BY <2>2, <2>3, <2>4, Zenon
<1>12. (pc[u] = "add" /\ type[file[u]] = "dir" => new[file[u]] = Append(new[cur[u]], name[u]))'
  <2>1. SUFFICES ASSUME pc[u] = "add", type'[file[u]] = "dir"
                 PROVE  new[file[u]] = Append(new[cur[u]], name[u])
    BY DEF Same
  <2>2. file[u] \in stored
    BY <1>1, <1>3, <2>1 DEF Shape
  <2>3. type[file[u]] = "dir" /\ new[file[u]] = place[file[u]]
    BY <2>1, <2>2 DEF Changes
  <2>4. place[file[u]] = Append(place[cur[u]], name[u])
    BY <2>1, <2>3 DEF Stands
  <2>5. new[cur[u]] = place[cur[u]]
    BY <1>8, <2>1
  <2> QED
    BY <2>3, <2>4, <2>5, Zenon
<1>13. (pc[u] = "unlink" /\ type[file[u]] = "dir" => \A l \in Links : l.dir # file[u])'
  <2>1. SUFFICES ASSUME pc[u] = "unlink", type'[file[u]] = "dir"
                 PROVE  \A l \in Links' : l.dir # file[u]
    BY DEF Same
  <2>2. file[u] \in stored
    BY <1>1, <1>3, <2>1 DEF Shape
  <2>3. type[file[u]] = "dir" /\ \A l \in Links : l.dir # file[u]
    BY <2>1, <2>2 DEF Changes, Stands
  <2>4. CASE Links' \subseteq Links
    BY <2>3, <2>4
  <2>5. CASE pc[t] = "add" /\ Links' = Links \cup {e}
    <3>1. SUFFICES ASSUME cur[t] = file[u] PROVE FALSE
      BY <2>3, <2>5
    <3>2. PICK m \in Links : m = [dir |-> cur[u], name |-> name[u], id |-> file[u]]
      BY <2>1 DEF Stands, Linked
    <3>3. place[cur[t]] = Append(place[cur[u]], name[u])
      BY <2>3, <3>1, <3>2 DEF Places
    <3>4. cur[t] \in NodeId /\ name[t] \in Name /\ call[t] # NoCall /\ path[t] \in Seq(Name)
      BY <1>3, <2>5 DEF Shape, Releasing, TypeOK
    <3>5. PICK s : s = Append(place[cur[t]], name[t]) \o path[t]
      OBVIOUS
    <3>6. s \in Reach(call[t].path)
      BY <2>5, <3>5 DEF Stands
    <3>7. place[cur[t]] \in Seq(Name)
      BY <3>4
    <3>8. IsPrefix(place[cur[t]], s)
      BY <3>4, <3>5, <3>7, WayOf
    <3>9. IsPrefix(Append(place[cur[u]], name[u]), s)
      BY <3>3, <3>8, Zenon
    <3> QED
      BY <2>1, <3>4, <3>6, <3>9, DeleteMeetsNobody
  <2> QED
    BY <1>4, <2>4, <2>5 DEF Enters
<1> QED
  BY <1>6, <1>7, <1>9, <1>10, <1>11, <1>12, <1>13 DEF Stands
-------------------------------------------------------------------------------
\* Only AcquireRoot takes a reference of the root.
LEMMA RootTaken ==
  ASSUME TypeOK, Nodes, Entries, NEW t \in Thread, Shape(t), Knows(t),
         NEW place, Stands(t, place), Acts(t), ~AcquireRoot(t)
  PROVE  refCount'[Root] <= refCount[Root]
<1> USE DEF Set
<1>0. Root \in NodeId /\ Root \notin Id /\ refCount \in [NodeId -> Nat] /\ refCount[Root] \in Nat
  BY VFSAssumption DEF NodeId, TypeOK
<1>1. CASE Quiet(t)
  BY <1>0, <1>1, QuietStep
<1>2. CASE AcquireNext(t)
  <2>1. file[t] \in Id /\ file[t] \in cached
    BY <1>2, FoundThere DEF AcquireNext, Shape
  <2> QED
    BY <1>0, <1>2, <2>1 DEF AcquireNext, AcquireNode
<1>3. CASE ReadNode(t) \/ LinkInc(t) \/ LinkDec(t)
  BY <1>0, <1>3 DEF ReadNode, LinkInc, LinkDec
<1>4. CASE (\E i \in Id : CreateNode(t, i))
  BY <1>0, <1>4 DEF CreateNode
<1>5. CASE AddEntry(t) \/ Unlink(t) \/ DestroyNode(t)
  BY <1>0, <1>5 DEF AddEntry, Unlink, DestroyNode, nodeVars
<1>6. CASE ReleaseNode(t)
  <2>1. refCount' = [refCount EXCEPT ![Head(todo[t])] = refCount[Head(todo[t])] - 1]
    BY <1>6 DEF ReleaseNode
  <2> QED
    BY <1>0, <2>1
<1> QED
  BY <1>1, <1>2, <1>3, <1>4, <1>5, <1>6 DEF Acts, Step, Quiet

\* A thread that holds the root and does not wait for it finds it ready.
LEMMA RootReady ==
  ASSUME TypeOK, Nodes, NEW t \in Thread, Shape(t), Knows(t),
         pc[t] \notin {"load", "wait"}, Held(t, Root) >= 1
  PROVE  ready[Root]
<1>1. file[t] # Root /\ src[t] # Root /\ opened[t] # Root
  BY VFSAssumption DEF TypeOK, NodeId
<1>2. cur[t] = Root \/ Owes(t, 1, Root) \/ Owes(t, 2, Root) \/ Owes(t, 3, Root)
  BY <1>1 DEF Held, One
<1>3. ASSUME NEW k \in 1 .. 3, Owes(t, k, Root) PROVE ready[Root]
  <2>1. k <= Len(todo[t]) /\ todo[t][k] = Root /\ Len(todo[t]) \in Nat
    BY <1>3 DEF Owes, TypeOK
  <2>2. k \in 1 .. Len(todo[t])
    BY <2>1
  <2> QED
    BY <2>1, <2>2 DEF Knows
<1>4. 1 \in 1 .. 3 /\ 2 \in 1 .. 3 /\ 3 \in 1 .. 3
  OBVIOUS
<1> QED
  BY <1>2, <1>3, <1>4 DEF Knows

\* What t still holds of the root after a step is ready.
LEMMA RootReadyStep ==
  ASSUME TypeOK, Nodes, Entries, NEW t \in Thread, Shape(t), Closed(t), Knows(t),
         NEW place, Stands(t, place), Acts(t),
         pc'[t] \notin {"load", "wait"}, Held(t, Root)' >= 1
  PROVE  ready'[Root]
<1>0. Root \in NodeId /\ refCount \in [NodeId -> Nat] /\ refCount[Root] \in Nat
  BY DEF NodeId, TypeOK
<1>1. Changes(t)
  BY CacheStep
<1>2. CASE AcquireRoot(t)
  <2>1. Root \in cached /\ ready[Root]
    BY <1>2 DEF AcquireRoot, AcquireNode, Set, TypeOK
  <2> QED
    BY <1>1, <2>1 DEF Changes
<1>3. CASE ~AcquireRoot(t)
  <2>1. refCount'[Root] = refCount[Root] + Held(t, Root)' - Held(t, Root)
    BY <1>0, FoundThere, NodesBacked, HeldStep
  <2>2. refCount'[Root] <= refCount[Root]
    BY <1>3, RootTaken
  <2>3. Held(t, Root) \in Nat
    BY HeldCounted
  <2>4. Held(t, Root)' \in Int
    BY DEF Held, One
  <2>5. Held(t, Root) >= 1
    BY <1>0, <2>1, <2>2, <2>3, <2>4
  <2>6. CASE pc[t] \notin {"load", "wait"}
    BY <1>1, <2>5, <2>6, RootReady DEF Changes
  <2>7. CASE pc[t] \in {"load", "wait"}
    <3>1. Wanted(t) = Root
      BY <2>7 DEF Wanted, Shape, Knows
    <3>2. ReadNode(t) \/ NodeReady(t)
      BY <2>7 DEF Acts, Step, AcquireRoot, AcquireNext, Walk, WalkFails, Descend, FollowLink, Stat,
           Open, Exists, LinkFrom, CreateNode, LinkInc, Denied, AddEntry, DeleteCheck, Unlink,
           LinkDec, ReleaseNode, DestroyNode, Close, Begin, Resolved
    <3>3. CASE ReadNode(t)
      BY <1>0, <3>1, <3>3 DEF ReadNode, Set, TypeOK
    <3>4. CASE NodeReady(t)
      BY <1>1, <3>1, <3>4 DEF NodeReady, Changes
    <3> QED
      BY <3>2, <3>3, <3>4
  <2> QED
    BY <2>6, <2>7
<1> QED
  BY <1>2, <1>3

\* Held nodes, after a step.
LEMMA HeldNext ==
  ASSUME NEW t \in Thread, NEW n
  PROVE  /\ cur'[t] = n => Held(t, n)' >= 1
         /\ \A k \in 1 .. 3 : Owes(t, k, n)' => Held(t, n)' >= 1
<1>1. ASSUME cur'[t] = n PROVE Held(t, n)' >= 1
  BY <1>1 DEF Held, One
<1>2. ASSUME Owes(t, 1, n)' PROVE Held(t, n)' >= 1
  BY <1>2 DEF Held, One
<1>3. ASSUME Owes(t, 2, n)' PROVE Held(t, n)' >= 1
  BY <1>3 DEF Held, One
<1>4. ASSUME Owes(t, 3, n)' PROVE Held(t, n)' >= 1
  BY <1>4 DEF Held, One
<1>5. ASSUME NEW k \in 1 .. 3, Owes(t, k, n)' PROVE Held(t, n)' >= 1
  <2>1. k = 1 \/ k = 2 \/ k = 3
    OBVIOUS
  <2> QED
    BY <1>2, <1>3, <1>4, <1>5, <2>1
<1> QED
  BY <1>1, <1>5

\* ReleaseNode is what leads to DestroyNode.
LEMMA DestroyBegins ==
  ASSUME TypeOK, NEW t \in Thread, Shape(t), Acts(t), pc'[t] = "destroy"
  PROVE  /\ ReleaseNode(t) /\ LastReference(Head(todo[t]))
         /\ todo' = todo /\ cached' = cached \ {Head(todo[t])} /\ pc[t] = "release"
<1> USE DEF Set, TypeOK
<1>1. ~Quiet(t)
  BY QuietStep
<1>2. ~AcquireRoot(t)
  BY DEF AcquireRoot, AcquireNode
<1>3. ~AcquireNext(t)
  BY DEF AcquireNext, AcquireNode
<1>4. ~ReadNode(t)
  BY DEF ReadNode
<1>5. ~\E i \in Id : CreateNode(t, i)
  BY DEF CreateNode
<1>6. ~LinkInc(t) /\ ~LinkDec(t)
  BY DEF LinkInc, LinkDec, Release
<1>7. ~AddEntry(t)
  BY DEF AddEntry, Release
<1>8. ~Unlink(t)
  BY DEF Unlink
<1>9. ~DestroyNode(t)
  BY DEF DestroyNode, Done
<1>10. ReleaseNode(t)
  BY <1>1, <1>2, <1>3, <1>4, <1>5, <1>6, <1>7, <1>8, <1>9 DEF Acts, Step, Quiet
<1>11. LastReference(Head(todo[t]))
  BY <1>10 DEF ReleaseNode, Done
<1> QED
  BY <1>10, <1>11 DEF ReleaseNode

\* Nodes that t comes to know.
LEMMA KnowsStep ==
  ASSUME TypeOK, Nodes, Entries, Counted, NEW t \in Thread, Shape(t), Closed(t), Knows(t),
         NEW place, Stands(t, place), Acts(t)
  PROVE  Knows(t)'
<1>0. /\ Changes(t) /\ TypeOK' /\ Shape(t)'
      /\ Root \in NodeId /\ None \notin NodeId /\ Root \notin Id
  BY CacheStep, NodesBacked, TypeStep, ShapeStep, VFSAssumption DEF NodeId
<1>1. (pc[t] \notin {"load", "wait"} /\ cur[t] = Root => ready[Root])'
  BY HeldNext, RootReadyStep
<1>2. ASSUME pc'[t] = "destroy"
      PROVE  /\ ReleaseNode(t) /\ LastReference(Head(todo[t]))
             /\ todo' = todo /\ cached' = cached \ {Head(todo[t])} /\ pc[t] = "release"
  BY <1>2, DestroyBegins
<1>3. (pc[t] = "destroy" => /\ Head(todo[t]) \in stored \ cached
                            /\ Head(todo[t]) # Root
                            /\ ~Named(Head(todo[t])))'
  <2>1. SUFFICES ASSUME pc'[t] = "destroy"
                 PROVE  /\ Head(todo[t]) \in stored' \ cached' /\ Head(todo[t]) # Root
                        /\ \A l \in Links' : l.id # Head(todo[t])
    BY <1>2 DEF Named
  <2>2. Head(todo[t]) # Root
    BY <1>2, <2>1, LastIsNotRoot
  <2>3. Head(todo[t]) \in cached /\ Head(todo[t]) \in stored
    BY <1>2, <2>1, HeadHeld DEF Releasing
  <2>4. ~Named(Head(todo[t]))
    BY <1>2, <2>1, <2>2, <2>3, LastUnnamed
  <2>5. Links' = Links /\ Head(todo[t]) \in stored'
    BY <1>0, <1>2, <2>1, <2>3 DEF Changes, Enters
  <2> QED
    BY <1>2, <2>1, <2>2, <2>4, <2>5 DEF Named
<1>4. (\A k \in 1 .. Len(todo[t]) : todo[t][k] = Root => ready[Root])'
  <2>1. SUFFICES ASSUME NEW k \in 1 .. Len(todo'[t]), todo'[t][k] = Root PROVE ready'[Root]
    OBVIOUS
  <2>2. /\ Releasing(t)' /\ Len(todo'[t]) \in 1 .. 3 /\ todo'[t] \in Seq(NodeId)
    BY <1>0, <2>1 DEF Shape, TypeOK
  <2>3. k \in 1 .. 3 /\ k <= Len(todo'[t])
    <3>1. \A m \in 1 .. 3 : \A j \in 1 .. m : j \in 1 .. 3 /\ j <= m
      OBVIOUS
    <3> QED
      BY <2>1, <2>2, <3>1, Zenon
  <2>4. pc'[t] = "destroy" => k # 1
    BY <1>3, <2>1, <2>2
  <2>5. Owes(t, k, Root)'
    BY <2>1, <2>3, <2>4 DEF Owes
  <2>6. Held(t, Root)' >= 1
    BY <2>3, <2>5, HeldNext
  <2>7. pc'[t] \notin {"load", "wait"}
    BY <2>2 DEF Releasing
  <2> QED
    BY <2>6, <2>7, RootReadyStep
<1>5. (src[t] # None => type[src[t]] = "file")'
  <2>1. CASE src'[t] = None
    BY <2>1
  <2>2. CASE src'[t] = src[t]
    <3>1. src[t] # None => src[t] \in stored
      BY UsedCached DEF Nodes
    <3> QED
      BY <1>0, <2>2, <3>1 DEF Changes, Knows
  <2>3. CASE LinkFrom(t)
    <3>1. src'[t] = file[t] /\ type' = type /\ file[t] \in Id /\ type[file[t]] = "file"
      BY <2>3, VFSAssumption
         DEF LinkFrom, Resolved, KeepsLink, Set, TypeOK, Shape, fsVars, NodeId
    <3> QED
      BY <3>1
  <2>4. src'[t] = None \/ src'[t] = src[t] \/ LinkFrom(t)
    <3> USE DEF Set, TypeOK, callVars
    <3>1. CASE AcquireRoot(t)
      BY <3>1 DEF AcquireRoot, AcquireNode
    <3>2. CASE AcquireNext(t)
      BY <3>2 DEF AcquireNext, AcquireNode
    <3>3. CASE ReadNode(t)
      BY <3>3 DEF ReadNode
    <3>4. CASE NodeReady(t)
      BY <3>4 DEF NodeReady
    <3>5. CASE Walk(t)
      BY <3>5 DEF Walk
    <3>6. CASE WalkFails(t)
      BY <3>6 DEF WalkFails, Return, Release
    <3>7. CASE Descend(t)
      BY <3>7 DEF Descend, Release
    <3>8. CASE FollowLink(t)
      BY <3>8 DEF FollowLink, Return, Release
    <3>9. CASE Stat(t)
      BY <3>9 DEF Stat, Return, Release
    <3>10. CASE Open(t)
      BY <3>10 DEF Open, Return, Release
    <3>11. CASE Exists(t)
      BY <3>11 DEF Exists, Return, Release
    <3>12. CASE (\E i \in Id : CreateNode(t, i))
      BY <3>12 DEF CreateNode
    <3>13. CASE LinkInc(t)
      BY <3>13 DEF LinkInc
    <3>14. CASE Denied(t)
      BY <3>14 DEF Denied, Return, Release
    <3>15. CASE AddEntry(t)
      BY <3>15 DEF AddEntry, Release
    <3>16. CASE DeleteCheck(t)
      BY <3>16 DEF DeleteCheck, Return, Release
    <3>17. CASE Unlink(t)
      BY <3>17 DEF Unlink
    <3>18. CASE LinkDec(t)
      BY <3>18 DEF LinkDec, Release
    <3>19. CASE ReleaseNode(t)
      BY <3>19 DEF ReleaseNode, Done
    <3>20. CASE DestroyNode(t)
      BY <3>20 DEF DestroyNode, Done
    <3>21. CASE Close(t)
      BY <3>21 DEF Close, Release
    <3>22. CASE (\E c \in Call : Begin(t, c))
      BY <3>22 DEF Begin
    <3> QED
      BY <3>1, <3>2, <3>3, <3>4, <3>5, <3>6, <3>7, <3>8, <3>9, <3>10, <3>11, <3>12, <3>13, <3>14, <3>15, <3>16, <3>17, <3>18, <3>19, <3>20, <3>21, <3>22 DEF Acts, Step
  <2> QED
    BY <2>1, <2>2, <2>3, <2>4
<1>6. (pc[t] = "add" => \/ type[file[t]] = "file"
                        \/ type[file[t]] = "symlink" /\ call[t].op = "symlink"
                        \/ type[file[t]] = "dir" /\ call[t].op = "mkdir")'
  <2>1. SUFFICES ASSUME pc'[t] = "add"
                 PROVE  (\/ type[file[t]] = "file"
                         \/ type[file[t]] = "symlink" /\ call[t].op = "symlink"
                         \/ type[file[t]] = "dir" /\ call[t].op = "mkdir")'
    OBVIOUS
  <2>2. CASE (\E i \in Id : CreateNode(t, i))
    <3>1. PICK i \in Id : CreateNode(t, i)
      BY <2>2
    <3>2. /\ file'[t] = i /\ call'[t] = call[t] /\ i \in NodeId
          /\ type' = [type EXCEPT ![i] = CASE call[t].op = "mkdir"   -> "dir"
                                           [] call[t].op = "symlink" -> "symlink"
                                           [] OTHER                  -> "file"]
      BY <3>1 DEF CreateNode, Set, TypeOK, NodeId
    <3> QED
      BY <3>2 DEF TypeOK
  <2>3. CASE LinkInc(t)
    <3>1. src[t] # None /\ file'[t] = src[t] /\ type' = type
      BY <2>3 DEF LinkInc, Shape, MayCreate, Set, TypeOK, fsVars
    <3> QED
      BY <3>1 DEF Knows
  <2>4. (\E i \in Id : CreateNode(t, i)) \/ LinkInc(t)
    <3> USE DEF Set, TypeOK
    <3>1. ~Quiet(t)
      BY <2>1, QuietStep
    <3>2. ~AcquireRoot(t)
      BY <2>1 DEF AcquireRoot, AcquireNode
    <3>3. ~AcquireNext(t)
      BY <2>1 DEF AcquireNext, AcquireNode
    <3>4. ~ReadNode(t)
      BY <2>1 DEF ReadNode, Shape
    <3>5. ~LinkDec(t)
      BY <2>1 DEF LinkDec, Release
    <3>6. ~AddEntry(t)
      BY <2>1 DEF AddEntry, Release
    <3>7. ~Unlink(t)
      BY <2>1 DEF Unlink
    <3>8. ~DestroyNode(t)
      BY <2>1 DEF DestroyNode, Done
    <3>9. ~ReleaseNode(t)
      BY <2>1 DEF ReleaseNode, Done
    <3> QED
      BY <3>1, <3>2, <3>3, <3>4, <3>5, <3>6, <3>7, <3>8, <3>9 DEF Acts, Step, Quiet
  <2> QED
    BY <2>2, <2>3, <2>4
<1>7. (pc[t] \in {"load", "wait"} => then[t] = "walk")'
  <2> SUFFICES ASSUME pc'[t] \in {"load", "wait"} PROVE then'[t] = "walk"
    OBVIOUS
  <2> USE DEF Set, TypeOK
  <2>1. CASE AcquireRoot(t)
    BY <2>1 DEF AcquireRoot, AcquireNode
  <2>2. CASE AcquireNext(t)
    <3>1. file[t] \in cached /\ ready[file[t]]
      BY <2>2, FoundThere DEF AcquireNext
    <3> QED
      BY <2>2, <3>1 DEF AcquireNext, AcquireNode
  <2>3. CASE ReadNode(t) \/ NodeReady(t)
    BY <2>3 DEF ReadNode, NodeReady, Shape
  <2>4. CASE ReleaseNode(t) \/ DestroyNode(t)
    BY <2>4 DEF ReleaseNode, DestroyNode, Done, Shape, Releasing
  <2>5. CASE Walk(t) \/ WalkFails(t) \/ Descend(t) \/ FollowLink(t) \/ Stat(t) \/ Open(t)
    BY <2>5 DEF Walk, WalkFails, Descend, FollowLink, Stat, Open, Return, Release
  <2>6. CASE \/ Exists(t) \/ LinkFrom(t) \/ (\E i \in Id : CreateNode(t, i)) \/ LinkInc(t)
             \/ Denied(t)
    BY <2>6 DEF Exists, LinkFrom, CreateNode, LinkInc, Denied, Return, Release
  <2>7. CASE AddEntry(t) \/ DeleteCheck(t) \/ Unlink(t) \/ LinkDec(t)
    BY <2>7 DEF AddEntry, DeleteCheck, Unlink, LinkDec, Return, Release
  <2>8. CASE Close(t) \/ \E c \in Call : Begin(t, c)
    BY <2>8 DEF Close, Begin, Release
  <2> QED
    BY <2>1, <2>2, <2>3, <2>4, <2>5, <2>6, <2>7, <2>8, Zenon DEF Acts, Step
<1> QED
  BY <1>1, <1>3, <1>4, <1>5, <1>6, <1>7 DEF Knows
-------------------------------------------------------------------------------
\* The four kinds of points that a step may lead to: outside a walk, at the root,
\* at a node, and at a name.
LEMMA AtRest ==
  ASSUME NEW t \in Thread, NEW new,
         Point(t)' \notin {"root", "load", "wait", "walk"},
         pc'[t] \notin {"next", "found", "absent", "add", "unlink"}
  PROVE  Stands(t, new)'
BY DEF Stands

\* A walk that starts at the root has its whole path before it.
LEMMA AtRoot ==
  ASSUME NEW t \in Thread, NEW new, Point(t)' = "root", path'[t] \in Goal(t)'
  PROVE  Stands(t, new)'
<1>1. pc'[t] \in {"root", "release", "destroy"}
  BY DEF Point, Releasing
<1> QED
  BY <1>1 DEF Stands

\* A walk at a directory has the rest of its path before it.
LEMMA AtNode ==
  ASSUME NEW t \in Thread, NEW new, Point(t)' \in {"load", "wait", "walk"},
         NEW c, c = cur'[t],
         type'[c] = "dir" => new[c] \o path'[t] \in Goal(t)' /\ Rooted(c)'
  PROVE  Stands(t, new)'
<1>1. pc'[t] \in {"load", "wait", "walk", "release", "destroy"}
  BY DEF Point, Releasing
<1>2. (Point(t) \in {"load", "wait", "walk"} =>
         (type[cur[t]] = "dir" => new[cur[t]] \o path[t] \in Goal(t) /\ Rooted(cur[t])))'
  BY DEF Rooted, Named
<1>3. (Point(t) = "root" => path[t] \in Goal(t))'
  OBVIOUS
<1> QED
  BY <1>1, <1>2, <1>3 DEF Stands

\* What holds at a name: c, n and f are the node, the name and the node behind it.
Here(t, new, c, n, f) ==
  /\ pc'[t] \in {"next", "found", "absent", "add", "unlink"}
  /\ c = cur'[t] /\ n = name'[t] /\ f = file'[t]
  /\ type'[c] = "dir" /\ Rooted(c)'
  /\ Append(new[c], n) \o path'[t] \in
       IF pc'[t] = "add" THEN Reach(call'[t].path) ELSE Goal(t)'
  /\ pc'[t] \in {"next", "found", "unlink"} => [dir |-> c, name |-> n, id |-> f] \in Links'
  /\ pc'[t] \in {"absent", "add"} => \A l \in Links' : ~(l.dir = c /\ l.name = n)
  /\ pc'[t] = "add" /\ type'[f] = "dir" => new[f] = Append(new[c], n)
  /\ pc'[t] = "unlink" /\ type'[f] = "dir" => \A l \in Links' : l.dir # f

\* A call that has looked a name up stands at that name.
LEMMA AtName ==
  ASSUME NEW t \in Thread, NEW new, NEW c, NEW n, NEW f, Here(t, new, c, n, f)
  PROVE  Stands(t, new)'
<1> USE DEF Here
<1>1. Point(t)' = pc'[t]
  BY DEF Point, Releasing
<1>2. (pc[t] \in {"next", "found", "unlink"} => Linked(cur[t], name[t], file[t]))'
  BY DEF Linked
<1>3. (pc[t] \in {"absent", "add"} => \A l \in Links : ~(l.dir = cur[t] /\ l.name = name[t]))'
  OBVIOUS
<1>4. (pc[t] \in {"next", "found", "absent", "add", "unlink"} =>
         /\ type[cur[t]] = "dir" /\ Rooted(cur[t])
         /\ Append(new[cur[t]], name[t]) \o path[t] \in
              IF pc[t] = "add" THEN Reach(call[t].path) ELSE Goal(t))'
  BY DEF Rooted, Named
<1>5. (pc[t] = "add" /\ type[file[t]] = "dir" => new[file[t]] = Append(new[cur[t]], name[t]))'
  OBVIOUS
<1>6. (pc[t] = "unlink" /\ type[file[t]] = "dir" => \A l \in Links : l.dir # file[t])'
  OBVIOUS
<1>7. (Point(t) = "root" => path[t] \in Goal(t))'
  BY <1>1
<1>8. (Point(t) \in {"load", "wait", "walk"} =>
         (type[cur[t]] = "dir" => new[cur[t]] \o path[t] \in Goal(t) /\ Rooted(cur[t])))'
  BY <1>1
<1> QED
  BY <1>2, <1>3, <1>4, <1>5, <1>6, <1>7, <1>8 DEF Stands

\* Reading the directory: what Walk finds or misses.
LEMMA WalkFinds ==
  ASSUME TypeOK, NEW c \in stored, NEW n
  PROVE  /\ Find(c, n) # 0 => [dir |-> c, name |-> n, id |-> dir[c][Find(c, n)].id] \in Links
         /\ Find(c, n) = 0 => \A l \in Links : ~(l.dir = c /\ l.name = n)
<1>1. dir[c] \in Seq(DirEntry)
  BY DEF TypeOK, DirEntry
<1>2. ASSUME Find(c, n) # 0
      PROVE  [dir |-> c, name |-> n, id |-> dir[c][Find(c, n)].id] \in Links
  <2>1. PICK k \in 1 .. Len(dir[c]) : k = Find(c, n) /\ dir[c][k].name = n
    BY <1>1, <1>2, FindFacts
  <2>2. [dir |-> c, name |-> dir[c][k].name, id |-> dir[c][k].id] \in Links
    BY LinksAre DEF Linked
  <2> QED
    BY <2>1, <2>2
<1>3. ASSUME Find(c, n) = 0, NEW l \in Links, l.dir = c, l.name = n PROVE FALSE
  <2>1. PICK k \in 1 .. Len(dir[c]) : dir[c][k].name = n
    BY <1>3, LinksAre
  <2>2. 0 \notin 1 .. Len(dir[c])
    OBVIOUS
  <2>3. \A j \in 1 .. Len(dir[c]) : dir[c][j].name # n
    BY <1>1, <1>3, <2>2, FindFacts
  <2> QED
    BY <2>1, <2>3
<1> QED
  BY <1>2, <1>3

\* The paths of t change only when the call or its source does.
LEMMA GoalSame ==
  ASSUME NEW t \in Thread, call'[t] = call[t], src'[t] = src[t]
  PROVE  Goal(t)' = Goal(t)
BY DEF Goal

\* A directory keeps its way to the root while no entry is removed.
LEMMA RootedKept ==
  ASSUME Links \subseteq Links', NEW c, Rooted(c)
  PROVE  Rooted(c)'
BY DEF Rooted, Named

\* Where t stands after its own step.
LEMMA StandsStep ==
  ASSUME TypeOK, Nodes, Entries, NEW t \in Thread, Shape(t), Knows(t),
         NEW place \in [NodeId -> Seq(Name)], Places(place), Stands(t, place),
         NEW new \in [NodeId -> Seq(Name)], \A n \in stored : new[n] = place[n],
         \A i \in Id : CreateNode(t, i) => new[i] = Append(place[cur[t]], name[t]),
         Acts(t)
  PROVE  Stands(t, new)'
<1> USE DEF Set, Releasing
<1>0. /\ Root \in NodeId /\ None \notin NodeId /\ None \notin Id /\ Root \in stored
      /\ stored \subseteq NodeId /\ path[t] \in Seq(Name)
  BY VFSAssumption DEF NodeId, Nodes, TypeOK
<1>1. Changes(t)
  BY CacheStep
<1>2. pc[t] \notin {"add", "unlink"} => Links' = Links
  BY <1>1 DEF Changes, Enters
<1>3. /\ cur[t] # None => cur[t] \in stored
      /\ file[t] # None /\ pc[t] # "next" => file[t] \in stored
      /\ src[t] # None => src[t] \in stored
  BY UsedCached DEF Nodes
<1>4. \A n \in stored : type'[n] = type[n]
  BY <1>1 DEF Changes
<1>5. ASSUME pc[t] \in {"next", "found", "absent", "add", "unlink"}
      PROVE  /\ cur[t] \in stored /\ name[t] \in Name
             /\ new[cur[t]] = place[cur[t]] /\ type[cur[t]] = "dir" /\ type'[cur[t]] = "dir"
             /\ Rooted(cur[t]) /\ place[cur[t]] \in Seq(Name)
             /\ Append(place[cur[t]], name[t]) \o path[t] \in
                  IF pc[t] = "add" THEN Reach(call[t].path) ELSE Goal(t)
  <2>1. cur[t] \in stored /\ name[t] \in Name
    BY <1>0, <1>3, <1>5 DEF Shape
  <2>2. /\ type[cur[t]] = "dir" /\ Rooted(cur[t])
        /\ Append(place[cur[t]], name[t]) \o path[t] \in
             IF pc[t] = "add" THEN Reach(call[t].path) ELSE Goal(t)
    BY <1>5 DEF Stands
  <2>3. new[cur[t]] = place[cur[t]] /\ type'[cur[t]] = "dir" /\ place[cur[t]] \in Seq(Name)
    BY <1>0, <1>4, <2>1, <2>2
  <2> QED
    BY <2>1, <2>2, <2>3
<1>11. CASE AcquireRoot(t)
  <2>1. /\ pc[t] = "root" /\ pc'[t] \in {"walk", "wait", "load"} /\ cur'[t] = Root
        /\ path'[t] = path[t] /\ call'[t] = call[t] /\ src'[t] = src[t]
    BY <1>11 DEF AcquireRoot, AcquireNode, TypeOK
  <2>2. Point(t) = "root" /\ Point(t)' = pc'[t]
    BY <2>1 DEF Point
  <2>3. path[t] \in Goal(t) /\ Goal(t)' = Goal(t)
    BY <2>1, <2>2, GoalSame DEF Stands
  <2>4. new[Root] = <<>> /\ Rooted(Root)'
    BY <1>0 DEF Places, Rooted
  <2>5. <<>> \o path[t] = path[t]
    BY <1>0
  <2>6. new[Root] \o path'[t] \in Goal(t)'
    BY <2>1, <2>3, <2>4, <2>5, Zenon
  <2>7. PICK c : c = Root
    OBVIOUS
  <2>8. c = cur'[t] /\ (type'[c] = "dir" => new[c] \o path'[t] \in Goal(t)' /\ Rooted(c)')
    BY <2>1, <2>4, <2>6, <2>7
  <2> QED
    BY <2>1, <2>2, <2>8, AtNode
<1>12. CASE ReadNode(t) \/ NodeReady(t)
  <2>1. /\ pc[t] \in {"load", "wait"} /\ pc'[t] = "walk" /\ cur'[t] = Root /\ cur[t] = Root
        /\ path'[t] = path[t] /\ call'[t] = call[t] /\ src'[t] = src[t]
    BY <1>12 DEF ReadNode, NodeReady, TypeOK, Shape, Knows, callVars
  <2>2. Point(t) = pc[t] /\ Point(t)' = pc'[t]
    BY <2>1 DEF Point
  <2>3. place[Root] \o path[t] \in Goal(t) /\ Goal(t)' = Goal(t)
    BY <2>1, <2>2, GoalSame DEF Stands, Nodes
  <2>4. new[Root] = place[Root] /\ Rooted(Root)'
    BY <1>0 DEF Rooted
  <2>5. new[Root] \o path'[t] \in Goal(t)'
    BY <2>1, <2>3, <2>4, Zenon
  <2> QED
    BY <2>1, <2>2, <2>4, <2>5, AtNode
<1>13. CASE AcquireNext(t)
  <2>1. /\ pc[t] = "next" /\ pc'[t] = "found" /\ cur'[t] = cur[t] /\ name'[t] = name[t]
        /\ file'[t] = file[t]
        /\ path'[t] = path[t] /\ call'[t] = call[t] /\ src'[t] = src[t]
    <3>1. pc[t] = "next" /\ file[t] \in cached /\ ready[file[t]]
      BY <1>13, FoundThere DEF AcquireNext
    <3> QED
      BY <1>13, <3>1 DEF AcquireNext, AcquireNode, TypeOK, callVars
  <2>2. Links' = Links /\ Goal(t)' = Goal(t)
    BY <1>2, <2>1, GoalSame
  <2>3. \A c : c = cur[t] => Rooted(c)'
    BY <1>5, <2>1, <2>2, RootedKept
  <2>4. [dir |-> cur[t], name |-> name[t], id |-> file[t]] \in Links'
    BY <2>1, <2>2 DEF Stands, Linked
  <2>5. Append(new[cur[t]], name[t]) \o path'[t] \in Goal(t)'
    BY <1>5, <2>1, <2>2, Zenon
  <2>6. PICK c, n, f : c = cur[t] /\ n = name[t] /\ f = file[t]
    OBVIOUS
  <2>7. /\ type'[c] = "dir" /\ Rooted(c)' /\ Append(new[c], n) \o path'[t] \in Goal(t)'
        /\ [dir |-> c, name |-> n, id |-> f] \in Links'
    BY <1>5, <2>1, <2>3, <2>4, <2>5, <2>6
  <2>8. Here(t, new, c, n, f)
    BY <2>1, <2>6, <2>7 DEF Here
  <2> QED
    BY <2>8, AtName
<1>14. CASE Walk(t)
  <2>1. PICK c \in stored : c = cur[t]
    BY <1>0, <1>3, <1>14 DEF Walk, Shape
  <2>2. PICK h \in Name : h = Head(path[t])
    BY <1>0, <1>14 DEF Walk
  <2>3. /\ pc[t] = "walk" /\ path[t] # <<>> /\ type[c] = "dir" /\ cur'[t] = c
        /\ name'[t] = h /\ path'[t] = Tail(path[t])
        /\ call'[t] = call[t] /\ src'[t] = src[t]
        /\ \/ Find(c, h) # 0 /\ pc'[t] = "next" /\ file'[t] = dir[c][Find(c, h)].id
           \/ Find(c, h) = 0 /\ pc'[t] = "absent"
    BY <1>14, <2>1, <2>2 DEF Walk, TypeOK
  <2>4. Point(t) = "walk"
    BY <2>3 DEF Point
  <2>5. place[c] \o path[t] \in Goal(t) /\ Rooted(c)
    BY <2>1, <2>3, <2>4 DEF Stands
  <2>6. Links' = Links /\ Goal(t)' = Goal(t) /\ Rooted(c)' /\ type'[c] = "dir" /\ new[c] = place[c]
    BY <1>2, <1>4, <2>3, <2>5, GoalSame, RootedKept
  <2>7. Append(new[c], h) \o path'[t] \in Goal(t)'
    <3>1. Append(place[c], Head(path[t])) \o Tail(path[t]) = place[c] \o path[t]
      BY <1>0, <2>3, StepOfPath
    <3> QED
      BY <2>2, <2>3, <2>5, <2>6, <3>1, Zenon
  <2>8. PICK f : f = file'[t]
    OBVIOUS
  <2>9. /\ pc'[t] = "next" => [dir |-> c, name |-> h, id |-> f] \in Links'
        /\ pc'[t] = "absent" => \A l \in Links' : ~(l.dir = c /\ l.name = h)
    BY <2>3, <2>6, <2>8, WalkFinds
  <2>10. pc'[t] \in {"next", "found", "absent", "add", "unlink"} /\ type'[c] = "dir" /\ Rooted(c)'
    BY <2>3, <2>6
  <2>11. c = cur'[t] /\ h = name'[t] /\ f = file'[t]
    BY <2>3, <2>8
  <2>12. Append(new[c], h) \o path'[t] \in
          IF pc'[t] = "add" THEN Reach(call'[t].path) ELSE Goal(t)'
    BY <2>3, <2>7
  <2>13. pc'[t] \in {"next", "found", "unlink"} =>
          [dir |-> c, name |-> h, id |-> f] \in Links'
    BY <2>3, <2>9
  <2>14. pc'[t] \in {"absent", "add"} =>
          \A l \in Links' : ~(l.dir = c /\ l.name = h)
    BY <2>3, <2>9
  <2>15. pc'[t] = "add" /\ type'[f] = "dir" => new[f] = Append(new[c], h)
    BY <2>3
  <2>16. pc'[t] = "unlink" /\ type'[f] = "dir" => \A l \in Links' : l.dir # f
    BY <2>3
  <2>17. Here(t, new, c, h, f)
    BY <2>10, <2>11, <2>12, <2>13, <2>14, <2>15, <2>16, Zenon DEF Here
  <2> QED
    BY <2>17, AtName
<1>15. CASE Descend(t)
  <2>1. /\ pc[t] = "found" /\ pc'[t] = "release" /\ then'[t] = "walk" /\ cur'[t] = file[t]
        /\ path'[t] = path[t] /\ call'[t] = call[t] /\ src'[t] = src[t]
    BY <1>15 DEF Descend, Release, TypeOK
  <2>2. Point(t)' = "walk" /\ Links' = Links /\ Goal(t)' = Goal(t)
    BY <1>2, <2>1, GoalSame DEF Point
  <2>3. PICK f \in stored : f = file[t]
    BY <1>0, <1>3, <2>1 DEF Shape
  <2>4. PICK l \in Links : l = [dir |-> cur[t], name |-> name[t], id |-> file[t]]
    BY <2>1 DEF Stands, Linked
  <2>5. Rooted(f)'
    BY <2>2, <2>3, <2>4 DEF Rooted, Named
  <2>6. type'[f] = "dir" => new[f] \o path'[t] \in Goal(t)'
    <3>1. SUFFICES ASSUME type[f] = "dir" PROVE new[f] \o path'[t] \in Goal(t)'
      BY <1>4
    <3>2. place[f] = Append(place[cur[t]], name[t]) /\ new[f] = place[f]
      BY <2>3, <2>4, <3>1 DEF Places
    <3>3. Append(place[cur[t]], name[t]) \o path[t] \in Goal(t)
      BY <1>5, <2>1
    <3> QED
      BY <2>1, <2>2, <3>2, <3>3, Zenon
  <2> QED
    BY <2>1, <2>2, <2>3, <2>5, <2>6, AtNode
<1>16. CASE FollowLink(t)
  <2>1. CASE Len(path[t]) > MaxRest
    <3>1. pc'[t] = "release" /\ then'[t] = "idle"
      BY <1>16, <2>1 DEF FollowLink, Return, Release, TypeOK
    <3> QED
      BY <3>1, AtRest DEF Point
  <2>2. CASE ~(Len(path[t]) > MaxRest)
    <3>1. /\ pc[t] = "found" /\ pc'[t] = "release" /\ then'[t] = "root"
          /\ path'[t] = LinkPath \o path[t] /\ call'[t] = call[t] /\ src'[t] = src[t]
          /\ type[file[t]] = "symlink"
      BY <1>16, <2>2 DEF FollowLink, Release, TypeOK
    <3>2. Point(t)' = "root" /\ Goal(t)' = Goal(t)
      BY <3>1, GoalSame DEF Point
    <3>3. PICK l \in Links : l = [dir |-> cur[t], name |-> name[t], id |-> file[t]]
      BY <3>1 DEF Stands, Linked
    <3>4. LinkSpot(Append(place[cur[t]], name[t]))
      BY <3>1, <3>3 DEF Places
    <3>5. Append(place[cur[t]], name[t]) \in Seq(Name)
      BY <1>5, <3>1
    <3>6. Append(place[cur[t]], name[t]) \o path[t] \in Goal(t)
      BY <1>5, <3>1
    <3>7. PICK p \in Seq(Name) : Goal(t) = Reach(p)
      <4>1. \A c \in Call : c.path \in Seq(Name) /\ c.from \in Seq(Name)
        BY VFSAssumption
      <4>2. call[t] \in Call
        BY <3>1 DEF Shape
      <4> QED
        BY <4>1, <4>2 DEF Goal
    <3>8. Len(path[t]) <= MaxRest
      BY <1>0, <2>2, VFSAssumption
    <3>9. LinkPath \o path[t] \in Goal(t)
      BY <1>0, <3>4, <3>5, <3>6, <3>7, <3>8, ReachLink
    <3> QED
      BY <3>1, <3>2, <3>9, AtRoot
  <2> QED
    BY <2>1, <2>2
<1>17. CASE WalkFails(t) \/ Stat(t) \/ Open(t) \/ Exists(t) \/ Denied(t)
  <2>1. pc'[t] = "release" /\ then'[t] = "idle"
    BY <1>17 DEF WalkFails, Stat, Open, Exists, Denied, Return, Release, TypeOK
  <2> QED
    BY <2>1, AtRest DEF Point
<1>18. CASE LinkFrom(t)
  <2>1. /\ pc'[t] = "release" /\ then'[t] = "root" /\ path'[t] = call[t].path
        /\ call'[t] = call[t] /\ src'[t] \in Id
    BY <1>18 DEF LinkFrom, Resolved, Release, TypeOK, Shape
  <2>2. Point(t)' = "root" /\ Goal(t)' = Reach(call[t].path)
    BY <1>0, <2>1 DEF Point, Goal
  <2>3. call[t].path \in Reach(call[t].path)
    BY DEF Reach
  <2> QED
    BY <2>1, <2>2, <2>3, AtRoot
<1>19. CASE (\E i \in Id : CreateNode(t, i))
  <2>1. PICK i \in Id : CreateNode(t, i)
    BY <1>19
  <2>2. /\ pc[t] = "absent" /\ pc'[t] = "add" /\ call[t].op # "link" /\ cur'[t] = cur[t]
        /\ name'[t] = name[t] /\ file'[t] = i /\ path'[t] = path[t] /\ call'[t] = call[t]
        /\ new[i] = Append(place[cur[t]], name[t])
    BY <2>1 DEF CreateNode, TypeOK
  <2>3. Links' = Links
    BY <1>2, <2>2
  <2>4. PICK c, n : c = cur[t] /\ n = name[t]
    OBVIOUS
  <2>5. type'[c] = "dir" /\ Rooted(c)' /\ new[c] = place[c]
    BY <1>5, <2>2, <2>3, <2>4, RootedKept
  <2>6. Append(new[c], n) \o path'[t] \in Reach(call'[t].path)
    <3>1. Goal(t) = Reach(call[t].path)
      BY <2>2 DEF Goal
    <3>2. Append(place[cur[t]], name[t]) \o path[t] \in Goal(t)
      BY <1>5, <2>2
    <3> QED
      BY <2>2, <2>4, <2>5, <3>1, <3>2, Zenon
  <2>7. \A l \in Links' : ~(l.dir = c /\ l.name = n)
    BY <2>2, <2>3, <2>4 DEF Stands
  <2>8. new[i] = Append(new[c], n)
    BY <2>2, <2>4, <2>5, Zenon
  <2>10. pc'[t] \in {"next", "found", "absent", "add", "unlink"} /\ type'[c] = "dir" /\ Rooted(c)'
    BY <2>2, <2>5
  <2>11. c = cur'[t] /\ n = name'[t] /\ i = file'[t]
    BY <2>2, <2>4
  <2>12. Append(new[c], n) \o path'[t] \in
          IF pc'[t] = "add" THEN Reach(call'[t].path) ELSE Goal(t)'
    BY <2>2, <2>6
  <2>13. pc'[t] \in {"next", "found", "unlink"} =>
          [dir |-> c, name |-> n, id |-> i] \in Links'
    BY <2>2
  <2>14. pc'[t] \in {"absent", "add"} =>
          \A l \in Links' : ~(l.dir = c /\ l.name = n)
    BY <2>7
  <2>15. pc'[t] = "add" /\ type'[i] = "dir" => new[i] = Append(new[c], n)
    BY <2>8
  <2>16. pc'[t] = "unlink" /\ type'[i] = "dir" => \A l \in Links' : l.dir # i
    BY <2>2
  <2>17. Here(t, new, c, n, i)
    BY <2>10, <2>11, <2>12, <2>13, <2>14, <2>15, <2>16, Zenon DEF Here
  <2> QED
    BY <2>17, AtName
<1>20. CASE LinkInc(t)
  <2>1. /\ pc[t] = "absent" /\ pc'[t] = "add" /\ call[t].op = "link" /\ cur'[t] = cur[t]
        /\ name'[t] = name[t] /\ file'[t] = src[t] /\ path'[t] = path[t] /\ call'[t] = call[t]
        /\ src[t] # None
    BY <1>20 DEF LinkInc, TypeOK, Shape, MayCreate
  <2>2. Links' = Links
    BY <1>2, <2>1
  <2>3. PICK c, n, f : c = cur[t] /\ n = name[t] /\ f = src[t]
    OBVIOUS
  <2>4. type'[c] = "dir" /\ Rooted(c)' /\ new[c] = place[c]
    BY <1>5, <2>1, <2>2, <2>3, RootedKept
  <2>5. Append(new[c], n) \o path'[t] \in Reach(call'[t].path)
    <3>1. Goal(t) = Reach(call[t].path)
      BY <2>1 DEF Goal
    <3>2. Append(place[cur[t]], name[t]) \o path[t] \in Goal(t)
      BY <1>5, <2>1
    <3> QED
      BY <2>1, <2>3, <2>4, <3>1, <3>2, Zenon
  <2>6. \A l \in Links' : ~(l.dir = c /\ l.name = n)
    BY <2>1, <2>2, <2>3 DEF Stands
  <2>7. type'[f] = "file"
    BY <1>3, <1>4, <2>1, <2>3 DEF Knows
  <2>10. pc'[t] \in {"next", "found", "absent", "add", "unlink"} /\ type'[c] = "dir" /\ Rooted(c)'
    BY <2>1, <2>4
  <2>11. c = cur'[t] /\ n = name'[t] /\ f = file'[t]
    BY <2>1, <2>3
  <2>12. Append(new[c], n) \o path'[t] \in
          IF pc'[t] = "add" THEN Reach(call'[t].path) ELSE Goal(t)'
    BY <2>1, <2>5
  <2>13. pc'[t] \in {"next", "found", "unlink"} =>
          [dir |-> c, name |-> n, id |-> f] \in Links'
    BY <2>1
  <2>14. pc'[t] \in {"absent", "add"} =>
          \A l \in Links' : ~(l.dir = c /\ l.name = n)
    BY <2>6
  <2>15. pc'[t] = "add" /\ type'[f] = "dir" => new[f] = Append(new[c], n)
    BY <2>7
  <2>16. pc'[t] = "unlink" /\ type'[f] = "dir" => \A l \in Links' : l.dir # f
    BY <2>1
  <2>17. Here(t, new, c, n, f)
    BY <2>10, <2>11, <2>12, <2>13, <2>14, <2>15, <2>16, Zenon DEF Here
  <2> QED
    BY <2>17, AtName
<1>21. CASE AddEntry(t)
  <2>1. CASE call[t].op # "opencreate"
    <3>1. pc'[t] = "release" /\ then'[t] = "idle"
      BY <1>21, <2>1 DEF AddEntry, Release, TypeOK
    <3> QED
      BY <3>1, AtRest DEF Point
  <2>2. CASE call[t].op = "opencreate"
    <3>1. /\ pc[t] = "add" /\ pc'[t] = "found" /\ cur'[t] = cur[t] /\ name'[t] = name[t]
          /\ file'[t] = file[t]
          /\ path'[t] = path[t] /\ call'[t] = call[t] /\ src'[t] = src[t]
      BY <1>21, <2>2 DEF AddEntry, TypeOK, callVars
    <3>2. cur[t] \in stored /\ name[t] \in Name /\ file[t] \in Id
      BY <1>5, <3>1 DEF Shape
    <3>3. Links' = Links \cup {[dir |-> cur[t], name |-> name[t], id |-> file[t]]}
      BY <1>21, <3>2, LinksAdded DEF AddEntry
    <3>4. PICK c, n, f : c = cur[t] /\ n = name[t] /\ f = file[t]
      OBVIOUS
    <3>5. type'[c] = "dir" /\ Rooted(c)' /\ new[c] = place[c]
      BY <1>5, <3>1, <3>3, <3>4, RootedKept
    <3>6. Append(new[c], n) \o path'[t] \in Goal(t)'
      <4>1. Goal(t)' = Reach(call[t].path)
        BY <2>2, <3>1 DEF Goal
      <4>2. Append(place[cur[t]], name[t]) \o path[t] \in Reach(call[t].path)
        BY <1>5, <3>1
      <4> QED
        BY <3>1, <3>4, <3>5, <4>1, <4>2, Zenon
    <3>7. [dir |-> c, name |-> n, id |-> f] \in Links'
      BY <3>3, <3>4
    <3>10. pc'[t] \in {"next", "found", "absent", "add", "unlink"} /\ type'[c] = "dir" /\ Rooted(c)'
      BY <3>1, <3>5
    <3>11. c = cur'[t] /\ n = name'[t] /\ f = file'[t]
      BY <3>1, <3>4
    <3>12. Append(new[c], n) \o path'[t] \in
            IF pc'[t] = "add" THEN Reach(call'[t].path) ELSE Goal(t)'
      BY <3>1, <3>6
    <3>13. pc'[t] \in {"next", "found", "unlink"} =>
            [dir |-> c, name |-> n, id |-> f] \in Links'
      BY <3>7
    <3>14. pc'[t] \in {"absent", "add"} =>
            \A l \in Links' : ~(l.dir = c /\ l.name = n)
      BY <3>1
    <3>15. pc'[t] = "add" /\ type'[f] = "dir" => new[f] = Append(new[c], n)
      BY <3>1
    <3>16. pc'[t] = "unlink" /\ type'[f] = "dir" => \A l \in Links' : l.dir # f
      BY <3>1
    <3>17. Here(t, new, c, n, f)
      BY <3>10, <3>11, <3>12, <3>13, <3>14, <3>15, <3>16, Zenon DEF Here
    <3> QED
      BY <3>17, AtName
  <2> QED
    BY <2>1, <2>2
<1>22. CASE DeleteCheck(t)
  <2>1. CASE pc'[t] = "release"
    <3>1. then'[t] = "idle"
      BY <1>22, <2>1 DEF DeleteCheck, Return, Release, TypeOK
    <3> QED
      BY <2>1, <3>1, AtRest DEF Point
  <2>2. CASE pc'[t] # "release"
    <3>1. /\ pc[t] = "found" /\ pc'[t] = "unlink" /\ cur'[t] = cur[t] /\ name'[t] = name[t]
          /\ file'[t] = file[t]
          /\ path'[t] = path[t] /\ call'[t] = call[t] /\ src'[t] = src[t]
          /\ type' = type /\ (type[file[t]] = "dir" => dir[file[t]] = <<>>)
      BY <1>22, <2>2 DEF DeleteCheck, Resolved, Return, Release, TypeOK, callVars, fsVars
    <3>2. Links' = Links /\ Goal(t)' = Goal(t)
      BY <1>2, <3>1, GoalSame
    <3>3. PICK c, n, f : c = cur[t] /\ n = name[t] /\ f = file[t]
      OBVIOUS
    <3>4. type'[c] = "dir" /\ Rooted(c)' /\ new[c] = place[c]
      BY <1>5, <3>1, <3>2, <3>3, RootedKept
    <3>5. Append(new[c], n) \o path'[t] \in Goal(t)'
      BY <1>5, <3>1, <3>2, <3>3, <3>4, Zenon
    <3>6. [dir |-> c, name |-> n, id |-> f] \in Links'
      BY <3>1, <3>2, <3>3 DEF Stands, Linked
    <3>7. type'[f] = "dir" => \A l \in Links' : l.dir # f
      <4>1. SUFFICES ASSUME dir[f] = <<>>, NEW l \in Links, l.dir = f PROVE FALSE
        BY <3>1, <3>2, <3>3
      <4>2. PICK k \in 1 .. Len(dir[f]) : TRUE
        BY <4>1, LinksAre
      <4> QED
        BY <4>1, <4>2
    <3>10. pc'[t] \in {"next", "found", "absent", "add", "unlink"} /\ type'[c] = "dir" /\ Rooted(c)'
      BY <3>1, <3>4
    <3>11. c = cur'[t] /\ n = name'[t] /\ f = file'[t]
      BY <3>1, <3>3
    <3>12. Append(new[c], n) \o path'[t] \in
            IF pc'[t] = "add" THEN Reach(call'[t].path) ELSE Goal(t)'
      BY <3>1, <3>5
    <3>13. pc'[t] \in {"next", "found", "unlink"} =>
            [dir |-> c, name |-> n, id |-> f] \in Links'
      BY <3>6
    <3>14. pc'[t] \in {"absent", "add"} =>
            \A l \in Links' : ~(l.dir = c /\ l.name = n)
      BY <3>1
    <3>15. pc'[t] = "add" /\ type'[f] = "dir" => new[f] = Append(new[c], n)
      BY <3>1
    <3>16. pc'[t] = "unlink" /\ type'[f] = "dir" => \A l \in Links' : l.dir # f
      BY <3>7
    <3>17. Here(t, new, c, n, f)
      BY <3>10, <3>11, <3>12, <3>13, <3>14, <3>15, <3>16, Zenon DEF Here
    <3> QED
      BY <3>17, AtName
  <2> QED
    BY <2>1, <2>2
<1>23. CASE Unlink(t)
  <2>1. pc'[t] = "unlinked"
    BY <1>23, FoundThere DEF Unlink, TypeOK
  <2> QED
    BY <2>1, AtRest DEF Point
<1>24. CASE LinkDec(t) \/ Close(t)
  <2>1. pc'[t] = "release" /\ then'[t] = "idle"
    BY <1>24 DEF LinkDec, Close, Release, TypeOK
  <2> QED
    BY <2>1, AtRest DEF Point
<1>25. CASE ReleaseNode(t) \/ DestroyNode(t)
  <2>1. /\ pc[t] \in {"release", "destroy"} /\ then'[t] = then[t] /\ cur'[t] = cur[t]
        /\ path'[t] = path[t] /\ src'[t] = src[t]
        /\ pc'[t] \in {then[t], "release", "destroy"}
        /\ then[t] # "idle" => call'[t] = call[t]
    BY <1>25 DEF ReleaseNode, DestroyNode, Done, TypeOK
  <2>2. then[t] \in {"idle", "root", "walk"}
    BY <2>1 DEF Shape
  <2>3. Point(t) = then[t] /\ Point(t)' = then[t] /\ Links' = Links
    BY <1>2, <2>1, <2>2 DEF Point
  <2>4. CASE then[t] = "idle"
    BY <2>1, <2>3, <2>4, AtRest
  <2>5. CASE then[t] = "root"
    <3>1. path[t] \in Goal(t) /\ Goal(t)' = Goal(t)
      BY <2>1, <2>3, <2>5, GoalSame DEF Stands
    <3> QED
      BY <2>1, <2>3, <2>5, <3>1, AtRoot
  <2>6. CASE then[t] = "walk"
    <3>1. PICK c \in stored : c = cur[t]
      BY <1>0, <1>3, <2>1, <2>6 DEF Shape
    <3>2. Goal(t)' = Goal(t) /\ type'[c] = type[c] /\ new[c] = place[c]
      BY <1>4, <2>1, <2>6, GoalSame
    <3>3. type[c] = "dir" => place[c] \o path[t] \in Goal(t) /\ Rooted(c)
      BY <2>3, <2>6, <3>1 DEF Stands
    <3>4. type'[c] = "dir" => new[c] \o path'[t] \in Goal(t)' /\ Rooted(c)'
      BY <2>1, <2>3, <3>2, <3>3, RootedKept
    <3> QED
      BY <2>1, <2>3, <2>6, <3>1, <3>4, AtNode
  <2> QED
    BY <2>2, <2>4, <2>5, <2>6
<1>26. CASE (\E c \in Call : Begin(t, c))
  <2>1. PICK c \in Call : Begin(t, c)
    BY <1>26
  <2>2. /\ pc'[t] = "root" /\ call'[t] = c /\ src'[t] = None
        /\ path'[t] = IF c.op = "link" THEN c.from ELSE c.path
    BY <2>1 DEF Begin, TypeOK, Shape
  <2>3. Point(t)' = "root" /\ Goal(t)' = Reach(path'[t])
    BY <2>2 DEF Point, Goal
  <2>4. path'[t] \in Reach(path'[t])
    BY DEF Reach
  <2> QED
    BY <2>3, <2>4, AtRoot
<1> QED
  BY <1>11, <1>12, <1>13, <1>14, <1>15, <1>16, <1>17, <1>18, <1>19, <1>20, <1>21, <1>22,
     <1>23, <1>24, <1>25, <1>26 DEF Acts, Step

\* A new entry leads to the place of its directory.
LEMMA PlacesStep ==
  ASSUME TypeOK, Nodes, Entries, NEW t \in Thread, Shape(t), Knows(t), Changes(t),
         NEW place \in [NodeId -> Seq(Name)], Places(place), Stands(t, place),
         NEW new \in [NodeId -> Seq(Name)], \A n \in stored : new[n] = place[n]
  PROVE  Places(new)'
<1> DEFINE Good(l) == /\ type'[l.id] = "dir" => new[l.id] = Append(new[l.dir], l.name)
                      /\ type'[l.id] = "symlink" => LinkSpot(Append(new[l.dir], l.name))
<1>1. new[Root] = <<>>
  BY DEF Nodes, Places
<1>2. ASSUME NEW l \in Links PROVE Good(l)
  <2>1. l.dir \in stored /\ l.id \in stored
    BY LinksAre DEF Entries, Nodes
  <2>2. type'[l.id] = type[l.id] /\ new[l.id] = place[l.id] /\ new[l.dir] = place[l.dir]
    BY <2>1 DEF Changes
  <2> QED
    BY <2>2 DEF Places
<1>3. ASSUME pc[t] = "add", NEW e, e = [dir |-> cur[t], name |-> name[t], id |-> file[t]]
      PROVE  Good(e)
  <2>1. e.dir = cur[t] /\ e.name = name[t] /\ e.id = file[t]
    BY <1>3
  <2>2. cur[t] \in stored /\ file[t] \in stored /\ cur[t] \in NodeId /\ name[t] \in Name
    BY <1>3, UsedCached, VFSAssumption DEF Shape, Nodes, NodeId
  <2>3. /\ type'[file[t]] = type[file[t]] /\ new[file[t]] = place[file[t]]
        /\ new[cur[t]] = place[cur[t]]
    BY <2>2 DEF Changes
  <2>4. type[file[t]] = "dir" => place[file[t]] = Append(place[cur[t]], name[t])
    BY <1>3 DEF Stands
  <2>5. ASSUME type[file[t]] = "symlink" PROVE LinkSpot(Append(place[cur[t]], name[t]))
    <3>1. call[t] \in Call /\ call[t].op = "symlink" /\ path[t] = <<>>
      BY <1>3, <2>5 DEF Knows, Shape, Releasing
    <3>2. PICK q \in Seq(Name) : q = Append(place[cur[t]], name[t])
      <4>1. Append(place[cur[t]], name[t]) \in Seq(Name)
        BY <2>2
      <4> QED
        BY <4>1, Zenon
    <3>3. q \o <<>> \in Reach(call[t].path)
      <4>1. Append(place[cur[t]], name[t]) \o path[t] \in Reach(call[t].path)
        BY <1>3 DEF Stands
      <4> QED
        BY <3>1, <3>2, <4>1, Zenon
    <3>4. q \in Reach(call[t].path)
      BY <3>3
    <3>5. CASE q = call[t].path
      BY <3>1, <3>2, <3>5 DEF LinkSpot
    <3>6. CASE q # call[t].path
      <4>1. PICK n \in 0 .. MaxRest : \E r \in [1 .. n -> Name] : q = LinkPath \o r
        BY <3>4, <3>6 DEF Reach
      <4>2. PICK r \in [1 .. n -> Name] : q = LinkPath \o r
        BY <4>1
      <4>3. r \in Seq(Name)
        BY VFSAssumption, SeqDef
      <4>4. IsPrefix(LinkPath, q)
        BY <4>2, <4>3, PrefixConcat, VFSAssumption
      <4> QED
        BY <3>1, <3>2, <4>4 DEF LinkSpot
    <3> QED
      BY <3>5, <3>6
  <2> QED
    BY <2>1, <2>3, <2>4, <2>5
<1>4. \A l \in Links' : Good(l)
  <2>1. CASE Links' \subseteq Links
    BY <1>2, <2>1
  <2>2. CASE /\ pc[t] = "add"
             /\ Links' = Links \cup {[dir |-> cur[t], name |-> name[t], id |-> file[t]]}
    BY <1>2, <1>3, <2>2
  <2> QED
    BY <2>1, <2>2 DEF Changes, Enters
<1> QED
  BY <1>1, <1>4 DEF Places

\* A call begins, goes on or ends.
LEMMA CallStep ==
  ASSUME TypeOK, NEW t \in Thread, Acts(t)
  PROVE  call'[t] = call[t] \/ call'[t] = NoCall \/ \E c \in Call : Begin(t, c)
<1> USE DEF Set, TypeOK, callVars
<1>1. CASE AcquireRoot(t)
  BY <1>1 DEF AcquireRoot, AcquireNode
<1>2. CASE AcquireNext(t)
  BY <1>2 DEF AcquireNext, AcquireNode
<1>3. CASE ReadNode(t)
  BY <1>3 DEF ReadNode
<1>4. CASE NodeReady(t)
  BY <1>4 DEF NodeReady
<1>5. CASE Walk(t)
  BY <1>5 DEF Walk
<1>6. CASE WalkFails(t)
  BY <1>6 DEF WalkFails, Return, Release
<1>7. CASE Descend(t)
  BY <1>7 DEF Descend, Release
<1>8. CASE FollowLink(t)
  BY <1>8 DEF FollowLink, Return, Release
<1>9. CASE Stat(t)
  BY <1>9 DEF Stat, Return, Release
<1>10. CASE Open(t)
  BY <1>10 DEF Open, Return, Release
<1>11. CASE Exists(t)
  BY <1>11 DEF Exists, Return, Release
<1>12. CASE LinkFrom(t)
  BY <1>12 DEF LinkFrom, Release
<1>13. CASE (\E i \in Id : CreateNode(t, i))
  BY <1>13 DEF CreateNode
<1>14. CASE LinkInc(t)
  BY <1>14 DEF LinkInc
<1>15. CASE Denied(t)
  BY <1>15 DEF Denied, Return, Release
<1>16. CASE AddEntry(t)
  BY <1>16 DEF AddEntry, Release
<1>17. CASE DeleteCheck(t)
  BY <1>17 DEF DeleteCheck, Return, Release
<1>18. CASE Unlink(t)
  BY <1>18 DEF Unlink
<1>19. CASE LinkDec(t)
  BY <1>19 DEF LinkDec, Release
<1>20. CASE ReleaseNode(t)
  BY <1>20 DEF ReleaseNode, Done
<1>21. CASE DestroyNode(t)
  BY <1>21 DEF DestroyNode, Done
<1>22. CASE Close(t)
  BY <1>22 DEF Close, Release
<1>23. CASE (\E c \in Call : Begin(t, c))
  BY <1>23
<1> QED
  BY <1>1, <1>2, <1>3, <1>4, <1>5, <1>6, <1>7, <1>8, <1>9, <1>10, <1>11, <1>12, <1>13, <1>14, <1>15, <1>16, <1>17, <1>18, <1>19, <1>20, <1>21, <1>22, <1>23 DEF Acts, Step

\* Calls stay apart while none begins in conflict with one that runs.
LEMMA ApartStep ==
  ASSUME TypeOK, Nodes, Apart, NEW t \in Thread, Frame(t), Acts(t),
         raced' = 0, \A u \in Thread : Shape(u) /\ Knows(u)
  PROVE  Apart'
<1>1. ASSUME NEW u \in Thread, u # t, call'[t] # NoCall, call'[u] # NoCall
      PROVE  ~Conflict(call'[t], call'[u]) /\ ~Conflict(call'[u], call'[t])
  <2>1. call'[u] = call[u]
    BY <1>1 DEF Frame, Same
  <2>2. CASE call'[t] = call[t]
    BY <1>1, <2>1, <2>2 DEF Apart
  <2>3. CASE \E c \in Call : Begin(t, c)
    <3>1. PICK c \in Call : Begin(t, c)
      BY <2>3
    <3>2. call'[t] = c
      BY <3>1 DEF Begin, Set, TypeOK
    <3>3. pc[u] # "idle"
      BY <1>1, <2>1 DEF Shape
    <3>4. ~Conflict(c, call[u]) /\ ~Conflict(call[u], c)
      <4>1. raced \in Nat /\ raced + 1 # 0
        BY VFSAssumption DEF TypeOK
      <4>2. ~Racing(c)
        BY <3>1, <4>1 DEF Begin
      <4> QED
        BY <3>3, <4>2 DEF Racing
    <3> QED
      BY <2>1, <3>2, <3>4
  <2> QED
    BY <1>1, <2>2, <2>3, CallStep
<1>2. ASSUME NEW u \in Thread, u # t, pc'[t] = "destroy", pc'[u] = "destroy"
      PROVE  Head(todo'[t]) # Head(todo'[u])
  <2>1. pc[u] = "destroy" /\ todo'[u] = todo[u]
    BY <1>2 DEF Frame, Same
  <2>2. pc[t] = "release" /\ todo' = todo
    BY <1>2, DestroyBegins
  <2>3. Head(todo[t]) \in cached
    BY <2>2, HeadHeld DEF Releasing
  <2>4. Head(todo[u]) \notin cached
    BY <2>1 DEF Knows
  <2> QED
    BY <2>1, <2>2, <2>3, <2>4
<1>3. ASSUME NEW u \in Thread, NEW v \in Thread, u # v
      PROVE  /\ call'[u] # NoCall /\ call'[v] # NoCall => ~Conflict(call'[u], call'[v])
             /\ pc'[u] = "destroy" /\ pc'[v] = "destroy" => Head(todo'[u]) # Head(todo'[v])
  <2>1. CASE u = t
    BY <1>1, <1>2, <1>3, <2>1
  <2>2. CASE v = t
    BY <1>1, <1>2, <1>3, <2>2
  <2>3. CASE u # t /\ v # t
    <3>1. Same(u) /\ Same(v)
      BY <2>3 DEF Frame
    <3> QED
      BY <1>3, <3>1 DEF Apart, Same
  <2> QED
    BY <2>1, <2>2, <2>3
<1> QED
  BY <1>3 DEF Apart, Conflict, Makes
-------------------------------------------------------------------------------
\* The root file system is mounted, and no call runs.
LEMMA InitInv == Init => Inv
<1> SUFFICES ASSUME Init PROVE Inv
  OBVIOUS
<1>0. Root \in NodeId /\ None \notin NodeId /\ None \notin Id /\ Root # None
  BY VFSAssumption DEF NodeId
<1>1. TypeOK
  <2>1. \A S : <<>> \in Seq(S)
    OBVIOUS
  <2> QED
    BY <1>0, <2>1, VFSAssumption DEF Init, TypeOK, PC
<1>2. ASSUME NEW t \in Thread PROVE Shape(t) /\ Closed(t) /\ Knows(t)
  <2>1. /\ pc[t] = "idle" /\ call[t] = NoCall /\ cur[t] = None /\ file[t] = None
        /\ src[t] = None /\ todo[t] = <<>>
    BY DEF Init
  <2>2. Shape(t)
    BY <2>1 DEF Shape, Releasing
  <2>3. Closed(t)
    BY <2>1 DEF Closed, NoCall
  <2>4. Knows(t)
    BY <1>0, <2>1 DEF Knows
  <2> QED
    BY <2>2, <2>3, <2>4
<1>3. Links = {}
  <2>1. \A d \in stored : Len(dir[d]) = 0
    BY <1>0 DEF Init
  <2> QED
    BY <2>1 DEF Links
<1>4. Nodes
  <2>1. ASSUME NEW n \in NodeId PROVE References(n) = 0
    <3>1. \A t \in Thread : /\ cur[t] # n /\ file[t] # n /\ src[t] # n /\ opened[t] # n
                            /\ Len(todo[t]) = 0
      BY <1>0 DEF Init
    <3>2. /\ {t \in Thread : cur[t] = n} = {}
          /\ {t \in Thread : file[t] = n /\ pc[t] # "next"} = {}
          /\ {t \in Thread : src[t] = n} = {}
          /\ {t \in Thread : opened[t] = n} = {}
      BY <3>1
    <3>3. {q \in Thread \X (1 .. 3) : Owes(q[1], q[2], n)} = {}
      BY <3>1 DEF Owes
    <3>4. Cardinality({}) = 0
      BY FS_EmptySet
    <3> QED
      BY <3>2, <3>3, <3>4 DEF References
  <2>2. \A n \in NodeId : refCount[n] = 0 /\ lost[n] = 0
    BY DEF Init
  <2>3. stored = {Root} /\ cached = {} /\ type[Root] = "dir" /\ ready[Root] = FALSE
    BY <1>0 DEF Init
  <2> QED
    BY <2>1, <2>2, <2>3 DEF Nodes
<1>5. Entries
  <2>1. \A d \in stored : Len(dir[d]) = 0
    BY <1>0 DEF Init
  <2> QED
    BY <1>3, <2>1 DEF Entries
<1>6. Counted
  <2>1. cached = {}
    BY DEF Init
  <2> QED
    BY <1>3, <2>1, FS_EmptySet DEF Counted
<1>7. Apart
  BY DEF Init, Apart
<1>8. \E place \in [NodeId -> Seq(Name)] : Located(place)
  <2> DEFINE place == [n \in NodeId |-> <<>>]
  <2>1. place \in [NodeId -> Seq(Name)] /\ place[Root] = <<>>
    BY <1>0
  <2>2. Places(place)
    BY <1>3, <2>1 DEF Places
  <2>3. ASSUME NEW t \in Thread PROVE Stands(t, place)
    <3>1. pc[t] = "idle"
      BY DEF Init
    <3> QED
      BY <3>1 DEF Stands, Point, Releasing
  <2> QED
    BY <2>1, <2>2, <2>3 DEF Located
<1> QED
  BY <1>1, <1>2, <1>4, <1>5, <1>6, <1>7, <1>8 DEF Inv

\* Every step of a thread preserves the invariant, unless it begins a call in
\* conflict with one that runs.
LEMMA ActsInv ==
  ASSUME raced' = 0, Inv, NEW t \in Thread, Acts(t)
  PROVE  Inv'
<1>1. PICK place \in [NodeId -> Seq(Name)] : Located(place)
  BY DEF Inv
<1>2. /\ TypeOK /\ Nodes /\ Entries /\ Counted /\ Apart
      /\ \A u \in Thread : Shape(u) /\ Closed(u) /\ Knows(u)
  BY DEF Inv
<1>3. Places(place) /\ \A u \in Thread : Stands(u, place)
  BY <1>1 DEF Located
<1>4. Shape(t) /\ Closed(t) /\ Knows(t) /\ Stands(t, place)
  BY <1>2, <1>3
<1>5. Frame(t) /\ Changes(t)
  BY <1>2, <1>4, FrameStep, CacheStep
<1>6. TypeOK'
  BY <1>2, <1>4, NodesBacked, TypeStep
<1>7. Nodes' /\ Entries' /\ Counted'
  BY <1>2, <1>4, NodesStep, EntriesStep, CountedStep
<1>8. Apart'
  BY <1>2, <1>5, ApartStep
<1>9. Shape(t)' /\ Closed(t)' /\ Knows(t)'
  BY <1>2, <1>4, ShapeStep, ClosedStep, KnowsStep
<1>10. ASSUME NEW u \in Thread, u # t PROVE Shape(u)' /\ Closed(u)' /\ Knows(u)'
  <2>1. Same(u) /\ Shape(u) /\ Closed(u) /\ Knows(u)
    BY <1>2, <1>5, <1>10 DEF Frame
  <2>2. Shape(u)' /\ Closed(u)'
    BY <2>1, ShapeFrame
  <2>3. Knows(u)'
    BY <1>2, <1>4, <1>5, <1>10, <2>1, KnowsFrame
  <2> QED
    BY <2>2, <2>3
<1>11. \A u \in Thread : Shape(u)' /\ Closed(u)' /\ Knows(u)'
  <2> SUFFICES ASSUME NEW u \in Thread PROVE Shape(u)' /\ Closed(u)' /\ Knows(u)'
    OBVIOUS
  <2>1. CASE u = t
    BY <1>9, <2>1
  <2> QED
    BY <1>10, <2>1
<1>12. \E new \in [NodeId -> Seq(Name)] :
         /\ \A n \in stored : new[n] = place[n]
         /\ \A i \in Id : CreateNode(t, i) => new[i] = Append(place[cur[t]], name[t])
  <2>1. CASE \E i \in Id : CreateNode(t, i)
    <3>1. PICK i \in Id : CreateNode(t, i)
      BY <2>1
    <3>2. PICK q : q = Append(place[cur[t]], name[t])
      OBVIOUS
    <3> DEFINE new == [place EXCEPT ![i] = q]
    <3>3. i \notin stored /\ stored' = stored \cup {i} /\ i \in NodeId /\ pc[t] = "absent"
      BY <3>1 DEF CreateNode, NodeId
    <3>4. q \in Seq(Name)
      <4>1. cur[t] \in NodeId /\ name[t] \in Name
        BY <1>4, <3>3 DEF Shape
      <4>2. place[cur[t]] \in Seq(Name)
        BY <4>1
      <4> QED
        BY <3>2, <4>1, <4>2
    <3>5. new \in [NodeId -> Seq(Name)] /\ (\A n \in stored : new[n] = place[n]) /\ new[i] = q
      BY <1>2, <3>3, <3>4 DEF TypeOK
    <3>6. ASSUME NEW j \in Id, CreateNode(t, j) PROVE j = i
      BY <3>3, <3>6 DEF CreateNode
    <3> HIDE DEF new
    <3>7. \A j \in Id : CreateNode(t, j) => new[j] = Append(place[cur[t]], name[t])
      BY <3>2, <3>5, <3>6
    <3> QED
      BY <3>5, <3>7
  <2>2. CASE ~\E i \in Id : CreateNode(t, i)
    BY <2>2
  <2> QED
    BY <2>1, <2>2
<1>13. PICK new \in [NodeId -> Seq(Name)] :
         /\ \A n \in stored : new[n] = place[n]
         /\ \A i \in Id : CreateNode(t, i) => new[i] = Append(place[cur[t]], name[t])
  BY <1>12
<1>14. Places(new)'
  BY <1>2, <1>3, <1>4, <1>5, <1>13, PlacesStep
<1>15. Stands(t, new)'
  BY <1>2, <1>3, <1>4, <1>13, StandsStep
<1>16. ASSUME NEW u \in Thread, u # t PROVE Stands(u, new)'
  <2>1. Same(u) /\ Shape(u) /\ Stands(u, place)
    BY <1>2, <1>3, <1>5, <1>16 DEF Frame
  <2> QED
    BY <1>2, <1>3, <1>4, <1>5, <1>13, <1>16, <2>1, StandsFrame
<1>17. \A u \in Thread : Stands(u, new)'
  <2> SUFFICES ASSUME NEW u \in Thread PROVE Stands(u, new)'
    OBVIOUS
  <2>1. CASE u = t
    BY <1>15, <2>1
  <2> QED
    BY <1>16, <2>1
<1>18. Located(new)'
  BY <1>14, <1>17 DEF Located
<1>19. (\E p \in [NodeId -> Seq(Name)] : Located(p))'
  BY <1>18
<1> QED
  BY <1>6, <1>7, <1>8, <1>11, <1>19 DEF Inv

\* A step of none of the threads changes nothing.
LEMMA StutterInv ==
  ASSUME Inv, UNCHANGED vars
  PROVE  Inv'
<1>1. /\ stored' = stored /\ type' = type /\ dir' = dir /\ locked' = locked
      /\ raced' = raced /\ lost' = lost
      /\ cached' = cached /\ refCount' = refCount /\ linkCount' = linkCount /\ ready' = ready
      /\ pc' = pc /\ todo' = todo /\ then' = then /\ opened' = opened
  BY DEF vars, fsVars, nodeVars
<1>2. /\ call' = call /\ path' = path /\ name' = name /\ cur' = cur /\ file' = file
      /\ src' = src
  BY DEF vars, callVars
<1>3. Links' = Links
  BY <1>1, LinksSame
<1>4. \A n : References(n)' = References(n)
  BY <1>1, <1>2 DEF References, Owes
<1>5. TypeOK'
  BY <1>1, <1>2 DEF Inv, TypeOK
<1>6. \A u \in Thread : Shape(u)' /\ Closed(u)'
  BY <1>1, <1>2, ShapeFrame DEF Inv, Same
<1>7. \A u \in Thread : Knows(u)'
  BY <1>1, <1>2, <1>3 DEF Inv, Knows, Named
<1>8. Nodes'
  BY <1>1, <1>2, <1>4 DEF Inv, Nodes
<1>9. Entries'
  BY <1>1, <1>3 DEF Inv, Entries, Rooted, Named
<1>10. Counted'
  BY <1>1, <1>2, <1>3 DEF Inv, Counted, Pending
<1>11. Apart'
  BY <1>1, <1>2 DEF Inv, Apart
<1>12. PICK place \in [NodeId -> Seq(Name)] : Located(place)
  BY DEF Inv
<1>13. Places(place)'
  BY <1>1, <1>3, <1>12 DEF Located, Places
<1>14. ASSUME NEW u \in Thread PROVE Stands(u, place)'
  <2>1. Stands(u, place)
    BY <1>12 DEF Located
  <2> QED
    BY <1>1, <1>2, <1>3, <2>1, Zenon
       DEF Stands, Point, Releasing, Goal, Rooted, Named, Linked
<1>15. (\E p \in [NodeId -> Seq(Name)] : Located(p))'
  BY <1>13, <1>14 DEF Located
<1> QED
  BY <1>5, <1>6, <1>7, <1>8, <1>9, <1>10, <1>11, <1>15 DEF Inv

\* At the start nobody holds a node.
LEMMA InitOwn == Init => Own
<1> SUFFICES ASSUME Init PROVE Own
  OBVIOUS
<1>1. TypeOK /\ Nodes /\ \A t \in Thread : Shape(t) /\ Closed(t)
  BY InitInv DEF Inv
<1>2. Refs
  <2>1. \A n \in NodeId : refCount[n] = 0 /\ References(n) = 0 /\ lost[n] = 0
    BY <1>1 DEF Init, Nodes
  <2> QED
    BY <2>1 DEF Refs
<1>3. \A t \in Thread : Ready(t)
  BY DEF Init, Ready
<1> QED
  BY <1>1, <1>2, <1>3 DEF Own

\* Every step of a thread preserves Own, whatever other calls run.
LEMMA ActsOwn ==
  ASSUME Own, NEW t \in Thread, Acts(t)
  PROVE  Own'
<1>1. TypeOK /\ Refs /\ \A u \in Thread : Shape(u) /\ Closed(u) /\ Ready(u)
  BY DEF Own
<1>2. Backed
  <2>1. ASSUME NEW n \in NodeId PROVE refCount[n] >= References(n)
    BY <1>1, HeldCounted DEF Refs, TypeOK
  <2> QED
    BY <1>1, <2>1 DEF Refs, Backed
<1>3. TypeOK' /\ Refs' /\ Frame(t)
  BY <1>1, <1>2, TypeStep, RefsStep, FrameStep
<1>4. Shape(t)' /\ Closed(t)' /\ Ready(t)'
  BY <1>1, <1>2, ShapeStep, ClosedStep, ReadyStep
<1>5. ASSUME NEW u \in Thread, u # t PROVE Shape(u)' /\ Closed(u)' /\ Ready(u)'
  <2>1. Same(u) /\ Shape(u) /\ Closed(u) /\ Ready(u)
    BY <1>1, <1>3, <1>5 DEF Frame
  <2>2. Shape(u)' /\ Closed(u)'
    BY <2>1, ShapeFrame
  <2>3. /\ cur[u] # None => cur[u] \in cached
        /\ file[u] # None /\ pc[u] # "next" => file[u] \in cached
        /\ src[u] # None => src[u] \in cached
    BY <1>1, <1>2, UsedBacked
  <2>4. \A n \in cached : ready[n] => ready'[n]
    BY <1>1, ReadyKept
  <2>5. Ready(u)'
    BY <2>1, <2>3, <2>4 DEF Same, Ready
  <2> QED
    BY <2>2, <2>5
<1>6. \A u \in Thread : Shape(u)' /\ Closed(u)' /\ Ready(u)'
  BY <1>4, <1>5
<1> QED
  BY <1>3, <1>6 DEF Own

\* A step of none of the threads changes nothing.
LEMMA StutterOwn ==
  ASSUME Own, UNCHANGED vars
  PROVE  Own'
<1>1. /\ cached' = cached /\ refCount' = refCount /\ ready' = ready /\ lost' = lost
      /\ stored' = stored /\ type' = type /\ dir' = dir /\ locked' = locked
      /\ raced' = raced /\ linkCount' = linkCount
      /\ pc' = pc /\ todo' = todo /\ then' = then /\ opened' = opened
  BY DEF vars, fsVars, nodeVars
<1>2. /\ call' = call /\ path' = path /\ name' = name /\ cur' = cur /\ file' = file
      /\ src' = src
  BY DEF vars, callVars
<1>3. \A n : References(n)' = References(n)
  BY <1>1, <1>2 DEF References, Owes
<1>4. TypeOK'
  BY <1>1, <1>2 DEF Own, TypeOK
<1>5. Refs'
  BY <1>1, <1>3 DEF Own, Refs
<1>6. \A u \in Thread : Shape(u)' /\ Closed(u)'
  BY <1>1, <1>2, ShapeFrame DEF Own, Same
<1>7. \A u \in Thread : Ready(u)'
  BY <1>1, <1>2 DEF Own, Ready
<1> QED
  BY <1>4, <1>5, <1>6, <1>7 DEF Own

\* What a thread holds, counts and looks at is so in every state, for any number of
\* threads, names and nodes, whatever calls programs make at the same time.
THEOREM OwnInductive == Spec => []Own
<1>1. Own /\ [Next]_vars => Own'
  <2> SUFFICES ASSUME Own, [Next]_vars PROVE Own'
    OBVIOUS
  <2>1. CASE UNCHANGED vars
    BY <2>1, StutterOwn
  <2>2. CASE Next
    <3>1. PICK t \in Thread : Acts(t)
      BY <2>2 DEF Next, Acts
    <3> QED
      BY <3>1, ActsOwn
  <2> QED
    BY <2>1, <2>2
<1> QED
  BY <1>1, InitOwn, PTL DEF Spec

\* A race that was begun stays.
LEMMA RacedStays ==
  ASSUME TypeOK, NEW t \in Thread, Acts(t), raced' = 0
  PROVE  raced = 0
<1> USE DEF fsVars
<1>1. CASE AcquireRoot(t) \/ AcquireNext(t) \/ ReadNode(t) \/ NodeReady(t) \/ Walk(t)
  BY <1>1 DEF AcquireRoot, AcquireNext, AcquireNode, ReadNode, NodeReady, Walk
<1>2. CASE WalkFails(t) \/ Descend(t) \/ FollowLink(t) \/ Stat(t) \/ Open(t) \/ Exists(t)
  BY <1>2 DEF WalkFails, Descend, FollowLink, Stat, Open, Exists, Return
<1>3. CASE LinkFrom(t) \/ (\E i \in Id : CreateNode(t, i)) \/ LinkInc(t) \/ Denied(t)
  BY <1>3 DEF LinkFrom, CreateNode, LinkInc, Denied, Return
<1>4. CASE AddEntry(t) \/ DeleteCheck(t) \/ Unlink(t) \/ LinkDec(t)
  BY <1>4 DEF AddEntry, DeleteCheck, Unlink, LinkDec, Return
<1>5. CASE ReleaseNode(t) \/ DestroyNode(t) \/ Close(t)
  BY <1>5 DEF ReleaseNode, DestroyNode, Close
<1>6. CASE \E c \in Call : Begin(t, c)
  <2>1. raced \in Nat
    BY VFSAssumption DEF TypeOK
  <2> QED
    BY <1>6, <2>1 DEF Begin
<1> QED
  BY <1>1, <1>2, <1>3, <1>4, <1>5, <1>6, Zenon DEF Acts, Step

\* The invariant holds as long as no calls in conflict have run at the same time, for
\* any number of threads, names and nodes and any calls.
THEOREM VFSInductive == Spec => [](raced = 0 => Inv)
<1>1. Own /\ (raced = 0 => Inv) /\ [Next]_vars => (raced = 0 => Inv)'
  <2> SUFFICES ASSUME Own, raced = 0 => Inv, [Next]_vars, raced' = 0 PROVE Inv'
    OBVIOUS
  <2>1. CASE UNCHANGED vars
    <3>1. raced' = raced
      BY <2>1 DEF vars, fsVars
    <3> QED
      BY <2>1, <3>1, StutterInv
  <2>2. CASE Next
    <3>1. PICK t \in Thread : Acts(t)
      BY <2>2 DEF Next, Acts
    <3>2. raced = 0
      BY <3>1, RacedStays DEF Own
    <3> QED
      BY <3>1, <3>2, ActsInv
  <2> QED
    BY <2>1, <2>2
<1>2. Init => (raced = 0 => Inv)
  BY InitInv
<1> QED
  BY <1>1, <1>2, OwnInductive, PTL DEF Spec
-------------------------------------------------------------------------------
\* Every variable has its type, whatever calls run at the same time; no refCount falls
\* below 0.
THEOREM VFSTypeCorrect == Spec => []TypeOK
<1>1. Own => TypeOK
  BY DEF Own
<1> QED
  BY <1>1, OwnInductive, PTL

\* refCount of every Node is the number of references that calls and descriptors hold
\* and of those left behind by a Delete that found its name gone (AcquireNode,
\* ReleaseNode, and every return of the calls, racing ones included).
THEOREM VFSRefCount == Spec => []RefCountExact
<1>1. Own => RefCountExact
  BY DEF Own, Refs, RefCountExact, TypeOK
<1> QED
  BY <1>1, OwnInductive, PTL

\* No Node is deleted while somebody holds a reference of it, and no call looks at a
\* Node that has not been read (ReleaseNode, AcquireNode), racing calls included.
THEOREM VFSHeldAlive == Spec => []HeldNodeAlive
<1>1. Own => HeldNodeAlive
  <2> SUFFICES ASSUME Own PROVE HeldNodeAlive
    OBVIOUS
  <2>1. ASSUME NEW n \in NodeId \ cached PROVE References(n) = 0 /\ lost[n] = 0
    <3>1. refCount[n] = References(n) + lost[n] /\ refCount[n] = 0 /\ lost[n] \in Nat
      BY <2>1 DEF Own, Refs, TypeOK
    <3>2. CASE Thread = {}
      <4>1. /\ {t \in Thread : cur[t] = n} = {}
            /\ {t \in Thread : file[t] = n /\ pc[t] # "next"} = {}
            /\ {t \in Thread : src[t] = n} = {}
            /\ {t \in Thread : opened[t] = n} = {}
            /\ {q \in Thread \X (1 .. 3) : Owes(q[1], q[2], n)} = {}
        BY <3>2
      <4>2. Cardinality({}) = 0
        BY FS_EmptySet
      <4>3. References(n) = 0
        BY <4>1, <4>2 DEF References
      <4> QED
        BY <3>1, <4>3
    <3>3. CASE Thread # {}
      <4>1. References(n) \in Nat
        BY <3>3, HeldCounted
      <4> QED
        BY <3>1, <4>1
    <3> QED
      BY <3>2, <3>3
  <2>2. \A t \in Thread : pc[t] \notin {"load", "wait"} /\ cur[t] # None => ready[cur[t]]
    BY DEF Own, Ready
  <2> QED
    BY <2>1, <2>2 DEF HeldNodeAlive
<1> QED
  BY <1>1, OwnInductive, PTL

\* As long as no calls in conflict have run at the same time, linkCount of every node
\* but the root's is the number of entries that name it and of the calls between the
\* count and the entry (CreateNode, CreateHardLink, Delete).
THEOREM VFSLinkCount == Spec => []LinkCountExact
<1>1. (raced = 0 => Inv) => LinkCountExact
  <2> SUFFICES ASSUME Inv, NEW n \in cached \ {Root}, ready[n]
               PROVE  linkCount[n] =
                          Cardinality(UNION {{<<d, k>> : k \in {j \in 1 .. Len(dir[d]) : dir[d][j].id = n}}
                                               : d \in stored})
                        + Cardinality({t \in Thread : pc[t] \in {"add", "unlinked"} /\ file[t] = n})
    BY DEF LinkCountExact
  <2>1. Counted /\ \A d \in stored : Unique(d)
    BY DEF Inv, Entries, Unique
  <2>2. linkCount[n] = Cardinality({l \in Links : l.id = n}) + Cardinality(Pending(n))
    BY <2>1 DEF Counted
  <2>3. Cardinality(UNION {{<<d, k>> : k \in {j \in 1 .. Len(dir[d]) : dir[d][j].id = n}}
                             : d \in stored})
          = Cardinality({l \in Links : l.id = n})
    BY <2>1, PlacesOfEntries DEF Counted
  <2> QED
    BY <2>2, <2>3, Zenon DEF Pending
<1> QED
  BY <1>1, VFSInductive, PTL
-------------------------------------------------------------------------------
\* Actions that neither make, free, name, open nor close a file.
Unseen(t) ==
  \/ AcquireRoot(t) \/ AcquireNext(t) \/ ReadNode(t) \/ NodeReady(t)
  \/ Walk(t) \/ WalkFails(t) \/ Descend(t) \/ FollowLink(t)
  \/ Stat(t) \/ Exists(t) \/ LinkFrom(t) \/ LinkInc(t) \/ Denied(t)
  \/ DeleteCheck(t) \/ LinkDec(t) \/ ReleaseNode(t)
  \/ \E c \in Call : Begin(t, c)

\* They are not seen in the name space.
LEMMA UnseenStep ==
  ASSUME NEW t \in Thread, Unseen(t)
  PROVE  UNCHANGED N!vars
<1>1. stored' = stored /\ dir' = dir /\ opened' = opened
  BY DEF Unseen, fsVars, AcquireRoot, AcquireNext, AcquireNode, ReadNode, NodeReady, Walk,
       WalkFails, Descend, FollowLink, Stat, Exists, LinkFrom, LinkInc, Denied,
       DeleteCheck, LinkDec, ReleaseNode, Begin, Return
<1> QED
  BY <1>1, LinksSame DEF N!vars

\* CreateNode makes a file that has no name.
LEMMA MakeSeen ==
  ASSUME Inv, NEW t \in Thread, NEW i \in Id, CreateNode(t, i)
  PROVE  N!Make(i)
<1>1. /\ i \notin stored /\ stored' = stored \cup {i} /\ opened' = opened
      /\ dir' = [dir EXCEPT ![i] = <<>>]
  BY DEF CreateNode, Set
<1>2. Links' = Links
  BY <1>1, LinksCreated DEF Inv, NodeId
<1> QED
  BY <1>1, <1>2 DEF N!Make

\* AddEntry gives a file a name that the directory does not have.
LEMMA EnterSeen ==
  ASSUME Inv, NEW t \in Thread, AddEntry(t)
  PROVE  \E e \in N!Entry : N!Enter(e)
<1>1. /\ pc[t] = "add" /\ stored' = stored /\ opened' = opened
      /\ dir' = [dir EXCEPT ![cur[t]] = Append(dir[cur[t]], [name |-> name[t], id |-> file[t]])]
  BY DEF AddEntry, Set
<1>2. TypeOK /\ Nodes /\ Shape(t) /\ cached \subseteq stored
  BY DEF Inv, Nodes
<1>3. cur[t] \in NodeId /\ file[t] \in Id /\ name[t] \in Name
  BY <1>1, <1>2 DEF Shape
<1>4. cur[t] \in stored /\ file[t] \in stored
  BY <1>1, <1>2, <1>3, UsedCached, VFSAssumption DEF NodeId
<1>5. \A l \in Links : ~(l.dir = cur[t] /\ l.name = name[t])
  BY <1>1 DEF Inv, Located, Stands
<1>6. Links' = Links \cup {[dir |-> cur[t], name |-> name[t], id |-> file[t]]}
  BY <1>1, <1>2, <1>3, <1>4, LinksAdded
<1>7. PICK e : e = [dir |-> cur[t], name |-> name[t], id |-> file[t]]
  OBVIOUS
<1>8. /\ e \in N!Entry /\ e.id \in stored /\ e.dir \in stored
      /\ \A l \in Links : ~(l.dir = e.dir /\ l.name = e.name)
  BY <1>3, <1>4, <1>5, <1>7 DEF N!Entry, NodeId
<1>9. N!Enter(e)
  BY <1>1, <1>6, <1>7, <1>8 DEF N!Enter
<1> QED
  BY <1>8, <1>9

\* Unlink removes a name, and that of a directory only when it has no entries.
LEMMA RemoveSeen ==
  ASSUME Inv, NEW t \in Thread, Unlink(t)
  PROVE  \E e \in N!Entry : N!Remove(e)
<1>1. pc[t] = "unlink" /\ stored' = stored /\ opened' = opened
  BY DEF Unlink
<1>2. PICK place \in [NodeId -> Seq(Name)] : Stands(t, place)
  BY DEF Inv, Located
<1>3. TypeOK /\ Nodes /\ Entries /\ Shape(t)
  BY DEF Inv
<1>4. /\ cur[t] \in stored
      /\ Find(cur[t], name[t]) # 0
      /\ Find(cur[t], name[t]) \in 1 .. Len(dir[cur[t]])
      /\ dir[cur[t]][Find(cur[t], name[t])].name = name[t]
      /\ dir[cur[t]][Find(cur[t], name[t])].id = file[t]
  BY <1>1, <1>2, <1>3, FoundThere
<1>5. dir' = [dir EXCEPT ![cur[t]] = RemoveAt(dir[cur[t]], Find(cur[t], name[t]))]
  BY <1>4 DEF Unlink, Set
<1>6. Unique(cur[t])
  BY <1>3, <1>4 DEF Entries, Unique
<1>7. Links' = Links \ {[dir |-> cur[t], name |-> name[t], id |-> file[t]]}
  BY <1>1, <1>3, <1>4, <1>5, <1>6, LinksRemoved
<1>8. PICK e : e = [dir |-> cur[t], name |-> name[t], id |-> file[t]]
  OBVIOUS
<1>9. e \in Links
  BY <1>1, <1>2, <1>8 DEF Stands, Linked
<1>10. e \in N!Entry
  <2>1. cur[t] \in NodeId /\ file[t] \in Id /\ name[t] \in Name
    BY <1>1, <1>3 DEF Shape
  <2> QED
    BY <1>8, <2>1 DEF N!Entry, NodeId
<1>11. \A l \in Links : l.dir # e.id
  <2> SUFFICES ASSUME NEW l \in Links, l.dir = file[t] PROVE FALSE
    BY <1>8
  <2>1. type[file[t]] = "dir"
    BY <1>3 DEF Entries
  <2> QED
    BY <1>1, <1>2, <2>1 DEF Stands
<1>12. N!Remove(e)
  BY <1>1, <1>7, <1>8, <1>9, <1>11 DEF N!Remove
<1> QED
  BY <1>10, <1>12

\* Open opens a file that has a name.
LEMMA OpenSeen ==
  ASSUME Inv, NEW t \in Thread, Open(t)
  PROVE  \E i \in Id : N!Open(t, i)
<1>1. /\ pc[t] = "found" /\ stored' = stored /\ dir' = dir
      /\ opened' = [opened EXCEPT ![t] = file[t]]
  BY DEF Open, Resolved, Return, Set, fsVars
<1>2. file[t] \in Id /\ Linked(cur[t], name[t], file[t])
  BY <1>1 DEF Inv, Shape, Located, Stands
<1>3. PICK l \in Links : l = [dir |-> cur[t], name |-> name[t], id |-> file[t]]
  BY <1>2 DEF Linked
<1>4. file[t] \in {m.id : m \in Links}
  BY <1>3
<1>5. Links' = Links
  BY <1>1, LinksSame
<1> QED
  BY <1>1, <1>2, <1>4, <1>5 DEF N!Open

\* DestroyNode frees a file that has neither a name nor a descriptor.
LEMMA FreeSeen ==
  ASSUME Inv, NEW t \in Thread, DestroyNode(t)
  PROVE  \E i \in Id : N!Free(i)
<1>1. PICK n : n = Head(todo[t])
  OBVIOUS
<1>2. pc[t] = "destroy" /\ stored' = stored \ {n} /\ dir' = dir /\ opened' = opened
  BY <1>1 DEF DestroyNode
<1>3. TypeOK /\ Nodes /\ Entries /\ Knows(t)
  BY DEF Inv
<1>4. n \in stored \ cached /\ n # Root /\ ~Named(n)
  BY <1>1, <1>2, <1>3 DEF Knows
<1>5. n \in Id
  BY <1>3, <1>4 DEF TypeOK, NodeId
<1>6. \A l \in Links : l.id # n /\ l.dir # n
  BY <1>3, <1>4 DEF Named, Rooted, Entries
<1>7. Links' = Links
  BY <1>2, <1>6, LinksFreed
<1>8. \A u \in Thread : opened[u] # n
  <2> SUFFICES ASSUME NEW u \in Thread, opened[u] = n PROVE FALSE
    OBVIOUS
  <2>1. opened[u] # None
    BY <1>5, VFSAssumption DEF NodeId
  <2> QED
    BY <1>3, <1>4, <2>1, UsedCached
<1>9. N!Free(n)
  BY <1>2, <1>4, <1>6, <1>7, <1>8 DEF N!Free
<1> QED
  BY <1>5, <1>9

\* Close closes.
LEMMA CloseSeen ==
  ASSUME NEW t \in Thread, Close(t)
  PROVE  N!Close(t)
<1>1. stored' = stored /\ dir' = dir /\ opened' = [opened EXCEPT ![t] = None]
  BY DEF Close, Set, fsVars
<1> QED
  BY <1>1, LinksSame DEF N!Close

\* At the start there are no names and only the root.
LEMMA NamesInit == Init => N!Init
<1> SUFFICES ASSUME Init PROVE N!Init
  OBVIOUS
<1>1. stored = {Root} /\ dir = [i \in NodeId |-> <<>>] /\ opened = [t \in Thread |-> None]
  BY DEF Init
<1>2. dir[Root] = <<>>
  BY <1>1 DEF NodeId
<1>3. Links = {}
  BY <1>1, <1>2 DEF Links
<1> QED
  BY <1>1, <1>3 DEF N!Init

\* Every step of a call is one of the name space, or none.
LEMMA NamesStep == Inv /\ [Next]_vars => [N!Next]_N!vars
<1> SUFFICES ASSUME Inv, [Next]_vars PROVE N!Next \/ UNCHANGED N!vars
  OBVIOUS
<1>1. CASE UNCHANGED vars
  <2>1. stored' = stored /\ dir' = dir /\ opened' = opened
    BY <1>1 DEF vars, fsVars
  <2> QED
    BY <2>1, LinksSame DEF N!vars
<1>2. CASE Next
  <2>1. PICK t \in Thread : Acts(t)
    BY <1>2 DEF Next, Acts
  <2>2. ASSUME NEW i \in Id, CreateNode(t, i) PROVE N!Next
    BY <2>2, MakeSeen DEF N!Next
  <2>3. CASE AddEntry(t)
    BY <2>3, EnterSeen DEF N!Next
  <2>4. CASE Unlink(t)
    BY <2>4, RemoveSeen DEF N!Next
  <2>5. CASE Open(t)
    BY <2>5, OpenSeen DEF N!Next
  <2>6. CASE Close(t)
    BY <2>6, CloseSeen DEF N!Next
  <2>7. CASE DestroyNode(t)
    BY <2>7, FreeSeen DEF N!Next
  <2>8. CASE Unseen(t)
    BY <2>8, UnseenStep
  <2> QED
    BY <2>1, <2>2, <2>3, <2>4, <2>5, <2>6, <2>7, <2>8, Zenon DEF Acts, Step, Unseen
<1> QED
  BY <1>1, <1>2

\* The calls together give the name space of module NameSpace, whatever the
\* interleaving of their walks, for any number of threads, names, nodes and any calls,
\* as long as no calls in conflict have run at the same time: names are unique and name files that exist,
\* a directory with entries keeps its name, and a file is freed only when its last
\* name and its last descriptor are gone (AcquirePath, Open, Delete, CreateHardLink).
THEOREM VFSRefines == Spec => ImplementsNames
<1>1. (raced = 0 => Inv) /\ [Next]_vars => [raced = 0 => N!Next]_(N!vars)
  BY NamesStep
<1> QED
  BY <1>1, VFSInductive, NamesInit, PTL DEF Spec, ImplementsNames
===============================================================================
