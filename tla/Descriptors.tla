------------------------------ MODULE Descriptors ------------------------------
(***************************************************************************)
(* File descriptors: the FileDescriptor objects of the VFS (fs/VFS.cpp),    *)
(* which threads and processes share by counting references, and the tables *)
(* of the processes that number them (task/Scheduler.cpp).                  *)
(*                                                                          *)
(* A section under the lock of a table is one action.  copyfd              *)
(* (ThreadReplaceFileDescriptor) searches the table under the lock and then *)
(* works on it without, through pointers into the vector, in the steps that *)
(* pc names.  Such a pointer is an index: an insertion moves entries under  *)
(* it, or the vector to other memory.  Through a pointer into the old       *)
(* memory anything is read, and what is written is lost.                    *)
(*                                                                          *)
(* Nothing keeps other calls away from a copyfd.  The ghost variable spoilt *)
(* has the descriptors whose count the code may get wrong by this.  Whether *)
(* they still exist, and their count, is not known to the model any more;   *)
(* what is claimed is claimed of all others.                                *)
(***************************************************************************)
EXTENDS Integers, Sequences, FiniteSets, SequencesExt

CONSTANTS Thread, Main,  \* Main is the first thread
          Table,         \* ThreadFileDescriptors objects
          Desc, None,
          Fd,            \* the numbers programs pass to calls
          MaxEntries,    \* the entries a table may come to have
          MaxForked      \* the entries with which a process may be forked

ASSUME DescriptorsAssumption ==
         /\ Main \in Thread
         /\ IsFiniteSet(Thread) /\ IsFiniteSet(Table)
         /\ Table # {}
         /\ None \notin Desc \cup Table
         /\ Fd \subseteq Int
         /\ MaxEntries \in Nat

VARIABLES live, refCount,     \* FileDescriptor objects; spoilt ones are not in live
          fds,                \* fds[p]: the entries [id, desc] of table p
          users,              \* refCount of the tables
          tab,                \* fds of a thread, None without a thread
          pc,
          held,               \* descriptors opened and not yet in the table
          sys,                \* sysDesc
          old,                \* the number oldPDesc
          oldFD, newFD,       \* pointers into the vector; 0 is null
          reg,                \* refCount as Close has read it
          alone,              \* calls begun by the only thread of their table
          spoilt              \* descriptors whose count may have gone wrong

descVars == <<live, refCount>>
tableVars == <<fds, users, tab>>
ptrVars == <<old, oldFD, newFD, reg>>
ghostVars == <<alone, spoilt>>
vars == <<descVars, tableVars, pc, held, sys, ptrVars, ghostVars>>

Entry == [id : Int, desc : Desc \cup {None}]

\* A pointer into memory that the vector has left.
Dangling == -1
Pointer == Dangling .. MaxEntries

\* The points of ThreadReplaceFileDescriptor.
CopyPC == {"replace", "insert", "copy", "fill", "addref", "store", "closed", "counted"}

TypeOK ==
  /\ live \subseteq Desc
  /\ refCount \in [Desc -> Nat]
  /\ fds \in [Table -> Seq(Entry)]
  /\ users \in [Table -> Nat]
  /\ tab \in [Thread -> Table \cup {None}]
  /\ pc \in [Thread -> {"idle", "add", "added", "use"} \cup CopyPC]
  /\ held \in [Thread -> Seq(Desc)]
  /\ sys \in [Thread -> Desc \cup {None}]
  /\ old \in [Thread -> Fd \cup {None}]
  /\ oldFD \in [Thread -> Pointer]
  /\ newFD \in [Thread -> Pointer]
  /\ reg \in [Thread -> Nat]
  /\ alone \subseteq Thread
  /\ spoilt \subseteq Desc

Init ==
  /\ live = {}
  /\ refCount = [d \in Desc |-> 0]
  /\ fds = [p \in Table |-> <<>>]
  /\ \E p \in Table : /\ users = [q \in Table |-> IF q = p THEN 1 ELSE 0]
                      /\ tab = [t \in Thread |-> IF t = Main THEN p ELSE None]
  /\ pc = [t \in Thread |-> "idle"]
  /\ held = [t \in Thread |-> <<>>]
  /\ sys = [t \in Thread |-> None]
  /\ old = [t \in Thread |-> None]
  /\ oldFD = [t \in Thread |-> 0]
  /\ newFD = [t \in Thread |-> 0]
  /\ reg = [t \in Thread |-> 0]
  /\ alone = {}
  /\ spoilt = {}

Set(f, t, v) == f' = [f EXCEPT ![t] = v]

Idle(t) == tab[t] # None /\ pc[t] = "idle"

\* The descriptors in L are alive with the counts f, where these are known.
Recount(L, f) ==
  /\ live' = L \ spoilt'
  /\ refCount' = [d \in Desc |-> IF d \in spoilt' THEN 0 ELSE f[d]]

\* AddRef(d); of a null pointer it does nothing.
AddRef(d) == [e \in Desc |-> IF e = d THEN refCount[e] + 1 ELSE refCount[e]]

\* A call of t begins; nobody else can come to its table if t is alone in it.
Begin(t) == alone' = IF users[tab[t]] = 1 THEN alone \cup {t} ELSE alone
-------------------------------------------------------------------------------
(***************************************************************************)
(* The vector of a table.                                                  *)
(***************************************************************************)

\* The memory of a vector with n entries is used up; it doubles.
Full(n) == n = 0 \/ \E e \in 0 .. n : n = 2 ^ e

\* The pointers f after an insertion into table p.
Moved(f, p) ==
  [u \in Thread |-> IF tab[u] = p /\ f[u] # 0 /\ Full(Len(fds[p])) THEN Dangling ELSE f[u]]

\* Entry e comes before place k of table p.
Insert(p, k, e) ==
  /\ Len(fds[p]) < MaxEntries
  /\ Set(fds, p, InsertAt(fds[p], k, e))

Slot(t, k) == fds[tab[t]][k].desc

\* What may be read through the pointer k; a null pointer is tested for first.
Pointee(t, k) == CASE k = Dangling -> Desc \cup {None}
                   [] k = 0        -> {None}
                   [] OTHER        -> {Slot(t, k)}

\* Entry k of table p names d from now on, under its number.
Assign(p, k, d) == Set(fds, p, [fds[p] EXCEPT ![k] = [id |-> fds[p][k].id, desc |-> d]])

\* d is written through the pointer k of t.
Store(t, k, d) == IF k = Dangling THEN UNCHANGED fds ELSE Assign(tab[t], k, d)

\* What is lost by writing there.
Overwritten(t, k) == IF k = Dangling THEN {} ELSE {Slot(t, k)}

\* t touches the descriptors in D, which it has from the pointer k.
Spoil(t, k, D) ==
  spoilt' = IF t \in alone /\ k # Dangling THEN spoilt ELSE spoilt \cup (D \cap Desc)

\* The first entry with number i, or 0.
EntryOf(p, i) == SelectInSeq(fds[p], LAMBDA e : e.id = i)

\* The last entry with number i, or 0: copyfd searches to the end.
LastEntryOf(p, i) == SelectLastInSeq(fds[p], LAMBDA e : e.id = i)

\* How often table p names descriptor d.
Uses(p, d) == Cardinality({k \in DOMAIN fds[p] : fds[p][k].desc = d})
-------------------------------------------------------------------------------
(***************************************************************************)
(* Opening and using.                                                      *)
(***************************************************************************)

\* VFS::Open, and CreatePipe with both ends: descriptors nobody else knows.
Open(t, s) ==
  /\ Idle(t)
  /\ \A k \in DOMAIN s : s[k] \notin live \cup spoilt
  /\ live' = live \cup Range(s)
  /\ refCount' = [d \in Desc |-> IF d \in Range(s) THEN 1 ELSE refCount[d]]
  /\ Set(held, t, s)
  /\ Set(pc, t, "add")
  /\ UNCHANGED <<tableVars, sys, ptrVars, ghostVars>>

\* FindFreeFD: the first place whose number is not its own.  A closed entry keeps
\* its number, and behind a negative number no place has its own.
FindFreeFD(p) ==
  CHOOSE k \in 1 .. Len(fds[p]) + 1 :
    /\ k <= Len(fds[p]) => fds[p][k].id # k - 1
    /\ \A j \in 1 .. k - 1 : fds[p][j].id = j - 1

\* ThreadAddFileDescriptor enters the first of the descriptors that are held.
ThreadAddFileDescriptor(t) ==
  /\ pc[t] \in {"add", "added"}
  /\ LET p == tab[t]
         k == FindFreeFD(p)
     IN  /\ Insert(p, k, [id |-> k - 1, desc |-> Head(held[t])])
         /\ oldFD' = Moved(oldFD, p)
         /\ newFD' = Moved(newFD, p)
  /\ Set(held, t, Tail(held[t]))
  /\ Set(pc, t, IF Tail(held[t]) = <<>> THEN "idle" ELSE "added")
  /\ UNCHANGED <<descVars, users, tab, sys, old, reg, ghostVars>>

\* Read, Write, Seek and DeviceCommand look the descriptor up and use it ...
ThreadGetSystemFileDescriptor(t, i) ==
  /\ Idle(t)
  /\ LET k == EntryOf(tab[t], i)
     IN  /\ k # 0 /\ Slot(t, k) # None
         /\ Set(sys, t, Slot(t, k))
  /\ Set(pc, t, "use")
  /\ Begin(t)
  /\ UNCHANGED <<descVars, tableVars, held, ptrVars, spoilt>>

\* ... until they return, pipes and devices after any time.
UseReturn(t) ==
  /\ pc[t] = "use"
  /\ Set(sys, t, None)
  /\ Set(pc, t, "idle")
  /\ alone' = alone \ {t}
  /\ UNCHANGED <<descVars, tableVars, held, ptrVars, spoilt>>

\* VFS::Close(d) where nothing comes between: the last one deletes d.
Close(d) ==
  Recount(IF refCount[d] = 1 THEN live \ {d} ELSE live,
          [refCount EXCEPT ![d] = refCount[d] - 1])

\* Exec opens its file, reads it and closes it, without a number.
ExecClose(t) ==
  /\ pc[t] = "add"
  /\ Len(held[t]) = 1
  /\ UNCHANGED <<tableVars, sys, ptrVars, ghostVars>>
  /\ Close(Head(held[t]))
  /\ Set(held, t, <<>>)
  /\ Set(pc, t, "idle")

\* Mutant: the entry keeps the descriptor that is closed.
ThreadCloseFileDescriptorKept(t, i) ==
  /\ Idle(t)
  /\ UNCHANGED <<tableVars, pc, held, sys, ptrVars, ghostVars>>
  /\ LET k == EntryOf(tab[t], i)
         d == Slot(t, k)
     IN  k # 0 /\ d # None /\ Close(d)

\* ThreadCloseFileDescriptor with VFS::Close, under the lock of the table.
ThreadCloseFileDescriptor(t, i) ==
  /\ Idle(t)
  /\ UNCHANGED <<users, tab, pc, held, sys, ptrVars, ghostVars>>
  /\ LET k == EntryOf(tab[t], i)
         d == Slot(t, k)
     IN  k # 0 /\ d # None /\ Assign(tab[t], k, None) /\ Close(d)
-------------------------------------------------------------------------------
(***************************************************************************)
(* ThreadReplaceFileDescriptor: copyfd(i, j) makes i a copy of j.          *)
(***************************************************************************)

\* Both entries are looked up under the lock.
ReplaceFind(t, i, j) ==
  /\ Idle(t)
  /\ i # j
  /\ Set(oldFD, t, LastEntryOf(tab[t], i))
  /\ Set(newFD, t, LastEntryOf(tab[t], j))
  /\ Set(old, t, i)
  /\ Set(pc, t, "replace")
  /\ Begin(t)
  /\ UNCHANGED <<descVars, tableVars, held, sys, reg, spoilt>>

\* copyfd returns.
ReplaceReturn(t) ==
  /\ Set(pc, t, "idle")
  /\ Set(oldFD, t, 0)
  /\ Set(newFD, t, 0)
  /\ Set(old, t, None)
  /\ Set(sys, t, None)
  /\ alone' = alone \ {t}

\* There is no entry to copy, or it is empty.
ReplaceInvalid(t) ==
  /\ pc[t] = "replace"
  /\ None \in Pointee(t, newFD[t])
  /\ ReplaceReturn(t)
  /\ UNCHANGED <<descVars, tableVars, held, reg, spoilt>>

\* The entry to copy is open.  If there is none to copy to, the iterator from
\* which its place is searched is taken before the lock.
ReplaceValid(t) ==
  /\ pc[t] = "replace"
  /\ Pointee(t, newFD[t]) # {None}
  /\ IF oldFD[t] # 0
       THEN Set(pc, t, "copy") /\ Set(old, t, None) /\ UNCHANGED oldFD
       ELSE Set(pc, t, "insert") /\ Set(oldFD, t, 1) /\ UNCHANGED old
  /\ UNCHANGED <<descVars, tableVars, held, sys, newFD, reg, ghostVars>>

\* Where the entry for number old belongs; from an iterator into memory that the
\* vector has left, anywhere.
InsertPlaces(t) ==
  LET s == fds[tab[t]]
      k == SelectInSeq(s, LAMBDA e : e.id > old[t])
  IN  IF oldFD[t] = Dangling THEN 1 .. Len(s) + 1
      ELSE {IF k = 0 THEN Len(s) + 1 ELSE k}

\* The entry to copy to is made, under the lock; newFD now refers to what has come
\* to its place, or to nothing.
ReplaceInsert(t) ==
  /\ pc[t] = "insert"
  /\ \E k \in InsertPlaces(t) :
       /\ Insert(tab[t], k, [id |-> old[t], desc |-> None])
       /\ oldFD' = [Moved(oldFD, tab[t]) EXCEPT ![t] = k]
  /\ newFD' = Moved(newFD, tab[t])
  /\ Set(old, t, None)
  /\ Set(pc, t, "copy")
  /\ UNCHANGED <<descVars, users, tab, held, sys, reg, ghostVars>>

\* The entry is empty: it is given what newFD refers to ...
CopyEmpty(t) ==
  /\ pc[t] = "copy"
  /\ None \in Pointee(t, oldFD[t])
  /\ \E n \in Pointee(t, newFD[t]) :
       /\ Set(sys, t, n)
       /\ Spoil(t, newFD[t], {n})
  /\ Recount(live, refCount)
  /\ Set(newFD, t, 0)
  /\ Set(pc, t, "fill")
  /\ UNCHANGED <<tableVars, held, old, oldFD, reg, alone>>

CopyFill(t) ==
  /\ pc[t] = "fill"
  /\ Store(t, oldFD[t], sys[t])
  /\ Spoil(t, oldFD[t], Overwritten(t, oldFD[t]))
  /\ Recount(live, refCount)
  /\ Set(pc, t, "addref")
  /\ UNCHANGED <<users, tab, held, sys, ptrVars, alone>>

\* ... and that is counted after it.
CopyAddRef(t) ==
  /\ pc[t] = "addref"
  /\ UNCHANGED <<tableVars, held, reg, spoilt>>
  /\ Recount(live, AddRef(sys[t]))
  /\ ReplaceReturn(t)

\* Both entries name the same descriptor.
CopySame(t) ==
  /\ pc[t] = "copy"
  /\ Desc \cap Pointee(t, oldFD[t]) \cap Pointee(t, newFD[t]) # {}
  /\ ReplaceReturn(t)
  /\ UNCHANGED <<descVars, tableVars, held, reg, spoilt>>

\* Close of what the entry names: at -O1 the count is read ...
CopyClose(t) ==
  /\ pc[t] = "copy"
  /\ \E d \in Desc \cap Pointee(t, oldFD[t]) :
       /\ Pointee(t, newFD[t]) # {d}
       /\ Set(sys, t, d)
       /\ Spoil(t, oldFD[t], {d})
       /\ Recount(live, refCount)
       /\ Set(reg, t, refCount'[d])
  /\ Set(pc, t, "store")
  /\ UNCHANGED <<tableVars, held, old, oldFD, newFD, alone>>

\* ... and written back, over what others have counted since; at 0 the
\* descriptor is deleted.
CloseStore(t) ==
  /\ pc[t] = "store"
  /\ spoilt' = IF reg[t] = refCount[sys[t]] THEN spoilt ELSE spoilt \cup {sys[t]}
  /\ Recount(IF reg[t] = 1 THEN live \ {sys[t]} ELSE live,
             [refCount EXCEPT ![sys[t]] = reg[t] - 1])
  /\ Set(sys, t, None)
  /\ Set(reg, t, 0)
  /\ Set(pc, t, "closed")
  /\ UNCHANGED <<tableVars, held, old, oldFD, newFD, alone>>

\* AddRef of what newFD refers to ...
CopyCount(t) ==
  /\ pc[t] = "closed"
  /\ \E n \in Pointee(t, newFD[t]) :
       /\ Set(sys, t, n)
       /\ Spoil(t, newFD[t], {n})
       /\ Recount(live, AddRef(n))
  /\ Set(pc, t, "counted")
  /\ UNCHANGED <<tableVars, held, ptrVars, alone>>

\* ... and the entry is given what newFD refers to by then.
CopyAssign(t) ==
  /\ pc[t] = "counted"
  /\ \E n \in Pointee(t, newFD[t]) :
       /\ Store(t, oldFD[t], n)
       /\ Spoil(t, newFD[t], {n} \cup Overwritten(t, oldFD[t]))
  /\ Recount(live, refCount)
  /\ ReplaceReturn(t)
  /\ UNCHANGED <<users, tab, held, reg>>
-------------------------------------------------------------------------------
(***************************************************************************)
(* Threads and processes come and go.                                      *)
(***************************************************************************)

\* Mutant: the new thread is not counted.
CloneShareUncounted(t, u) ==
  /\ Idle(t) /\ tab[u] = None
  /\ Set(tab, u, tab[t])
  /\ UNCHANGED <<descVars, fds, users, pc, held, sys, ptrVars, ghostVars>>

\* CloneThread for a thread of the same process: the table is shared.
CloneShare(t, u) ==
  /\ Idle(t) /\ tab[u] = None
  /\ Set(tab, u, tab[t])
  /\ Set(users, tab[t], users[tab[t]] + 1)
  /\ UNCHANGED <<descVars, fds, pc, held, sys, ptrVars, ghostVars>>

\* The open entries of table p, as a child gets them: in their order.
Copies(p) ==
  LET K == {k \in DOMAIN fds[p] : fds[p][k].desc # None}
  IN  {[i \in DOMAIN f |-> fds[p][f[i]]] :
         f \in {g \in [1 .. Cardinality(K) -> K] :
                  \A i, j \in DOMAIN g : i < j => g[i] < g[j]}}

\* Mutant: the child's entries are not counted.
CloneForkUncounted(t, u, q) ==
  /\ Idle(t) /\ tab[u] = None /\ users[q] = 0
  /\ Len(fds[tab[t]]) <= MaxForked
  /\ \E s \in Copies(tab[t]) : Set(fds, q, s)
  /\ Set(users, q, 1)
  /\ Set(tab, u, q)
  /\ UNCHANGED <<descVars, pc, held, sys, ptrVars, ghostVars>>

\* CloneThread for a process: open entries are copied under the parent's lock.
CloneFork(t, u, q) ==
  /\ Idle(t) /\ tab[u] = None /\ users[q] = 0
  /\ Len(fds[tab[t]]) <= MaxForked
  /\ \E s \in Copies(tab[t]) : Set(fds, q, s)
  /\ UNCHANGED <<pc, held, sys, ptrVars, ghostVars>>
  /\ Recount(live, [d \in Desc |-> refCount[d] + Uses(tab[t], d)])
  /\ Set(users, q, 1)
  /\ Set(tab, u, q)

\* A thread leaves its table; the last one closes every descriptor in it, as often
\* as it is named.
Leave(t) ==
  LET p == tab[t]
  IN  /\ IF users[p] = 1
           THEN /\ Recount({d \in live : refCount[d] \notin 1 .. Uses(p, d)},
                           [d \in Desc |-> refCount[d] - Uses(p, d)])
                /\ Set(fds, p, <<>>)
           ELSE Recount(live, refCount) /\ UNCHANGED fds
      /\ Set(users, p, users[p] - 1)
      /\ Set(tab, t, None)

\* ThreadExit and ProcessDoExit.
ThreadExit(t) ==
  /\ Idle(t)
  /\ UNCHANGED <<pc, held, sys, ptrVars, ghostVars>>
  /\ Leave(t)

\* syscall_pipe cannot write the first number to the program's memory: the thread
\* exits with the second end open for ever.
PipeFault(t) ==
  /\ pc[t] = "added"
  /\ spoilt' = spoilt \cup Range(held[t])
  /\ Leave(t)
  /\ Set(held, t, <<>>)
  /\ Set(pc, t, "idle")
  /\ UNCHANGED <<sys, ptrVars, alone>>

Next ==
  \E t \in Thread :
    \/ \E d \in Desc : Open(t, <<d>>)
    \/ \E d, e \in Desc : d # e /\ Open(t, <<d, e>>)
    \/ ExecClose(t) \/ ThreadAddFileDescriptor(t) \/ UseReturn(t)
    \/ \E i \in Fd : ThreadGetSystemFileDescriptor(t, i) \/ ThreadCloseFileDescriptor(t, i)
    \/ \E i, j \in Fd : ReplaceFind(t, i, j)
    \/ ReplaceInvalid(t) \/ ReplaceValid(t) \/ ReplaceInsert(t)
    \/ CopyEmpty(t) \/ CopyFill(t) \/ CopyAddRef(t) \/ CopySame(t) \/ CopyClose(t)
    \/ CloseStore(t) \/ CopyCount(t) \/ CopyAssign(t)
    \/ \E u \in Thread : CloneShare(t, u) \/ \E q \in Table : CloneFork(t, u, q)
    \/ ThreadExit(t) \/ PipeFault(t)

Spec == Init /\ [][Next]_vars
-------------------------------------------------------------------------------
(***************************************************************************)
(* Properties.                                                             *)
(***************************************************************************)

\* t has closed what its entry at oldFD names, or has not counted it yet.
Unsettled(t, p, k) ==
  /\ t \in alone /\ tab[t] = p /\ oldFD[t] = k
  /\ pc[t] \in {"closed", "counted", "addref"}

\* Entries of table p whose descriptor is counted.
Settled(p) ==
  {k \in DOMAIN fds[p] : fds[p][k].desc # None /\ \A t \in Thread : ~Unsettled(t, p, k)}

\* The counted entries that name d, in all processes, the places in which calls
\* hold d until it is entered, and the calls of copyfd that have counted it.
Names(d) == {n \in Table \X (1 .. MaxEntries) :
               n[2] \in Settled(n[1]) /\ fds[n[1]][n[2]].desc = d}
Opening(d) == {h \in Thread \X {1, 2} : h[2] \in DOMAIN held[h[1]] /\ held[h[1]][h[2]] = d}
Counting(d) == {t \in Thread : pc[t] = "counted" /\ sys[t] = d}

\* The count of a descriptor is the number of table entries that name it, in all
\* processes, and of calls that have opened or copied it and not entered it yet,
\* so that it is deleted when the last of them is gone.  This holds of every
\* descriptor but these: what a copyfd has touched in a process with more threads
\* than one or through a pointer into memory that the vector has left, what was
\* counted while copyfd was writing its count back (VFS.cpp:1445), and the second
\* end of a pipe whose call faulted.
RefsExact ==
  \A d \in Desc \ spoilt :
    (IF d \in live THEN refCount[d] ELSE 0) =
      Cardinality(Names(d)) + Cardinality(Opening(d)) + Cardinality(Counting(d))

\* The descriptor with which the only thread of a process works is not deleted,
\* whatever the processes do that share it (VFS::Close, CloneThread, ThreadExit),
\* unless its count went wrong as above.
UsesLive ==
  \A t \in alone : pc[t] \in {"use", "store"} => sys[t] \in live \cup spoilt
===============================================================================
