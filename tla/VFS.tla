---------------------------------- MODULE VFS ----------------------------------
(***************************************************************************)
(* Nodes and directories of the root file system (fs/VFS.cpp, fs/Node.h,    *)
(* fs/tempfs/TempFS.cpp).  A call walks its path from the root, taking and  *)
(* giving back references of the nodes in the node cache, and then changes  *)
(* a directory.  A section under nodeCacheLock or a dirLock is one action,  *)
(* since its thread is not preempted; pc names the points between them.     *)
(*                                                                         *)
(* Nothing keeps a call away from a name that another one deletes or       *)
(* creates.  raced counts the calls that began when such calls were running *)
(* or later; what needs names kept apart is claimed while it is 0.          *)
(***************************************************************************)
EXTENDS Integers, Sequences, FiniteSets, SequencesExt

CONSTANTS Thread, Name,
          Id, Root,  \* node ids of the file system (addresses of TestNodes)
          None,
          Call,      \* the calls programs make: [op, path, from]
          LinkPath,  \* linkPath of symbolic links
          MaxRest,   \* names that may follow a link before its path gets too long
          MaxRaced   \* calls that may begin in a conflict, or after one

NodeId == Id \cup {Root}

Op == {"stat", "statl", "open", "opencreate", "create", "mkdir", "symlink", "link", "delete"}

\* CreateHardLink walks "from" first; the others have no such path.
ASSUME VFSAssumption ==
         /\ IsFiniteSet(Thread)
         /\ Root \notin Id /\ None \notin NodeId
         /\ Call \subseteq [op : Op, path : Seq(Name), from : Seq(Name)]
         /\ LinkPath \in Seq(Name)
         /\ MaxRest \in Nat /\ MaxRaced \in Nat

VARIABLES stored,     \* ids of the TestNodes that exist
          type, dir,  \* type[i] and the entries of directory i
          cached,     \* ids of the Nodes in nodeCache
          refCount, linkCount, ready,
          locked,     \* directories whose dirLock was taken and not released
          pc,
          call, path, name,  \* the call, the path still to walk, the last name
          cur,        \* currentNode or parentNode
          file,       \* nodeID of the entry, then next, fileNode or newNode
          src,        \* linkFileNode
          todo, then, \* nodes that t will release, and where it goes on
          opened,     \* node of the descriptor that t has open
          raced,      \* calls begun since calls in conflict ran at the same time
          lost        \* references that a call has left behind

fsVars == <<stored, type, dir, locked, raced, lost>>
nodeVars == <<cached, refCount, linkCount, ready>>
callVars == <<call, path, name, cur, file, src>>
vars == <<fsVars, nodeVars, pc, callVars, todo, then, opened>>

PC == {"idle", "root", "load", "wait", "walk", "next", "found", "absent",
       "add", "unlink", "unlinked", "release", "destroy"}

NoCall == [op |-> "close", path |-> <<>>, from |-> <<>>]

TypeOK ==
  /\ stored \subseteq NodeId
  /\ type \in [NodeId -> {"file", "dir", "symlink"}]
  /\ dir \in [NodeId -> Seq([name : Name, id : Id])]
  /\ cached \subseteq NodeId
  /\ refCount \in [NodeId -> Nat]
  /\ linkCount \in [NodeId -> Int]
  /\ ready \in [NodeId -> BOOLEAN]
  /\ locked \subseteq NodeId
  /\ pc \in [Thread -> PC]
  /\ call \in [Thread -> Call \cup {NoCall}]
  /\ path \in [Thread -> Seq(Name)]
  /\ name \in [Thread -> Name \cup {None}]
  /\ cur \in [Thread -> NodeId \cup {None}]
  /\ file \in [Thread -> Id \cup {None}]
  /\ src \in [Thread -> Id \cup {None}]
  /\ todo \in [Thread -> Seq(NodeId)]
  /\ then \in [Thread -> {"idle", "root", "walk", "found"}]
  /\ opened \in [Thread -> Id \cup {None}]
  /\ raced \in 0 .. MaxRaced
  /\ lost \in [NodeId -> Nat]

Init ==
  /\ stored = {Root}
  /\ type = [i \in NodeId |-> IF i = Root THEN "dir" ELSE "file"]
  /\ dir = [i \in NodeId |-> <<>>]
  /\ cached = {}
  /\ refCount = [i \in NodeId |-> 0]
  /\ linkCount = [i \in NodeId |-> 0]
  /\ ready = [i \in NodeId |-> FALSE]
  /\ locked = {}
  /\ pc = [t \in Thread |-> "idle"]
  /\ call = [t \in Thread |-> NoCall]
  /\ path = [t \in Thread |-> <<>>]
  /\ name = [t \in Thread |-> None]
  /\ cur = [t \in Thread |-> None]
  /\ file = [t \in Thread |-> None]
  /\ src = [t \in Thread |-> None]
  /\ todo = [t \in Thread |-> <<>>]
  /\ then = [t \in Thread |-> "idle"]
  /\ opened = [t \in Thread |-> None]
  /\ raced = 0
  /\ lost = [i \in NodeId |-> 0]

Set(f, t, v) == f' = [f EXCEPT ![t] = v]
-------------------------------------------------------------------------------
\* May a symbolic link be met on path p?  Programs make them where they say or,
\* through another link, somewhere below LinkPath.
MeetsLink(p) ==
  \E c \in Call : c.op = "symlink" /\ (IsPrefix(c.path, p) \/ IsPrefix(LinkPath, p))

\* The paths that a walk of p may come to, through the links programs make.
Reach(p) ==
  {p} \cup IF MeetsLink(p)
            THEN {LinkPath \o r : r \in UNION {[1 .. n -> Name] : n \in 0 .. MaxRest}}
            ELSE {}

\* openSymlink: a link at the end of the path is not followed.
KeepsLink(c) == c.op \in {"delete", "statl"}

Makes(c) == c.op \in {"opencreate", "create", "mkdir", "symlink", "link"}

\* c deletes a name that d may walk over, or both create the same name.
Conflict(c, d) ==
  \/ /\ c.op = "delete"
     /\ \E q \in Reach(c.path), p \in Reach(d.path) \cup Reach(d.from) : IsPrefix(q, p)
  \/ Makes(c) /\ Makes(d) /\ Reach(c.path) \cap Reach(d.path) # {}

\* A call runs that is in conflict with c.
Racing(c) ==
  \E u \in Thread : pc[u] # "idle" /\ (Conflict(c, call[u]) \/ Conflict(call[u], c))

\* A call begins: AcquirePath of its (first) path.
Begin(t, c) ==
  /\ pc[t] = "idle"
  /\ c.op \in {"open", "opencreate"} => opened[t] = None
  /\ raced' = IF raced > 0 \/ Racing(c) THEN raced + 1 ELSE 0
  /\ raced' <= MaxRaced
  /\ Set(call, t, c)
  /\ Set(path, t, IF c.op = "link" THEN c.from ELSE c.path)
  /\ Set(pc, t, "root")
  /\ UNCHANGED <<stored, type, dir, locked, lost, nodeVars, name, cur, file, src,
                 todo, then, opened>>

\* Mutant: a node that is found in the cache is not counted.
AcquireNodeUncounted(t, i, next) ==
  /\ Set(then, t, next)
  /\ IF i \in cached
       THEN /\ Set(pc, t, IF ready[i] THEN next ELSE "wait")
            /\ UNCHANGED nodeVars
       ELSE /\ cached' = cached \cup {i}
            /\ Set(refCount, i, 1)
            /\ Set(ready, i, FALSE)
            /\ Set(pc, t, "load")
            /\ UNCHANGED linkCount
  /\ UNCHANGED <<fsVars, todo, opened>>

\* AcquireNode up to the release of nodeCacheLock; t then goes on at next, waits
\* until the node is ready, or reads it.
AcquireNode(t, i, next) ==
  /\ Set(then, t, next)
  /\ IF i \in cached
       THEN /\ Set(refCount, i, refCount[i] + 1)
            /\ Set(pc, t, IF ready[i] THEN next ELSE "wait")
            /\ UNCHANGED <<cached, linkCount, ready>>
       ELSE /\ cached' = cached \cup {i}
            /\ Set(refCount, i, 1)
            /\ Set(ready, i, FALSE)
            /\ Set(pc, t, "load")
            /\ UNCHANGED linkCount
  /\ UNCHANGED <<fsVars, todo, opened>>

AcquireRoot(t) ==
  /\ pc[t] = "root"
  /\ AcquireNode(t, Root, "walk")
  /\ Set(cur, t, Root)
  /\ UNCHANGED <<call, path, name, file, src>>

AcquireNext(t) ==
  /\ pc[t] = "next"
  /\ AcquireNode(t, file[t], "found")
  /\ UNCHANGED callVars

Wanted(t) == IF then[t] = "walk" THEN cur[t] ELSE file[t]

\* ReadNode: TempFS stores a link for its root and for no other node.  What it
\* makes of an id that is gone is not modelled.
ReadNode(t) ==
  /\ pc[t] = "load"
  /\ Wanted(t) \in stored
  /\ Set(linkCount, Wanted(t), IF Wanted(t) = Root THEN 1 ELSE 0)
  /\ Set(ready, Wanted(t), TRUE)
  /\ Set(pc, t, then[t])
  /\ UNCHANGED <<fsVars, cached, refCount, callVars, todo, then, opened>>

\* readyQueue.Lock returns.
NodeReady(t) ==
  /\ pc[t] = "wait"
  /\ ready[Wanted(t)]
  /\ Set(pc, t, then[t])
  /\ UNCHANGED <<fsVars, nodeVars, callVars, todo, then, opened>>

\* t releases the nodes of s one by one and goes on at next.
Release(t, s, next) ==
  /\ Set(todo, t, s)
  /\ Set(then, t, next)
  /\ Set(pc, t, "release")

\* The call ends after it has released s.
Return(t, s) ==
  /\ Release(t, s, "idle")
  /\ Set(path, t, <<>>)
  /\ Set(name, t, None)
  /\ Set(cur, t, None)
  /\ Set(file, t, None)
  /\ Set(src, t, None)
  /\ UNCHANGED <<fsVars, nodeVars, call>>

\* linkFileNode, where CreateHardLink holds it.
Source(t) == IF src[t] = None THEN <<>> ELSE <<src[t]>>
-------------------------------------------------------------------------------
\* The index of the first entry of directory d with name n, or 0.
Find(d, n) == SelectInSeq(dir[d], LAMBDA e : e.name = n)

\* fileHasToExist = false
MayCreate(t) == Makes(call[t]) /\ (call[t].op = "link" => src[t] # None)

\* _AcquirePathRec reads an entry under dirLock.
Walk(t) ==
  /\ pc[t] = "walk"
  /\ path[t] # <<>>
  /\ type[cur[t]] = "dir"
  /\ cur[t] \notin locked
  /\ LET k == Find(cur[t], Head(path[t]))
     IN  \/ /\ k # 0
            /\ Set(file, t, dir[cur[t]][k].id)
            /\ Set(pc, t, "next")
         \/ /\ k = 0
            /\ MayCreate(t) /\ Len(path[t]) = 1
            /\ Set(pc, t, "absent")
            /\ UNCHANGED file
  /\ Set(name, t, Head(path[t]))
  /\ Set(path, t, Tail(path[t]))
  /\ UNCHANGED <<fsVars, nodeVars, call, cur, src, todo, then, opened>>

\* The walk fails: cur is no directory or may not be searched, the name is not
\* there, or the path is that of the mount point itself.
WalkFails(t) ==
  /\ pc[t] = "walk"
  /\ Return(t, <<cur[t]>> \o Source(t))
  /\ UNCHANGED opened

\* The walk goes on below the node it found.
Descend(t) ==
  /\ pc[t] = "found"
  /\ path[t] # <<>>
  /\ type[file[t]] # "symlink"
  /\ Release(t, <<cur[t]>>, "walk")
  /\ Set(cur, t, file[t])
  /\ Set(file, t, None)
  /\ UNCHANGED <<fsVars, nodeVars, call, path, name, src, opened>>

\* Mutant: the walk starts again with the path it had.
FollowLinkAgain(t) ==
  /\ pc[t] = "found"
  /\ type[file[t]] = "symlink"
  /\ path[t] # <<>> \/ ~KeepsLink(call[t])
  /\ Release(t, <<file[t], cur[t]>>, "root")
  /\ Set(path, t, <<name[t]>> \o path[t])
  /\ Set(cur, t, None)
  /\ Set(file, t, None)
  /\ UNCHANGED <<fsVars, nodeVars, call, name, src, opened>>

\* A link is replaced by its path, and the walk starts again.
FollowLink(t) ==
  /\ pc[t] = "found"
  /\ type[file[t]] = "symlink"
  /\ path[t] # <<>> \/ ~KeepsLink(call[t])
  /\ IF Len(path[t]) > MaxRest
       THEN Return(t, <<file[t], cur[t]>> \o Source(t))
       ELSE /\ Release(t, <<file[t], cur[t]>>, "root")
            /\ Set(path, t, LinkPath \o path[t])
            /\ Set(cur, t, None)
            /\ Set(file, t, None)
            /\ UNCHANGED <<fsVars, nodeVars, call, name, src>>
  /\ UNCHANGED opened

\* AcquirePath returned with the node the path names.
Resolved(t) ==
  /\ pc[t] = "found"
  /\ path[t] = <<>>
  /\ type[file[t]] # "symlink" \/ KeepsLink(call[t])
-------------------------------------------------------------------------------
\* Stat, List, ChangeOwner and ChangePermissions: look at the node and return.
Stat(t) ==
  /\ Resolved(t)
  /\ call[t].op \in {"stat", "statl"}
  /\ Return(t, <<cur[t], file[t]>>)
  /\ UNCHANGED opened

\* Mutant: Open gives the reference of the file back.
OpenReleased(t) ==
  /\ Resolved(t)
  /\ call[t].op \in {"open", "opencreate"}
  /\ type[file[t]] # "dir"
  /\ Set(opened, t, file[t])
  /\ Return(t, <<cur[t], file[t]>>)

\* Open keeps the reference of the file for its descriptor.
Open(t) ==
  /\ Resolved(t)
  /\ call[t].op \in {"open", "opencreate"}
  /\ type[file[t]] # "dir"
  /\ Set(opened, t, file[t])
  /\ Return(t, <<cur[t]>>)

\* Open fails: a folder, no permission, or a file that should not exist; the
\* other calls that create find that the name exists.
Exists(t) ==
  /\ Resolved(t)
  /\ Makes(call[t]) \/ call[t].op = "open"
  /\ call[t].op = "link" => src[t] # None \/ type[file[t]] = "dir"
  /\ Return(t, Source(t) \o <<cur[t], file[t]>>)
  /\ UNCHANGED opened

\* CreateHardLink holds the node and walks the path of the new name.
LinkFrom(t) ==
  /\ Resolved(t)
  /\ call[t].op = "link"
  /\ src[t] = None
  /\ type[file[t]] # "dir"
  /\ Release(t, <<cur[t]>>, "root")
  /\ Set(src, t, file[t])
  /\ Set(path, t, call[t].path)
  /\ Set(cur, t, None)
  /\ Set(file, t, None)
  /\ UNCHANGED <<fsVars, nodeVars, call, name, opened>>

\* CreateNode with the assignments behind it: a Node that nobody else can name.
\* That the address of a freed node comes back while a Node with it is still in
\* the cache is not modelled.
CreateNode(t, i) ==
  /\ pc[t] = "absent"
  /\ call[t].op # "link"
  /\ i \notin stored \cup cached
  /\ stored' = stored \cup {i}
  /\ Set(type, i, CASE call[t].op = "mkdir"   -> "dir"
                    [] call[t].op = "symlink" -> "symlink"
                    [] OTHER                  -> "file")
  /\ Set(dir, i, <<>>)
  /\ cached' = cached \cup {i}
  /\ Set(refCount, i, 1)
  /\ Set(linkCount, i, 1)
  /\ Set(ready, i, TRUE)
  /\ Set(file, t, i)
  /\ Set(pc, t, "add")
  /\ UNCHANGED <<locked, raced, lost, call, path, name, cur, src, todo, then, opened>>

\* Mutant: the new name is not counted.
LinkIncForgotten(t) ==
  /\ pc[t] = "absent"
  /\ call[t].op = "link"
  /\ Set(file, t, src[t])
  /\ Set(src, t, None)
  /\ Set(pc, t, "add")
  /\ UNCHANGED <<fsVars, nodeVars, call, path, name, cur, todo, then, opened>>

\* CreateHardLink counts the name before it enters it.
LinkInc(t) ==
  /\ pc[t] = "absent"
  /\ call[t].op = "link"
  /\ Set(linkCount, src[t], linkCount[src[t]] + 1)
  /\ Set(file, t, src[t])
  /\ Set(src, t, None)
  /\ Set(pc, t, "add")
  /\ UNCHANGED <<fsVars, cached, refCount, ready, call, path, name, cur, todo,
                 then, opened>>

\* The folder may not be written.
Denied(t) ==
  /\ pc[t] = "absent"
  /\ Return(t, Source(t) \o <<cur[t]>>)
  /\ UNCHANGED opened

\* AddEntry under the dirLock of the folder.  Open goes on with the new file.
AddEntry(t) ==
  /\ pc[t] = "add"
  /\ cur[t] \notin locked
  /\ Set(dir, cur[t], Append(dir[cur[t]], [name |-> name[t], id |-> file[t]]))
  /\ IF call[t].op = "opencreate"
       THEN /\ Set(pc, t, "found")
            /\ UNCHANGED <<callVars, todo, then>>
       ELSE /\ Release(t, <<cur[t], file[t]>>, "idle")
            /\ Set(name, t, None)
            /\ Set(cur, t, None)
            /\ Set(file, t, None)
            /\ UNCHANGED <<call, path, src>>
  /\ UNCHANGED <<stored, type, locked, raced, lost, nodeVars, opened>>
-------------------------------------------------------------------------------
\* Mutant: folders are removed with what is in them.
DeleteCheckNone(t) ==
  /\ Resolved(t)
  /\ call[t].op = "delete"
  /\ \/ Set(pc, t, "unlink") /\ UNCHANGED <<fsVars, nodeVars, callVars, todo, then>>
     \/ Return(t, <<cur[t], file[t]>>)
  /\ UNCHANGED opened

\* Delete looks whether it may remove the node: the parent may be written, and a
\* folder has to be empty.
DeleteCheck(t) ==
  /\ Resolved(t)
  /\ call[t].op = "delete"
  /\ \/ /\ type[file[t]] = "dir" => file[t] \notin locked /\ dir[file[t]] = <<>>
        /\ Set(pc, t, "unlink")
        /\ UNCHANGED <<fsVars, nodeVars, callVars, todo, then>>
     \/ /\ type[file[t]] = "dir" /\ file[t] \notin locked /\ dir[file[t]] # <<>>
        /\ Return(t, <<file[t], cur[t]>>)
     \/ Return(t, <<cur[t], file[t]>>)
  /\ UNCHANGED opened

\* Delete looks the name up again and removes the entry.  If it is gone, Delete
\* returns with dirLock held and leaves both references behind.
Unlink(t) ==
  /\ pc[t] = "unlink"
  /\ cur[t] \notin locked
  /\ LET k == Find(cur[t], name[t])
     IN  IF k # 0
           THEN /\ Set(dir, cur[t], RemoveAt(dir[cur[t]], k))
                /\ Set(pc, t, "unlinked")
                /\ UNCHANGED <<stored, type, locked, raced, lost, callVars>>
           ELSE /\ locked' = locked \cup {cur[t]}
                /\ lost' = [[lost EXCEPT ![cur[t]] = @ + 1] EXCEPT ![file[t]] = @ + 1]
                /\ Set(pc, t, "idle")
                /\ Set(call, t, NoCall)
                /\ Set(name, t, None)
                /\ Set(cur, t, None)
                /\ Set(file, t, None)
                /\ UNCHANGED <<stored, type, dir, raced, path, src>>
  /\ UNCHANGED <<nodeVars, todo, then, opened>>

\* A linkCount below 0 stands for a wrapped one: the code only compares it with 0.
LinkDec(t) ==
  /\ pc[t] = "unlinked"
  /\ Set(linkCount, file[t], linkCount[file[t]] - 1)
  /\ Release(t, <<file[t], cur[t]>>, "idle")
  /\ Set(name, t, None)
  /\ Set(cur, t, None)
  /\ Set(file, t, None)
  /\ UNCHANGED <<fsVars, cached, refCount, ready, call, path, src, opened>>

\* Close of the last descriptor.
Close(t) ==
  /\ pc[t] = "idle"
  /\ opened[t] # None
  /\ Release(t, <<opened[t]>>, "idle")
  /\ Set(opened, t, None)
  /\ Set(call, t, NoCall)
  /\ UNCHANGED <<fsVars, nodeVars, path, name, cur, file, src>>

\* Mutant: a node without names goes although it is in use.
LastReferenceUnnamed(n) == linkCount[n] = 0

\* ReleaseNode gives the last reference of a node without names back.
LastReference(n) == refCount[n] = 1 /\ linkCount[n] = 0

\* The next node of todo is done; after the last one t goes on or returns.
Done(t) ==
  /\ Set(todo, t, Tail(todo[t]))
  /\ Set(pc, t, IF Len(todo[t]) = 1 THEN then[t] ELSE "release")
  /\ Set(call, t, IF Len(todo[t]) = 1 /\ then[t] = "idle" THEN NoCall ELSE call[t])

\* ReleaseNode under nodeCacheLock; a node that is neither used nor named leaves
\* the cache.
ReleaseNode(t) ==
  /\ pc[t] = "release"
  /\ LET n == Head(todo[t])
     IN  /\ Set(refCount, n, refCount[n] - 1)
         /\ IF LastReference(n)
              THEN /\ cached' = cached \ {n}
                   /\ Set(pc, t, "destroy")
                   /\ UNCHANGED <<todo, call>>
              ELSE Done(t) /\ UNCHANGED cached
  /\ UNCHANGED <<fsVars, linkCount, ready, path, name, cur, file, src, then, opened>>

\* DestroyNode, after nodeCacheLock is released.
DestroyNode(t) ==
  /\ pc[t] = "destroy"
  /\ stored' = stored \ {Head(todo[t])}
  /\ Done(t)
  /\ UNCHANGED <<type, dir, locked, raced, lost, nodeVars, path, name, cur, file, src, then, opened>>

Step(t) ==
  \/ AcquireRoot(t) \/ AcquireNext(t) \/ ReadNode(t) \/ NodeReady(t)
  \/ Walk(t) \/ WalkFails(t) \/ Descend(t) \/ FollowLink(t)
  \/ Stat(t) \/ Open(t) \/ Exists(t) \/ LinkFrom(t)
  \/ \E i \in Id : CreateNode(t, i)
  \/ LinkInc(t) \/ Denied(t) \/ AddEntry(t)
  \/ DeleteCheck(t) \/ Unlink(t) \/ LinkDec(t)
  \/ ReleaseNode(t) \/ DestroyNode(t)

Next == \E t \in Thread : Step(t) \/ Close(t) \/ \E c \in Call : Begin(t, c)

\* A thread in a call is given the processor again and again (ReadyRuns of module
\* Scheduler).
Fairness == \A t \in Thread : WF_vars(Step(t))

Spec == Init /\ [][Next]_vars /\ Fairness
-------------------------------------------------------------------------------
\* The k-th node that t will release is n; at "destroy" the first is given back.
Owes(t, k, n) ==
  k <= Len(todo[t]) /\ todo[t][k] = n /\ (pc[t] = "destroy" => k # 1)

\* References that threads and descriptors hold on node n; at "next" t knows an
\* id and holds nothing.
References(n) ==
    Cardinality({t \in Thread : cur[t] = n})
  + Cardinality({t \in Thread : file[t] = n /\ pc[t] # "next"})
  + Cardinality({t \in Thread : src[t] = n})
  + Cardinality({t \in Thread : opened[t] = n})
  + Cardinality({q \in Thread \X (1 .. 3) : Owes(q[1], q[2], n)})

\* refCount of a Node is the number of references that calls and descriptors hold
\* and of those that calls have left behind: on every path of every call, failing
\* and racing ones included, what is acquired is released exactly once
\* (AcquireNode, ReleaseNode), but for the return of Delete that finds the name
\* gone (VFS.cpp:932).
RefCountExact == \A n \in cached : refCount[n] = References(n) + lost[n]

\* No Node is deleted while somebody holds a reference of it, and what a call
\* looks at has been read (ReleaseNode, AcquireNode with readyQueue), whatever
\* calls run at the same time.
HeldNodeAlive ==
  /\ \A n \in NodeId \ cached : References(n) = 0 /\ lost[n] = 0
  /\ \A t \in Thread : pc[t] \notin {"load", "wait"} /\ cur[t] # None => ready[cur[t]]

\* While no calls in conflict have run at the same time, linkCount is "how often
\* this node is referenced by directory entries", give or take the calls that have
\* changed one of the two and will change the other.
LinkCountExact ==
  raced = 0 => \A n \in cached \ {Root} : ready[n] =>
    linkCount[n] =
        Cardinality(UNION {{<<d, k>> : k \in {j \in 1 .. Len(dir[d]) : dir[d][j].id = n}}
                             : d \in stored})
      + Cardinality({t \in Thread : pc[t] \in {"add", "unlinked"} /\ file[t] = n})

\* ReadNode is called only for a node of the file system that somebody
\* references, so it reads memory that is not freed.
ReadsStoredNode ==
  \A t \in Thread : pc[t] = "load" => Wanted(t) \in stored

\* The entries of the directories that exist.
Links ==
  UNION {{[dir |-> d, name |-> dir[d][k].name, id |-> dir[d][k].id] :
            k \in 1 .. Len(dir[d])} : d \in stored}

N == INSTANCE NameSpace WITH exists <- stored, links <- Links

\* While no calls in conflict have run at the same time, the calls together give a
\* name space: names are unique, name files that exist, and a file lives until its
\* last name and its last descriptor are gone.
ImplementsNames == N!Init /\ [][raced = 0 => N!Next]_(N!vars)

\* LinkPath leads to a link, and so to itself.
LinkCycle ==
  \E e \in Range(dir[Root]) : <<e.name>> = LinkPath /\ type[e.id] = "symlink"

\* Every call returns, also one that waits for a node another thread reads, unless
\* it meets a cycle of links, which AcquirePath follows without a limit, or calls
\* in conflict have run at the same time.
CallReturns ==
  \A t \in Thread : pc[t] # "idle" ~> pc[t] = "idle" \/ LinkCycle \/ raced > 0
===============================================================================
