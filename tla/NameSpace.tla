------------------------------- MODULE NameSpace -------------------------------
(***************************************************************************)
(* What the calls of the VFS promise about files and their names: an entry  *)
(* names a file that exists, a directory is removed only when it is empty,  *)
(* and a file is freed only when no entry names it and nobody has it open.  *)
(***************************************************************************)
EXTENDS Integers

CONSTANTS Thread, Name, Id, Root, None

VARIABLES exists,  \* files that have not been freed
          links,   \* entries: [dir, name, id]
          opened   \* opened[t]: the file t has open, or None

vars == <<exists, links, opened>>

Entry == [dir : Id \cup {Root}, name : Name, id : Id]

Init ==
  /\ exists = {Root}
  /\ links = {}
  /\ opened = [t \in Thread |-> None]

\* A file that has no name yet.
Make(i) ==
  /\ i \notin exists
  /\ exists' = exists \cup {i}
  /\ UNCHANGED <<links, opened>>

\* A file gets a name that is not in use, in a directory that exists.
Enter(e) ==
  /\ e.id \in exists /\ e.dir \in exists
  /\ \A l \in links : ~(l.dir = e.dir /\ l.name = e.name)
  /\ links' = links \cup {e}
  /\ UNCHANGED <<exists, opened>>

\* A name is removed; no directory that still has entries loses its name.
Remove(e) ==
  /\ e \in links
  /\ \A l \in links : l.dir # e.id
  /\ links' = links \ {e}
  /\ UNCHANGED <<exists, opened>>

Open(t, i) ==
  /\ i \in {l.id : l \in links}
  /\ opened' = [opened EXCEPT ![t] = i]
  /\ UNCHANGED <<exists, links>>

Close(t) ==
  /\ opened' = [opened EXCEPT ![t] = None]
  /\ UNCHANGED <<exists, links>>

\* A file is freed when the last name and the last reference are gone.
Free(i) ==
  /\ i \in exists \ {Root}
  /\ \A l \in links : l.id # i /\ l.dir # i
  /\ \A t \in Thread : opened[t] # i
  /\ exists' = exists \ {i}
  /\ UNCHANGED <<links, opened>>

Next ==
  \/ \E i \in Id : Make(i) \/ Free(i)
  \/ \E e \in Entry : Enter(e) \/ Remove(e)
  \/ \E t \in Thread : Close(t) \/ \E i \in Id : Open(t, i)

Spec == Init /\ [][Next]_vars
===============================================================================
