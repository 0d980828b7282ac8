---------------------------- MODULE QueueLockProofs ----------------------------
(***************************************************************************)
(* QueueLock keeps its permits, never loses a wakeup and implements        *)
(* FairSemaphore, for any number of threads and permits.                   *)
(***************************************************************************)
EXTENDS QueueLock, AnchorListProofs, FiniteSetTheorems

\* Only a thread that asked is on the queue; one that left ThreadBlock's first
\* half is on it exactly as long as it is blocked; and a thread between
\* m_Lock.Unlock and ThreadBlock still has the processor.
QueueInv ==
  /\ \A t \in queue.elems : pc[t] \in {"block", "wait"}
  /\ \A t \in Thread : pc[t] = "block" => t = current /\ t \in queue.elems
  /\ \A t \in queue.elems : pc[t] = "wait" => t \in blocked
  /\ \A t \in blocked : pc[t] = "wait"
  /\ current \notin blocked

LInv == TypeOK /\ QueueInv /\ NoLostWakeup /\ NoIdlePermit /\ PermitsConserved

\* The constructor.
LEMMA LockInit == Init => LInv
<1> SUFFICES ASSUME Init PROVE LInv
  OBVIOUS
<1> USE QueueLockAssumption DEF Init
<1>1. TypeOK
  BY DEF TypeOK, EmptyList, IsList
<1>2. QueueInv /\ NoLostWakeup /\ NoIdlePermit
  BY DEF QueueInv, NoLostWakeup, NoIdlePermit, EmptyList
<1>3. Owners = {}
  BY DEF Owners
<1>4. PermitsConserved
  BY <1>3, FS_EmptySet DEF PermitsConserved
<1> QED
  BY <1>1, <1>2, <1>4 DEF LInv

\* Owners is a set of threads, so its cardinality is a natural number that a new
\* owner raises, and one that leaves lowers, by 1.
LEMMA OwnersFinite ==
  /\ IsFiniteSet(Owners)
  /\ Cardinality(Owners) \in Nat
  /\ \A t \in Thread \ Owners : Cardinality(Owners \cup {t}) = Cardinality(Owners) + 1
  /\ \A t \in Owners : Cardinality(Owners \ {t}) = Cardinality(Owners) - 1
<1>1. IsFiniteSet(Owners)
  BY QueueLockAssumption, FS_Subset DEF Owners
<1> QED
  BY <1>1, FS_CardinalityType, FS_AddElement, FS_RemoveElement

\* A change of the owners together with the count keeps the sum.
LEMMA StepInv ==
  ASSUME LInv, [Next]_vars
  PROVE  LInv'
<1> USE QueueLockAssumption DEF LInv
<1>1. ASSUME NEW t \in Thread \cup {Other}, Tick(t)
      PROVE  LInv'
  <2> USE <1>1 DEF Tick
  <2>1. TypeOK' /\ QueueInv' /\ NoLostWakeup' /\ NoIdlePermit'
    BY DEF TypeOK, QueueInv, NoLostWakeup, NoIdlePermit, Ready, Sticky
  <2>2. PermitsConserved'
    BY DEF PermitsConserved, Owners
  <2> QED
    BY <2>1, <2>2
<1>2. ASSUME NEW t \in Thread, LockFast(t)
      PROVE  LInv'
  <2> USE <1>2 DEF LockFast
  <2>1. TypeOK' /\ QueueInv' /\ NoLostWakeup' /\ NoIdlePermit'
    BY DEF TypeOK, QueueInv, NoLostWakeup, NoIdlePermit
  <2>2. t \notin Owners /\ Owners' = Owners \cup {t}
    BY DEF TypeOK, Owners
  <2>3. PermitsConserved'
    BY <2>2, OwnersFinite DEF PermitsConserved, TypeOK
  <2> QED
    BY <2>1, <2>3
<1>3. ASSUME NEW t \in Thread, LockQueue(t)
      PROVE  LInv'
  <2> USE <1>3 DEF LockQueue
  <2>1. /\ t \notin queue.elems
        /\ IsList(queue') /\ queue'.elems = queue.elems \cup {t}
    BY PushBackList DEF TypeOK, QueueInv
  <2>2. TypeOK' /\ QueueInv' /\ NoLostWakeup' /\ NoIdlePermit'
    BY <2>1 DEF TypeOK, QueueInv, NoLostWakeup, NoIdlePermit
  <2>3. Owners' = Owners
    BY <2>1 DEF TypeOK, Owners
  <2> QED
    BY <2>2, <2>3 DEF PermitsConserved
<1>4. ASSUME NEW t \in Thread, Block(t)
      PROVE  LInv'
  <2> USE <1>4 DEF Block
  <2>1. TypeOK' /\ QueueInv' /\ NoLostWakeup' /\ NoIdlePermit'
    BY DEF TypeOK, QueueInv, NoLostWakeup, NoIdlePermit, Ready
  <2>2. Owners' = Owners
    BY DEF TypeOK, QueueInv, Owners
  <2> QED
    BY <2>1, <2>2 DEF PermitsConserved
<1>5. ASSUME NEW t \in Thread, Resume(t)
      PROVE  LInv'
  <2> USE <1>5 DEF Resume
  <2>1. TypeOK' /\ QueueInv' /\ NoLostWakeup' /\ NoIdlePermit'
    BY DEF TypeOK, QueueInv, NoLostWakeup, NoIdlePermit
  <2>2. Owners' = Owners
    BY DEF TypeOK, QueueInv, Owners
  <2> QED
    BY <2>1, <2>2 DEF PermitsConserved
<1>6. ASSUME NEW t \in Thread, Unlock(t)
      PROVE  LInv'
  <2> USE <1>6 DEF Unlock
  <2>1. CASE queue.elems = {} /\ count' = count + 1 /\ UNCHANGED <<queue, blocked>>
    <3>1. TypeOK' /\ QueueInv' /\ NoLostWakeup' /\ NoIdlePermit'
      BY <2>1 DEF TypeOK, QueueInv, NoLostWakeup, NoIdlePermit
    <3>2. t \in Owners /\ Owners' = Owners \ {t}
      BY <2>1 DEF TypeOK, Owners
    <3> QED
      BY <2>1, <3>1, <3>2, OwnersFinite DEF PermitsConserved, TypeOK
  <2>2. ASSUME NEW w \in queue.elems, queue' = Erase(queue, {w}),
               blocked' = blocked \ {w}, UNCHANGED count
        PROVE  LInv'
    <3>1. IsList(queue') /\ queue'.elems = queue.elems \ {w}
      BY <2>2, EraseList DEF TypeOK
    <3>2. w \in Thread /\ pc[w] = "wait" /\ w # t
      BY <2>2 DEF QueueInv, TypeOK
    <3>3. TypeOK' /\ QueueInv' /\ NoLostWakeup' /\ NoIdlePermit'
      BY <2>2, <3>1, <3>2 DEF TypeOK, QueueInv, NoLostWakeup, NoIdlePermit
    <3>4. t \in Owners /\ w \notin Owners /\ Owners' = (Owners \ {t}) \cup {w}
      BY <2>2, <3>1, <3>2 DEF TypeOK, Owners
    <3>5. Cardinality(Owners') = Cardinality(Owners)
      <4>1. Cardinality(Owners \ {t}) = Cardinality(Owners) - 1
        BY <3>4, OwnersFinite
      <4>2. IsFiniteSet(Owners \ {t}) /\ w \notin Owners \ {t}
        BY <3>4, OwnersFinite, FS_Subset
      <4>3. Cardinality((Owners \ {t}) \cup {w}) = Cardinality(Owners \ {t}) + 1
        BY <4>2, FS_AddElement
      <4> QED
        BY <3>4, <4>1, <4>3, OwnersFinite
    <3> QED
      BY <2>2, <3>3, <3>5 DEF PermitsConserved
  <2> QED
    BY <2>1, <2>2 DEF GiveBack
<1>7. ASSUME Signal
      PROVE  LInv'
  <2> USE <1>7 DEF Signal
  <2>1. CASE queue.elems = {} /\ count' = count + 1 /\ UNCHANGED <<queue, blocked>>
    <3>1. TypeOK' /\ QueueInv' /\ NoLostWakeup' /\ NoIdlePermit'
      BY <2>1 DEF TypeOK, QueueInv, NoLostWakeup, NoIdlePermit
    <3>2. Owners' = Owners
      BY <2>1 DEF Owners
    <3> QED
      BY <2>1, <3>1, <3>2, OwnersFinite DEF PermitsConserved, TypeOK
  <2>2. ASSUME NEW w \in queue.elems, queue' = Erase(queue, {w}),
               blocked' = blocked \ {w}, UNCHANGED count
        PROVE  LInv'
    <3>1. IsList(queue') /\ queue'.elems = queue.elems \ {w}
      BY <2>2, EraseList DEF TypeOK
    <3>2. w \in Thread /\ pc[w] = "wait"
      BY <2>2 DEF QueueInv, TypeOK
    <3>3. TypeOK'
      BY <2>2, <3>1 DEF TypeOK
    <3>4. QueueInv'
      BY <2>2, <3>1 DEF TypeOK, QueueInv
    <3>5. NoLostWakeup' /\ NoIdlePermit'
      BY <2>2, <3>1 DEF NoLostWakeup, NoIdlePermit
    <3>6. w \notin Owners /\ Owners' = Owners \cup {w}
      BY <2>2, <3>1, <3>2 DEF TypeOK, Owners, QueueInv
    <3>7. Cardinality(Owners') = Cardinality(Owners) + 1
      BY <3>2, <3>6, OwnersFinite
    <3>8. PermitsConserved'
      BY <2>2, <3>7, OwnersFinite DEF PermitsConserved, TypeOK
    <3> QED
      BY <3>3, <3>4, <3>5, <3>8
  <2> QED
    BY <2>1, <2>2 DEF GiveBack
<1>8. CASE UNCHANGED vars
  BY <1>8 DEF vars, TypeOK, QueueInv, NoLostWakeup, NoIdlePermit,
     PermitsConserved, Owners
<1> QED
  BY <1>1, <1>2, <1>3, <1>4, <1>5, <1>6, <1>7, <1>8 DEF Next

\* LInv is an inductive invariant of the lock.
THEOREM LockInductive == Spec => []LInv
<1>1. Init => LInv
  BY LockInit
<1>2. LInv /\ [Next]_vars => LInv'
  BY StepInv
<1> QED
  BY <1>1, <1>2, PTL DEF Spec

\* m_Queue stays one chain of threads, each of which is linked once.
THEOREM LockTypeCorrect == Spec => []TypeOK
<1>1. LInv => TypeOK
  BY DEF LInv
<1> QED
  BY <1>1, LockInductive, PTL

\* Lock and Unlock neither lose a permit nor make one up: as many threads are
\* between Lock and Unlock as permits were taken.
THEOREM PermitsKept == Spec => []PermitsConserved
<1>1. LInv => PermitsConserved
  BY DEF LInv
<1> QED
  BY <1>1, LockInductive, PTL

\* A thread blocked in Lock is always on the queue that Unlock serves.
THEOREM WakeupKept == Spec => [](NoLostWakeup /\ NoIdlePermit)
<1>1. LInv => NoLostWakeup /\ NoIdlePermit
  BY DEF LInv
<1> QED
  BY <1>1, LockInductive, PTL

\* Lock never queues a thread while a permit is left, and Unlock and Signal leave
\* none idle while one waits.
THEOREM NoPermitIdle == Spec => []NoIdlePermit
<1>1. LInv => NoIdlePermit
  BY DEF LInv
<1> QED
  BY <1>1, LockInductive, PTL

\* QueueLock implements a semaphore that serves in the order of arrival.
THEOREM LockRefines == Spec => ImplementsSemaphore
<1> USE QueueLockAssumption
<1>1. Init => S!Init
  <2>1. Init => Owners = {}
    BY DEF Init, Owners
  <2> QED
    BY <2>1 DEF Init, S!Init, EmptyList, S!EmptyList
<1>2. LInv /\ LInv' /\ [Next]_vars => [S!Next]_(S!sem)
  <2> SUFFICES ASSUME LInv, LInv', [Next]_vars PROVE [S!Next]_(S!sem)
    OBVIOUS
  <2> USE DEF LInv, S!sem
  <2>1. ASSUME NEW t \in Thread \cup {Other}, Tick(t)
        PROVE  UNCHANGED S!sem
    BY <2>1 DEF Tick, Owners
  <2>2. ASSUME NEW t \in Thread, LockFast(t)
        PROVE  S!Take(t)
    <3>1. t \notin Owners \cup queue.elems /\ Owners' = Owners \cup {t}
      BY <2>2 DEF LockFast, Owners, TypeOK, QueueInv
    <3> QED
      BY <2>2, <3>1 DEF LockFast, S!Take
  <2>3. ASSUME NEW t \in Thread, LockQueue(t)
        PROVE  S!Wait(t)
    <3>1. t \notin queue.elems /\ queue'.elems = queue.elems \cup {t}
      BY <2>3, PushBackList DEF LockQueue, TypeOK, QueueInv
    <3>2. t \notin Owners /\ Owners' = Owners
      BY <2>3, <3>1 DEF LockQueue, Owners, TypeOK
    <3> QED
      BY <2>3, <3>1, <3>2 DEF LockQueue, S!Wait, PushBack, S!PushBack
  <2>4. ASSUME NEW t \in Thread, Block(t) \/ Resume(t)
        PROVE  UNCHANGED S!sem
    <3>1. Owners' = Owners
      BY <2>4 DEF Block, Resume, Owners, TypeOK, QueueInv
    <3> QED
      BY <2>4, <3>1 DEF Block, Resume
  <2>5. ASSUME NEW R,
               Owners \ R = {u \in Thread : pc'[u] = "in"
                                 \/ (pc'[u] = "wait" /\ u \notin queue.elems)},
               NEW w \in queue.elems, queue' = Erase(queue, {w}), pc'[w] = "wait"
        PROVE  Owners' = (Owners \ R) \cup {w}
    <3>1. queue'.elems = queue.elems \ {w} /\ w \in Thread
      BY <2>5, EraseList DEF TypeOK
    <3> QED
      BY <2>5, <3>1 DEF Owners
  <2>6. ASSUME NEW t \in Thread, Unlock(t)
        PROVE  S!Release(t)
    <3>1. t \in Owners /\ Owners \ {t} = {u \in Thread : pc'[u] = "in"
                                 \/ (pc'[u] = "wait" /\ u \notin queue.elems)}
      BY <2>6 DEF Unlock, Owners, TypeOK
    <3>2. \A w \in queue.elems : pc'[w] = "wait"
      BY <2>6 DEF Unlock, QueueInv, TypeOK
    <3>3. CASE queue.elems = {} /\ count' = count + 1 /\ UNCHANGED queue
      BY <3>1, <3>3 DEF S!Release, S!Give, Owners
    <3>4. ASSUME NEW w \in queue.elems, IsFirstIn(queue, queue.elems, w),
                 queue' = Erase(queue, {w}), UNCHANGED count
          PROVE  S!Release(t)
      <4>1. Owners' = (Owners \ {t}) \cup {w}
        BY <2>5, <3>1, <3>2, <3>4
      <4> QED
        BY <3>1, <3>4, <4>1
           DEF S!Release, S!Give, Erase, S!Erase, IsFirstIn, S!IsFirstIn
    <3> QED
      BY <2>6, <3>3, <3>4 DEF Unlock, GiveBack
  <2>7. ASSUME Signal
        PROVE  S!Signal
    <3>1. Owners \ {} = {u \in Thread : pc'[u] = "in"
                                 \/ (pc'[u] = "wait" /\ u \notin queue.elems)}
      BY <2>7 DEF Signal, Owners
    <3>2. \A w \in queue.elems : pc'[w] = "wait"
      BY <2>7 DEF Signal, QueueInv, TypeOK
    <3>3. CASE queue.elems = {} /\ count' = count + 1 /\ UNCHANGED queue
      BY <3>1, <3>3 DEF S!Signal, S!Give, Owners
    <3>4. ASSUME NEW w \in queue.elems, IsFirstIn(queue, queue.elems, w),
                 queue' = Erase(queue, {w}), UNCHANGED count
          PROVE  S!Signal
      <4>1. Owners' = (Owners \ {}) \cup {w}
        BY <2>5, <3>1, <3>2, <3>4
      <4> QED
        BY <3>4, <4>1
           DEF S!Signal, S!Give, Erase, S!Erase, IsFirstIn, S!IsFirstIn
    <3> QED
      BY <2>7, <3>3, <3>4 DEF Signal, GiveBack
  <2>8. CASE UNCHANGED vars
    BY <2>8 DEF vars, Owners
  <2> QED
    BY <2>1, <2>2, <2>3, <2>4, <2>6, <2>7, <2>8 DEF Next, S!Next
<1> QED
  BY <1>1, <1>2, LockInductive, PTL DEF Spec, ImplementsSemaphore, S!Spec
===============================================================================
