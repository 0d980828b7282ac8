------------------------------- MODULE QueueLock -------------------------------
(***************************************************************************)
(* QueueLock (multicore/locks/QueueLock.cpp): a semaphore whose waiting    *)
(* threads block in the scheduler, state QUEUE_LOCK, until an Unlock hands *)
(* them the permit.  m_Lock is a StickyLock, so what it covers is one      *)
(* step; between m_Lock.Unlock and ThreadBlock a thread is protected only  *)
(* by the sticky count that Lock raises.  Round robin is left to module    *)
(* Scheduler: here any READY thread may come next.                         *)
(***************************************************************************)
EXTENDS AnchorList, Naturals, FiniteSets

CONSTANTS Thread,      \* the threads that use the lock
          Other,       \* any thread that does not; one is always READY
          Initial,     \* the argument of the constructor
          MaxPermits   \* bound: permits in the system, signalled ones included

ASSUME QueueLockAssumption ==
         /\ IsFiniteSet(Thread)
         /\ Other \notin Thread
         /\ Initial \in Nat
         /\ MaxPermits \in Nat

VARIABLES count,    \* m_Count
          queue,    \* m_Queue, by the thread of the entry
          blocked,  \* the threads in state QUEUE_LOCK
          current,  \* the running thread
          pc,       \* where a thread is in Lock
          permits   \* ghost: Initial plus the permits signalled

vars == <<count, queue, blocked, current, pc, permits>>

TypeOK ==
  /\ count \in Nat
  /\ IsList(queue)
  /\ queue.elems \subseteq Thread
  /\ blocked \subseteq Thread
  /\ current \in Thread \cup {Other}
  /\ pc \in [Thread -> {"out", "block", "wait", "in"}]
  /\ permits \in Nat

Init ==
  /\ count = Initial
  /\ queue = EmptyList
  /\ blocked = {}
  /\ current = Other
  /\ pc = [t \in Thread |-> "out"]
  /\ permits = Initial

Ready == (Thread \cup {Other}) \ blocked

\* Mutant: Lock does not call ThreadSetSticky.
NotSticky == {}

\* Threads with a raised sticky count, until ThreadBlock has returned: the timer
\* does not take the processor from them.
Sticky == {t \in Thread : pc[t] \in {"block", "wait"}}

\* The timer gives the processor to another thread.
Tick(t) ==
  /\ current \notin Sticky
  /\ t \in Ready \ {current}
  /\ current' = t
  /\ UNCHANGED <<count, queue, blocked, pc, permits>>

\* Mutant: Lock takes a permit when the count is 0.
LockFastZero(t) ==
  /\ current = t
  /\ pc[t] = "out"
  /\ count >= 0
  /\ count' = count - 1
  /\ pc' = [pc EXCEPT ![t] = "in"]
  /\ UNCHANGED <<queue, blocked, current, permits>>

\* Lock when there is a permit.
LockFast(t) ==
  /\ current = t
  /\ pc[t] = "out"
  /\ count > 0
  /\ count' = count - 1
  /\ pc' = [pc EXCEPT ![t] = "in"]
  /\ UNCHANGED <<queue, blocked, current, permits>>

\* Mutant: the thread queues whatever the count is.
LockQueueAlways(t) ==
  /\ current = t
  /\ pc[t] = "out"
  /\ queue' = PushBack(queue, t)
  /\ pc' = [pc EXCEPT ![t] = "block"]
  /\ UNCHANGED <<count, blocked, current, permits>>

\* Lock when there is none: the thread enters the queue, sticky.
LockQueue(t) ==
  /\ current = t
  /\ pc[t] = "out"
  /\ count = 0
  /\ queue' = PushBack(queue, t)
  /\ pc' = [pc EXCEPT ![t] = "block"]
  /\ UNCHANGED <<count, blocked, current, permits>>

\* ThreadBlock(QUEUE_LOCK): the processor goes to some READY thread.
Block(t) ==
  /\ current = t
  /\ pc[t] = "block"
  /\ blocked' = blocked \cup {t}
  /\ current' \in Ready \ {t}
  /\ pc' = [pc EXCEPT ![t] = "wait"]
  /\ UNCHANGED <<count, queue, permits>>

\* ThreadBlock returns, and Lock with it.
Resume(t) ==
  /\ current = t
  /\ pc[t] = "wait"
  /\ pc' = [pc EXCEPT ![t] = "in"]
  /\ UNCHANGED <<count, queue, blocked, current, permits>>

\* Mutant: Unlock raises the count and hands the permit over as well.
GiveBackTwice ==
  /\ count' = count + 1
  /\ \/ queue.elems = {} /\ UNCHANGED <<queue, blocked>>
     \/ \E w \in queue.elems :
          /\ IsFirstIn(queue, queue.elems, w)
          /\ queue' = Erase(queue, {w})
          /\ blocked' = blocked \ {w}

\* Mutant: Unlock serves the queue from its back.
GiveBackLast ==
  \/ /\ queue.elems = {}
     /\ count' = count + 1
     /\ UNCHANGED <<queue, blocked>>
  \/ \E w \in queue.elems :
       /\ \A u \in queue.elems : <<w, u>> \notin queue.before
       /\ queue' = Erase(queue, {w})
       /\ blocked' = blocked \ {w}
       /\ UNCHANGED count

\* Mutant: Unlock does not make the first thread READY.
GiveBackAsleep ==
  \/ /\ queue.elems = {}
     /\ count' = count + 1
     /\ UNCHANGED <<queue, blocked>>
  \/ \E w \in queue.elems :
       /\ IsFirstIn(queue, queue.elems, w)
       /\ queue' = Erase(queue, {w})
       /\ UNCHANGED <<count, blocked>>

\* The body of Unlock: the first thread of the queue becomes READY, and the
\* permit is its own; without one the count goes up.
GiveBack ==
  \/ /\ queue.elems = {}
     /\ count' = count + 1
     /\ UNCHANGED <<queue, blocked>>
  \/ \E w \in queue.elems :
       /\ IsFirstIn(queue, queue.elems, w)
       /\ queue' = Erase(queue, {w})
       /\ blocked' = blocked \ {w}
       /\ UNCHANGED count

\* A thread that has a permit gives it back.
Unlock(t) ==
  /\ current = t
  /\ pc[t] = "in"
  /\ GiveBack
  /\ pc' = [pc EXCEPT ![t] = "out"]
  /\ UNCHANGED <<current, permits>>

\* AcpiOsSignalSemaphore calls Unlock without a permit, from a thread that
\* does not wait.
Signal ==
  /\ current = Other
  /\ permits < MaxPermits
  /\ GiveBack
  /\ permits' = permits + 1
  /\ UNCHANGED <<current, pc>>

Next ==
  \/ \E t \in Thread \cup {Other} : Tick(t)
  \/ \E t \in Thread : LockFast(t) \/ LockQueue(t) \/ Block(t) \/ Resume(t)
                         \/ Unlock(t)
  \/ Signal

\* Every READY thread gets the processor (ReadyRuns of module Scheduler), and
\* whoever has the lock runs on to its Unlock.
Fairness ==
  /\ \A t \in Thread : SF_vars(Tick(t))
  /\ \A t \in Thread : SF_vars(Block(t) \/ Resume(t) \/ Unlock(t))

Spec == Init /\ [][Next]_vars /\ Fairness
-------------------------------------------------------------------------------
\* A thread has a permit from LockFast, or from the Unlock that took it off the
\* queue, until its own Unlock.
Owners == {t \in Thread : pc[t] = "in"
                            \/ (pc[t] = "wait" /\ t \notin queue.elems)}

\* No permit is lost or made up by a hand-over: every one is in the count or with
\* a thread (Lock and Unlock).
PermitsConserved == count + Cardinality(Owners) = permits

\* A thread in state QUEUE_LOCK is on the queue: nobody else would ever make
\* it READY again (the comment "QUEUE_LOCK is uninterruptible" in Lock).
NoLostWakeup == blocked \subseteq queue.elems

\* A thread only waits while there is no permit left.
NoIdlePermit == queue.elems # {} => count = 0

\* A thread that entered the queue gets the permit and returns from Lock.
WaiterServed == \A t \in Thread : pc[t] = "block" ~> pc[t] = "in"

S == INSTANCE FairSemaphore WITH free <- count, line <- queue, owners <- Owners

\* Lock and Unlock implement a semaphore that serves in order of arrival.
ImplementsSemaphore == S!Spec
===============================================================================
